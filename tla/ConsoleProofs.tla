---------------------------- MODULE ConsoleProofs ----------------------------
(***************************************************************************)
(* Proofs about the console's grid, its users screen, the cards that peek  *)
(* through foreign keys and the answers about a table.  One inductive      *)
(* invariant for each.                                                     *)
(***************************************************************************)
EXTENDS ContentBrowser, UserDrawer, FkPeek, ContentDml, TLAPS, FiniteSetTheorems,
        SequenceTheorems, FunctionTheorems, WellFoundedInduction

\* A set without two members.
LEMMA AtMostOne == ASSUME NEW S, \A x, y \in S : x = y PROVE Cardinality(S) <= 1
<1>1. CASE S = {}
  BY <1>1, FS_EmptySet
<1>2. CASE S # {}
  <2>1. PICK x \in S : S = {x}
    BY <1>2
  <2>2. Cardinality({x}) = 1
    BY FS_Singleton
  <2> QED BY <2>1, <2>2
<1> QED BY <1>1, <1>2

-----------------------------------------------------------------------------
(* The content screen.                                                     *)

GridFetch == [view : Views, cancelled : BOOLEAN, stage : {"asked", "read"}, rows : SUBSET Keys,
              total : Nat]
RowWrite == [kind : {"insert", "update", "delete"}, table : Tables, of : Tables, key : Nat,
             mount : Nat, strayed : BOOLEAN, stage : {"sent", "done", "refused"}]
DrawerState == [mode : {"closed", "view", "edit", "new"}, of : Tables, key : Nat, mount : Nat]

\* The drawer's row is of the table in the URL, unless one strayed from the other.
DrawerFits(d) == d \in DrawerState /\ (d.mode # "closed" => d.of = url.table \/ strayed)
RowWriteFits(w) == w \in RowWrite /\ (w.kind # "insert" => w.table = w.of \/ w.strayed)

ContentInv ==
  /\ url \in Views /\ route \subseteq Views /\ (\A v, w \in route : v = w)
  /\ fetches \subseteq GridFetch
  /\ result \in [table : Tables, rows : SUBSET Keys, total : Nat]
  /\ DrawerFits(drawer) /\ \A w \in rowWrites : RowWriteFits(w)
  /\ stored \in [Tables -> SUBSET Keys] /\ {fetching, gridError, strayed} \subseteq BOOLEAN
  /\ clicks \in Nat

LEMMA PageExists ==
  ASSUME NEW t \in Nat PROVE LastPage(t) \in Nat \ {0}
<1> USE ContentAssumption DEF ContentAssumption
<1>1. CASE t = 0
  BY <1>1 DEF LastPage
<1>2. CASE t # 0
  <2> DEFINE a == t + PageRows - 1
  <2>1. a \in Nat /\ a >= PageRows /\ PageRows > 0
    BY <1>2
  <2>2. \A x, p \in Nat : p > 0 /\ x >= p => x \div p \in Nat /\ x \div p # 0
    BY SMT
  <2> QED BY <1>2, <2>1, <2>2 DEF LastPage
<1> QED BY <1>1, <1>2

LEMMA ViewsMatch ==
  ASSUME ContentInv, NEW v \in Views PROVE RowsOf(v) \subseteq Keys /\ Cardinality(Matches(v)) \in Nat
<1>1. Matches(v) \subseteq Keys
  BY DEF ContentInv, Matches, Views
<1>2. IsFiniteSet(Matches(v))
  BY <1>1, ContentAssumption, FS_Subset DEF ContentAssumption
<1> QED BY <1>1, <1>2, FS_CardinalityType DEF RowsOf

LEMMA RefetchKeeps == ASSUME ContentInv, url' \in Views, Refetch PROVE fetches' \subseteq GridFetch /\ fetching' = TRUE
<1> DEFINE new == [view |-> url', cancelled |-> FALSE, stage |-> "asked", rows |-> {}, total |-> 0]
<1>1. \A f \in GridFetch : [f EXCEPT !.cancelled = TRUE] \in GridFetch
  BY DEF GridFetch
<1>2. new \in GridFetch
  BY DEF GridFetch
<1>3. fetches' = {[f EXCEPT !.cancelled = TRUE] : f \in fetches} \cup {new} /\ fetching' = TRUE
  BY DEF Refetch, Fetched
<1> QED BY <1>1, <1>2, <1>3 DEF ContentInv

LEMMA ContentStarts == ContentInit => ContentInv
<1> SUFFICES ASSUME ContentInit PROVE ContentInv
  OBVIOUS
<1> USE ContentAssumption DEF ContentAssumption
<1>1. url \in Views /\ url.table \in Tables
  <2>1. PICK p \in 1..2 : url = [table |-> Start, page |-> p, narrow |-> FALSE]
    BY DEF ContentInit
  <2>2. p \in Nat \ {0}
    OBVIOUS
  <2> QED BY <2>1, <2>2 DEF Views
<1>2. [view |-> url, cancelled |-> FALSE, stage |-> "asked", rows |-> {}, total |-> 0] \in GridFetch
  BY <1>1 DEF GridFetch
<1>3. fetches \subseteq GridFetch
  BY <1>2 DEF ContentInit
<1>4. result \in [table : Tables, rows : SUBSET Keys, total : Nat]
  BY <1>1 DEF ContentInit
<1>5. DrawerFits(drawer)
  BY <1>1 DEF ContentInit, DrawerFits, Closed, DrawerState
<1>6. stored \in [Tables -> SUBSET Keys]
  BY DEF ContentInit
<1> QED BY <1>1, <1>3, <1>4, <1>5, <1>6 DEF ContentInit, ContentInv

\* The developer's clicks.
LEMMA ClicksKeep ==
  ASSUME ContentInv, SelectTable \/ ChangeView \/ OpenRow \/ OpenNew \/ EditRow \/ CloseDrawer
  PROVE  ContentInv'
<1> USE ContentAssumption DEF ContentAssumption
<1>0. clicks' = clicks + 1 /\ (route' = route \/ SelectTable \/ ChangeView)
  BY DEF SelectTable, ChangeView, OpenRow, OpenNew, EditRow, CloseDrawer, Drawer, Click
<1>1. /\ UNCHANGED <<url, fetches, result, fetching, rowWrites, stored, strayed>>
      /\ gridError' \in BOOLEAN /\ clicks' \in Nat
  <2>1. UNCHANGED <<url, fetches, result, fetching, rowWrites, stored, strayed>>
    BY DEF SelectTable, ChangeView, OpenRow, OpenNew, EditRow, CloseDrawer, Drawer
  <2>2. gridError' = gridError \/ gridError' = FALSE
    BY DEF SelectTable, ChangeView, OpenRow, OpenNew, EditRow, CloseDrawer, Drawer
  <2>3. clicks \in Nat /\ gridError \in BOOLEAN
    BY DEF ContentInv
  <2>4. clicks' \in Nat
    BY <1>0, <2>3
  <2> QED BY <2>1, <2>2, <2>3, <2>4
<1>2. route' \subseteq Views /\ (\A v, w \in route' : v = w)
  <2>1. CASE SelectTable
    <3>1. PICK t \in Tables, narrow \in BOOLEAN : route' = {[table |-> t, page |-> 1, narrow |-> narrow]}
      BY <2>1 DEF SelectTable, SetView
    <3> QED BY <3>1 DEF Views
  <2>2. CASE ChangeView
    <3>1. PICK v : /\ route' = {v}
                   /\ \/ url.page > 1 /\ v = [url EXCEPT !.page = @ - 1]
                      \/ v = [url EXCEPT !.page = @ + 1]
                      \/ v = [url EXCEPT !.narrow = ~@, !.page = 1]
      BY <2>2 DEF ChangeView, SetView
    <3>2. url \in Views /\ url.page \in Nat \ {0}
      BY DEF ContentInv, Views
    <3>3. url.page + 1 \in Nat \ {0} /\ (url.page > 1 => url.page - 1 \in Nat \ {0})
      BY <3>2
    <3>4. v \in Views
      <4>1. \A q \in Nat \ {0} : [url EXCEPT !.page = q] \in Views
        BY <3>2 DEF Views
      <4>2. ASSUME NEW z, z = [url EXCEPT !.narrow = ~@, !.page = 1] PROVE z \in Views
        <5>1. DOMAIN url = {"table", "page", "narrow"} /\ url.narrow \in {TRUE, FALSE}
          BY <3>2 DEF Views
        <5>2. z = [f \in {"table", "page", "narrow"} |-> z[f]]
          BY <4>2, <5>1
        <5>3. z.table = url.table /\ z.page = 1 /\ z.narrow \in {TRUE, FALSE}
          BY <4>2, <5>1
        <5>4. url.table \in Tables
          BY <3>2 DEF Views
        <5>5. z.page \in Nat \ {0}
          BY <5>3
        <5>6. z.narrow \in BOOLEAN
          BY <5>3, Zenon
        <5> QED BY <5>2, <5>3, <5>4, <5>5, <5>6 DEF Views
      <4> QED BY <3>1, <3>3, <4>1, <4>2
    <3> QED BY <3>1, <3>4
  <2> QED BY <1>0, <2>1, <2>2 DEF ContentInv
<1>3. DrawerFits(drawer)'
  <2>1. CASE SelectTable \/ CloseDrawer
    BY <1>1, <2>1 DEF SelectTable, CloseDrawer, Drawer, Closed, DrawerFits, DrawerState, ContentInv, Views
  <2>2. CASE ChangeView
    BY <1>1, <2>2 DEF ChangeView, DrawerFits, ContentInv
  <2>3. CASE OpenRow
    BY <1>1, <2>3 DEF OpenRow, Drawer, DrawerFits, DrawerState, ContentInv, GridRows, Fresh
  <2>4. CASE OpenNew
    BY <1>1, <2>4 DEF OpenNew, Drawer, DrawerFits, DrawerState, ContentInv, Views
  <2>5. CASE EditRow
    BY <1>1, <2>5 DEF EditRow, Drawer, DrawerFits, DrawerState, ContentInv
  <2> QED BY <2>1, <2>2, <2>3, <2>4, <2>5
<1>4. \A w \in rowWrites' : RowWriteFits(w)'
  BY <1>1 DEF ContentInv, RowWriteFits
<1> QED BY <1>1, <1>2, <1>3, <1>4 DEF ContentInv

LEMMA WriteClicksKeep == ASSUME ContentInv, SaveRow \/ DeleteRow PROVE ContentInv'
<1>1. PICK kind \in {"insert", "update", "delete"} :
        /\ Write(kind) /\ drawer.mode # "closed" /\ (kind # "insert" => drawer.mode # "new")
  BY DEF SaveRow, DeleteRow
<1> DEFINE w == [kind |-> kind, table |-> url.table, of |-> drawer.of, key |-> drawer.key,
                 mount |-> drawer.mount, strayed |-> strayed, stage |-> "sent"]
<1>2. RowWriteFits(w)
  BY <1>1 DEF ContentInv, DrawerFits, DrawerState, RowWriteFits, RowWrite, Views
<1>3. /\ rowWrites' = rowWrites \cup {w} /\ clicks' \in Nat
      /\ UNCHANGED <<url, route, fetches, result, fetching, gridError, drawer, stored, strayed>>
  BY <1>1 DEF Write, Click, ContentInv
<1>4. \A x \in rowWrites' : RowWriteFits(x)'
  BY <1>2, <1>3 DEF ContentInv, RowWriteFits
<1>5. DrawerFits(drawer)'
  BY <1>3 DEF ContentInv, DrawerFits
<1> QED BY <1>3, <1>4, <1>5 DEF ContentInv

LEMMA RouteArrivesKeeps == ASSUME ContentInv, RouteArrives PROVE ContentInv'
<1>1. /\ url' \in Views /\ route' = {} /\ strayed' \in BOOLEAN
      /\ strayed' = (strayed \/ (drawer.mode # "closed" /\ drawer.of # url'.table))
      /\ UNCHANGED <<result, gridError, drawer, rowWrites, stored, clicks>>
  BY DEF RouteArrives, ContentInv
<1>2. fetches' \subseteq GridFetch /\ fetching' = TRUE
  BY <1>1, RefetchKeeps DEF RouteArrives
<1>3. DrawerFits(drawer)'
  BY <1>1 DEF ContentInv, DrawerFits
<1>4. \A x \in rowWrites' : RowWriteFits(x)'
  BY <1>1 DEF ContentInv, RowWriteFits
<1> QED BY <1>1, <1>2, <1>3, <1>4 DEF ContentInv

LEMMA GridKeeps == ASSUME ContentInv, NEW f \in fetches, ReadGrid(f) \/ GridArrives(f) PROVE ContentInv'
<1>1. f \in GridFetch
  BY DEF ContentInv
<1>2. UNCHANGED <<url, drawer, rowWrites, stored, strayed, clicks>>
  BY DEF ReadGrid, GridArrives
<1>3. fetches' \subseteq GridFetch
  <2>1. CASE ReadGrid(f)
    <3>1. PICK g : /\ g = [f EXCEPT !.stage = "read", !.rows = RowsOf(f.view), !.total = Cardinality(Matches(f.view))]
                   /\ fetches' = (fetches \ {f}) \cup {g}
      BY <2>1 DEF ReadGrid
    <3>2. RowsOf(f.view) \subseteq Keys /\ Cardinality(Matches(f.view)) \in Nat
      BY <1>1, ViewsMatch DEF GridFetch
    <3>3. g \in GridFetch
      BY <1>1, <3>1, <3>2 DEF GridFetch
    <3> QED BY <3>1, <3>3 DEF ContentInv
  <2>2. CASE GridArrives(f)
    BY <2>2 DEF GridArrives, ContentInv
  <2> QED BY <2>1, <2>2
<1>4. /\ route' \subseteq Views /\ (\A v, w \in route' : v = w)
      /\ result' \in [table : Tables, rows : SUBSET Keys, total : Nat]
      /\ {fetching', gridError'} \subseteq BOOLEAN
  <2>1. CASE ReadGrid(f)
    BY <2>1 DEF ReadGrid, ContentInv
  <2>2. CASE GridArrives(f)
    <3>1. LastPage(f.total) \in Nat \ {0}
      BY <1>1, PageExists DEF GridFetch
    <3>2. [f.view EXCEPT !.page = LastPage(f.total)] \in Views
      BY <1>1, <3>1 DEF GridFetch, Views
    <3>3. [table |-> f.view.table, rows |-> f.rows, total |-> f.total]
            \in [table : Tables, rows : SUBSET Keys, total : Nat]
      BY <1>1 DEF GridFetch, Views
    <3>4. route' = route \/ route' = {[f.view EXCEPT !.page = LastPage(f.total)]}
      BY <2>2 DEF GridArrives, SetView
    <3>5. result' = result \/ result' = [table |-> f.view.table, rows |-> f.rows, total |-> f.total]
      BY <2>2 DEF GridArrives
    <3>6. {fetching', gridError'} \subseteq BOOLEAN
      BY <2>2 DEF GridArrives, ContentInv
    <3> QED BY <3>2, <3>3, <3>4, <3>5, <3>6 DEF ContentInv
  <2> QED BY <2>1, <2>2
<1>5. DrawerFits(drawer)' /\ \A x \in rowWrites' : RowWriteFits(x)'
  BY <1>2 DEF ContentInv, DrawerFits, RowWriteFits
<1> QED BY <1>2, <1>3, <1>4, <1>5 DEF ContentInv

LEMMA RunRowWriteKeeps == ASSUME ContentInv, NEW w \in rowWrites, RunRowWrite(w) PROVE ContentInv'
<1> USE ContentAssumption DEF ContentAssumption
<1>1. UNCHANGED <<url, route, fetches, result, fetching, gridError, drawer, strayed, clicks>>
  BY DEF RunRowWrite
<1>2. RowWriteFits(w) /\ w \in RowWrite
  BY DEF ContentInv, RowWriteFits
<1>3. stored' \in [Tables -> SUBSET Keys]
  <2>1. \/ \E k \in Keys : stored' = [stored EXCEPT ![w.table] = @ \cup {k}]
        \/ stored' = stored \/ stored' = [stored EXCEPT ![w.table] = @ \ {w.key}]
    BY DEF RunRowWrite
  <2> QED BY <2>1 DEF ContentInv
<1>4. PICK x : /\ rowWrites' = (rowWrites \ {w}) \cup {x}
               /\ \/ w.kind = "insert" /\ \E k \in Keys : x = [w EXCEPT !.key = k, !.stage = "done"]
                  \/ x = [w EXCEPT !.stage = "done"] \/ x = [w EXCEPT !.stage = "refused"]
  BY DEF RunRowWrite
<1>5. RowWriteFits(x)
  BY <1>2, <1>4 DEF RowWriteFits, RowWrite
<1>6. \A y \in rowWrites' : RowWriteFits(y)'
  BY <1>4, <1>5 DEF ContentInv, RowWriteFits
<1>7. DrawerFits(drawer)'
  BY <1>1 DEF ContentInv, DrawerFits
<1> QED BY <1>1, <1>3, <1>6, <1>7 DEF ContentInv

\* An answer that puts its row in the drawer over another table says so.
LEMMA RowWrittenKeeps == ASSUME ContentInv, NEW w \in rowWrites, RowWritten(w) PROVE ContentInv'
<1>1. UNCHANGED <<url, route, result, gridError, stored, clicks>> /\ rowWrites' = rowWrites \ {w}
  BY DEF RowWritten
<1>2. w \in RowWrite /\ url' \in Views
  BY <1>1 DEF ContentInv, RowWriteFits
<1>3. fetches' \subseteq GridFetch /\ fetching' \in BOOLEAN
  BY <1>2, RefetchKeeps DEF RowWritten, ContentInv
<1>4. strayed' \in BOOLEAN /\ DrawerFits(drawer)'
  <2>1. CASE w.stage # "done"
    BY <2>1 DEF RowWritten, ContentInv, DrawerFits
  <2>2. CASE w.stage = "done" /\ w.kind = "delete"
    BY <1>1, <1>2, <2>2 DEF RowWritten, ContentInv, DrawerFits, DrawerState, Closed, Views
  <2>3. CASE w.stage = "done" /\ w.kind # "delete"
    <3>1. PICK m \in Nat : drawer' = [mode |-> "view", of |-> w.table, key |-> w.key, mount |-> m]
      BY <1>2, <2>3 DEF RowWritten, RowWrite, ContentInv, DrawerFits, DrawerState
    <3>2. strayed' = (strayed \/ w.table # url.table) /\ url' = url
      BY <2>3 DEF RowWritten
    <3> QED BY <1>2, <3>1, <3>2 DEF RowWrite, ContentInv, DrawerFits, DrawerState
  <2> QED BY <2>1, <2>2, <2>3
<1>5. \A x \in rowWrites' : RowWriteFits(x)'
  BY <1>1 DEF ContentInv, RowWriteFits
<1> QED BY <1>1, <1>2, <1>3, <1>4, <1>5 DEF ContentInv

LEMMA ContentStep == ContentInv /\ [ContentNext]_contentVars => ContentInv'
<1> SUFFICES ASSUME ContentInv, [ContentNext]_contentVars PROVE ContentInv'
  OBVIOUS
<1>1. CASE UNCHANGED contentVars
  BY <1>1 DEF contentVars, ContentInv, DrawerFits, RowWriteFits
<1>2. CASE OthersChangeRows
  <2>1. stored' \in [Tables -> SUBSET Keys]
    BY <1>2 DEF OthersChangeRows, ContentInv
  <2> QED BY <1>2, <2>1 DEF OthersChangeRows, ContentInv, DrawerFits, RowWriteFits
<1> QED BY <1>1, <1>2, ClicksKeep, WriteClicksKeep, RouteArrivesKeeps, GridKeeps, RunRowWriteKeeps,
           RowWrittenKeeps DEF ContentNext, Settling

LEMMA ContentTyped == ContentInv => ContentTypeOK /\ StraysNeedAMove
<1> SUFFICES ASSUME ContentInv PROVE ContentTypeOK /\ StraysNeedAMove
  OBVIOUS
<1>1. Cardinality(route) <= 1
  BY AtMostOne DEF ContentInv
<1> QED BY <1>1 DEF ContentInv, ContentTypeOK, StraysNeedAMove, GridFetch, DrawerFits, DrawerState, RowWriteFits, RowWrite

-----------------------------------------------------------------------------
(* The users screen.                                                       *)

PeopleIn(rows_) == DOMAIN rows_ \subseteq People /\ \A p \in DOMAIN rows_ : rows_[p] \in UserRow
Opened == [id : People, row : UserRow, mount : Nat]
UserCall == [kind : {"save", "grant", "revoke", "delete"}, id : People, mount : Nat,
             sends : SUBSET Inputs, values : Identity, role : SUBSET Roles, typed : SUBSET Inputs,
             behind : SUBSET Inputs, stage : {"sent", "done", "failed"}]

\* The drawer shows the row listed last; an input that differs from it was typed
\* into, or the row came back changed.
DrawerShows ==
  \A o \in open :
    /\ o \in Opened /\ o.id \in DOMAIN listed /\ o.row = listed[o.id]
    /\ \A i \in Inputs : fields[i] # o.row.identity[i] => i \in typed \cup behind

UserCallFits(c) == c \in UserCall /\ (c.kind = "save" => c.sends \subseteq c.typed \cup c.behind)
ListingFits(l) ==
  DOMAIN l = {"cancelled", "read", "rows"} /\ PeopleIn(l.rows)

UsersInv ==
  /\ PeopleIn(people) /\ PeopleIn(listed) /\ \A l \in listings : ListingFits(l)
  /\ DrawerShows /\ (\A o, p \in open : o = p)
  /\ fields \in Identity /\ typed \subseteq Inputs /\ behind \subseteq Inputs
  /\ \A c \in calls : UserCallFits(c)
  /\ deeds \in Nat

LEMMA UsersStart == UsersInit => UsersInv
<1> SUFFICES ASSUME UsersInit PROVE UsersInv
  OBVIOUS
<1>1. Stored0 \in Identity
  BY DEF Stored0, Identity
<1>2. PeopleIn(people) /\ listed = people
  BY <1>1 DEF UsersInit, PeopleIn, UserRow
<1> QED BY <1>1, <1>2 DEF UsersInit, UsersInv, DrawerShows

\* What the developer does in the drawer but for its calls.
LEMMA DrawerKeeps ==
  ASSUME UsersInv, (\E p \in People : OpenUser(p)) \/ CloseUser \/ \E i \in Inputs : TypeInto(i)
  PROVE  UsersInv'
<1>1. UNCHANGED <<people, listed, listings, calls>> /\ deeds' \in Nat
  BY DEF OpenUser, CloseUser, TypeInto, Deed, UsersInv
<1>2. PeopleIn(people)' /\ PeopleIn(listed)' /\ (\A l \in listings' : ListingFits(l)') /\ \A c \in calls' : UserCallFits(c)'
  BY <1>1 DEF UsersInv, PeopleIn, ListingFits, UserCallFits
<1> DEFINE Kept == /\ DrawerShows' /\ (\A o, p \in open' : o = p)
                     /\ fields' \in Identity /\ typed' \subseteq Inputs /\ behind' \subseteq Inputs
<1>3. Kept
  <2>1. CASE CloseUser
    BY <2>1 DEF CloseUser, DrawerShows, UsersInv
  <2>2. ASSUME NEW i \in Inputs, TypeInto(i) PROVE Kept
    BY <2>2, <1>1 DEF TypeInto, DrawerShows, UsersInv, Identity
  <2>3. ASSUME NEW p \in People, OpenUser(p) PROVE Kept
    <3>1. listed[p] \in UserRow /\ listed[p].identity \in Identity /\ p \in DOMAIN listed
      BY <2>3 DEF OpenUser, UsersInv, PeopleIn, UserRow
    <3>2. PICK m \in Nat : open' = {[id |-> p, row |-> listed[p], mount |-> m]}
      <4>1. CASE open = {}
        BY <1>1, <2>3, <4>1 DEF OpenUser
      <4>2. CASE open # {}
        <5>1. PICK o \in open : open = {o}
          BY <4>2 DEF UsersInv
        <5>2. o.mount \in Nat
          BY <5>1 DEF UsersInv, DrawerShows, Opened
        <5> QED BY <2>3, <4>2, <5>1, <5>2 DEF OpenUser
      <4> QED BY <4>1, <4>2
    <3>3. [id |-> p, row |-> listed[p], mount |-> m] \in Opened
      BY <3>1 DEF Opened
    <3>4. CASE \E o \in open : o.id = p
      <4>1. \A i \in Inputs : fields[i] # listed[p].identity[i] => i \in typed \cup behind
        BY <3>4 DEF UsersInv, DrawerShows
      <4>2. UNCHANGED <<fields, typed, behind>>
        BY <2>3, <3>4 DEF OpenUser
      <4> QED BY <1>1, <3>1, <3>2, <3>3, <4>1, <4>2 DEF UsersInv, DrawerShows
    <3>5. CASE ~ \E o \in open : o.id = p
      <4>1. fields' = listed[p].identity /\ typed' = {} /\ behind' = {}
        BY <2>3, <3>5 DEF OpenUser, Resync
      <4> QED BY <1>1, <3>1, <3>2, <3>3, <4>1 DEF DrawerShows
    <3> QED BY <3>4, <3>5
  <2> QED BY <2>1, <2>2, <2>3
<1> QED BY <1>1, <1>2, <1>3 DEF UsersInv

LEMMA CallsKeep == ASSUME UsersInv, SaveIdentity \/ RoleAction \/ DeleteUser PROVE UsersInv'
<1>1. PICK o \in open, kind \in {"save", "grant", "revoke", "delete"}, sends \in SUBSET Inputs,
           role \in SUBSET Roles :
        DrawerCall(o, kind, sends, role) /\ (kind = "save" => sends = Changed(o))
  <2>1. \A o \in open : Changed(o) \in SUBSET Inputs
    BY DEF Changed
  <2>2. CASE SaveIdentity
    BY <2>1, <2>2 DEF SaveIdentity
  <2>3. CASE RoleAction
    BY <2>3 DEF RoleAction
  <2>4. CASE DeleteUser
    BY <2>4 DEF DeleteUser
  <2> QED BY <2>2, <2>3, <2>4
<1> DEFINE c == [kind |-> kind, id |-> o.id, mount |-> o.mount, sends |-> sends,
                 values |-> fields, role |-> role, typed |-> typed, behind |-> behind, stage |-> "sent"]
<1>2. o \in Opened /\ fields \in Identity /\ typed \in SUBSET Inputs /\ behind \in SUBSET Inputs
  BY DEF UsersInv, DrawerShows
<1>3. c \in UserCall
  BY <1>2 DEF UserCall, Opened
<1>4. kind = "save" => sends \subseteq typed \cup behind
  BY <1>1 DEF Changed, UsersInv, DrawerShows
<1>5. UserCallFits(c)
  BY <1>3, <1>4 DEF UserCallFits
<1>6. /\ calls' = calls \cup {c} /\ deeds' \in Nat
      /\ UNCHANGED <<people, listed, listings, open, fields, typed, behind>>
  BY <1>1 DEF DrawerCall, Deed, UsersInv
<1>7. \A x \in calls' : UserCallFits(x)'
  BY <1>5, <1>6 DEF UsersInv, UserCallFits
<1> QED BY <1>6, <1>7 DEF UsersInv, PeopleIn, ListingFits, DrawerShows

\* A step that changes the table only, or the calls with it.
LEMMA TableStepKeeps ==
  ASSUME UsersInv, PeopleIn(people)', \A c \in calls' : UserCallFits(c)',
         UNCHANGED <<listed, listings, open, fields, typed, behind, deeds>>
  PROVE  UsersInv'
BY DEF UsersInv, PeopleIn, ListingFits, DrawerShows

LEMMA RunCallKeeps == ASSUME UsersInv, NEW c \in calls, RunCall(c) PROVE UsersInv'
<1>1. c \in UserCall /\ UserCallFits(c) /\ PeopleIn(people)
  BY DEF UsersInv, UserCallFits
<1>2. PeopleIn(people)'
  <2>1. CASE people' = people
    BY <1>1, <2>1 DEF PeopleIn
  <2>2. CASE c.kind = "delete" /\ people' = Without(c.id)
    BY <1>1, <2>2 DEF PeopleIn, Without
  <2>3. CASE /\ c.kind = "save" /\ c.id \in DOMAIN people
             /\ people' = [people EXCEPT ![c.id].identity =
                  [i \in Inputs |-> IF i \in c.sends THEN c.values[i] ELSE @[i]]]
    <3>1. people[c.id] \in UserRow
      BY <1>1, <2>3 DEF PeopleIn
    <3>2. [i \in Inputs |-> IF i \in c.sends THEN c.values[i] ELSE people[c.id].identity[i]] \in Identity
      BY <1>1, <3>1 DEF UserRow, Identity, UserCall
    <3>3. people'[c.id] \in UserRow
      BY <2>3, <3>1, <3>2 DEF UserRow
    <3> QED BY <1>1, <2>3, <3>3 DEF PeopleIn
  <2>4. CASE /\ c.id \in DOMAIN people
             /\ \/ people' = [people EXCEPT ![c.id].roles = @ \cup c.role]
                \/ people' = [people EXCEPT ![c.id].roles = @ \ c.role]
    <3>1. people[c.id] \in UserRow /\ c.role \subseteq Roles
      BY <1>1, <2>4 DEF PeopleIn, UserCall
    <3>2. people'[c.id] \in UserRow
      BY <2>4, <3>1 DEF UserRow
    <3> QED BY <1>1, <2>4, <3>2 DEF PeopleIn
  <2> QED BY <2>1, <2>2, <2>3, <2>4, <1>1 DEF RunCall, UserCall
<1>3. \A x \in calls' : UserCallFits(x)'
  <2>1. PICK x : /\ calls' = (calls \ {c}) \cup {x}
                 /\ x = [c EXCEPT !.stage = "done"] \/ x = [c EXCEPT !.stage = "failed"]
    BY DEF RunCall
  <2>2. UserCallFits(x)
    BY <1>1, <2>1 DEF UserCallFits, UserCall
  <2> QED BY <2>1, <2>2 DEF UsersInv, UserCallFits
<1> QED BY <1>2, <1>3, TableStepKeeps DEF RunCall

LEMMA CallAnsweredKeeps == ASSUME UsersInv, NEW c \in calls, CallAnswered(c) PROVE UsersInv'
<1>1. UNCHANGED <<people, listed, fields, typed, behind, deeds>> /\ calls' = calls \ {c}
      /\ open' \subseteq open
  BY DEF CallAnswered
<1>2. \A l \in listings' : ListingFits(l)'
  <2>1. ListingFits(UsersAsked)
    BY DEF ListingFits, UsersAsked, PeopleIn
  <2>2. \A l \in listings : ListingFits([l EXCEPT !.cancelled = TRUE])
    BY DEF UsersInv, ListingFits
  <2>3. \A l \in listings' : ListingFits(l)
    BY <2>1, <2>2 DEF CallAnswered, UsersInv
  <2> QED BY <2>3 DEF ListingFits, PeopleIn
<1> QED BY <1>1, <1>2 DEF UsersInv, PeopleIn, UserCallFits, DrawerShows

LEMMA ReadUsersKeeps == ASSUME UsersInv, NEW l \in listings, ReadUsers(l) PROVE UsersInv'
<1>1. PICK m : m = [l EXCEPT !.read = TRUE, !.rows = people] /\ listings' = (listings \ {l}) \cup {m}
  BY DEF ReadUsers
<1>2. ListingFits(m)
  BY <1>1 DEF UsersInv, ListingFits
<1>3. \A x \in listings' : ListingFits(x)'
  BY <1>1, <1>2 DEF UsersInv, ListingFits, PeopleIn
<1> QED BY <1>3 DEF ReadUsers, UsersInv, PeopleIn, UserCallFits, DrawerShows

\* A field that came back changed is behind; one that did not was typed into before.
LEMMA UsersArriveKeeps == ASSUME UsersInv, NEW l \in listings, UsersArrive(l) PROVE UsersInv'
<1>1. UNCHANGED <<people, fields, calls, typed, deeds>> /\ listings' = listings \ {l}
  BY DEF UsersArrive
<1>2. PeopleIn(people)' /\ (\A x \in listings' : ListingFits(x)') /\ \A c \in calls' : UserCallFits(c)'
  BY <1>1 DEF UsersInv, PeopleIn, ListingFits, UserCallFits
<1>3. CASE l.cancelled
  BY <1>1, <1>2, <1>3 DEF UsersArrive, UsersInv, PeopleIn, DrawerShows
<1>4. CASE ~l.cancelled
  <2> DEFINE kept == {o \in open : o.id \in DOMAIN l.rows}
             gone == {i \in Inputs : \E o \in kept : l.rows[o.id].identity[i] # o.row.identity[i]}
  <2>1. /\ listed' = l.rows /\ behind' = behind \cup gone
        /\ open' = {[o EXCEPT !.row = l.rows[o.id]] : o \in kept}
    BY <1>4 DEF UsersArrive
  <2>2. PeopleIn(l.rows)
    BY DEF UsersInv, ListingFits
  <2>3. ASSUME NEW n \in open'
        PROVE  /\ n \in Opened /\ n.id \in DOMAIN listed' /\ n.row = listed'[n.id]
               /\ \A i \in Inputs : fields'[i] # n.row.identity[i] => i \in typed' \cup behind'
    <3>1. PICK o \in kept : n = [o EXCEPT !.row = l.rows[o.id]]
      BY <2>1
    <3>2. o \in Opened /\ o \in open /\ l.rows[o.id] \in UserRow
      BY <2>2 DEF UsersInv, DrawerShows, PeopleIn
    <3>3. n \in Opened /\ n.id = o.id /\ n.row = l.rows[o.id]
      BY <3>1, <3>2 DEF Opened
    <3>4. ASSUME NEW i \in Inputs, fields[i] # n.row.identity[i] PROVE i \in typed \cup behind'
      <4>1. CASE n.row.identity[i] # o.row.identity[i]
        BY <2>1, <3>3, <4>1
      <4>2. CASE n.row.identity[i] = o.row.identity[i]
        BY <2>1, <3>2, <3>4, <4>2 DEF UsersInv, DrawerShows
      <4> QED BY <4>1, <4>2
    <3> QED BY <1>1, <2>1, <3>3, <3>4
  <2>4. DrawerShows'
    BY <2>3 DEF DrawerShows
  <2>5. \A n, m \in open' : n = m
    BY <2>1 DEF UsersInv
  <2>6. PeopleIn(listed)' /\ behind' \subseteq Inputs
    BY <2>1, <2>2 DEF PeopleIn, UsersInv
  <2> QED BY <1>1, <1>2, <2>4, <2>5, <2>6 DEF UsersInv
<1> QED BY <1>3, <1>4

LEMMA ElsewhereKeeps == ASSUME UsersInv, NEW p \in People, ElsewhereEdit(p) \/ CreateUser(p) PROVE UsersInv'
<1>1. UNCHANGED <<listed, listings, open, fields, calls, typed, behind, deeds>>
  BY DEF ElsewhereEdit, CreateUser
<1>2. \A c \in calls' : UserCallFits(c)'
  BY <1>1 DEF UsersInv, UserCallFits
<1>3. PeopleIn(people)'
  <2>1. CASE ElsewhereEdit(p)
    <3>1. PICK i \in Inputs : people' = [people EXCEPT ![p].identity[i] = 2]
      BY <2>1 DEF ElsewhereEdit
    <3>2. people[p] \in UserRow /\ p \in DOMAIN people
      BY <2>1 DEF ElsewhereEdit, UsersInv, PeopleIn
    <3>3. [people[p].identity EXCEPT ![i] = 2] \in Identity
      BY <3>2 DEF UserRow, Identity
    <3>4. people'[p] = [people[p] EXCEPT !.identity = [people[p].identity EXCEPT ![i] = 2]]
      BY <3>1, <3>2
    <3>5. people'[p] \in UserRow
      BY <3>2, <3>3, <3>4 DEF UserRow
    <3> QED BY <3>1, <3>5 DEF UsersInv, PeopleIn
  <2>2. CASE CreateUser(p)
    <3>1. \A r \in SUBSET Roles : [identity |-> Stored0, roles |-> r] \in UserRow
      BY DEF UserRow, Stored0, Identity
    <3> QED BY <2>2, <3>1 DEF CreateUser, UsersInv, PeopleIn
  <2> QED BY <2>1, <2>2
<1> QED BY <1>1, <1>2, <1>3, TableStepKeeps

LEMMA UsersStep == UsersInv /\ [UsersNext]_drawerVars => UsersInv'
<1>1. ASSUME UsersInv, UNCHANGED drawerVars PROVE UsersInv'
  BY <1>1 DEF drawerVars, UsersInv, PeopleIn, ListingFits, UserCallFits, DrawerShows
<1> QED BY <1>1, DrawerKeeps, CallsKeep, RunCallKeeps, CallAnsweredKeeps, ReadUsersKeeps, UsersArriveKeeps,
           ElsewhereKeeps DEF UsersNext

LEMMA UsersTyped == UsersInv => UsersTypeOK /\ IdentitySavesWhatWasTyped
<1> SUFFICES ASSUME UsersInv PROVE UsersTypeOK /\ IdentitySavesWhatWasTyped
  OBVIOUS
<1>1. Cardinality(open) <= 1
  BY AtMostOne DEF UsersInv
<1> QED BY <1>1 DEF UsersInv, UsersTypeOK, PeopleIn, DrawerShows, Opened, UserCallFits, UserCall,
           IdentitySavesWhatWasTyped

-----------------------------------------------------------------------------
(* The card that peeks through a foreign key.                              *)

PeekCard == [key : PeekValues, due : PeekValues, opening : BOOLEAN, closing : BOOLEAN,
             placed : BOOLEAN, entry : Entry]

\* One entry for a value, and one that is loading is being loaded.
CacheFits(s, ps) ==
  /\ s \in Seq(Entry)
  /\ \A i, j \in 1..Len(s) : s[i].key = s[j].key => i = j
  /\ \A i \in 1..Len(s) : s[i].state \in {"loading", "done", "failed"}
                          /\ (s[i].state = "loading" => s[i] \in ps)

PeeksFit == IsFiniteSet(peeks) /\ \A l \in peeks : l \in Entry /\ l.state = "loading"

\* Whatever a card may still be opened with or be given is for the value of its link.
WaitFits(w) ==
  /\ w \in [cell : Cells, on : Entry] /\ w.on \in peeks
  /\ w.cell \notin turned => w.on.key = cards[w.cell].key

CardFits(c) ==
  /\ c \notin turned => /\ cards[c].opening => cards[c].due = cards[c].key
                        /\ cards[c].placed => cards[c].entry.key = cards[c].key
  /\ cards[c].placed => cards[c].entry.state # "none"
  /\ cards[c].entry.state = "loading" => [cell |-> c, on |-> cards[c].entry] \in waits

PeekInv ==
  /\ cards \in [Cells -> PeekCard] /\ CacheFits(cache, peeks) /\ PeeksFit
  /\ Len(cache) <= CacheMax + Cardinality(peeks)
  /\ (\A w \in waits : WaitFits(w)) /\ \A c \in Cells : CardFits(c)

\* A new load has a number of its own.
LEMMA LoadIsNew ==
  ASSUME PeekInv, NEW k \in PeekValues
  PROVE  Loading(k) \in Entry /\ Loading(k) \notin peeks /\ Loading(k).key = k /\ Loading(k).state = "loading"
<1> DEFINE n == Cardinality(peeks)
<1>1. IsFiniteSet(peeks) /\ n \in Nat
  BY FS_CardinalityType DEF PeekInv, PeeksFit
<1>2. \E m \in 1..(n + 1) : \A l \in peeks : l.load # m
  <2> SUFFICES ASSUME \A m \in 1..(n + 1) : \E l \in peeks : l.load = m PROVE FALSE
    OBVIOUS
  <2> HIDE DEF n
  <2> DEFINE f == [m \in 1..(n + 1) |-> CHOOSE l \in peeks : l.load = m]
  <2>1. \A m \in 1..(n + 1) : f[m] \in peeks /\ f[m].load = m
    OBVIOUS
  <2>2. f \in Injection(1..(n + 1), peeks)
    BY <2>1, Zenon DEF Injection, IsInjective
  <2>3. Cardinality(1..(n + 1)) <= Cardinality(peeks)
    BY <1>1, <2>2, FS_Injection
  <2>4. Cardinality(1..(n + 1)) = n + 1
    BY <1>1, FS_Interval
  <2> QED BY <1>1, <2>3, <2>4 DEF n
<1>3. PICK m : m = CHOOSE x \in 1..(n + 1) : \A l \in peeks : l.load # x
  OBVIOUS
<1>4. m \in 1..(n + 1) /\ \A l \in peeks : l.load # m
  BY <1>2, <1>3
<1>5. Loading(k) = [state |-> "loading", key |-> k, load |-> m]
  BY <1>3 DEF Loading
<1>6. m \in Nat
  BY <1>1, <1>4
<1> QED BY <1>4, <1>5, <1>6 DEF Entry, States

\* What a cache has for a value.
LEMMA EntriesOf ==
  ASSUME NEW ps, NEW s, CacheFits(s, ps), NEW k
  PROVE  /\ \A e \in EntryOf(s, k) : e \in Entry /\ e.key = k /\ e.state # "none"
                                     /\ (e.state = "loading" => e \in ps)
         /\ EntryOf(s, k) = {} => \A i \in 1..Len(s) : s[i].key # k
<1>1. \A i \in 1..Len(s) : s[i] \in Entry
  BY ElementOfSeq DEF CacheFits
<1> QED BY <1>1 DEF EntryOf, CacheFits

\* Asking for a value that is not cached.
LEMMA FetchFits ==
  ASSUME PeekInv, NEW k \in PeekValues, Fetches(k)
  PROVE  /\ CacheFits(cache', peeks') /\ PeeksFit'
         /\ Len(cache') <= CacheMax + Cardinality(peeks') /\ peeks \subseteq peeks' /\ Loading(k) \in peeks'
<1>1. PICK e \in Entry : /\ e = Loading(k) /\ e \notin peeks /\ e.key = k /\ e.state = "loading"
  BY LoadIsNew
<1>2. cache' = Append(cache, e) /\ peeks' = peeks \cup {e}
  BY <1>1 DEF Fetches
<1>3. cache \in Seq(Entry) /\ IsFiniteSet(peeks)
  BY DEF PeekInv, CacheFits, PeeksFit
<1>4. /\ cache' \in Seq(Entry) /\ Len(cache') = Len(cache) + 1 /\ Len(cache) \in Nat
      /\ \A i \in 1..Len(cache) : cache'[i] = cache[i]
      /\ cache'[Len(cache) + 1] = e
  BY <1>2, <1>3, AppendProperties
<1>5. \A i \in 1..Len(cache) : cache[i].key # k
  BY EntriesOf DEF Fetches, Cached, PeekInv
<1>6. \A i \in 1..Len(cache') : i \in 1..Len(cache) \/ i = Len(cache) + 1
  BY <1>4
<1>7. CacheFits(cache', peeks')
  BY <1>1, <1>2, <1>4, <1>5, <1>6 DEF PeekInv, CacheFits
<1>8. IsFiniteSet(peeks') /\ Cardinality(peeks') = Cardinality(peeks) + 1 /\ Cardinality(peeks) \in Nat
  BY <1>1, <1>2, <1>3, FS_AddElement, FS_CardinalityType
<1>9. PeeksFit'
  BY <1>1, <1>2, <1>8 DEF PeekInv, PeeksFit
<1>10. Len(cache') <= CacheMax + Cardinality(peeks')
  BY <1>4, <1>8, PeekAssumption DEF PeekInv, PeekAssumption
<1> QED BY <1>1, <1>2, <1>7, <1>9, <1>10

\* A card is placed with an entry for the value its timer was set for.
LEMMA PlacingKeeps ==
  ASSUME PeekInv, NEW c \in Cells, cards[c].opening,
         NEW e \in Entry, e.key = cards[c].due, e.state # "none", Places(c, e),
         e.state = "loading" => e \in peeks', peeks \subseteq peeks'
  PROVE  /\ cards' \in [Cells -> PeekCard] /\ (\A w \in waits' : WaitFits(w)')
         /\ \A d \in Cells : CardFits(d)'
<1>1. cards \in [Cells -> PeekCard]
  BY DEF PeekInv
<1>2. /\ cards' = [cards EXCEPT ![c] = [cards[c] EXCEPT !.opening = FALSE, !.placed = TRUE, !.entry = e]]
  BY <1>1 DEF Places
<1>3. /\ cards'[c].key = cards[c].key /\ ~cards'[c].opening /\ cards'[c].placed /\ cards'[c].entry = e
      /\ \A d \in Cells \ {c} : cards'[d] = cards[d]
      /\ cards' \in [Cells -> PeekCard]
  BY <1>1, <1>2 DEF PeekCard
<1>4. turned' = IF e.key = cards[c].key /\ \A w \in waits : w.cell = c => w.on.key = e.key
                THEN turned \ {c} ELSE turned
  BY DEF Places
<1>5. \A w \in waits' : w \in waits \/ (w = [cell |-> c, on |-> e] /\ e.state = "loading")
  BY DEF Places
<1>6. c \notin turned => e.key = cards[c].key /\ \A w \in waits : w.cell = c => w.on.key = e.key
  BY DEF PeekInv, CardFits, WaitFits
<1>7. c \notin turned' => e.key = cards[c].key /\ \A w \in waits : w.cell = c => w.on.key = e.key
  BY <1>4, <1>6
<1>8. \A d \in Cells \ {c} : d \notin turned' => d \notin turned
  BY <1>4
<1>9. ASSUME NEW w \in waits' PROVE WaitFits(w)'
  <2>1. CASE w \in waits
    <3>1. w \in [cell : Cells, on : Entry] /\ w.on \in peeks'
      BY <2>1 DEF PeekInv, WaitFits
    <3>2. w.cell \notin turned' => w.on.key = cards'[w.cell].key
      BY <1>3, <1>7, <1>8, <2>1, <3>1 DEF PeekInv, WaitFits
    <3> QED BY <3>1, <3>2 DEF WaitFits
  <2>2. CASE w = [cell |-> c, on |-> e] /\ e.state = "loading"
    BY <1>3, <1>7, <2>2 DEF WaitFits
  <2> QED BY <1>5, <2>1, <2>2
<1>10. e.state = "loading" => [cell |-> c, on |-> e] \in waits'
  BY DEF Places
<1>11. \A w \in waits : w \in waits'
  BY DEF Places
<1>12. ASSUME NEW d \in Cells PROVE CardFits(d)'
  <2>1. CASE d = c
    BY <1>3, <1>7, <1>10, <2>1 DEF CardFits
  <2>2. CASE d # c
    BY <1>3, <1>8, <1>11, <2>2 DEF PeekInv, CardFits
  <2> QED BY <2>1, <2>2
<1> QED BY <1>3, <1>9, <1>12

LEMMA OpenKeeps == ASSUME PeekInv, NEW c \in Cells, OpenFires(c) PROVE PeekInv'
<1>1. PICK k \in PeekValues : k = cards[c].due
  BY DEF PeekInv, PeekCard
<1>2. cards[c].opening
  BY DEF OpenFires
<1>3. CASE Fetches(k) /\ Places(c, Loading(k))
  <2>1. /\ CacheFits(cache', peeks') /\ PeeksFit' /\ Loading(k) \in peeks'
        /\ Len(cache') <= CacheMax + Cardinality(peeks') /\ peeks \subseteq peeks'
    BY <1>3, FetchFits
  <2>2. PICK e \in Entry : e = Loading(k) /\ e.key = k /\ e.state = "loading"
    BY LoadIsNew
  <2>3. e \in peeks' /\ Places(c, e) /\ e.state # "none" /\ e.key = cards[c].due
    BY <1>1, <1>3, <2>1, <2>2
  <2>4. /\ cards' \in [Cells -> PeekCard] /\ (\A w \in waits' : WaitFits(w)')
        /\ \A d \in Cells : CardFits(d)'
    BY <1>2, <2>1, <2>3, PlacingKeeps
  <2> QED BY <2>1, <2>4 DEF PeekInv
<1>4. CASE \E e \in Cached(k) : Places(c, e) /\ UNCHANGED <<cache, peeks>>
  <2>1. PICK e \in Cached(k) : Places(c, e) /\ UNCHANGED <<cache, peeks>>
    BY <1>4
  <2>2. e \in Entry /\ e.key = k /\ e.state # "none" /\ (e.state = "loading" => e \in peeks)
    BY EntriesOf DEF PeekInv, Cached
  <2>3. /\ cards' \in [Cells -> PeekCard] /\ (\A w \in waits' : WaitFits(w)')
        /\ \A d \in Cells : CardFits(d)'
    BY <1>1, <1>2, <2>1, <2>2, PlacingKeeps
  <2> QED BY <2>1, <2>3 DEF PeekInv, PeeksFit
<1> QED BY <1>1, <1>3, <1>4 DEF OpenFires

\* Steps that change one card, not its entry, and nothing that is loaded.
LEMMA CardSteps ==
  ASSUME PeekInv, UNCHANGED <<cache, peeks>>, NEW c \in Cells, NEW k \in PeekCard,
         cards' = [cards EXCEPT ![c] = k], k.entry = cards[c].entry,
         k.placed => cards[c].placed, UNCHANGED waits,
         \A d \in Cells : d \notin turned' => d \notin turned,
         c \notin turned' => /\ k.opening => k.due = k.key
                             /\ k.placed => k.entry.key = k.key
                             /\ \A w \in waits : w.cell = c => w.on.key = k.key
  PROVE  PeekInv'
<1>1. /\ cards' \in [Cells -> PeekCard] /\ cards'[c] = k
      /\ \A d \in Cells \ {c} : cards'[d] = cards[d]
  BY DEF PeekInv
<1>2. ASSUME NEW w \in waits' PROVE WaitFits(w)'
  BY <1>1 DEF PeekInv, WaitFits
<1>3. ASSUME NEW d \in Cells PROVE CardFits(d)'
  BY <1>1 DEF PeekInv, CardFits
<1> QED BY <1>1, <1>2, <1>3 DEF PeekInv, PeeksFit

LEMMA TimersKeep ==
  ASSUME PeekInv, NEW c \in Cells, Hover(c) \/ Leave(c) \/ StayOnCard(c) \/ CloseFires(c)
  PROVE  PeekInv'
<1>1. cards \in [Cells -> PeekCard]
  BY DEF PeekInv
<1>2. UNCHANGED <<cache, peeks, waits, turned>>
  BY DEF Hover, Leave, StayOnCard, CloseFires
<1>3. PICK k : k = cards'[c]
  OBVIOUS
<1>4. /\ k \in PeekCard /\ cards' = [cards EXCEPT ![c] = k]
      /\ k.entry = cards[c].entry /\ k.key = cards[c].key /\ (k.placed => cards[c].placed)
      /\ k.opening => k.due = k.key \/ (cards[c].opening /\ k.due = cards[c].due)
  <2>1. CASE Hover(c)
    BY <1>1, <1>3, <2>1 DEF Hover, PeekCard
  <2>2. CASE Leave(c)
    BY <1>1, <1>3, <2>2 DEF Leave, PeekCard
  <2>3. CASE StayOnCard(c)
    BY <1>1, <1>3, <2>3 DEF StayOnCard, PeekCard
  <2>4. CASE CloseFires(c)
    BY <1>1, <1>3, <2>4 DEF CloseFires, PeekCard
  <2> QED BY <2>1, <2>2, <2>3, <2>4
<1>5. c \notin turned => /\ k.opening => k.due = k.key
                         /\ k.placed => k.entry.key = k.key
                         /\ \A w \in waits : w.cell = c => w.on.key = k.key
  BY <1>4 DEF PeekInv, CardFits, WaitFits
<1> QED BY <1>2, <1>4, <1>5, CardSteps

LEMMA RetargetKeeps == ASSUME PeekInv, NEW c \in Cells, Retarget(c) PROVE PeekInv'
<1>1. cards \in [Cells -> PeekCard] /\ UNCHANGED <<cache, peeks, waits>>
  BY DEF PeekInv, Retarget
<1>2. PICK v \in PeekValues : cards' = [cards EXCEPT ![c].key = v]
  BY DEF Retarget
<1>3. PICK k : k = cards'[c]
  OBVIOUS
<1>4. /\ k \in PeekCard /\ cards' = [cards EXCEPT ![c] = k] /\ k.entry = cards[c].entry
      /\ k.placed = cards[c].placed /\ k.opening = cards[c].opening
  BY <1>1, <1>2, <1>3 DEF PeekCard
<1>5. turned' = IF cards[c].placed \/ cards[c].opening \/ \E w \in waits : w.cell = c
                THEN turned \cup {c} ELSE turned
  BY DEF Retarget
<1>6. \A d \in Cells : d \notin turned' => d \notin turned
  BY <1>5
<1>7. c \notin turned' => ~k.placed /\ ~k.opening /\ \A w \in waits : w.cell # c
  BY <1>4, <1>5
<1> QED BY <1>1, <1>4, <1>6, <1>7, CardSteps

LEMMA UnmountKeeps == ASSUME PeekInv, NEW c \in Cells, Unmount(c) PROVE PeekInv'
<1>1. PICK v \in PeekValues : cards' = [cards EXCEPT ![c] = Shut(v)]
  BY DEF Unmount
<1>2. /\ UNCHANGED <<cache, peeks>> /\ waits' = {w \in waits : w.cell # c} /\ turned' = turned \ {c}
  BY DEF Unmount
<1>3. Shut(v) \in PeekCard /\ ~Shut(v).opening /\ ~Shut(v).placed /\ Shut(v).entry.state = "none"
  BY DEF Shut, PeekCard, Entry, States
<1>4. /\ cards' \in [Cells -> PeekCard] /\ cards'[c] = Shut(v)
      /\ \A d \in Cells \ {c} : cards'[d] = cards[d]
  BY <1>1, <1>3 DEF PeekInv
<1>5. ASSUME NEW w \in waits' PROVE WaitFits(w)'
  <2>1. w \in waits /\ w.cell # c
    BY <1>2
  <2> QED BY <1>2, <1>4, <2>1 DEF PeekInv, WaitFits
<1>6. ASSUME NEW d \in Cells PROVE CardFits(d)'
  <2>1. CASE d = c
    BY <1>3, <1>4, <2>1 DEF CardFits
  <2>2. CASE d # c
    BY <1>2, <1>4, <2>2 DEF PeekInv, CardFits
  <2> QED BY <2>1, <2>2
<1> QED BY <1>2, <1>4, <1>5, <1>6 DEF PeekInv, PeeksFit

LEMMA PrefetchKeeps == ASSUME PeekInv, NEW k \in PeekValues, Prefetch(k) PROVE PeekInv'
<1>1. Fetches(k) /\ UNCHANGED <<cards, waits, turned>>
  BY DEF Prefetch
<1>2. /\ CacheFits(cache', peeks') /\ PeeksFit' /\ peeks \subseteq peeks'
      /\ Len(cache') <= CacheMax + Cardinality(peeks')
  BY <1>1, FetchFits
<1>3. \A w \in waits' : WaitFits(w)'
  BY <1>1, <1>2 DEF PeekInv, WaitFits
<1>4. \A c \in Cells : CardFits(c)'
  BY <1>1 DEF PeekInv, CardFits
<1> QED BY <1>1, <1>2, <1>3, <1>4 DEF PeekInv

-----------------------------------------------------------------------------
\* An answer takes the place of the entry for its value, and leaves no other.
LEMMA StoredFits ==
  ASSUME PeekInv, NEW l \in peeks, NEW e \in Entry, e.key = l.key, e.state \in {"done", "failed"}
  PROVE  /\ CacheFits(Stored(e), peeks \ {l})
         /\ \A i \in 1..Len(Stored(e)) : Stored(e)[i].key = l.key => Stored(e)[i] = e
<1>1. cache \in Seq(Entry) /\ Len(cache) \in Nat
  BY LenProperties DEF PeekInv, CacheFits
<1>2. CASE Cached(e.key) = {}
  <2>1. PICK s : s = Append(cache, e)
    OBVIOUS
  <2>2. /\ s \in Seq(Entry) /\ Len(s) = Len(cache) + 1
        /\ \A i \in 1..Len(cache) : s[i] = cache[i]
        /\ s[Len(cache) + 1] = e
    BY <1>1, <2>1, AppendProperties
  <2>3. \A i \in 1..Len(cache) : cache[i].key # e.key
    BY <1>2, EntriesOf DEF Cached, PeekInv
  <2>4. \A i \in 1..Len(s) : i \in 1..Len(cache) \/ i = Len(cache) + 1
    BY <1>1, <2>2
  <2>5. \A i \in 1..Len(s) : (i \in 1..Len(cache) /\ s[i] = cache[i] /\ s[i].key # l.key) \/ (i = Len(cache) + 1 /\ s[i] = e)
    BY <2>2, <2>3, <2>4
  <2>6. \A i, j \in 1..Len(s) : s[i].key = s[j].key => i = j
    BY <2>5 DEF PeekInv, CacheFits
  <2>7. \A i \in 1..Len(s) : s[i].state \in {"loading", "done", "failed"}
            /\ (s[i].state = "loading" => s[i] \in peeks \ {l})
    BY <2>5 DEF PeekInv, CacheFits
  <2>8. \A i \in 1..Len(s) : s[i].key = l.key => s[i] = e
    BY <2>5
  <2>9. s \in Seq(Entry)
    BY <2>2
  <2>10. CacheFits(s, peeks \ {l})
    BY <2>6, <2>7, <2>9, Zenon DEF CacheFits
  <2> QED BY <1>2, <2>1, <2>8, <2>10 DEF Stored
<1>3. CASE Cached(e.key) # {}
  <2>1. PICK s : s = [i \in 1..Len(cache) |-> IF cache[i].key = e.key THEN e ELSE cache[i]]
    OBVIOUS
  <2>2. /\ s \in Seq(Entry) /\ Len(s) = Len(cache)
        /\ \A i \in 1..Len(cache) : s[i] = IF cache[i].key = e.key THEN e ELSE cache[i]
    BY <1>1, <2>1, ElementOfSeq
  <2>3. CacheFits(s, peeks \ {l}) /\ \A i \in 1..Len(s) : s[i].key = l.key => s[i] = e
    BY <2>2 DEF PeekInv, CacheFits
  <2> QED BY <1>3, <2>1, <2>3 DEF Stored
<1> QED BY <1>2, <1>3

\* What is left of a cache that fits fits, and is within the bound.
LEMMA TrimmedFits ==
  ASSUME NEW ps, NEW s, CacheFits(s, ps)
  PROVE  /\ CacheFits(Trimmed(s), ps) /\ Len(Trimmed(s)) <= CacheMax
         /\ \A i \in 1..Len(Trimmed(s)) : \E j \in 1..Len(s) : Trimmed(s)[i] = s[j]
<1> USE PeekAssumption DEF PeekAssumption
<1>1. s \in Seq(Entry) /\ Len(s) \in Nat
  BY LenProperties DEF CacheFits
<1>2. CASE Len(s) <= CacheMax
  BY <1>2 DEF Trimmed
<1>3. CASE ~(Len(s) <= CacheMax)
  <2>1. PICK o \in Nat : o = Len(s) - CacheMax
    BY <1>1, <1>3
  <2>2. PICK t : t = Trimmed(s) /\ t = SubSeq(s, o + 1, Len(s))
    BY <1>1, <1>3, <2>1 DEF Trimmed
  <2>3. \A i \in (o + 1)..Len(s) : s[i] \in Entry
    BY <1>1, <2>1, ElementOfSeq
  <2>4. /\ t \in Seq(Entry)
        /\ Len(t) = IF o + 1 <= Len(s) THEN Len(s) - (o + 1) + 1 ELSE 0
        /\ \A i \in 1..(Len(s) - (o + 1) + 1) : t[i] = s[(o + 1) + i - 1]
    BY <1>1, <2>1, <2>2, <2>3, SubSeqProperties
  <2>5. Len(t) = CacheMax
    BY <1>1, <1>3, <2>1, <2>4
  <2>6. \A i \in 1..Len(t) : i + o \in 1..Len(s) /\ t[i] = s[i + o]
    <3>1. \A i \in 1..Len(t) : i \in 1..(Len(s) - (o + 1) + 1) /\ i + o \in 1..Len(s) /\ (o + 1) + i - 1 = i + o
      BY <1>1, <2>1, <2>5
    <3> QED BY <2>4, <3>1
  <2>7. CacheFits(t, ps)
    <3>1. \A i, j \in 1..Len(t) : t[i].key = t[j].key => i + o = j + o
      BY <2>6 DEF CacheFits
    <3>2. \A i, j \in 1..Len(t) : t[i].key = t[j].key => i = j
      BY <2>1, <3>1
    <3>3. \A i \in 1..Len(t) : t[i].state \in {"loading", "done", "failed"}
              /\ (t[i].state = "loading" => t[i] \in ps)
      BY <2>6 DEF CacheFits
    <3>4. t \in Seq(Entry)
      BY <2>4
    <3> QED BY <3>2, <3>3, <3>4, Zenon DEF CacheFits
  <2>8. \A i \in 1..Len(t) : \E j \in 1..Len(s) : t[i] = s[j]
    BY <2>6
  <2> QED BY <2>2, <2>5, <2>7, <2>8
<1> QED BY <1>2, <1>3

LEMMA ArrivalKeeps == ASSUME PeekInv, NEW l \in peeks, NEW fine \in BOOLEAN, PeekArrives(l, fine) PROVE PeekInv'
<1>1. PICK o : o = Outcome(l, fine)
  OBVIOUS
<1>2. l \in Entry /\ l.state = "loading"
  BY DEF PeekInv, PeeksFit
<1>3. o \in Entry /\ o.key = l.key /\ o.state \in {"done", "failed"}
  BY <1>1, <1>2 DEF Outcome, Entry, States
<1>4. PICK s : s = Stored(o)
  OBVIOUS
<1>5. CacheFits(s, peeks \ {l}) /\ \A i \in 1..Len(s) : s[i].key = l.key => s[i] = o
  BY <1>3, <1>4, StoredFits
<1>6. PICK kept : kept = Trimmed(s)
  OBVIOUS
<1>7. /\ CacheFits(kept, peeks \ {l}) /\ Len(kept) <= CacheMax
      /\ \A i \in 1..Len(kept) : \E j \in 1..Len(s) : kept[i] = s[j]
  BY <1>5, <1>6, TrimmedFits
<1>8. \A i \in 1..Len(kept) : kept[i].key = l.key => kept[i] = o
  BY <1>5, <1>7
<1>9. PICK called : called = CardsOn(l)
  OBVIOUS
<1>10. PICK e \in Taken(kept, l) :
         cards' = [c \in Cells |-> IF c \in called THEN [cards[c] EXCEPT !.entry = e] ELSE cards[c]]
  BY <1>1, <1>4, <1>6, <1>9 DEF PeekArrives
<1>11. cache' = kept /\ peeks' = peeks \ {l} /\ waits' = {w \in waits : w.on # l} /\ turned' = turned
  BY <1>1, <1>4, <1>6 DEF PeekArrives
<1>12. e \in Entry /\ e.key = l.key /\ e.state \notin {"none", "loading"}
  <2>1. CASE EntryOf(kept, l.key) = {}
    BY <1>2, <1>10, <2>1 DEF Taken, Entry, States
  <2>2. CASE EntryOf(kept, l.key) # {}
    <3>1. e \in EntryOf(kept, l.key)
      BY <1>10, <2>2 DEF Taken
    <3>2. e = o
      BY <1>8, <3>1 DEF EntryOf
    <3> QED BY <1>3, <3>2
  <2> QED BY <2>1, <2>2
<1>13. cards \in [Cells -> PeekCard]
  BY DEF PeekInv
<1>14. \A c \in Cells : /\ cards'[c] \in PeekCard
                        /\ c \in called => cards'[c] = [cards[c] EXCEPT !.entry = e]
                        /\ c \notin called => cards'[c] = cards[c]
  BY <1>10, <1>12, <1>13 DEF PeekCard
<1>15. cards' \in [Cells -> PeekCard]
  BY <1>10, <1>14
<1>16. \A c \in Cells : /\ cards'[c].key = cards[c].key /\ cards'[c].opening = cards[c].opening
                        /\ cards'[c].due = cards[c].due /\ cards'[c].placed = cards[c].placed
                        /\ cards'[c].entry = IF c \in called THEN e ELSE cards[c].entry
  BY <1>13, <1>14 DEF PeekCard
<1>17. \A c \in called : c \notin turned => l.key = cards[c].key
  BY <1>9 DEF PeekInv, WaitFits, CardsOn
<1>18. ASSUME NEW w \in waits' PROVE WaitFits(w)'
  BY <1>11, <1>16 DEF PeekInv, WaitFits
<1>19. ASSUME NEW c \in Cells PROVE CardFits(c)'
  <2>1. CASE c \in called
    BY <1>11, <1>12, <1>16, <1>17, <2>1 DEF PeekInv, CardFits
  <2>2. CASE c \notin called
    <3>1. \A w \in waits : w.on = l => w.cell # c
      BY <1>9, <2>2 DEF CardsOn
    <3>2. cards[c].entry.state = "loading" => [cell |-> c, on |-> cards[c].entry] \in waits'
      BY <1>11, <3>1 DEF PeekInv, CardFits
    <3> QED BY <1>11, <1>16, <2>2, <3>2 DEF PeekInv, CardFits
  <2> QED BY <2>1, <2>2
<1>20. IsFiniteSet(peeks') /\ Cardinality(peeks') \in Nat
  BY <1>11, FS_RemoveElement, FS_CardinalityType DEF PeekInv, PeeksFit
<1>21. PeeksFit'
  BY <1>11, <1>20 DEF PeekInv, PeeksFit
<1>22. Len(cache') <= CacheMax + Cardinality(peeks')
  <2>1. Len(kept) \in Nat
    BY <1>7, LenProperties DEF CacheFits
  <2> QED BY <1>7, <1>11, <1>20, <2>1, PeekAssumption DEF PeekAssumption
<1> QED BY <1>7, <1>11, <1>15, <1>18, <1>19, <1>21, <1>22 DEF PeekInv

LEMMA PeekStarts == PeekInit => PeekInv
<1> SUFFICES ASSUME PeekInit PROVE PeekInv
  OBVIOUS
<1>1. \A k \in PeekValues : /\ Shut(k) \in PeekCard /\ ~Shut(k).opening /\ ~Shut(k).placed
                            /\ Shut(k).entry.state = "none"
  BY DEF Shut, PeekCard, Entry, States
<1>2. \A c \in Cells : \E k \in PeekValues : cards[c] = Shut(k)
  BY DEF PeekInit
<1>3. cards \in [Cells -> PeekCard]
  BY <1>1, <1>2 DEF PeekInit
<1>4. \A c \in Cells : CardFits(c)
  BY <1>1, <1>2 DEF CardFits
<1>5. CacheFits(cache, peeks)
  BY EmptySeq DEF PeekInit, CacheFits
<1>6. PeeksFit /\ Cardinality(peeks) = 0 /\ Len(cache) = 0
  BY FS_EmptySet DEF PeekInit, PeeksFit
<1>7. waits = {}
  BY DEF PeekInit
<1> QED BY <1>3, <1>4, <1>5, <1>6, <1>7, PeekAssumption DEF PeekInv, PeekAssumption

LEMMA PeekStep == PeekInv /\ [PeekNext]_peekVars => PeekInv'
<1> SUFFICES ASSUME PeekInv, [PeekNext]_peekVars PROVE PeekInv'
  OBVIOUS
<1>1. CASE \E c \in Cells : OpenFires(c)
  BY <1>1, OpenKeeps
<1>2. CASE \E c \in Cells : Hover(c) \/ Leave(c) \/ StayOnCard(c) \/ CloseFires(c)
  BY <1>2, TimersKeep
<1>3. CASE \E l \in peeks, fine \in BOOLEAN : PeekArrives(l, fine)
  BY <1>3, ArrivalKeeps
<1>4. CASE \E k \in PeekValues : Prefetch(k)
  BY <1>4, PrefetchKeeps
<1>5. CASE \E c \in Cells : Retarget(c)
  BY <1>5, RetargetKeeps
<1>6. CASE \E c \in Cells : Unmount(c)
  BY <1>6, UnmountKeeps
<1>7. CASE UNCHANGED peekVars
  BY <1>7 DEF peekVars, PeekInv, PeeksFit, WaitFits, CardFits
<1> QED BY <1>1, <1>2, <1>3, <1>4, <1>5, <1>6, <1>7 DEF PeekNext, PeekSettles

LEMMA PeekTyped == PeekInv => PeekTypeOK /\ CardsShowTheirLink
<1> SUFFICES ASSUME PeekInv PROVE PeekTypeOK /\ CardsShowTheirLink
  OBVIOUS
<1>1. PeekTypeOK
  BY ElementOfSeq DEF PeekInv, PeekTypeOK, PeekCard, CacheFits, PeeksFit, WaitFits
<1>2. ASSUME NEW c \in Cells, cards[c].placed
      PROVE  /\ c \notin turned => cards[c].entry.key = cards[c].key
             /\ cards[c].entry.state # "none"
             /\ cards[c].entry.state = "loading" => \E w \in waits : w.cell = c /\ w.on = cards[c].entry
  BY <1>2 DEF PeekInv, CardFits
<1> QED BY <1>1, <1>2 DEF CardsShowTheirLink, PeekInv, CacheFits

-----------------------------------------------------------------------------
(* Answers about a table.                                                  *)

\* A set of numbers that is not empty has a least one.
LEMMA LeastNumber == ASSUME NEW T \in SUBSET Nat, T # {} PROVE \E n \in T : \A m \in T : n <= m
<1>1. IsWellFoundedOn(OpToRel(<, Nat), Nat)
  BY NatLessThanWellFounded
<1>2. \A m, n \in Nat : m < n => <<m, n>> \in OpToRel(<, Nat)
  BY DEF OpToRel
<1>3. PICK R : IsWellFoundedOn(R, Nat) /\ \A m, n \in Nat : m < n => <<m, n>> \in R
  BY <1>1, <1>2
<1>4. PICK n \in T : \A m \in T : ~(<<m, n>> \in R)
  <2>1. IsWellFoundedOn(R, Nat)
    BY <1>3
  <2>2. \E n \in T : \A m \in T : ~(<<m, n>> \in R)
    BY <2>1, WFMin
  <2> QED BY <2>2
<1>5. \A m \in T : ~(m < n)
  BY <1>3, <1>4
<1> QED BY <1>4, <1>5

\* Rows are sorted by a column one can see.
LEMMA SortsByVisible == ASSUME NEW sort, Visible # {} PROVE sortCol(sort) \in Visible
<1>1. Positions \subseteq Nat
  BY DmlAssumption DEF DmlAssumption, Positions
<1>2. Positions # {}
  BY DEF Visible, Positions, NameSet
<1>3. \E i \in Positions : \A j \in Positions : i <= j
  BY <1>1, <1>2, LeastNumber
<1>4. PICK i : i = CHOOSE n \in Positions : \A j \in Positions : n <= j
  OBVIOUS
<1>5. i \in Positions /\ FirstVisible = DmlColumns[i]
  BY <1>3, <1>4 DEF FirstVisible
<1>6. FirstVisible \in Visible
  BY <1>5 DEF Positions
<1> QED BY <1>6 DEF sortCol

\* The table with its masked columns blanked agrees with it where one can see.
LEMMA BlankedAgrees ==
  ASSUME DmlTypeOK
  PROVE  /\ Blanked(dmlRows) \in Contents
         /\ \A i \in DmlIds, c \in Visible : Blanked(dmlRows)[i][c] = dmlRows[i][c]
         /\ \A i \in DmlIds : OnWire(Blanked(dmlRows)[i], Visible) = OnWire(dmlRows[i], Visible)
<1>1. dmlRows \in [DmlIds -> [NameSet -> DmlValues]] /\ 0 \in DmlValues
  BY DmlAssumption DEF DmlAssumption, DmlTypeOK, Contents
<1>2. \A i \in DmlIds : Blanked(dmlRows)[i] = [c \in NameSet |-> IF isMasked(c) THEN 0 ELSE dmlRows[i][c]]
  BY <1>1 DEF Blanked
<1>3. Blanked(dmlRows) \in Contents
  BY <1>1, <1>2 DEF Blanked, Contents
<1>4. \A i \in DmlIds, c \in Visible : Blanked(dmlRows)[i][c] = dmlRows[i][c]
  BY <1>2 DEF Visible
<1>5. \A i \in DmlIds : OnWire(Blanked(dmlRows)[i], Visible) = OnWire(dmlRows[i], Visible)
  BY <1>4 DEF OnWire
<1> QED BY <1>3, <1>4, <1>5

\* What is selected, peeked at and addressed is the same in both.
LEMMA SelectsTheSame ==
  ASSUME DmlTypeOK, NEW r PROVE selectRows(dmlRows, r) = selectRows(Blanked(dmlRows), r)
<1> DEFINE b == Blanked(dmlRows)
<1>1. \A i \in DmlIds, c \in Visible : b[i][c] = dmlRows[i][c]
  BY BlankedAgrees
<1>2. \A i \in DmlIds : OnWire(b[i], Visible) = OnWire(dmlRows[i], Visible)
  BY BlankedAgrees
<1> HIDE DEF b
<1>3. CASE (r.on /\ ~Filterable(r)) \/ Visible = {}
  BY <1>3 DEF selectRows, b
<1>4. CASE ~((r.on /\ ~Filterable(r)) \/ Visible = {})
  <2>1. Passes(b, r) = Passes(dmlRows, r) /\ Passes(dmlRows, r) \subseteq DmlIds
    BY <1>1, <1>4 DEF Passes, Filterable
  <2>2. sortCol(r.sort) \in Visible
    BY <1>4, SortsByVisible
  <2>3. PICK s : s = sortCol(r.sort)
    OBVIOUS
  <2>4. PICK hits \in SUBSET DmlIds : hits = Passes(dmlRows, r)
    BY <2>1
  <2>5. \A i, j \in hits : b[j][s] = dmlRows[j][s] /\ b[i][s] = dmlRows[i][s]
    BY <1>1, <2>2, <2>3
  <2>6. {i \in hits : \A j \in hits : b[j][s] <= b[i][s]} = {i \in hits : \A j \in hits : dmlRows[j][s] <= dmlRows[i][s]}
    BY <2>5
  <2>7. {OnWire(b[i], Visible) : i \in {i \in hits : \A j \in hits : b[j][s] <= b[i][s]}}
        = {OnWire(dmlRows[i], Visible) : i \in {i \in hits : \A j \in hits : dmlRows[j][s] <= dmlRows[i][s]}}
    BY <1>2, <2>6
  <2> QED BY <1>4, <2>1, <2>3, <2>4, <2>7 DEF selectRows, b
<1> QED BY <1>3, <1>4

LEMMA PeeksTheSame ==
  ASSUME DmlTypeOK, NEW r PROVE peekRow(dmlRows, r) = peekRow(Blanked(dmlRows), r)
<1> DEFINE b == Blanked(dmlRows)
<1>1. \A i \in DmlIds, c \in Visible : b[i][c] = dmlRows[i][c]
  BY BlankedAgrees
<1> HIDE DEF b
<1>2. peekColumns(r.col) \subseteq Visible
  BY DEF peekColumns
<1>3. PICK cols \in SUBSET Visible : cols = peekColumns(r.col)
  BY <1>2
<1>4. \A i \in DmlIds : OnWire(b[i], cols) = OnWire(dmlRows[i], cols)
  BY <1>1 DEF OnWire
<1>5. CASE r.col \notin Visible
  BY <1>5 DEF peekRow, b
<1>6. CASE r.col \in Visible
  <2>1. {i \in DmlIds : b[i][r.col] = r.val} = {i \in DmlIds : dmlRows[i][r.col] = r.val}
    BY <1>1, <1>6
  <2>2. {OnWire(b[i], cols) : i \in {i \in DmlIds : b[i][r.col] = r.val}}
        = {OnWire(dmlRows[i], cols) : i \in {i \in DmlIds : dmlRows[i][r.col] = r.val}}
    BY <1>4, <2>1
  <2> QED BY <1>3, <1>6, <2>2 DEF peekRow, b
<1> QED BY <1>5, <1>6

LEMMA AddressesTheSame ==
  ASSUME DmlTypeOK, NEW id, Addressable PROVE At(Blanked(dmlRows), id) = At(dmlRows, id)
BY BlankedAgrees DEF At, Addressable

LEMMA UpdatesTheSame ==
  ASSUME DmlTypeOK, NEW r PROVE updateRow(dmlRows, r) = updateRow(Blanked(dmlRows), r)
<1> DEFINE b == Blanked(dmlRows)
<1>1. \A i \in DmlIds, c \in Visible : b[i][c] = dmlRows[i][c]
  BY BlankedAgrees
<1>2. Addressable => At(b, r.id) = At(dmlRows, r.id)
  BY AddressesTheSame
<1> HIDE DEF b
<1>3. \A i \in DmlIds : OnWire(Edited(b[i], r.values), Visible) = OnWire(Edited(dmlRows[i], r.values), Visible)
  BY <1>1 DEF OnWire, Edited, Visible
<1>4. CASE ~Editable(r.values) \/ ~Addressable \/ At(dmlRows, r.id) = {}
  BY <1>2, <1>4 DEF updateRow, b
<1>5. CASE ~(~Editable(r.values) \/ ~Addressable \/ At(dmlRows, r.id) = {})
  <2>1. PICK at \in SUBSET DmlIds : at = At(dmlRows, r.id) /\ at = At(b, r.id)
    BY <1>2, <1>5 DEF At
  <2>2. {OnWire(Edited(b[i], r.values), Visible) : i \in at} = {OnWire(Edited(dmlRows[i], r.values), Visible) : i \in at}
    BY <1>3
  <2> QED BY <1>5, <2>1, <2>2 DEF updateRow, b
<1> QED BY <1>4, <1>5

LEMMA DeletesTheSame ==
  ASSUME DmlTypeOK, NEW r PROVE deleteRow(dmlRows, r) = deleteRow(Blanked(dmlRows), r)
BY AddressesTheSame DEF deleteRow

LEMMA AnswersTheSame ==
  ASSUME DmlTypeOK, NEW r \in Asked PROVE Answer(dmlRows, r) = Answer(Blanked(dmlRows), r)
<1>1. r.kind \in {"select", "peek", "insert", "update", "delete"}
  BY DEF Asked
<1>2. CASE r.kind = "select"
  BY <1>2, SelectsTheSame DEF Answer
<1>3. CASE r.kind = "peek"
  BY <1>3, PeeksTheSame DEF Answer
<1>4. CASE r.kind = "insert"
  BY <1>4 DEF Answer
<1>5. CASE r.kind = "update"
  BY <1>5, UpdatesTheSame DEF Answer
<1>6. CASE r.kind = "delete"
  BY <1>6, DeletesTheSame DEF Answer
<1> QED BY <1>1, <1>2, <1>3, <1>4, <1>5, <1>6

LEMMA SecretsStay ==
  ASSUME DmlTypeOK, NEW r \in Asked, NEW i \in DOMAIN After(dmlRows, r), NEW c \in NameSet, isMasked(c)
  PROVE  After(dmlRows, r)[i][c] = dmlRows[i][c]
<1>1. CASE r.kind \notin {"update", "delete"} \/ Answer(dmlRows, r) = Refusal
  BY <1>1 DEF After
<1>2. CASE r.kind = "delete" /\ Answer(dmlRows, r) # Refusal
  BY <1>2 DEF After
<1>3. CASE r.kind = "update" /\ Answer(dmlRows, r) # Refusal
  <2>1. updateRow(dmlRows, r) # Refusal
    BY <1>3 DEF Answer
  <2>2. c \notin DOMAIN r.values
    BY <2>1 DEF updateRow, Editable, Visible
  <2>3. After(dmlRows, r) = [n \in DmlIds |-> IF n \in At(dmlRows, r.id) THEN Edited(dmlRows[n], r.values) ELSE dmlRows[n]]
    BY <1>3 DEF After
  <2>4. Edited(dmlRows[i], r.values)[c] = dmlRows[i][c]
    BY <2>2 DEF Edited
  <2> QED BY <2>3, <2>4
<1> QED BY <1>1, <1>2, <1>3

LEMMA DmlKeeps == DmlTypeOK /\ [DmlNext]_dmlVars => DmlTypeOK'
<1> SUFFICES ASSUME DmlTypeOK, [DmlNext]_dmlVars PROVE DmlTypeOK'
  OBVIOUS
<1>1. policy' = policy /\ dmlRows' = dmlRows /\ asked' \subseteq Asked
  BY DEF DmlTypeOK, DmlNext, dmlVars
<1> QED BY <1>1 DEF DmlTypeOK, Policies, Contents, Asked

LEMMA DmlSafe == DmlTypeOK => SecretsStaySecret
BY AnswersTheSame, SecretsStay DEF SecretsStaySecret, DmlTypeOK
=============================================================================
