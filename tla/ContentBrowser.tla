---------------------------- MODULE ContentBrowser ----------------------------
(***************************************************************************)
(* The console's content screen (apps/console/app/content): a grid over    *)
(* any table, whose view lives in the URL, and a drawer that shows, edits, *)
(* creates and deletes one row, over /api/content/rows and /row (lib/dml). *)
(*                                                                         *)
(* A click replaces the URL, which changes only when the router has it.    *)
(* The drawer holds a row; the table it writes to is the URL's.  Two       *)
(* tables may hold rows of the same key.                                   *)
(***************************************************************************)
EXTENDS Naturals, FiniteSets

CONSTANTS
  Tables, Start, \* the table the page is opened on
  Keys,          \* primary keys: numbers, shared by the tables
  Narrow,        \* keys an applied filter lets through
  PageRows,      \* PAGE_SIZE
  MaxClicks,     \* bound: what the developer does
  MaxOthers      \* bound: rows changed by others, and requests refused

ASSUME ContentAssumption ==
  /\ Start \in Tables /\ Keys \subseteq Nat /\ IsFiniteSet(Keys) /\ PageRows \in Nat \ {0}
  /\ MaxClicks \in Nat /\ MaxOthers \in Nat

VARIABLES
  url,         \* table, page and filters
  route,       \* the router.replace under way, at most one
  fetches,     \* row requests in flight
  result,      \* rows of the grid, with the table they came from
  fetching, gridError,
  drawer,
  rowWrites,   \* saves and deletes in flight
  stored,      \* the keys in each table
  strayed,     \* history: the drawer was left, or put, over another table
  clicks, others

contentVars == <<url, route, fetches, result, fetching, gridError, drawer, rowWrites,
                 stored, strayed, clicks, others>>

-----------------------------------------------------------------------------
Views == [table : Tables, page : Nat \ {0}, narrow : BOOLEAN]

\* buildWhere, order by the key, limit and offset.
Matches(v) == {k \in stored[v.table] : v.narrow => k \in Narrow}
RowsOf(v) == {k \in Matches(v) : LET n == Cardinality({j \in Matches(v) : j < k})
                                 IN n \in (v.page - 1) * PageRows .. v.page * PageRows - 1}

LastPage(total) == IF total = 0 THEN 1 ELSE (total + PageRows - 1) \div PageRows

\* Mutation: the rows are not paired with their table.
FreshAlways == TRUE

\* Only rows that came from the table of the URL are shown.
Fresh == result.table = url.table
GridRows == IF Fresh THEN result.rows ELSE {}
GridTotal == IF Fresh THEN result.total ELSE 0

Closed(t) == [mode |-> "closed", of |-> t, key |-> 0, mount |-> 0]

Fetched(v) == {[f EXCEPT !.cancelled = TRUE] : f \in fetches} \cup
  {[view |-> v, cancelled |-> FALSE, stage |-> "asked", rows |-> {}, total |-> 0]}

ContentInit ==
  /\ url \in {[table |-> Start, page |-> p, narrow |-> FALSE] : p \in 1..2} \* a link to any page
  /\ route = {} /\ fetches = {[view |-> url, cancelled |-> FALSE, stage |-> "asked",
                               rows |-> {}, total |-> 0]}
  /\ result = [table |-> url.table, rows |-> {}, total |-> 0]
  /\ fetching = TRUE /\ gridError = FALSE
  /\ drawer = Closed(url.table) /\ rowWrites = {}
  /\ stored = [t \in Tables |-> Keys] /\ strayed = FALSE
  /\ clicks = 0 /\ others = 0

-----------------------------------------------------------------------------
Click == clicks < MaxClicks /\ clicks' = clicks + 1

\* setView: the last replace wins, whatever the one before was to show.
SetView(v) == route' = {v}

\* The sidebar, or a foreign key followed: the drawer closes now, the URL later.
SelectTable ==
  /\ Click
  /\ \E t \in Tables, narrow \in BOOLEAN :
       SetView([table |-> t, page |-> 1, narrow |-> narrow])
  /\ drawer' = Closed(url.table) /\ gridError' = FALSE
  /\ UNCHANGED <<url, fetches, result, fetching, rowWrites, stored, strayed, others>>

\* Prev and Next, addFilter and removeFilter.
ChangeView ==
  /\ Click
  /\ \/ ~fetching /\ url.page > 1 /\ SetView([url EXCEPT !.page = @ - 1])
     \/ /\ ~fetching /\ (url.page - 1) * PageRows + Cardinality(GridRows) < GridTotal
        /\ SetView([url EXCEPT !.page = @ + 1])
     \/ SetView([url EXCEPT !.narrow = ~@, !.page = 1])
  /\ UNCHANGED <<url, fetches, result, fetching, gridError, drawer, rowWrites, stored,
                 strayed, others>>

Refetch == fetches' = Fetched(url') /\ fetching' = TRUE

RouteArrives ==
  /\ route # {} /\ route' = {} /\ url' \in route /\ Refetch
  /\ strayed' = (strayed \/ (drawer.mode # "closed" /\ drawer.of # url'.table))
  /\ UNCHANGED <<result, gridError, drawer, rowWrites, stored, clicks, others>>

ReadGrid(f) ==
  /\ f.stage = "asked"
  /\ fetches' = (fetches \ {f}) \cup
       {[f EXCEPT !.stage = "read", !.rows = RowsOf(f.view), !.total = Cardinality(Matches(f.view))]}
  /\ UNCHANGED <<url, route, result, fetching, gridError, drawer, rowWrites, stored,
                 strayed, clicks, others>>

PastTheEnd(f) == f.rows = {} /\ f.total > 0 /\ f.view.page > LastPage(f.total)

\* A page past the end is clamped to the last one, by the view of the request.
GridArrives(f) ==
  /\ fetches' = fetches \ {f}
  /\ IF f.stage = "read" THEN UNCHANGED others ELSE others < MaxOthers /\ others' = others + 1
  /\ IF f.cancelled THEN UNCHANGED <<route, result, fetching, gridError>>
     ELSE /\ fetching' = FALSE /\ gridError' = (f.stage # "read")
          /\ IF f.stage = "read"
             THEN /\ result' = [table |-> f.view.table, rows |-> f.rows, total |-> f.total]
                  /\ IF PastTheEnd(f) THEN SetView([f.view EXCEPT !.page = LastPage(f.total)])
                                      ELSE UNCHANGED route
             ELSE UNCHANGED <<route, result>>
  /\ UNCHANGED <<url, drawer, rowWrites, stored, strayed, clicks>>

-----------------------------------------------------------------------------
Drawer(d) == drawer' = d /\
  UNCHANGED <<url, route, fetches, result, fetching, gridError, rowWrites, stored, strayed, others>>

OpenRow == Click /\ ~gridError /\ \E k \in GridRows :
  Drawer([mode |-> "view", of |-> result.table, key |-> k, mount |-> clicks'])
OpenNew == Click /\ Drawer([mode |-> "new", of |-> url.table, key |-> 0, mount |-> clicks'])
EditRow == drawer.mode = "view" /\ Click /\ Drawer([drawer EXCEPT !.mode = "edit"])
CloseDrawer == drawer.mode # "closed" /\ Click /\ Drawer(Closed(url.table))

Waits(kinds) == \E w \in rowWrites : w.mount = drawer.mount /\ w.kind \in kinds

\* The request names the URL's table and the key of the drawer's row.
Write(kind) ==
  /\ Click
  /\ rowWrites' = rowWrites \cup
       {[kind |-> kind, table |-> url.table, of |-> drawer.of, key |-> drawer.key,
         mount |-> drawer.mount, strayed |-> strayed, stage |-> "sent"]}
  /\ UNCHANGED <<url, route, fetches, result, fetching, gridError, drawer, stored,
                 strayed, others>>

SaveRow == /\ drawer.mode \in {"edit", "new"} /\ ~Waits({"update", "insert"})
           /\ Write(IF drawer.mode = "new" THEN "insert" ELSE "update")
DeleteRow == drawer.mode = "view" /\ ~Waits({"delete"}) /\ Write("delete")

\* insertRow, updateRow and deleteRow: one statement by key, or a refusal.
RunRowWrite(w) ==
  /\ w.stage = "sent"
  /\ \/ /\ w.kind = "insert"
        /\ \E k \in Keys \ stored[w.table] :
             /\ stored' = [stored EXCEPT ![w.table] = @ \cup {k}]
             /\ rowWrites' = (rowWrites \ {w}) \cup {[w EXCEPT !.key = k, !.stage = "done"]}
     \/ /\ w.kind # "insert" /\ w.key \in stored[w.table]
        /\ stored' = IF w.kind = "update" THEN stored
                     ELSE [stored EXCEPT ![w.table] = @ \ {w.key}]
        /\ rowWrites' = (rowWrites \ {w}) \cup {[w EXCEPT !.stage = "done"]}
     \/ rowWrites' = (rowWrites \ {w}) \cup {[w EXCEPT !.stage = "refused"]} /\ UNCHANGED stored
  /\ UNCHANGED <<url, route, fetches, result, fetching, gridError, drawer, strayed, clicks, others>>

\* A row saved is shown in the drawer, wherever the grid has gone; a row deleted
\* closes it.  Both fetch the grid again.
RowWritten(w) ==
  /\ w.stage # "sent" /\ rowWrites' = rowWrites \ {w}
  /\ IF w.stage = "done"
     THEN /\ drawer' = IF w.kind = "delete" THEN Closed(url.table)
                       ELSE [mode |-> "view", of |-> w.table, key |-> w.key,
                             mount |-> IF drawer.mode = "closed" THEN w.mount ELSE drawer.mount]
          /\ strayed' = (strayed \/ (w.kind # "delete" /\ w.table # url.table))
          /\ UNCHANGED url /\ Refetch
     ELSE UNCHANGED <<url, drawer, strayed, fetches, fetching>>
  /\ UNCHANGED <<route, result, gridError, stored, clicks, others>>

OthersChangeRows ==
  /\ others < MaxOthers /\ others' = others + 1
  /\ \E t \in Tables, k \in Keys :
       stored' = [stored EXCEPT ![t] = IF k \in @ THEN @ \ {k} ELSE @ \cup {k}]
  /\ UNCHANGED <<url, route, fetches, result, fetching, gridError, drawer, rowWrites,
                 strayed, clicks>>

Settling == \/ RouteArrives
            \/ \E f \in fetches : ReadGrid(f) \/ GridArrives(f)
            \/ \E w \in rowWrites : RunRowWrite(w) \/ RowWritten(w)

ContentNext ==
  \/ SelectTable \/ ChangeView \/ OpenRow \/ OpenNew \/ EditRow \/ CloseDrawer
  \/ SaveRow \/ DeleteRow \/ OthersChangeRows \/ Settling

\* The router and fetch settle.
ContentFairness == WF_contentVars(Settling)

ContentSpec == ContentInit /\ [][ContentNext]_contentVars /\ ContentFairness

-----------------------------------------------------------------------------
\* What the screen's state is made of.
ContentTypeOK ==
  /\ url \in Views /\ route \subseteq Views /\ Cardinality(route) <= 1
  /\ \A f \in fetches : f.view \in Views /\ f.rows \subseteq Keys /\ f.total \in Nat
  /\ result.table \in Tables /\ result.rows \subseteq Keys
  /\ drawer.mode \in {"closed", "view", "edit", "new"} /\ drawer.of \in Tables
  /\ \A w \in rowWrites : w.table \in Tables /\ w.of \in Tables
  /\ stored \in [Tables -> SUBSET Keys] /\ {fetching, gridError, strayed} \subseteq BOOLEAN

\* "Save/Delete would hit a different physical row that happens to share a pk"
\* (ContentBrowser.tsx:67): a write goes to the table its row was read from.
WritesHitTheRowOpened ==
  \A w \in rowWrites : w.kind # "insert" => w.table = w.of

\* The rows of the grid never put the drawer over another table: a write goes to
\* the table of its row unless the URL moved under an open drawer, or the answer
\* of a save opened the drawer after the URL had moved.
StraysNeedAMove ==
  \A w \in rowWrites : w.kind # "insert" => w.table = w.of \/ w.strayed

\* The grid comes to rest, and never on a page past the end.
GridComesToRest ==
  <>[](/\ ~fetching /\ route = {}
       /\ gridError \/ Fresh
       /\ gridError \/ result.rows # {} \/ result.total = 0 \/ url.page <= LastPage(result.total))
=============================================================================
