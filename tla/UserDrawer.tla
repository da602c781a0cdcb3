----------------------------- MODULE UserDrawer -----------------------------
(***************************************************************************)
(* The users screen (apps/console/app/users/UsersAdmin.tsx) over           *)
(* /api/users/list, /roles and /create and /api/content/row.               *)
(*                                                                         *)
(* The drawer is handed the row of the last list answered.  Its fields are *)
(* set from that row only when it turns to another user, so that a reload  *)
(* does not wipe what is being typed; what it saves is what differs from   *)
(* the row it was handed last.                                             *)
(***************************************************************************)
EXTENDS Naturals, FiniteSets

CONSTANTS
  People,
  Roles,
  MaxDeeds,      \* bound: what the developer does in the drawer
  MaxElsewhere   \* bound: what others do to the users, and requests refused

ASSUME DrawerAssumption == MaxDeeds \in Nat /\ MaxElsewhere \in Nat

VARIABLES
  people,      \* the users table with user_roles: a row for everyone in it
  listed,      \* the rows on screen
  listings,    \* list requests in flight
  open,        \* the user in the drawer, at most one, with the row it was handed
  fields,      \* what the drawer's inputs hold
  calls,       \* its requests in flight
  typed,       \* history: fields typed into since the drawer turned to this user
  behind,      \* history: fields of the row that came back changed meanwhile
  deeds, elsewhere

drawerVars == <<people, listed, listings, open, fields, calls, typed, behind, deeds, elsewhere>>

-----------------------------------------------------------------------------
\* A user's identity: 0 as first stored, 1 typed here, 2 by somebody else.
Inputs == {"name", "status"}
Identity == [Inputs -> 0..2]
UserRow == [identity : Identity, roles : SUBSET Roles]
Stored0 == [i \in Inputs |-> 0]

UsersAsked == [cancelled |-> FALSE, read |-> FALSE, rows |-> <<>>]

UsersInit ==
  /\ people \in {[p \in People |-> [identity |-> Stored0, roles |-> r]] : r \in {{}, Roles}}
  /\ listed = people /\ listings = {}
  /\ open = {} /\ fields = Stored0 /\ calls = {}
  /\ typed = {} /\ behind = {} /\ deeds = 0 /\ elsewhere = 0

Deed == deeds < MaxDeeds /\ deeds' = deeds + 1

\* Mutation: the inputs are set when the drawer opens, whoever it turns to.
ResyncOnce(row) ==
  /\ fields' = IF open = {} THEN row.identity ELSE fields
  /\ typed' = {} /\ behind' = {}

\* The inputs follow the user, not the row.
Resync(row) == fields' = row.identity /\ typed' = {} /\ behind' = {}

OpenUser(p) ==
  /\ Deed /\ p \in DOMAIN listed
  /\ open' = {[id |-> p, row |-> listed[p], mount |-> IF open = {} THEN deeds' ELSE o.mount] : o \in
                IF open = {} THEN {[mount |-> 0]} ELSE open}
  /\ IF \E o \in open : o.id = p THEN UNCHANGED <<fields, typed, behind>>
                                 ELSE Resync(listed[p])
  /\ UNCHANGED <<people, listed, listings, calls, elsewhere>>

CloseUser ==
  /\ open # {} /\ Deed /\ open' = {}
  /\ UNCHANGED <<people, listed, listings, fields, calls, typed, behind, elsewhere>>

TypeInto(i) ==
  /\ open # {} /\ Deed
  /\ fields' = [fields EXCEPT ![i] = 1] /\ typed' = typed \cup {i}
  /\ UNCHANGED <<people, listed, listings, open, calls, behind, elsewhere>>

\* One call at a time in a drawer; a drawer closed and opened again forgets.
DrawerCall(o, kind, sends, role) ==
  /\ Deed /\ ~\E c \in calls : c.mount = o.mount
  /\ calls' = calls \cup {[kind |-> kind, id |-> o.id, mount |-> o.mount, sends |-> sends,
                           values |-> fields, role |-> role, typed |-> typed,
                           behind |-> behind, stage |-> "sent"]}
  /\ UNCHANGED <<people, listed, listings, open, fields, typed, behind, elsewhere>>

Changed(o) == {i \in Inputs : fields[i] # o.row.identity[i]}

SaveIdentity == \E o \in open : Changed(o) # {} /\ DrawerCall(o, "save", Changed(o), {})
RoleAction == \E o \in open, r \in Roles :
  DrawerCall(o, IF r \in o.row.roles THEN "revoke" ELSE "grant", {}, {r})
DeleteUser == \E o \in open : DrawerCall(o, "delete", {}, {})

-----------------------------------------------------------------------------
Without(p) == [q \in DOMAIN people \ {p} |-> people[q]]

\* Each call is one statement; a revoke of a role already gone is an error, a
\* grant of one already there is not.
RunCall(c) ==
  /\ c.stage = "sent"
  /\ \/ /\ c.id \in DOMAIN people
        /\ c.kind = "revoke" => c.role \subseteq people[c.id].roles
        /\ people' = CASE c.kind = "delete" -> Without(c.id)
             [] c.kind = "save" -> [people EXCEPT ![c.id].identity =
                  [i \in Inputs |-> IF i \in c.sends THEN c.values[i] ELSE @[i]]]
             [] c.kind = "grant" -> [people EXCEPT ![c.id].roles = @ \cup c.role]
             [] OTHER -> [people EXCEPT ![c.id].roles = @ \ c.role]
        /\ calls' = (calls \ {c}) \cup {[c EXCEPT !.stage = "done"]} /\ UNCHANGED elsewhere
     \/ /\ elsewhere < MaxElsewhere /\ elsewhere' = elsewhere + 1 /\ UNCHANGED people
        /\ calls' = (calls \ {c}) \cup {[c EXCEPT !.stage = "failed"]}
  /\ UNCHANGED <<listed, listings, open, fields, typed, behind, deeds>>

\* Success lists the users again; a delete closes whatever drawer is open.
CallAnswered(c) ==
  /\ c.stage # "sent" /\ calls' = calls \ {c}
  /\ open' = IF c.stage = "done" /\ c.kind = "delete" THEN {} ELSE open
  /\ listings' = IF c.stage = "done" THEN {[l EXCEPT !.cancelled = TRUE] : l \in listings} \cup {UsersAsked}
                                     ELSE listings
  /\ UNCHANGED <<people, listed, fields, typed, behind, deeds, elsewhere>>

ReadUsers(l) ==
  /\ ~l.read /\ listings' = (listings \ {l}) \cup {[l EXCEPT !.read = TRUE, !.rows = people]}
  /\ UNCHANGED <<people, listed, open, fields, calls, typed, behind, deeds, elsewhere>>

\* The open drawer is handed its user's new row, or closed when it is not there.
UsersArrive(l) ==
  /\ l.read /\ listings' = listings \ {l}
  /\ IF l.cancelled THEN UNCHANGED <<listed, open, behind>>
     ELSE LET kept == {o \in open : o.id \in DOMAIN l.rows}
          IN /\ listed' = l.rows
             /\ open' = {[o EXCEPT !.row = l.rows[o.id]] : o \in kept}
             /\ behind' = behind \cup
                  {i \in Inputs : \E o \in kept : l.rows[o.id].identity[i] # o.row.identity[i]}
  /\ UNCHANGED <<people, fields, calls, typed, deeds, elsewhere>>

\* Somebody else edits a user (suspends them, say), or creates one with all
\* their roles, in one transaction.
ElsewhereEdit(p) ==
  /\ elsewhere < MaxElsewhere /\ elsewhere' = elsewhere + 1
  /\ p \in DOMAIN people
  /\ \E i \in Inputs : people' = [people EXCEPT ![p].identity[i] = 2]
  /\ UNCHANGED <<listed, listings, open, fields, calls, typed, behind, deeds>>

CreateUser(p) ==
  /\ elsewhere < MaxElsewhere /\ elsewhere' = elsewhere + 1
  /\ p \notin DOMAIN people
  /\ \E r \in SUBSET Roles :
       people' = [q \in DOMAIN people \cup {p} |->
                    IF q = p THEN [identity |-> Stored0, roles |-> r] ELSE people[q]]
  /\ UNCHANGED <<listed, listings, open, fields, calls, typed, behind, deeds>>

UsersNext ==
  \/ \E p \in People : OpenUser(p) \/ ElsewhereEdit(p) \/ CreateUser(p)
  \/ CloseUser \/ (\E i \in Inputs : TypeInto(i)) \/ SaveIdentity \/ RoleAction \/ DeleteUser
  \/ \E c \in calls : RunCall(c) \/ CallAnswered(c)
  \/ \E l \in listings : ReadUsers(l) \/ UsersArrive(l)

UsersSpec == UsersInit /\ [][UsersNext]_drawerVars

-----------------------------------------------------------------------------
\* What the screen's state is made of.
UsersTypeOK ==
  /\ \A p \in DOMAIN people : p \in People /\ people[p] \in UserRow
  /\ \A o \in open : o.id \in People /\ o.row \in UserRow
  /\ Cardinality(open) <= 1 /\ fields \in Identity /\ typed \subseteq Inputs
  /\ \A c \in calls : c.id \in People /\ c.sends \subseteq Inputs /\ c.typed \subseteq Inputs

\* Saving a user sends only what was typed for that user: the inputs do not
\* carry over from the user before, and a reload in the middle of typing adds
\* no field but one whose row came back changed (its old value then counts as
\* an edit, and the save puts it back).
IdentitySavesWhatWasTyped ==
  \A c \in calls : c.kind = "save" => c.sends \subseteq c.typed \cup c.behind
=============================================================================
