--------------------------- MODULE ResolverWrites ---------------------------
(***************************************************************************)
(* The writes of the admin resolver (packages/admin/src/server/resolver.ts) *)
(* against PostgreSQL at READ COMMITTED, its default: create, update and   *)
(* remove of records that belong to an owner, under a grant that may be    *)
(* restricted to one owner's rows, and the many-to-many links of a record. *)
(*                                                                         *)
(* One action is one statement.  What a transaction has not committed is   *)
(* in its own record; the row lock of an UPDATE is in `holder`, and the    *)
(* links a transaction inserted or deleted are locked while it lasts.  The *)
(* join table's primary key is the pair of keys and it references both     *)
(* tables: views.ts detects a many-to-many by that.                        *)
(***************************************************************************)
EXTENDS Naturals, FiniteSets

CONSTANTS
  Ids,       \* records
  Owners,    \* values of the column a grant may restrict
  Scopes,    \* row scopes the grants of the actors have: an owner, or Everyone
  Far,       \* records on the far side of the many-to-many
  Requests,  \* requests in flight together
  MaxSends   \* bound: requests sent in one behaviour

Everyone == "everyone"  \* a grant without a row filter
Absent == "absent"      \* no such row
None == "none"          \* nothing
Same == "same"          \* columns of the row, but not the owner
Free == "free"

ASSUME WritesAssumption ==
  /\ Scopes \subseteq Owners \cup {Everyone}
  /\ {Everyone, Absent, None, Same} \cap Owners = {}
  /\ Free \notin Requests
  /\ MaxSends \in Nat

VARIABLES
  rows,    \* the owner in each row
  links,   \* for each record and far record: 0, or the request that linked them
  holder,  \* the transaction that holds each row's lock
  tx,      \* the requests and their transactions
  sent     \* requests sent so far

vars == <<rows, links, holder, tx, sent>>
tables == <<rows, links, holder>>

-----------------------------------------------------------------------------
Kinds == {"create", "update", "remove"}
Crossings == {"save", "links", "remove"}

Idle == [pc |-> "idle"]

\* own: the owner that was submitted; sync, want: whether links were, and which.
\* row: what the transaction wrote to the row.
\* del, add: links to delete and to insert; gone, new: those already deleted or
\* inserted.  crossed: history, what committed to the record's links since this
\* transaction read them: a save that wrote the row, one that did not, a remove.
Transaction ==
  [pc : {"write", "assert", "read", "delete", "insert", "commit"},
   kind : Kinds, n : Nat, id : Ids, scope : Scopes,
   own : Owners \cup {None, Same}, sync : BOOLEAN, want : SUBSET Far,
   row : Owners \cup {None}, del : SUBSET Far, add : SUBSET Far,
   gone : SUBSET Far, new : SUBSET Far, next : Far \cup {None},
   crossed : SUBSET Crossings]

TypeOK ==
  /\ rows \in [Ids -> Owners \cup {Absent}]
  /\ links \in [Ids -> [Far -> Nat]]
  /\ holder \in [Ids -> Requests \cup {Free}]
  /\ tx \in [Requests -> Transaction \cup {Idle}]
  /\ sent \in Nat

Init ==
  /\ rows \in [Ids -> Owners \cup {Absent}]
  /\ links \in {L \in [Ids -> [Far -> {0, 1}]] :
                  \A i \in Ids : rows[i] = Absent => L[i] = [f \in Far |-> 0]}
  /\ holder = [i \in Ids |-> Free]
  /\ tx = [c \in Requests |-> Idle]
  /\ sent = 1

InGrant(s, o) == s = Everyone \/ s = o

\* What a statement scoped by the grant finds: a committed row it covers.
Found(t) == rows[t.id] # Absent /\ InGrant(t.scope, rows[t.id])

\* The owner an update leaves in the row it found.
Landed(t) == IF t.own = Same THEN rows[t.id] ELSE t.own

Linked(L, i) == {f \in Far : L[i][f] # 0}

Others(c) == {d \in Requests \ {c} : tx[d] # Idle /\ tx[d].id = tx[c].id}

-----------------------------------------------------------------------------
(* Steps shared by the writes *)

\* A request arrives; gate has given the scope of its actor's grant.
Send(c, k, i, s, own, sync, want) ==
  /\ tx[c] = Idle
  /\ sent < MaxSends
  /\ sent' = sent + 1
  /\ tx' = [tx EXCEPT ![c] =
       [pc |-> "write", kind |-> k, n |-> sent', id |-> i, scope |-> s, own |-> own,
        sync |-> sync, want |-> want, row |-> None, del |-> {}, add |-> {}, gone |-> {}, new |-> {},
        next |-> None, crossed |-> {}]]
  /\ UNCHANGED tables

Become(c, t) ==
  /\ tx' = [tx EXCEPT ![c] = t]
  /\ UNCHANGED <<tables, sent>>

\* Mutation: the client is released with its transaction still open.
RollbackForgotten(c) ==
  /\ tx' = [tx EXCEPT ![c] = Idle]
  /\ UNCHANGED <<rows, links, holder, sent>>

\* transact: rollback, and the error is thrown on.
Rollback(c) ==
  /\ tx' = [tx EXCEPT ![c] = Idle]
  /\ holder' = [i \in Ids |-> IF holder[i] = c THEN Free ELSE holder[i]]
  /\ UNCHANGED <<rows, links, sent>>

\* A statement fails for a reason of its own, or the connection is lost.
StatementFails(c) == tx[c] # Idle /\ Rollback(c)

-----------------------------------------------------------------------------
(* The row *)

\* create's INSERT: the database may fill in the owner itself.
InsertRow(c) ==
  /\ tx[c].pc = "write" /\ tx[c].kind = "create"
  /\ rows[tx[c].id] = Absent /\ holder[tx[c].id] = Free
  /\ \E o \in Owners :
       /\ tx[c].own \in {o, None}
       /\ tx' = [tx EXCEPT ![c].pc = "assert", ![c].row = o]
  /\ holder' = [holder EXCEPT ![tx[c].id] = c]
  /\ UNCHANGED <<rows, links, sent>>

\* Mutation: the UPDATE runs on the pool and not on the transaction's client.
UpdateRowOnPool(c) ==
  LET t == tx[c]
  IN  /\ t.pc = "write" /\ t.kind = "update" /\ t.own # None
      /\ Found(t) /\ holder[t.id] = Free
      /\ tx' = [tx EXCEPT ![c].pc = "assert", ![c].row = Landed(t)]
      /\ rows' = [rows EXCEPT ![t.id] = t.own]
      /\ UNCHANGED <<links, holder, sent>>

\* update's UPDATE, scoped by the grant.  It waits for the lock of the row it found,
\* and looks at the row again as it has become.
UpdateRow(c) ==
  LET t == tx[c]
  IN  /\ t.pc = "write" /\ t.kind = "update" /\ t.own # None
      /\ \/ /\ Found(t) /\ holder[t.id] = Free
            /\ tx' = [tx EXCEPT ![c].pc = "assert", ![c].row = Landed(t)]
            /\ holder' = [holder EXCEPT ![t.id] = c]
            /\ UNCHANGED <<rows, links, sent>>
         \/ ~Found(t) /\ Rollback(c)

\* Nothing of the row was submitted: a SELECT, scoped alike, that locks nothing.
SelectRow(c) ==
  LET t == tx[c]
  IN  /\ t.pc = "write" /\ t.kind = "update" /\ t.own = None
      /\ IF Found(t)
         THEN Become(c, [t EXCEPT !.pc = IF t.sync THEN "read" ELSE "commit"])
         ELSE Rollback(c)

\* Mutation: what landed is not looked at.
AssertSkipped(c) ==
  /\ tx[c].pc = "assert"
  /\ Become(c, [tx[c] EXCEPT !.pc = IF tx[c].sync THEN "read" ELSE "commit"])

\* assertWithinGrant: the row as it landed must be one the grant covers.
AssertWithinGrant(c) ==
  /\ tx[c].pc = "assert"
  /\ IF InGrant(tx[c].scope, tx[c].row)
     THEN Become(c, [tx[c] EXCEPT !.pc = IF tx[c].sync THEN "read" ELSE "commit"])
     ELSE Rollback(c)

-----------------------------------------------------------------------------
(* The links: syncLinks *)

\* Mutation: the set is rewritten rather than reconciled.
ReadLinksToRewrite(c) ==
  LET t == tx[c]
  IN  /\ t.pc = "read"
      /\ Become(c, [t EXCEPT !.pc = "delete", !.del = Linked(links, t.id), !.add = t.want])

\* The current links, and from them what to delete and what to insert.
ReadLinks(c) ==
  LET t == tx[c]
      have == Linked(links, t.id)
  IN  /\ t.pc = "read"
      /\ Become(c, [t EXCEPT !.pc = "delete", !.del = have \ t.want, !.add = t.want \ have])

\* On to the next link of t to insert, or to the commit.
Onward(c, t) ==
  \/ t.add = {} /\ Become(c, [t EXCEPT !.pc = "commit", !.next = None])
  \/ \E f \in t.add :
       Become(c, [t EXCEPT !.pc = "insert", !.next = f, !.add = @ \ {f}])

\* The DELETE waits for whoever has deleted one of the links and not committed.
DeleteLinks(c) ==
  LET t == tx[c]
      found == t.del \cap Linked(links, t.id)
  IN  /\ t.pc = "delete"
      /\ \A d \in Others(c) : tx[d].gone \cap found = {}
      /\ Onward(c, [t EXCEPT !.gone = found])

\* INSERT ... ON CONFLICT DO NOTHING: it waits for whoever has inserted or deleted
\* the link and not committed, and fails when the record is gone.
InsertLink(c) ==
  LET t == tx[c]
      f == t.next
  IN  /\ t.pc = "insert"
      /\ \A d \in Others(c) : f \notin tx[d].new \cup tx[d].gone
      /\ IF rows[t.id] = Absent /\ t.kind # "create"
         THEN Rollback(c)
         ELSE Onward(c, IF f \in Linked(links, t.id) \ t.gone THEN t
                        ELSE [t EXCEPT !.new = @ \cup {f}])

-----------------------------------------------------------------------------
(* The end of a transaction *)

Crossing(t) == IF t.row = None THEN "links" ELSE "save"

\* The transactions of the same record that have read its links.
Overlapped(c) == {d \in Others(c) : tx[d].pc \in {"delete", "insert", "commit"}}

After(c, what) ==
  tx' = [d \in Requests |->
           IF d = c THEN Idle
           ELSE IF d \in Overlapped(c) THEN [tx[d] EXCEPT !.crossed = @ \cup what]
           ELSE tx[d]]

\* Mutation: the row is taken to be what was submitted.
CommitSubmitted(c) ==
  LET t == tx[c]
  IN  /\ t.pc = "commit"
      /\ rows' = IF t.row = None THEN rows ELSE [rows EXCEPT ![t.id] = t.own]
      /\ links' = links
      /\ holder' = [i \in Ids |-> IF holder[i] = c THEN Free ELSE holder[i]]
      /\ After(c, {})
      /\ UNCHANGED sent

Commit(c) ==
  LET t == tx[c]
  IN  /\ t.pc = "commit"
      /\ rows' = IF t.row = None THEN rows ELSE [rows EXCEPT ![t.id] = t.row]
      /\ links' = [links EXCEPT ![t.id] =
           [f \in Far |-> IF f \in t.new THEN t.n ELSE IF f \in t.gone THEN 0 ELSE @[f]]]
      /\ holder' = [i \in Ids |-> IF holder[i] = c THEN Free ELSE holder[i]]
      /\ After(c, IF t.sync THEN {Crossing(t)} ELSE {})
      /\ UNCHANGED sent

\* remove: one DELETE, scoped by the grant, that takes the links along.  It waits
\* for whoever has locked the row, or written links of it, and not committed.
RemoveRow(c) ==
  LET t == tx[c]
  IN  /\ t.pc = "write" /\ t.kind = "remove"
      /\ \/ /\ Found(t) /\ holder[t.id] = Free
            /\ \A d \in Others(c) : tx[d].new = {} /\ tx[d].gone = {}
            /\ rows' = [rows EXCEPT ![t.id] = Absent]
            /\ links' = [links EXCEPT ![t.id] = [f \in Far |-> 0]]
            /\ After(c, {"remove"})
            /\ UNCHANGED <<holder, sent>>
         \/ ~Found(t) /\ Rollback(c)

-----------------------------------------------------------------------------
(* PostgreSQL's deadlock detector *)

\* c's statement waits for d's transaction to end.
WaitsFor(c, d) ==
  /\ tx[c] # Idle /\ d # c
  /\ \/ /\ tx[c].pc = "write" /\ Found(tx[c]) /\ holder[tx[c].id] = d
        /\ tx[c].kind = "remove" \/ tx[c].own # None
     \/ /\ d \in Others(c)
        /\ \/ /\ tx[c].pc = "write" /\ tx[c].kind = "remove" /\ Found(tx[c])
              /\ tx[d].new \cup tx[d].gone # {}
           \/ tx[c].pc = "delete"
                /\ tx[d].gone \cap tx[c].del \cap Linked(links, tx[c].id) # {}
           \/ tx[c].pc = "insert" /\ tx[c].next \in tx[d].new \cup tx[d].gone

\* Transactions each of which waits for another of them: one is made to fail.
Deadlocked(c) ==
  \E S \in SUBSET Requests :
    c \in S /\ \A d \in S : \E e \in S : WaitsFor(d, e)

BreakDeadlock(c) == Deadlocked(c) /\ Rollback(c)

-----------------------------------------------------------------------------
Statement(c) ==
  \/ InsertRow(c) \/ UpdateRow(c) \/ SelectRow(c) \/ AssertWithinGrant(c)
  \/ ReadLinks(c) \/ DeleteLinks(c) \/ InsertLink(c) \/ Commit(c) \/ RemoveRow(c)
  \/ BreakDeadlock(c)

\* create draws the key of a record that is not there and nobody is creating.
Create(c, i, s, own, sync, want) ==
  /\ own # Same
  /\ rows[i] = Absent
  /\ \A d \in Requests : tx[d] # Idle => tx[d].id # i
  /\ Send(c, "create", i, s, own, sync, want)

Update(c, i, s, own, sync, want) == Send(c, "update", i, s, own, sync, want)

Remove(c, i, s) == Send(c, "remove", i, s, None, FALSE, {})

Next ==
  \/ \E c \in Requests : Statement(c) \/ StatementFails(c)
  \/ \E c \in Requests, i \in Ids, s \in Scopes :
       \/ \E own \in Owners \cup {None, Same}, sync \in BOOLEAN, want \in SUBSET Far :
            /\ want # {} => sync
            /\ Create(c, i, s, own, sync, want) \/ Update(c, i, s, own, sync, want)
       \/ Remove(c, i, s)

Spec == Init /\ [][Next]_vars

\* PostgreSQL executes what it can and breaks deadlocks; nobody is obliged to send.
Fairness == \A c \in Requests : WF_vars(Statement(c))

FairSpec == Spec /\ Fairness

-----------------------------------------------------------------------------
(* Properties *)

\* "A write is checked again after it lands, inside its transaction, so an update
\* cannot move a row out of the grant that allowed it" (packages/admin/README.md):
\* whatever becomes of a row, one request whose grant covers the row as it was and
\* as it is has done it, however many overlapped and whichever failed half way.
ChangesStayInGrant ==
  [][\A i \in Ids : rows'[i] # rows[i] =>
       \E c \in Requests :
         /\ tx[c] # Idle /\ tx[c].id = i /\ tx'[c] = Idle
         /\ rows[i] # Absent => InGrant(tx[c].scope, rows[i])
         /\ rows'[i] # Absent => InGrant(tx[c].scope, rows'[i])]_vars

\* A save leaves exactly the links that were submitted, unless the record's links
\* changed under it; and under a save that writes the row they can only be changed
\* by one that does not: the row lock keeps every other save and remove away.
SavesReconcile ==
  [][\A c \in Requests :
       Commit(c) /\ tx[c].sync =>
         /\ tx[c].crossed = {} => Linked(links', tx[c].id) = tx[c].want
         /\ tx[c].row # None => tx[c].crossed \subseteq {"links"}]_vars

\* "Leave untouched rows alone so any payload on the join table survives editing"
\* (syncLinks): no save replaces a link that was there by a new one.
PayloadSurvives ==
  [][\A i \in Ids, f \in Far :
       links[i][f] # 0 /\ links'[i][f] # 0 => links'[i][f] = links[i][f]]_vars

\* Every write ends: neither a refusal, nor a failed statement, nor two saves that
\* wait for each other's links leave a lock behind that blocks the others.
WritesEnd == \A c \in Requests : tx[c] # Idle ~> tx[c] = Idle

\* What packages/admin/README.md says of many-to-many: "Writes reconcile to exactly the
\* submitted set".  Of a record that is still there, that is what a save leaves.
WritesAreExact ==
  [][\A c \in Requests :
       Commit(c) /\ tx[c].sync /\ rows'[tx[c].id] # Absent =>
         Linked(links', tx[c].id) = tx[c].want]_vars
=============================================================================
