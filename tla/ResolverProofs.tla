---------------------------- MODULE ResolverProofs ----------------------------
(***************************************************************************)
(* Proofs about the writes of the resolver.                                *)
(***************************************************************************)
EXTENDS ResolverWrites, TLAPS

\* What a transaction has of the row: it holds the lock of what it wrote, so the row
\* it found is the row there still is, and past the check what it wrote is in the grant.
RowFits(c, t) ==
  /\ t.pc = "write" => t.row = None
  /\ t.pc = "assert" => t.row # None
  /\ t.row # None =>
       /\ holder[t.id] = c /\ t.crossed \subseteq {"links"}
       /\ IF t.kind = "create" THEN rows[t.id] = Absent ELSE Found(t)
       /\ t.pc # "assert" => InGrant(t.scope, t.row)

\* What it has of the links, if nobody committed to them since it read them.
Reconciles(t) ==
  LET have == Linked(links, t.id)
  IN  /\ t.pc = "delete" => t.del = have \ t.want /\ t.add = t.want \ have
      /\ t.pc \in {"insert", "commit"} /\ t.sync => t.gone = have \ t.want
      /\ t.pc = "insert" => t.want \ have = t.add \cup {t.next} \cup t.new
      /\ t.pc = "commit" /\ t.sync => t.new = t.want \ have

LinksFit(t) ==
  /\ t.pc \in {"write", "assert", "read"} => t.crossed = {}
  /\ t.pc \in {"write", "assert", "read", "delete"} => t.new = {} /\ t.gone = {}
  /\ ~t.sync => t.pc \in {"write", "assert", "commit"} /\ t.new = {} /\ t.gone = {}
  /\ t.gone \cap t.want = {} /\ t.new \subseteq t.want
  /\ t.pc \in {"delete", "insert"} => t.del \cap t.want = {} /\ t.add \subseteq t.want
  /\ t.pc = "insert" => t.next \in t.want
  /\ \A f \in t.new : links[t.id][f] = 0
  /\ t.crossed = {} => Reconciles(t)

TxFits(c, t) == t \in Transaction /\ t.n > 0 /\ RowFits(c, t) /\ LinksFit(t)

\* Two transactions do not insert the same link.
LinkedOnce ==
  \A c, d \in Requests :
    c # d /\ tx[c] # Idle /\ tx[d] # Idle /\ tx[c].id = tx[d].id => tx[c].new \cap tx[d].new = {}

\* The inductive invariant of the writes.
WritesInv ==
  /\ TypeOK /\ LinkedOnce
  /\ \A c \in Requests : tx[c] # Idle => TxFits(c, tx[c])

LEMMA WritesStart == Init => WritesInv
<1> SUFFICES ASSUME Init PROVE WritesInv
  OBVIOUS
<1>1. \A c \in Requests : tx[c] = Idle
  BY DEF Init
<1>2. TypeOK
  BY <1>1 DEF Init, TypeOK
<1> QED BY <1>1, <1>2 DEF WritesInv, LinkedOnce

\* A request under way is a transaction.
LEMMA Live ==
  ASSUME WritesInv, NEW c \in Requests, tx[c] # Idle
  PROVE  tx[c] \in Transaction /\ TxFits(c, tx[c]) /\ tx[c].id \in Ids
BY DEF WritesInv, TxFits, Transaction

LEMMA NotIdle == ASSUME NEW t, t.pc # "idle" PROVE t # Idle
BY DEF Idle

\* What a transaction fits depends on the lock, the row and the links of its own record.
LEMMA FitsOn ==
  ASSUME NEW c \in Requests, NEW t, TxFits(c, t),
         rows'[t.id] = rows[t.id], links'[t.id] = links[t.id],
         holder[t.id] = c => holder'[t.id] = c
  PROVE  TxFits(c, t)'
<1>1. RowFits(c, t)'
  BY DEF TxFits, RowFits, Found
<1>2. Reconciles(t)' <=> Reconciles(t)
  BY DEF Reconciles, Linked
<1>3. LinksFit(t)'
  BY <1>2 DEF TxFits, LinksFit
<1> QED BY <1>1, <1>3 DEF TxFits

\* A step of one request that leaves the tables, and of the locks changes at most its own.
LEMMA OwnStep ==
  ASSUME WritesInv, NEW c \in Requests, NEW t, tx' = [tx EXCEPT ![c] = t],
         t \in Transaction \cup {Idle}, UNCHANGED <<rows, links>>, sent' \in Nat,
         holder' \in [Ids -> Requests \cup {Free}],
         \A d \in Requests \ {c}, i \in Ids : holder[i] = d => holder'[i] = d,
         t # Idle => /\ TxFits(c, t)'
                     /\ \A d \in Requests \ {c} :
                          tx[d] # Idle /\ tx[d].id = t.id => t.new \cap tx[d].new = {}
  PROVE  WritesInv'
<1>1. TypeOK'
  BY DEF WritesInv, TypeOK
<1>2. tx'[c] = t /\ \A d \in Requests \ {c} : tx'[d] = tx[d]
  BY DEF WritesInv, TypeOK
<1>3. LinkedOnce'
  BY <1>2 DEF WritesInv, LinkedOnce
<1>4. ASSUME NEW d \in Requests, tx'[d] # Idle, NEW u, u = tx'[d] PROVE TxFits(d, u)'
  <2>1. CASE d = c
    BY <1>2, <1>4, <2>1
  <2>2. CASE d # c
    <3>1. u = tx[d] /\ TxFits(d, u) /\ u.id \in Ids
      BY <1>2, <1>4, <2>2, Live
    <3> QED BY <2>2, <3>1, FitsOn
  <2> QED BY <2>1, <2>2
<1>5. \A d \in Requests : tx'[d] # Idle => TxFits(d, tx[d])'
  BY <1>4 DEF TxFits, RowFits, LinksFit, Reconciles, Found
<1> QED BY <1>1, <1>3, <1>5 DEF WritesInv

LEMMA RollbackKeeps == ASSUME WritesInv, NEW c \in Requests, Rollback(c) PROVE WritesInv'
<1>1. holder' \in [Ids -> Requests \cup {Free}]
  BY DEF Rollback, WritesInv, TypeOK
<1>2. \A d \in Requests \ {c}, i \in Ids : holder[i] = d => holder'[i] = d
  BY DEF Rollback
<1> QED BY <1>1, <1>2, OwnStep DEF Rollback, WritesInv, TypeOK

\* A request that only moves on.
LEMMA BecomeKeeps ==
  ASSUME WritesInv, NEW c \in Requests, NEW t, Become(c, t), TxFits(c, t), t # Idle,
         \A d \in Requests \ {c} : tx[d] # Idle /\ tx[d].id = t.id => t.new \cap tx[d].new = {}
  PROVE  WritesInv'
<1>1. TxFits(c, t)'
  BY FitsOn DEF Become, tables
<1> QED BY <1>1, OwnStep DEF Become, tables, TxFits, WritesInv, TypeOK

\* Nothing new inserted, nothing new to disagree about.
LEMMA SameNew ==
  ASSUME WritesInv, NEW c \in Requests, tx[c] # Idle, NEW t, t.id = tx[c].id, t.new = tx[c].new
  PROVE  \A d \in Requests \ {c} : tx[d] # Idle /\ tx[d].id = t.id => t.new \cap tx[d].new = {}
BY DEF WritesInv, LinkedOnce

LEMMA SendKeeps ==
  ASSUME WritesInv, NEW c \in Requests, NEW k \in Kinds, NEW i \in Ids, NEW s \in Scopes,
         NEW own \in Owners \cup {None, Same}, NEW sync \in BOOLEAN, NEW want \in SUBSET Far,
         Send(c, k, i, s, own, sync, want)
  PROVE  WritesInv'
<1>1. PICK t : t = [pc |-> "write", kind |-> k, n |-> sent', id |-> i, scope |-> s, own |-> own,
        sync |-> sync, want |-> want, row |-> None, del |-> {}, add |-> {}, gone |-> {}, new |-> {},
        next |-> None, crossed |-> {}]
  OBVIOUS
<1>2. tx' = [tx EXCEPT ![c] = t] /\ UNCHANGED <<rows, links, holder>> /\ sent' \in Nat /\ sent' > 0
  BY <1>1 DEF Send, tables, WritesInv, TypeOK
<1>3. t \in Transaction
  BY <1>1, <1>2 DEF Transaction, Crossings
<1>4. t.pc = "write" /\ t.new = {} /\ t.gone = {} /\ t.crossed = {} /\ t.row = None /\ t.n > 0
  BY <1>1, <1>2
<1>5. TxFits(c, t)
  BY <1>3, <1>4 DEF TxFits, RowFits, LinksFit, Reconciles
<1>6. TxFits(c, t)'
  BY <1>2, <1>5, FitsOn
<1> QED BY <1>2, <1>3, <1>4, <1>6, OwnStep DEF WritesInv, TypeOK

\* The row is written, and locked.
LEMMA LockKeeps ==
  ASSUME WritesInv, NEW c \in Requests, tx[c].pc = "write", NEW o \in Owners,
         IF tx[c].kind = "create" THEN rows[tx[c].id] = Absent ELSE Found(tx[c]),
         holder[tx[c].id] = Free, holder' = [holder EXCEPT ![tx[c].id] = c],
         tx' = [tx EXCEPT ![c].pc = "assert", ![c].row = o], UNCHANGED <<rows, links, sent>>
  PROVE  WritesInv'
<1>1. tx[c] # Idle /\ tx[c] \in Transaction /\ TxFits(c, tx[c]) /\ tx[c].id \in Ids
  BY NotIdle, Live
<1>2. PICK t : t = [tx[c] EXCEPT !.pc = "assert", !.row = o]
  OBVIOUS
<1>3. tx' = [tx EXCEPT ![c] = t]
  BY <1>2 DEF WritesInv, TypeOK
<1>4. t \in Transaction
  BY <1>1, <1>2 DEF Transaction
<1>5. /\ t.pc = "assert" /\ t.row = o /\ t.id = tx[c].id /\ t.kind = tx[c].kind /\ t.n = tx[c].n
      /\ t.scope = tx[c].scope /\ t.new = tx[c].new /\ t.gone = tx[c].gone /\ t.sync = tx[c].sync
      /\ t.want = tx[c].want /\ t.crossed = tx[c].crossed
  BY <1>1, <1>2 DEF Transaction
<1>6. holder' \in [Ids -> Requests \cup {Free}] /\ holder'[t.id] = c
      /\ \A d \in Requests \ {c}, i \in Ids : holder[i] = d => holder'[i] = d
  BY <1>1, <1>5, WritesAssumption DEF WritesInv, TypeOK, WritesAssumption
<1>7. RowFits(c, t)'
  BY <1>1, <1>5, <1>6, WritesAssumption DEF RowFits, Found, TxFits, LinksFit, WritesAssumption
<1>8. LinksFit(t)'
  BY <1>1, <1>5 DEF TxFits, LinksFit, Reconciles
<1>9. \A d \in Requests \ {c} : tx[d] # Idle /\ tx[d].id = t.id => t.new \cap tx[d].new = {}
  BY <1>1, <1>5, SameNew
<1> QED BY <1>1, <1>3, <1>4, <1>5, <1>6, <1>7, <1>8, <1>9, OwnStep DEF TxFits, WritesInv, TypeOK

LEMMA WriteRowKeeps == ASSUME WritesInv, NEW c \in Requests, InsertRow(c) \/ UpdateRow(c) PROVE WritesInv'
<1>1. CASE InsertRow(c)
  BY <1>1, LockKeeps DEF InsertRow
<1>2. CASE UpdateRow(c)
  <2>1. CASE Rollback(c)
    BY <2>1, RollbackKeeps
  <2>2. CASE ~Rollback(c)
    <3>1. tx[c] \in Transaction /\ tx[c].pc = "write"
      BY <1>2, NotIdle, Live DEF UpdateRow
    <3>2. PICK o : o = Landed(tx[c])
      OBVIOUS
    <3>3. Found(tx[c]) /\ tx[c].own # None
      BY <1>2, <2>2 DEF UpdateRow
    <3>4. o \in Owners
      BY <3>1, <3>2, <3>3 DEF Landed, Found, Transaction, WritesInv, TypeOK
    <3>5. /\ tx' = [tx EXCEPT ![c].pc = "assert", ![c].row = o]
          /\ holder[tx[c].id] = Free /\ holder' = [holder EXCEPT ![tx[c].id] = c]
          /\ UNCHANGED <<rows, links, sent>> /\ tx[c].kind = "update"
      BY <1>2, <2>2, <3>2 DEF UpdateRow
    <3> QED BY <3>1, <3>3, <3>4, <3>5, LockKeeps
  <2> QED BY <2>1, <2>2
<1> QED BY <1>1, <1>2

\* To the links if any were submitted, and else to the commit.
LEMMA PastRow ==
  ASSUME WritesInv, NEW c \in Requests, tx[c].pc \in {"write", "assert"},
         tx[c].row # None => InGrant(tx[c].scope, tx[c].row),
         Become(c, [tx[c] EXCEPT !.pc = IF tx[c].sync THEN "read" ELSE "commit"])
  PROVE  WritesInv'
<1>1. tx[c] # Idle /\ tx[c] \in Transaction /\ TxFits(c, tx[c])
  BY NotIdle, Live
<1>2. PICK pc \in {"read", "commit"} : pc = IF tx[c].sync THEN "read" ELSE "commit"
  OBVIOUS
<1>3. PICK t : t = [tx[c] EXCEPT !.pc = pc]
  OBVIOUS
<1>4. t \in Transaction
  BY <1>1, <1>3 DEF Transaction
<1>5. /\ t.pc = pc /\ t.id = tx[c].id /\ t.kind = tx[c].kind /\ t.n = tx[c].n /\ t.row = tx[c].row
      /\ t.scope = tx[c].scope /\ t.new = tx[c].new /\ t.gone = tx[c].gone /\ t.sync = tx[c].sync
      /\ t.want = tx[c].want /\ t.crossed = tx[c].crossed
  BY <1>1, <1>3 DEF Transaction
<1>6. RowFits(c, t)
  BY <1>1, <1>5 DEF RowFits, Found, TxFits
<1>7. LinksFit(t)
  BY <1>1, <1>2, <1>5 DEF TxFits, LinksFit, Reconciles
<1>8. Become(c, t) /\ t # Idle
  BY <1>2, <1>3, <1>5, NotIdle
<1>9. \A d \in Requests \ {c} : tx[d] # Idle /\ tx[d].id = t.id => t.new \cap tx[d].new = {}
  BY <1>1, <1>5, SameNew
<1> QED BY <1>1, <1>4, <1>5, <1>6, <1>7, <1>8, <1>9, BecomeKeeps DEF TxFits

LEMMA CheckRowKeeps == ASSUME WritesInv, NEW c \in Requests, SelectRow(c) \/ AssertWithinGrant(c) PROVE WritesInv'
<1>1. CASE Rollback(c)
  BY <1>1, RollbackKeeps
<1>2. CASE ~Rollback(c)
  <2>1. tx[c].pc \in {"write", "assert"}
    BY DEF SelectRow, AssertWithinGrant
  <2>2. TxFits(c, tx[c])
    BY <2>1, NotIdle, Live
  <2>3. tx[c].row # None => InGrant(tx[c].scope, tx[c].row)
    BY <1>2, <2>2 DEF SelectRow, AssertWithinGrant, TxFits, RowFits
  <2> QED BY <1>2, <2>1, <2>3, PastRow DEF SelectRow, AssertWithinGrant
<1> QED BY <1>1, <1>2

LEMMA ReadLinksKeeps == ASSUME WritesInv, NEW c \in Requests, ReadLinks(c) PROVE WritesInv'
<1> DEFINE have == Linked(links, tx[c].id)
<1>1. tx[c] # Idle /\ tx[c] \in Transaction /\ TxFits(c, tx[c]) /\ tx[c].pc = "read"
  BY NotIdle, Live DEF ReadLinks
<1>2. PICK t : t = [tx[c] EXCEPT !.pc = "delete", !.del = have \ tx[c].want, !.add = tx[c].want \ have]
  OBVIOUS
<1>3. /\ t.pc = "delete" /\ t.id = tx[c].id /\ t.kind = tx[c].kind /\ t.n = tx[c].n /\ t.row = tx[c].row
      /\ t.scope = tx[c].scope /\ t.new = tx[c].new /\ t.gone = tx[c].gone /\ t.sync = tx[c].sync
      /\ t.want = tx[c].want /\ t.crossed = tx[c].crossed
      /\ t.del = have \ t.want /\ t.add = t.want \ have
  BY <1>1, <1>2 DEF Transaction
<1>4. have \subseteq Far /\ t.want \subseteq Far
  BY <1>1, <1>3 DEF Linked, Transaction
<1>5. t \in Transaction
  BY <1>1, <1>2, <1>4, <1>3 DEF Transaction
<1>6. RowFits(c, t)
  BY <1>1, <1>3 DEF RowFits, Found, TxFits
<1>7. LinksFit(t)
  BY <1>1, <1>3 DEF TxFits, LinksFit, Reconciles
<1>8. Become(c, t) /\ t # Idle
  BY <1>2, <1>3, NotIdle DEF ReadLinks
<1>9. \A d \in Requests \ {c} : tx[d] # Idle /\ tx[d].id = t.id => t.new \cap tx[d].new = {}
  BY <1>1, <1>3, SameNew
<1> QED BY <1>1, <1>3, <1>5, <1>6, <1>7, <1>8, <1>9, BecomeKeeps DEF TxFits

\* What is left to insert of a transaction that has deleted: everything still to come is in
\* add, and next has just been taken.
ToInsert(c, t) ==
  /\ t \in Transaction /\ t.n > 0 /\ t.sync /\ RowFits(c, [t EXCEPT !.pc = "commit"])
  /\ t.gone \cap t.want = {} /\ t.new \subseteq t.want /\ t.add \subseteq t.want
  /\ t.del \cap t.want = {} /\ \A f \in t.new : links[t.id][f] = 0
  /\ t.crossed = {} => /\ t.gone = Linked(links, t.id) \ t.want
                       /\ t.want \ Linked(links, t.id) = t.add \cup t.new

LEMMA OnwardKeeps ==
  ASSUME WritesInv, NEW c \in Requests, NEW t, ToInsert(c, t), Onward(c, t),
         \A d \in Requests \ {c} : tx[d] # Idle /\ tx[d].id = t.id => t.new \cap tx[d].new = {}
  PROVE  WritesInv'
<1>1. t \in Transaction
  BY DEF ToInsert
<1>2. ASSUME NEW u, u \in Transaction, u.pc \in {"commit", "insert"},
             u.id = t.id, u.kind = t.kind, u.n = t.n, u.row = t.row,
             u.scope = t.scope, u.new = t.new, u.gone = t.gone, u.sync = t.sync, u.del = t.del,
             u.want = t.want, u.crossed = t.crossed, u.add \subseteq t.add,
             IF u.pc = "commit" THEN t.add = {} ELSE u.next \in t.add /\ t.add = u.add \cup {u.next},
             Become(c, u)
      PROVE  WritesInv'
  <2>1. PICK e : e = [t EXCEPT !.pc = "commit"]
    OBVIOUS
  <2>2. /\ e.pc = "commit" /\ e.id = t.id /\ e.kind = t.kind /\ e.row = t.row
        /\ e.scope = t.scope /\ e.crossed = t.crossed
    BY <1>1, <2>1 DEF Transaction
  <2>3. RowFits(c, u)
    BY <1>2, <2>1, <2>2 DEF ToInsert, RowFits, Found
  <2>4. LinksFit(u)
    BY <1>2 DEF ToInsert, LinksFit, Reconciles
  <2>5. u # Idle
    BY <1>2, NotIdle
  <2> QED BY <1>2, <2>3, <2>4, <2>5, BecomeKeeps DEF TxFits, ToInsert
<1>3. CASE t.add = {} /\ Become(c, [t EXCEPT !.pc = "commit", !.next = None])
  <2>1. PICK u : u = [t EXCEPT !.pc = "commit", !.next = None]
    OBVIOUS
  <2>2. /\ u \in Transaction /\ u.pc = "commit"
        /\ u.id = t.id /\ u.kind = t.kind /\ u.n = t.n /\ u.row = t.row
        /\ u.scope = t.scope /\ u.new = t.new /\ u.gone = t.gone /\ u.sync = t.sync /\ u.del = t.del
        /\ u.want = t.want /\ u.crossed = t.crossed /\ u.add = t.add
    BY <1>1, <2>1 DEF Transaction
  <2> QED BY <1>2, <1>3, <2>1, <2>2
<1>4. ASSUME NEW f \in t.add, Become(c, [t EXCEPT !.pc = "insert", !.next = f, !.add = @ \ {f}])
      PROVE  WritesInv'
  <2>1. PICK u : u = [t EXCEPT !.pc = "insert", !.next = f, !.add = @ \ {f}]
    OBVIOUS
  <2>2. f \in Far /\ t.add \ {f} \in SUBSET Far
    BY <1>1 DEF Transaction
  <2>3. /\ u \in Transaction /\ u.pc = "insert" /\ u.next = f /\ u.add = t.add \ {f}
        /\ u.id = t.id /\ u.kind = t.kind /\ u.n = t.n /\ u.row = t.row
        /\ u.scope = t.scope /\ u.new = t.new /\ u.gone = t.gone /\ u.sync = t.sync /\ u.del = t.del
        /\ u.want = t.want /\ u.crossed = t.crossed
    BY <1>1, <2>1, <2>2 DEF Transaction
  <2> QED BY <1>2, <1>4, <2>1, <2>3
<1> QED BY <1>3, <1>4 DEF Onward

LEMMA DeleteLinksKeeps == ASSUME WritesInv, NEW c \in Requests, DeleteLinks(c) PROVE WritesInv'
<1>1. tx[c] # Idle /\ tx[c] \in Transaction /\ TxFits(c, tx[c]) /\ tx[c].pc = "delete"
  BY NotIdle, Live DEF DeleteLinks
<1>2. PICK found : found = tx[c].del \cap Linked(links, tx[c].id)
  OBVIOUS
<1>3. PICK t : t = [tx[c] EXCEPT !.gone = found]
  OBVIOUS
<1>4. found \in SUBSET Far
  BY <1>1, <1>2 DEF Transaction
<1>5. /\ t \in Transaction /\ t.pc = "delete" /\ t.id = tx[c].id /\ t.kind = tx[c].kind /\ t.n = tx[c].n
      /\ t.row = tx[c].row /\ t.scope = tx[c].scope /\ t.new = tx[c].new /\ t.gone = found
      /\ t.sync = tx[c].sync /\ t.want = tx[c].want /\ t.crossed = tx[c].crossed
      /\ t.del = tx[c].del /\ t.add = tx[c].add
  BY <1>1, <1>3, <1>4 DEF Transaction
<1>6. PICK e : e = [t EXCEPT !.pc = "commit"]
  OBVIOUS
<1>7. /\ e.pc = "commit" /\ e.id = t.id /\ e.kind = t.kind /\ e.row = t.row
      /\ e.scope = t.scope /\ e.crossed = t.crossed
  BY <1>5, <1>6 DEF Transaction
<1>8. RowFits(c, e)
  BY <1>1, <1>5, <1>7 DEF TxFits, RowFits, Found
<1>9. ToInsert(c, t)
  BY <1>1, <1>2, <1>5, <1>6, <1>8 DEF ToInsert, TxFits, LinksFit, Reconciles
<1>10. Onward(c, t)
  BY <1>2, <1>3 DEF DeleteLinks
<1>11. \A d \in Requests \ {c} : tx[d] # Idle /\ tx[d].id = t.id => t.new \cap tx[d].new = {}
  BY <1>1, <1>5, SameNew
<1> QED BY <1>9, <1>10, <1>11, OnwardKeeps

LEMMA InsertLinkKeeps == ASSUME WritesInv, NEW c \in Requests, InsertLink(c) PROVE WritesInv'
<1>1. tx[c] # Idle /\ tx[c] \in Transaction /\ TxFits(c, tx[c]) /\ tx[c].pc = "insert"
  BY NotIdle, Live DEF InsertLink
<1> DEFINE f == tx[c].next
           linked == Linked(links, tx[c].id)
<1>2. f \in tx[c].want /\ f \in Far
  BY <1>1 DEF TxFits, LinksFit, Transaction
<1>3. CASE Rollback(c)
  BY <1>3, RollbackKeeps
<1>4. CASE ~Rollback(c)
  <2>1. PICK new : new = IF f \in linked \ tx[c].gone THEN tx[c].new ELSE tx[c].new \cup {f}
    OBVIOUS
  <2>2. PICK t : t = [tx[c] EXCEPT !.new = new]
    OBVIOUS
  <2>3. new \in SUBSET Far
    BY <1>1, <1>2, <2>1 DEF Transaction
  <2>4. /\ t \in Transaction /\ t.pc = "insert" /\ t.id = tx[c].id /\ t.kind = tx[c].kind /\ t.n = tx[c].n
        /\ t.row = tx[c].row /\ t.scope = tx[c].scope /\ t.new = new /\ t.gone = tx[c].gone
        /\ t.sync = tx[c].sync /\ t.want = tx[c].want /\ t.crossed = tx[c].crossed
        /\ t.del = tx[c].del /\ t.add = tx[c].add /\ t.next = tx[c].next
    BY <1>1, <2>2, <2>3 DEF Transaction
  <2>5. f \in linked \ tx[c].gone => t = tx[c]
    BY <1>1, <2>1, <2>2 DEF Transaction
  <2>6. Onward(c, t)
    BY <1>4, <2>1, <2>2, <2>5 DEF InsertLink
  <2>7. PICK e : e = [t EXCEPT !.pc = "commit"]
    OBVIOUS
  <2>8. /\ e.pc = "commit" /\ e.id = t.id /\ e.kind = t.kind /\ e.row = t.row
        /\ e.scope = t.scope /\ e.crossed = t.crossed
    BY <2>4, <2>7 DEF Transaction
  <2>9. RowFits(c, e)
    BY <1>1, <2>4, <2>8 DEF TxFits, RowFits, Found
  <2>10. f \notin linked => links[tx[c].id][f] = 0
    BY <1>2 DEF Linked
  <2>11. f \in linked => new = tx[c].new
    BY <1>1, <1>2, <2>1 DEF TxFits, LinksFit
  <2>12. \A g \in new : links[t.id][g] = 0
    BY <1>1, <2>1, <2>4, <2>10, <2>11 DEF TxFits, LinksFit
  <2>13. t.crossed = {} => /\ t.gone = Linked(links, t.id) \ t.want
                           /\ t.want \ Linked(links, t.id) = t.add \cup t.new
    BY <1>1, <1>2, <2>1, <2>4, <2>11 DEF TxFits, LinksFit, Reconciles
  <2>14. ToInsert(c, t)
    BY <1>1, <1>2, <2>1, <2>4, <2>7, <2>9, <2>12, <2>13 DEF ToInsert, TxFits, LinksFit
  <2>15. ASSUME NEW d \in Requests \ {c}, tx[d] # Idle, tx[d].id = t.id PROVE t.new \cap tx[d].new = {}
    <3>1. tx[c].new \cap tx[d].new = {}
      BY <1>1, <2>4, <2>15 DEF WritesInv, LinkedOnce
    <3>2. f \notin tx[d].new
      BY <2>4, <2>15 DEF InsertLink, Others
    <3> QED BY <2>1, <2>4, <3>1, <3>2
  <2> QED BY <2>6, <2>14, <2>15, OnwardKeeps
<1> QED BY <1>3, <1>4

\* What a step that ends c's transaction does to the others': those that have read the
\* links of the same record are told of it.
LEMMA EndKeeps ==
  ASSUME WritesInv, NEW c \in Requests, tx[c] # Idle, NEW what, what \subseteq Crossings, After(c, what),
         UNCHANGED sent, rows' \in [Ids -> Owners \cup {Absent}], links' \in [Ids -> [Far -> Nat]],
         holder' \in [Ids -> Requests \cup {Free}],
         \A i \in Ids \ {tx[c].id} : rows'[i] = rows[i] /\ links'[i] = links[i],
         \A d \in Requests \ {c}, i \in Ids : holder[i] = d => holder'[i] = d,
         \A d \in Others(c) : /\ tx[d].row # None => rows'[tx[c].id] = rows[tx[c].id] /\ what \subseteq {"links"}
                              /\ \A f \in tx[d].new : links'[tx[c].id][f] = 0,
         what = {} => links'[tx[c].id] = links[tx[c].id]
  PROVE  WritesInv'
<1>1. tx[c].id \in Ids
  BY Live
<1>2. /\ tx'[c] = Idle
      /\ \A d \in Requests \ {c} : d \notin Overlapped(c) => tx'[d] = tx[d]
      /\ \A d \in Requests \ {c} : d \in Overlapped(c) => tx'[d] = [tx[d] EXCEPT !.crossed = @ \cup what]
  BY DEF After
<1>3. ASSUME NEW d \in Requests \ {c}, tx[d] # Idle, NEW t, t = tx'[d]
      PROVE  t # Idle /\ TxFits(d, t)' /\ t.new = tx[d].new /\ t.id = tx[d].id
  <2>1. tx[d] \in Transaction /\ TxFits(d, tx[d]) /\ tx[d].id \in Ids
    BY <1>3, Live
  <2>2. CASE d \in Overlapped(c)
    <3>1. t = [tx[d] EXCEPT !.crossed = @ \cup what] /\ d \in Others(c) /\ tx[d].id = tx[c].id
      BY <1>2, <1>3, <2>2 DEF Overlapped, Others
    <3>2. tx[d].crossed \cup what \in SUBSET Crossings
      BY <2>1 DEF Transaction
    <3>3. /\ t \in Transaction /\ t.pc = tx[d].pc /\ t.id = tx[d].id /\ t.kind = tx[d].kind /\ t.n = tx[d].n
          /\ t.row = tx[d].row /\ t.scope = tx[d].scope /\ t.new = tx[d].new /\ t.gone = tx[d].gone
          /\ t.sync = tx[d].sync /\ t.want = tx[d].want /\ t.crossed = tx[d].crossed \cup what
          /\ t.del = tx[d].del /\ t.add = tx[d].add /\ t.next = tx[d].next
      BY <2>1, <3>1, <3>2 DEF Transaction
    <3>4. t.pc \in {"delete", "insert", "commit"}
      BY <2>2, <3>3 DEF Overlapped
    <3>5. RowFits(d, t)'
      BY <2>1, <3>1, <3>3, <3>4 DEF TxFits, RowFits, Found
    <3>6. t.crossed = {} => (Reconciles(tx[d]) <=> Reconciles(t)')
      BY <3>1, <3>3 DEF Reconciles, Linked
    <3>7. LinksFit(t)'
      BY <2>1, <3>1, <3>3, <3>4, <3>6 DEF TxFits, LinksFit
    <3> QED BY <2>1, <3>3, <3>4, <3>5, <3>7, NotIdle DEF TxFits
  <2>3. CASE d \notin Overlapped(c) /\ tx[d].id = tx[c].id
    <3>1. t = tx[d] /\ d \in Others(c) /\ t.pc \in {"write", "assert", "read"}
      BY <1>2, <1>3, <2>1, <2>3 DEF Overlapped, Others, Transaction
    <3>2. RowFits(d, t)'
      BY <2>1, <2>3, <3>1 DEF TxFits, RowFits, Found
    <3>3. LinksFit(t)'
      BY <2>1, <3>1 DEF TxFits, LinksFit, Reconciles
    <3> QED BY <1>3, <2>1, <3>1, <3>2, <3>3 DEF TxFits
  <2>4. CASE tx[d].id # tx[c].id
    <3>1. t = tx[d]
      BY <1>2, <1>3, <2>4 DEF Overlapped, Others
    <3> QED BY <1>3, <2>1, <2>4, <3>1, FitsOn
  <2> QED BY <2>2, <2>3, <2>4
<1>4. ASSUME NEW d \in Requests \ {c}, tx[d] = Idle PROVE tx'[d] = Idle
  BY <1>2, <1>4 DEF Overlapped, Others
<1>5. \A d \in Requests : tx'[d] # Idle => TxFits(d, tx[d])' /\ tx[d] # Idle /\ d # c
                                           /\ tx'[d].new = tx[d].new /\ tx'[d].id = tx[d].id
  <2>1. ASSUME NEW d \in Requests, tx'[d] # Idle
        PROVE  TxFits(d, tx[d])' /\ tx[d] # Idle /\ d # c /\ tx'[d].new = tx[d].new /\ tx'[d].id = tx[d].id
    <3>1. d # c /\ tx[d] # Idle
      BY <1>2, <1>4, <2>1
    <3>2. PICK t : t = tx'[d]
      OBVIOUS
    <3>3. TxFits(d, t)' /\ t.new = tx[d].new /\ t.id = tx[d].id
      BY <1>3, <3>1, <3>2
    <3>4. TxFits(d, tx[d])'
      BY <3>2, <3>3 DEF TxFits, RowFits, LinksFit, Reconciles, Found
    <3> QED BY <3>1, <3>2, <3>3, <3>4
  <2> QED BY <2>1
<1>6. LinkedOnce'
  BY <1>5 DEF WritesInv, LinkedOnce
<1>7. TypeOK'
  <2>1. tx' \in [Requests -> Transaction \cup {Idle}]
    BY <1>5 DEF After, TxFits
  <2> QED BY <2>1 DEF WritesInv, TypeOK
<1> QED BY <1>5, <1>6, <1>7 DEF WritesInv

\* What a commit does to the links of its record.
LEMMA CommittedLinks ==
  ASSUME WritesInv, NEW c \in Requests, Commit(c)
  PROVE  /\ tx[c].id \in Ids /\ links' \in [Ids -> [Far -> Nat]]
         /\ \A i \in Ids \ {tx[c].id} : links'[i] = links[i]
         /\ \A f \in Far : links'[tx[c].id][f] =
              IF f \in tx[c].new THEN tx[c].n ELSE IF f \in tx[c].gone THEN 0 ELSE links[tx[c].id][f]
<1>1. tx[c] \in Transaction /\ tx[c].id \in Ids /\ tx[c].n \in Nat
  BY NotIdle, Live DEF Commit, Transaction
<1>2. PICK L : L = [f \in Far |-> IF f \in tx[c].new THEN tx[c].n
                                  ELSE IF f \in tx[c].gone THEN 0 ELSE links[tx[c].id][f]]
  OBVIOUS
<1>3. links \in [Ids -> [Far -> Nat]] /\ L \in [Far -> Nat]
  BY <1>1, <1>2 DEF WritesInv, TypeOK
<1>4. links' = [links EXCEPT ![tx[c].id] = L]
  BY <1>2 DEF Commit
<1> QED BY <1>1, <1>2, <1>3, <1>4

LEMMA CommitKeeps == ASSUME WritesInv, NEW c \in Requests, Commit(c) PROVE WritesInv'
<1>1. /\ tx[c] # Idle /\ tx[c] \in Transaction /\ TxFits(c, tx[c]) /\ tx[c].pc = "commit" /\ tx[c].id \in Ids
  BY NotIdle, Live DEF Commit
<1>2. PICK what : what = IF tx[c].sync THEN {Crossing(tx[c])} ELSE {}
  OBVIOUS
<1>3. After(c, what) /\ what \subseteq Crossings /\ UNCHANGED sent
  BY <1>2 DEF Commit, Crossing, Crossings
<1>4. /\ rows' \in [Ids -> Owners \cup {Absent}]
      /\ \A i \in Ids \ {tx[c].id} : rows'[i] = rows[i]
  BY <1>1 DEF Commit, Transaction, WritesInv, TypeOK
<1>5. /\ holder' \in [Ids -> Requests \cup {Free}]
      /\ \A d \in Requests \ {c}, i \in Ids : holder[i] = d => holder'[i] = d
  BY DEF Commit, WritesInv, TypeOK
<1>6. ASSUME NEW d \in Others(c)
      PROVE  /\ tx[d].row # None => rows'[tx[c].id] = rows[tx[c].id] /\ what \subseteq {"links"}
             /\ \A f \in tx[d].new : links'[tx[c].id][f] = 0
  <2>1. d \in Requests \ {c} /\ tx[d] # Idle /\ tx[d].id = tx[c].id /\ TxFits(d, tx[d]) /\ tx[d] \in Transaction
    BY Live DEF Others
  <2>2. tx[d].row # None => tx[c].row = None
    BY <1>1, <2>1 DEF TxFits, RowFits
  <2>3. tx[d].row # None => rows'[tx[c].id] = rows[tx[c].id] /\ what \subseteq {"links"}
    BY <1>2, <2>2 DEF Commit, Crossing
  <2>4. ASSUME NEW f \in tx[d].new PROVE links'[tx[c].id][f] = 0
    <3>1. f \in Far /\ links[tx[c].id][f] = 0
      BY <2>1 DEF TxFits, LinksFit, Transaction
    <3>2. f \notin tx[c].new
      BY <1>1, <2>1 DEF WritesInv, LinkedOnce
    <3> QED BY <3>1, <3>2, CommittedLinks
  <2> QED BY <2>3, <2>4
<1>7. ASSUME what = {} PROVE links'[tx[c].id] = links[tx[c].id]
  <2>1. tx[c].new = {} /\ tx[c].gone = {}
    BY <1>1, <1>2, <1>7 DEF TxFits, LinksFit
  <2>2. links'[tx[c].id] \in [Far -> Nat] /\ links[tx[c].id] \in [Far -> Nat]
    BY <1>1, CommittedLinks DEF WritesInv, TypeOK
  <2>3. \A f \in Far : links'[tx[c].id][f] = links[tx[c].id][f]
    BY <2>1, CommittedLinks
  <2> QED BY <2>2, <2>3
<1> QED BY <1>1, <1>3, <1>4, <1>5, <1>6, <1>7, CommittedLinks, EndKeeps

\* What a remove does.
LEMMA RemoveKeeps == ASSUME WritesInv, NEW c \in Requests, RemoveRow(c) PROVE WritesInv'
<1>1. /\ tx[c] # Idle /\ tx[c] \in Transaction /\ TxFits(c, tx[c]) /\ tx[c].id \in Ids
  BY NotIdle, Live DEF RemoveRow
<1>2. CASE Rollback(c)
  BY <1>2, RollbackKeeps
<1>3. CASE ~Rollback(c)
  <2>1. /\ holder[tx[c].id] = Free /\ \A d \in Others(c) : tx[d].new = {} /\ tx[d].gone = {}
        /\ rows' = [rows EXCEPT ![tx[c].id] = Absent]
        /\ links' = [links EXCEPT ![tx[c].id] = [f \in Far |-> 0]]
        /\ After(c, {"remove"}) /\ UNCHANGED <<holder, sent>>
    BY <1>3 DEF RemoveRow
  <2>2. rows' \in [Ids -> Owners \cup {Absent}] /\ links' \in [Ids -> [Far -> Nat]]
        /\ \A i \in Ids \ {tx[c].id} : rows'[i] = rows[i] /\ links'[i] = links[i]
    BY <1>1, <2>1 DEF WritesInv, TypeOK
  <2>3. ASSUME NEW d \in Others(c) PROVE tx[d].row = None /\ tx[d].new = {}
    <3>1. d \in Requests \ {c} /\ tx[d] # Idle /\ tx[d].id = tx[c].id /\ TxFits(d, tx[d])
      BY Live DEF Others
    <3> QED BY <2>1, <3>1, WritesAssumption DEF TxFits, RowFits, WritesAssumption
  <2>4. PICK what : what = {"remove"}
    OBVIOUS
  <2> QED BY <1>1, <2>1, <2>2, <2>3, <2>4, EndKeeps DEF WritesInv, TypeOK, Crossings
<1> QED BY <1>2, <1>3

LEMMA WritesStep == WritesInv /\ [Next]_vars => WritesInv'
<1> SUFFICES ASSUME WritesInv, [Next]_vars PROVE WritesInv'
  OBVIOUS
<1>1. CASE UNCHANGED vars
  BY <1>1 DEF vars, WritesInv, TypeOK, LinkedOnce, TxFits, RowFits, LinksFit, Reconciles, Found
<1>2. ASSUME NEW c \in Requests, Statement(c) \/ StatementFails(c) PROVE WritesInv'
  BY <1>2, WriteRowKeeps, CheckRowKeeps, ReadLinksKeeps, DeleteLinksKeeps, InsertLinkKeeps, CommitKeeps,
     RemoveKeeps, RollbackKeeps DEF Statement, StatementFails, BreakDeadlock
<1>3. ASSUME NEW c \in Requests, NEW i \in Ids, NEW s \in Scopes,
             NEW own \in Owners \cup {None, Same}, NEW sync \in BOOLEAN, NEW want \in SUBSET Far,
             Create(c, i, s, own, sync, want) \/ Update(c, i, s, own, sync, want)
      PROVE  WritesInv'
  BY <1>3, SendKeeps DEF Create, Update, Kinds
<1>4. ASSUME NEW c \in Requests, NEW i \in Ids, NEW s \in Scopes, Remove(c, i, s) PROVE WritesInv'
  <2>1. /\ "remove" \in Kinds /\ None \in Owners \cup {None, Same} /\ FALSE \in BOOLEAN
        /\ {} \in SUBSET Far
    BY DEF Kinds
  <2>2. Send(c, "remove", i, s, None, FALSE, {})
    BY <1>4 DEF Remove
  <2> QED BY <2>1, <2>2, SendKeeps
<1>5. CASE Next
  <2>1. CASE \E c \in Requests : Statement(c) \/ StatementFails(c)
    BY <1>2, <2>1
  <2>2. CASE \E c \in Requests, i \in Ids, s \in Scopes :
               \/ \E own \in Owners \cup {None, Same}, sync \in BOOLEAN, want \in SUBSET Far :
                    /\ want # {} => sync
                    /\ Create(c, i, s, own, sync, want) \/ Update(c, i, s, own, sync, want)
               \/ Remove(c, i, s)
    BY <1>3, <1>4, <2>2
  <2> QED BY <1>5, <2>1, <2>2 DEF Next
<1> QED BY <1>1, <1>5

\* Which steps touch a table.
LEMMA TablesChange ==
  ASSUME [Next]_vars, rows' # rows \/ links' # links
  PROVE  \E c \in Requests : Commit(c) \/ RemoveRow(c)
<1>1. PICK c \in Requests :
        \/ Statement(c) \/ StatementFails(c)
        \/ \E i \in Ids, s \in Scopes :
             \/ \E own \in Owners \cup {None, Same}, sync \in BOOLEAN, want \in SUBSET Far :
                  Create(c, i, s, own, sync, want) \/ Update(c, i, s, own, sync, want)
             \/ Remove(c, i, s)
  BY DEF Next, vars
<1>2. CASE Statement(c) \/ StatementFails(c)
  BY <1>2 DEF Statement, StatementFails, BreakDeadlock, Rollback, InsertRow, UpdateRow, SelectRow,
     AssertWithinGrant, ReadLinks, DeleteLinks, InsertLink, Onward, Become, tables
<1>3. CASE UNCHANGED tables
  BY <1>3 DEF tables
<1> QED BY <1>1, <1>2, <1>3 DEF Create, Update, Remove, Send

\* Two writes of the resolver, statement by statement (resolver.ts:650, 700): a row
\* is locked by the write that found it, and the links it takes out and puts in are
\* its own.
THEOREM ResolverInvariant == Spec => []WritesInv
BY WritesStart, WritesStep, PTL DEF Spec

\* The types of the tables, locks and transactions.
THEOREM ResolverTyped == Spec => []TypeOK
<1>1. WritesInv => TypeOK
  BY DEF WritesInv
<1> QED BY <1>1, ResolverInvariant, PTL

\* No row is changed or removed but by a request whose grant covers it as it was and
\* as it has become (assertWithinGrant), for any number of requests under way.
THEOREM WritesStayInGrant == Spec => ChangesStayInGrant
<1> DEFINE A == \A i \in Ids : rows'[i] # rows[i] =>
                  \E c \in Requests :
                    /\ tx[c] # Idle /\ tx[c].id = i /\ tx'[c] = Idle
                    /\ rows[i] # Absent => InGrant(tx[c].scope, rows[i])
                    /\ rows'[i] # Absent => InGrant(tx[c].scope, rows'[i])
<1>1. ASSUME WritesInv, [Next]_vars PROVE A
  <2> SUFFICES ASSUME NEW i \in Ids, rows'[i] # rows[i]
               PROVE  \E c \in Requests :
                        /\ tx[c] # Idle /\ tx[c].id = i /\ tx'[c] = Idle
                        /\ rows[i] # Absent => InGrant(tx[c].scope, rows[i])
                        /\ rows'[i] # Absent => InGrant(tx[c].scope, rows'[i])
    OBVIOUS
  <2>1. PICK c \in Requests : Commit(c) \/ RemoveRow(c)
    BY <1>1, TablesChange
  <2>2. /\ tx[c] # Idle /\ tx[c] \in Transaction /\ TxFits(c, tx[c]) /\ tx[c].id \in Ids
    BY <1>1, <2>1, NotIdle, Live DEF Commit, RemoveRow
  <2>3. CASE Commit(c)
    <3>1. tx'[c] = Idle /\ tx[c].pc = "commit" /\ tx[c].row # None /\ tx[c].id = i
          /\ rows' = [rows EXCEPT ![i] = tx[c].row]
      BY <1>1, <2>2, <2>3 DEF Commit, After, WritesInv, TypeOK
    <3>2. rows'[i] = tx[c].row /\ InGrant(tx[c].scope, tx[c].row)
      BY <1>1, <2>2, <3>1 DEF TxFits, RowFits, WritesInv, TypeOK
    <3>3. rows[i] # Absent => InGrant(tx[c].scope, rows[i])
      BY <2>2, <3>1 DEF TxFits, RowFits, Found
    <3> QED BY <2>2, <3>1, <3>2, <3>3
  <2>4. CASE RemoveRow(c)
    <3>1. ~Rollback(c)
      BY DEF Rollback
    <3>2. Found(tx[c]) /\ rows' = [rows EXCEPT ![tx[c].id] = Absent] /\ tx'[c] = Idle
      BY <2>4, <3>1 DEF RemoveRow, After
    <3>3. tx[c].id = i /\ rows'[i] = Absent
      BY <1>1, <2>2, <3>2 DEF WritesInv, TypeOK
    <3> QED BY <2>2, <3>2, <3>3 DEF Found
  <2> QED BY <2>1, <2>3, <2>4
<1>2. Spec => [][A]_vars
  BY <1>1, ResolverInvariant, PTL DEF Spec
<1> QED BY <1>2 DEF ChangesStayInGrant

\* No save replaces a link that was there by a new one, whatever saves it overlaps with
\* (syncLinks).
THEOREM PayloadsSurvive == Spec => PayloadSurvives
<1> DEFINE A == \A i \in Ids, f \in Far :
                  links[i][f] # 0 /\ links'[i][f] # 0 => links'[i][f] = links[i][f]
<1>1. ASSUME WritesInv, [Next]_vars PROVE A
  <2> SUFFICES ASSUME NEW i \in Ids, NEW f \in Far, links[i][f] # 0, links'[i][f] # 0
               PROVE  links'[i][f] = links[i][f]
    OBVIOUS
  <2>1. CASE links' = links
    BY <2>1
  <2>2. CASE links' # links
    <3>1. PICK c \in Requests : Commit(c) \/ RemoveRow(c)
      BY <1>1, <2>2, TablesChange
    <3>2. /\ tx[c] \in Transaction /\ TxFits(c, tx[c]) /\ tx[c].id \in Ids
      BY <1>1, <3>1, NotIdle, Live DEF Commit, RemoveRow
    <3>3. CASE Commit(c)
      <4>1. f \in tx[c].new => links[tx[c].id][f] = 0
        BY <3>2 DEF TxFits, LinksFit
      <4> QED BY <1>1, <3>3, <4>1, CommittedLinks
    <3>4. CASE RemoveRow(c)
      <4>1. links' = [links EXCEPT ![tx[c].id] = [g \in Far |-> 0]]
        BY <2>2, <3>4 DEF RemoveRow, Rollback
      <4> QED BY <1>1, <3>2, <4>1 DEF WritesInv, TypeOK
    <3> QED BY <3>1, <3>3, <3>4
  <2> QED BY <2>1, <2>2
<1>2. Spec => [][A]_vars
  BY <1>1, ResolverInvariant, PTL DEF Spec
<1> QED BY <1>2 DEF PayloadSurvives

\* A save leaves the links that were submitted unless the record's links changed under
\* it, and under a save that writes the row only one that does not can change them
\* (syncLinks, within the transaction of the UPDATE).
THEOREM SavesReconcileLinks == Spec => SavesReconcile
<1> DEFINE A == \A c \in Requests :
                  Commit(c) /\ tx[c].sync =>
                    /\ tx[c].crossed = {} => Linked(links', tx[c].id) = tx[c].want
                    /\ tx[c].row # None => tx[c].crossed \subseteq {"links"}
<1>1. ASSUME WritesInv PROVE A
  <2> SUFFICES ASSUME NEW c \in Requests, Commit(c), tx[c].sync
               PROVE  /\ tx[c].crossed = {} => Linked(links', tx[c].id) = tx[c].want
                      /\ tx[c].row # None => tx[c].crossed \subseteq {"links"}
    OBVIOUS
  <2>1. /\ tx[c] \in Transaction /\ TxFits(c, tx[c]) /\ tx[c].id \in Ids /\ tx[c].pc = "commit" /\ tx[c].n > 0
    BY <1>1, NotIdle, Live DEF Commit, TxFits
  <2>2. tx[c].row # None => tx[c].crossed \subseteq {"links"}
    BY <2>1 DEF TxFits, RowFits
  <2>3. ASSUME tx[c].crossed = {} PROVE Linked(links', tx[c].id) = tx[c].want
    <3>1. /\ tx[c].gone = Linked(links, tx[c].id) \ tx[c].want
          /\ tx[c].new = tx[c].want \ Linked(links, tx[c].id)
      BY <2>1, <2>3 DEF TxFits, LinksFit, Reconciles
    <3>2. \A f \in Far : links'[tx[c].id][f] # 0 <=> f \in tx[c].want
      BY <1>1, <2>1, <3>1, CommittedLinks DEF Linked, Transaction
    <3>3. tx[c].want \subseteq Far
      BY <2>1 DEF Transaction
    <3> QED BY <3>2, <3>3 DEF Linked
  <2> QED BY <2>2, <2>3
<1>2. Spec => [][A]_vars
  BY <1>1, ResolverInvariant, PTL DEF Spec
<1> QED BY <1>2 DEF SavesReconcile
==============================================================================
