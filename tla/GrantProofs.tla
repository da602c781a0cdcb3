----------------------------- MODULE GrantProofs -----------------------------
(***************************************************************************)
(* Proofs about GrantLoader and the decision it feeds.  NoWidening and     *)
(* RolesAdd are facts about Can, for every matrix, actor, table and        *)
(* action: lemmas about AccessPolicy, lifted to the states by TypeOK.  The *)
(* two timing properties need an invariant, LoaderInv: how old the cache   *)
(* and the loads in flight can be.                                         *)
(***************************************************************************)
EXTENDS GrantLoader, FiniteSetTheorems, TLAPS

-----------------------------------------------------------------------------
(* The decision *)

\* A row the substituted filter lets through satisfies the filter itself.
LEMMA SubstituteSound ==
  ASSUME NEW a \in Actor, NEW f \in Seq(Predicate), NEW r \in RowsOf(Substitute(a, f))
  PROVE  r \in Row /\ \A i \in DOMAIN f : Satisfies(r, a, f[i])
<1>1. ~ \E i \in DOMAIN f : Missing(a, f[i])
  BY DEF RowsOf, Substitute, Denied
<1>2. r \in Row /\ \A i \in DOMAIN f : r[Substituted(a, f[i]).column] = Substituted(a, f[i]).value
  BY <1>1 DEF RowsOf, Substitute
<1> QED BY <1>2 DEF Substituted, Satisfies

\* No decision lets through a row that no applicable grant allows.
LEMMA CanNeverWidens ==
  ASSUME NEW G, \A g \in G : g.filter \in Seq(Predicate),
         NEW a \in Actor, NEW t, NEW act
  PROVE  RowsOf(Can(G, a, t, act)) \subseteq RowsMay(G, a, t, act)
<1> DEFINE F == {g.filter : g \in Applicable(G, a, t, act)}
<1> SUFFICES ASSUME NEW r \in RowsOf(Can(G, a, t, act))
             PROVE  r \in RowsMay(G, a, t, act)
  OBVIOUS
<1>1. r \in Row
  BY DEF RowsOf
<1>2. CASE Bypasses(a)
  BY <1>1, <1>2 DEF RowsMay
<1>3. CASE ~Bypasses(a) /\ <<>> \in F
  <2>1. PICK g \in Applicable(G, a, t, act) : g.filter = <<>>
    BY <1>3
  <2>2. r \in RowsOfGrant(a, g)
    BY <1>1, <2>1 DEF RowsOfGrant
  <2> QED BY <1>3, <2>2 DEF RowsMay
<1>4. CASE ~Bypasses(a) /\ <<>> \notin F
  <2> DEFINE f == CHOOSE f \in F : TRUE
  <2>1. F # {} /\ ~(Cardinality(F) > 1)
    BY <1>4 DEF Can, Combined, RowsOf, Denied
  <2>2. r \in RowsOf(Substitute(a, f))
    BY <1>4, <2>1 DEF Can, Combined
  <2>3. PICK g \in Applicable(G, a, t, act) : g.filter = f
    BY <2>1
  <2>4. f \in Seq(Predicate)
    BY <2>3 DEF Applicable
  <2>5. r \in RowsOfGrant(a, g)
    BY <2>2, <2>3, <2>4, SubstituteSound DEF RowsOfGrant
  <2> QED BY <1>4, <2>5 DEF RowsMay
<1> QED BY <1>2, <1>3, <1>4

\* Holding more roles narrows a decision only where restrictions conflict.
LEMMA CanAddsRoles ==
  ASSUME NEW G, IsFiniteSet(G), NEW a \in Actor, NEW t, NEW act, NEW q \in a.roles,
         ~Conflict(G, a, t, act)
  PROVE  RowsOf(Can(G, [a EXCEPT !.roles = {q}], t, act)) \subseteq RowsOf(Can(G, a, t, act))
<1> DEFINE b == [a EXCEPT !.roles = {q}]
           A == Applicable(G, a, t, act)
           F == {g.filter : g \in A}
           E == {g.filter : g \in Applicable(G, b, t, act)}
<1>1. b.roles = {q} /\ b.claims = a.claims
  BY DEF Actor
<1>2. E \subseteq F
  BY <1>1 DEF Applicable
<1>3. IsFiniteSet(F) /\ Cardinality(F) \in Nat
  <2>1. IsFiniteSet(A)
    BY FS_Subset DEF Applicable
  <2> DEFINE filterOf == [g \in A |-> g.filter]
  <2>2. filterOf \in Surjection(A, F)
    BY DEF Surjection
  <2>3. IsFiniteSet(F)
    BY <2>1, <2>2, FS_Surjection
  <2> QED BY <2>3, FS_CardinalityType
<1>4. RowsOf(Everything) = Row
  BY DEF RowsOf, Everything
<1>5. \A d : RowsOf(d) \subseteq Row
  BY DEF RowsOf
<1>6. CASE Bypasses(a) \/ <<>> \in F
  <2>1. Can(G, a, t, act) = Everything
    BY <1>6 DEF Can
  <2> QED BY <2>1, <1>4, <1>5
<1>7. CASE ~Bypasses(a) /\ <<>> \notin F /\ E = {}
  <2>1. ~Bypasses(b)
    BY <1>1, <1>7 DEF Bypasses
  <2>2. Can(G, b, t, act) = Denied
    BY <2>1, <1>7 DEF Can
  <2> QED BY <2>2 DEF RowsOf, Denied
<1>8. CASE ~Bypasses(a) /\ <<>> \notin F /\ E # {}
  <2>1. ~Bypasses(b)
    BY <1>1, <1>8 DEF Bypasses
  <2>2. ~(Cardinality(F) > 1)
    BY <1>8 DEF Conflict
  <2>3. PICK f : f \in E
    BY <1>8
  <2>4. F = {f}
    <3> SUFFICES ASSUME NEW e \in F, e # f PROVE FALSE
      BY <1>2, <2>3
    <3>1. {e, f} \subseteq F
      BY <1>2, <2>3
    <3>2. IsFiniteSet({f}) /\ Cardinality({f}) = 1
      BY FS_Singleton
    <3>3. Cardinality({f} \cup {e}) = Cardinality({f}) + 1
      BY <3>2, FS_AddElement
    <3>4. Cardinality({f} \cup {e}) <= Cardinality(F)
      BY <1>3, <3>1, FS_Subset
    <3> QED BY <1>3, <2>2, <3>2, <3>3, <3>4
  <2>5. E = {f}
    BY <1>2, <2>3, <2>4
  <2>6. <<>> \notin E
    BY <1>2, <1>8
  <2>7. ~(Cardinality(E) > 1)
    <3>1. Cardinality({f}) = 1
      BY FS_Singleton
    <3> HIDE DEF E
    <3> QED BY <2>5, <3>1
  <2>8. Can(G, a, t, act) = Substitute(a, f)
    BY <1>8, <2>2, <2>4 DEF Can, Combined
  <2>9. Can(G, b, t, act) = Substitute(b, f)
    BY <2>1, <2>5, <2>6, <2>7 DEF Can, Combined
  <2>10. Substitute(b, f) = Substitute(a, f)
    BY <1>1 DEF Substitute, Missing, Substituted
  <2> QED BY <2>8, <2>9, <2>10
<1> QED BY <1>6, <1>7, <1>8

-----------------------------------------------------------------------------
(* The state *)

LEMMA EditTyped ==
  ASSUME TypeOK, NEW v \in Version
  PROVE  edits[v].matrix \in Matrices /\ edits[v].at \in Nat
<1>1. edits[v] \in Edition
  BY DEF TypeOK, Version
<1> QED BY <1>1 DEF Edition

LEMMA CallTyped ==
  ASSUME TypeOK, NEW c \in Calls, calls[c].pc \in {"query", "store", "served"}
  PROVE  calls[c] \in Call /\ calls[c] # Idle
BY DEF TypeOK, Idle

\* What version v lacks was edited in no earlier than MaxFlight before time t.
NotOlder(v, t) == v < Len(edits) => t <= edits[v + 1].at + MaxFlight

\* The cache holds what some load read, no older than the load could take.
CacheSound ==
  cache # NoCache =>
    /\ cache.ver \in Version /\ cache.ver >= quietly
    /\ cache.at <= now
    /\ NotOlder(cache.ver, cache.at)

\* A load in flight started after the last quiet refresh, and not long ago.
CallSound(c) ==
  /\ Loading(c) =>
       /\ calls[c].asked <= now /\ now <= calls[c].asked + MaxFlight
       /\ calls[c].quietFloor = quietly
  /\ calls[c].pc = "store" =>
       /\ calls[c].ver \in Version /\ calls[c].ver >= quietly
       /\ calls[c].ver < Len(edits) => calls[c].asked <= edits[calls[c].ver + 1].at
  /\ Served(c) =>
       calls[c].ver \in Version /\ calls[c].ver >= calls[c].quietFloor

LoaderInv ==
  /\ TypeOK
  /\ Len(edits) >= 1
  /\ quietly <= Len(edits)
  /\ CacheSound
  /\ \A c \in Calls : CallSound(c)

LEMMA InitLoader == Init => LoaderInv
<1> SUFFICES ASSUME Init PROVE LoaderInv
  OBVIOUS
<1>1. PICK m \in Matrices : edits = <<[matrix |-> m, at |-> 0]>>
  BY DEF Init
<1>2. TypeOK /\ Len(edits) = 1
  <2>1. [matrix |-> m, at |-> 0] \in Edition
    BY DEF Edition
  <2>2. edits \in Seq(Edition) /\ Len(edits) = 1
    BY <1>1, <2>1
  <2> QED BY <2>2 DEF Init, TypeOK, NoCache, Idle
<1>3. \A c \in Calls : CallSound(c)
  BY DEF Init, Idle, CallSound, Loading, Served
<1> QED BY <1>2, <1>3 DEF Init, LoaderInv, CacheSound

-----------------------------------------------------------------------------
(* The steps *)

\* A step that changes only the call c, to one that is sound again.
LEMMA CallStep ==
  ASSUME LoaderInv, NEW c \in Calls, NEW r \in Call \cup {Idle},
         calls' = [calls EXCEPT ![c] = r], CallSound(c)',
         UNCHANGED <<now, edits, refreshed, quietly>>,
         cache' \in [ver : Nat, at : Nat] \cup {NoCache}, CacheSound'
  PROVE  LoaderInv'
<1>1. TypeOK'
  BY DEF LoaderInv, TypeOK
<1>2. ASSUME NEW d \in Calls PROVE CallSound(d)'
  <2>1. CASE d = c
    BY <2>1
  <2>2. CASE d # c
    <3>1. calls'[d] = calls[d]
      BY <2>2 DEF LoaderInv, TypeOK
    <3> QED BY <3>1 DEF LoaderInv, CallSound, Loading, Served, Version
  <2> QED BY <2>1, <2>2
<1> QED BY <1>1, <1>2 DEF LoaderInv

LEMMA AskInv == ASSUME LoaderInv, NEW c \in Calls, Ask(c) PROVE LoaderInv'
<1> DEFINE r == [pc |-> IF Fresh THEN "served" ELSE "query",
                 asked |-> IF Fresh THEN 0 ELSE now,
                 ver |-> IF Fresh THEN cache.ver ELSE 0,
                 floor |-> refreshed, quietFloor |-> quietly]
<1>1. CacheSound' /\ cache' \in [ver : Nat, at : Nat] \cup {NoCache}
  BY DEF Ask, LoaderInv, TypeOK, CacheSound, NotOlder, Version
<1>2. calls'[c] = r /\ calls' = [calls EXCEPT ![c] = r]
  BY DEF Ask, LoaderInv, TypeOK
<1>3. CASE Fresh
  <2>1. cache \in [ver : Nat, at : Nat] /\ cache.ver \in Version /\ cache.ver >= quietly
    BY <1>3 DEF Fresh, LoaderInv, TypeOK, CacheSound
  <2>2. r \in Call
    BY <1>3, <2>1 DEF LoaderInv, TypeOK, Call
  <2>3. CallSound(c)'
    BY <1>2, <1>3, <2>1 DEF CallSound, Loading, Served, Version, Ask
  <2> QED BY <1>1, <1>2, <2>2, <2>3, CallStep DEF Ask
<1>4. CASE ~Fresh
  <2>1. r \in Call
    BY <1>4 DEF LoaderInv, TypeOK, Call
  <2>2. CallSound(c)'
    BY <1>2, <1>4, LoaderAssumption DEF CallSound, Loading, Served, Version, Ask, LoaderInv, TypeOK
  <2> QED BY <1>1, <1>2, <2>1, <2>2, CallStep DEF Ask
<1> QED BY <1>3, <1>4

LEMMA AnswerInv == ASSUME LoaderInv, NEW c \in Calls, Answer(c) PROVE LoaderInv'
<1> DEFINE r == [calls[c] EXCEPT !.pc = "store", !.ver = Len(edits)]
<1>1. calls[c] \in Call /\ Len(edits) \in Version /\ Len(edits) \in Nat
  BY CallTyped DEF Answer, LoaderInv, TypeOK, Version
<1>2. r \in Call /\ calls' = [calls EXCEPT ![c] = r] /\ calls'[c] = r
  BY <1>1 DEF Answer, Call, LoaderInv, TypeOK
<1>3. CacheSound' /\ cache' \in [ver : Nat, at : Nat] \cup {NoCache}
  BY DEF Answer, LoaderInv, TypeOK, CacheSound, NotOlder, Version
<1>4. /\ calls'[c].pc = "store" /\ calls'[c].ver = Len(edits)
      /\ calls'[c].asked = calls[c].asked /\ calls'[c].quietFloor = calls[c].quietFloor
  BY <1>1, <1>2 DEF Call
<1>5. /\ calls[c].asked <= now /\ now <= calls[c].asked + MaxFlight
      /\ calls[c].quietFloor = quietly /\ quietly <= Len(edits)
  BY DEF Answer, LoaderInv, Loading, CallSound
<1>6. CallSound(c)'
  <2>1. UNCHANGED <<now, edits, quietly>>
    BY DEF Answer
  <2>2. Len(edits) \in Version' /\ ~(Len(edits) < Len(edits'))
    BY <1>1, <2>1 DEF Version
  <2> QED BY <1>4, <1>5, <2>1, <2>2 DEF CallSound, Loading, Served
<1> QED BY <1>2, <1>3, <1>6, CallStep DEF Answer

LEMMA EndInv ==
  ASSUME LoaderInv, NEW c \in Calls, QueryFails(c) \/ Finish(c)
  PROVE  LoaderInv'
<1>1. CacheSound' /\ cache' \in [ver : Nat, at : Nat] \cup {NoCache}
  BY DEF QueryFails, Finish, LoaderInv, TypeOK, CacheSound, NotOlder, Version
<1>2. calls'[c] = Idle
  BY DEF QueryFails, Finish, LoaderInv, TypeOK
<1>3. CallSound(c)'
  BY <1>2 DEF CallSound, Loading, Served, Idle
<1> QED BY <1>1, <1>3, CallStep DEF QueryFails, Finish

LEMMA StoreInv == ASSUME LoaderInv, NEW c \in Calls, Store(c) PROVE LoaderInv'
<1> DEFINE r == [calls[c] EXCEPT !.pc = "served", !.asked = 0]
<1>1. calls[c] \in Call
  BY CallTyped DEF Store, LoaderInv
<1>2. r \in Call /\ calls' = [calls EXCEPT ![c] = r] /\ calls'[c] = r
  BY <1>1 DEF Store, Call, LoaderInv, TypeOK
<1>3. r.pc = "served" /\ r.ver = calls[c].ver /\ r.quietFloor = calls[c].quietFloor
  BY <1>1 DEF Call
<1>4. CallSound(c) /\ Loading(c)
  BY DEF LoaderInv, Store, Loading
<1>5. CallSound(c)'
  BY <1>2, <1>3, <1>4 DEF Store, CallSound, Loading, Served, Version
<1>6. cache' \in [ver : Nat, at : Nat]
  BY <1>1 DEF Store, Call, LoaderInv, TypeOK
<1>7. NotOlder(calls[c].ver, now)
  <2> SUFFICES ASSUME calls[c].ver < Len(edits)
               PROVE  now <= edits[calls[c].ver + 1].at + MaxFlight
    BY DEF NotOlder
  <2>1. calls[c].ver + 1 \in Version
    BY <1>1, <1>4 DEF Store, CallSound, Version, LoaderInv, TypeOK
  <2>2. edits[calls[c].ver + 1].at \in Nat
    BY <2>1, EditTyped DEF LoaderInv
  <2>3. /\ now \in Nat /\ calls[c].asked \in Nat /\ MaxFlight \in Nat
        /\ now <= calls[c].asked + MaxFlight
        /\ calls[c].asked <= edits[calls[c].ver + 1].at
    BY <1>1, <1>4, LoaderAssumption DEF Store, CallSound, Call, LoaderInv, TypeOK
  <2> QED BY <2>2, <2>3
<1>8. CacheSound'
  BY <1>4, <1>6, <1>7 DEF Store, CacheSound, CallSound, NotOlder, Version, LoaderInv, TypeOK
<1> QED BY <1>2, <1>5, <1>6, <1>8, CallStep DEF Store

LEMMA RefreshInv == ASSUME LoaderInv, Refresh PROVE LoaderInv'
<1>1. TypeOK' /\ quietly' <= Len(edits')
  BY DEF Refresh, LoaderInv, TypeOK
<1>2. CacheSound'
  BY DEF Refresh, CacheSound
<1>3. ASSUME NEW c \in Calls PROVE CallSound(c)'
  <2>1. Loading(c) => quietly' = quietly
    BY DEF Refresh
  <2> QED BY <2>1 DEF Refresh, LoaderInv, CallSound, Loading, Served, Version
<1> QED BY <1>1, <1>2, <1>3 DEF LoaderInv, Refresh

LEMMA EditInv == ASSUME LoaderInv, NEW m \in Matrices, Edit(m) PROVE LoaderInv'
<1> DEFINE e == [matrix |-> m, at |-> now]
<1>1. e \in Edition /\ now \in Nat /\ edits \in Seq(Edition)
  BY DEF LoaderInv, TypeOK, Edition
<1>2. /\ edits' \in Seq(Edition) /\ Len(edits) \in Nat /\ Len(edits') = Len(edits) + 1
      /\ \A i \in Version : edits'[i] = edits[i]
      /\ edits'[Len(edits) + 1] = e
  BY <1>1 DEF Edit, Version
<1>3. TypeOK'
  BY <1>2 DEF Edit, LoaderInv, TypeOK, Edition
<1>4. CacheSound'
  <2> SUFFICES ASSUME cache # NoCache PROVE CacheSound'
    BY DEF CacheSound, Edit
  <2>1. /\ cache \in [ver : Nat, at : Nat] /\ cache.ver \in Version
        /\ cache.ver >= quietly /\ cache.at <= now /\ NotOlder(cache.ver, cache.at)
    BY DEF LoaderInv, TypeOK, CacheSound
  <2>2. NotOlder(cache.ver, cache.at)'
    BY <1>1, <1>2, <2>1, LoaderAssumption DEF Edit, NotOlder, Version
  <2> QED BY <1>2, <2>1, <2>2 DEF Edit, CacheSound, Version
<1>5. ASSUME NEW c \in Calls PROVE CallSound(c)'
  <2>1. calls'[c] = calls[c] /\ CallSound(c)
    BY DEF Edit, LoaderInv
  <2>2. CASE calls[c].pc = "store"
    <3>1. calls[c] \in Call
      BY <2>2, CallTyped DEF LoaderInv
    <3>2. /\ calls[c].ver \in Version /\ calls[c].ver \in Nat /\ calls[c].asked \in Nat
          /\ calls[c].asked <= now /\ now <= calls[c].asked + MaxFlight
          /\ calls[c].quietFloor = quietly /\ calls[c].ver >= quietly
          /\ calls[c].ver < Len(edits) => calls[c].asked <= edits[calls[c].ver + 1].at
      BY <2>1, <2>2, <3>1 DEF CallSound, Loading, Call
    <3>3. calls[c].ver + 1 \in 1 .. Len(edits')
      BY <1>2, <3>2 DEF Version
    <3>4. calls[c].asked <= edits'[calls[c].ver + 1].at
      BY <1>1, <1>2, <3>2 DEF Version
    <3> QED BY <1>2, <2>1, <2>2, <3>2, <3>3, <3>4
            DEF Edit, CallSound, Loading, Served, Version
  <2>3. CASE calls[c].pc # "store"
    BY <1>2, <2>1, <2>3 DEF Edit, CallSound, Loading, Served, Version
  <2> QED BY <2>2, <2>3
<1> QED BY <1>2, <1>3, <1>4, <1>5 DEF LoaderInv, Edit, TypeOK

LEMMA TickInv == ASSUME LoaderInv, Tick PROVE LoaderInv'
<1>1. TypeOK'
  BY DEF Tick, LoaderInv, TypeOK
<1>2. CacheSound'
  BY DEF Tick, LoaderInv, TypeOK, CacheSound, NotOlder, Version
<1>3. ASSUME NEW c \in Calls PROVE CallSound(c)'
  <2>1. CallSound(c) /\ calls' = calls /\ now' = now + 1 /\ now \in Nat
    BY DEF Tick, LoaderInv, TypeOK
  <2>2. CASE Loading(c)
    <3>1. calls[c] \in Call
      BY <2>2, CallTyped DEF LoaderInv, Loading
    <3> QED BY <2>1, <2>2, <3>1, LoaderAssumption
            DEF Tick, CallSound, Loading, Served, Version, Call
  <2>3. CASE ~Loading(c)
    BY <2>1, <2>3 DEF Tick, CallSound, Loading, Served, Version
  <2> QED BY <2>2, <2>3
<1> QED BY <1>1, <1>2, <1>3 DEF LoaderInv, Tick

LEMMA NextLoader == LoaderInv /\ [Next]_vars => LoaderInv'
<1> SUFFICES ASSUME LoaderInv, [Next]_vars PROVE LoaderInv'
  OBVIOUS
<1>1. CASE \E c \in Calls : Ask(c) \/ Answer(c) \/ QueryFails(c) \/ Store(c) \/ Finish(c)
  BY <1>1, AskInv, AnswerInv, EndInv, StoreInv
<1>2. CASE Refresh
  BY <1>2, RefreshInv
<1>3. CASE \E m \in Matrices : Edit(m)
  BY <1>3, EditInv
<1>4. CASE Tick
  BY <1>4, TickInv
<1>5. CASE UNCHANGED vars
  BY <1>5 DEF vars, LoaderInv, TypeOK, CacheSound, NotOlder, CallSound, Loading, Served, Version
<1> QED BY <1>1, <1>2, <1>3, <1>4, <1>5 DEF Next

-----------------------------------------------------------------------------
(* Theorems *)

\* The inductive invariant of the loader (grants.ts, load and refresh).
THEOREM LoaderInvariant == Spec => []LoaderInv
BY InitLoader, NextLoader, PTL DEF Spec

\* Every reachable state of the grant loader is well typed.
THEOREM LoaderTyped == Spec => []TypeOK
<1>1. LoaderInv => TypeOK
  BY DEF LoaderInv
<1> QED BY <1>1, LoaderInvariant, PTL

\* Whatever the matrix, the actor and the overlap of loads, no decision lets
\* through a row that none of the actor's readable grants allows.
THEOREM DecisionsNeverWiden == Spec => []NoWidening
<1>1. LoaderInv => NoWidening
  <2> SUFFICES ASSUME LoaderInv, NEW c \in Calls, Served(c),
                      NEW a \in Actor, NEW t \in Tables, NEW act \in Actions
               PROVE  RowsOf(Can(Policy(c), a, t, act))
                        \subseteq RowsMay({g \in Matrix(c) : g.readable}, a, t, act)
    BY DEF NoWidening
  <2> DEFINE M == {g \in Matrix(c) : g.readable}
  <2>1. Matrix(c) \in SUBSET StoredGrant
    <3>1. calls[c].ver \in Version
      BY DEF LoaderInv, CallSound
    <3> QED BY <3>1, EditTyped, LoaderAssumption DEF LoaderInv, Matrix
  <2>2. \A g \in Policy(c) : g.filter \in Seq(Predicate)
    BY <2>1 DEF Policy, Loaded, StoredGrant
  <2>3. RowsOf(Can(Policy(c), a, t, act)) \subseteq RowsMay(Policy(c), a, t, act)
    BY <2>2, CanNeverWidens
  <2>4. RowsMay(Policy(c), a, t, act) \subseteq RowsMay(M, a, t, act)
    <3> SUFFICES ASSUME ~Bypasses(a), NEW g \in Applicable(Policy(c), a, t, act)
                 PROVE  \E h \in Applicable(M, a, t, act) :
                          RowsOfGrant(a, g) = RowsOfGrant(a, h)
      BY DEF RowsMay
    <3>1. PICK h \in M : g = [role |-> h.role, table |-> h.table,
                              actions |-> h.actions, filter |-> h.filter]
      BY DEF Applicable, Policy, Loaded
    <3>2. h \in Applicable(M, a, t, act)
      BY <3>1 DEF Applicable
    <3>3. RowsOfGrant(a, g) = RowsOfGrant(a, h)
      BY <3>1 DEF RowsOfGrant
    <3> QED BY <3>2, <3>3
  <2> QED BY <2>3, <2>4
<1> QED BY <1>1, LoaderInvariant, PTL

\* Holding more roles narrows a decision only where the roles' filters differ.
THEOREM RolesOnlyAdd == Spec => []RolesAdd
<1>1. LoaderInv => RolesAdd
  <2> SUFFICES ASSUME LoaderInv, NEW c \in Calls, Served(c),
                      NEW a \in Actor, NEW t \in Tables, NEW act \in Actions,
                      ~Conflict(Policy(c), a, t, act), NEW q \in a.roles
               PROVE  RowsOf(Can(Policy(c), [a EXCEPT !.roles = {q}], t, act))
                        \subseteq RowsOf(Can(Policy(c), a, t, act))
    BY DEF RolesAdd
  <2> DEFINE M == {g \in Matrix(c) : g.readable}
             load == [g \in M |-> [role |-> g.role, table |-> g.table,
                                   actions |-> g.actions, filter |-> g.filter]]
  <2>1. IsFiniteSet(Matrix(c))
    <3>1. calls[c].ver \in Version
      BY DEF LoaderInv, CallSound
    <3> QED BY <3>1, EditTyped, LoaderAssumption DEF LoaderInv, Matrix
  <2>2. IsFiniteSet(M)
    BY <2>1, FS_Subset
  <2>3. load \in Surjection(M, Policy(c))
    BY DEF Surjection, Policy, Loaded
  <2>4. IsFiniteSet(Policy(c))
    BY <2>2, <2>3, FS_Surjection
  <2> QED BY <2>4, CanAddsRoles
<1> QED BY <1>1, LoaderInvariant, PTL

\* A refresh() that overlaps no load is seen by every call begun after it.
THEOREM QuietRefreshWorks == Spec => []QuietRefreshShowsEdits
<1>1. LoaderInv => QuietRefreshShowsEdits
  BY DEF LoaderInv, CallSound, QuietRefreshShowsEdits
<1> QED BY <1>1, LoaderInvariant, PTL

\* An edit is in force within the ttl plus the flight of a query.
THEOREM StalenessBounded == Spec => EditsTakeEffect
<1>1. ASSUME LoaderInv, [Next]_vars, NEW c \in Calls, ~Served(c), Served(c)',
             calls'[c].ver < Len(edits)
      PROVE  now < edits[calls'[c].ver + 1].at + MaxFlight + Ttl
  <2>1. now \in Nat /\ MaxFlight \in Nat /\ Ttl \in Nat \ {0} /\ Len(edits) \in Nat
    BY <1>1, LoaderAssumption DEF LoaderInv, TypeOK
  <2>2. CASE Ask(c)
    <3>1. Fresh /\ calls'[c].ver = cache.ver
      BY <1>1, <2>2 DEF Ask, Served, LoaderInv, TypeOK
    <3>2. /\ cache \in [ver : Nat, at : Nat] /\ cache.ver \in Version
          /\ cache.at <= now /\ NotOlder(cache.ver, cache.at)
      BY <1>1, <3>1 DEF Fresh, LoaderInv, TypeOK, CacheSound
    <3>3. cache.ver + 1 \in Version
      BY <1>1, <2>1, <3>1, <3>2 DEF Version
    <3>4. edits[cache.ver + 1].at \in Nat
      BY <1>1, <3>3, EditTyped DEF LoaderInv
    <3>5. cache.at <= edits[cache.ver + 1].at + MaxFlight
      BY <1>1, <3>1, <3>2 DEF NotOlder
    <3>6. cache.at \in Nat /\ now - cache.at < Ttl
      BY <3>1, <3>2 DEF Fresh
    <3> QED BY <2>1, <3>1, <3>2, <3>4, <3>5, <3>6
  <2>3. CASE Store(c)
    <3>1. calls[c] \in Call /\ CallSound(c) /\ Loading(c)
      BY <1>1, <2>3, CallTyped DEF Store, LoaderInv, Loading
    <3>2. calls'[c].ver = calls[c].ver /\ calls[c].ver \in Nat /\ calls[c].asked \in Nat
      BY <1>1, <2>3, <3>1 DEF Store, LoaderInv, TypeOK, Call
    <3>3. calls[c].ver + 1 \in Version
      BY <1>1, <2>1, <3>2 DEF Version
    <3>4. edits[calls[c].ver + 1].at \in Nat
      BY <1>1, <3>3, EditTyped DEF LoaderInv
    <3>5. /\ now <= calls[c].asked + MaxFlight
          /\ calls[c].asked <= edits[calls[c].ver + 1].at
      BY <1>1, <2>3, <3>1, <3>2 DEF Store, CallSound
    <3> QED BY <2>1, <3>2, <3>4, <3>5
  <2>4. CASE ~Ask(c) /\ ~Store(c)
    <3>1. Served(c)' => Served(c)
      <4>1. CASE calls' = calls
        BY <4>1 DEF Served
      <4>2. ASSUME NEW d \in Calls, d # c, Ask(d) \/ Answer(d) \/ QueryFails(d) \/ Store(d) \/ Finish(d)
            PROVE  calls'[c] = calls[c]
        BY <1>1, <4>2 DEF Ask, Answer, QueryFails, Store, Finish, LoaderInv, TypeOK
      <4>3. CASE Answer(c) \/ QueryFails(c) \/ Finish(c)
        <5>1. Answer(c) => calls'[c].pc = "store"
          BY <1>1, CallTyped DEF Answer, LoaderInv, TypeOK, Call
        <5>2. QueryFails(c) \/ Finish(c) => calls'[c] = Idle
          BY <1>1 DEF QueryFails, Finish, LoaderInv, TypeOK
        <5> QED BY <4>3, <5>1, <5>2 DEF Served, Idle
      <4> QED BY <1>1, <2>4, <4>1, <4>2, <4>3
              DEF Next, vars, Refresh, Edit, Tick, Served
    <3> QED BY <1>1, <3>1
  <2> QED BY <2>2, <2>3, <2>4
<1>2. LoaderInv /\ [Next]_vars => [\A c \in Calls : InForce(c)]_vars
  BY <1>1 DEF InForce
<1> QED BY <1>2, LoaderInvariant, PTL DEF Spec, EditsTakeEffect
=============================================================================
