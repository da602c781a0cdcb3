----------------------------- MODULE StoresProofs -----------------------------
(***************************************************************************)
(* Proofs about what the servers keep outside the tables - the admin       *)
(* runtime's introspector, the console's catalog, reset tokens, the rate   *)
(* limiter, files and their rows, view definitions - and about MCStores,   *)
(* their union.                                                            *)
(***************************************************************************)
EXTENDS MCStores, FiniteSetTheorems, FunctionTheorems, WellFoundedInduction, TLAPS

-----------------------------------------------------------------------------
(* Sets of numbered records.                                               *)

\* Replacing an element by one that is not in the set keeps its size.
LEMMA ReplaceKeepsSize ==
  ASSUME NEW S, IsFiniteSet(S), NEW x \in S, NEW y, y \notin S \ {x}
  PROVE  IsFiniteSet((S \ {x}) \cup {y}) /\ Cardinality((S \ {x}) \cup {y}) = Cardinality(S)
<1>1. IsFiniteSet(S \ {x}) /\ Cardinality(S \ {x}) = Cardinality(S) - 1
  BY FS_RemoveElement
<1>2. /\ IsFiniteSet((S \ {x}) \cup {y})
      /\ Cardinality((S \ {x}) \cup {y}) = Cardinality(S \ {x}) + 1
  BY <1>1, FS_AddElement
<1>3. Cardinality(S) \in Nat
  BY FS_CardinalityType
<1> QED BY <1>1, <1>2, <1>3

LEMMA SmallSets ==
  /\ \A x : Cardinality({x}) = 1
  /\ Cardinality({}) = 0
BY FS_Singleton, FS_EmptySet

-----------------------------------------------------------------------------
(* The introspector.                                                       *)

Call == [n : Nat, began : Nat, epoch : Nat, cols : SUBSET Stamps, asked : SUBSET Stamps,
         enums : SUBSET Stamps, late : BOOLEAN]

\* What a waiting call asked the database was asked since it began; enums it took
\* from the cache are no older than the cache keeps them.
CallsAreFresh ==
  \A c \in calls :
    /\ c \in Call /\ c.began \in 0..now /\ now - c.began <= Slowest /\ c.epoch \in 0..epoch
    /\ \A s \in c.cols \cup c.asked : s.t >= c.began /\ s.e >= c.epoch
    /\ \A s \in c.enums : c.began - s.t < Ttl + Slowest
    /\ ~c.late => \A s \in c.enums : s.e >= c.epoch

\* An entry is as old as the wait of the call that stored it, and from before an
\* invalidate() only if it says so.
EnumsAreFresh ==
  \A v \in enumCache :
    /\ v \in [at : 0..now, enums : Stamps, late : BOOLEAN]
    /\ v.at - v.enums.t <= Slowest /\ (~v.late => v.enums.e >= epoch)
TablesAreFresh ==
  \A v \in tableCache :
    /\ v \in [at : 0..now, cols : Stamps, enums : Stamps, late : BOOLEAN]
    /\ v.at - v.cols.t <= Slowest /\ v.at - v.enums.t < Ttl + 2 * Slowest
    /\ ~v.late => v.cols.e >= epoch /\ v.enums.e >= epoch

AnswersAreFresh ==
  \A a \in served : a \in [since : Nat, cols : Stamps, enums : Stamps, late : BOOLEAN]

Counters ==
  /\ now \in 0..MaxTime /\ epoch \in 0..MaxInvalidations /\ callsMade \in 0..MaxCalls
  /\ Cardinality(enumCache) <= 1 /\ Cardinality(tableCache) <= 1 /\ Cardinality(served) <= 1

\* The inductive invariant of the introspector.
IntroInv ==
  /\ Counters /\ CallsAreFresh /\ EnumsAreFresh /\ TablesAreFresh /\ AnswersAreFresh
  /\ InvalidateForgets /\ MetadataAges

LEMMA IntroStarts == IntroInit => IntroInv
<1> SUFFICES ASSUME IntroInit PROVE IntroInv
  OBVIOUS
<1> USE IntrospectorAssumption DEF IntrospectorAssumption
<1>1. Counters
  BY SmallSets DEF IntroInit, Counters
<1>2. CallsAreFresh /\ EnumsAreFresh /\ TablesAreFresh /\ AnswersAreFresh
  BY DEF IntroInit, CallsAreFresh, EnumsAreFresh, TablesAreFresh, AnswersAreFresh
<1> QED BY <1>1, <1>2 DEF IntroInit, IntroInv, InvalidateForgets, MetadataAges

\* A step that answers nobody.
LEMMA QuietAnswersNobody ==
  ASSUME Quiet
  PROVE  AnswersAreFresh' /\ InvalidateForgets' /\ MetadataAges' /\ Cardinality(served') <= 1
BY SmallSets DEF Quiet, AnswersAreFresh, InvalidateForgets, MetadataAges

LEMMA CallTableStep == ASSUME IntroInv, CallTable PROVE IntroInv'
<1> USE IntrospectorAssumption DEF IntrospectorAssumption
<1>0. /\ Counters /\ CallsAreFresh /\ EnumsAreFresh /\ TablesAreFresh
      /\ UNCHANGED <<now, epoch, enumCache, tableCache>> /\ callsMade' \in 0..MaxCalls
  BY DEF CallTable, IntroInv, Counters
<1>1. EnumsAreFresh' /\ TablesAreFresh'
  BY <1>0 DEF EnumsAreFresh, TablesAreFresh, Stamps
<1> DEFINE c == [n |-> callsMade', began |-> now, epoch |-> epoch, cols |-> {}, asked |-> {},
                 enums |-> {v.enums : v \in Young(enumCache)},
                 late |-> \E v \in Young(enumCache) : v.late]
<1>2. \A v \in Young(enumCache) : v \in enumCache /\ now - v.at < Ttl
  BY DEF Young
<1>3. \A v \in Young(tableCache) : v \in tableCache /\ now - v.at < Ttl
  BY DEF Young
<1>4. c.epoch = epoch
  OBVIOUS
<1>5. CASE Young(tableCache) # {}
  <2>1. PICK v \in Young(tableCache) : Answer(c, v) /\ UNCHANGED calls
    BY <1>5 DEF CallTable
  <2>2. v \in tableCache /\ now - v.at < Ttl
    BY <1>3
  <2>3. served' = {[since |-> epoch, cols |-> v.cols, enums |-> v.enums, late |-> v.late]}
    BY <2>1 DEF Answer
  <2>8. AnswersAreFresh'
    BY <1>0, <2>2, <2>3 DEF AnswersAreFresh, TablesAreFresh, Counters
  <2>9. ~v.late => v.cols.e >= epoch /\ v.enums.e >= epoch
    BY <1>0, <2>2 DEF TablesAreFresh
  <2>4. InvalidateForgets'
    BY <2>3, <2>9 DEF InvalidateForgets
  <2>5. MetadataAges'
    BY <1>0, <2>2, <2>3 DEF MetadataAges, TablesAreFresh, Counters, Stamps
  <2>6. CallsAreFresh'
    BY <1>0, <2>1 DEF CallsAreFresh, Call, Stamps
  <2>10. Cardinality(served') = 1
    BY <2>3, SmallSets
  <2>7. Counters'
    BY <1>0, <2>10 DEF Counters
  <2> QED BY <1>1, <2>4, <2>5, <2>6, <2>7, <2>8 DEF IntroInv
<1>6. CASE ~(Young(tableCache) # {})
  <2>1. calls' = calls \cup {c} /\ Quiet
    BY <1>6 DEF CallTable
  <2>2. c \in Call
    <3>1. {v.enums : v \in Young(enumCache)} \subseteq Stamps
      BY <1>0, <1>2 DEF EnumsAreFresh
    <3> QED BY <1>0, <3>1 DEF Call, Counters
  <2>3. \A s \in c.enums : c.began - s.t < Ttl + Slowest
    <3> SUFFICES ASSUME NEW v \in Young(enumCache) PROVE now - v.enums.t < Ttl + Slowest
      OBVIOUS
    <3> QED BY <1>0, <1>2 DEF EnumsAreFresh, Counters, Stamps
  <2>4. ~c.late => \A s \in c.enums : s.e >= c.epoch
    <3> SUFFICES ASSUME ~c.late, NEW v \in Young(enumCache) PROVE v.enums.e >= epoch
      OBVIOUS
    <3> QED BY <1>0, <1>2 DEF EnumsAreFresh
  <2>5. c.began = now /\ c.cols = {} /\ c.asked = {} /\ now \in Nat /\ epoch \in Nat
    BY <1>0 DEF Counters
  <2> HIDE DEF c
  <2>6. CallsAreFresh'
    BY <1>0, <1>4, <2>1, <2>2, <2>3, <2>4, <2>5 DEF CallsAreFresh, Call, Stamps
  <2>8. Counters'
    BY <1>0, <2>1, QuietAnswersNobody DEF Counters
  <2> QED BY <1>1, <2>1, <2>6, <2>8, QuietAnswersNobody DEF IntroInv
<1> QED BY <1>5, <1>6

\* A call that goes on waiting: nothing but what it knows changes.
CallChange(c, d) ==
  /\ c \in calls /\ d.began = c.began /\ d.epoch = c.epoch /\ d.late = c.late /\ d \in Call
  /\ \A s \in d.cols \cup d.asked : s.t >= c.began /\ s.e >= c.epoch
  /\ \A s \in d.enums : c.began - s.t < Ttl + Slowest
  /\ ~d.late => \A s \in d.enums : s.e >= d.epoch
  /\ Replaced(c, d) /\ Quiet /\ UNCHANGED <<now, epoch, tableCache, callsMade>>

LEMMA CallChangeStep ==
  ASSUME IntroInv, NEW c, NEW d, CallChange(c, d), EnumsAreFresh', Cardinality(enumCache') <= 1
  PROVE  IntroInv'
<1>1. CallsAreFresh'
  BY DEF IntroInv, CallsAreFresh, CallChange, Replaced, Call
<1>2. TablesAreFresh'
  BY DEF IntroInv, TablesAreFresh, CallChange, Stamps
<1>3. Counters'
  BY QuietAnswersNobody DEF IntroInv, Counters, CallChange
<1> QED BY <1>1, <1>2, <1>3, QuietAnswersNobody DEF IntroInv, CallChange

LEMMA DatabaseStep ==
  ASSUME IntroInv, NEW c \in calls, ReadColumns(c) \/ ReadEnums(c) \/ EnumsArrive(c)
  PROVE  IntroInv'
<1> USE IntrospectorAssumption DEF IntrospectorAssumption
<1>1. /\ Counters /\ CallsAreFresh /\ EnumsAreFresh /\ c \in Call
      /\ c.began \in 0..now /\ now - c.began <= Slowest /\ c.epoch \in 0..epoch
      /\ now \in 0..MaxTime /\ epoch \in 0..MaxInvalidations /\ Stamp \in Stamps
  BY DEF IntroInv, CallsAreFresh, Counters, Stamp, Stamps
<1>2. \A s \in c.cols \cup c.asked : s.t >= c.began /\ s.e >= c.epoch
  BY <1>1 DEF CallsAreFresh
<1>3. /\ \A s \in c.enums : c.began - s.t < Ttl + Slowest
      /\ ~c.late => \A s \in c.enums : s.e >= c.epoch
  BY <1>1 DEF CallsAreFresh
<1>4. CASE ReadColumns(c)
  <2>1. CallChange(c, [c EXCEPT !.cols = {Stamp}])
    BY <1>1, <1>2, <1>3, <1>4 DEF CallChange, ReadColumns, Call, Stamp
  <2>2. EnumsAreFresh' /\ Cardinality(enumCache') <= 1
    BY <1>1, <1>4 DEF ReadColumns, EnumsAreFresh, Counters, Stamps
  <2> QED BY <2>1, <2>2, CallChangeStep
<1>5. CASE ReadEnums(c)
  <2>1. CallChange(c, [c EXCEPT !.asked = {Stamp}])
    BY <1>1, <1>2, <1>3, <1>5 DEF CallChange, ReadEnums, Call, Stamp
  <2>2. EnumsAreFresh' /\ Cardinality(enumCache') <= 1
    BY <1>1, <1>5 DEF ReadEnums, EnumsAreFresh, Counters, Stamps
  <2> QED BY <2>1, <2>2, CallChangeStep
<1>6. CASE EnumsArrive(c)
  <2>1. PICK s \in c.asked :
          /\ enumCache' = {[at |-> now, enums |-> s, late |-> c.epoch # epoch]}
          /\ Replaced(c, [c EXCEPT !.enums = {s}])
    BY <1>6 DEF EnumsArrive
  <2>2. s \in Stamps /\ s.t >= c.began /\ s.e >= c.epoch /\ s.t \in Nat
    BY <1>1, <1>2, <2>1 DEF Call, Stamps
  <2>6. c.began - s.t < Ttl + Slowest /\ (~c.late => s.e >= c.epoch)
    BY <1>1, <2>2
  <2>3. CallChange(c, [c EXCEPT !.enums = {s}])
    <3> DEFINE d == [c EXCEPT !.enums = {s}]
    <3>1. /\ d \in Call /\ d.began = c.began /\ d.epoch = c.epoch /\ d.late = c.late
          /\ d.cols = c.cols /\ d.asked = c.asked /\ d.enums = {s}
      BY <1>1, <2>2 DEF Call
    <3>2. Replaced(c, d) /\ Quiet /\ UNCHANGED <<now, epoch, tableCache, callsMade>>
      BY <1>6, <2>1 DEF EnumsArrive
    <3> HIDE DEF d
    <3>3. CallChange(c, d)
      BY <1>1, <1>2, <2>6, <3>1, <3>2 DEF CallChange
    <3> QED BY <3>3 DEF d
  <2> DEFINE v == [at |-> now, enums |-> s, late |-> c.epoch # epoch]
  <2>7. v.at = now /\ v.enums = s /\ (~v.late => c.epoch = epoch) /\ enumCache' = {v}
    BY <2>1
  <2>8. v \in [at : 0..now, enums : Stamps, late : BOOLEAN]
    BY <1>1, <2>2
  <2> HIDE DEF v
  <2>9. v.at - v.enums.t <= Slowest /\ (~v.late => v.enums.e >= epoch)
    BY <1>1, <2>2, <2>7
  <2>10. epoch' = epoch /\ now' = now
    BY <1>6 DEF EnumsArrive
  <2>4. EnumsAreFresh'
    BY <2>7, <2>8, <2>9, <2>10 DEF EnumsAreFresh
  <2>11. Cardinality({v}) = 1
    BY SmallSets
  <2>5. Cardinality(enumCache') <= 1
    BY <2>7, <2>11
  <2> QED BY <2>3, <2>4, <2>5, CallChangeStep
<1> QED BY <1>4, <1>5, <1>6

LEMMA TableArrivesStep == ASSUME IntroInv, NEW c \in calls, TableArrives(c) PROVE IntroInv'
<1> USE IntrospectorAssumption DEF IntrospectorAssumption
<1>1. /\ Counters /\ CallsAreFresh /\ EnumsAreFresh /\ c \in Call
      /\ c.began \in 0..now /\ now - c.began <= Slowest /\ c.epoch \in 0..epoch
      /\ now \in 0..MaxTime /\ epoch \in 0..MaxInvalidations
  BY DEF IntroInv, CallsAreFresh, Counters
<1>2. UNCHANGED <<now, epoch, enumCache, callsMade>> /\ calls' = calls \ {c}
  BY DEF TableArrives
<1>3. PICK cols \in c.cols, enums \in c.enums :
        LET v == [at |-> now, cols |-> cols, enums |-> enums, late |-> c.late \/ c.epoch # epoch]
        IN tableCache' = {v} /\ Answer(c, v)
  BY DEF TableArrives
<1> DEFINE v == [at |-> now, cols |-> cols, enums |-> enums, late |-> c.late \/ c.epoch # epoch]
           a == [since |-> c.epoch, cols |-> v.cols, enums |-> v.enums, late |-> v.late]
<1>4. tableCache' = {v} /\ served' = {a}
  BY <1>3 DEF Answer
<1>5. /\ v.at = now /\ v.cols = cols /\ v.enums = enums /\ v.late = a.late
      /\ a.since = c.epoch /\ a.cols = cols /\ a.enums = enums
      /\ (~v.late => ~c.late /\ c.epoch = epoch)
  OBVIOUS
<1>6. /\ cols \in Stamps /\ cols.t >= c.began /\ cols.e >= c.epoch
      /\ enums \in Stamps /\ c.began - enums.t < Ttl + Slowest
      /\ ~c.late => enums.e >= c.epoch
  BY <1>1, <1>3 DEF CallsAreFresh, Call
<1>7. /\ v \in [at : 0..now, cols : Stamps, enums : Stamps, late : BOOLEAN]
      /\ a \in [since : Nat, cols : Stamps, enums : Stamps, late : BOOLEAN]
  BY <1>1, <1>6
<1> HIDE DEF v, a
<1>8. /\ now - cols.t <= Slowest /\ now - enums.t < Ttl + 2 * Slowest
      /\ ~v.late => cols.e >= epoch /\ enums.e >= epoch
  BY <1>1, <1>5, <1>6 DEF Stamps
<1>9. TablesAreFresh'
  BY <1>2, <1>4, <1>5, <1>7, <1>8 DEF TablesAreFresh
<1>10. AnswersAreFresh'
  BY <1>4, <1>7 DEF AnswersAreFresh
<1>11. InvalidateForgets'
  BY <1>1, <1>4, <1>5, <1>6, <1>8 DEF InvalidateForgets
<1>12. now - cols.t < Ttl + Slowest /\ now - enums.t < 2 * (Ttl + Slowest)
  BY <1>1, <1>6, <1>8 DEF Stamps
<1>13. MetadataAges'
  BY <1>2, <1>4, <1>5, <1>12 DEF MetadataAges
<1>14. CallsAreFresh' /\ EnumsAreFresh'
  BY <1>1, <1>2 DEF CallsAreFresh, EnumsAreFresh
<1>15. Cardinality(tableCache') = 1 /\ Cardinality(served') = 1
  BY <1>4, SmallSets
<1>16. Counters'
  BY <1>1, <1>2, <1>15 DEF Counters
<1> QED BY <1>9, <1>10, <1>11, <1>13, <1>14, <1>16 DEF IntroInv

LEMMA InvalidateStep == ASSUME IntroInv, Invalidate PROVE IntroInv'
<1>1. /\ epoch' = epoch + 1 /\ epoch < MaxInvalidations /\ tableCache' = {} /\ enumCache' = {}
      /\ Quiet /\ UNCHANGED <<now, calls, callsMade>>
  BY DEF Invalidate, Forget
<1>2. EnumsAreFresh' /\ TablesAreFresh'
  BY <1>1 DEF EnumsAreFresh, TablesAreFresh
<1>3. Counters'
  BY <1>1, SmallSets, QuietAnswersNobody, IntrospectorAssumption
     DEF IntroInv, Counters, IntrospectorAssumption
<1>4. CallsAreFresh'
  BY <1>1, IntrospectorAssumption
     DEF IntroInv, Counters, CallsAreFresh, IntrospectorAssumption
<1> QED BY <1>1, <1>2, <1>3, <1>4, QuietAnswersNobody DEF IntroInv

LEMMA IntroTickStep == ASSUME IntroInv, IntroTick PROVE IntroInv'
<1> USE IntrospectorAssumption DEF IntrospectorAssumption
<1>1. /\ now' = now + 1 /\ now < MaxTime /\ \A c \in calls : now' - c.began <= Slowest
      /\ Quiet /\ UNCHANGED <<epoch, enumCache, tableCache, calls, callsMade>>
  BY DEF IntroTick
<1>2. Counters'
  BY <1>1, QuietAnswersNobody DEF IntroInv, Counters
<1>3. 0..now \subseteq 0..now'
  BY <1>1 DEF IntroInv, Counters
<1>4. EnumsAreFresh' /\ TablesAreFresh'
  BY <1>1, <1>3 DEF IntroInv, EnumsAreFresh, TablesAreFresh
<1>5. CallsAreFresh'
  BY <1>1, <1>3 DEF IntroInv, CallsAreFresh
<1> QED BY <1>1, <1>2, <1>4, <1>5, QuietAnswersNobody DEF IntroInv

LEMMA IntroStep == IntroInv /\ [IntroNext]_introVars => IntroInv'
<1> SUFFICES ASSUME IntroInv, [IntroNext]_introVars PROVE IntroInv'
  OBVIOUS
<1>1. CASE UNCHANGED introVars
  BY <1>1 DEF introVars, IntroInv, Counters, CallsAreFresh, EnumsAreFresh, TablesAreFresh,
              AnswersAreFresh, InvalidateForgets, MetadataAges
<1>2. CASE IntroNext
  BY <1>2, CallTableStep, InvalidateStep, IntroTickStep, DatabaseStep, TableArrivesStep
     DEF IntroNext
<1> QED BY <1>1, <1>2

\* The invariant types the state.
LEMMA IntroTyped == IntroInv => IntroTypeOK
BY DEF IntroInv, IntroTypeOK, Counters, CallsAreFresh, EnumsAreFresh, TablesAreFresh, Call

\* Whatever calls and invalidations overlap, what table() answers was asked of the
\* database after the last invalidate() before the call, unless a call that was waiting
\* at an invalidate() stored it; and it is no older than the lifetimes add up to.
THEOREM IntrospectorForgets == IntroSpec => [](InvalidateForgets /\ MetadataAges)
<1>1. IntroInv => InvalidateForgets /\ MetadataAges
  BY DEF IntroInv
<1> QED BY <1>1, IntroStarts, IntroStep, PTL DEF IntroSpec

-----------------------------------------------------------------------------
(* Schema changes and the catalog.                                         *)

CatalogLoad == [id : Nat, cols : SUBSET Nat, keys : SUBSET Nat, pc : {"reading", "done", "failed"}]
SchemaRequest ==
  [n : Nat, kind : {"preview", "run", "browse"}, p : Params, shown : SUBSET Sqls,
   sql : SUBSET Sqls, load : Nat, floor : Nat,
   pc : {"start", "wait", "built", "execute", "committed", "done", "error"}]

Modal == [p : Params, sql : SUBSET Sqls, awaits : Nat, running : BOOLEAN]

\* Loads are numbered, and see what is committed.
LoadsNumbered ==
  /\ IsFiniteSet(loads) /\ slot \in 0..Cardinality(loads)
  /\ \A l \in loads : /\ l \in CatalogLoad /\ l.id \in 1..Cardinality(loads)
                      /\ l.cols \cup l.keys \subseteq 0..live
  /\ \A l, m \in loads : l.id = m.id => l = m

\* The load in the cache started after the last change that was announced.
SlotIsFresh ==
  /\ live \in Nat /\ flushed \in 0..live
  /\ slot # 0 => \E l \in loads : l.id = slot
  /\ \A l \in loads : l.id = slot => \A ver \in l.cols \cup l.keys : ver >= flushed

RequestsFit(reqs) ==
  \A j \in reqs :
    /\ j \in SchemaRequest /\ j.n \in 1..schemaJobs /\ j.floor \in 0..live
    /\ j.load \in 0..Cardinality(loads) /\ (j.pc = "wait" => j.load # 0)
    /\ j.load # 0 => \E l \in loads : l.id = j.load
    /\ \A l \in loads : l.id = j.load => \A ver \in l.cols \cup l.keys : ver >= j.floor
    /\ j.kind = "run" /\ j.pc \in {"execute", "committed"} => j.sql = j.shown

ModalFits ==
  /\ modal \in Modal
  /\ schemaJobs \in Nat /\ modal.awaits \in 0..schemaJobs

\* The inductive invariant of the catalog and the builder.
SchemaInv == LoadsNumbered /\ SlotIsFresh /\ RequestsFit(requests) /\ ModalFits

LEMMA SchemaStarts == SchemaInit => SchemaInv
<1> SUFFICES ASSUME SchemaInit PROVE SchemaInv
  OBVIOUS
<1>1. IsFiniteSet(loads) /\ Cardinality(loads) = 0 /\ slot = 0 /\ live = 0 /\ flushed = 0
  BY FS_EmptySet DEF SchemaInit
<1>2. loads = {} /\ requests = {}
  BY DEF SchemaInit
<1>3. ModalFits
  BY DEF SchemaInit, ModalFits, Modal, Params
<1> QED BY <1>1, <1>2, <1>3 DEF SchemaInv, LoadsNumbered, SlotIsFresh, RequestsFit

\* A request that takes another step: all it changes is its own record.
RequestChange(j, k) ==
  /\ j \in requests /\ requests' = (requests \ {j}) \cup {k} /\ k \in SchemaRequest
  /\ k.n = j.n /\ k.floor = j.floor /\ k.load = j.load /\ (k.pc = "wait" => j.pc = "wait")
  /\ k.kind = "run" /\ k.pc \in {"execute", "committed"} => k.sql = k.shown
  /\ UNCHANGED <<slot, loads, flushed, modal, schemaJobs>> /\ live' \in Nat /\ live' >= live

LEMMA RequestChangeStep ==
  ASSUME SchemaInv, NEW j, NEW k, RequestChange(j, k)
  PROVE  SchemaInv'
<1>1. live \in Nat /\ live' \in Nat /\ live <= live'
  BY DEF SchemaInv, SlotIsFresh, RequestChange
<1>2. 0..live \subseteq 0..live'
  BY <1>1
<1>3. LoadsNumbered' /\ SlotIsFresh' /\ ModalFits'
  BY <1>1, <1>2 DEF SchemaInv, LoadsNumbered, SlotIsFresh, ModalFits, RequestChange
<1>4. RequestsFit(requests)'
  BY <1>2 DEF SchemaInv, RequestsFit, RequestChange
<1> QED BY <1>3, <1>4 DEF SchemaInv

\* Requests that end take nothing with them.
LEMMA FewerRequests ==
  ASSUME SchemaInv, requests' \subseteq requests,
         UNCHANGED <<live, slot, loads, flushed, modal, schemaJobs>>
  PROVE  SchemaInv'
<1>1. LoadsNumbered' /\ SlotIsFresh' /\ ModalFits'
  BY DEF SchemaInv, LoadsNumbered, SlotIsFresh, ModalFits
<1>2. RequestsFit(requests)'
  BY DEF SchemaInv, RequestsFit
<1> QED BY <1>1, <1>2 DEF SchemaInv

LEMMA SchemaHandlerStep ==
  ASSUME SchemaInv, NEW j \in requests, Build(j) \/ Execute(j)
  PROVE  SchemaInv'
<1>1. j \in SchemaRequest /\ live \in Nat
  BY DEF SchemaInv, RequestsFit, SlotIsFresh
<1>2. UNCHANGED <<slot, loads, flushed, modal, schemaJobs>>
  BY DEF Build, Execute, CatalogSame, ModalSame
<1>3. CASE Build(j)
  <2> DEFINE sql == {Sql(j.p, ver) : ver \in Load(j.load).cols}
             pc == IF Load(j.load).pc = "failed" THEN "error"
                   ELSE IF j.kind = "preview" THEN "built"
                   ELSE IF j.kind = "run" /\ sql = j.shown THEN "execute" ELSE "done"
             k == [j EXCEPT !.pc = pc, !.sql = sql]
  <2>1. Load(j.load) \in loads
    BY <1>3 DEF Build, SchemaInv, RequestsFit, Load
  <2>2. Load(j.load).cols \subseteq Nat
    BY <2>1 DEF SchemaInv, LoadsNumbered, CatalogLoad
  <2>3. sql \subseteq Sqls
    <3> SUFFICES ASSUME NEW ver \in Nat PROVE Sql(j.p, ver) \in Sqls
      BY <2>2
    <3>1. ver % 2 \in {0, 1}
      OBVIOUS
    <3> QED BY <1>1, <3>1 DEF Sql, Sqls, SchemaRequest
  <2>4. /\ pc \in {"error", "built", "execute", "done"}
        /\ pc = "execute" => sql = j.shown
    OBVIOUS
  <2>5. requests' = (requests \ {j}) \cup (IF j.kind = "browse" THEN {} ELSE {k}) /\ live' = live
    BY <1>3 DEF Build
  <2> HIDE DEF sql, pc
  <2>6. CASE j.kind = "browse"
    <3>1. requests' \subseteq requests
      BY <2>5, <2>6
    <3> QED BY <1>2, <2>5, <3>1, FewerRequests
  <2>7. CASE j.kind # "browse"
    <3>2. k \in SchemaRequest
      BY <1>1, <2>3, <2>4 DEF SchemaRequest
    <3>3. /\ k.n = j.n /\ k.floor = j.floor /\ k.load = j.load /\ k.pc = pc /\ k.sql = sql
          /\ k.shown = j.shown
      BY <1>1 DEF SchemaRequest
    <3>4. requests' = (requests \ {j}) \cup {k} /\ live' = live
      BY <2>5, <2>7
    <3> HIDE DEF k
    <3>1. RequestChange(j, k)
      BY <1>1, <1>2, <2>4, <3>2, <3>3, <3>4 DEF RequestChange
    <3> QED BY <3>1, RequestChangeStep
  <2> QED BY <2>6, <2>7
<1>4. CASE Execute(j)
  <2>1. PICK pc \in {"committed", "error"} : Reach(j, pc) /\ live' \in {live, live + 1}
    BY <1>4 DEF Execute
  <2>2. RequestChange(j, [j EXCEPT !.pc = pc])
    BY <1>1, <1>2, <1>4, <2>1 DEF Execute, Reach, RequestChange, SchemaRequest, SchemaInv, RequestsFit
  <2> QED BY <2>2, RequestChangeStep
<1> QED BY <1>3, <1>4

\* A load that takes another step: its queries see what is committed by then.
LEMMA LoadChangeStep ==
  ASSUME SchemaInv, NEW l \in loads, NEW m, m \in CatalogLoad, m.id = l.id,
         \A ver \in m.cols \cup m.keys : ver \in l.cols \cup l.keys \/ ver = live,
         Update(l, m), UNCHANGED <<live, requests, flushed, modal, schemaJobs>>,
         slot' \in {slot, 0}
  PROVE  SchemaInv'
<1>1. live \in Nat /\ l.cols \cup l.keys \subseteq 0..live
  BY DEF SchemaInv, SlotIsFresh, LoadsNumbered
<1>2. m \notin loads \ {l}
  BY DEF SchemaInv, LoadsNumbered
<1>3. IsFiniteSet(loads') /\ Cardinality(loads') = Cardinality(loads)
  BY <1>2, ReplaceKeepsSize DEF SchemaInv, LoadsNumbered, Update
<1>4. m.cols \cup m.keys \subseteq 0..live
  BY <1>1
<1>5. LoadsNumbered'
  <2>1. slot' \in 0..Cardinality(loads')
    BY <1>3, FS_CardinalityType DEF SchemaInv, LoadsNumbered
  <2>2. ASSUME NEW x \in loads'
        PROVE  x \in CatalogLoad /\ x.id \in 1..Cardinality(loads') /\ x.cols \cup x.keys \subseteq 0..live
    BY <1>3, <1>4 DEF SchemaInv, LoadsNumbered, Update
  <2>3. ASSUME NEW x \in loads', NEW y \in loads', x.id = y.id PROVE x = y
    BY <2>3 DEF SchemaInv, LoadsNumbered, Update
  <2> QED BY <1>3, <2>1, <2>2, <2>3 DEF LoadsNumbered
<1>6. SlotIsFresh'
  <2>1. slot' # 0 => \E x \in loads' : x.id = slot'
    BY DEF SchemaInv, SlotIsFresh, Update
  <2>2. ASSUME NEW x \in loads', x.id = slot' PROVE \A ver \in x.cols \cup x.keys : ver >= flushed
    <3>1. slot' = slot
      BY <2>2, <1>5, <1>3 DEF LoadsNumbered
    <3> QED BY <2>2, <3>1, <1>1 DEF SchemaInv, SlotIsFresh, Update
  <2> QED BY <2>1, <2>2 DEF SchemaInv, SlotIsFresh
<1>7. RequestsFit(requests)'
  <2>1. ASSUME NEW j \in requests, NEW x \in loads', x.id = j.load
        PROVE  \A ver \in x.cols \cup x.keys : ver >= j.floor
    <3>1. j.floor \in 0..live /\ \A y \in loads : y.id = j.load => \A ver \in y.cols \cup y.keys : ver >= j.floor
      BY DEF SchemaInv, RequestsFit
    <3> QED BY <1>1, <2>1, <3>1 DEF Update
  <2>2. ASSUME NEW j \in requests, j.load # 0 PROVE \E x \in loads' : x.id = j.load
    BY <2>2 DEF SchemaInv, RequestsFit, Update
  <2> QED BY <1>3, <2>1, <2>2 DEF SchemaInv, RequestsFit
<1> QED BY <1>5, <1>6, <1>7 DEF SchemaInv, ModalFits

LEMMA QueryStep ==
  ASSUME SchemaInv, NEW l \in loads, FirstQuery(l) \/ LastQuery(l)
  PROVE  SchemaInv'
<1>1. l \in CatalogLoad /\ live \in Nat
  BY DEF SchemaInv, LoadsNumbered, SlotIsFresh
<1>2. UNCHANGED <<live, requests, flushed, modal, schemaJobs>>
  BY DEF FirstQuery, LastQuery, ModalSame
<1>3. PICK m \in {[l EXCEPT !.cols = {live}], [l EXCEPT !.keys = {live}, !.pc = "done"],
                  [l EXCEPT !.pc = "failed"]} : Update(l, m) /\ slot' \in {slot, 0}
  BY DEF FirstQuery, LastQuery, Kept
<1>4. /\ m \in CatalogLoad /\ m.id = l.id
      /\ m.cols \cup m.keys \subseteq l.cols \cup l.keys \cup {live}
  <2>1. CASE m = [l EXCEPT !.cols = {live}]
    BY <1>1, <2>1 DEF CatalogLoad
  <2>2. CASE m = [l EXCEPT !.keys = {live}, !.pc = "done"]
    BY <1>1, <2>2 DEF CatalogLoad
  <2>3. CASE m = [l EXCEPT !.pc = "failed"]
    BY <1>1, <2>3 DEF CatalogLoad
  <2> QED BY <2>1, <2>2, <2>3
<1>5. \A ver \in m.cols \cup m.keys : ver \in l.cols \cup l.keys \/ ver = live
  BY <1>4
<1>6. slot' \in {slot, 0} /\ Update(l, m)
  BY <1>3
<1> QED BY <1>2, <1>4, <1>5, <1>6, LoadChangeStep

LEMMA GetCatalogStep ==
  ASSUME SchemaInv, NEW j \in requests, GetCatalog(j)
  PROVE  SchemaInv'
<1>1. j \in SchemaRequest /\ live \in Nat /\ flushed \in 0..live /\ j.pc = "start"
  BY DEF SchemaInv, RequestsFit, SlotIsFresh, GetCatalog
<1>2. UNCHANGED <<live, flushed, modal, schemaJobs>>
  BY DEF GetCatalog, ModalSame
<1> DEFINE k(id) == [j EXCEPT !.pc = "wait", !.load = id, !.floor = flushed]
           ask(id) == requests' = (requests \ {j}) \cup {k(id)}
           id == Cardinality(loads) + 1
           fresh == [id |-> id, cols |-> {}, keys |-> {}, pc |-> "reading"]
<1>3. IsFiniteSet(loads) /\ Cardinality(loads) \in Nat /\ \A l \in loads : l.id \in 1..Cardinality(loads)
  BY FS_CardinalityType DEF SchemaInv, LoadsNumbered
<1>4. ASSUME NEW n \in Nat
      PROVE  /\ k(n) \in SchemaRequest /\ k(n).n = j.n /\ k(n).load = n /\ k(n).floor = flushed
             /\ k(n).pc = "wait"
  <2>3. flushed \in Nat
    BY <1>1
  <2>1. k(n) \in SchemaRequest
    BY <1>1, <2>3 DEF SchemaRequest
  <2>2. k(n).n = j.n /\ k(n).load = n /\ k(n).floor = flushed /\ k(n).pc = "wait"
    BY <1>1 DEF SchemaRequest
  <2> QED BY <2>1, <2>2
<1>5. CASE slot # 0 /\ ask(slot) /\ UNCHANGED <<slot, loads>>
  <2>1. slot \in 1..Cardinality(loads) /\ \E l \in loads : l.id = slot
    BY <1>5, <1>3 DEF SchemaInv, LoadsNumbered, SlotIsFresh
  <2>2. \A l \in loads : l.id = slot => \A ver \in l.cols \cup l.keys : ver >= flushed
    BY DEF SchemaInv, SlotIsFresh
  <2>3. LoadsNumbered' /\ SlotIsFresh' /\ ModalFits'
    BY <1>2, <1>5 DEF SchemaInv, LoadsNumbered, SlotIsFresh, ModalFits
  <2> DEFINE q == k(slot)
  <2>4. /\ q \in SchemaRequest /\ q.n = j.n /\ q.load = slot /\ q.floor = flushed /\ q.pc = "wait"
        /\ requests' = (requests \ {j}) \cup {q}
    <3>1. slot \in Nat
      BY <1>3, <2>1
    <3> HIDE DEF k
    <3> QED BY <1>4, <1>5, <3>1
  <2> HIDE DEF k, ask, q
  <2>5. RequestsFit(requests)'
    BY <1>1, <1>2, <1>3, <1>5, <2>1, <2>2, <2>4 DEF SchemaInv, RequestsFit
  <2> QED BY <2>3, <2>5 DEF SchemaInv
<1>6. CASE ask(id) /\ slot' = id /\ loads' = loads \cup {fresh}
  <2> DEFINE q == k(id)
  <2>1. /\ q \in SchemaRequest /\ q.n = j.n /\ q.load = id /\ q.floor = flushed /\ q.pc = "wait"
        /\ requests' = (requests \ {j}) \cup {q}
    <3>1. id \in Nat
      BY <1>3
    <3> HIDE DEF k, id
    <3> QED BY <1>4, <1>6, <3>1
  <2>2. fresh \in CatalogLoad /\ fresh.id = id /\ fresh.cols = {} /\ fresh.keys = {} /\ id \in Nat
    BY <1>3 DEF CatalogLoad
  <2>3. fresh \notin loads
    BY <1>3
  <2>4. IsFiniteSet(loads') /\ Cardinality(loads') = id /\ id = Cardinality(loads) + 1
    BY <1>3, <1>6, <2>3, FS_AddElement
  <2> HIDE DEF k, ask, q, id, fresh
  <2>5. LoadsNumbered'
    <3>1. ASSUME NEW x \in loads'
          PROVE  x \in CatalogLoad /\ x.id \in 1..id /\ x.cols \cup x.keys \subseteq 0..live
      BY <1>3, <1>6, <2>2, <2>4 DEF SchemaInv, LoadsNumbered
    <3>2. ASSUME NEW x \in loads', NEW y \in loads', x.id = y.id PROVE x = y
      BY <1>3, <1>6, <2>2, <2>4, <3>2 DEF SchemaInv, LoadsNumbered
    <3>3. slot' \in 0..Cardinality(loads')
      BY <1>3, <1>6, <2>4
    <3> QED BY <1>2, <2>4, <3>1, <3>2, <3>3 DEF LoadsNumbered
  <2>6. SlotIsFresh'
    BY <1>2, <1>3, <1>6, <2>2, <2>4 DEF SchemaInv, SlotIsFresh
  <2>7. RequestsFit(requests)'
    BY <1>1, <1>2, <1>3, <1>6, <2>1, <2>2, <2>4 DEF SchemaInv, RequestsFit
  <2> QED BY <1>2, <2>5, <2>6, <2>7 DEF SchemaInv, ModalFits
<1> QED BY <1>5, <1>6 DEF GetCatalog

LEMMA InvalidateCatalogStep ==
  ASSUME SchemaInv, NEW j \in requests, InvalidateCatalog(j)
  PROVE  SchemaInv'
<1>1. j \in SchemaRequest /\ live \in Nat /\ j.pc = "committed"
  BY DEF SchemaInv, RequestsFit, SlotIsFresh, InvalidateCatalog
<1> DEFINE k == [j EXCEPT !.pc = "done"]
<1>2. /\ UNCHANGED <<live, loads, modal, schemaJobs>> /\ slot' = 0 /\ flushed' = live
      /\ requests' = (requests \ {j}) \cup {k}
  BY DEF InvalidateCatalog, ModalSame, Reach
<1>3. k \in SchemaRequest /\ k.n = j.n /\ k.load = j.load /\ k.floor = j.floor /\ k.pc = "done"
  BY <1>1 DEF SchemaRequest
<1> HIDE DEF k
<1>4. RequestsFit(requests)'
  BY <1>2, <1>3 DEF SchemaInv, RequestsFit
<1>5. LoadsNumbered'
  BY <1>2, FS_CardinalityType DEF SchemaInv, LoadsNumbered
<1>6. SlotIsFresh'
  BY <1>1, <1>2 DEF SchemaInv, SlotIsFresh, LoadsNumbered
<1> QED BY <1>2, <1>4, <1>5, <1>6 DEF SchemaInv, ModalFits

\* A request more, of those the builder and the other screens make.
SendChange(left, k) ==
  /\ left \subseteq requests /\ requests' = left \cup {k} /\ k \in SchemaRequest
  /\ schemaJobs' = schemaJobs + 1 /\ k.n = schemaJobs' /\ k.load = 0 /\ k.floor = 0 /\ k.pc = "start"
  /\ UNCHANGED <<live, slot, loads, flushed>>

LEMMA SendStep ==
  ASSUME SchemaInv, NEW left, NEW k, SendChange(left, k), ModalFits'
  PROVE  SchemaInv'
<1>1. live \in Nat /\ schemaJobs \in Nat /\ schemaJobs' = schemaJobs + 1
  BY DEF SchemaInv, SlotIsFresh, ModalFits, SendChange
<1>2. LoadsNumbered' /\ SlotIsFresh'
  BY DEF SchemaInv, LoadsNumbered, SlotIsFresh, SendChange
<1>3. IsFiniteSet(loads) /\ Cardinality(loads) \in Nat /\ \A l \in loads : l.id # 0
  BY FS_CardinalityType DEF SchemaInv, LoadsNumbered
<1>4. RequestsFit(requests)'
  <2>1. ASSUME NEW j \in left
        PROVE  j \in requests /\ j.n \in 1..schemaJobs'
    BY <1>1 DEF SchemaInv, RequestsFit, SendChange
  <2> QED BY <1>1, <1>3, <2>1 DEF SchemaInv, RequestsFit, SendChange
<1> QED BY <1>2, <1>4 DEF SchemaInv

LEMMA SendRequestChanges ==
  ASSUME SchemaInv, NEW kind \in {"preview", "run", "browse"}, NEW shown \in SUBSET Sqls,
         NEW left \in SUBSET requests, SendRequest(kind, shown, left)
  PROVE  \E k : SendChange(left, k)
<1> DEFINE k == [n |-> schemaJobs', kind |-> kind, p |-> modal.p, shown |-> shown, sql |-> {},
                 load |-> 0, floor |-> 0, pc |-> "start"]
<1>1. modal.p \in Params /\ schemaJobs \in Nat /\ schemaJobs' = schemaJobs + 1
  BY DEF SchemaInv, ModalFits, Modal, SendRequest
<1>2. k \in SchemaRequest
  BY <1>1 DEF SchemaRequest
<1>3. requests' = left \cup {k} /\ UNCHANGED <<live, slot, loads, flushed>>
  BY DEF SendRequest, CatalogSame
<1>4. k.n = schemaJobs' /\ k.load = 0 /\ k.floor = 0 /\ k.pc = "start"
  OBVIOUS
<1> HIDE DEF k
<1> QED BY <1>1, <1>2, <1>3, <1>4 DEF SendChange

\* A step of the builder that asks for nothing.
LEMMA BuilderOnlyStep ==
  ASSUME SchemaInv, ModalFits', requests' \subseteq requests,
         UNCHANGED <<live, slot, loads, flushed, schemaJobs>>
  PROVE  SchemaInv'
<1>1. LoadsNumbered' /\ SlotIsFresh'
  BY DEF SchemaInv, LoadsNumbered, SlotIsFresh
<1>2. RequestsFit(requests)'
  BY DEF SchemaInv, RequestsFit
<1> QED BY <1>1, <1>2 DEF SchemaInv

\* What the builder's steps do to the modal keeps its type.
LEMMA ModalAnswered ==
  ASSUME NEW m \in Modal, NEW sql \in SUBSET Sqls
  PROVE  [m EXCEPT !.sql = sql, !.awaits = 0] \in Modal
BY DEF Modal

LEMMA ModalRetyped ==
  ASSUME NEW m \in Modal, NEW p \in Params
  PROVE  [m EXCEPT !.p = p, !.sql = {}, !.awaits = 0] \in Modal
<1>1. {} \in SUBSET Sqls
  OBVIOUS
<1> QED BY <1>1 DEF Modal

LEMMA ModalClosed ==
  ASSUME NEW m \in Modal
  PROVE  [m EXCEPT !.sql = {}, !.awaits = 0, !.running = FALSE] \in Modal
<1>1. {} \in SUBSET Sqls
  OBVIOUS
<1> QED BY <1>1 DEF Modal

LEMMA BuilderStep ==
  ASSUME SchemaInv,
         \/ PreviewStarts \/ RunClicked \/ Browse \/ Migrate
         \/ \E p \in Params : Type(p)
         \/ \E j \in requests : PreviewArrives(j) \/ RunArrives(j)
  PROVE  SchemaInv'
<1>1. /\ modal \in Modal
      /\ schemaJobs \in Nat /\ modal.awaits \in 0..schemaJobs /\ live \in Nat
  BY DEF SchemaInv, ModalFits, SlotIsFresh
<1>2. CASE PreviewStarts
  <2>1. SendRequest("preview", {}, requests) /\ modal' = [modal EXCEPT !.awaits = schemaJobs']
    BY <1>2 DEF PreviewStarts
  <2>2. schemaJobs' = schemaJobs + 1
    BY <2>1 DEF SendRequest
  <2>3. ModalFits'
    BY <1>1, <2>1, <2>2 DEF ModalFits, Modal
  <2> QED BY <2>1, <2>3, SendRequestChanges, SendStep
<1>3. CASE RunClicked
  <2>1. SendRequest("run", modal.sql, requests) /\ modal' = [modal EXCEPT !.running = TRUE]
    BY <1>3 DEF RunClicked
  <2>2. schemaJobs' = schemaJobs + 1
    BY <2>1 DEF SendRequest
  <2>5. modal' \in Modal /\ modal'.awaits = modal.awaits
    BY <1>1, <2>1 DEF Modal
  <2>6. modal.sql \in SUBSET Sqls
    BY <1>1 DEF Modal
  <2>3. ModalFits' /\ modal.sql \in SUBSET Sqls
    BY <1>1, <2>2, <2>5, <2>6 DEF ModalFits
  <2>4. \E k : SendChange(requests, k)
    BY <2>1, <2>3, SendRequestChanges
  <2> QED BY <2>3, <2>4, SendStep
<1>4. CASE Browse
  <2>1. SendRequest("browse", {}, requests) /\ modal' = modal
    BY <1>4 DEF Browse
  <2>2. schemaJobs' = schemaJobs + 1
    BY <2>1 DEF SendRequest
  <2>3. ModalFits'
    BY <1>1, <2>1, <2>2 DEF ModalFits
  <2> QED BY <2>1, <2>3, SendRequestChanges, SendStep
<1>5. CASE Migrate
  <2>1. live' = live + 1 /\ UNCHANGED <<slot, loads, flushed, requests, modal, schemaJobs>>
    BY <1>5 DEF Migrate, CatalogSame, ModalSame
  <2>2. 0..live \subseteq 0..live'
    BY <1>1, <2>1
  <2>3. LoadsNumbered' /\ SlotIsFresh' /\ ModalFits'
    BY <1>1, <2>1, <2>2 DEF SchemaInv, LoadsNumbered, SlotIsFresh, ModalFits
  <2>4. RequestsFit(requests)'
    BY <2>1, <2>2 DEF SchemaInv, RequestsFit
  <2> QED BY <2>3, <2>4 DEF SchemaInv
<1>6. ASSUME NEW p \in Params, Type(p) PROVE SchemaInv'
  <2>1. /\ modal' = [modal EXCEPT !.p = p, !.sql = {}, !.awaits = 0]
        /\ UNCHANGED <<live, slot, loads, flushed, requests, schemaJobs>>
    BY <1>6 DEF Type, CatalogSame
  <2>2. modal' \in Modal /\ modal'.awaits = 0
    BY <1>1, <2>1, ModalRetyped DEF Modal
  <2>3. ModalFits'
    BY <1>1, <2>1, <2>2 DEF ModalFits
  <2> QED BY <2>1, <2>3, BuilderOnlyStep
<1>8. ASSUME NEW j \in requests, PreviewArrives(j) PROVE SchemaInv'
  <2>1. j.sql \in SUBSET Sqls
    BY DEF SchemaInv, RequestsFit, SchemaRequest
  <2>2. /\ modal' \in {modal, [modal EXCEPT !.sql = j.sql, !.awaits = 0]}
        /\ requests' \subseteq requests /\ UNCHANGED <<live, slot, loads, flushed, schemaJobs>>
    BY <1>8 DEF PreviewArrives, CatalogSame
  <2> DEFINE m == [modal EXCEPT !.sql = j.sql, !.awaits = 0]
  <2>5. m \in Modal /\ m.awaits = 0
    BY <1>1, <2>1, ModalAnswered DEF Modal
  <2> HIDE DEF m
  <2>4. modal' \in Modal /\ modal'.awaits \in {0, modal.awaits}
    BY <1>1, <2>2, <2>5 DEF m
  <2>3. ModalFits'
    BY <1>1, <2>2, <2>4 DEF ModalFits
  <2> QED BY <2>2, <2>3, BuilderOnlyStep
<1>9. ASSUME NEW j \in requests, RunArrives(j) PROVE SchemaInv'
  <2>1. CASE j.pc = "done" /\ j.sql = j.shown
    <3>1. /\ modal' = [modal EXCEPT !.sql = {}, !.awaits = 0, !.running = FALSE]
          /\ SendRequest("browse", {}, requests \ {j})
      BY <1>9, <2>1 DEF RunArrives
    <3>2. schemaJobs' = schemaJobs + 1 /\ requests \ {j} \in SUBSET requests
      BY <3>1 DEF SendRequest
    <3>5. modal' \in Modal /\ modal'.awaits = 0
      BY <1>1, <3>1, ModalClosed DEF Modal
    <3>3. ModalFits'
      BY <1>1, <3>2, <3>5 DEF ModalFits
    <3>4. \E k : SendChange(requests \ {j}, k)
      BY <3>1, <3>2, SendRequestChanges
    <3> QED BY <3>3, <3>4, SendStep
  <2>2. CASE ~(j.pc = "done" /\ j.sql = j.shown)
    <3>1. /\ modal' = [modal EXCEPT !.running = FALSE] /\ requests' \subseteq requests
          /\ UNCHANGED <<live, slot, loads, flushed, schemaJobs>>
      BY <1>9, <2>2 DEF RunArrives, CatalogSame
    <3>2. ModalFits'
      BY <1>1, <3>1 DEF ModalFits, Modal
    <3> QED BY <3>1, <3>2, BuilderOnlyStep
  <2> QED BY <2>1, <2>2
<1> QED BY <1>2, <1>3, <1>4, <1>5, <1>6, <1>8, <1>9

LEMMA SchemaStep == SchemaInv /\ [SchemaNext]_schemaVars => SchemaInv'
<1> SUFFICES ASSUME SchemaInv, [SchemaNext]_schemaVars PROVE SchemaInv'
  OBVIOUS
<1>1. CASE UNCHANGED schemaVars
  BY <1>1 DEF schemaVars, SchemaInv, LoadsNumbered, SlotIsFresh, RequestsFit, ModalFits
<1>2. CASE SchemaNext
  BY <1>2, GetCatalogStep, SchemaHandlerStep, InvalidateCatalogStep, QueryStep, BuilderStep
     DEF SchemaNext
<1> QED BY <1>1, <1>2

\* The invariant types the state, and the answers it speaks of are the requests'.
LEMMA SchemaTyped == SchemaInv => SchemaTypeOK /\ OurChangesAreSeen
<1> SUFFICES ASSUME SchemaInv PROVE SchemaTypeOK /\ OurChangesAreSeen
  OBVIOUS
<1>1. SchemaTypeOK
  BY DEF SchemaInv, LoadsNumbered, SlotIsFresh, RequestsFit, ModalFits, Modal, SchemaTypeOK,
         SchemaRequest, CatalogLoad
<1>2. ASSUME NEW j \in requests, j.load # 0 PROVE \A ver \in Seen(j.load) : ver >= j.floor
  <2>1. Load(j.load) \in loads /\ Load(j.load).id = j.load
    BY <1>2 DEF SchemaInv, RequestsFit, Load
  <2> QED BY <2>1 DEF SchemaInv, RequestsFit, Seen
<1>3. OurChangesAreSeen
  BY <1>2 DEF SchemaInv, RequestsFit, OurChangesAreSeen
<1> QED BY <1>1, <1>3

\* However loads, statements and requests overlap, a request that asks for the catalog
\* after a change was answered works from one that has it, and what runs is what was
\* confirmed (catalog.ts, ddl/route.ts).
THEOREM CatalogFollows == SchemaSpec => [](SchemaTypeOK /\ OurChangesAreSeen)
BY SchemaStarts, SchemaStep, SchemaTyped, PTL DEF SchemaSpec

-----------------------------------------------------------------------------
(* Reset tokens.                                                           *)

Token == [n : Nat, key : Nat \X Nat, exp : Nat, on : Nat, with : Nat]
Reset ==
  [n : Nat, tok : Nat, at : Nat, seen : Nat, under : SUBSET Nat, became : Nat, last : Nat,
   pc : {"refused", "verified", "stored"}]

Stored == {r \in resets : r.pc = "stored"}

\* There is one secret or none; the hash counts the resets that were stored.
ServerKnows ==
  /\ time \in 0..MaxTokenTime /\ secrets \in Nat
  /\ secret = {} \/ \E s \in Nat : secret = {s}
  /\ IsFiniteSet(resets) /\ Cardinality(resets) <= MaxResets /\ hash = Cardinality(Stored)
  /\ IsFiniteSet(tokens) /\ Cardinality(tokens) <= MaxTokens

\* A token carries what its key was made of.
TokensAreSigned ==
  \A tok \in tokens :
    /\ tok \in Token /\ tok.n \in 1..Cardinality(tokens) /\ tok.key = <<tok.with, tok.on>>
    /\ tok.on <= hash /\ tok.exp <= MaxTokenTime + TokenTtl
    /\ \A other \in tokens : other.n = tok.n => other = tok

ResetsAreNumbered ==
  /\ \A r \in resets :
       /\ r \in Reset /\ r.n \in 1..Cardinality(resets) /\ r.tok \in 1..Cardinality(tokens)
       /\ r.seen <= hash /\ (r.pc = "stored" => r.became <= hash /\ r.last <= Cardinality(resets))
  /\ \A r, q \in resets : r.n = q.n => r = q

\* The inductive invariant of the tokens.
TokenInv == ServerKnows /\ TokensAreSigned /\ ResetsAreNumbered /\ TokensDieWithThePassword

LEMMA TokenStarts == TokenInit => TokenInv
<1> SUFFICES ASSUME TokenInit PROVE TokenInv
  OBVIOUS
<1>1. tokens = {} /\ resets = {} /\ hash = 0 /\ time = 0 /\ secret = {0} /\ secrets = 0
  BY DEF TokenInit
<1>2. Stored = {}
  BY <1>1 DEF Stored
<1>3. ServerKnows
  BY <1>1, <1>2, FS_EmptySet, TokenAssumption DEF ServerKnows, TokenAssumption
<1> QED BY <1>1, <1>3 DEF TokenInv, TokensAreSigned, ResetsAreNumbered, TokensDieWithThePassword

\* Sizes are numbers.
LEMMA TokenSizes ==
  ASSUME TokenInv
  PROVE  /\ Cardinality(tokens) \in Nat /\ Cardinality(resets) \in Nat /\ hash \in Nat
         /\ hash <= Cardinality(resets) /\ time \in Nat
<1>1. IsFiniteSet(tokens) /\ IsFiniteSet(resets) /\ Stored \subseteq resets /\ hash = Cardinality(Stored)
  BY DEF TokenInv, ServerKnows, Stored
<1>2. IsFiniteSet(Stored) /\ Cardinality(Stored) <= Cardinality(resets)
  BY <1>1, FS_Subset
<1> QED BY <1>1, <1>2, FS_CardinalityType DEF TokenInv, ServerKnows

LEMMA MakeStep == ASSUME TokenInv, Make PROVE TokenInv'
<1> USE TokenAssumption DEF TokenAssumption
<1>1. /\ Cardinality(tokens) \in Nat /\ Cardinality(resets) \in Nat /\ hash \in Nat /\ time \in Nat
      /\ Cardinality(tokens) < MaxTokens /\ UNCHANGED <<time, hash, secret, resets, secrets>>
  BY TokenSizes DEF Make
<1>2. PICK s \in secret : tokens' = tokens \cup
        {[n |-> Cardinality(tokens) + 1, key |-> Key(s, hash), exp |-> time + TokenTtl,
          on |-> hash, with |-> s]}
  BY DEF Make
<1> DEFINE new == [n |-> Cardinality(tokens) + 1, key |-> Key(s, hash), exp |-> time + TokenTtl,
                   on |-> hash, with |-> s]
<1>3. s \in Nat /\ time <= MaxTokenTime
  BY DEF TokenInv, ServerKnows
<1>4. /\ new \in Token /\ new.n = Cardinality(tokens) + 1 /\ new.key = <<new.with, new.on>>
      /\ new.on = hash /\ new.exp = time + TokenTtl
  BY <1>1, <1>3 DEF Key, Token
<1>5. tokens' = tokens \cup {new}
  BY <1>2
<1> HIDE DEF new
<1>6. new \notin tokens
  BY <1>1, <1>4 DEF TokenInv, TokensAreSigned
<1>7. IsFiniteSet(tokens') /\ Cardinality(tokens') = Cardinality(tokens) + 1
  BY <1>5, <1>6, FS_AddElement DEF TokenInv, ServerKnows
<1>8. ServerKnows'
  BY <1>1, <1>7 DEF TokenInv, ServerKnows, Stored
<1>9. TokensAreSigned'
  BY <1>1, <1>3, <1>4, <1>5, <1>7 DEF TokenInv, TokensAreSigned
<1>10. ResetsAreNumbered'
  BY <1>1, <1>7 DEF TokenInv, ResetsAreNumbered
<1>11. TokensDieWithThePassword'
  BY <1>1, <1>4, <1>5 DEF TokenInv, TokensDieWithThePassword, ResetsAreNumbered
<1> QED BY <1>8, <1>9, <1>10, <1>11 DEF TokenInv

LEMMA BeginResetStep == ASSUME TokenInv, NEW tok \in tokens, BeginReset(tok) PROVE TokenInv'
<1> USE TokenAssumption DEF TokenAssumption
<1>1. /\ Cardinality(tokens) \in Nat /\ Cardinality(resets) \in Nat /\ hash \in Nat /\ time \in Nat
      /\ Cardinality(resets) < MaxResets /\ UNCHANGED <<time, hash, secret, tokens, secrets>>
      /\ tok \in Token /\ tok.n \in 1..Cardinality(tokens) /\ tok.key = <<tok.with, tok.on>>
  BY TokenSizes DEF BeginReset, TokenInv, TokensAreSigned
<1> DEFINE new == [n |-> Cardinality(resets) + 1, tok |-> tok.n, at |-> time, seen |-> hash,
                   under |-> secret, became |-> 0, last |-> 0,
                   pc |-> IF Verifies(tok, hash) THEN "verified" ELSE "refused"]
<1>2. resets' = resets \cup {new}
  BY DEF BeginReset
<1>3. secret \subseteq Nat
  BY DEF TokenInv, ServerKnows
<1>4. new \in Reset
  BY <1>1, <1>3 DEF Reset, Token
<1>5. /\ new.n = Cardinality(resets) + 1 /\ new.tok = tok.n /\ new.at = time /\ new.seen = hash
      /\ new.under = secret /\ new.pc # "stored"
      /\ new.pc # "refused" => Verifies(tok, hash)
  OBVIOUS
<1> HIDE DEF new
<1>6. new \notin resets
  BY <1>1, <1>5 DEF TokenInv, ResetsAreNumbered
<1>7. IsFiniteSet(resets') /\ Cardinality(resets') = Cardinality(resets) + 1
  BY <1>2, <1>6, FS_AddElement DEF TokenInv, ServerKnows
<1>8. Stored' = Stored
  BY <1>2, <1>5 DEF Stored
<1>9. ServerKnows'
  BY <1>1, <1>7, <1>8 DEF TokenInv, ServerKnows
<1>10. TokensAreSigned'
  BY <1>1 DEF TokenInv, TokensAreSigned
<1>11. ResetsAreNumbered'
  <2>1. ASSUME NEW r \in resets'
        PROVE  /\ r \in Reset /\ r.n \in 1..Cardinality(resets') /\ r.tok \in 1..Cardinality(tokens)
               /\ r.seen <= hash
               /\ (r.pc = "stored" => r.became <= hash /\ r.last <= Cardinality(resets'))
    <3>1. CASE r \in resets
      BY <1>1, <1>7, <3>1 DEF TokenInv, ResetsAreNumbered, Reset
    <3>2. CASE r = new
      BY <1>1, <1>4, <1>5, <1>7, <3>2
    <3> QED BY <1>2, <3>1, <3>2
  <2>2. ASSUME NEW r \in resets', NEW q \in resets', r.n = q.n PROVE r = q
    BY <1>1, <1>2, <1>5, <2>2 DEF TokenInv, ResetsAreNumbered
  <2> QED BY <1>1, <2>1, <2>2 DEF ResetsAreNumbered
<1>12. ASSUME new.pc # "refused", NEW t \in tokens, t.n = tok.n
       PROVE  /\ new.seen = t.on /\ new.under = {t.with} /\ new.at < t.exp
  <2>1. t = tok
    BY <1>12 DEF TokenInv, TokensAreSigned
  <2>2. PICK s \in secret : tok.key = <<s, hash>> /\ time < tok.exp
    BY <1>5, <1>12 DEF Verifies, Key
  <2>3. s = tok.with /\ hash = tok.on
    BY <1>1, <2>2
  <2>4. secret = {s}
    BY <2>2 DEF TokenInv, ServerKnows
  <2> QED BY <1>5, <2>1, <2>2, <2>3, <2>4
<1>13. TokensDieWithThePassword'
  <2> SUFFICES ASSUME NEW r \in resets', NEW t \in tokens, r.tok = t.n, r.pc # "refused"
               PROVE  /\ r.seen = t.on /\ r.under = {t.with} /\ r.at < t.exp
                      /\ \A other \in resets' :
                           other.pc = "stored" /\ other.became > t.on => r.n <= other.last
    BY <1>1 DEF TokensDieWithThePassword
  <2>1. CASE r \in resets
    BY <1>2, <1>5, <2>1 DEF TokenInv, TokensDieWithThePassword
  <2>2. CASE r = new
    <3>1. r.seen = t.on /\ r.under = {t.with} /\ r.at < t.exp /\ t.on = hash
      BY <1>5, <1>12, <2>2
    <3>2. ASSUME NEW other \in resets', other.pc = "stored", other.became > t.on PROVE FALSE
      <4>1. other \in resets
        BY <1>2, <1>5, <3>2
      <4>2. other.became <= hash /\ other.became \in Nat
        BY <3>2, <4>1 DEF TokenInv, ResetsAreNumbered, Reset
      <4> QED BY <1>1, <3>1, <3>2, <4>2
    <3> QED BY <3>1, <3>2
  <2> QED BY <1>2, <2>1, <2>2
<1> QED BY <1>9, <1>10, <1>11, <1>13 DEF TokenInv

LEMMA EndResetStep == ASSUME TokenInv, NEW r0 \in resets, EndReset(r0) PROVE TokenInv'
<1> USE TokenAssumption DEF TokenAssumption
<1>1. /\ Cardinality(tokens) \in Nat /\ Cardinality(resets) \in Nat /\ hash \in Nat /\ time \in Nat
      /\ UNCHANGED <<time, secret, tokens, secrets>> /\ hash' = hash + 1 /\ r0.pc = "verified"
      /\ r0 \in Reset
  BY TokenSizes DEF EndReset, TokenInv, ResetsAreNumbered
<1> DEFINE new == [r0 EXCEPT !.pc = "stored", !.became = hash', !.last = Cardinality(resets)]
<1>2. resets' = (resets \ {r0}) \cup {new}
  BY DEF EndReset
<1>3. new \in Reset
  <2>1. hash' \in Nat /\ Cardinality(resets) \in Nat
    BY <1>1
  <2> QED BY <1>1, <2>1 DEF Reset
<1>4. /\ new.n = r0.n /\ new.tok = r0.tok /\ new.at = r0.at /\ new.seen = r0.seen
      /\ new.under = r0.under /\ new.pc = "stored" /\ new.became = hash + 1
      /\ new.last = Cardinality(resets)
  BY <1>1 DEF Reset
<1> HIDE DEF new
<1>5. new \notin resets
  BY <1>1, <1>4 DEF TokenInv, ResetsAreNumbered
<1>6. IsFiniteSet(resets') /\ Cardinality(resets') = Cardinality(resets)
  BY <1>2, <1>5, ReplaceKeepsSize DEF TokenInv, ServerKnows
<1>7. Stored' = Stored \cup {new} /\ new \notin Stored /\ IsFiniteSet(Stored)
  <2>1. Stored' = Stored \cup {new}
    BY <1>1, <1>2, <1>4 DEF Stored
  <2>2. new \notin Stored
    BY <1>5 DEF Stored
  <2>3. IsFiniteSet(Stored)
    BY FS_Subset DEF TokenInv, ServerKnows, Stored
  <2> QED BY <2>1, <2>2, <2>3
<1>8. Cardinality(Stored') = hash'
  BY <1>1, <1>7, FS_AddElement DEF TokenInv, ServerKnows
<1>9. ServerKnows'
  BY <1>1, <1>6, <1>8 DEF TokenInv, ServerKnows
<1>10. TokensAreSigned'
  BY <1>1 DEF TokenInv, TokensAreSigned, Token
<1>11. ResetsAreNumbered'
  <2>1. ASSUME NEW r \in resets'
        PROVE  /\ r \in Reset /\ r.n \in 1..Cardinality(resets') /\ r.tok \in 1..Cardinality(tokens)
               /\ r.seen <= hash'
               /\ (r.pc = "stored" => r.became <= hash' /\ r.last <= Cardinality(resets'))
    <3>1. CASE r \in resets
      BY <1>1, <1>6, <3>1 DEF TokenInv, ResetsAreNumbered, Reset
    <3>2. CASE r = new
      <4>1. r0.n \in 1..Cardinality(resets) /\ r0.tok \in 1..Cardinality(tokens) /\ r0.seen <= hash /\ r0.seen \in Nat
        BY DEF TokenInv, ResetsAreNumbered, Reset
      <4> QED BY <1>1, <1>3, <1>4, <1>6, <3>2, <4>1
    <3> QED BY <1>2, <3>1, <3>2
  <2>2. ASSUME NEW r \in resets', NEW q \in resets', r.n = q.n PROVE r = q
    BY <1>1, <1>2, <1>4, <2>2 DEF TokenInv, ResetsAreNumbered
  <2> QED BY <1>1, <2>1, <2>2 DEF ResetsAreNumbered
<1>12. TokensDieWithThePassword'
  <2> SUFFICES ASSUME NEW r \in resets', NEW t \in tokens, r.tok = t.n, r.pc # "refused"
               PROVE  /\ r.seen = t.on /\ r.under = {t.with} /\ r.at < t.exp
                      /\ \A other \in resets' :
                           other.pc = "stored" /\ other.became > t.on => r.n <= other.last
    BY <1>1 DEF TokensDieWithThePassword
  <2>1. PICK q \in resets : /\ q.tok = r.tok /\ q.pc # "refused" /\ q.n = r.n /\ q.seen = r.seen
                            /\ q.under = r.under /\ q.at = r.at
    BY <1>1, <1>2, <1>4
  <2>2. /\ r.seen = t.on /\ r.under = {t.with} /\ r.at < t.exp
        /\ \A other \in resets : other.pc = "stored" /\ other.became > t.on => r.n <= other.last
    BY <2>1 DEF TokenInv, TokensDieWithThePassword
  <2>3. r.n <= Cardinality(resets)
    BY <2>1, <1>1 DEF TokenInv, ResetsAreNumbered
  <2> QED BY <1>2, <1>4, <2>2, <2>3
<1> QED BY <1>9, <1>10, <1>11, <1>12 DEF TokenInv

LEMMA SecretStep == ASSUME TokenInv, ChangeSecret \/ TokenTick PROVE TokenInv'
<1> USE TokenAssumption DEF TokenAssumption
<1>1. UNCHANGED <<hash, tokens, resets>> /\ time' \in {time, time + 1} /\ time' <= MaxTokenTime
  BY TokenSizes DEF ChangeSecret, TokenTick, TokenInv, ServerKnows
<1>2. secret' = {} \/ \E s \in Nat : secret' = {s}
  BY DEF ChangeSecret, TokenTick, TokenInv, ServerKnows
<1>3. secrets' \in Nat
  BY DEF ChangeSecret, TokenTick, TokenInv, ServerKnows
<1>4. ServerKnows'
  BY <1>1, <1>2, <1>3 DEF TokenInv, ServerKnows, Stored
<1> QED BY <1>1, <1>4
  DEF TokenInv, TokensAreSigned, ResetsAreNumbered, TokensDieWithThePassword

LEMMA TokenStep == TokenInv /\ [TokenNext]_tokenVars => TokenInv'
<1> SUFFICES ASSUME TokenInv, [TokenNext]_tokenVars PROVE TokenInv'
  OBVIOUS
<1>1. CASE UNCHANGED tokenVars
  BY <1>1 DEF tokenVars, TokenInv, ServerKnows, Stored, TokensAreSigned, ResetsAreNumbered,
              TokensDieWithThePassword
<1>2. CASE TokenNext
  BY <1>2, MakeStep, BeginResetStep, EndResetStep, SecretStep DEF TokenNext
<1> QED BY <1>1, <1>2

\* The invariant types the state.
LEMMA TokenTyped == TokenInv => TokenTypeOK
<1> SUFFICES ASSUME TokenInv PROVE TokenTypeOK
  OBVIOUS
<1> USE TokenAssumption DEF TokenAssumption
<1>1. Cardinality(secret) <= 1
  <2>1. Cardinality(secret) \in {0, 1}
    BY SmallSets DEF TokenInv, ServerKnows
  <2> QED BY <2>1
<1>2. hash \in 0..MaxResets /\ Cardinality(tokens) \in Nat /\ Cardinality(tokens) <= MaxTokens
  BY TokenSizes DEF TokenInv, ServerKnows
<1> QED BY <1>1, <1>2 DEF TokenInv, ServerKnows, TokensAreSigned, ResetsAreNumbered, TokenTypeOK, Token, Reset

\* For any number of tokens, resets in flight and changes of the secret: a token is taken
\* only under the secret and the password it was made for, and by no reset begun after
\* the first change of that password was stored (signedTokens.ts, resetKey).
THEOREM ResetTokensDie == TokenSpec => [](TokenTypeOK /\ TokensDieWithThePassword)
<1>1. TokenInv => TokenTypeOK /\ TokensDieWithThePassword
  BY TokenTyped DEF TokenInv
<1> QED BY <1>1, TokenStarts, TokenStep, PTL DEF TokenSpec

-----------------------------------------------------------------------------
(* The rate limiter.                                                       *)

Keys == Emails \cup Ips
Try == [n : Nat, at : Nat, email : Emails, ip : Ips \cup {NoIp}, emailOk : BOOLEAN, ipOk : BOOLEAN]

\* Attempt b was let through by key k; the hit it left there.
PassedBy(k, b) == (b.email = k /\ b.emailOk) \/ (b.ip = k /\ b.ip # NoIp /\ b.ipOk)
HitOf(b) == [n |-> b.n, at |-> b.at]
InWindow(k) == {b \in tries : PassedBy(k, b) /\ b.at > clock - Window}

TriesNumbered ==
  /\ clock \in Nat /\ clock >= Window /\ lastSweep \in 0..clock
  /\ IsFiniteSet(tries) /\ Cardinality(tries) <= MaxAttempts
  /\ \A a \in tries : a \in Try /\ a.n \in 1..Cardinality(tries) /\ a.at <= clock
  /\ \A a, b \in tries : (a.n <= b.n => a.at <= b.at) /\ (a.n = b.n => a = b)

\* A bucket holds hits its key let through, and all of those in the window.
BucketsHold(bs) ==
  /\ DOMAIN bs \subseteq Keys
  /\ \A k \in DOMAIN bs :
       bs[k].window = Window /\ \A h \in bs[k].times : \E b \in tries : PassedBy(k, b) /\ h = HitOf(b)
  /\ \A k \in Keys : \A b \in InWindow(k) : k \in DOMAIN bs /\ HitOf(b) \in bs[k].times

\* What the limiter said of each attempt, by the attempts before it.
Earlier(k, a) == {b \in tries : PassedBy(k, b) /\ b.n < a.n /\ b.at > a.at - Window}
AttemptsJudged ==
  \A a \in tries :
    /\ a.emailOk <=> Cardinality(Earlier(a.email, a)) < PerEmail
    /\ a.ip # NoIp => (a.ipOk <=> Cardinality(Earlier(a.ip, a)) < PerIp)

\* The inductive invariant of the limiter.
LimitInv == TriesNumbered /\ BucketsHold(buckets) /\ AttemptsJudged

LEMMA LimitStarts == LimitInit => LimitInv
<1> SUFFICES ASSUME LimitInit PROVE LimitInv
  OBVIOUS
<1>1. tries = {} /\ DOMAIN buckets = {} /\ clock = Window /\ lastSweep = Window
  BY DEF LimitInit
<1>2. TriesNumbered
  BY <1>1, FS_EmptySet, LimiterAssumption DEF TriesNumbered, LimiterAssumption
<1> QED BY <1>1, <1>2 DEF LimitInv, BucketsHold, InWindow, AttemptsJudged

\* Sweeping takes no hit of the window.
LEMMA SweepKeeps ==
  ASSUME LimitInv
  PROVE  BucketsHold(Swept(buckets))
<1> USE LimiterAssumption DEF LimiterAssumption
<1>1. TriesNumbered /\ BucketsHold(buckets)
  BY DEF LimitInv
<1>2. CASE ~Due
  BY <1>1, <1>2 DEF Swept
<1>3. CASE Due
  <2> DEFINE D == {x \in DOMAIN buckets : ~Expired(buckets[x])}
  <2>1. Swept(buckets) = [k \in D |-> buckets[k]]
    BY <1>3 DEF Swept
  <2>2. ASSUME NEW k \in Keys, NEW b \in InWindow(k) PROVE k \in D
    <3>1. k \in DOMAIN buckets /\ HitOf(b) \in buckets[k].times /\ buckets[k].window = Window
      BY <1>1 DEF BucketsHold
    <3>2. ASSUME NEW newest \in buckets[k].times, \A h \in buckets[k].times : h.n <= newest.n
          PROVE  ~(newest.at <= clock - Window)
      <4>1. PICK c \in tries : newest = HitOf(c)
        BY <1>1, <3>1 DEF BucketsHold
      <4>2. b \in tries /\ b.at > clock - Window
        BY DEF InWindow
      <4>3. b.n <= c.n
        BY <3>1, <3>2, <4>1 DEF HitOf
      <4>4. b.at <= c.at /\ newest.at = c.at /\ b.at \in Nat /\ c.at \in Nat /\ clock \in Nat
        BY <1>1, <4>1, <4>2, <4>3 DEF TriesNumbered, HitOf, Try
      <4> QED BY <4>2, <4>4
    <3> QED BY <3>1, <3>2 DEF Expired
  <2>3. D \subseteq DOMAIN buckets
    OBVIOUS
  <2> HIDE DEF D
  <2> QED BY <1>1, <2>1, <2>2, <2>3 DEF BucketsHold
<1> QED BY <1>2, <1>3

\* The hits a bucket has in the window are as many as the attempts let through.
LEMMA HitsCount ==
  ASSUME TriesNumbered, NEW bs, BucketsHold(bs), NEW k \in Keys
  PROVE  Cardinality(Hits(bs, k)) = Cardinality(InWindow(k))
<1> DEFINE f == [b \in InWindow(k) |-> HitOf(b)]
<1>1. IsFiniteSet(InWindow(k))
  BY FS_Subset DEF TriesNumbered, InWindow
<1>2. ASSUME NEW b \in InWindow(k) PROVE HitOf(b) \in Hits(bs, k)
  <2>1. k \in DOMAIN bs /\ HitOf(b) \in bs[k].times /\ b.at > clock - Window
    BY DEF BucketsHold, InWindow
  <2> QED BY <2>1 DEF Hits, HitOf
<1>3. ASSUME NEW h \in Hits(bs, k) PROVE \E b \in InWindow(k) : HitOf(b) = h
  <2>1. k \in DOMAIN bs /\ h \in bs[k].times /\ h.at > clock - Window
    BY DEF Hits
  <2>2. PICK b \in tries : PassedBy(k, b) /\ h = HitOf(b)
    BY <2>1 DEF BucketsHold
  <2> QED BY <2>1, <2>2 DEF InWindow, HitOf
<1>4. ASSUME NEW a \in InWindow(k), NEW b \in InWindow(k), HitOf(a) = HitOf(b) PROVE a = b
  BY <1>4 DEF InWindow, HitOf, TriesNumbered
<1>5. f \in [InWindow(k) -> Hits(bs, k)]
  BY <1>2
<1>6. \A a, b \in InWindow(k) : f[a] = f[b] => a = b
  BY <1>4
<1>7. \A h \in Hits(bs, k) : \E b \in InWindow(k) : f[b] = h
  BY <1>3
<1> HIDE DEF f
<1>8. f \in Bijection(InWindow(k), Hits(bs, k))
  BY <1>5, <1>6, <1>7, Fun_IsBij
<1>9. ExistsBijection(InWindow(k), Hits(bs, k))
  BY <1>8, Fun_ExistsBij
<1> QED BY <1>1, <1>9, FS_Bijection

LEMMA AttemptStep ==
  ASSUME LimitInv, NEW email \in Emails, NEW ip \in Ips \cup {NoIp}, Attempt(email, ip)
  PROVE  LimitInv'
<1> USE LimiterAssumption DEF LimiterAssumption
<1> DEFINE N == Cardinality(tries)
           first == Swept(buckets)
           second == Limited(first, email, PerEmail)
           emailOk == Allows(first, email, PerEmail)
           ipOk == ip = NoIp \/ Allows(second, ip, PerIp)
           attempt == [n |-> N + 1, at |-> clock, email |-> email, ip |-> ip,
                       emailOk |-> emailOk, ipOk |-> ipOk]
<1>0. PICK new : new = attempt
  OBVIOUS
<1>1. /\ N \in Nat /\ N < MaxAttempts /\ clock' = clock /\ tries' = tries \cup {new}
      /\ lastSweep' \in {lastSweep, clock}
      /\ buckets' = IF ip = NoIp THEN second ELSE Limited(second, ip, PerIp)
  BY <1>0, FS_CardinalityType DEF Attempt, LimitInv, TriesNumbered
<1>2. /\ TriesNumbered /\ BucketsHold(first) /\ clock \in Nat /\ clock >= Window
  BY SweepKeeps DEF LimitInv, TriesNumbered
<1>3. emailOk \in BOOLEAN /\ ipOk \in BOOLEAN
  BY DEF Allows
<1>4. /\ new \in Try /\ new.n = N + 1 /\ new.at = clock /\ new.email = email /\ new.ip = ip
      /\ new.emailOk = emailOk /\ new.ipOk = ipOk
  BY <1>0, <1>1, <1>2, <1>3 DEF Try
<1>5. HitOf(new) = Pushed
  BY <1>4 DEF HitOf, Pushed
<1>6. ASSUME ip # NoIp
      PROVE  ip \in Ips /\ ip # email /\ Hits(second, ip) = Hits(first, ip)
  <2>1. ip \in Ips /\ ip # email
    BY <1>6
  <2> QED BY <2>1 DEF Limited, Hits
<1> HIDE DEF attempt, emailOk, ipOk
<1>7. new \notin tries
  BY <1>1, <1>2, <1>4 DEF TriesNumbered
<1>8. IsFiniteSet(tries') /\ Cardinality(tries') = N + 1
  BY <1>1, <1>2, <1>7, FS_AddElement DEF TriesNumbered
<1>9. TriesNumbered'
  <2>1. ASSUME NEW a \in tries' PROVE a \in Try /\ a.n \in 1..N + 1 /\ a.at <= clock
    BY <1>1, <1>2, <1>4 DEF TriesNumbered
  <2>2. ASSUME NEW a \in tries', NEW b \in tries'
        PROVE  (a.n <= b.n => a.at <= b.at) /\ (a.n = b.n => a = b)
    <3>1. CASE a \in tries /\ b \in tries
      BY <1>2, <3>1 DEF TriesNumbered
    <3>2. CASE a = new /\ b \in tries
      BY <1>1, <1>2, <1>4, <3>2 DEF TriesNumbered
    <3>3. CASE a \in tries /\ b = new
      BY <1>1, <1>2, <1>4, <3>3 DEF TriesNumbered
    <3>4. CASE a = new /\ b = new
      BY <1>2, <1>4, <3>4
    <3> QED BY <1>1, <3>1, <3>2, <3>3, <3>4
  <2>3. /\ clock' \in Nat /\ clock' >= Window /\ lastSweep' \in 0..clock'
        /\ Cardinality(tries') <= MaxAttempts
    BY <1>1, <1>2, <1>8 DEF TriesNumbered
  <2> QED BY <1>1, <1>8, <2>1, <2>2, <2>3 DEF TriesNumbered
\* What each bucket holds.
<1> DEFINE after(k) == IF k = email THEN Hits(first, k) \cup (IF emailOk THEN {Pushed} ELSE {})
                       ELSE IF k = ip /\ ip # NoIp THEN Hits(first, k) \cup (IF ipOk THEN {Pushed} ELSE {})
                       ELSE first[k].times
<1>10. /\ DOMAIN buckets' = DOMAIN first \cup {email} \cup (IF ip = NoIp THEN {} ELSE {ip})
       /\ \A k \in DOMAIN buckets' :
            /\ buckets'[k].times = after(k)
            /\ k \in DOMAIN first \/ buckets'[k].window = Window
            /\ k \in DOMAIN first => buckets'[k].window \in {first[k].window, Window}
  <2>1. CASE ip = NoIp
    BY <1>1, <2>1 DEF Limited, emailOk
  <2>2. CASE ip # NoIp
    <3>1. buckets' = Limited(second, ip, PerIp) /\ ip # email /\ Hits(second, ip) = Hits(first, ip)
      BY <1>1, <1>6, <2>2
    <3>2. ipOk <=> Allows(second, ip, PerIp)
      BY <2>2 DEF ipOk
    <3>3. emailOk <=> Allows(first, email, PerEmail)
      BY DEF emailOk
    <3> HIDE DEF first
    <3> QED BY <2>2, <3>1, <3>2, <3>3 DEF Limited
  <2> QED BY <2>1, <2>2
<1>11. \A k \in Keys : PassedBy(k, new) <=> (k = email /\ emailOk) \/ (k = ip /\ ip # NoIp /\ ipOk)
  BY <1>4 DEF PassedBy
<1>12. BucketsHold(buckets)'
  <2>1. DOMAIN buckets' \subseteq Keys
    BY <1>2, <1>6, <1>10 DEF BucketsHold, Keys
  <2>2. ASSUME NEW k \in DOMAIN buckets'
        PROVE  buckets'[k].window = Window
    BY <1>2, <1>10 DEF BucketsHold
  <2>3. ASSUME NEW k \in DOMAIN buckets', NEW h \in buckets'[k].times
        PROVE  \E b \in tries' : PassedBy(k, b) /\ h = HitOf(b)
    <3>1. h \in after(k) /\ k \in Keys
      BY <1>10, <2>1
    <3>2. CASE k \in DOMAIN first /\ h \in first[k].times
      BY <1>1, <1>2, <3>2 DEF BucketsHold
    <3>3. CASE h = Pushed /\ PassedBy(k, new)
      BY <1>1, <1>5, <3>3
    <3>4. h \in Hits(first, k) => k \in DOMAIN first /\ h \in first[k].times
      BY DEF Hits
    <3> HIDE DEF first
    <3>5. k = email \/ (k = ip /\ ip # NoIp) \/ k \in DOMAIN first
      BY <1>10
    <3> QED BY <1>11, <3>1, <3>2, <3>3, <3>4, <3>5
  <2>4. ASSUME NEW k \in Keys, NEW b \in InWindow(k)'
        PROVE  k \in DOMAIN buckets' /\ HitOf(b) \in buckets'[k].times
    <3>1. b \in tries' /\ PassedBy(k, b) /\ b.at > clock - Window
      BY <1>1 DEF InWindow
    <3>2. CASE b = new
      <4>1. (k = email /\ emailOk) \/ (k = ip /\ ip # NoIp /\ ipOk)
        BY <1>11, <3>1, <3>2
      <4>2. k \in DOMAIN buckets'
        BY <1>10, <4>1
      <4>3. Pushed \in after(k)
        BY <1>6, <4>1
      <4> QED BY <1>5, <1>10, <3>2, <4>2, <4>3
    <3>3. CASE b \in tries
      <4>1. b \in InWindow(k)
        BY <3>1, <3>3 DEF InWindow
      <4>2. k \in DOMAIN first /\ HitOf(b) \in first[k].times
        BY <1>2, <4>1 DEF BucketsHold
      <4>3. HitOf(b) \in Hits(first, k)
        BY <3>1, <4>2 DEF Hits, HitOf
      <4>4. HitOf(b) \in after(k)
        BY <4>2, <4>3
      <4> QED BY <1>10, <4>2, <4>4
    <3> QED BY <1>1, <3>1, <3>2, <3>3
  <2> QED BY <2>1, <2>2, <2>3, <2>4 DEF BucketsHold
\* What was said of each attempt.
<1>13. \A k \in Keys : Earlier(k, new)' = InWindow(k)
  <2>1. \A b \in tries : b.n < N + 1
    BY <1>1, <1>2 DEF TriesNumbered
  <2>2. ~(N + 1 < N + 1)
    BY <1>1
  <2> QED BY <1>1, <1>4, <2>1, <2>2 DEF InWindow, Earlier
<1>14. ASSUME NEW a \in tries, NEW k \in Keys PROVE Earlier(k, a)' = Earlier(k, a)
  <2>1. a.n \in 1..N
    BY <1>2 DEF TriesNumbered
  <2>2. ~(new.n < a.n)
    BY <1>1, <1>4, <2>1
  <2> QED BY <1>1, <2>2 DEF Earlier
<1>15. new.emailOk <=> Cardinality(Earlier(email, new)') < PerEmail
  <2>1. email \in Keys
    BY DEF Keys
  <2>2. Cardinality(Hits(first, email)) = Cardinality(Earlier(email, new)')
    BY <1>2, <1>13, <2>1, HitsCount
  <2> QED BY <1>4, <2>2 DEF emailOk, Allows
<1>16. ASSUME ip # NoIp PROVE new.ipOk <=> Cardinality(Earlier(ip, new)') < PerIp
  <2>1. ip \in Keys /\ Hits(second, ip) = Hits(first, ip)
    BY <1>6, <1>16 DEF Keys
  <2>2. Cardinality(Hits(first, ip)) = Cardinality(Earlier(ip, new)')
    BY <1>2, <1>13, <2>1, HitsCount
  <2>3. ipOk <=> Cardinality(Hits(second, ip)) < PerIp
    BY <1>16 DEF ipOk, Allows
  <2> QED BY <1>4, <2>1, <2>2, <2>3
<1>17. AttemptsJudged'
  <2> SUFFICES ASSUME NEW a \in tries'
               PROVE  /\ a.emailOk <=> Cardinality(Earlier(a.email, a)') < PerEmail
                      /\ a.ip # NoIp => (a.ipOk <=> Cardinality(Earlier(a.ip, a)') < PerIp)
    BY DEF AttemptsJudged
  <2>1. CASE a = new
    BY <1>4, <1>15, <1>16, <2>1
  <2>2. CASE a \in tries
    <3>1. a.email \in Keys /\ (a.ip # NoIp => a.ip \in Keys)
      BY <1>2, <2>2 DEF TriesNumbered, Try, Keys
    <3> QED BY <1>14, <2>2, <3>1 DEF LimitInv, AttemptsJudged
  <2> QED BY <1>1, <2>1, <2>2
<1> QED BY <1>9, <1>12, <1>17 DEF LimitInv

LEMMA LimitTickStep == ASSUME LimitInv, LimitTick PROVE LimitInv'
<1> USE LimiterAssumption DEF LimiterAssumption
<1>1. clock' = clock + 1 /\ UNCHANGED <<buckets, lastSweep, tries>>
  BY DEF LimitTick
<1>2. TriesNumbered'
  BY <1>1 DEF LimitInv, TriesNumbered, Try
<1>3. \A k \in Keys : InWindow(k)' \subseteq InWindow(k)
  BY <1>1 DEF LimitInv, TriesNumbered, InWindow, Try
<1>4. BucketsHold(buckets)'
  BY <1>1, <1>3 DEF LimitInv, BucketsHold
<1>5. AttemptsJudged'
  BY <1>1 DEF LimitInv, AttemptsJudged, Earlier
<1> QED BY <1>2, <1>4, <1>5 DEF LimitInv

LEMMA LimitStep == LimitInv /\ [LimitNext]_limitVars => LimitInv'
<1> SUFFICES ASSUME LimitInv, [LimitNext]_limitVars PROVE LimitInv'
  OBVIOUS
<1>1. CASE UNCHANGED limitVars
  BY <1>1 DEF limitVars, LimitInv, TriesNumbered, BucketsHold, InWindow, AttemptsJudged, Earlier
<1>2. CASE LimitNext
  BY <1>2, AttemptStep, LimitTickStep DEF LimitNext
<1> QED BY <1>1, <1>2

\* The invariant types the state, and the attempts it counts are the property's.
LEMMA LimitTyped == LimitInv => LimitTypeOK /\ LimiterIsASlidingWindow
<1> SUFFICES ASSUME LimitInv PROVE LimitTypeOK /\ LimiterIsASlidingWindow
  OBVIOUS
<1> USE LimiterAssumption DEF LimiterAssumption
<1>1. \A b \in tries : b \in Try /\ b.email \in Emails /\ b.ip \in Ips \cup {NoIp}
  BY DEF LimitInv, TriesNumbered, Try
<1>2. LimitTypeOK
  <2>1. \A a \in tries : a.n \in 1..MaxAttempts /\ a.at \in 0..clock
    BY FS_CardinalityType DEF LimitInv, TriesNumbered, Try
  <2>2. \A k \in DOMAIN buckets : \A h \in buckets[k].times : h.at \in 0..clock
    BY <2>1 DEF LimitInv, BucketsHold, HitOf
  <2> QED BY <2>1, <2>2 DEF LimitInv, TriesNumbered, BucketsHold, Keys, LimitTypeOK
<1>3. ASSUME NEW a \in tries
      PROVE  Counted(a, LAMBDA b : b.email = a.email /\ b.emailOk) = Cardinality(Earlier(a.email, a))
  <2>1. {b \in tries : (b.email = a.email /\ b.emailOk) /\ b.n < a.n /\ b.at > a.at - Window} =
          Earlier(a.email, a)
    BY <1>1 DEF PassedBy, Earlier
  <2> QED BY <2>1 DEF Counted
<1>4. ASSUME NEW a \in tries, a.ip # NoIp
      PROVE  Counted(a, LAMBDA b : b.ip = a.ip /\ b.ipOk) = Cardinality(Earlier(a.ip, a))
  <2>1. {b \in tries : (b.ip = a.ip /\ b.ipOk) /\ b.n < a.n /\ b.at > a.at - Window} =
          Earlier(a.ip, a)
    BY <1>1, <1>4 DEF PassedBy, Earlier
  <2> QED BY <2>1 DEF Counted
<1>5. LimiterIsASlidingWindow
  BY <1>3, <1>4 DEF LimitInv, AttemptsJudged, LimiterIsASlidingWindow
<1> QED BY <1>2, <1>5

\* Whatever keys, limits, windows and sweeps, an email or an address is refused exactly
\* when as many of its attempts as the limit were let through in the window before: what
\* the sweep forgets and what is not recorded never show (rateLimit.ts).
THEOREM LimiterCounts == LimitSpec => [](LimitTypeOK /\ LimiterIsASlidingWindow)
BY LimitStarts, LimitStep, LimitTyped, PTL DEF LimitSpec

-----------------------------------------------------------------------------
(* Files.                                                                  *)

Unsettled == {"put", "write", "insert"}
UploadSteps == Unsettled \cup {"takeBack", "hook", "ok", "refused"}
OtherSteps == {"read", "stat", "open", "deleteRow", "hook", "unlink", "ok", "refused"}
Job == [n : Nat, kind : Kinds, id : FileIds, pc : UploadSteps \cup OtherSteps, late : BOOLEAN,
        excused : BOOLEAN, body : Bytes]

\* An upload of this name may still write bytes or the row.
Pending(id) == \E j \in jobs : j.kind \in Uploads /\ j.id = id /\ j.pc \in Unsettled

\* An upload meets no row of its name before it has inserted one, whole; what it
\* leaves when refused, it leaves excused.
UploadFits(j) ==
  /\ j.pc \in UploadSteps
  /\ j.pc \in Unsettled => j.id \notin DOMAIN fileRows
  /\ j.pc = "insert" => disk[j.id] = "whole"
  /\ j.pc = "hook" => j.kind = "upload"
  /\ j.pc = "takeBack" => j.kind = "upload" /\ (j.id \notin DOMAIN fileRows \/ (j.excused /\ j.id \in doubted))
  /\ j.kind = "upload" /\ j.pc = "refused" /\ ~j.excused =>
       j.id \notin DOMAIN fileRows /\ disk[j.id] = "none"

\* Another request that found a row of its name finds no upload of it under way.
OtherFits(j) ==
  /\ j.pc \in OtherSteps
  /\ j.pc \in {"stat", "open", "deleteRow", "hook", "unlink"} => ~Pending(j.id) /\ disk[j.id] # "part"
  /\ j.pc \in {"hook", "unlink"} => j.id \notin DOMAIN fileRows
  /\ j.kind = "consoleDelete" /\ j.pc = "deleteRow" /\ j.id \in linked => j.late

JobFits(j) ==
  /\ j \in Job /\ j.body # "part"
  /\ IF j.kind \in Uploads THEN UploadFits(j) ELSE OtherFits(j)

OneUploadEach ==
  \A j, k \in jobs : j.kind \in Uploads /\ k.kind \in Uploads /\ j.id = k.id => j = k

RowFits(id) ==
  /\ disk[id] = "whole" \/ (id \in doubted /\ disk[id] = "none")
  /\ fileRows[id] \in {Untitled, id}

Row == [id : FileIds, title : Titles, linked : BOOLEAN]
PaneFits ==
  /\ DOMAIN pane.listed \subseteq FileIds
  /\ \A id \in DOMAIN pane.listed :
       pane.listed[id] \in Row /\ pane.listed[id].id = id /\ pane.listed[id].title \in {Untitled, id}
  /\ pane.file = {} \/ \E row \in Row : /\ pane.file = {row} /\ row.title \in {Untitled, row.id}
                                        /\ pane.title \in {Untitled, row.id}
  /\ pane.title \in Titles
  /\ pane = [listed |-> pane.listed, file |-> pane.file, title |-> pane.title, asked |-> pane.asked]

StoresFit ==
  /\ disk \in [FileIds -> Bytes] /\ DOMAIN fileRows \subseteq FileIds
  /\ linked \subseteq DOMAIN fileRows /\ fileJobs \in Nat
  /\ fileRows = [id \in DOMAIN fileRows |-> fileRows[id]]

\* The inductive invariant of the files.
FileInv ==
  /\ StoresFit /\ (\A j \in jobs : JobFits(j)) /\ OneUploadEach
  /\ (\A id \in DOMAIN fileRows : RowFits(id)) /\ PaneFits

LEMMA FileTyped == FileInv => FileTypeOK /\ FilesAreWhole /\ RefusalsLeaveNothing
<1> SUFFICES ASSUME FileInv PROVE FileTypeOK /\ FilesAreWhole /\ RefusalsLeaveNothing
  OBVIOUS
<1>1. FileTypeOK
  <2>1. Cardinality(pane.file) \in {0, 1}
    BY SmallSets DEF FileInv, PaneFits
  <2>2. Cardinality(pane.file) <= 1
    BY <2>1
  <2> QED BY <2>2 DEF FileInv, PaneFits, StoresFit, JobFits, RowFits, Job, FileTypeOK, Titles
<1>2. FilesAreWhole
  BY DEF FileInv, RowFits, JobFits, FilesAreWhole
<1>3. RefusalsLeaveNothing
  BY DEF FileInv, JobFits, UploadFits, RefusalsLeaveNothing, Uploads
<1> QED BY <1>1, <1>2, <1>3

LEMMA FileStarts == FileInit => FileInv
<1> SUFFICES ASSUME FileInit PROVE FileInv
  OBVIOUS
<1> USE FileAssumption DEF FileAssumption
<1>1. StoresFit
  BY DEF FileInit, StoresFit
<1>2. (\A j \in jobs : JobFits(j)) /\ OneUploadEach
  BY DEF FileInit, OneUploadEach
<1>3. \A id \in DOMAIN fileRows : RowFits(id)
  BY DEF FileInit, RowFits
<1>4. PaneFits
  BY DEF FileInit, PaneFits, Snapshot, Row, Titles
<1> QED BY <1>1, <1>2, <1>3, <1>4 DEF FileInv

\* A pending upload has no row, so whoever has found one meets no such upload.
LEMMA RowsAreSettled ==
  ASSUME FileInv, NEW id \in DOMAIN fileRows
  PROVE  ~Pending(id) /\ disk[id] # "part" /\ id \in FileIds
BY DEF FileInv, JobFits, UploadFits, Pending, RowFits, StoresFit

\* A request takes a step, and what is stored changes under its name only.
JobChange(j, k) ==
  /\ j \in jobs /\ k \in Job /\ k.id = j.id /\ k.kind = j.kind
  /\ jobs' = (jobs \ {j}) \cup {k} /\ UNCHANGED <<pane, fileJobs>>
  /\ disk' \in [FileIds -> Bytes] /\ \A i \in FileIds \ {j.id} : disk'[i] = disk[i]
  /\ DOMAIN fileRows' \subseteq FileIds /\ fileRows' = [i \in DOMAIN fileRows' |-> fileRows'[i]]
  /\ \A i \in FileIds \ {j.id} : /\ i \in DOMAIN fileRows' <=> i \in DOMAIN fileRows
                                 /\ i \in DOMAIN fileRows => fileRows'[i] = fileRows[i]
  /\ linked' \subseteq linked /\ linked' \subseteq DOMAIN fileRows' /\ doubted \subseteq doubted'

\* It is enough to look at the requests and the row of that name.
LEMMA JobChangeStep ==
  ASSUME FileInv, NEW j, NEW k, JobChange(j, k), JobFits(k)',
         \A i \in jobs : i # j /\ i.id = j.id => JobFits(i)',
         j.id \in DOMAIN fileRows' => RowFits(j.id)'
  PROVE  FileInv'
<1>1. j \in jobs /\ k.id = j.id /\ k.kind = j.kind /\ jobs' = (jobs \ {j}) \cup {k} /\ j.id \in FileIds
  BY DEF JobChange, Job
<1>2. ASSUME NEW i \in jobs, i.id # j.id PROVE JobFits(i)'
  <2>1. JobFits(i) /\ i.id \in FileIds \ {j.id}
    BY <1>1, <1>2 DEF FileInv, JobFits, Job
  <2>2. /\ disk'[i.id] = disk[i.id] /\ (i.id \in DOMAIN fileRows' <=> i.id \in DOMAIN fileRows)
        /\ i.id \in linked' => i.id \in linked
        /\ i.id \in doubted => i.id \in doubted'
    BY <2>1 DEF JobChange
  <2>3. Pending(i.id)' => Pending(i.id)
    BY <1>1, <1>2 DEF Pending
  <2>4. CASE i.kind \in Uploads
    BY <2>1, <2>2, <2>4 DEF JobFits, UploadFits
  <2>5. CASE i.kind \notin Uploads
    BY <2>1, <2>2, <2>3, <2>5 DEF JobFits, OtherFits
  <2> QED BY <2>4, <2>5
<1>3. (\A i \in jobs : JobFits(i))'
  BY <1>1, <1>2
<1>4. OneUploadEach'
  BY <1>1 DEF FileInv, OneUploadEach
<1>5. (\A id \in DOMAIN fileRows : RowFits(id))'
  <2>1. ASSUME NEW id \in DOMAIN fileRows', id # j.id PROVE RowFits(id)'
    <3>1. id \in FileIds \ {j.id} /\ id \in DOMAIN fileRows /\ fileRows'[id] = fileRows[id] /\ disk'[id] = disk[id]
      BY <2>1 DEF JobChange
    <3>2. RowFits(id) /\ doubted \subseteq doubted'
      BY <3>1 DEF FileInv, JobChange
    <3> QED BY <3>1, <3>2 DEF RowFits
  <2> QED BY <2>1
<1>6. StoresFit' /\ PaneFits'
  BY DEF FileInv, StoresFit, PaneFits, JobChange
<1> QED BY <1>3, <1>4, <1>5, <1>6 DEF FileInv

\* While an upload of a name is unsettled, others of that name have found nothing.
LEMMA OthersWait ==
  ASSUME FileInv, NEW j \in jobs, j.kind \in Uploads, j.pc \in Unsettled,
         NEW i \in jobs, i # j, i.id = j.id
  PROVE  JobFits(i)'
<1>1. i.kind \notin Uploads
  BY DEF FileInv, OneUploadEach
<1>2. Pending(i.id)
  BY DEF Pending
<1>3. JobFits(i) /\ OtherFits(i)
  BY <1>1 DEF FileInv, JobFits
<1>4. i.pc \in {"read", "ok", "refused"}
  BY <1>2, <1>3 DEF OtherFits, OtherSteps
<1> QED BY <1>1, <1>3, <1>4 DEF JobFits, OtherFits, Unsettled

\* What every step of a request keeps of its record.
LEMMA NextPc ==
  ASSUME NEW j \in Job, NEW pc \in UploadSteps \cup OtherSteps
  PROVE  /\ [j EXCEPT !.pc = pc] \in Job /\ [j EXCEPT !.pc = pc].id = j.id
         /\ [j EXCEPT !.pc = pc].kind = j.kind /\ [j EXCEPT !.pc = pc].pc = pc
         /\ [j EXCEPT !.pc = pc].excused = j.excused /\ [j EXCEPT !.pc = pc].body = j.body
         /\ [j EXCEPT !.pc = pc].late = j.late
BY DEF Job
LEMMA NextPcExcused ==
  ASSUME NEW j \in Job, NEW pc \in UploadSteps \cup OtherSteps
  PROVE  /\ [j EXCEPT !.pc = pc, !.excused = TRUE] \in Job
         /\ [j EXCEPT !.pc = pc, !.excused = TRUE].id = j.id
         /\ [j EXCEPT !.pc = pc, !.excused = TRUE].kind = j.kind
         /\ [j EXCEPT !.pc = pc, !.excused = TRUE].pc = pc
         /\ [j EXCEPT !.pc = pc, !.excused = TRUE].excused
         /\ [j EXCEPT !.pc = pc, !.excused = TRUE].body = j.body
         /\ [j EXCEPT !.pc = pc, !.excused = TRUE].late = j.late
BY DEF Job

\* A step to pc, excused or not, in the words of JobChange.
Took(j, pc, k) ==
  /\ jobs' = (jobs \ {j}) \cup {k} /\ k \in Job /\ k.id = j.id /\ k.kind = j.kind /\ k.pc = pc
  /\ k.body = j.body /\ k.late = j.late
LEMMA StepTook ==
  ASSUME NEW j \in jobs, JobFits(j), NEW pc \in UploadSteps \cup OtherSteps
  PROVE  /\ Step(j, pc) => \E k : Took(j, pc, k) /\ k.excused = j.excused
         /\ Excused(j, pc) => \E k : Took(j, pc, k) /\ k.excused
<1>1. j \in Job
  BY DEF JobFits
<1>2. ASSUME Step(j, pc) PROVE \E k : Took(j, pc, k) /\ k.excused = j.excused
  <2> DEFINE k == [j EXCEPT !.pc = pc]
  <2>1. /\ k \in Job /\ k.id = j.id /\ k.kind = j.kind /\ k.pc = pc
        /\ k.excused = j.excused /\ k.body = j.body /\ k.late = j.late
    BY <1>1, NextPc
  <2>2. jobs' = (jobs \ {j}) \cup {k}
    BY <1>2 DEF Step
  <2> HIDE DEF k
  <2>3. Took(j, pc, k)
    BY <2>1, <2>2 DEF Took
  <2> QED BY <2>1, <2>3
<1>3. ASSUME Excused(j, pc) PROVE \E k : Took(j, pc, k) /\ k.excused
  <2> DEFINE k == [j EXCEPT !.pc = pc, !.excused = TRUE]
  <2>1. /\ k \in Job /\ k.id = j.id /\ k.kind = j.kind /\ k.pc = pc
        /\ k.excused /\ k.body = j.body /\ k.late = j.late
    BY <1>1, NextPcExcused
  <2>2. jobs' = (jobs \ {j}) \cup {k}
    BY <1>3 DEF Excused
  <2> HIDE DEF k
  <2>3. Took(j, pc, k)
    BY <2>1, <2>2 DEF Took
  <2> QED BY <2>1, <2>3
<1> QED BY <1>2, <1>3

\* A step that changes no store but, perhaps, the bytes and the history.
LEMMA QuietChange ==
  ASSUME FileInv, NEW j \in jobs, NEW pc, NEW k, Took(j, pc, k), UNCHANGED <<pane, fileJobs>>,
         disk' \in [FileIds -> Bytes], \A i \in FileIds \ {j.id} : disk'[i] = disk[i],
         UNCHANGED <<fileRows, linked>>, doubted \subseteq doubted'
  PROVE  JobChange(j, k)
BY DEF JobChange, Took, FileInv, StoresFit

LEMMA PutBeginsKeeps == ASSUME FileInv, NEW j \in jobs, PutBegins(j) PROVE FileInv'
<1>1. j \in Job /\ JobFits(j) /\ j.id \in FileIds
  BY DEF FileInv, JobFits, Job
<1>2. j.kind \in Uploads /\ UploadFits(j)
  BY <1>1 DEF PutBegins, JobFits, OtherFits, OtherSteps
<1>3. PICK k : Took(j, "write", k) /\ k.excused = j.excused
  BY <1>1, StepTook DEF PutBegins, UploadSteps, Unsettled
<1>4. disk' \in [FileIds -> Bytes] /\ \A i \in FileIds \ {j.id} : disk'[i] = disk[i]
  BY <1>1 DEF PutBegins, FileInv, StoresFit, Bytes
<1>5. JobChange(j, k)
  BY <1>3, <1>4, QuietChange DEF PutBegins, ScreenSame
<1>6. JobFits(k)'
  BY <1>1, <1>2, <1>3 DEF PutBegins, JobFits, UploadFits, Took, Unsettled, UploadSteps
<1>7. \A i \in jobs : i # j /\ i.id = j.id => JobFits(i)'
  BY <1>2, OthersWait DEF PutBegins, Unsettled
<1>8. j.id \notin DOMAIN fileRows'
  BY <1>2 DEF UploadFits, PutBegins, Unsettled
<1> QED BY <1>5, <1>6, <1>7, <1>8, JobChangeStep

LEMMA PutEndsKeeps == ASSUME FileInv, NEW j \in jobs, PutEnds(j) PROVE FileInv'
<1>1. j \in Job /\ JobFits(j) /\ j.id \in FileIds
  BY DEF FileInv, JobFits, Job
<1>2. j.kind \in Uploads /\ UploadFits(j)
  BY <1>1 DEF PutEnds, JobFits, OtherFits, OtherSteps
<1>3. j.id \notin DOMAIN fileRows /\ UNCHANGED <<fileRows, linked, doubted, pane, fileJobs>>
  BY <1>2 DEF UploadFits, PutEnds, Unsettled, ScreenSame
<1>4. \A i \in jobs : i # j /\ i.id = j.id => JobFits(i)'
  BY <1>2, OthersWait DEF PutEnds, Unsettled
<1>5. CASE disk' = [disk EXCEPT ![j.id] = "whole"] /\ Step(j, "insert")
  <2>1. PICK k : Took(j, "insert", k) /\ k.excused = j.excused
    BY <1>1, <1>5, StepTook DEF UploadSteps, Unsettled
  <2>2. /\ disk' \in [FileIds -> Bytes] /\ \A i \in FileIds \ {j.id} : disk'[i] = disk[i]
        /\ disk'[j.id] = "whole"
    BY <1>1, <1>5 DEF FileInv, StoresFit, Bytes
  <2>3. JobChange(j, k)
    BY <1>3, <2>1, <2>2, QuietChange
  <2>4. JobFits(k)'
    BY <1>1, <1>2, <1>3, <2>1, <2>2 DEF JobFits, UploadFits, Took, Unsettled, UploadSteps
  <2> QED BY <1>3, <1>4, <2>3, <2>4, JobChangeStep
<1>6. CASE Excused(j, "refused") /\ UNCHANGED disk
  <2>1. PICK k : Took(j, "refused", k) /\ k.excused
    BY <1>1, <1>6, StepTook DEF UploadSteps, Unsettled
  <2>2. JobChange(j, k)
    BY <1>3, <1>6, <2>1, QuietChange DEF FileInv, StoresFit
  <2>3. JobFits(k)'
    BY <1>1, <1>2, <1>3, <2>1 DEF JobFits, UploadFits, Took, Unsettled, UploadSteps
  <2> QED BY <1>3, <1>4, <2>2, <2>3, JobChangeStep
<1> QED BY <1>5, <1>6 DEF PutEnds

LEMMA InsertKeeps == ASSUME FileInv, NEW j \in jobs, InsertFile(j) PROVE FileInv'
<1>1. j \in Job /\ JobFits(j) /\ j.id \in FileIds
  BY DEF FileInv, JobFits, Job
<1>2. j.kind \in Uploads /\ UploadFits(j)
  BY <1>1 DEF InsertFile, JobFits, OtherFits, OtherSteps
<1>3. /\ j.pc = "insert" /\ j.id \notin DOMAIN fileRows /\ disk[j.id] = "whole"
      /\ UNCHANGED <<disk, linked, pane, fileJobs>> /\ doubted \subseteq doubted'
  BY <1>2 DEF UploadFits, InsertFile, Unsettled, ScreenSame
<1>4. \A i \in jobs : i # j /\ i.id = j.id => JobFits(i)'
  BY <1>2, OthersWait DEF InsertFile, Unsettled
<1> DEFINE added == [id \in DOMAIN fileRows \cup {j.id} |-> IF id = j.id THEN Untitled ELSE fileRows[id]]
<1>5. ASSUME fileRows' = added
      PROVE  /\ DOMAIN fileRows' = DOMAIN fileRows \cup {j.id} /\ RowFits(j.id)'
             /\ DOMAIN fileRows' \subseteq FileIds /\ fileRows' = [i \in DOMAIN fileRows' |-> fileRows'[i]]
             /\ \A i \in FileIds \ {j.id} : /\ i \in DOMAIN fileRows' <=> i \in DOMAIN fileRows
                                            /\ i \in DOMAIN fileRows => fileRows'[i] = fileRows[i]
  BY <1>1, <1>3, <1>5 DEF FileInv, StoresFit, RowFits
<1> HIDE DEF added
<1>6. ASSUME fileRows' = added, NEW pc, NEW k, Took(j, pc, k) PROVE JobChange(j, k)
  BY <1>1, <1>3, <1>5, <1>6 DEF FileInv, StoresFit, JobChange, Took
<1>7. CASE fileRows' = added /\ Step(j, IF j.kind = "upload" THEN "hook" ELSE "ok")
  <2>1. PICK pc : Step(j, pc) /\ pc = IF j.kind = "upload" THEN "hook" ELSE "ok"
    BY <1>7
  <2>2. PICK k : Took(j, pc, k) /\ k.excused = j.excused
    BY <1>1, <2>1, StepTook DEF UploadSteps, Unsettled
  <2>3. JobFits(k)'
    BY <1>1, <1>2, <1>3, <2>1, <2>2 DEF JobFits, UploadFits, Took, Unsettled, UploadSteps
  <2> QED BY <1>4, <1>5, <1>6, <1>7, <2>2, <2>3, JobChangeStep
<1>8. CASE AfterRefusal(j) /\ UNCHANGED <<fileRows, doubted>>
  <2>1. PICK pc, k : Took(j, pc, k) /\ IF j.kind = "upload" THEN pc = "takeBack" ELSE pc = "refused" /\ k.excused
    <3>1. CASE j.kind = "upload"
      BY <1>1, <1>8, <3>1, StepTook DEF UploadSteps, Unsettled, AfterRefusal
    <3>2. CASE j.kind # "upload"
      BY <1>1, <1>8, <3>2, StepTook DEF UploadSteps, Unsettled, AfterRefusal
    <3> QED BY <3>1, <3>2
  <2>2. JobChange(j, k)
    BY <1>3, <1>8, <2>1, QuietChange DEF FileInv, StoresFit
  <2>3. JobFits(k)'
    BY <1>1, <1>2, <1>3, <1>8, <2>1 DEF JobFits, UploadFits, Took, Unsettled, UploadSteps
  <2> QED BY <1>3, <1>4, <1>8, <2>2, <2>3, JobChangeStep
<1>9. CASE /\ fileRows' = added /\ doubted' = doubted \cup {j.id}
           /\ IF j.kind = "upload" THEN Excused(j, "takeBack") ELSE Excused(j, "refused")
  <2>1. PICK pc, k : Took(j, pc, k) /\ k.excused /\ pc = IF j.kind = "upload" THEN "takeBack" ELSE "refused"
    <3>1. CASE j.kind = "upload"
      BY <1>1, <1>9, <3>1, StepTook DEF UploadSteps, Unsettled
    <3>2. CASE j.kind # "upload"
      BY <1>1, <1>9, <3>2, StepTook DEF UploadSteps, Unsettled
    <3> QED BY <3>1, <3>2
  <2>2. JobFits(k)'
    BY <1>1, <1>2, <1>3, <1>9, <2>1 DEF JobFits, UploadFits, Took, Unsettled, UploadSteps
  <2> QED BY <1>4, <1>5, <1>6, <1>9, <2>1, <2>2, JobChangeStep
<1> QED BY <1>7, <1>8, <1>9 DEF InsertFile, added

LEMMA TakeBackKeeps == ASSUME FileInv, NEW j \in jobs, TakeBack(j) PROVE FileInv'
<1>1. j \in Job /\ JobFits(j) /\ j.id \in FileIds
  BY DEF FileInv, JobFits, Job
<1>2. j.kind = "upload" /\ UploadFits(j) /\ j.pc = "takeBack"
      /\ (j.id \notin DOMAIN fileRows \/ (j.excused /\ j.id \in doubted))
  BY <1>1 DEF TakeBack, JobFits, UploadFits, OtherFits, OtherSteps, Unsettled
<1>3. /\ disk' \in [FileIds -> Bytes] /\ \A i \in FileIds \ {j.id} : disk'[i] = disk[i]
      /\ disk'[j.id] \in {"none", disk[j.id]} /\ UNCHANGED <<fileRows, linked, doubted, pane, fileJobs>>
  BY <1>1 DEF TakeBack, Unlink, ScreenSame, FileInv, StoresFit, Bytes
<1>4. PICK k : Took(j, "refused", k) /\ (j.excused => k.excused) /\ (disk'[j.id] = "none" \/ k.excused)
  <2>1. CASE disk'[j.id] = "none"
    BY <1>1, <2>1, StepTook DEF TakeBack, UploadSteps
  <2>2. CASE disk'[j.id] # "none"
    BY <1>1, <2>2, StepTook DEF TakeBack, UploadSteps
  <2> QED BY <2>1, <2>2
<1>5. JobChange(j, k)
  BY <1>3, <1>4, QuietChange
<1>6. JobFits(k)'
  BY <1>1, <1>2, <1>3, <1>4 DEF JobFits, UploadFits, Took, Unsettled, UploadSteps, Uploads
<1>7. ASSUME NEW i \in jobs, i # j, i.id = j.id PROVE JobFits(i)'
  <2>1. i.kind \notin Uploads /\ OtherFits(i) /\ JobFits(i)
    BY <1>2, <1>7 DEF FileInv, OneUploadEach, JobFits, Uploads
  <2>2. Pending(i.id)' => Pending(i.id)
    BY <1>4 DEF Pending, Took, Unsettled
  <2> QED BY <1>3, <1>7, <2>1, <2>2 DEF JobFits, OtherFits
<1>8. j.id \in DOMAIN fileRows' => RowFits(j.id)'
  BY <1>2, <1>3 DEF FileInv, RowFits
<1> QED BY <1>5, <1>6, <1>7, <1>8, JobChangeStep

\* Others of the same name, where a request neither becomes pending nor touches
\* what is stored.
LEMMA OthersStay ==
  ASSUME FileInv, NEW j \in jobs, NEW pc, NEW k, Took(j, pc, k), StoresSame,
         pc \notin Unsettled, NEW i \in jobs
  PROVE  JobFits(i)'
<1>1. JobFits(i)
  BY DEF FileInv
<1>2. Pending(i.id)' => Pending(i.id)
  BY DEF Pending, Took
<1>3. CASE i.kind \in Uploads
  BY <1>1, <1>3 DEF JobFits, UploadFits, StoresSame
<1>4. CASE i.kind \notin Uploads
  BY <1>1, <1>2, <1>4 DEF JobFits, OtherFits, StoresSame
<1> QED BY <1>3, <1>4

\* A request moves on and stores nothing.
LEMMA MoveKeeps ==
  ASSUME FileInv, NEW j \in jobs, NEW pc, NEW k, Took(j, pc, k), StoresSame,
         UNCHANGED <<pane, fileJobs>>, pc \notin Unsettled, JobFits(k)'
  PROVE  FileInv'
<1>1. JobChange(j, k)
  BY QuietChange DEF StoresSame, FileInv, StoresFit
<1>2. j.id \in DOMAIN fileRows' => RowFits(j.id)'
  BY DEF StoresSame, FileInv, RowFits
<1> QED BY <1>1, <1>2, OthersStay, JobChangeStep

LEMMA HookKeeps == ASSUME FileInv, NEW j \in jobs, Hook(j) PROVE FileInv'
<1>1. j \in Job /\ JobFits(j) /\ j.pc = "hook"
  BY DEF FileInv, JobFits, Hook
<1>2. StoresSame /\ UNCHANGED <<pane, fileJobs>>
  BY DEF Hook, ScreenSame
<1>3. CASE Step(j, IF j.kind = "upload" THEN "ok" ELSE "unlink")
  <2>1. PICK pc : Step(j, pc) /\ pc = IF j.kind = "upload" THEN "ok" ELSE "unlink"
    BY <1>3
  <2>2. PICK k : Took(j, pc, k) /\ k.excused = j.excused
    BY <1>1, <2>1, StepTook DEF OtherSteps
  <2>3. Pending(k.id)' => Pending(j.id)
    BY <2>1, <2>2 DEF Pending, Took, Unsettled
  <2>4. JobFits(k)'
    <3>1. CASE j.kind \in Uploads
      BY <1>1, <1>2, <2>1, <2>2, <3>1
      DEF JobFits, UploadFits, Took, Unsettled, UploadSteps, StoresSame
    <3>2. CASE j.kind \notin Uploads
      BY <1>1, <1>2, <2>1, <2>2, <2>3, <3>2
      DEF JobFits, OtherFits, Took, OtherSteps, StoresSame, Uploads
    <3> QED BY <3>1, <3>2
  <2> QED BY <1>2, <2>1, <2>2, <2>4, MoveKeeps DEF Unsettled
<1>4. CASE Excused(j, "refused")
  <2>1. PICK k : Took(j, "refused", k) /\ k.excused
    BY <1>1, <1>4, StepTook DEF OtherSteps
  <2>2. JobFits(k)'
    BY <1>1, <1>2, <2>1
    DEF JobFits, UploadFits, OtherFits, Took, Unsettled, UploadSteps, OtherSteps, StoresSame
  <2> QED BY <1>2, <2>1, <2>2, MoveKeeps DEF Unsettled
<1> QED BY <1>3, <1>4 DEF Hook

LEMMA LookKeeps == ASSUME FileInv, NEW j \in jobs, Look(j) PROVE FileInv'
<1>1. j \in Job /\ JobFits(j) /\ j.pc = "read" /\ j.kind \notin Uploads /\ OtherFits(j)
  BY DEF FileInv, JobFits, Look, UploadFits, UploadSteps, Unsettled
<1>2. StoresSame /\ UNCHANGED <<pane, fileJobs>>
  BY DEF Look, ScreenSame
<1>3. PICK pc : /\ Step(j, pc) /\ pc \in {"refused", "stat", "deleteRow"}
                /\ pc # "refused" => j.id \in DOMAIN fileRows
                /\ pc = "deleteRow" /\ j.kind = "consoleDelete" => j.id \notin linked
  BY DEF Look
<1>4. PICK k : Took(j, pc, k) /\ k.excused = j.excused
  BY <1>1, <1>3, StepTook DEF OtherSteps
<1>5. Pending(k.id)' => Pending(j.id)
  BY <1>3, <1>4 DEF Pending, Took, Unsettled
<1>6. JobFits(k)'
  <2>1. CASE pc = "refused"
    BY <1>1, <1>4, <2>1 DEF JobFits, OtherFits, Took, OtherSteps
  <2>2. CASE pc # "refused"
    <3>1. ~Pending(j.id) /\ disk[j.id] # "part"
      BY <1>3, <2>2, RowsAreSettled
    <3> QED BY <1>1, <1>2, <1>3, <1>4, <1>5, <2>2, <3>1
            DEF JobFits, OtherFits, Took, OtherSteps, StoresSame
  <2> QED BY <2>1, <2>2
<1> QED BY <1>2, <1>3, <1>4, <1>6, MoveKeeps DEF Unsettled

\* A row that goes takes nothing from a request but its row.
LEMMA DropsRow ==
  ASSUME FileInv, NEW id \in DOMAIN fileRows, fileRows' = Dropped(id), linked' = linked \ {id}
  PROVE  /\ DOMAIN fileRows' = DOMAIN fileRows \ {id}
         /\ fileRows' = [i \in DOMAIN fileRows' |-> fileRows'[i]]
         /\ \A i \in DOMAIN fileRows' : fileRows'[i] = fileRows[i]
         /\ linked' \subseteq DOMAIN fileRows'
BY DEF Dropped, FileInv, StoresFit

LEMMA DeleteRowKeeps == ASSUME FileInv, NEW j \in jobs, DeleteRowOf(j) PROVE FileInv'
<1>1. /\ j \in Job /\ JobFits(j) /\ j.pc = "deleteRow" /\ j.kind \notin Uploads /\ OtherFits(j)
      /\ j.id \in FileIds /\ ~Pending(j.id) /\ disk[j.id] # "part"
  BY DEF FileInv, JobFits, DeleteRowOf, UploadFits, UploadSteps, Unsettled, OtherFits, Job
<1>2. UNCHANGED <<disk, doubted, pane, fileJobs>>
  BY DEF DeleteRowOf, ScreenSame
<1>3. CASE Step(j, "refused") /\ UNCHANGED <<fileRows, linked>>
  <2>1. PICK k : Took(j, "refused", k) /\ k.excused = j.excused
    BY <1>1, <1>3, StepTook DEF OtherSteps
  <2>2. JobFits(k)'
    BY <1>1, <2>1 DEF JobFits, OtherFits, Took, OtherSteps
  <2>3. StoresSame
    BY <1>2, <1>3 DEF StoresSame
  <2> QED BY <1>2, <2>1, <2>2, <2>3, MoveKeeps DEF Unsettled
<1>4. CASE /\ j.id \in DOMAIN fileRows /\ fileRows' = Dropped(j.id) /\ linked' = linked \ {j.id}
           /\ \/ Step(j, IF j.kind = "remove" THEN "hook" ELSE "unlink")
              \/ Excused(j, "refused")
  <2>1. PICK pc, k : Took(j, pc, k) /\ pc \in {"hook", "unlink", "refused"}
    <3>1. CASE Step(j, IF j.kind = "remove" THEN "hook" ELSE "unlink")
      <4>1. PICK pc : Step(j, pc) /\ pc \in {"hook", "unlink"}
        BY <3>1
      <4> QED BY <1>1, <4>1, StepTook DEF OtherSteps
    <3>2. CASE Excused(j, "refused")
      BY <1>1, <3>2, StepTook DEF OtherSteps
    <3> QED BY <1>4, <3>1, <3>2
  <2>2. /\ DOMAIN fileRows' = DOMAIN fileRows \ {j.id}
        /\ fileRows' = [i \in DOMAIN fileRows' |-> fileRows'[i]]
        /\ \A i \in DOMAIN fileRows' : fileRows'[i] = fileRows[i]
        /\ linked' \subseteq DOMAIN fileRows' /\ linked' \subseteq linked
    BY <1>4, DropsRow
  <2>3. JobChange(j, k)
    BY <1>1, <1>2, <2>1, <2>2 DEF JobChange, Took, FileInv, StoresFit
  <2>4. Pending(j.id)' => Pending(j.id)
    BY <2>1 DEF Pending, Took, Unsettled
  <2>5. JobFits(k)'
    BY <1>1, <1>2, <2>1, <2>2, <2>4 DEF JobFits, OtherFits, Took, OtherSteps
  <2>6. ASSUME NEW i \in jobs, i # j, i.id = j.id PROVE JobFits(i)'
    <3>1. JobFits(i)
      BY DEF FileInv
    <3>2. CASE i.kind \in Uploads
      BY <1>2, <2>2, <2>6, <3>1, <3>2 DEF JobFits, UploadFits
    <3>3. CASE i.kind \notin Uploads
      BY <1>2, <2>2, <2>4, <2>6, <3>1, <3>3 DEF JobFits, OtherFits
    <3> QED BY <3>2, <3>3
  <2> QED BY <2>2, <2>3, <2>5, <2>6, JobChangeStep
<1> QED BY <1>3, <1>4 DEF DeleteRowOf

LEMMA UnlinkKeeps == ASSUME FileInv, NEW j \in jobs, UnlinkBytes(j) PROVE FileInv'
<1>1. /\ j \in Job /\ JobFits(j) /\ j.pc = "unlink" /\ j.kind \notin Uploads /\ OtherFits(j)
      /\ j.id \in FileIds /\ ~Pending(j.id) /\ j.id \notin DOMAIN fileRows
  BY DEF FileInv, JobFits, UnlinkBytes, UploadFits, UploadSteps, Unsettled, OtherFits, Job
<1>2. /\ disk' \in [FileIds -> Bytes] /\ \A i \in FileIds \ {j.id} : disk'[i] = disk[i]
      /\ disk'[j.id] \in {"none", disk[j.id]} /\ UNCHANGED <<fileRows, linked, doubted, pane, fileJobs>>
  BY <1>1 DEF UnlinkBytes, Unlink, ScreenSame, FileInv, StoresFit, Bytes
<1>3. PICK k : Took(j, "ok", k) /\ k.excused = j.excused
  BY <1>1, StepTook DEF UnlinkBytes, OtherSteps
<1>4. JobChange(j, k)
  BY <1>2, <1>3, QuietChange
<1>5. JobFits(k)'
  BY <1>1, <1>2, <1>3 DEF JobFits, OtherFits, Took, OtherSteps
<1>6. ASSUME NEW i \in jobs, i # j, i.id = j.id PROVE JobFits(i)'
  <2>1. JobFits(i)
    BY DEF FileInv
  <2>2. CASE i.kind \in Uploads
    <3>1. i.pc \notin Unsettled
      BY <1>1, <1>6, <2>2 DEF Pending
    <3> QED BY <1>2, <1>6, <2>1, <2>2, <3>1 DEF JobFits, UploadFits, Unsettled
  <2>3. CASE i.kind \notin Uploads
    <3>1. Pending(i.id)' => Pending(i.id)
      BY <1>3 DEF Pending, Took, Unsettled
    <3> QED BY <1>2, <1>6, <2>1, <2>3, <3>1 DEF JobFits, OtherFits
  <2> QED BY <2>2, <2>3
<1> QED BY <1>1, <1>2, <1>4, <1>5, <1>6, JobChangeStep

LEMMA ServeKeeps == ASSUME FileInv, NEW j \in jobs, Serve(j) PROVE FileInv'
<1>1. /\ j \in Job /\ JobFits(j) /\ j.pc \in {"stat", "open"} /\ j.kind \notin Uploads /\ OtherFits(j)
      /\ j.id \in FileIds /\ ~Pending(j.id) /\ disk[j.id] # "part"
  BY DEF FileInv, JobFits, Serve, UploadFits, UploadSteps, Unsettled, OtherFits, Job
<1>2. StoresSame /\ UNCHANGED <<pane, fileJobs>>
  BY DEF Serve, ScreenSame
<1>3. CASE j.pc = "stat"
  <2>1. PICK pc : Step(j, pc) /\ pc \in {"refused", "open"}
    BY <1>3 DEF Serve
  <2>2. PICK k : Took(j, pc, k) /\ k.excused = j.excused
    BY <1>1, <2>1, StepTook DEF OtherSteps
  <2>3. Pending(j.id)' => Pending(j.id)
    BY <2>1, <2>2 DEF Pending, Took, Unsettled
  <2>4. JobFits(k)'
    BY <1>1, <1>2, <2>1, <2>2, <2>3 DEF JobFits, OtherFits, Took, OtherSteps, StoresSame
  <2> QED BY <1>2, <2>1, <2>2, <2>4, MoveKeeps DEF Unsettled
<1>4. CASE j.pc = "open"
  <2>0. PICK k : k = [j EXCEPT !.pc = "ok", !.body = disk[j.id]]
    OBVIOUS
  <2>1. jobs' = (jobs \ {j}) \cup {k}
    BY <1>4, <2>0 DEF Serve
  <2>2. disk[j.id] \in Bytes
    BY <1>1 DEF FileInv, StoresFit
  <2>3. k \in Job
    BY <1>1, <2>0, <2>2 DEF Job, OtherSteps
  <2>4. k.id = j.id /\ k.kind = j.kind /\ k.pc = "ok" /\ k.body = disk[j.id]
    BY <1>1, <2>0 DEF Job
  <2>5. JobFits(k)'
    BY <1>1, <2>3, <2>4 DEF JobFits, OtherFits, OtherSteps
  <2>6. JobChange(j, k)
    BY <1>1, <1>2, <2>1, <2>3, <2>4 DEF JobChange, StoresSame, FileInv, StoresFit
  <2>7. ASSUME NEW i \in jobs PROVE JobFits(i)'
    <3>1. JobFits(i) /\ (Pending(i.id)' => Pending(i.id))
      BY <2>1, <2>4 DEF FileInv, Pending, Unsettled
    <3> QED BY <1>2, <3>1 DEF JobFits, UploadFits, OtherFits, StoresSame
  <2>8. j.id \in DOMAIN fileRows' => RowFits(j.id)'
    BY <1>2 DEF StoresSame, FileInv, RowFits
  <2> QED BY <2>5, <2>6, <2>7, <2>8, JobChangeStep
<1> QED BY <1>1, <1>3, <1>4

\* A request that comes, when what it fits is known and no upload of its name is there.
LEMMA StartKeeps ==
  ASSUME FileInv, NEW kind \in Kinds, NEW id \in FileIds, NEW pc \in UploadSteps \cup OtherSteps,
         Start(kind, id, pc), PaneFits',
         kind \notin Uploads => pc = "read",
         kind \in Uploads => pc = "put" /\ id \notin Used
  PROVE  FileInv'
<1>1. PICK k : k = [n |-> fileJobs', kind |-> kind, id |-> id, pc |-> pc,
                    late |-> FALSE, excused |-> FALSE, body |-> "none"]
  OBVIOUS
<1>2. /\ jobs' = jobs \cup {k} /\ fileJobs' = fileJobs + 1 /\ UNCHANGED <<disk, fileRows, linked, doubted>>
  BY <1>1 DEF Start
<1>3. /\ k \in Job /\ k.kind = kind /\ k.id = id /\ k.pc = pc /\ k.body = "none" /\ ~k.excused
  <2>1. fileJobs' \in Nat /\ "none" \in Bytes
    BY <1>2 DEF FileInv, StoresFit, Bytes
  <2> QED BY <1>1, <2>1 DEF Job
<1>4. JobFits(k)'
  <2>1. CASE kind \in Uploads
    BY <1>2, <1>3, <2>1 DEF JobFits, UploadFits, UploadSteps, Unsettled, Used
  <2>2. CASE kind \notin Uploads
    BY <1>2, <1>3, <2>2 DEF JobFits, OtherFits, OtherSteps
  <2> QED BY <2>1, <2>2
<1>5. ASSUME NEW i \in jobs PROVE JobFits(i)'
  <2>1. JobFits(i)
    BY DEF FileInv
  <2>2. CASE i.kind \in Uploads
    BY <1>2, <2>1, <2>2 DEF JobFits, UploadFits
  <2>3. CASE i.kind \notin Uploads
    <3>1. kind \in Uploads => i.id # id
      BY DEF Used
    <3>2. Pending(i.id)' => Pending(i.id)
      BY <1>2, <1>3, <3>1 DEF Pending
    <3> QED BY <1>2, <2>1, <2>3, <3>2 DEF JobFits, OtherFits
  <2> QED BY <2>2, <2>3
<1>6. OneUploadEach'
  BY <1>2, <1>3 DEF FileInv, OneUploadEach, Used
<1>7. (\A i \in jobs : JobFits(i))'
  BY <1>2, <1>4, <1>5
<1>8. (\A i \in DOMAIN fileRows : RowFits(i))' /\ StoresFit'
  BY <1>2 DEF FileInv, RowFits, StoresFit
<1> QED BY <1>6, <1>7, <1>8 DEF FileInv

LEMMA SendKeeps == ASSUME FileInv, SendUpload \/ SendRemoval \/ SendServe PROVE FileInv'
<1>1. CASE SendUpload
  BY <1>1, StartKeeps DEF SendUpload, FileInv, PaneFits, UploadSteps, Unsettled, Kinds
<1>2. CASE SendRemoval
  BY <1>2, StartKeeps DEF SendRemoval, FileInv, StoresFit, PaneFits, OtherSteps, Kinds, Uploads
<1>3. CASE SendServe
  BY <1>3, StartKeeps DEF SendServe, FileInv, PaneFits, OtherSteps, Kinds, Uploads
<1> QED BY <1>1, <1>2, <1>3

\* The pane is replaced by one that shows rows of the list it has, or of a new one.
LEMMA PaneRecord ==
  ASSUME PaneFits
  PROVE  /\ DOMAIN pane = {"listed", "file", "title", "asked"}
         /\ \A asked : [pane EXCEPT !.asked = asked] = [listed |-> pane.listed, file |-> pane.file,
                                                        title |-> pane.title, asked |-> asked]
         /\ \A title : [pane EXCEPT !.title = title] = [listed |-> pane.listed, file |-> pane.file,
                                                        title |-> title, asked |-> pane.asked]
         /\ \A rows, asked : [pane EXCEPT !.listed = rows, !.asked = asked] =
                [listed |-> rows, file |-> pane.file, title |-> pane.title, asked |-> asked]
<1>1. pane = [listed |-> pane.listed, file |-> pane.file, title |-> pane.title, asked |-> pane.asked]
  BY DEF PaneFits
<1>2. DOMAIN pane = {"listed", "file", "title", "asked"}
  BY <1>1
<1>3. ASSUME NEW rows, NEW asked
      PROVE  [pane EXCEPT !.listed = rows, !.asked = asked] =
               [listed |-> rows, file |-> pane.file, title |-> pane.title, asked |-> asked]
  <2> DEFINE k == [pane EXCEPT !.listed = rows, !.asked = asked]
  <2>1. k = [f \in {"listed", "file", "title", "asked"} |-> k[f]]
    BY <1>2
  <2>2. k.listed = rows /\ k.file = pane.file /\ k.title = pane.title /\ k.asked = asked
    BY <1>2
  <2> HIDE DEF k
  <2>3. k = [listed |-> rows, file |-> pane.file, title |-> pane.title, asked |-> asked]
    BY <2>1, <2>2
  <2> QED BY <2>3 DEF k
<1>4. ASSUME NEW asked
      PROVE  [pane EXCEPT !.asked = asked] =
               [listed |-> pane.listed, file |-> pane.file, title |-> pane.title, asked |-> asked]
  BY <1>2
<1>5. ASSUME NEW title
      PROVE  [pane EXCEPT !.title = title] =
               [listed |-> pane.listed, file |-> pane.file, title |-> title, asked |-> pane.asked]
  BY <1>2
<1> QED BY <1>2, <1>3, <1>4, <1>5

LEMMA AskDeleteKeeps == ASSUME FileInv, AskDelete PROVE FileInv'
<1>1. PICK row \in pane.file : Start("consoleDelete", row.id, "read")
  BY DEF AskDelete
<1>2. row \in Row /\ row.id \in FileIds
  BY DEF FileInv, PaneFits, Row
<1>3. pane' = [listed |-> pane.listed, file |-> pane.file, title |-> pane.title, asked |-> TRUE]
  BY PaneRecord DEF AskDelete, FileInv
<1>4. PaneFits'
  BY <1>3 DEF FileInv, PaneFits
<1> QED BY <1>1, <1>2, <1>4, StartKeeps DEF OtherSteps, Kinds, Uploads

\* The steps that leave requests and stores alone.
LEMMA PaneKeeps ==
  ASSUME FileInv, UNCHANGED <<disk, fileRows, linked, jobs, doubted, fileJobs>>, PaneFits'
  PROVE  FileInv'
BY DEF FileInv, StoresFit, JobFits, UploadFits, OtherFits, Pending, OneUploadEach, RowFits

LEMMA ScreenKeeps ==
  ASSUME FileInv, TypeTitle \/ FilesListed \/ \E id \in FileIds : OpenFile(id)
  PROVE  FileInv'
<1>1. CASE TypeTitle
  <2>1. PICK row \in pane.file : pane' = [pane EXCEPT !.title = row.id]
    BY <1>1 DEF TypeTitle
  <2>2. pane' = [listed |-> pane.listed, file |-> pane.file, title |-> row.id, asked |-> pane.asked]
    BY <2>1, PaneRecord DEF FileInv
  <2>3. row \in Row /\ pane.file = {row} /\ row.id \in FileIds
    BY <2>1 DEF FileInv, PaneFits, Row
  <2>4. PaneFits'
    BY <2>2, <2>3 DEF FileInv, PaneFits, Titles
  <2> QED BY <1>1, <2>4, PaneKeeps DEF TypeTitle
<1>2. CASE FilesListed
  <2>1. /\ DOMAIN Snapshot = DOMAIN fileRows
        /\ \A id \in DOMAIN Snapshot : /\ Snapshot[id] \in Row /\ Snapshot[id].id = id
                                       /\ Snapshot[id].title \in {Untitled, id}
    BY DEF Snapshot, Row, FileInv, RowFits, StoresFit, Titles
  <2> DEFINE current == {Snapshot[id] : id \in {row.id : row \in pane.file} \cap DOMAIN Snapshot}
             listed == [pane EXCEPT !.listed = Snapshot, !.asked = FALSE]
  <2>2. listed = [listed |-> Snapshot, file |-> pane.file, title |-> pane.title, asked |-> FALSE]
    BY PaneRecord DEF FileInv
  <2>3. \A row \in current : row \in Row /\ row.title \in {Untitled, row.id} /\ row.title \in Titles
    BY <2>1 DEF Row
  <2>4. UNCHANGED <<fileRows, linked>> /\ Snapshot' = Snapshot
    BY <1>2 DEF FilesListed, Snapshot
  <2>5. \/ pane' = listed
        \/ \E row \in current : pane' = [listed EXCEPT !.file = {row}, !.title = row.title]
    BY <1>2 DEF FilesListed
  <2> HIDE DEF current
  <2>6. ASSUME pane' = listed PROVE PaneFits'
    BY <2>1, <2>2, <2>6 DEF FileInv, PaneFits, StoresFit
  <2>7. ASSUME NEW row \in current, pane' = [listed EXCEPT !.file = {row}, !.title = row.title]
        PROVE  PaneFits'
    <3>1. pane' = [listed |-> Snapshot, file |-> {row}, title |-> row.title, asked |-> FALSE]
      BY <2>2, <2>7
    <3> QED BY <2>1, <2>3, <2>7, <3>1 DEF FileInv, PaneFits, StoresFit
  <2>8. PaneFits'
    BY <2>5, <2>6, <2>7, <2>1 DEF FileInv, PaneFits
  <2> QED BY <1>2, <2>8, PaneKeeps DEF FilesListed, fileBounds
<1>3. ASSUME NEW id \in FileIds, OpenFile(id) PROVE FileInv'
  <2>1. id \in DOMAIN pane.listed /\ pane' = Shows(pane.listed[id])
    BY <1>3 DEF OpenFile
  <2>2. pane' = [listed |-> pane.listed, file |-> {pane.listed[id]},
                 title |-> pane.listed[id].title, asked |-> pane.asked]
    BY <2>1 DEF Shows, FileInv, PaneFits
  <2>3. pane.listed[id] \in Row /\ pane.listed[id].title \in {Untitled, pane.listed[id].id}
        /\ pane.listed[id].title \in Titles
    BY <2>1 DEF FileInv, PaneFits, Row
  <2>4. PaneFits'
    BY <2>2, <2>3 DEF FileInv, PaneFits
  <2> QED BY <1>3, <2>4, PaneKeeps DEF OpenFile
<1> QED BY <1>1, <1>2, <1>3

LEMMA SaveTitleKeeps == ASSUME FileInv, SaveTitle PROVE FileInv'
<1>1. PICK row \in pane.file :
        /\ row.id \in DOMAIN fileRows /\ fileRows' = [fileRows EXCEPT ![row.id] = pane.title]
        /\ pane' = [pane EXCEPT !.asked = TRUE]
        /\ UNCHANGED <<disk, linked, jobs, doubted, fileJobs, fileFaults>>
  BY DEF SaveTitle
<1>2. row \in Row /\ pane.title \in {Untitled, row.id}
  BY DEF FileInv, PaneFits
<1>3. /\ DOMAIN fileRows' = DOMAIN fileRows /\ fileRows' = [i \in DOMAIN fileRows' |-> fileRows'[i]]
      /\ \A i \in DOMAIN fileRows : fileRows'[i] \in {fileRows[i], pane.title}
                                    /\ (i # row.id => fileRows'[i] = fileRows[i])
  BY <1>1 DEF FileInv, StoresFit
<1>4. pane' = [listed |-> pane.listed, file |-> pane.file, title |-> pane.title, asked |-> TRUE]
  BY <1>1, PaneRecord DEF FileInv
<1>5. PaneFits'
  BY <1>4 DEF FileInv, PaneFits
<1>6. (\A i \in DOMAIN fileRows : RowFits(i))'
  BY <1>1, <1>2, <1>3 DEF FileInv, RowFits
<1>7. (\A i \in jobs : JobFits(i))' /\ OneUploadEach'
  BY <1>1, <1>3 DEF FileInv, JobFits, UploadFits, OtherFits, Pending, OneUploadEach
<1>8. StoresFit'
  BY <1>1, <1>3 DEF FileInv, StoresFit
<1> QED BY <1>5, <1>6, <1>7, <1>8 DEF FileInv

\* A request for that file that has looked for references.
Looked(j, id) == j.id = id /\ j.pc = "deleteRow"

LEMMA LinkKeeps == ASSUME FileInv, NEW id \in FileIds, LinkFile(id) PROVE FileInv'
<1>1. id \in DOMAIN fileRows /\ UNCHANGED <<disk, fileRows, pane, doubted, fileJobs>>
  BY DEF LinkFile
<1>2. StoresFit' /\ (\A i \in DOMAIN fileRows : RowFits(i))' /\ PaneFits'
  BY <1>1 DEF FileInv, StoresFit, RowFits, PaneFits, LinkFile
<1>3. CASE id \in linked
  <2>1. linked' = linked \ {id} /\ UNCHANGED jobs
    BY <1>3 DEF LinkFile
  <2>2. (\A i \in jobs : JobFits(i))' /\ OneUploadEach'
    BY <1>1, <2>1 DEF FileInv, JobFits, UploadFits, OtherFits, Pending, OneUploadEach
  <2> QED BY <1>2, <2>2 DEF FileInv
<1>4. CASE id \notin linked
  <2>1. linked' = linked \cup {id} /\ jobs' = {[j EXCEPT !.late = @ \/ Looked(j, id)] : j \in jobs}
    BY <1>4 DEF LinkFile, Looked
  <2>2. ASSUME NEW k \in jobs'
        PROVE  \E j \in jobs : /\ k \in Job /\ k.id = j.id /\ k.kind = j.kind /\ k.pc = j.pc
                               /\ k.body = j.body /\ k.excused = j.excused
                               /\ (k.late <=> j.late \/ Looked(j, id))
                               /\ k = [j EXCEPT !.late = @ \/ Looked(j, id)]
    <3>1. PICK j \in jobs : k = [j EXCEPT !.late = @ \/ Looked(j, id)]
      BY <2>1
    <3>2. j \in Job
      BY DEF FileInv, JobFits
    <3>3. Looked(j, id) \in BOOLEAN
      BY DEF Looked
    <3> QED BY <3>1, <3>2, <3>3 DEF Job
  <2>3. \A i : Pending(i)' => Pending(i)
    BY <2>2 DEF Pending
  <2>4. ASSUME NEW k \in jobs' PROVE JobFits(k)'
    <3>1. PICK j \in jobs : /\ k \in Job /\ k.id = j.id /\ k.kind = j.kind /\ k.pc = j.pc
                            /\ k.body = j.body /\ k.excused = j.excused /\ (k.late <=> j.late \/ Looked(j, id))
      BY <2>2
    <3>2. JobFits(j)
      BY DEF FileInv
    <3>3. CASE k.kind \in Uploads
      BY <1>1, <2>1, <3>1, <3>2, <3>3 DEF JobFits, UploadFits
    <3>4. CASE k.kind \notin Uploads
      BY <1>1, <2>1, <2>3, <3>1, <3>2, <3>4 DEF JobFits, OtherFits, Looked
    <3> QED BY <3>3, <3>4
  <2>5. OneUploadEach'
    BY <2>2 DEF FileInv, OneUploadEach
  <2> QED BY <1>2, <2>4, <2>5 DEF FileInv
<1> QED BY <1>3, <1>4

LEMMA DeleteRecordKeeps == ASSUME FileInv, NEW id \in FileIds, DeleteRecord(id) PROVE FileInv'
<1>1. /\ id \in DOMAIN fileRows /\ fileRows' = Dropped(id) /\ linked' = linked \ {id}
      /\ UNCHANGED <<disk, jobs, pane, doubted, fileJobs>>
  BY DEF DeleteRecord
<1>2. /\ DOMAIN fileRows' = DOMAIN fileRows \ {id}
      /\ fileRows' = [i \in DOMAIN fileRows' |-> fileRows'[i]]
      /\ \A i \in DOMAIN fileRows' : fileRows'[i] = fileRows[i]
      /\ linked' \subseteq DOMAIN fileRows'
  BY <1>1, DropsRow
<1>3. (\A i \in jobs : JobFits(i))' /\ OneUploadEach'
  <2>1. ASSUME NEW i \in jobs PROVE JobFits(i)'
    <3>1. JobFits(i)
      BY DEF FileInv
    <3>2. CASE i.kind \in Uploads
      BY <1>1, <1>2, <3>1, <3>2 DEF JobFits, UploadFits
    <3>3. CASE i.kind \notin Uploads
      BY <1>1, <1>2, <3>1, <3>3 DEF JobFits, OtherFits, Pending
    <3> QED BY <3>2, <3>3
  <2> QED BY <1>1, <2>1 DEF FileInv, OneUploadEach
<1>4. (\A i \in DOMAIN fileRows : RowFits(i))' /\ StoresFit' /\ PaneFits'
  BY <1>1, <1>2 DEF FileInv, RowFits, StoresFit, PaneFits
<1> QED BY <1>3, <1>4 DEF FileInv

LEMMA CrashKeeps == ASSUME FileInv, NEW kinds, CrashOf(kinds) PROVE FileInv'
<1>1. jobs' \subseteq jobs /\ UNCHANGED <<disk, fileRows, linked, pane, doubted, fileJobs>>
  BY DEF CrashOf
<1>2. (\A i \in jobs : JobFits(i))' /\ OneUploadEach'
  BY <1>1 DEF FileInv, JobFits, UploadFits, OtherFits, Pending, OneUploadEach
<1> QED BY <1>1, <1>2 DEF FileInv, StoresFit, RowFits, PaneFits

LEMMA FileStep == FileInv /\ [FileNext]_fileVars => FileInv'
<1> SUFFICES ASSUME FileInv, [FileNext]_fileVars PROVE FileInv'
  OBVIOUS
<1>1. CASE UNCHANGED fileVars
  BY <1>1, PaneKeeps DEF fileVars, FileInv, PaneFits
<1>2. ASSUME NEW j \in jobs,
             \/ PutBegins(j) \/ PutEnds(j) \/ InsertFile(j) \/ TakeBack(j) \/ Hook(j)
             \/ Look(j) \/ DeleteRowOf(j) \/ UnlinkBytes(j) \/ Serve(j)
      PROVE  FileInv'
  BY <1>2, PutBeginsKeeps, PutEndsKeeps, InsertKeeps, TakeBackKeeps, HookKeeps, LookKeeps,
     DeleteRowKeeps, UnlinkKeeps, ServeKeeps
<1>3. ASSUME NEW id \in FileIds, LinkFile(id) \/ DeleteRecord(id) \/ OpenFile(id) PROVE FileInv'
  BY <1>3, LinkKeeps, DeleteRecordKeeps, ScreenKeeps
<1> QED BY <1>1, <1>2, <1>3, SendKeeps, ScreenKeeps, SaveTitleKeeps, AskDeleteKeeps, CrashKeeps DEF FileNext

\* Who looked and found no reference deletes a referenced row only if the reference is late.
LEMMA DeletesAreLate == FileInv => DeletesSpareTheLinked
BY DEF FileInv, JobFits, OtherFits, Uploads, DeletesSpareTheLinked

-----------------------------------------------------------------------------
(* View definitions.                                                       *)

Draft == [name : ViewNames, source : Doc, on : SUBSET Candidates, title : Headings,
          labels : SUBSET ViewForeign, implicit : BOOLEAN, edits : SUBSET (Candidates \cup {"title"})]

\* What the builder checks of a definition, and the displays it holds for it.
OnAtFirst(def) == IF def.fields = {} THEN Candidates ELSE Listed(def)
LabelsOf(def) == (def.labels \cap Listed(def)) \cup (ViewForeign \ Listed(def))

\* What was not edited is as it was opened.
DraftFits(d) ==
  /\ d \in Draft /\ d.labels = LabelsOf(d.source)
  /\ "title" \notin d.edits => d.title = d.source.title
  /\ \A c \in Candidates \ d.edits : c \in d.on <=> c \in OnAtFirst(d.source)

ViewJob == [n : 1..MaxViewJobs, kind : Readers \cup Writers \cup {"new", "drop"}, name : ViewNames,
            pc : {"read", "swap", "truncate", "fill", "unlink", "done"}, tries : 0..3,
            def : Doc, draft : SUBSET Draft, answer : {"none", "ok", "absent", "broken", "refused"}]

\* A save carries the draft it was made from; a reader who met no document met a
\* name that had none.
ViewJobFits(j) ==
  /\ j \in ViewJob
  /\ IF j.kind = "save" THEN \E d \in Draft : /\ DraftFits(d) /\ j.draft = {d}
                                              /\ j.def = Pruned(Definition(d))
     ELSE j.draft = {}
  /\ j.kind \in Readers => /\ j.answer = "absent" => j.name \in missing
                           /\ j.answer = "broken" => j.name \in torn

DirFits ==
  /\ dir \in [ViewNames -> [at : {"none", "part", "whole"}, doc : Doc]]
  /\ \A n \in ViewNames : /\ dir[n].at = "none" => n \in missing
                          /\ dir[n].at = "part" => n \in torn

BuilderFits ==
  /\ builder = [draft |-> builder.draft, saved |-> builder.saved, busy |-> builder.busy,
                views |-> builder.views, refreshing |-> builder.refreshing]
  /\ \A d \in builder.draft : DraftFits(d)
  /\ builder.draft = {} => builder.saved = {}
  /\ builder.saved \subseteq Doc /\ builder.views \subseteq ViewNames

\* The builder waits for one save or delete at a time, and keeps its draft meanwhile.
Awaited == {"save", "drop"}
OneWrite ==
  /\ \A i, j \in viewJobs : i.kind \in Awaited /\ j.kind \in Awaited => i = j
  /\ (\E j \in viewJobs : j.kind \in Awaited) => builder.busy /\ builder.draft # {}

\* The inductive invariant of the views.
ViewInv ==
  /\ viewSent \in 0..MaxViewJobs /\ DirFits /\ BuilderFits /\ OneWrite
  /\ \A j \in viewJobs : ViewJobFits(j)

LEMMA ViewTyped == ViewInv => ViewTypeOK /\ ReadersGetWholeDocuments
<1> SUFFICES ASSUME ViewInv PROVE ViewTypeOK /\ ReadersGetWholeDocuments
  OBVIOUS
<1>1. ASSUME NEW j \in viewJobs PROVE Cardinality(j.draft) = IF j.kind = "save" THEN 1 ELSE 0
  BY SmallSets DEF ViewInv, ViewJobFits
<1>2. ViewTypeOK
  BY <1>1 DEF ViewInv, DirFits, BuilderFits, ViewJobFits, ViewJob, DraftFits, Draft, ViewTypeOK
<1> QED BY <1>2 DEF ViewInv, ViewJobFits, ReadersGetWholeDocuments

\* Documents the builder makes.
LEMMA Documents ==
  /\ Proposed \in Doc
  /\ \A d \in Draft : Definition(d) \in Doc /\ Pruned(Definition(d)) \in Doc
<1>1. Proposed \in Doc
  BY ViewAssumption DEF ViewAssumption, Proposed, Doc, Headings
<1>2. ASSUME NEW d \in Draft PROVE Definition(d) \in Doc /\ Pruned(Definition(d)) \in Doc
  <2>1. /\ d.on \in SUBSET Candidates /\ d.title \in Headings /\ d.labels \cap d.on \in SUBSET ViewForeign
        /\ (IF d.source.sort \in d.on THEN d.source.sort ELSE "") \in ViewColumns \cup {""}
    BY DEF Draft, Doc
  <2>2. Definition(d) \in Doc
    BY <2>1 DEF Definition, Doc
  <2>3. Definition(d).fields = {d.on} /\ Definition(d).title = d.title
    BY DEF Definition
  <2>4. {d.on} \ {{}} \in {{}} \cup {{s} : s \in SUBSET Candidates}
    BY <2>1
  <2>5. (IF d.title = "std" THEN "" ELSE d.title) \in Headings
    BY <2>1 DEF Headings
  <2>6. Pruned(Definition(d)) \in Doc
    BY <2>2, <2>3, <2>4, <2>5 DEF Pruned, Doc
  <2> QED BY <2>2, <2>6
<1> QED BY <1>1, <1>2

\* Opening a definition edits nothing.
LEMMA DraftedFits ==
  ASSUME NEW name \in ViewNames, NEW def \in Doc
  PROVE  DraftFits(Drafted(name, def))
<1>1. Listed(def) \subseteq Candidates /\ def.labels \subseteq ViewForeign
  BY DEF Listed, Doc
<1>2. def.title \in Headings
  BY DEF Doc
<1>3. PICK d : d = Drafted(name, def)
  OBVIOUS
<1>4. /\ d.on = OnAtFirst(def) /\ d.labels = LabelsOf(def) /\ d.edits = {} /\ d.title = def.title
      /\ d.source = def
  BY <1>3 DEF Drafted, Opened, OnAtFirst, LabelsOf, Proposed
<1>5. OnAtFirst(def) \in SUBSET Candidates /\ LabelsOf(def) \in SUBSET ViewForeign
  BY <1>1 DEF OnAtFirst, LabelsOf
<1>6. d \in Draft
  <2>1. d = [name |-> name, source |-> def, title |-> def.title, implicit |-> def.fields = {},
             on |-> OnAtFirst(def), labels |-> LabelsOf(def), edits |-> {}]
    BY <1>3 DEF Drafted, Opened, OnAtFirst, LabelsOf, Proposed
  <2> QED BY <1>2, <1>5, <2>1 DEF Draft
<1> QED BY <1>3, <1>4, <1>6 DEF DraftFits

\* What a document shows is what was shown before the draft, but for its edits and
\* for what the builder proposes to a view that listed nothing.
ShowsTheRest(d, doc) ==
  LET old == Resolved(d.source)
      new == Resolved(doc)
      listedNone == d.source.fields = {}
  IN /\ "title" \notin d.edits => new.title = old.title
     /\ d.on # {} =>
          /\ \A c \in ViewColumns \ d.edits : c \in new.fields <=> c \in old.fields
          /\ \A c \in ViewLinks \ d.edits : c \in new.fields <=> c \in old.fields \/ listedNone
          /\ \A c \in (ViewForeign \cap new.fields) \ d.edits :
               c \in new.labels <=> c \in old.labels \/ listedNone
     /\ old.sort \in new.fields /\ d.on # {} => new.sort = old.sort

LEMMA SavedShowsTheRest ==
  ASSUME NEW d \in Draft, DraftFits(d)
  PROVE  ShowsTheRest(d, Pruned(Definition(d)))
<1>1. PICK def : def = Pruned(Definition(d))
  OBVIOUS
<1>2. /\ def.fields = {d.on} \ {{}} /\ def.title = (IF d.title = "std" THEN "" ELSE d.title)
      /\ def.sort = (IF d.source.sort \in d.on THEN d.source.sort ELSE "")
      /\ def.labels = d.labels \cap d.on
  BY <1>1 DEF Pruned, Definition
<1>3. d.on # {} => Listed(def) = d.on /\ Resolved(def).fields = d.on /\ Resolved(def).labels = d.labels \cap d.on
  BY <1>2 DEF Resolved, Listed
<1>4. "title" \notin d.edits => Resolved(def).title = Resolved(d.source).title
  BY <1>2 DEF Resolved, DraftFits
<1>5. Resolved(def).sort = def.sort /\ Resolved(d.source).sort = d.source.sort
  BY DEF Resolved
<1>6. /\ Resolved(d.source).fields = (IF d.source.fields = {} THEN ViewColumns ELSE Listed(d.source))
      /\ Resolved(d.source).labels = d.source.labels \cap Listed(d.source)
  BY DEF Resolved
<1>7. ASSUME d.on # {}, NEW c \in ViewColumns \ d.edits
      PROVE  c \in Resolved(def).fields <=> c \in Resolved(d.source).fields
  BY <1>3, <1>6, <1>7 DEF DraftFits, OnAtFirst, Candidates
<1>8. ASSUME d.on # {}, NEW c \in ViewLinks \ d.edits
      PROVE  c \in Resolved(def).fields <=> c \in Resolved(d.source).fields \/ d.source.fields = {}
  BY <1>3, <1>6, <1>8 DEF DraftFits, OnAtFirst, Candidates
<1>9. ASSUME d.on # {}, NEW c \in (ViewForeign \cap Resolved(def).fields) \ d.edits
      PROVE  c \in Resolved(def).labels <=> c \in Resolved(d.source).labels \/ d.source.fields = {}
  <2>1. c \in d.on /\ c \in Candidates
    BY <1>3, <1>9, ViewAssumption DEF ViewAssumption, Candidates
  <2>2. c \in OnAtFirst(d.source)
    BY <1>9, <2>1 DEF DraftFits
  <2>3. c \in Resolved(def).labels <=> c \in LabelsOf(d.source)
    BY <1>3, <1>9, <2>1 DEF DraftFits
  <2>4. CASE d.source.fields = {}
    <3>1. Listed(d.source) = {}
      BY <2>4 DEF Listed
    <3> QED BY <1>9, <2>3, <2>4, <3>1 DEF LabelsOf
  <2>5. CASE d.source.fields # {}
    BY <1>6, <2>2, <2>3, <2>5 DEF OnAtFirst, LabelsOf
  <2> QED BY <2>4, <2>5
<1>10. Resolved(d.source).sort \in Resolved(def).fields /\ d.on # {} => Resolved(def).sort = Resolved(d.source).sort
  BY <1>2, <1>3, <1>5
<1> QED BY <1>1, <1>4, <1>7, <1>8, <1>9, <1>10 DEF ShowsTheRest

\* The first of a set of numbers.
LEMMA Least ==
  ASSUME NEW T \in SUBSET Nat, T # {}
  PROVE  \E n \in T : \A m \in T : n <= m
<1>1. IsWellFoundedOn(OpToRel(<, Nat), Nat)
  BY NatLessThanWellFounded
<1>2. \A m, n \in Nat : m < n => <<m, n>> \in OpToRel(<, Nat)
  BY DEF OpToRel
<1>3. PICK R : IsWellFoundedOn(R, Nat) /\ \A m, n \in Nat : m < n => <<m, n>> \in R
  BY <1>1, <1>2
<1>4. PICK n \in T : \A m \in T : ~(<<m, n>> \in R)
  <2>1. IsWellFoundedOn(R, Nat)
    BY <1>3
  <2>2. \E n \in T : \A m \in T : ~(<<m, n>> \in R)
    BY <2>1, WFMin
  <2> QED BY <2>2
<1>5. ASSUME NEW m \in T PROVE n <= m
  <2>1. m \in Nat /\ n \in Nat
    OBVIOUS
  <2>2. ~(m < n)
    BY <1>3, <1>4, <2>1
  <2> QED BY <2>1, <2>2
<1> QED BY <1>5

\* There is a first name of a list that is in a set of them, and it is in the set.
LEMMA FirstIsOneOfThem ==
  ASSUME NEW names \in SUBSET ViewNames, names # {}
  PROVE  FirstOf(names) \in names
<1> DEFINE At == {i \in DOMAIN ViewOrder : ViewOrder[i] \in names}
<1>1. Len(ViewOrder) \in Nat /\ DOMAIN ViewOrder = 1..Len(ViewOrder) /\ DOMAIN ViewOrder \subseteq Nat
  <2>1. ViewOrder \in Seq(ToSet(ViewOrder))
    BY ViewAssumption DEF ViewAssumption
  <2> HIDE DEF At
  <2>2. Len(ViewOrder) \in Nat /\ DOMAIN ViewOrder = 1..Len(ViewOrder)
    BY <2>1
  <2> QED BY <2>2
<1>2. At # {} /\ At \in SUBSET Nat
  BY <1>1 DEF ViewNames, ToSet
<1>3. PICK i \in At : \A k \in At : i <= k
  BY <1>2, Least
<1>4. \A k \in 1..(i - 1) : ViewOrder[k] \notin names
  <2>1. ASSUME NEW k \in 1..(i - 1), ViewOrder[k] \in names PROVE FALSE
    <3>1. k \in 1..Len(ViewOrder) /\ k < i
      BY <1>1
    <3> QED BY <1>1, <1>3, <2>1, <3>1
  <2> QED BY <2>1
<1> QED BY <1>3, <1>4 DEF FirstOf

\* A request takes a step on the server.
ViewMove(j, k) ==
  /\ j \in viewJobs /\ viewJobs' = (viewJobs \ {j}) \cup {k} /\ UNCHANGED <<builder, viewSent>>
  /\ k \in ViewJob /\ k.kind = j.kind /\ k.name = j.name /\ k.draft = j.draft
  /\ j.kind = "save" => k.def = j.def
  /\ torn \subseteq torn' /\ missing \subseteq missing'

LEMMA ViewMoveKeeps ==
  ASSUME ViewInv, NEW j, NEW k, ViewMove(j, k), DirFits',
         k.kind \in Readers => /\ k.answer = "absent" => k.name \in missing'
                               /\ k.answer = "broken" => k.name \in torn'
  PROVE  ViewInv'
<1>1. ASSUME NEW i \in viewJobs PROVE ViewJobFits(i)'
  BY DEF ViewInv, ViewJobFits, ViewMove
<1>2. ViewJobFits(k)'
  <2>1. ViewJobFits(j)
    BY DEF ViewInv, ViewMove
  <2> QED BY <2>1 DEF ViewJobFits, ViewMove
<1>3. OneWrite'
  BY DEF ViewInv, OneWrite, ViewMove
<1>4. BuilderFits'
  BY DEF ViewInv, BuilderFits, ViewMove
<1> QED BY <1>1, <1>2, <1>3, <1>4 DEF ViewInv, ViewMove

LEMMA ReadKeeps == ASSUME ViewInv, NEW j \in viewJobs, ReadView(j) PROVE ViewInv'
<1>1. j \in ViewJob /\ j.kind \in Readers /\ j.name \in ViewNames /\ ViewJobFits(j)
  BY DEF ViewInv, ViewJobFits, ViewJob, ReadView
<1>2. /\ UNCHANGED <<dir, torn, missing, builder, viewSent>> /\ DirFits'
  BY DEF ReadView, DiskSame, BuilderSame, ViewInv, DirFits
<1>3. ASSUME NEW k, Move(j, k), k \in ViewJob, k.kind = j.kind, k.name = j.name, k.draft = j.draft
      PROVE  ViewMove(j, k)
  BY <1>1, <1>2, <1>3 DEF ViewMove, Move, Readers
<1>4. ASSUME NEW answer \in {"absent", "broken"}, Move(j, [j EXCEPT !.pc = "done", !.answer = answer]),
             IF answer = "absent" THEN j.name \in missing ELSE j.name \in torn
      PROVE  ViewInv'
  <2>1. PICK k : k = [j EXCEPT !.pc = "done", !.answer = answer]
    OBVIOUS
  <2>2. k \in ViewJob /\ k.kind = j.kind /\ k.name = j.name /\ k.draft = j.draft /\ k.answer = answer
    BY <1>1, <1>4, <2>1 DEF ViewJob
  <2>3. ViewMove(j, k)
    BY <1>3, <1>4, <2>1, <2>2
  <2> QED BY <1>2, <1>4, <2>2, <2>3, ViewMoveKeeps
<1>5. CASE dir[j.name].at = "none" /\ Move(j, [j EXCEPT !.pc = "done", !.answer = "absent"])
  BY <1>1, <1>4, <1>5 DEF ViewInv, DirFits
<1>6. CASE /\ dir[j.name].at = "whole"
           /\ Move(j, [j EXCEPT !.pc = "done", !.answer = "ok",
                                !.def = IF j.kind = "open" THEN dir[j.name].doc ELSE @])
  <2>1. PICK def : def = IF j.kind = "open" THEN dir[j.name].doc ELSE j.def
    OBVIOUS
  <2>2. PICK k : k = [j EXCEPT !.pc = "done", !.answer = "ok", !.def = def]
    OBVIOUS
  <2>3. def \in Doc
    BY <1>1, <2>1 DEF ViewJob, ViewInv, DirFits
  <2>4. k \in ViewJob /\ k.kind = j.kind /\ k.name = j.name /\ k.draft = j.draft /\ k.answer = "ok"
    BY <1>1, <2>2, <2>3 DEF ViewJob
  <2>5. Move(j, k)
    BY <1>6, <2>1, <2>2
  <2> QED BY <1>2, <1>3, <2>4, <2>5, ViewMoveKeeps
<1>7. CASE j.tries < 3 /\ Move(j, [j EXCEPT !.tries = @ + 1])
  <2>1. PICK k : k = [j EXCEPT !.tries = @ + 1]
    OBVIOUS
  <2>2. j.tries + 1 \in 0..3
    BY <1>1, <1>7 DEF ViewJob
  <2>3. /\ k \in ViewJob /\ k.kind = j.kind /\ k.name = j.name /\ k.draft = j.draft
        /\ k.answer = j.answer
    BY <1>1, <2>1, <2>2 DEF ViewJob
  <2>4. ViewMove(j, k)
    BY <1>3, <1>7, <2>1, <2>3
  <2> QED BY <1>1, <1>2, <2>3, <2>4, ViewMoveKeeps DEF ViewJobFits
<1>8. CASE dir[j.name].at = "part" /\ Move(j, [j EXCEPT !.pc = "done", !.answer = "broken"])
  BY <1>1, <1>4, <1>8 DEF ViewInv, DirFits
<1> QED BY <1>5, <1>6, <1>7, <1>8 DEF ReadView

\* Writing is not reading: no answer of a writer is a reader's.
LEMMA WriterMoves ==
  ASSUME ViewInv, NEW j \in viewJobs, NEW pc \in {"truncate", "fill", "done"},
         NEW answer \in {"none", "ok", "refused"}, NEW k,
         k = [j EXCEPT !.pc = pc] \/ k = [j EXCEPT !.pc = "done", !.answer = answer],
         Move(j, k), UNCHANGED <<builder, viewSent>>, DirFits',
         torn \subseteq torn', missing \subseteq missing'
  PROVE  ViewInv'
<1>1. j \in ViewJob /\ ViewJobFits(j)
  BY DEF ViewInv, ViewJobFits
<1>2. k \in ViewJob /\ k.kind = j.kind /\ k.name = j.name /\ k.draft = j.draft /\ k.def = j.def
      /\ k.answer \in {j.answer, answer}
  <2>1. CASE k = [j EXCEPT !.pc = pc]
    BY <1>1, <2>1 DEF ViewJob
  <2>2. CASE k = [j EXCEPT !.pc = "done", !.answer = answer]
    BY <1>1, <2>2 DEF ViewJob
  <2> QED BY <2>1, <2>2
<1>3. ViewMove(j, k)
  BY <1>2 DEF ViewMove, Move
<1> QED BY <1>1, <1>2, <1>3, ViewMoveKeeps DEF ViewMove, ViewJobFits

\* A whole document takes the place of the file.
LEMMA DirWhole ==
  ASSUME ViewInv, NEW j \in viewJobs, dir' = [dir EXCEPT ![j.name] = [at |-> "whole", doc |-> j.def]],
         UNCHANGED <<torn, missing>>
  PROVE  DirFits'
<1>1. j.name \in ViewNames /\ j.def \in Doc
  BY DEF ViewInv, ViewJobFits, ViewJob
<1> QED BY <1>1 DEF ViewInv, DirFits

LEMMA WriteKeeps ==
  ASSUME ViewInv, NEW j \in viewJobs, Replace(j) \/ Truncate(j) \/ Fill(j) \/ DieAt(j)
  PROVE  ViewInv'
<1>1. CASE Replace(j)
  <2>1. CASE Swap(j)
    BY <1>1, <2>1, DirWhole, WriterMoves DEF Replace, Swap, BuilderSame
  <2>2. CASE Move(j, [j EXCEPT !.pc = "truncate"]) /\ DiskSame
    <3>1. DirFits'
      BY <2>2 DEF DiskSame, ViewInv, DirFits
    <3> QED BY <1>1, <2>2, <3>1, WriterMoves DEF Replace, BuilderSame, DiskSame
  <2> QED BY <1>1, <2>1, <2>2 DEF Replace
<1>2. CASE Truncate(j)
  <2>1. j.name \in ViewNames
    BY DEF ViewInv, ViewJobFits, ViewJob
  <2>2. DirFits'
    BY <1>2, <2>1 DEF Truncate, ViewInv, DirFits
  <2> QED BY <1>2, <2>2, WriterMoves DEF Truncate, BuilderSame
<1>3. CASE Fill(j)
  BY <1>3, DirWhole, WriterMoves DEF Fill, BuilderSame
<1>4. CASE DieAt(j)
  <2>1. DirFits'
    BY <1>4 DEF DieAt, DiskSame, ViewInv, DirFits
  <2> QED BY <1>4, <2>1, WriterMoves DEF DieAt, BuilderSame, DiskSame
<1> QED BY <1>1, <1>2, <1>3, <1>4

LEMMA DropKeeps == ASSUME ViewInv, NEW j \in viewJobs, Drop(j) PROVE ViewInv'
<1>1. j \in ViewJob /\ ViewJobFits(j) /\ j.name \in ViewNames
  BY DEF ViewInv, ViewJobFits, ViewJob
<1>2. PICK answer \in {"ok", "absent"} : Move(j, [j EXCEPT !.pc = "done", !.answer = answer])
  BY DEF Drop
<1>3. PICK k : k = [j EXCEPT !.pc = "done", !.answer = answer]
  OBVIOUS
<1>4. /\ dir' = [dir EXCEPT ![j.name] = [at |-> "none", doc |-> Proposed]]
      /\ missing' = missing \cup {j.name} /\ UNCHANGED <<torn, builder, viewSent>>
  BY DEF Drop, BuilderSame
<1>5. DirFits'
  BY <1>1, <1>4, Documents DEF ViewInv, DirFits
<1>6. /\ k \in ViewJob /\ k.kind = j.kind /\ k.name = j.name /\ k.draft = j.draft
      /\ k.def = j.def /\ k.answer = answer
  BY <1>1, <1>2, <1>3 DEF ViewJob
<1>7. ViewMove(j, k)
  BY <1>2, <1>3, <1>4, <1>6 DEF ViewMove, Move
<1>8. k.name \in missing' /\ k.answer # "broken"
  BY <1>2, <1>4, <1>6
<1> QED BY <1>5, <1>7, <1>8, ViewMoveKeeps

\* What happens on the screen leaves the files alone: the new requests have to fit,
\* and the builder.
LEMMA OnScreen ==
  ASSUME ViewInv, DiskSame, viewSent' \in 0..MaxViewJobs, BuilderFits', OneWrite',
         \A k \in viewJobs' \ viewJobs : ViewJobFits(k)'
  PROVE  ViewInv'
<1>1. DirFits'
  BY DEF ViewInv, DirFits, DiskSame
<1>2. ASSUME NEW k \in viewJobs PROVE ViewJobFits(k)'
  BY DEF ViewInv, ViewJobFits, DiskSame
<1>3. (\A k \in viewJobs : ViewJobFits(k))'
  BY <1>2
<1> QED BY <1>1, <1>3 DEF ViewInv

\* A request as it is sent.
LEMMA SentFits ==
  ASSUME NEW n \in 1..MaxViewJobs, NEW kind \in Readers \cup Writers \cup {"new", "drop"},
         NEW name \in ViewNames, NEW pc \in {"read", "swap", "truncate", "unlink", "done"},
         NEW d, NEW def \in Doc,
         IF kind = "save" THEN \E x \in Draft : DraftFits(x) /\ d = {x} /\ def = Pruned(Definition(x))
         ELSE d = {}
  PROVE  /\ ViewJobFits(NewJob(n, kind, name, pc, d, def))'
         /\ NewJob(n, kind, name, pc, d, def).kind = kind
<1>1. d \in SUBSET Draft
  OBVIOUS
<1>2. NewJob(n, kind, name, pc, d, def) \in ViewJob
  BY <1>1 DEF NewJob, ViewJob
<1> QED BY <1>2 DEF NewJob, ViewJobFits

LEMMA Sends ==
  ASSUME ViewInv, NEW kind, NEW name, NEW pc, NEW d, NEW def, Send(kind, name, pc, d, def)
  PROVE  /\ viewSent' \in 1..MaxViewJobs /\ viewSent' \in 0..MaxViewJobs
         /\ viewJobs' = viewJobs \cup {NewJob(viewSent', kind, name, pc, d, def)}
<1>1. viewSent \in 0..MaxViewJobs /\ MaxViewJobs \in Nat
  BY ViewAssumption DEF ViewInv, ViewAssumption
<1> QED BY <1>1 DEF Send

\* A request that neither saves nor deletes.
LEMMA SendKeepsViews ==
  ASSUME ViewInv, NEW kind \in Readers \cup {"new", "hand"}, NEW name \in ViewNames,
         NEW pc \in {"read", "truncate", "done"}, NEW def \in Doc,
         Send(kind, name, pc, {}, def), DiskSame, UNCHANGED builder
  PROVE  ViewInv'
<1>1. PICK n \in 1..MaxViewJobs : n = viewSent'
  BY Sends
<1>2. PICK k : k = NewJob(n, kind, name, pc, {}, def)
  OBVIOUS
<1>3. viewJobs' = viewJobs \cup {k} /\ viewSent' \in 0..MaxViewJobs
  BY <1>1, <1>2, Sends
<1>4. ViewJobFits(k)' /\ k.kind = kind
  BY <1>2, SentFits DEF Readers, Writers
<1>5. OneWrite' /\ BuilderFits'
  BY <1>3, <1>4 DEF ViewInv, OneWrite, BuilderFits, Readers, Awaited
<1> QED BY <1>3, <1>4, <1>5, OnScreen

LEMMA AskKeeps ==
  ASSUME ViewInv, NEW n \in ViewNames,
         \/ Pick(n) \/ StartNew(n) \/ Dashboard(n)
         \/ ByHand(n, [fields |-> {}, labels |-> {}, sort |-> "", title |-> "own"])
  PROVE  ViewInv'
<1>1. CASE Pick(n)
  BY <1>1, Documents, SendKeepsViews DEF Pick, Screen, Readers
<1>2. CASE StartNew(n)
  BY <1>2, Documents, SendKeepsViews DEF StartNew, Screen
<1>3. CASE Dashboard(n)
  BY <1>3, Documents, SendKeepsViews DEF Dashboard, Readers
<1>4. CASE ByHand(n, [fields |-> {}, labels |-> {}, sort |-> "", title |-> "own"])
  <2>1. [fields |-> {}, labels |-> {}, sort |-> "", title |-> "own"] \in Doc
    BY DEF Doc, Headings
  <2> QED BY <1>4, <2>1, SendKeepsViews DEF ByHand
<1> QED BY <1>1, <1>2, <1>3, <1>4

\* The two requests the builder waits for.
LEMMA SendAwaited ==
  ASSUME ViewInv, NEW kind \in Awaited, NEW name \in ViewNames, NEW pc \in {"swap", "unlink"},
         NEW d, NEW def \in Doc, Send(kind, name, pc, d, def), DiskSame,
         IF kind = "save" THEN \E x \in Draft : DraftFits(x) /\ d = {x} /\ def = Pruned(Definition(x))
         ELSE d = {},
         ~builder.busy, builder.draft # {}, builder' = [builder EXCEPT !.busy = TRUE]
  PROVE  ViewInv'
<1>1. PICK n \in 1..MaxViewJobs : n = viewSent'
  BY Sends
<1>2. PICK k : k = NewJob(n, kind, name, pc, d, def)
  OBVIOUS
<1>3. viewJobs' = viewJobs \cup {k} /\ viewSent' \in 0..MaxViewJobs
  BY <1>1, <1>2, Sends
<1>4. ViewJobFits(k)' /\ k.kind = kind
  BY <1>2, SentFits DEF Awaited, Readers, Writers
<1>5. builder' = [draft |-> builder.draft, saved |-> builder.saved, busy |-> TRUE,
                  views |-> builder.views, refreshing |-> builder.refreshing]
  BY DEF ViewInv, BuilderFits
<1>6. BuilderFits'
  BY <1>5 DEF ViewInv, BuilderFits
<1>7. OneWrite'
  BY <1>3, <1>5 DEF ViewInv, OneWrite
<1> QED BY <1>3, <1>4, <1>6, <1>7, OnScreen

LEMMA PressKeeps == ASSUME ViewInv, SaveView \/ Destroy PROVE ViewInv'
<1>1. CASE SaveView
  <2>1. PICK d \in builder.draft : Send("save", d.name, "swap", {d}, Pruned(Definition(d)))
    BY <1>1 DEF SaveView
  <2>2. d \in Draft /\ DraftFits(d) /\ d.name \in ViewNames /\ Pruned(Definition(d)) \in Doc
    BY Documents DEF ViewInv, BuilderFits, DraftFits, Draft
  <2> QED BY <1>1, <2>1, <2>2, SendAwaited DEF SaveView, Screen, Awaited
<1>2. CASE Destroy
  <2>1. PICK d \in builder.draft : Send("drop", d.name, "unlink", {}, Proposed)
    BY <1>2 DEF Destroy
  <2>2. d.name \in ViewNames
    BY DEF ViewInv, BuilderFits, DraftFits, Draft
  <2> QED BY <1>2, <2>1, <2>2, Documents, SendAwaited DEF Destroy, Screen, Awaited
<1> QED BY <1>1, <1>2

\* A change on the screen that sends nothing to be waited for, and takes no draft away.
LEMMA BuilderChanges ==
  ASSUME ViewInv, DiskSame, viewSent' \in 0..MaxViewJobs, BuilderFits',
         \A k \in viewJobs' \ viewJobs : ViewJobFits(k)' /\ k.kind \notin Awaited,
         \/ builder.busy => builder'.busy /\ (builder.draft # {} => builder'.draft # {})
         \/ \E j \in viewJobs : j.kind \in Awaited /\ j \notin viewJobs'
  PROVE  ViewInv'
<1>1. OneWrite'
  <2>1. ASSUME NEW i \in viewJobs', i.kind \in Awaited PROVE i \in viewJobs
    BY <2>1
  <2> QED BY <2>1 DEF ViewInv, OneWrite
<1> QED BY <1>1, OnScreen

\* Editing: the draft is replaced by one that fits.
LEMMA EditKeeps ==
  ASSUME ViewInv, NEW d, DraftFits(d), Edit(d)
  PROVE  ViewInv'
<1>1. builder' = [builder EXCEPT !.draft = {d}] /\ DiskSame /\ UNCHANGED <<viewJobs, viewSent>>
  BY DEF Edit, Screen
<1>2. builder' = [draft |-> {d}, saved |-> builder.saved, busy |-> builder.busy,
                  views |-> builder.views, refreshing |-> builder.refreshing]
  BY <1>1 DEF ViewInv, BuilderFits
<1>3. BuilderFits'
  BY <1>2 DEF ViewInv, BuilderFits
<1> QED BY <1>1, <1>2, <1>3, BuilderChanges DEF ViewInv

LEMMA TypingKeeps ==
  ASSUME ViewInv, (\E c \in Candidates : ToggleField(c)) \/ (\E t \in Headings : TypeHeading(t))
  PROVE  ViewInv'
<1>1. ASSUME NEW c \in Candidates, ToggleField(c) PROVE ViewInv'
  <2>1. PICK d \in builder.draft :
          Edit([d EXCEPT !.on = (@ \ {c}) \cup ({c} \ @), !.edits = @ \cup {c}])
    BY <1>1 DEF ToggleField
  <2>2. DraftFits(d) /\ d \in Draft
    BY DEF ViewInv, BuilderFits, DraftFits
  <2>3. PICK e : e = [d EXCEPT !.on = (@ \ {c}) \cup ({c} \ @), !.edits = @ \cup {c}]
    OBVIOUS
  <2>4. /\ e.on = (d.on \ {c}) \cup ({c} \ d.on) /\ e.edits = d.edits \cup {c}
        /\ e.source = d.source /\ e.title = d.title /\ e.labels = d.labels
    BY <2>2, <2>3 DEF Draft
  <2>5. (d.on \ {c}) \cup ({c} \ d.on) \in SUBSET Candidates /\ d.edits \cup {c} \in SUBSET (Candidates \cup {"title"})
    BY <2>2 DEF Draft
  <2>6. e \in Draft
    BY <2>2, <2>3, <2>5 DEF Draft
  <2>7. DraftFits(e)
    BY <2>2, <2>4, <2>6 DEF DraftFits
  <2> QED BY <2>1, <2>3, <2>7, EditKeeps
<1>2. ASSUME NEW t \in Headings, TypeHeading(t) PROVE ViewInv'
  <2>1. PICK d \in builder.draft : Edit([d EXCEPT !.title = t, !.edits = @ \cup {"title"}])
    BY <1>2 DEF TypeHeading
  <2>2. DraftFits(d) /\ d \in Draft
    BY DEF ViewInv, BuilderFits, DraftFits
  <2>3. PICK e : e = [d EXCEPT !.title = t, !.edits = @ \cup {"title"}]
    OBVIOUS
  <2>4. e.on = d.on /\ e.edits = d.edits \cup {"title"} /\ e.source = d.source /\ e.labels = d.labels
    BY <2>2, <2>3 DEF Draft
  <2>5. d.edits \cup {"title"} \in SUBSET (Candidates \cup {"title"})
    BY <2>2 DEF Draft
  <2>6. e \in Draft
    BY <2>2, <2>3, <2>5 DEF Draft
  <2>7. DraftFits(e)
    BY <2>2, <2>4, <2>6 DEF DraftFits
  <2> QED BY <2>1, <2>3, <2>7, EditKeeps
<1> QED BY <1>1, <1>2

\* The first view of the list is asked for, if any.
LEMMA OpensFirstKeeps ==
  ASSUME ViewInv, NEW b, b.views \subseteq ViewNames, NEW left, left \subseteq viewJobs,
         OpensFirst(b, left), DiskSame
  PROVE  /\ viewSent' \in 0..MaxViewJobs /\ left \subseteq viewJobs'
         /\ \A k \in viewJobs' \ left : ViewJobFits(k)' /\ k.kind \notin Awaited
<1>1. viewSent \in 0..MaxViewJobs /\ MaxViewJobs \in Nat
  BY ViewAssumption DEF ViewInv, ViewAssumption
<1>2. CASE b.views # {} /\ viewSent < MaxViewJobs /\ b.draft = {}
  <2>1. PICK n : n = viewSent + 1 /\ n \in 1..MaxViewJobs /\ viewSent' = n
    BY <1>1, <1>2 DEF OpensFirst
  <2>2. PICK name \in ViewNames : name = FirstOf(b.views)
    BY <1>2, FirstIsOneOfThem
  <2>3. PICK k : k = NewJob(n, "open", name, "read", {}, Proposed)
    OBVIOUS
  <2>4. ViewJobFits(k)' /\ k.kind = "open"
    <3>1. "open" \in Readers \cup Writers \cup {"new", "drop"}
      BY DEF Readers
    <3> QED BY <2>1, <2>3, <3>1, Documents, SentFits
  <2>5. viewJobs' = left \cup {k}
    BY <1>2, <2>1, <2>2, <2>3 DEF OpensFirst
  <2> QED BY <2>1, <2>4, <2>5 DEF Awaited
<1>3. CASE ~(b.views # {} /\ viewSent < MaxViewJobs /\ b.draft = {})
  BY <1>1, <1>3 DEF OpensFirst
<1> QED BY <1>2, <1>3

LEMMA ListArrivesKeeps ==
  ASSUME ViewInv, NEW names \in SUBSET ViewNames, ListArrives(names)
  PROVE  ViewInv'
<1>1. PICK b : b = [draft |-> builder.draft, saved |-> builder.saved, busy |-> builder.busy,
                    views |-> names, refreshing |-> FALSE]
  OBVIOUS
<1>2. b = [builder EXCEPT !.views = names, !.refreshing = FALSE]
  <2> DEFINE k == [builder EXCEPT !.views = names, !.refreshing = FALSE]
  <2>1. DOMAIN builder = {"draft", "saved", "busy", "views", "refreshing"}
    BY DEF ViewInv, BuilderFits
  <2>2. k = [f \in {"draft", "saved", "busy", "views", "refreshing"} |-> k[f]]
    BY <2>1
  <2>3. /\ k.draft = builder.draft /\ k.saved = builder.saved /\ k.busy = builder.busy
        /\ k.views = names /\ k.refreshing = FALSE
    BY <2>1
  <2> HIDE DEF k
  <2>4. b = k
    BY <1>1, <2>2, <2>3
  <2> QED BY <2>4 DEF k
<1>3. builder' = b /\ DiskSame /\ OpensFirst(b, viewJobs)
  BY <1>2 DEF ListArrives, Screen
<1>4. BuilderFits'
  BY <1>1, <1>3 DEF ViewInv, BuilderFits
<1>5. b.views \subseteq ViewNames
  BY <1>1
<1>6. viewSent' \in 0..MaxViewJobs /\ \A k \in viewJobs' \ viewJobs : ViewJobFits(k)' /\ k.kind \notin Awaited
  BY <1>3, <1>5, OpensFirstKeeps
<1> QED BY <1>1, <1>3, <1>4, <1>6, BuilderChanges

LEMMA OpenArrivesKeeps ==
  ASSUME ViewInv, NEW j \in viewJobs, OpenArrives(j) \/ NewArrives(j)
  PROVE  ViewInv'
<1>1. /\ j \in ViewJob /\ j.name \in ViewNames /\ j.def \in Doc
      /\ viewJobs' \subseteq viewJobs /\ UNCHANGED viewSent /\ DiskSame
  BY DEF ViewInv, ViewJobFits, ViewJob, OpenArrives, NewArrives, Screen
<1>2. CASE UNCHANGED builder
  <2>1. BuilderFits'
    BY <1>2 DEF ViewInv, BuilderFits
  <2> QED BY <1>1, <1>2, <2>1, BuilderChanges DEF ViewInv
<1>3. ASSUME NEW d, DraftFits(d), NEW saved, saved \subseteq Doc,
             builder' = [builder EXCEPT !.draft = {d}, !.saved = saved]
      PROVE  ViewInv'
  <2>1. builder' = [draft |-> {d}, saved |-> saved, busy |-> builder.busy,
                    views |-> builder.views, refreshing |-> builder.refreshing]
    BY <1>3 DEF ViewInv, BuilderFits
  <2>2. BuilderFits'
    BY <1>3, <2>1 DEF ViewInv, BuilderFits
  <2> QED BY <1>1, <2>1, <2>2, BuilderChanges DEF ViewInv
<1>4. CASE OpenArrives(j)
  <2>1. DraftFits(Drafted(j.name, j.def)) /\ Definition(Drafted(j.name, j.def)) \in Doc
    BY <1>1, DraftedFits, Documents DEF DraftFits
  <2>2. CASE j.answer # "ok"
    BY <1>2, <1>4, <2>2 DEF OpenArrives, Screen
  <2>3. CASE j.answer = "ok"
    <3>1. PICK d : d = Drafted(j.name, j.def)
      OBVIOUS
    <3>2. builder' = [builder EXCEPT !.draft = {d}, !.saved = {Definition(d)}]
      BY <1>4, <2>3, <3>1 DEF OpenArrives, Screen
    <3>3. DraftFits(d) /\ {Definition(d)} \subseteq Doc
      BY <2>1, <3>1
    <3> QED BY <1>3, <3>2, <3>3
  <2> QED BY <2>2, <2>3
<1>5. CASE NewArrives(j)
  <2>1. DraftFits(Drafted(j.name, Proposed))
    BY <1>1, DraftedFits, Documents
  <2> QED BY <1>3, <1>5, <2>1 DEF NewArrives, Screen
<1> QED BY <1>4, <1>5

\* What a click that was waited for is answered with ends the waiting.
LEMMA SaveArrivesKeeps == ASSUME ViewInv, NEW j \in viewJobs, SaveArrives(j) PROVE ViewInv'
<1>1. /\ ViewJobFits(j) /\ j.kind \in Awaited /\ viewJobs' = viewJobs \ {j} /\ UNCHANGED viewSent /\ DiskSame
      /\ builder.draft # {}
  BY DEF ViewInv, SaveArrives, Screen, Awaited, OneWrite
<1>2. CASE builder' = [builder EXCEPT !.busy = FALSE]
  <2>1. builder' = [draft |-> builder.draft, saved |-> builder.saved, busy |-> FALSE,
                    views |-> builder.views, refreshing |-> builder.refreshing]
    BY <1>2 DEF ViewInv, BuilderFits
  <2>2. BuilderFits'
    BY <2>1 DEF ViewInv, BuilderFits
  <2> QED BY <1>1, <2>2, BuilderChanges DEF ViewInv
<1>3. CASE builder' = [builder EXCEPT !.busy = FALSE, !.saved = {Definition(d) : d \in j.draft},
                                      !.draft = {[d EXCEPT !.implicit = FALSE] : d \in @},
                                      !.refreshing = TRUE]
  <2>1. PICK saved : saved = {Definition(d) : d \in j.draft}
    OBVIOUS
  <2>2. PICK draft : draft = {[d EXCEPT !.implicit = FALSE] : d \in builder.draft}
    OBVIOUS
  <2>3. saved \subseteq Doc
    BY <1>1, <2>1, Documents DEF ViewJobFits, ViewJob
  <2>4. ASSUME NEW e \in draft PROVE DraftFits(e)
    <3>1. PICK d \in builder.draft : e = [d EXCEPT !.implicit = FALSE]
      BY <2>2
    <3>2. DraftFits(d) /\ d \in Draft
      BY DEF ViewInv, BuilderFits, DraftFits
    <3>3. e \in Draft /\ e.on = d.on /\ e.edits = d.edits /\ e.source = d.source /\ e.title = d.title
          /\ e.labels = d.labels
      BY <3>1, <3>2 DEF Draft
    <3> QED BY <3>2, <3>3 DEF DraftFits
  <2>5. draft # {}
    BY <1>1, <2>2
  <2>6. /\ builder' = [draft |-> builder'.draft, saved |-> builder'.saved, busy |-> builder'.busy,
                       views |-> builder'.views, refreshing |-> builder'.refreshing]
        /\ builder'.draft = draft /\ builder'.saved = saved /\ builder'.views = builder.views
    <3>1. DOMAIN builder = {"draft", "saved", "busy", "views", "refreshing"}
      BY DEF ViewInv, BuilderFits
    <3>2. builder' = [f \in {"draft", "saved", "busy", "views", "refreshing"} |-> builder'[f]]
      BY <1>3, <3>1
    <3>3. builder'.draft = draft /\ builder'.saved = saved /\ builder'.views = builder.views
      BY <1>3, <2>1, <2>2, <3>1
    <3> QED BY <3>2, <3>3
  <2>7. BuilderFits'
    BY <2>3, <2>4, <2>5, <2>6 DEF ViewInv, BuilderFits
  <2> QED BY <1>1, <2>7, BuilderChanges DEF ViewInv
<1> QED BY <1>2, <1>3 DEF SaveArrives, Screen

LEMMA DestroyArrivesKeeps == ASSUME ViewInv, NEW j \in viewJobs, DestroyArrives(j) PROVE ViewInv'
<1>1. j.kind \in Awaited
  BY DEF DestroyArrives, Awaited
<1>2. PICK b : /\ builder' = b /\ DiskSame /\ OpensFirst(b, viewJobs \ {j})
               /\ b = [builder EXCEPT !.busy = FALSE] \/ b = Emptied(builder)
  BY DEF DestroyArrives, Screen
<1>3. DOMAIN builder = {"draft", "saved", "busy", "views", "refreshing"}
  BY DEF ViewInv, BuilderFits
<1>4. /\ b = [f \in {"draft", "saved", "busy", "views", "refreshing"} |-> b[f]] /\ b.views = builder.views
      /\ (b.draft = builder.draft /\ b.saved = builder.saved) \/ (b.draft = {} /\ b.saved = {})
  <2>1. CASE b = [builder EXCEPT !.busy = FALSE]
    BY <1>3, <2>1
  <2>2. CASE b = Emptied(builder)
    BY <1>3, <2>2 DEF Emptied
  <2> QED BY <1>2, <2>1, <2>2
<1>5. BuilderFits'
  BY <1>2, <1>4 DEF ViewInv, BuilderFits
<1>6. b.views \subseteq ViewNames
  BY <1>4 DEF ViewInv, BuilderFits
<1>7. /\ viewSent' \in 0..MaxViewJobs
      /\ \A k \in viewJobs' \ (viewJobs \ {j}) : ViewJobFits(k)' /\ k.kind \notin Awaited
  BY <1>2, <1>6, OpensFirstKeeps
<1>8. j \notin viewJobs'
  BY <1>1, <1>7
<1> QED BY <1>1, <1>2, <1>5, <1>7, <1>8, BuilderChanges

LEMMA ViewStep == ViewInv /\ [ViewNext]_viewVars => ViewInv'
<1> SUFFICES ASSUME ViewInv, [ViewNext]_viewVars PROVE ViewInv'
  OBVIOUS
<1>1. CASE UNCHANGED viewVars
  <2>1. BuilderFits'
    BY <1>1 DEF viewVars, ViewInv, BuilderFits
  <2> QED BY <1>1, <2>1, BuilderChanges DEF viewVars, DiskSame, ViewInv
<1>2. CASE Serving
  BY <1>2, ReadKeeps, WriteKeeps, DropKeeps DEF Serving
<1>3. CASE Arriving
  <2>1. ASSUME NEW j \in viewJobs, OpenArrives(j) \/ NewArrives(j) \/ SaveArrives(j) \/ DestroyArrives(j)
        PROVE  ViewInv'
    BY <2>1, OpenArrivesKeeps, SaveArrivesKeeps, DestroyArrivesKeeps
  <2>2. ASSUME NEW names \in SUBSET ViewNames, ListArrives(names) PROVE ViewInv'
    BY <2>2, ListArrivesKeeps
  <2> QED BY <1>3, <2>1, <2>2 DEF Arriving
<1>4. CASE Using
  BY <1>4, AskKeeps, TypingKeeps, PressKeeps DEF Using
<1> QED BY <1>1, <1>2, <1>3, <1>4 DEF ViewNext

LEMMA ViewStarts == ViewInit => ViewInv
<1> SUFFICES ASSUME ViewInit PROVE ViewInv
  OBVIOUS
<1>1. DirFits
  BY Documents DEF ViewInit, DirFits
<1>2. BuilderFits
  <2>1. builder = [draft |-> {}, saved |-> {}, busy |-> FALSE, views |-> {}, refreshing |-> TRUE]
    BY DEF ViewInit
  <2>2. builder.draft = {} /\ builder.saved = {} /\ builder.views = {}
        /\ builder.busy = FALSE /\ builder.refreshing = TRUE
    BY <2>1
  <2> QED BY <2>1, <2>2 DEF BuilderFits
<1>3. viewSent \in 0..MaxViewJobs /\ viewJobs = {}
  <2>1. MaxViewJobs \in Nat
    BY ViewAssumption DEF ViewAssumption
  <2>2. viewSent = 0 /\ viewJobs = {}
    BY DEF ViewInit
  <2> QED BY <2>1, <2>2
<1>4. OneWrite /\ \A j \in viewJobs : ViewJobFits(j)
  BY <1>3 DEF OneWrite
<1> QED BY <1>1, <1>2, <1>3, <1>4 DEF ViewInv

\* A save job that is gone from the requests has swapped or filled its file, or was
\* answered: the file it leaves holds what it was sent with.
LEMMA ViewSavesKeepTheRest == ViewInv /\ [ViewNext]_viewVars => ViewSavesChangeOnlyWhatWasEdited
<1> SUFFICES ASSUME ViewInv, [ViewNext]_viewVars, NEW j \in viewJobs, j.kind = "save", j \notin viewJobs',
                    dir'[j.name].at = "whole", dir'[j.name] # dir[j.name], NEW d \in j.draft
             PROVE  ShowsTheRest(d, dir'[j.name].doc)
  BY DEF ViewSavesChangeOnlyWhatWasEdited, ShowsTheRest
<1>1. dir' # dir
  OBVIOUS
<1>2. PICK i \in viewJobs : Replace(i) \/ Truncate(i) \/ Fill(i) \/ Drop(i)
  BY <1>1 DEF ViewNext, viewVars, Serving, Arriving, Using, ReadView, DieAt, DiskSame, OpenArrives,
     NewArrives, SaveArrives, DestroyArrives, ListArrives, Screen, Pick, StartNew, Dashboard, ByHand,
     ToggleField, TypeHeading, Edit, SaveView, Destroy
<1>3. i = j
  BY <1>2 DEF Replace, Truncate, Fill, Drop, Swap, Move
<1>4. j.name \in ViewNames /\ ViewJobFits(j) /\ DirFits
  BY DEF ViewInv, ViewJobFits, ViewJob
<1>5. dir' = [dir EXCEPT ![j.name] = [at |-> "whole", doc |-> j.def]]
  <2>1. CASE Replace(j)
    BY <1>1, <2>1 DEF Replace, Swap, DiskSame
  <2>2. CASE Truncate(j)
    BY <1>4, <2>2 DEF Truncate, DirFits
  <2>3. CASE Drop(j)
    BY <1>4, <2>3 DEF Drop, DirFits
  <2> QED BY <1>2, <1>3, <2>1, <2>2, <2>3 DEF Fill
<1>6. dir'[j.name].doc = j.def
  BY <1>4, <1>5 DEF DirFits
<1>7. d \in Draft /\ DraftFits(d) /\ j.def = Pruned(Definition(d))
  BY <1>4 DEF ViewJobFits
<1> QED BY <1>6, <1>7, SavedShowsTheRest

-----------------------------------------------------------------------------
(* MCStores: the six parts side by side.                                   *)

\* The inductive invariant of the whole.
AllInv == FileInv /\ ViewInv /\ SchemaInv /\ IntroInv /\ LimitInv /\ TokenInv

LEMMA AllStart == Init => AllInv
BY FileStarts, ViewStarts, SchemaStarts, IntroStarts, LimitStarts, TokenStarts DEF Init, AllInv

LEMMA PartsStep ==
  [Next]_vars => /\ [FileNext]_fileVars /\ [ViewNext]_viewVars /\ [SchemaNext]_schemaVars
                 /\ [IntroNext]_introVars /\ [LimitNext]_limitVars /\ [TokenNext]_tokenVars
BY DEF Next, vars

LEMMA AllStep == AllInv /\ [Next]_vars => AllInv'
BY PartsStep, FileStep, ViewStep, SchemaStep, IntroStep, LimitStep, TokenStep DEF AllInv

\* What the servers keep outside the rows they serve, at every step of an upload and a
\* removal (routes.ts:279, routes.ts:366, api/files/delete/route.ts:13), of a view's
\* save and a read (lib/views.ts:105, views.ts:79), of the builder's draft, which
\* holds what was not edited as the view opened with (AdminBuilder.tsx:66), and of
\* the caches, the buckets and the tokens.
THEOREM StoresInvariant == Spec => []AllInv
BY AllStart, AllStep, PTL DEF Spec

\* The types of the six parts' states.
THEOREM StoresTyped == Spec => []TypeOK
<1>1. AllInv => TypeOK
  BY FileTyped, ViewTyped, SchemaTyped, IntroTyped, LimitTyped, TokenTyped DEF AllInv, TypeOK
<1> QED BY <1>1, StoresInvariant, PTL

\* For any number of files, views, requests, failures and crashes: a row has its bytes
\* and a title that was typed for it, an upload that was refused left neither row nor
\* bytes but where something it could not take back went wrong, and whoever reads a view
\* gets a document that was saved (routes.ts:279, routes.ts:350, lib/views.ts:158).
THEOREM WhatIsStoredIsWhole == Spec => []StoredIsWhole
<1>1. AllInv => StoredIsWhole
  BY FileTyped, ViewTyped DEF AllInv, StoredIsWhole
<1> QED BY <1>1, StoresInvariant, PTL

\* No step deletes a file that a row referred to when the console looked, and no save of
\* a view changes what was not edited (api/files/delete/route.ts:13, types.ts:75), except
\* that the first save of one that listed no fields adds the many-to-many fields and the
\* displays the builder proposes (AdminBuilder.tsx:103), and that one with nothing left
\* on the screen is written as one that lists none.
THEOREM WhatNobodyAskedStays == Spec => StoresKeepTheRest
<1>1. AllInv /\ [Next]_vars => DeletesSpareTheLinked /\ ViewSavesChangeOnlyWhatWasEdited
  BY PartsStep, DeletesAreLate, ViewSavesKeepTheRest DEF AllInv
<1>2. Spec => [][DeletesSpareTheLinked /\ ViewSavesChangeOnlyWhatWasEdited]_vars
  BY <1>1, StoresInvariant, PTL DEF Spec
<1> QED BY <1>2 DEF StoresKeepTheRest

\* Both caches of the database's schema forget what a change made stale, whenever its
\* announcement and the reads under way fall (catalog.ts:278, introspect.ts:141).
THEOREM SchemaCachesFollow == Spec => []SchemaChangesAreSeen
<1>1. AllInv => SchemaChangesAreSeen
  BY SchemaTyped DEF AllInv, IntroInv, SchemaChangesAreSeen
<1> QED BY <1>1, StoresInvariant, PTL

\* No window of the limiter lets through more logins than it says, for any number of
\* addresses, emails and attempts; and no token resets a password twice (rateLimit.ts:44,
\* signedTokens.ts:108).
THEOREM AllowancesEnd == Spec => []AttemptsAndTokensRunOut
<1>1. AllInv => AttemptsAndTokensRunOut
  BY LimitTyped DEF AllInv, TokenInv, AttemptsAndTokensRunOut
<1> QED BY <1>1, StoresInvariant, PTL
=============================================================================
