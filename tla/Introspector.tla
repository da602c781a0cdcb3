----------------------------- MODULE Introspector -----------------------------
(***************************************************************************)
(* The admin runtime's view of a table (packages/admin/src/server/         *)
(* introspect.ts): its columns and keys, with the values of its enums      *)
(* taken from a cache of their own; both live for a while and are cleared  *)
(* by invalidate().  Calls are not merged: each miss asks the database.    *)
(*                                                                         *)
(* What the database answers is kept as when it was asked, in time and in  *)
(* the number of invalidations before.                                     *)
(***************************************************************************)
EXTENDS Naturals, FiniteSets

CONSTANTS
  Ttl,              \* ttlMs
  Slowest,          \* assumed of the database: no call waits for it longer
  MaxTime,          \* bound: the clock
  MaxCalls,         \* bound: calls of table()
  MaxWaiting,       \* bound: calls waiting for the database at once
  MaxInvalidations  \* bound: calls of invalidate()

ASSUME IntrospectorAssumption ==
  /\ Ttl \in Nat \ {0} /\ Slowest \in Nat /\ MaxTime \in Nat /\ MaxCalls \in Nat
  /\ MaxWaiting \in Nat /\ MaxInvalidations \in Nat

VARIABLES
  now, epoch,       \* the clock; invalidations so far
  enumCache,        \* no more than one entry each: when it was stored, what it
  tableCache,       \*   holds, whether it was asked for before an invalidation
  calls,            \* calls of table() that asked the database
  served,           \* the last answer, until something else happens
  callsMade

introVars == <<now, epoch, enumCache, tableCache, calls, served, callsMade>>

-----------------------------------------------------------------------------
Stamp == [t |-> now, e |-> epoch]
Stamps == [t : 0..MaxTime, e : 0..MaxInvalidations]
Young(cache) == {v \in cache : now - v.at < Ttl}
Replaced(c, changed) == calls' = (calls \ {c}) \cup {changed}
Quiet == served' = {}

Answer(c, v) == served' = {[since |-> c.epoch, cols |-> v.cols, enums |-> v.enums, late |-> v.late]}

IntroInit ==
  /\ now = 0 /\ epoch = 0 /\ enumCache = {} /\ tableCache = {} /\ calls = {} /\ served = {} /\ callsMade = 0

-----------------------------------------------------------------------------
\* table(): a cached table, or its queries; loadEnums looks into its own cache
\* at the same moment.
CallTable ==
  /\ callsMade < MaxCalls /\ callsMade' = callsMade + 1 /\ Cardinality(calls) < MaxWaiting
  /\ LET c == [n |-> callsMade', began |-> now, epoch |-> epoch, cols |-> {}, asked |-> {},
               enums |-> {v.enums : v \in Young(enumCache)},
               late |-> \E v \in Young(enumCache) : v.late]
     IN IF Young(tableCache) # {}
        THEN \E v \in Young(tableCache) : Answer(c, v) /\ UNCHANGED calls
        ELSE calls' = calls \cup {c} /\ Quiet
  /\ UNCHANGED <<now, epoch, enumCache, tableCache>>

\* The database reads the columns and keys; and the enums, when they are missing.
ReadColumns(c) ==
  /\ c.cols = {} /\ Replaced(c, [c EXCEPT !.cols = {Stamp}])
  /\ Quiet /\ UNCHANGED <<now, epoch, enumCache, tableCache, callsMade>>
ReadEnums(c) ==
  /\ c.enums = {} /\ c.asked = {} /\ Replaced(c, [c EXCEPT !.asked = {Stamp}])
  /\ Quiet /\ UNCHANGED <<now, epoch, enumCache, tableCache, callsMade>>

\* The enums are stored as they arrive, whatever was forgotten meanwhile.
EnumsArrive(c) ==
  /\ c.enums = {} /\ \E s \in c.asked :
       /\ enumCache' = {[at |-> now, enums |-> s, late |-> c.epoch # epoch]}
       /\ Replaced(c, [c EXCEPT !.enums = {s}])
  /\ Quiet /\ UNCHANGED <<now, epoch, tableCache, callsMade>>

\* All queries are back: the table is stored and returned.
TableArrives(c) ==
  /\ \E cols \in c.cols, enums \in c.enums :
       LET v == [at |-> now, cols |-> cols, enums |-> enums, late |-> c.late \/ c.epoch # epoch]
       IN tableCache' = {v} /\ Answer(c, v)
  /\ calls' = calls \ {c} /\ UNCHANGED <<now, epoch, enumCache, callsMade>>

\* Mutation: only the tables are forgotten.
ForgetTables == tableCache' = {} /\ UNCHANGED enumCache

\* invalidate().
Forget == tableCache' = {} /\ enumCache' = {}

Invalidate ==
  /\ epoch < MaxInvalidations /\ epoch' = epoch + 1 /\ Forget
  /\ Quiet /\ UNCHANGED <<now, calls, callsMade>>

IntroTick ==
  /\ now < MaxTime /\ now' = now + 1 /\ \A c \in calls : now' - c.began <= Slowest
  /\ Quiet /\ UNCHANGED <<epoch, enumCache, tableCache, calls, callsMade>>

IntroNext ==
  \/ CallTable \/ Invalidate \/ IntroTick
  \/ \E c \in calls : ReadColumns(c) \/ ReadEnums(c) \/ EnumsArrive(c) \/ TableArrives(c)

IntroSpec == IntroInit /\ [][IntroNext]_introVars

-----------------------------------------------------------------------------
\* The types of the caches and the calls.
IntroTypeOK ==
  /\ now \in 0..MaxTime /\ epoch \in 0..MaxInvalidations /\ callsMade \in 0..MaxCalls
  /\ Cardinality(enumCache) <= 1 /\ Cardinality(tableCache) <= 1 /\ Cardinality(served) <= 1
  /\ \A v \in tableCache \cup enumCache : v.at \in 0..now /\ v.enums \in Stamps
  /\ \A c \in calls : c.cols \cup c.asked \cup c.enums \subseteq Stamps

\* What table() answers was asked of the database after the last invalidate()
\* before the call, unless a call that was waiting for the database at an
\* invalidate() stored what it brought (introspect.ts:141).
InvalidateForgets ==
  \A a \in served : ~a.late => a.cols.e >= a.since /\ a.enums.e >= a.since

\* However the two caches feed each other, columns are no older than one lifetime
\* and enum values than two, each with the wait of the call that asked for them
\* (introspect.ts:114, introspect.ts:152).
MetadataAges ==
  \A a \in served : now - a.cols.t < Ttl + Slowest /\ now - a.enums.t < 2 * (Ttl + Slowest)
=============================================================================
