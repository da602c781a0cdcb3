----------------------------- MODULE GrantLoader -----------------------------
(***************************************************************************)
(* The grant loader of packages/auth/src/grants.ts: the permission matrix  *)
(* cached for a while, loads that overlap because they await the database, *)
(* refresh(), and the decisions made from what a load returned.  The roles *)
(* of an actor are read apart from the matrix and never cached (rolesFor), *)
(* so a decision may pair any actor with the matrix a call was served.     *)
(*                                                                         *)
(* The matrix is edited by others (the console, SQL).  `edits` is the      *)
(* history of its contents; a version is an index into it.                 *)
(***************************************************************************)
EXTENDS AccessPolicy

CONSTANTS
  Calls,      \* uses of the loader that can be in flight together
  Matrices,   \* contents the matrix may take
  Ttl,        \* ttlMs, in ticks
  MaxFlight,  \* bound: ticks a query may take
  MaxClock,   \* bound: the clock stops here
  MaxEdits    \* bound: versions of the matrix

\* A row of role_permissions; `readable` says that row_filter is null or an
\* array of predicates that each name a column.
StoredGrant == [role : Roles, table : Tables, actions : SUBSET Actions,
                readable : BOOLEAN, filter : Seq(Predicate)]

ASSUME LoaderAssumption ==
  /\ Matrices \subseteq SUBSET StoredGrant
  /\ \A m \in Matrices : IsFiniteSet(m)
  /\ Ttl \in Nat \ {0} /\ MaxFlight \in Nat /\ MaxClock \in Nat /\ MaxEdits \in Nat

VARIABLES
  now,        \* Date.now()
  edits,      \* history: the contents of role_permissions, the last one current
  cache,      \* `cache`
  calls,      \* the calls in flight
  refreshed,  \* history: the version at the last refresh()
  quietly     \* history: the version at the last refresh() that overlapped no load

vars == <<now, edits, cache, calls, refreshed, quietly>>

-----------------------------------------------------------------------------
NoCache == [ver |-> 0]
Idle == [pc |-> "idle"]

Version == 1 .. Len(edits)
Loading(c) == calls[c].pc \in {"query", "store"}

\* A version of the matrix and when it was put in place.
Edition == [matrix : Matrices, at : Nat]

Call == [pc : {"query", "store", "served"}, asked : Nat, ver : Nat,
         floor : Nat, quietFloor : Nat]

TypeOK ==
  /\ now \in Nat
  /\ edits \in Seq(Edition)
  /\ cache \in [ver : Nat, at : Nat] \cup {NoCache}
  /\ calls \in [Calls -> Call \cup {Idle}]
  /\ refreshed \in Nat
  /\ quietly \in Nat

Init ==
  /\ now = 0
  /\ \E m \in Matrices : edits = <<[matrix |-> m, at |-> 0]>>
  /\ cache = NoCache
  /\ calls = [c \in Calls |-> Idle]
  /\ refreshed = 0
  /\ quietly = 0

-----------------------------------------------------------------------------
(* load *)

\* Mutation: the boundary of the ttl is still fresh.
FreshLonger == cache # NoCache /\ now - cache.at <= Ttl

Fresh == cache # NoCache /\ now - cache.at < Ttl

\* policy() or grants() is called: a fresh cache answers at once.
Ask(c) ==
  /\ calls[c] = Idle
  /\ calls' = [calls EXCEPT ![c] =
       [pc |-> IF Fresh THEN "served" ELSE "query",
        asked |-> IF Fresh THEN 0 ELSE now,
        ver |-> IF Fresh THEN cache.ver ELSE 0,
        floor |-> refreshed, quietFloor |-> quietly]]
  /\ UNCHANGED <<now, edits, cache, refreshed, quietly>>

\* The database reads the matrix for the query.
Answer(c) ==
  /\ calls[c].pc = "query"
  /\ calls' = [calls EXCEPT ![c].pc = "store", ![c].ver = Len(edits)]
  /\ UNCHANGED <<now, edits, cache, refreshed, quietly>>

\* The query throws: the call rejects and the cache is left alone.
QueryFails(c) ==
  /\ calls[c].pc = "query"
  /\ calls' = [calls EXCEPT ![c] = Idle]
  /\ UNCHANGED <<now, edits, cache, refreshed, quietly>>

\* Mutation: the cache is stored without its time.
StoreUnstamped(c) ==
  /\ calls[c].pc = "store"
  /\ cache' = [ver |-> calls[c].ver]
  /\ calls' = [calls EXCEPT ![c].pc = "served"]
  /\ UNCHANGED <<now, edits, refreshed, quietly>>

\* The rows arrive: they are cached under the time of arrival and returned.
Store(c) ==
  /\ calls[c].pc = "store"
  /\ cache' = [ver |-> calls[c].ver, at |-> now]
  /\ calls' = [calls EXCEPT ![c].pc = "served", ![c].asked = 0]
  /\ UNCHANGED <<now, edits, refreshed, quietly>>

\* Mutation: only an expired cache is dropped.
RefreshExpired ==
  /\ cache' = IF Fresh THEN cache ELSE NoCache
  /\ refreshed' = Len(edits)
  /\ quietly' = IF \E c \in Calls : Loading(c) THEN quietly ELSE Len(edits)
  /\ UNCHANGED <<now, edits, calls>>

\* refresh()
Refresh ==
  /\ cache' = NoCache
  /\ refreshed' = Len(edits)
  /\ quietly' = IF \E c \in Calls : Loading(c) THEN quietly ELSE Len(edits)
  /\ UNCHANGED <<now, edits, calls>>

-----------------------------------------------------------------------------
(* policy *)

\* The caller is done with its policy.
Finish(c) ==
  /\ calls[c].pc = "served"
  /\ calls' = [calls EXCEPT ![c] = Idle]
  /\ UNCHANGED <<now, edits, cache, refreshed, quietly>>

\* Mutation: a filter that cannot be read is dropped and its grant kept.
LoadedAnyway(M) ==
  {[role |-> g.role, table |-> g.table, actions |-> g.actions,
    filter |-> IF g.readable THEN g.filter ELSE <<>>] : g \in M}

\* A grant whose filter cannot be read is not loaded at all.
Loaded(M) ==
  {[role |-> g.role, table |-> g.table, actions |-> g.actions, filter |-> g.filter]
     : g \in {h \in M : h.readable}}

\* The matrix as it was stored, and the policy made of it, for call c.
Matrix(c) == edits[calls[c].ver].matrix
Policy(c) == Loaded(Matrix(c))

-----------------------------------------------------------------------------
(* The rest of the world *)

\* Somebody edits the matrix.
Edit(m) ==
  /\ Len(edits) < MaxEdits
  /\ m # edits[Len(edits)].matrix
  /\ edits' = Append(edits, [matrix |-> m, at |-> now])
  /\ UNCHANGED <<now, cache, calls, refreshed, quietly>>

\* No query is in flight for more than MaxFlight ticks.
Tick ==
  /\ now < MaxClock
  /\ \A c \in Calls : Loading(c) => now < calls[c].asked + MaxFlight
  /\ now' = now + 1
  /\ UNCHANGED <<edits, cache, calls, refreshed, quietly>>

Next ==
  \/ \E c \in Calls : Ask(c) \/ Answer(c) \/ QueryFails(c) \/ Store(c) \/ Finish(c)
  \/ Refresh
  \/ \E m \in Matrices : Edit(m)
  \/ Tick

Spec == Init /\ [][Next]_vars

-----------------------------------------------------------------------------
(* Properties *)

Served(c) == calls[c].pc = "served"

\* No decision lets through a row that none of the actor's stored grants allows:
\* not by a filter that cannot be read, not by a claim the actor does not carry,
\* not by combining roles (grants.ts, parseFilter; access.ts, substitute and can).
NoWidening ==
  \A c \in Calls : Served(c) =>
    \A a \in Actor, t \in Tables, act \in Actions :
      RowsOf(Can(Policy(c), a, t, act))
        \subseteq RowsMay({g \in Matrix(c) : g.readable}, a, t, act)

\* "Holding two roles cannot leave you with less than either alone" (access.ts):
\* so it is, unless the roles restrict the table to different rows.
RolesAdd ==
  \A c \in Calls : Served(c) =>
    \A a \in Actor, t \in Tables, act \in Actions :
      \/ Conflict(Policy(c), a, t, act)
      \/ \A r \in a.roles :
           RowsOf(Can(Policy(c), [a EXCEPT !.roles = {r}], t, act))
             \subseteq RowsOf(Can(Policy(c), a, t, act))

\* refresh() does its job when no load was in flight: every call begun after it
\* is served the matrix as it was then, or a newer one.
QuietRefreshShowsEdits == \A c \in Calls : Served(c) => calls[c].ver >= calls[c].quietFloor

\* An edit is in force within the ttl plus the time a query takes, whatever loads
\* overlap and whether or not anybody called refresh().
InForce(c) ==
  /\ ~Served(c) /\ Served(c)'
  /\ calls'[c].ver < Len(edits)
  => now < edits[calls'[c].ver + 1].at + MaxFlight + Ttl

EditsTakeEffect == [][\A c \in Calls : InForce(c)]_vars

\* What grants.ts says of refresh(): "Drop the cache - call after editing the
\* matrix."  A call begun after it never sees the matrix of before.
RefreshShowsEdits == \A c \in Calls : Served(c) => calls[c].ver >= calls[c].floor
=============================================================================
