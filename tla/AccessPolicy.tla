---------------------------- MODULE AccessPolicy ----------------------------
(***************************************************************************)
(* The permission decision of packages/auth/src/access.ts as an operator:  *)
(* grants and an actor in, a decision out.  A row filter is a sequence of  *)
(* predicates "column = value", the value either literal or a reference to *)
(* a claim of the actor ($actor.x; userId is a claim like any other here). *)
(* A decision's scope is what the query layer ANDs to its WHERE.           *)
(*                                                                         *)
(* RowsOf says which rows a decision lets through and RowsMay which rows   *)
(* the grants, read one by one, allow: the reference Can is compared with. *)
(***************************************************************************)
EXTENDS Naturals, Sequences, FiniteSets

CONSTANTS
  Roles,       \* role keys
  SuperRoles,  \* superuserRoles: the roles that bypass the model
  Tables,
  Actions,     \* create, read, update, delete
  Columns,
  Values,      \* what a column or a claim may hold
  ClaimNames,
  Absent       \* the value of a claim the actor does not carry

ASSUME PolicyAssumption == SuperRoles \subseteq Roles /\ Absent \notin Values

Literal == [kind : {"is"}, column : Columns, value : Values]
OfActor == [kind : {"actor"}, column : Columns, claim : ClaimNames]
Predicate == Literal \cup OfActor

Grant == [role : Roles, table : Tables, actions : SUBSET Actions, filter : Seq(Predicate)]
Actor == [roles : SUBSET Roles, claims : [ClaimNames -> Values \cup {Absent}]]
Row == [Columns -> Values]

Everything == [allowed |-> TRUE, scope |-> <<>>]
Denied == [allowed |-> FALSE, scope |-> <<>>]

-----------------------------------------------------------------------------
Bypasses(a) == a.roles \cap SuperRoles # {}

Applicable(G, a, t, act) ==
  {g \in G : g.role \in a.roles /\ g.table = t /\ act \in g.actions}

Missing(a, p) == p.kind = "actor" /\ a.claims[p.claim] = Absent

Substituted(a, p) ==
  IF p.kind = "actor"
  THEN [kind |-> "is", column |-> p.column, value |-> a.claims[p.claim]]
  ELSE p

\* substitute: a claim the actor does not carry denies, it does not widen.
Substitute(a, f) ==
  IF \E i \in DOMAIN f : Missing(a, f[i])
  THEN Denied
  ELSE [allowed |-> TRUE, scope |-> [i \in DOMAIN f |-> Substituted(a, f[i])]]

\* Every applicable grant is restricted: one restriction is honoured, several
\* cannot be ORed and refuse.
Combined(a, F) ==
  IF Cardinality(F) > 1 THEN Denied ELSE Substitute(a, CHOOSE f \in F : TRUE)

\* Mutation: the unrestricted grant is counted with the others.
CanStrict(G, a, t, act) ==
  LET F == {g.filter : g \in Applicable(G, a, t, act)}
  IN  IF Bypasses(a) THEN Everything
      ELSE IF F = {} THEN Denied
      ELSE Combined(a, F)

\* can
Can(G, a, t, act) ==
  LET F == {g.filter : g \in Applicable(G, a, t, act)}
  IN  IF Bypasses(a) THEN Everything
      ELSE IF F = {} THEN Denied
      ELSE IF <<>> \in F THEN Everything
      ELSE Combined(a, F)

-----------------------------------------------------------------------------
(* The reference *)

\* r satisfies p for actor a; a missing claim matches no row.
Satisfies(r, a, p) ==
  IF p.kind = "actor" THEN r[p.column] = a.claims[p.claim] ELSE r[p.column] = p.value

RowsOf(d) ==
  IF d.allowed THEN {r \in Row : \A i \in DOMAIN d.scope : r[d.scope[i].column] = d.scope[i].value}
  ELSE {}

RowsOfGrant(a, g) == {r \in Row : \A i \in DOMAIN g.filter : Satisfies(r, a, g.filter[i])}

RowsMay(G, a, t, act) ==
  IF Bypasses(a) THEN Row
  ELSE UNION {RowsOfGrant(a, g) : g \in Applicable(G, a, t, act)}

\* Some applicable grants restrict the rows, none is unrestricted, and their
\* restrictions differ.
Conflict(G, a, t, act) ==
  LET F == {g.filter : g \in Applicable(G, a, t, act)}
  IN  ~Bypasses(a) /\ <<>> \notin F /\ Cardinality(F) > 1
=============================================================================
