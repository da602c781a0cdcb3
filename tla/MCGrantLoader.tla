---------------------------- MODULE MCGrantLoader ----------------------------
(* An instance of GrantLoader for TLC: one table, two roles whose grants take *)
(* every form a row filter has, and a superuser role.                         *)
EXTENDS GrantLoader, TLC

CONSTANTS member, rep, super, c1, c2, none

MCRoles == {member, rep, super}

\* "own rows", "published rows" and no restriction
OwnRows == <<[kind |-> "actor", column |-> "owner", claim |-> "customer"]>>
Published == <<[kind |-> "is", column |-> "status", value |-> 1]>>

Stored(r, f) == [role |-> r, table |-> "orders", actions |-> {"read"},
                 readable |-> TRUE, filter |-> f]
Broken(r) == [Stored(r, <<>>) EXCEPT !.readable = FALSE]

\* What two roles can be to each other: one restricted, two restricted alike or
\* differently, one unrestricted, one that cannot be read.
MCMatrices ==
  { {Stored(member, OwnRows)},
    {Stored(member, OwnRows), Stored(rep, OwnRows)},
    {Stored(member, OwnRows), Stored(rep, Published)},
    {Stored(member, OwnRows), Stored(rep, <<>>)},
    {Stored(member, OwnRows), Broken(rep)},
    {Broken(member), Broken(rep)} }

CallSymmetry == Permutations(Calls)
=============================================================================
