-------------------------- MODULE MCResolverWrites --------------------------
(* An instance of ResolverWrites for TLC. *)
EXTENDS ResolverWrites

CONSTANTS c1, c2, r1, x, y

MCScopes == {"ann", Everyone}
=============================================================================
