----------------------------- MODULE MCSessions -----------------------------
(* Instances of Sessions for TLC. *)
EXTENDS Sessions, TLC

CONSTANTS u1, site, admin, b1, c1, c2, c3

RequestSymmetry == Permutations(Requests)
=============================================================================
