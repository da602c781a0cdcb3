------------------------------- MODULE MCActAs -------------------------------
(* An instance of ActAs for TLC. *)
EXTENDS ActAs, TLC

CONSTANTS boss, ada, c1, c2, k1, k2

RequestSymmetry == Permutations(Requests)
=============================================================================
