---------------------------- MODULE SessionLeases ----------------------------
(***************************************************************************)
(* What a session store promises, with no requests, clocks or cookies: a   *)
(* set of leases, each held by the one pair of tokens issued for it last.  *)
(* A pair opens a lease or replaces the pair of one lease; it is never     *)
(* issued twice, and a lease that ended does not come back.                *)
(***************************************************************************)
EXTENDS Naturals

CONSTANTS Users, Surfaces

VARIABLES
  leases,  \* the open leases
  issued   \* how many pairs were issued: the last one's number

Lease == [id: Nat, user: Users, origin: Surfaces, pair: Nat]

Init == leases = {} /\ issued = 0

Open(u, s) ==
  /\ issued' = issued + 1
  /\ leases' = leases \cup {[id |-> issued', user |-> u, origin |-> s, pair |-> issued']}

Renew(l) ==
  /\ issued' = issued + 1
  /\ leases' = (leases \ {l}) \cup {[l EXCEPT !.pair = issued']}

End(D) ==
  /\ leases' = leases \ D
  /\ UNCHANGED issued

Next ==
  \/ \E u \in Users, s \in Surfaces : Open(u, s)
  \/ \E l \in leases : Renew(l)
  \/ \E D \in SUBSET leases : End(D)

Spec == Init /\ [][Next]_<<leases, issued>>
=============================================================================
