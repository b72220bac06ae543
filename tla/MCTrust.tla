------------------------------ MODULE MCTrust ------------------------------
(* Instances of Trust for TLC: one account that a penalty takes to 0, one    *)
(* that a reward takes to 100.  Bookings and cases are interchangeable.      *)
EXTENDS Trust, TLC

CONSTANTS u1, u2

MCPastScore == (u1 :> 4) @@ (u2 :> 99)

Symmetry == Permutations(Bookings) \cup Permutations(Cases)
============================================================================
