---------------------------- MODULE MCSessions -----------------------------
(* Instances of Sessions for TLC.  Rows, Google accounts and requests are   *)
(* interchangeable.                                                         *)
EXTENDS Sessions, TLC

Symmetry == Permutations(Sids) \cup Permutations(Links)
              \cup Permutations(Subjects) \cup Permutations(Calls)
============================================================================
