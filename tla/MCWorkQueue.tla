---------------------------- MODULE MCWorkQueue ----------------------------
(* Instances of WorkQueue for TLC.  Jobs of one kind are interchangeable,   *)
(* and so are seekers and listings.                                         *)
EXTENDS WorkQueue, TLC

Symmetry == Permutations(PaidJobs) \cup Permutations(CashJobs)
              \cup Permutations(Seekers) \cup Permutations(Listings)
============================================================================
