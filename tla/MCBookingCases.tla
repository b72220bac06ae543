--------------------------- MODULE MCBookingCases ---------------------------
(* Small instances of BookingCases for TLC.                                *)
EXTENDS BookingCases, TLC

\* Workers and the rows of one kind of case are interchangeable.
Symmetry == Permutations(Workers) \cup Permutations(Requests)
              \cup Permutations(Reports) \cup Permutations(Escalations)
=============================================================================
