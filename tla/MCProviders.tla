---------------------------- MODULE MCProviders ----------------------------
(* Instances of Providers for TLC.  Payments and listings are               *)
(* interchangeable.                                                         *)
EXTENDS Providers, TLC

Symmetry == Permutations(Payments) \cup Permutations(Listings)
============================================================================
