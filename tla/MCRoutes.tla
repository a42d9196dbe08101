------------------------------ MODULE MCRoutes ------------------------------
(***************************************************************************)
(* Small instances of Routes.                                              *)
(***************************************************************************)
EXTENDS Routes, TLC

CONSTANTS a, b, d1, d2, i1, i2, i3

Symmetry == Permutations(Names) \cup Permutations(CIDRs) \cup Permutations(IPs)
=============================================================================
