----------------------------- MODULE MCReports ------------------------------
(* Instances of Reports for TLC. *)
EXTENDS Reports, TLC
CONSTANTS k1, k2
Symmetry == Permutations(Keys)
=============================================================================
