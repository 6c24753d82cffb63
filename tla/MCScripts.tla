------------------------------ MODULE MCScripts -----------------------------
(* Instances of Scripts for TLC.                                           *)
EXTENDS Scripts

AllOfThem == AllOps
Symmetry == Permutations(Sessions)
=============================================================================
