------------------------------ MODULE MCFiles ------------------------------
(* A small instance of Files for TLC.                                      *)
EXTENDS Files, TLC

CONSTANTS r1, r2, r3

Symmetry == Permutations(Requests)
=============================================================================
