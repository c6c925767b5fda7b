-------------------------- MODULE MCPasswordReset --------------------------
(* A small instance of PasswordReset for TLC.                              *)
EXTENDS PasswordReset, TLC

CONSTANTS r1, r2

Symmetry == Permutations(Requests)
=============================================================================
