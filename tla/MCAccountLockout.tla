-------------------------- MODULE MCAccountLockout --------------------------
(* Small instances of AccountLockout for TLC.                              *)
EXTENDS AccountLockout, TLC

CONSTANTS r1, r2, r3

Symmetry == Permutations(Requests)
=============================================================================
