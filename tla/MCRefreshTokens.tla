-------------------------- MODULE MCRefreshTokens --------------------------
(* Small instances of RefreshTokens for TLC.                               *)
EXTENDS RefreshTokens, TLC

CONSTANTS u1, u2, r1, r2

(* Users are interchangeable, and so are request slots.                    *)
Symmetry == Permutations(Users) \cup Permutations(Requests)
=============================================================================
