---------------------------- MODULE LoginSession ----------------------------
(***************************************************************************)
(* What refresh tokens promise, with no requests, rows or crashes in view: *)
(* a login opens a session, a session has one current token at a time, a   *)
(* rotation replaces it in one step by a token that was never current      *)
(* before, and a session that has ended stays ended.                       *)
(***************************************************************************)
EXTENDS Naturals

CONSTANT MaxTokens   \* bound: tokens; a session is named by its first token

Tokens == 1..MaxTokens

VARIABLES
  current,   \* the current token of an open session, 0 for the others
  opened,    \* sessions opened so far
  spent      \* tokens that are or have been current

vars == <<current, opened, spent>>

Init ==
  /\ current = [f \in Tokens |-> 0]
  /\ opened = {}
  /\ spent = {}

Open(f) ==
  /\ f \notin opened \cup spent
  /\ opened' = opened \cup {f}
  /\ current' = [current EXCEPT ![f] = f]
  /\ spent' = spent \cup {f}

Rotate(f, t) ==
  /\ current[f] # 0
  /\ t \notin spent
  /\ current' = [current EXCEPT ![f] = t]
  /\ spent' = spent \cup {t}
  /\ UNCHANGED opened

(* One session ends (logout) or all those of a user (purge).               *)
End(F) ==
  /\ F \subseteq {f \in opened : current[f] # 0}
  /\ current' = [f \in Tokens |-> IF f \in F THEN 0 ELSE current[f]]
  /\ UNCHANGED <<opened, spent>>

Next ==
  \/ \E f \in Tokens : Open(f)
  \/ \E f, t \in Tokens : Rotate(f, t)
  \/ \E F \in SUBSET opened : End(F)

Spec == Init /\ [][Next]_vars
=============================================================================
