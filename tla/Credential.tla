---------------------------- MODULE Credential ----------------------------
(***************************************************************************)
(* What an account's password promises, with no requests and no statements *)
(* in view: a reset token replaces it once and takes every other token and *)
(* every session with it, a change takes every session, and sessions are   *)
(* opened, by login or in exchange for another, for the password of the    *)
(* day.                                                                    *)
(***************************************************************************)
EXTENDS Naturals

VARIABLES
  password,  \* the password, as the number of those before it
  usable,    \* reset tokens that can replace it
  open,      \* open sessions, each with the password it was opened with
  issued,    \* reset tokens that are or have been usable
  opened     \* sessions that are or have been open

vars == <<password, usable, open, issued, opened>>

Init ==
  /\ password = 0
  /\ usable = {} /\ open = {} /\ issued = {} /\ opened = {}

(* A token issued while a reset is under way is void from the start.       *)
Issue(t) ==
  /\ t \notin issued
  /\ usable' \in {usable, usable \cup {t}}
  /\ issued' = issued \cup {t}
  /\ UNCHANGED <<password, open, opened>>

Expire(t) ==
  /\ t \in usable
  /\ usable' = usable \ {t}
  /\ UNCHANGED <<password, open, issued, opened>>

Reset(t) ==
  /\ t \in usable
  /\ password' = password + 1
  /\ usable' = {}
  /\ open' = {}
  /\ UNCHANGED <<issued, opened>>

Change ==
  /\ password' = password + 1
  /\ open' = {}
  /\ UNCHANGED <<usable, issued, opened>>

(* So is a session opened while a reset or a change is.                    *)
OpenSession(s) ==
  /\ s \notin opened
  /\ open' \in {open, open \cup {[session |-> s, era |-> password]}}
  /\ opened' = opened \cup {s}
  /\ UNCHANGED <<password, usable, issued>>

(* Traded in for another, or revoked with all there are.                   *)
CloseSessions ==
  /\ open' \in SUBSET open
  /\ UNCHANGED <<password, usable, issued, opened>>

Next ==
  \/ \E t \in Nat : Issue(t)
  \/ \E t \in usable : Expire(t) \/ Reset(t)
  \/ Change
  \/ \E s \in Nat : OpenSession(s)
  \/ CloseSessions

Spec == Init /\ [][Next]_vars
=============================================================================
