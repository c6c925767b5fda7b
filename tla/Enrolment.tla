----------------------------- MODULE Enrolment -----------------------------
(***************************************************************************)
(* What two-factor enrolment promises, with no requests and no statements  *)
(* in view: a secret is prepared and confirmed before the second factor is *)
(* active, the factor and a batch of recovery codes come and go in one     *)
(* step, and a code that is gone does not come back.                       *)
(***************************************************************************)
EXTENDS Naturals

VARIABLES
  active,     \* the second factor is on, with recovery codes to it
  secret,     \* the secret prepared last, 0 for none
  codes,      \* the recovery codes that can still be used
  prepared,   \* secrets that are or have been prepared
  confirmed,  \* secrets the owner has shown a code of
  issued      \* recovery codes that are or have been issued

vars == <<active, secret, codes, prepared, confirmed, issued>>

Init ==
  /\ active = FALSE
  /\ secret = 0
  /\ codes = {} /\ prepared = {} /\ confirmed = {} /\ issued = {}

(* A secret may be replaced while the factor is active: setup does not ask.*)
Prepare(s) ==
  /\ s \notin prepared \cup {0}
  /\ secret' = s
  /\ prepared' = prepared \cup {s}
  /\ UNCHANGED <<active, codes, confirmed, issued>>

Confirm ==
  /\ secret # 0
  /\ confirmed' = confirmed \cup {secret}
  /\ UNCHANGED <<active, secret, codes, prepared, issued>>

(* The first time, or again with new codes.                                *)
Activate(c) ==
  /\ secret \in confirmed
  /\ c \notin issued
  /\ active' = TRUE
  /\ codes' = {c}
  /\ issued' = issued \cup {c}
  /\ UNCHANGED <<secret, prepared, confirmed>>

Spend(c) ==
  /\ active
  /\ c \in codes
  /\ codes' = codes \ {c}
  /\ UNCHANGED <<active, secret, prepared, confirmed, issued>>

Deactivate ==
  /\ active
  /\ active' = FALSE
  /\ secret' = 0
  /\ codes' = {}
  /\ UNCHANGED <<prepared, confirmed, issued>>

Next ==
  \/ \E s \in Nat : Prepare(s)
  \/ Confirm
  \/ \E c \in Nat : Activate(c)
  \/ \E c \in codes : Spend(c)
  \/ Deactivate

Spec == Init /\ [][Next]_vars
=============================================================================
