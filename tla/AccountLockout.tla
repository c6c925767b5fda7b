--------------------------- MODULE AccountLockout ---------------------------
(***************************************************************************)
(* Brute-force protection of one active account: the failed-login counter  *)
(* and the lock of its row, and the login attempts that read and write     *)
(* them.  Accounts share nothing, so one is enough.                        *)
(*                                                                         *)
(* One action is one awaited call of validateCredentials: the SELECT, the  *)
(* argon2 verification (which runs in a worker thread), and the UPDATEs    *)
(* that follow.  Attempts interleave at the awaits, and decide on the row  *)
(* as they read it.                                                        *)
(***************************************************************************)
EXTENDS Naturals, FiniteSets

CONSTANTS
  Requests,     \* slots for login attempts in flight
  MaxAttempts,  \* security.maxLoginAttempts
  MaxCount,     \* bound: the counter, attempts in flight included
  MaxLost       \* bound: attempts lost between a wrong password and its lock

ASSUME AttemptsAssumption == MaxAttempts \in Nat \ {0}
ASSUME BoundsAssumption == MaxCount \in Nat /\ MaxLost \in Nat
ASSUME RequestsAssumption == IsFiniteSet(Requests)

VARIABLES
  failed,       \* column failed_login_attempts
  lock,         \* column locked_until: null, in the future, in the past
  att,          \* the attempts in flight
  guesses,      \* history: wrong passwords verified since the row was last
                \* cleared or a lock ran out
  lost,         \* history: attempts ended between a wrong password and its lock
  oldFailures,  \* history: attempts that read a positive counter, not cleared since
  oldLock       \* history: attempts that read a lock, not cleared or renewed since

history == <<guesses, lost, oldFailures, oldLock>>
vars == <<failed, lock, att, history>>

Locks == {"null", "future", "past"}
Pcs == {"idle", "find", "verify", "count", "lock", "clear", "reply"}
Statuses == {"none", "ok", "invalid", "locked"}

(* good: the presented password is the right one; dirty: the row as read   *)
(* held something that a success has to clear.                             *)
NoAttempt == [pc |-> "idle", good |-> FALSE, dirty |-> FALSE, status |-> "none"]

Init ==
  /\ failed = 0
  /\ lock = "null"
  /\ att = [r \in Requests |-> NoAttempt]
  /\ guesses = 0
  /\ lost = 0
  /\ oldFailures = {}
  /\ oldLock = {}

At(r, pc) == att[r].pc = pc
InFlight(pcs) == {r \in Requests : att[r].pc \in pcs}
Become(r, attempt) == att' = [att EXCEPT ![r] = attempt]
Goto(r, pc) == Become(r, [att[r] EXCEPT !.pc = pc])
Answer(r, status) == Become(r, [att[r] EXCEPT !.pc = "reply", !.status = status])

-----------------------------------------------------------------------------
(* Arrivals leave room for the failures that may still be counted.         *)
Begin(r, g) ==
  /\ At(r, "idle")
  /\ failed + Cardinality(InFlight({"find", "verify", "count"})) < MaxCount
  /\ Become(r, [NoAttempt EXCEPT !.pc = "find", !.good = g])
  /\ UNCHANGED <<failed, lock, history>>

(* The row is read once; a lock that has run out is no lock.               *)
FindLocked(r) ==
  /\ At(r, "find")
  /\ lock = "future"
  /\ Answer(r, "locked")
  /\ UNCHANGED <<failed, lock, history>>

ReadRow(r, isDirty) ==
  /\ At(r, "find")
  /\ Become(r, [att[r] EXCEPT !.pc = "verify", !.dirty = isDirty])
  /\ oldFailures' = IF failed > 0 THEN oldFailures \cup {r} ELSE oldFailures
  /\ oldLock' = IF lock # "null" THEN oldLock \cup {r} ELSE oldLock
  /\ UNCHANGED <<failed, lock, guesses, lost>>

(* Mutants: the lock is not looked at; only a lock counts as dirt.         *)
BugIgnoreLock(r) == ReadRow(r, failed > 0 \/ lock # "null")
BugDirtyLockOnly(r) == lock # "future" /\ ReadRow(r, lock # "null")

FindOpen(r) == lock # "future" /\ ReadRow(r, failed > 0 \/ lock # "null")

VerifyWrong(r) ==
  /\ At(r, "verify")
  /\ ~att[r].good
  /\ guesses' = guesses + 1
  /\ Goto(r, "count")
  /\ UNCHANGED <<failed, lock, lost, oldFailures, oldLock>>

VerifyRight(r) ==
  /\ At(r, "verify")
  /\ att[r].good
  /\ \/ att[r].dirty /\ Goto(r, "clear")
     \/ ~att[r].dirty /\ Answer(r, "ok")
  /\ UNCHANGED <<failed, lock, history>>

-----------------------------------------------------------------------------
(* A failure: the counter is incremented in the database, which returns    *)
(* the new value; the lock is a second UPDATE.                             *)

CountAgainst(r, threshold) ==
  /\ At(r, "count")
  /\ failed' = failed + 1
  /\ \/ failed + 1 >= threshold /\ Goto(r, "lock")
     \/ failed + 1 < threshold /\ Answer(r, "invalid")
  /\ UNCHANGED <<lock, history>>

(* Mutant: the threshold is tested one too high.                           *)
BugThreshold(r) == CountAgainst(r, MaxAttempts + 1)

Count(r) == CountAgainst(r, MaxAttempts)

Lock(r) ==
  /\ At(r, "lock")
  /\ lock' = "future"
  /\ oldLock' = {}
  /\ Answer(r, "invalid")
  /\ UNCHANGED <<failed, guesses, lost, oldFailures>>

-----------------------------------------------------------------------------
(* A success clears the row when the attempt had read something to clear;  *)
(* so does a new password, whoever stores it.                              *)

ClearRow ==
  /\ failed' = 0
  /\ lock' = "null"
  /\ guesses' = 0
  /\ oldFailures' = {}
  /\ oldLock' = {}
  /\ UNCHANGED lost

(* Mutant: a success takes one threshold off the counter.                  *)
BugClearSubtracts(r) ==
  /\ At(r, "clear")
  /\ failed' = failed - MaxAttempts
  /\ lock' = "null"
  /\ Answer(r, "ok")
  /\ UNCHANGED history

Clear(r) == At(r, "clear") /\ ClearRow /\ Answer(r, "ok")

SetPassword == ClearRow /\ UNCHANGED att

Leave(r) == oldFailures' = oldFailures \ {r} /\ oldLock' = oldLock \ {r}

Reply(r) ==
  /\ At(r, "reply")
  /\ Become(r, NoAttempt)
  /\ Leave(r)
  /\ UNCHANGED <<failed, lock, guesses, lost>>

(* A statement rejects, the process stops: nothing is undone.              *)
Fail(r) ==
  /\ ~At(r, "idle")
  /\ \/ att[r].pc \in {"count", "lock"} /\ lost < MaxLost /\ lost' = lost + 1
     \/ att[r].pc \notin {"count", "lock"} /\ UNCHANGED lost
  /\ Become(r, NoAttempt)
  /\ Leave(r)
  /\ UNCHANGED <<failed, lock, guesses>>

(* The lock runs out.                                                      *)
LockEnds ==
  /\ lock = "future"
  /\ lock' = "past"
  /\ guesses' = 0
  /\ UNCHANGED <<failed, att, lost, oldFailures, oldLock>>

-----------------------------------------------------------------------------
Next ==
  \/ \E r \in Requests :
       \/ \E g \in BOOLEAN : Begin(r, g)
       \/ FindLocked(r) \/ FindOpen(r) \/ VerifyWrong(r) \/ VerifyRight(r)
       \/ Count(r) \/ Lock(r) \/ Clear(r) \/ Reply(r) \/ Fail(r)
  \/ SetPassword \/ LockEnds

Spec == Init /\ [][Next]_vars

-----------------------------------------------------------------------------
(* Properties.                                                             *)

AttemptType == [pc : Pcs, good : BOOLEAN, dirty : BOOLEAN, status : Statuses]

(* Every variable has its type; the counter is never negative.             *)
TypeOK ==
  /\ failed \in 0..MaxCount
  /\ lock \in Locks
  /\ att \in [Requests -> AttemptType]
  /\ guesses \in Nat
  /\ lost \in 0..MaxLost
  /\ oldFailures \in SUBSET Requests
  /\ oldLock \in SUBSET Requests

(* Between two unlocks at most MaxAttempts - 1 + |Requests| wrong passwords *)
(* are tried, plus one for every attempt lost between its verification and  *)
(* its lock: attempts in flight when the threshold is met are still         *)
(* verified, but no attempt that arrives after the lock is.  A lock that    *)
(* has run out leaves the counter at the threshold, which only tightens it. *)
GuessBudget == guesses + 1 <= MaxAttempts + Cardinality(Requests) + lost

(* An account whose counter has met the threshold has been locked, unless   *)
(* the UPDATE that locks it is still to come or was lost.                   *)
ThresholdLocks ==
  failed >= MaxAttempts => lock # "null" \/ InFlight({"lock"}) # {} \/ lost > 0

(* README.md:145: a successful login clears the counter.  At the answer,    *)
(* nothing counted and no lock set before the attempt read the row is left, *)
(* although the row is only written when the attempt had read it dirty.     *)
SuccessForgets ==
  \A r \in Requests :
    At(r, "reply") /\ att[r].status = "ok" => r \notin oldFailures \cup oldLock
=============================================================================
