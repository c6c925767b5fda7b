----------------------------- MODULE TwoFactor -----------------------------
(***************************************************************************)
(* The second factor of one active account: enrolment, recovery codes and  *)
(* the login in two steps.  One action is one awaited statement of         *)
(* TwoFactorService and AuthService; a request decides on the account as   *)
(* its SELECT returned it.                                                 *)
(*                                                                         *)
(* A secret is the number of the setup that made it, a recovery code the   *)
(* number of the enable that made it: one code of a batch stands for all.  *)
(* Whether a TOTP code is right in time is a choice (module Totp).         *)
(***************************************************************************)
EXTENDS Naturals, FiniteSets

CONSTANTS
  Requests,   \* slots for requests in flight
  MaxSetups,  \* bound: setups
  MaxBatches  \* bound: batches of recovery codes

ASSUME RequestsAssumption == IsFiniteSet(Requests)
ASSUME BoundsAssumption == MaxSetups \in Nat /\ MaxBatches \in Nat

VARIABLES
  enabled,    \* column two_factor_enabled
  secret,     \* column two_factor_secret, 0 for null
  unused,     \* table two_factor_recovery_codes: rows with usedAt null
  used,       \* the other rows
  challenged, \* a challenge token has been issued
  req,        \* the requests in flight
  setups,     \* how many secrets were generated
  batches,    \* how many batches of recovery codes were stored
  confirmed,  \* history: secrets a code was verified against by enable
  guarded,    \* history: requests since whose arrival 2FA has been enabled
  spent,      \* history: verifications each recovery code has passed
  overlapped, \* history: two requests that change the enrolment overlapped
  broken      \* history: an enable or disable was lost part way

table == <<enabled, secret, unused, used>>
account == <<table, challenged, setups, batches>>
history == <<confirmed, guarded, spent, overlapped, broken>>
vars == <<account, req, history>>

Secrets == 0..MaxSetups
Batches == 1..MaxBatches
Codes == [kind : {"totp"}, of : Secrets] \cup [kind : {"recovery"}, of : Batches]
Wrong == [kind |-> "totp", of |-> 0]
Changes == {"setup", "enable", "disable"}
Ops == {"none", "login", "second"} \cup Changes
Pcs == {"idle", "secret", "find", "lookup", "use", "switch", "codes", "create", "off", "delete",
        "issue", "reply"}
Statuses == {"none", "ok", "denied", "error", "challenge", "session"}
Factors == {"none", "totp", "recovery"}

(* doomed: the rows that the DELETE of a transaction saw.                  *)
NoRequest == [op |-> "none", pc |-> "idle", code |-> Wrong, factor |-> "none", doomed |-> {},
              status |-> "none"]

Init ==
  /\ enabled = FALSE
  /\ secret = 0
  /\ unused = {}
  /\ used = {}
  /\ challenged = FALSE
  /\ req = [r \in Requests |-> NoRequest]
  /\ setups = 0
  /\ batches = 0
  /\ confirmed = {}
  /\ guarded = {}
  /\ spent = [b \in Batches |-> 0]
  /\ overlapped = FALSE
  /\ broken = FALSE

At(r, pc) == req[r].pc = pc
Reads(r, op) == At(r, "find") /\ req[r].op = op
InFlight(pcs) == {r \in Requests : req[r].pc \in pcs}
Running(ops) == {r \in Requests : req[r].op \in ops /\ ~At(r, "reply")}
Become(r, request) == req' = [req EXCEPT ![r] = request]
Goto(r, pc) == Become(r, [req[r] EXCEPT !.pc = pc])
Answer(r, status) == Become(r, [req[r] EXCEPT !.pc = "reply", !.code = Wrong, !.status = status])

-----------------------------------------------------------------------------
(* Arrivals.  A setup and an enable leave room for what they will store.   *)
(* The codes of a secret or a batch are known once it has been made.  An   *)
(* enable and a disable take six digits, which no recovery code is.        *)
Known(code) == code.of <= IF code.kind = "totp" THEN setups ELSE batches

Arrive(r, op, pc, code) ==
  /\ At(r, "idle")
  /\ Known(code)
  /\ Become(r, [NoRequest EXCEPT !.op = op, !.pc = pc, !.code = code])
  /\ guarded' = IF enabled THEN guarded \cup {r} ELSE guarded
  /\ overlapped' = (overlapped \/ (op \in Changes /\ Running(Changes) # {}))
  /\ UNCHANGED <<account, confirmed, spent, broken>>

BeginSetup(r) ==
  setups + Cardinality(Running({"setup"})) < MaxSetups /\ Arrive(r, "setup", "secret", Wrong)

BeginEnable(r, code) ==
  /\ batches + Cardinality(Running({"enable"})) < MaxBatches
  /\ code.kind = "totp"
  /\ Arrive(r, "enable", "find", code)

BeginDisable(r, code) == code.kind = "totp" /\ Arrive(r, "disable", "find", code)

BeginLogin(r) == Arrive(r, "login", "find", Wrong)

(* Second step: a token with the claim typ '2fa', or one that is garbage,  *)
(* expired, or an access token.                                            *)
BeginSecond(r, code) == challenged /\ Arrive(r, "second", "find", code)

BeginNoChallenge(r) ==
  /\ At(r, "idle")
  /\ Become(r, [NoRequest EXCEPT !.op = "second", !.pc = "reply", !.status = "denied"])
  /\ UNCHANGED <<account, history>>

-----------------------------------------------------------------------------
(* Enrolment.                                                              *)
SetSecret(r) ==
  /\ At(r, "secret")
  /\ setups' = setups + 1
  /\ secret' = setups'
  /\ Answer(r, "ok")
  /\ UNCHANGED <<enabled, unused, used, challenged, batches, history>>

EnableDenied(r) ==
  Reads(r, "enable") /\ Answer(r, "denied") /\ UNCHANGED <<account, history>>

(* The code is verified against the secret as read; 2FA may be on already. *)
Confirm(r) ==
  /\ Reads(r, "enable")
  /\ req[r].code = [kind |-> "totp", of |-> secret]
  /\ Goto(r, "switch")
  /\ confirmed' = confirmed \cup {secret}
  /\ UNCHANGED <<account, guarded, spent, overlapped, broken>>

(* Mutant: nothing asks whether a setup has been made.                     *)
BugEnableNoSecret(r) == Confirm(r)

EnableVerified(r) == secret # 0 /\ Confirm(r)

SwitchOn(r) ==
  /\ At(r, "switch")
  /\ enabled' = TRUE
  /\ Goto(r, "codes")
  /\ UNCHANGED <<secret, unused, used, challenged, setups, batches, history>>

(* One transaction deletes the rows there are and inserts the batch, at    *)
(* READ COMMITTED: nobody sees either before the COMMIT, and the DELETE    *)
(* goes by the rows that were committed when it began.                     *)
Doom(r, rows) ==
  /\ At(r, "codes")
  /\ Become(r, [req[r] EXCEPT !.pc = "create", !.doomed = rows])
  /\ UNCHANGED <<account, history>>

(* Mutant: the codes that were used are kept.                              *)
BugDoomUnused(r) == Doom(r, unused)

DeleteMany(r) == Doom(r, unused \cup used)

(* The INSERT and the COMMIT.                                              *)
CreateMany(r) ==
  /\ At(r, "create")
  /\ batches' = batches + 1
  /\ unused' = (unused \ req[r].doomed) \cup {batches'}
  /\ used' = used \ req[r].doomed
  /\ Become(r, [req[r] EXCEPT !.pc = "reply", !.code = Wrong, !.status = "ok",
                            !.doomed = {}])
  /\ UNCHANGED <<enabled, secret, challenged, setups, history>>

Off(r, next) ==
  /\ At(r, "off")
  /\ enabled' = FALSE
  /\ secret' = 0
  /\ Become(r, next)
  /\ guarded' = {}
  /\ UNCHANGED <<unused, used, challenged, setups, batches, confirmed, spent, overlapped, broken>>

(* Mutant: the codes are left to the next enable.                          *)
BugKeepCodes(r) == Off(r, [req[r] EXCEPT !.pc = "reply", !.status = "ok"])

SwitchOff(r) == Off(r, [req[r] EXCEPT !.pc = "delete"])

(* One DELETE: a batch that is committed after it began stays.             *)
DeleteCodes(r) ==
  /\ At(r, "delete")
  /\ unused' = {}
  /\ used' = {}
  /\ Answer(r, "ok")
  /\ UNCHANGED <<enabled, secret, challenged, setups, batches, history>>

-----------------------------------------------------------------------------
(* verifyCode, of a disable and of the second step of a login.  The TOTP   *)
(* is compared in the same step as the SELECT of the account; a code that  *)
(* is none goes on to the recovery codes, read by a SELECT of their own.   *)

Verifying(r) == req[r].op \in {"disable", "second"}
Passed(r) == IF req[r].op = "disable" THEN "off" ELSE "issue"

(* 2FA off, or no secret: refused before anything is compared.  A login is *)
(* refused as well when the account is gone or inactive.                   *)
NotVerified(r) ==
  /\ At(r, "find") /\ Verifying(r)
  /\ ~enabled \/ secret = 0 \/ req[r].op = "second"
  /\ Answer(r, "denied")
  /\ UNCHANGED <<account, history>>

VerifyTotp(r) ==
  /\ At(r, "find") /\ Verifying(r)
  /\ enabled /\ secret # 0
  /\ req[r].code = [kind |-> "totp", of |-> secret]
  /\ Become(r, [req[r] EXCEPT !.pc = Passed(r), !.factor = "totp"])
  /\ UNCHANGED <<account, history>>

NoTotp(r) ==
  /\ At(r, "find") /\ Verifying(r)
  /\ enabled /\ secret # 0
  /\ Goto(r, "lookup")
  /\ UNCHANGED <<account, history>>

Among(r, rows) ==
  /\ At(r, "lookup")
  /\ \/ req[r].code \in [kind : {"recovery"}, of : rows] /\ Goto(r, "use")
     \/ req[r].code \notin [kind : {"recovery"}, of : rows] /\ Answer(r, "denied")
  /\ UNCHANGED <<account, history>>

(* Mutant: all the rows are searched.                                      *)
BugFindAll(r) == Among(r, unused \cup used)

FindUnused(r) == Among(r, unused)

(* The row is marked by its id, whoever marked it before.                  *)
MarkUsed(r) ==
  LET b == req[r].code.of
  IN /\ At(r, "use")
     /\ b \in unused \cup used
     /\ unused' = unused \ {b}
     /\ used' = used \cup {b}
     /\ Become(r, [req[r] EXCEPT !.pc = Passed(r), !.factor = "recovery"])
     /\ spent' = [spent EXCEPT ![b] = @ + 1]
     /\ UNCHANGED <<enabled, secret, challenged, setups, batches, confirmed, guarded,
                    overlapped, broken>>

(* The row was deleted meanwhile: the UPDATE rejects, which is a 500.      *)
MarkGone(r) ==
  /\ At(r, "use")
  /\ req[r].code.of \notin unused \cup used
  /\ Answer(r, "error")
  /\ UNCHANGED <<account, history>>

-----------------------------------------------------------------------------
(* Login: the first step answers with a challenge when the account, read   *)
(* with its credentials, has 2FA on.                                       *)
LoginDenied(r) ==
  Reads(r, "login") /\ Answer(r, "denied") /\ UNCHANGED <<account, history>>

LoginChallenge(r) ==
  /\ Reads(r, "login")
  /\ enabled
  /\ Answer(r, "challenge")
  /\ challenged' = TRUE
  /\ UNCHANGED <<table, setups, batches, history>>

(* Mutant: no challenge while there is no secret to meet it with.          *)
BugLoginNoSecret(r) ==
  /\ Reads(r, "login")
  /\ ~enabled \/ secret = 0
  /\ Goto(r, "issue")
  /\ UNCHANGED <<account, history>>

LoginDirect(r) ==
  /\ Reads(r, "login")
  /\ ~enabled
  /\ Goto(r, "issue")
  /\ UNCHANGED <<account, history>>

IssueSession(r) ==
  At(r, "issue") /\ Answer(r, "session") /\ UNCHANGED <<account, history>>

Leave(r) == Become(r, NoRequest) /\ guarded' = guarded \ {r}

Reply(r) ==
  At(r, "reply") /\ Leave(r) /\ UNCHANGED <<account, confirmed, spent, overlapped, broken>>

(* A statement rejects, the process stops: nothing is undone but a         *)
(* transaction that has not been committed.                                *)
Fail(r) ==
  /\ ~At(r, "idle")
  /\ Leave(r)
  /\ broken' = (broken \/ req[r].pc \in {"codes", "create", "delete"})
  /\ UNCHANGED <<account, confirmed, spent, overlapped>>

-----------------------------------------------------------------------------
Next == \E r \in Requests :
  \/ \E code \in Codes : BeginEnable(r, code) \/ BeginDisable(r, code) \/ BeginSecond(r, code)
  \/ BeginSetup(r) \/ BeginLogin(r) \/ BeginNoChallenge(r)
  \/ SetSecret(r)
  \/ EnableDenied(r) \/ EnableVerified(r) \/ SwitchOn(r) \/ DeleteMany(r) \/ CreateMany(r)
  \/ NotVerified(r) \/ VerifyTotp(r) \/ NoTotp(r)
  \/ FindUnused(r) \/ MarkUsed(r) \/ MarkGone(r)
  \/ SwitchOff(r) \/ DeleteCodes(r)
  \/ LoginDenied(r) \/ LoginChallenge(r) \/ LoginDirect(r) \/ IssueSession(r)
  \/ Reply(r) \/ Fail(r)

Spec == Init /\ [][Next]_vars

-----------------------------------------------------------------------------
(* Properties.                                                             *)

RequestType ==
  [op : Ops, pc : Pcs, code : Codes, factor : Factors, doomed : SUBSET Batches, status : Statuses]

(* Every variable has its type, and a code is unused or used.              *)
TypeOK ==
  /\ enabled \in BOOLEAN
  /\ secret \in 0..setups
  /\ unused \cup used \subseteq 1..batches
  /\ unused \cap used = {}
  /\ challenged \in BOOLEAN
  /\ req \in [Requests -> RequestType]
  /\ setups \in 0..MaxSetups
  /\ batches \in 0..MaxBatches
  /\ confirmed \subseteq 1..setups
  /\ guarded \in SUBSET Requests
  /\ spent \in [Batches -> Nat]
  /\ overlapped \in BOOLEAN
  /\ broken \in BOOLEAN

(* A recovery code passes one verification, and one more for every other   *)
(* request that found it unused before the first marked it: it is          *)
(* single-use only while logins with it do not overlap.                    *)
CodeSpendBound == \A b \in Batches : spent[b] <= Cardinality(Requests)

(* Two enables that overlap leave two batches to choose from, since the    *)
(* DELETE of the one does not see what the other inserts: the batches that *)
(* are left are never more than the requests that can overlap, however     *)
(* often the codes are made anew, spent or lost part way.                  *)
BatchBound == Cardinality(unused \cup used) <= Cardinality(Requests)

(* README.md:147: while 2FA is on, from the arrival of a request to its    *)
(* answer, nobody gets a session without a TOTP or a recovery code,        *)
(* whatever is set up, enabled again or spent meanwhile.                   *)
SecondFactorRequired ==
  \A r \in guarded : req[r].status = "session" => req[r].factor # "none"

(* Between changes to the enrolment, 2FA is on with a secret and one batch *)
(* of recovery codes, or off without codes: unless two changes overlapped  *)
(* (an enable that verified its code before a disable cleared the secret   *)
(* leaves 2FA on with no secret, and no second factor is accepted again),  *)
(* or one was lost between the flag and the codes.                         *)
EnrolmentConsistent ==
  /\ enabled /\ ~overlapped => secret # 0
  /\ ~overlapped => Cardinality(unused \cup used) <= 1
  /\ ~overlapped /\ ~broken /\ InFlight({"codes", "create", "delete"}) = {} =>
       (enabled <=> unused \cup used # {})

(* schema.prisma:24-25: the secret is "set when enrolling, confirmed when  *)
(* enabled".                                                               *)
EnabledSecretConfirmed == enabled /\ secret # 0 => secret \in confirmed
=============================================================================
