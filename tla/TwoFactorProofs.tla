---------------------------- MODULE TwoFactorProofs ----------------------------
(***************************************************************************)
(* Theorems about TwoFactor, for every number of requests in flight and    *)
(* every number of setups and batches of recovery codes; of Enrolment,     *)
(* which it implements while changes do not overlap; and, at the end, of   *)
(* the codes and the base32 of Totp.                                       *)
(***************************************************************************)
EXTENDS MCTwoFactor, Counting, SequenceTheorems

-----------------------------------------------------------------------------
(* The inductive invariant.                                                *)

(* The place of a request tells the operation it runs.                     *)
Scripted(q) ==
  /\ q.pc = "idle" => q.op = "none"
  /\ q.pc = "secret" => q.op = "setup"
  /\ q.pc = "find" => q.op \in {"login", "second", "enable", "disable"}
  /\ q.pc \in {"switch", "codes", "create"} => q.op = "enable"
  /\ q.pc \in {"lookup", "use"} => q.op \in {"disable", "second"}
  /\ q.pc \in {"off", "delete"} => q.op = "disable"
  /\ q.pc = "issue" => q.op \in {"login", "second"}

Scripts == \A r \in Requests : Scripted(req[r])

Rows == unused \cup used

(* Every batch that is left was made by another request slot, and is about *)
(* to be deleted by it when its next batch is.                             *)
Makers ==
  \E maker \in [Rows -> Requests] :
    /\ \A b, c \in Rows : maker[b] = maker[c] => b = c
    /\ \A b \in Rows : At(maker[b], "create") => b \in req[maker[b]].doomed

(* The requests of an operation that are at some places.                   *)
Busy(op, pcs) == {r \in Requests : req[r].op = op /\ req[r].pc \in pcs}

(* Every secret and every batch that a request may still store has room.   *)
Rooms ==
  /\ setups + Cardinality(Busy("setup", {"secret"})) <= MaxSetups
  /\ batches + Cardinality(Busy("enable", {"find", "switch", "codes", "create"})) <= MaxBatches

(* The requests that found code b unused, and are about to mark it.        *)
Using(b) == {r \in Requests : req[r].pc = "use" /\ req[r].code.of = b}

(* A code that is unused, or not made yet, has passed no verification; one *)
(* that no longer is passes again only those that have already found it.   *)
Spends ==
  \A b \in Batches :
    /\ b \in unused \/ b > batches => spent[b] = 0
    /\ spent[b] + Cardinality(Using(b)) <= Cardinality(Requests)

(* A guarded request runs while 2FA is on, and is about to get a session,  *)
(* or has it, only with a second factor.                                   *)
Guarded ==
  \A r \in guarded :
    enabled /\ (At(r, "issue") \/ req[r].status = "session" => req[r].factor # "none")

(* While no two changes have overlapped, there is one change at a time,    *)
(* and its place tells what the account has come to.                       *)
Alone ==
  ~overlapped =>
    /\ \A q, r \in Running(Changes) : q = r
    /\ \A r \in Requests : /\ At(r, "switch") => secret # 0
                           /\ At(r, "codes") \/ At(r, "create") => enabled
                           /\ At(r, "create") => Rows \subseteq req[r].doomed
                           /\ At(r, "delete") => ~enabled
    /\ \A b, c \in Rows : b = c

IInv ==
  /\ TypeOK /\ Scripts /\ Makers /\ Rooms /\ Spends /\ Guarded /\ Alone
  /\ EnrolmentConsistent

-----------------------------------------------------------------------------
(* Only request r changes.                                                 *)
Only(r) == \A q \in Requests \ {r} : req'[q] = req[q]

(* Request r goes on to place pc, with its code unless that is an answer.  *)
Moves(r, pc) ==
  /\ req' \in [Requests -> RequestType]
  /\ req'[r].pc = pc /\ req'[r].op = req[r].op
  /\ pc # "reply" => req'[r].code = req[r].code
  /\ Only(r)

(* Request r is another one now, and has no session.                       *)
Turns(r, op, pc) ==
  /\ req' \in [Requests -> RequestType]
  /\ req'[r].pc = pc /\ req'[r].op = op /\ req'[r].status # "session"
  /\ Only(r)

(* A request takes the value it becomes.                                   *)
LEMMA Becoming ==
  ASSUME TypeOK, NEW r \in Requests, NEW h \in RequestType, Become(r, h)
  PROVE  req' \in [Requests -> RequestType] /\ req'[r] = h /\ Only(r)
BY DEF TypeOK, Become, Only

(* A step to another place, an answer and a verified code leave the rest   *)
(* of a request.                                                           *)
LEMMA Moving ==
  ASSUME TypeOK, NEW r \in Requests
  PROVE  /\ \A pc \in Pcs : Goto(r, pc) => /\ Moves(r, pc)
                                           /\ req'[r].factor = req[r].factor
                                           /\ req'[r].status = req[r].status
         /\ \A s \in Statuses : Answer(r, s) => /\ Moves(r, "reply") /\ req'[r].status = s
                                                /\ req'[r].factor = req[r].factor
         /\ \A pc \in Pcs, f \in Factors :
              Become(r, [req[r] EXCEPT !.pc = pc, !.factor = f])
                => /\ Moves(r, pc) /\ req'[r].factor = f
                   /\ req'[r].status = req[r].status
<1>1. req[r] \in RequestType
  BY DEF TypeOK
<1>2. Wrong \in Codes
  BY BoundsAssumption DEF Wrong, Codes, Secrets
<1>3. ASSUME NEW pc \in Pcs, Goto(r, pc)
      PROVE  Moves(r, pc) /\ req'[r].factor = req[r].factor /\ req'[r].status = req[r].status
  <2> DEFINE h == [req[r] EXCEPT !.pc = pc]
  <2>1. /\ h \in RequestType /\ h.pc = pc /\ h.op = req[r].op /\ h.code = req[r].code
        /\ h.factor = req[r].factor /\ h.status = req[r].status
    BY <1>1 DEF RequestType
  <2>2. Become(r, h)
    BY <1>3 DEF Goto
  <2> HIDE DEF h
  <2> QED BY <2>1, <2>2, Becoming DEF Moves
<1>4. ASSUME NEW s \in Statuses, Answer(r, s)
      PROVE  Moves(r, "reply") /\ req'[r].status = s /\ req'[r].factor = req[r].factor
  <2> DEFINE h == [req[r] EXCEPT !.pc = "reply", !.code = Wrong, !.status = s]
  <2>1. /\ h \in RequestType /\ h.pc = "reply" /\ h.op = req[r].op
        /\ h.factor = req[r].factor /\ h.status = s
    BY <1>1, <1>2 DEF RequestType, Pcs
  <2>2. Become(r, h)
    BY <1>4 DEF Answer
  <2> HIDE DEF h
  <2> QED BY <2>1, <2>2, Becoming DEF Moves
<1>5. ASSUME NEW pc \in Pcs, NEW f \in Factors,
             Become(r, [req[r] EXCEPT !.pc = pc, !.factor = f])
      PROVE  Moves(r, pc) /\ req'[r].factor = f /\ req'[r].status = req[r].status
  <2> DEFINE h == [req[r] EXCEPT !.pc = pc, !.factor = f]
  <2>1. /\ h \in RequestType /\ h.pc = pc /\ h.op = req[r].op /\ h.code = req[r].code
        /\ h.factor = f /\ h.status = req[r].status
    BY <1>1 DEF RequestType
  <2>2. Become(r, h)
    BY <1>5
  <2> HIDE DEF h
  <2> QED BY <2>1, <2>2, Becoming DEF Moves
<1> QED BY <1>3, <1>4, <1>5

(* The two steps of the transaction that replaces the codes.               *)
LEMMA Replacing ==
  ASSUME TypeOK, BoundsAssumption, NEW r \in Requests
  PROVE  /\ DeleteMany(r) => /\ At(r, "codes") /\ Moves(r, "create")
                             /\ req'[r].doomed = Rows
                             /\ req'[r].factor = req[r].factor
                             /\ req'[r].status = req[r].status
         /\ CreateMany(r) => /\ At(r, "create") /\ Moves(r, "reply")
                             /\ req'[r].status = "ok"
<1>1. req[r] \in RequestType /\ Rows \in SUBSET Batches /\ Wrong \in Codes
  BY BoundsAssumption DEF TypeOK, Rows, Batches, Wrong, Codes, Secrets
<1>2. ASSUME DeleteMany(r)
      PROVE  /\ At(r, "codes") /\ Moves(r, "create") /\ req'[r].doomed = Rows
             /\ req'[r].factor = req[r].factor /\ req'[r].status = req[r].status
  <2> DEFINE h == [req[r] EXCEPT !.pc = "create", !.doomed = Rows]
  <2>1. /\ h \in RequestType /\ h.pc = "create" /\ h.op = req[r].op /\ h.code = req[r].code
        /\ h.doomed = Rows /\ h.factor = req[r].factor /\ h.status = req[r].status
    BY <1>1 DEF RequestType, Pcs
  <2>2. At(r, "codes") /\ Become(r, h)
    BY <1>2 DEF DeleteMany, Doom, Rows
  <2> HIDE DEF h
  <2> QED BY <2>1, <2>2, Becoming DEF Moves
<1>3. ASSUME CreateMany(r)
      PROVE  At(r, "create") /\ Moves(r, "reply") /\ req'[r].status = "ok"
  <2> DEFINE h == [req[r] EXCEPT !.pc = "reply", !.code = Wrong, !.status = "ok", !.doomed = {}]
  <2>1. /\ h \in RequestType /\ h.pc = "reply" /\ h.op = req[r].op /\ h.status = "ok"
    BY <1>1 DEF RequestType, Pcs, Statuses
  <2>2. At(r, "create") /\ Become(r, h)
    BY <1>3 DEF CreateMany
  <2> HIDE DEF h
  <2> QED BY <2>1, <2>2, Becoming DEF Moves
<1> QED BY <1>2, <1>3

(* Arrivals and departures.                                                *)
LEMMA Turning ==
  ASSUME TypeOK, NEW r \in Requests
  PROVE  /\ Become(r, NoRequest) => Turns(r, "none", "idle")
         /\ \A op \in Ops, pc \in Pcs, code \in Codes :
              Arrive(r, op, pc, code) => At(r, "idle") /\ Turns(r, op, pc)
         /\ BeginNoChallenge(r) => At(r, "idle") /\ Turns(r, "second", "reply")
<1>1. /\ NoRequest \in RequestType
      /\ NoRequest.op = "none" /\ NoRequest.pc = "idle" /\ NoRequest.status = "none"
  <2>1. Wrong \in Codes
    BY BoundsAssumption DEF Wrong, Codes, Secrets
  <2> QED BY <2>1 DEF NoRequest, RequestType, Ops, Pcs, Factors, Statuses
<1>2. ASSUME Become(r, NoRequest) PROVE Turns(r, "none", "idle")
  BY <1>1, <1>2, Becoming DEF Turns
<1>3. ASSUME NEW op \in Ops, NEW pc \in Pcs, NEW code \in Codes, Arrive(r, op, pc, code)
      PROVE  Turns(r, op, pc)
  <2> DEFINE h == [NoRequest EXCEPT !.op = op, !.pc = pc, !.code = code]
  <2>1. h \in RequestType /\ h.pc = pc /\ h.op = op /\ h.status = "none"
    BY <1>1 DEF RequestType
  <2>2. Become(r, h)
    BY <1>3 DEF Arrive
  <2> HIDE DEF h
  <2> QED BY <2>1, <2>2, Becoming DEF Turns
<1>4. ASSUME BeginNoChallenge(r) PROVE Turns(r, "second", "reply")
  <2> DEFINE h == [NoRequest EXCEPT !.op = "second", !.pc = "reply", !.status = "denied"]
  <2>1. h \in RequestType /\ h.pc = "reply" /\ h.op = "second" /\ h.status = "denied"
    BY <1>1 DEF RequestType, Ops, Pcs, Statuses
  <2>2. Become(r, h)
    BY <1>4 DEF BeginNoChallenge
  <2> HIDE DEF h
  <2> QED BY <2>1, <2>2, Becoming DEF Turns
<1> QED BY <1>2, <1>3, <1>4 DEF Arrive, BeginNoChallenge

(* What each action of a request does to the requests.                     *)
LEMMA Effects ==
  ASSUME TypeOK, Scripts, NEW r \in Requests
  PROVE  /\ BeginSetup(r) => At(r, "idle") /\ Turns(r, "setup", "secret")
         /\ \A code \in Codes :
              /\ BeginEnable(r, code) => At(r, "idle") /\ Turns(r, "enable", "find")
              /\ BeginDisable(r, code) => At(r, "idle") /\ Turns(r, "disable", "find")
              /\ BeginSecond(r, code) => At(r, "idle") /\ Turns(r, "second", "find")
         /\ BeginLogin(r) => At(r, "idle") /\ Turns(r, "login", "find")
         /\ BeginNoChallenge(r) => At(r, "idle") /\ Turns(r, "second", "reply")
         /\ SetSecret(r) => At(r, "secret") /\ Moves(r, "reply") /\ req'[r].status = "ok"
         /\ EnableDenied(r) => /\ At(r, "find") /\ Moves(r, "reply")
                               /\ req'[r].status = "denied"
         /\ EnableVerified(r) => /\ At(r, "find") /\ req[r].op = "enable" /\ Moves(r, "switch")
                                 /\ req'[r].status = req[r].status
                                 /\ req'[r].factor = req[r].factor
         /\ SwitchOn(r) => /\ At(r, "switch") /\ Moves(r, "codes")
                           /\ req'[r].status = req[r].status
                           /\ req'[r].factor = req[r].factor
         /\ DeleteMany(r) => /\ At(r, "codes") /\ Moves(r, "create")
                             /\ req'[r].doomed = Rows
                             /\ req'[r].factor = req[r].factor
                             /\ req'[r].status = req[r].status
         /\ CreateMany(r) => At(r, "create") /\ Moves(r, "reply") /\ req'[r].status = "ok"
         /\ NotVerified(r) => At(r, "find") /\ Moves(r, "reply") /\ req'[r].status = "denied"
         /\ VerifyTotp(r) => /\ At(r, "find") /\ req'[r].factor = "totp"
                             /\ \/ req[r].op = "disable" /\ Moves(r, "off")
                                \/ req[r].op = "second" /\ Moves(r, "issue")
         /\ NoTotp(r) => /\ At(r, "find") /\ Verifying(r) /\ Moves(r, "lookup")
                         /\ req'[r].status = req[r].status
                         /\ req'[r].factor = req[r].factor
         /\ FindUnused(r) =>
              /\ At(r, "lookup") /\ req'[r].factor = req[r].factor
              /\ \/ /\ req[r].code.of \in unused /\ Moves(r, "use")
                    /\ req'[r].status = req[r].status
                 \/ Moves(r, "reply") /\ req'[r].status = "denied"
         /\ MarkUsed(r) => /\ At(r, "use") /\ req'[r].factor = "recovery"
                           /\ \/ req[r].op = "disable" /\ Moves(r, "off")
                              \/ req[r].op = "second" /\ Moves(r, "issue")
         /\ MarkGone(r) => At(r, "use") /\ Moves(r, "reply") /\ req'[r].status = "error"
         /\ SwitchOff(r) => At(r, "off") /\ Moves(r, "delete")
         /\ DeleteCodes(r) => At(r, "delete") /\ Moves(r, "reply") /\ req'[r].status = "ok"
         /\ LoginDenied(r) => At(r, "find") /\ Moves(r, "reply") /\ req'[r].status = "denied"
         /\ LoginChallenge(r) => /\ At(r, "find") /\ Moves(r, "reply")
                                 /\ req'[r].status = "challenge"
         /\ LoginDirect(r) => At(r, "find") /\ req[r].op = "login" /\ Moves(r, "issue")
         /\ IssueSession(r) => /\ At(r, "issue") /\ Moves(r, "reply")
                               /\ req'[r].factor = req[r].factor
         /\ Reply(r) => At(r, "reply") /\ Turns(r, "none", "idle")
         /\ Fail(r) => ~At(r, "idle") /\ Turns(r, "none", "idle")
<1>1. /\ {"idle", "secret", "find", "lookup", "use", "switch", "codes", "create", "off", "delete",
          "issue", "reply"} = Pcs
      /\ {"none", "ok", "denied", "error", "challenge", "session"} = Statuses
      /\ {"none", "login", "second", "setup", "enable", "disable"} = Ops
      /\ {"none", "totp", "recovery"} = Factors
      /\ Wrong \in Codes
  BY BoundsAssumption DEF Pcs, Statuses, Ops, Changes, Factors, Wrong, Codes, Secrets
<1>2. /\ BeginSetup(r) => At(r, "idle") /\ Turns(r, "setup", "secret")
      /\ BeginLogin(r) => At(r, "idle") /\ Turns(r, "login", "find")
      /\ BeginNoChallenge(r) => At(r, "idle") /\ Turns(r, "second", "reply")
  BY <1>1, Turning DEF BeginSetup, BeginLogin
<1>3. \A code \in Codes :
        /\ BeginEnable(r, code) => At(r, "idle") /\ Turns(r, "enable", "find")
        /\ BeginDisable(r, code) => At(r, "idle") /\ Turns(r, "disable", "find")
        /\ BeginSecond(r, code) => At(r, "idle") /\ Turns(r, "second", "find")
  BY <1>1, Turning DEF BeginEnable, BeginDisable, BeginSecond
<1>4. /\ SetSecret(r) => At(r, "secret") /\ Moves(r, "reply") /\ req'[r].status = "ok"
      /\ EnableDenied(r) => At(r, "find") /\ Moves(r, "reply") /\ req'[r].status = "denied"
      /\ NotVerified(r) => At(r, "find") /\ Moves(r, "reply") /\ req'[r].status = "denied"
      /\ MarkGone(r) => At(r, "use") /\ Moves(r, "reply") /\ req'[r].status = "error"
      /\ DeleteCodes(r) => At(r, "delete") /\ Moves(r, "reply") /\ req'[r].status = "ok"
      /\ LoginDenied(r) => At(r, "find") /\ Moves(r, "reply") /\ req'[r].status = "denied"
      /\ LoginChallenge(r) => At(r, "find") /\ Moves(r, "reply") /\ req'[r].status = "challenge"
      /\ IssueSession(r) => /\ At(r, "issue") /\ Moves(r, "reply")
                            /\ req'[r].factor = req[r].factor
  BY <1>1, Moving DEF SetSecret, EnableDenied, NotVerified, MarkGone, DeleteCodes,
                      LoginDenied, LoginChallenge, IssueSession, Reads
<1>5. /\ EnableVerified(r) => /\ At(r, "find") /\ req[r].op = "enable" /\ Moves(r, "switch")
                              /\ req'[r].status = req[r].status
                              /\ req'[r].factor = req[r].factor
      /\ SwitchOn(r) => /\ At(r, "switch") /\ Moves(r, "codes")
                        /\ req'[r].status = req[r].status /\ req'[r].factor = req[r].factor
      /\ NoTotp(r) => /\ At(r, "find") /\ Verifying(r) /\ Moves(r, "lookup")
                      /\ req'[r].status = req[r].status /\ req'[r].factor = req[r].factor
      /\ LoginDirect(r) => At(r, "find") /\ req[r].op = "login" /\ Moves(r, "issue")
  BY <1>1, Moving DEF EnableVerified, Confirm, SwitchOn, NoTotp, LoginDirect, Reads
<1>6. SwitchOff(r) => At(r, "off") /\ Moves(r, "delete")
  BY <1>1, Moving DEF SwitchOff, Off, Goto
<1>7. /\ Passed(r) \in Pcs
      /\ Verifying(r) => \/ req[r].op = "disable" /\ Passed(r) = "off"
                         \/ req[r].op = "second" /\ Passed(r) = "issue"
  BY <1>1 DEF Passed, Verifying
<1>8. ASSUME VerifyTotp(r)
      PROVE  /\ At(r, "find") /\ req'[r].factor = "totp"
             /\ \/ req[r].op = "disable" /\ Moves(r, "off")
                \/ req[r].op = "second" /\ Moves(r, "issue")
  BY <1>1, <1>7, <1>8, Moving DEF VerifyTotp
<1>9. ASSUME MarkUsed(r)
      PROVE  /\ At(r, "use") /\ req'[r].factor = "recovery"
             /\ \/ req[r].op = "disable" /\ Moves(r, "off")
                \/ req[r].op = "second" /\ Moves(r, "issue")
  <2>1. Verifying(r)
    BY <1>9 DEF MarkUsed, At, Scripts, Scripted, Verifying
  <2> QED BY <1>1, <1>7, <1>9, <2>1, Moving DEF MarkUsed
<1>10. ASSUME FindUnused(r)
       PROVE  /\ At(r, "lookup") /\ req'[r].factor = req[r].factor
              /\ \/ /\ req[r].code.of \in unused /\ Moves(r, "use")
                    /\ req'[r].status = req[r].status
                 \/ Moves(r, "reply") /\ req'[r].status = "denied"
  BY <1>1, <1>10, Moving DEF FindUnused, Among
<1>11. /\ Reply(r) => At(r, "reply") /\ Turns(r, "none", "idle")
       /\ Fail(r) => ~At(r, "idle") /\ Turns(r, "none", "idle")
  BY Turning DEF Reply, Fail, Leave
<1>12. /\ DeleteMany(r) => /\ At(r, "codes") /\ Moves(r, "create")
                           /\ req'[r].doomed = Rows
                           /\ req'[r].factor = req[r].factor
                           /\ req'[r].status = req[r].status
       /\ CreateMany(r) => At(r, "create") /\ Moves(r, "reply") /\ req'[r].status = "ok"
  BY Replacing, BoundsAssumption
<1> QED BY <1>2, <1>3, <1>4, <1>5, <1>6, <1>8, <1>9, <1>10, <1>11, <1>12

(* Every step leaves the requests well typed and at their script.          *)
LEMMA RequestStep ==
  TypeOK /\ Scripts /\ [Next]_vars => req' \in [Requests -> RequestType] /\ Scripts'
<1> SUFFICES ASSUME TypeOK, Scripts, [Next]_vars
             PROVE  req' \in [Requests -> RequestType] /\ Scripts'
  OBVIOUS
<1> DEFINE Goal == req' \in [Requests -> RequestType] /\ Scripts'
<1>1. ASSUME NEW r \in Requests, req' \in [Requests -> RequestType], Scripted(req'[r]), Only(r)
      PROVE  Goal
  BY <1>1 DEF Scripts, Only
<1>2. ASSUME NEW r \in Requests, NEW op, NEW pc, Turns(r, op, pc),
             \/ pc = "idle" /\ op = "none"
             \/ pc = "secret" /\ op = "setup"
             \/ pc = "find" /\ op \in {"login", "second", "enable", "disable"}
             \/ pc = "reply"
      PROVE  Goal
  <2>1. Scripted(req'[r])
    BY <1>2 DEF Turns, Scripted
  <2> QED BY <1>1, <1>2, <2>1 DEF Turns
<1>3. ASSUME NEW r \in Requests, NEW pc, Moves(r, pc),
             \/ pc = "reply"
             \/ pc \in {"switch", "codes", "create"} /\ req[r].op = "enable"
             \/ pc \in {"lookup", "use"} /\ req[r].op \in {"disable", "second"}
             \/ pc \in {"off", "delete"} /\ req[r].op = "disable"
             \/ pc = "issue" /\ req[r].op \in {"login", "second"}
      PROVE  Goal
  <2>1. Scripted(req'[r])
    BY <1>3 DEF Moves, Scripted
  <2> QED BY <1>1, <1>3, <2>1 DEF Moves
<1>4. ASSUME UNCHANGED vars PROVE Goal
  BY <1>4 DEF vars, TypeOK, Scripts
<1> HIDE DEF Goal
<1>5. ASSUME NEW r \in Requests, NEW code \in Codes,
             BeginEnable(r, code) \/ BeginDisable(r, code) \/ BeginSecond(r, code)
      PROVE  Goal
  BY <1>2, <1>5, Effects
<1>6. ASSUME NEW r \in Requests,
             \/ BeginSetup(r) \/ BeginLogin(r) \/ BeginNoChallenge(r) \/ Reply(r) \/ Fail(r)
      PROVE  Goal
  BY <1>2, <1>6, Effects
<1>7. ASSUME NEW r \in Requests,
             \/ SetSecret(r) \/ EnableDenied(r) \/ EnableVerified(r) \/ SwitchOn(r)
             \/ DeleteMany(r) \/ CreateMany(r) \/ NotVerified(r) \/ VerifyTotp(r) \/ NoTotp(r)
             \/ FindUnused(r) \/ MarkUsed(r) \/ MarkGone(r) \/ SwitchOff(r) \/ DeleteCodes(r)
             \/ LoginDenied(r) \/ LoginChallenge(r) \/ LoginDirect(r) \/ IssueSession(r)
      PROVE  Goal
  <2>1. Scripted(req[r])
    BY DEF Scripts
  <2> QED BY <1>3, <1>7, <2>1, Effects DEF Scripted, At, Verifying
<1> QED BY <1>4, <1>5, <1>6, <1>7 DEF Next, Goal

(* One request moves: the count of the busy ones follows it.               *)
LEMMA BusyShift ==
  ASSUME NEW r \in Requests, Only(r), NEW op, NEW pcs
  PROVE  LET A == Cardinality(Busy(op, pcs))
             B == Cardinality(Busy(op, pcs))'
             was == req[r].op = op /\ req[r].pc \in pcs
             is == req'[r].op = op /\ req'[r].pc \in pcs
         IN B <= A + 1 /\ ((is => was) => B <= A) /\ (was /\ ~is => B + 1 <= A)
<1> DEFINE C == Busy(op, pcs)
           D == Busy(op, pcs)'
<1>1. /\ C \in SUBSET Requests /\ D \in SUBSET Requests /\ C \ {r} = D \ {r}
      /\ r \in C <=> req[r].op = op /\ req[r].pc \in pcs
      /\ r \in D <=> req'[r].op = op /\ req'[r].pc \in pcs
  BY DEF Busy, Only
<1> HIDE DEF C, D
<1>2. /\ Cardinality(D) <= Cardinality(C) + 1
      /\ (r \in D => r \in C) => Cardinality(D) <= Cardinality(C)
      /\ r \in C /\ r \notin D => Cardinality(D) + 1 <= Cardinality(C)
  BY <1>1, PartShift, RequestsAssumption
<1> QED BY <1>1, <1>2 DEF C, D

(* Who arrives is counted by the guards as long as it may still store.     *)
LEMMA BusyRuns ==
  ASSUME NEW op, NEW pcs, "reply" \notin pcs
  PROVE  /\ Cardinality(Running({op})) \in Nat
         /\ Cardinality(Busy(op, pcs)) <= Cardinality(Running({op}))
<1>1. Running({op}) \in SUBSET Requests /\ Busy(op, pcs) \in SUBSET Running({op})
  BY DEF Running, Busy, At
<1>2. IsFiniteSet(Running({op})) /\ Cardinality(Running({op})) \in Nat
  BY <1>1, PartType, RequestsAssumption
<1> QED BY <1>1, <1>2, PartType

(* Where a request can join those that may still store, and leave them.    *)
LEMMA RoomsStep ==
  IInv /\ Next =>
    /\ Rooms' /\ setups' \in 0..MaxSetups /\ batches' \in 0..MaxBatches
    /\ setups <= setups' /\ batches <= batches'
<1> SUFFICES ASSUME IInv, Next
             PROVE  /\ Rooms' /\ setups' \in 0..MaxSetups /\ batches' \in 0..MaxBatches
                    /\ setups <= setups' /\ batches <= batches'
  OBVIOUS
<1>1. TypeOK /\ Scripts /\ Rooms
  BY DEF IInv
<1>2. /\ setups \in Nat /\ batches \in Nat /\ MaxSetups \in Nat /\ MaxBatches \in Nat
  BY <1>1, BoundsAssumption DEF TypeOK
<1> DEFINE A == Cardinality(Busy("setup", {"secret"}))
           B == Cardinality(Busy("enable", {"find", "switch", "codes", "create"}))
           C == Cardinality(Busy("setup", {"secret"}))'
           D == Cardinality(Busy("enable", {"find", "switch", "codes", "create"}))'
           Goal == /\ setups' + C <= MaxSetups /\ batches' + D <= MaxBatches
                   /\ setups' \in Nat /\ setups <= setups'
                   /\ batches' \in Nat /\ batches <= batches'
<1>3. setups + A <= MaxSetups /\ batches + B <= MaxBatches
  BY <1>1 DEF Rooms
<1>4. A \in Nat /\ B \in Nat /\ C \in Nat /\ D \in Nat
  <2>1. /\ Busy("setup", {"secret"}) \in SUBSET Requests
        /\ Busy("enable", {"find", "switch", "codes", "create"}) \in SUBSET Requests
        /\ Busy("setup", {"secret"})' \in SUBSET Requests
        /\ Busy("enable", {"find", "switch", "codes", "create"})' \in SUBSET Requests
    BY DEF Busy
  <2> QED BY <2>1, PartType, RequestsAssumption
<1>5. Goal => /\ Rooms' /\ setups' \in 0..MaxSetups /\ batches' \in 0..MaxBatches
              /\ setups <= setups' /\ batches <= batches'
  BY <1>2, <1>4 DEF Rooms
<1>6. ASSUME NEW r \in Requests, Only(r)
      PROVE  /\ C <= A + 1 /\ D <= B + 1
             /\ (req'[r].op = "setup" /\ req'[r].pc \in {"secret"}
                   => req[r].op = "setup" /\ req[r].pc \in {"secret"}) => C <= A
             /\ (req'[r].op = "enable" /\ req'[r].pc \in {"find", "switch", "codes", "create"}
                   => req[r].op = "enable" /\ req[r].pc \in {"find", "switch", "codes", "create"}) => D <= B
             /\ (/\ req[r].op = "setup" /\ req[r].pc \in {"secret"}
                 /\ ~(req'[r].op = "setup" /\ req'[r].pc \in {"secret"})) => C + 1 <= A
             /\ (/\ req[r].op = "enable" /\ req[r].pc \in {"find", "switch", "codes", "create"}
                 /\ ~(req'[r].op = "enable" /\ req'[r].pc \in {"find", "switch", "codes", "create"}))
                => D + 1 <= B
  BY <1>6, BusyShift
<1>7. /\ A <= Cardinality(Running({"setup"})) /\ Cardinality(Running({"setup"})) \in Nat
      /\ B <= Cardinality(Running({"enable"})) /\ Cardinality(Running({"enable"})) \in Nat
  BY BusyRuns
<1> HIDE DEF A, B, C, D
<1>8. ASSUME C <= A, D <= B, UNCHANGED <<setups, batches>> PROVE Goal
  BY <1>2, <1>3, <1>4, <1>8
<1>9. ASSUME NEW r \in Requests, BeginSetup(r) PROVE Goal
  <2>1. /\ Only(r) /\ req'[r].op = "setup" /\ UNCHANGED <<setups, batches>>
        /\ setups + Cardinality(Running({"setup"})) < MaxSetups
    BY <1>1, <1>9, Effects DEF Turns, BeginSetup, Arrive, account
  <2>2. C <= A + 1 /\ D <= B
    BY <1>6, <2>1
  <2> QED BY <1>2, <1>3, <1>4, <1>7, <2>1, <2>2
<1>10. ASSUME NEW r \in Requests, NEW code \in Codes, BeginEnable(r, code) PROVE Goal
  <2>1. /\ Only(r) /\ req'[r].op = "enable" /\ UNCHANGED <<setups, batches>>
        /\ batches + Cardinality(Running({"enable"})) < MaxBatches
    BY <1>1, <1>10, Effects DEF Turns, BeginEnable, Arrive, account
  <2>2. C <= A /\ D <= B + 1
    BY <1>6, <2>1
  <2> QED BY <1>2, <1>3, <1>4, <1>7, <2>1, <2>2
<1>11. ASSUME NEW r \in Requests, SetSecret(r) PROVE Goal
  <2>1. /\ Only(r) /\ req[r].op = "setup" /\ req[r].pc = "secret" /\ req'[r].pc = "reply"
        /\ setups' = setups + 1 /\ batches' = batches
    BY <1>1, <1>11, Effects DEF Moves, SetSecret, At, Scripts, Scripted
  <2>2. C + 1 <= A /\ D <= B
    BY <1>6, <2>1
  <2> QED BY <1>2, <1>3, <1>4, <2>1, <2>2
<1>12. ASSUME NEW r \in Requests, CreateMany(r) PROVE Goal
  <2>1. /\ Only(r) /\ req[r].op = "enable" /\ req[r].pc = "create" /\ req'[r].pc = "reply"
        /\ batches' = batches + 1 /\ setups' = setups
    BY <1>1, <1>12, Effects DEF Moves, CreateMany, At, Scripts, Scripted
  <2>2. C <= A /\ D + 1 <= B
    BY <1>6, <2>1
  <2> QED BY <1>2, <1>3, <1>4, <2>1, <2>2
<1>13. ASSUME NEW r \in Requests, Only(r), UNCHANGED <<setups, batches>>,
              ~(req'[r].op = "setup" /\ req'[r].pc = "secret"),
              (req'[r].op = "enable" /\ req'[r].pc \in {"find", "switch", "codes", "create"})
                => (req[r].op = "enable" /\ req[r].pc \in {"find", "switch", "codes", "create"})
       PROVE  Goal
  <2>1. C <= A /\ D <= B
    BY <1>6, <1>13
  <2> QED BY <1>8, <1>13, <2>1
<1> HIDE DEF Goal
<1>14. ASSUME NEW r \in Requests,
              \/ \E code \in Codes : BeginDisable(r, code) \/ BeginSecond(r, code)
              \/ BeginLogin(r) \/ BeginNoChallenge(r) \/ Reply(r) \/ Fail(r)
       PROVE  Goal
  <2>1. UNCHANGED <<setups, batches>>
    BY <1>14 DEF BeginDisable, BeginSecond, BeginLogin, BeginNoChallenge, Arrive, Reply, Fail,
         account
  <2>2. /\ Only(r) /\ req'[r].op \notin {"setup", "enable"}
    BY <1>1, <1>14, Effects DEF Turns
  <2> QED BY <1>13, <2>1, <2>2
<1>15. ASSUME NEW r \in Requests,
              \/ EnableDenied(r) \/ EnableVerified(r) \/ SwitchOn(r) \/ DeleteMany(r)
              \/ NotVerified(r)
              \/ VerifyTotp(r) \/ NoTotp(r) \/ FindUnused(r) \/ MarkUsed(r) \/ MarkGone(r)
              \/ SwitchOff(r) \/ DeleteCodes(r) \/ LoginDenied(r) \/ LoginChallenge(r)
              \/ LoginDirect(r) \/ IssueSession(r)
       PROVE  Goal
  <2>1. UNCHANGED <<setups, batches>>
    BY <1>15 DEF EnableDenied, EnableVerified, Confirm, SwitchOn, DeleteMany, Doom, NotVerified, VerifyTotp, NoTotp,
         FindUnused, Among, MarkUsed, MarkGone, SwitchOff, Off, DeleteCodes, LoginDenied,
         LoginChallenge, LoginDirect, IssueSession, account
  <2>2. /\ Only(r) /\ req'[r].op = req[r].op
        /\ req'[r].pc \in {"switch", "codes", "create"} =>
             req[r].op = "enable" /\ req[r].pc \in {"find", "switch", "codes", "create"}
        /\ req'[r].pc \notin {"secret", "find"}
    <3>1. At(r, "switch") \/ At(r, "codes") => req[r].op = "enable"
      BY <1>1 DEF At, Scripts, Scripted
    <3> QED BY <1>1, <1>15, <3>1, Effects DEF Moves, At
  <2> QED BY <1>13, <2>1, <2>2
<1>16. Goal
  BY <1>9, <1>10, <1>11, <1>12, <1>14, <1>15 DEF Next
<1> QED BY <1>5, <1>16

(* The rows after a step: some of those there were, perhaps with one newer *)
(* batch.                                                                  *)
LEMMA RowsStep ==
  IInv /\ Next =>
    /\ unused' \cap used' = {} /\ Rows' \subseteq 1..batches'
    /\ \/ Rows' \subseteq Rows /\ unused' \subseteq unused
       \/ /\ Rows' \subseteq Rows \cup {batches + 1} /\ unused' \subseteq unused \cup {batches + 1}
          /\ batches' = batches + 1
<1> DEFINE Goal == /\ unused' \cap used' = {} /\ Rows' \subseteq 1..batches'
                   /\ \/ Rows' \subseteq Rows /\ unused' \subseteq unused
                      \/ /\ Rows' \subseteq Rows \cup {batches + 1}
                         /\ unused' \subseteq unused \cup {batches + 1}
                         /\ batches' = batches + 1
<1> SUFFICES ASSUME IInv, Next PROVE Goal
  OBVIOUS
<1>1. /\ TypeOK /\ unused \cap used = {} /\ Rows \subseteq 1..batches
      /\ batches \in Nat /\ batches' \in Nat /\ batches <= batches'
  BY RoomsStep, BoundsAssumption DEF IInv, TypeOK, Rows
<1>2. ASSUME Rows' \subseteq Rows, unused' \subseteq unused, unused' \cap used' = {} PROVE Goal
  <2>1. 1..batches \subseteq 1..batches'
    BY <1>1
  <2> QED BY <1>1, <1>2, <2>1
<1>3. ASSUME UNCHANGED <<unused, used>> PROVE Goal
  BY <1>1, <1>2, <1>3 DEF Rows
<1>4. ASSUME NEW r \in Requests, CreateMany(r) PROVE Goal
  <2> DEFINE d == req[r].doomed
  <2>1. /\ batches' = batches + 1 /\ used' = used \ d
        /\ unused' = (unused \ d) \cup {batches + 1}
    BY <1>4 DEF CreateMany
  <2> HIDE DEF d
  <2>2. /\ batches + 1 \notin Rows /\ 1..batches \subseteq 1..(batches + 1)
        /\ batches + 1 \in 1..(batches + 1)
    BY <1>1
  <2> QED BY <1>1, <2>1, <2>2 DEF Rows
<1>5. ASSUME NEW r \in Requests, DeleteCodes(r) PROVE Goal
  BY <1>1, <1>2, <1>5 DEF DeleteCodes, Rows
<1>6. ASSUME NEW r \in Requests, MarkUsed(r) PROVE Goal
  BY <1>1, <1>2, <1>6 DEF MarkUsed, Rows
<1> HIDE DEF Goal
<1>7. ASSUME NEW r \in Requests,
             \/ \E code \in Codes : BeginEnable(r, code) \/ BeginDisable(r, code)
                                    \/ BeginSecond(r, code)
             \/ BeginSetup(r) \/ BeginLogin(r) \/ BeginNoChallenge(r) \/ SetSecret(r)
             \/ EnableDenied(r) \/ EnableVerified(r) \/ SwitchOn(r) \/ DeleteMany(r)
             \/ NotVerified(r)
             \/ VerifyTotp(r) \/ NoTotp(r) \/ FindUnused(r) \/ MarkGone(r) \/ SwitchOff(r)
             \/ LoginDenied(r) \/ LoginChallenge(r) \/ LoginDirect(r) \/ IssueSession(r)
             \/ Reply(r) \/ Fail(r)
      PROVE  Goal
  BY <1>3, <1>7 DEF BeginEnable, BeginDisable, BeginSecond, BeginSetup, BeginLogin,
       BeginNoChallenge, Arrive, SetSecret, EnableDenied, EnableVerified, Confirm, SwitchOn, DeleteMany, Doom,
       NotVerified,
       VerifyTotp, NoTotp, FindUnused, Among, MarkGone, SwitchOff, Off, LoginDenied,
       LoginChallenge, LoginDirect, IssueSession, Reply, Fail, account, table
<1>8. Goal
  BY <1>4, <1>5, <1>6, <1>7 DEF Next
<1> QED BY <1>8

(* A request slot leaves one batch, since its DELETE sees the batch of its *)
(* own last enable.                                                        *)
LEMMA MakersStep == IInv /\ Next => Makers'
<1> SUFFICES ASSUME IInv, Next PROVE Makers'
  OBVIOUS
<1>1. /\ TypeOK /\ Scripts /\ Rows \subseteq 1..batches /\ batches \in Nat
  BY BoundsAssumption DEF IInv, TypeOK, Rows
<1>2. PICK maker \in [Rows -> Requests] :
         /\ \A b, c \in Rows : maker[b] = maker[c] => b = c
         /\ \A b \in Rows : req[maker[b]].pc = "create" => b \in req[maker[b]].doomed
  BY DEF IInv, Makers, At
<1>3. ASSUME NEW f \in [Rows' -> Requests],
             \A b, c \in Rows' : f[b] = f[c] => b = c,
             \A b \in Rows' : req'[f[b]].pc = "create" => b \in req'[f[b]].doomed
      PROVE  Makers'
  BY <1>3 DEF Makers, At
<1>4. ASSUME NEW r \in Requests, Only(r), Rows' \subseteq Rows,
             req'[r].pc = "create" => Rows' \subseteq req'[r].doomed
      PROVE  Makers'
  <2> DEFINE f == [b \in Rows' |-> maker[b]]
  <2>1. f \in [Rows' -> Requests] /\ \A b \in Rows' : f[b] = maker[b]
    BY <1>2, <1>4
  <2> HIDE DEF f
  <2>2. \A b, c \in Rows' : f[b] = f[c] => b = c
    BY <1>2, <1>4, <2>1
  <2>3. ASSUME NEW b \in Rows', req'[f[b]].pc = "create" PROVE b \in req'[f[b]].doomed
    <3>1. CASE f[b] = r
      BY <1>4, <2>3, <3>1
    <3>2. CASE f[b] # r
      <4>1. f[b] \in Requests \ {r} /\ f[b] = maker[b] /\ b \in Rows
        BY <1>4, <2>1, <3>2
      <4>2. req'[f[b]] = req[f[b]]
        BY <1>4, <4>1 DEF Only
      <4> QED BY <1>2, <2>3, <4>1, <4>2
    <3> QED BY <3>1, <3>2
  <2> QED BY <1>3, <2>1, <2>2, <2>3
<1>5. ASSUME NEW r \in Requests, CreateMany(r) PROVE Makers'
  <2> DEFINE n == batches + 1
             f == [b \in Rows' |-> IF b = n THEN r ELSE maker[b]]
  <2>1. /\ Only(r) /\ req[r].pc = "create" /\ req'[r].pc = "reply"
    BY <1>1, <1>5, Effects DEF Moves, At
  <2>2. Rows' = (Rows \ req[r].doomed) \cup {n}
    BY <1>5 DEF CreateMany, Rows
  <2>3. n \notin Rows
    BY <1>1
  <2> HIDE DEF n
  <2>4. /\ f \in [Rows' -> Requests] /\ f[n] = r /\ n \in Rows'
        /\ \A b \in Rows' \ {n} : f[b] = maker[b] /\ b \in Rows /\ b \notin req[r].doomed
    BY <1>2, <2>2, <2>3
  <2> HIDE DEF f
  <2>5. \A b \in Rows' \ {n} : f[b] # r
    BY <1>2, <2>1, <2>4
  <2>6. \A b, c \in Rows' : f[b] = f[c] => b = c
    BY <1>2, <2>4, <2>5
  <2>7. ASSUME NEW b \in Rows', req'[f[b]].pc = "create" PROVE b \in req'[f[b]].doomed
    <3>1. f[b] # r /\ b # n
      BY <2>1, <2>4, <2>7
    <3>2. f[b] \in Requests \ {r} /\ f[b] = maker[b] /\ b \in Rows
      BY <2>4, <3>1
    <3>3. req'[f[b]] = req[f[b]]
      BY <2>1, <3>2 DEF Only
    <3> QED BY <1>2, <2>7, <3>2, <3>3
  <2> QED BY <1>3, <2>4, <2>6, <2>7
<1>6. ASSUME NEW r \in Requests, DeleteMany(r) PROVE Makers'
  <2>1. Only(r) /\ req'[r].doomed = Rows
    BY <1>1, <1>6, Effects DEF Moves
  <2>2. Rows' = Rows
    BY <1>6 DEF DeleteMany, Doom, account, table, Rows
  <2> QED BY <1>4, <2>1, <2>2
<1>7. ASSUME NEW r \in Requests, DeleteCodes(r) \/ MarkUsed(r) PROVE Makers'
  <2>1. Only(r) /\ req'[r].pc # "create"
    BY <1>1, <1>7, Effects DEF Moves
  <2>2. Rows' \subseteq Rows
    BY <1>7 DEF DeleteCodes, MarkUsed, Rows
  <2> QED BY <1>4, <2>1, <2>2
<1>8. ASSUME NEW r \in Requests,
             \/ \E code \in Codes : BeginEnable(r, code) \/ BeginDisable(r, code)
                                    \/ BeginSecond(r, code)
             \/ BeginSetup(r) \/ BeginLogin(r) \/ BeginNoChallenge(r) \/ SetSecret(r)
             \/ EnableDenied(r) \/ EnableVerified(r) \/ SwitchOn(r) \/ NotVerified(r)
             \/ VerifyTotp(r) \/ NoTotp(r) \/ FindUnused(r) \/ MarkGone(r) \/ SwitchOff(r)
             \/ LoginDenied(r) \/ LoginChallenge(r) \/ LoginDirect(r) \/ IssueSession(r)
             \/ Reply(r) \/ Fail(r)
      PROVE  Makers'
  <2>1. UNCHANGED <<unused, used>>
    BY <1>8 DEF BeginEnable, BeginDisable, BeginSecond, BeginSetup, BeginLogin,
       BeginNoChallenge, Arrive, SetSecret, EnableDenied, EnableVerified, Confirm, SwitchOn,
       NotVerified, VerifyTotp, NoTotp, FindUnused, Among, MarkGone, SwitchOff, Off, LoginDenied,
       LoginChallenge, LoginDirect, IssueSession, Reply, Fail, account, table
  <2>2. Only(r) /\ req'[r].pc # "create"
    BY <1>1, <1>8, Effects DEF Moves, Turns
  <2> QED BY <1>4, <2>1, <2>2 DEF Rows
<1> QED BY <1>5, <1>6, <1>7, <1>8 DEF Next

(* A code's verifications stay within the requests that can find it.       *)
LEMMA SpendsStep == IInv /\ Next => Spends'
<1> SUFFICES ASSUME IInv, Next, NEW b \in Batches
             PROVE  /\ b \in unused' \/ b > batches' => spent'[b] = 0
                    /\ spent'[b] + Cardinality(Using(b))' <= Cardinality(Requests)
  BY DEF Spends
<1>1. /\ TypeOK /\ Scripts /\ batches \in Nat /\ batches' \in Nat /\ batches <= batches'
      /\ spent[b] \in Nat /\ b \in Nat /\ Rows \subseteq 1..batches
  BY RoomsStep, BoundsAssumption DEF IInv, TypeOK, Batches, Rows
<1> DEFINE U == Cardinality(Using(b))
           V == Cardinality(Using(b))'
           all == Cardinality(Requests)
           Fresh == b \in unused \/ b > batches
           FreshAfter == b \in unused' \/ b > batches'
           Goal == (FreshAfter => spent'[b] = 0) /\ spent'[b] + V <= all
<1>2. U \in Nat /\ V \in Nat /\ all \in Nat /\ V <= all
  <2>1. Using(b) \in SUBSET Requests /\ Using(b)' \in SUBSET Requests
    BY DEF Using
  <2> QED BY <2>1, PartType, RequestsAssumption
<1>3. (Fresh => spent[b] = 0) /\ spent[b] + U <= all
  BY DEF IInv, Spends
<1>4. FreshAfter => Fresh
  BY <1>1, RowsStep DEF Rows
<1>5. ASSUME NEW r \in Requests, Only(r)
      PROVE  /\ (req'[r].pc = "use" /\ req'[r].code.of = b
                   => req[r].pc = "use" /\ req[r].code.of = b) => V <= U
             /\ (/\ req[r].pc = "use" /\ req[r].code.of = b
                 /\ ~(req'[r].pc = "use" /\ req'[r].code.of = b)) => V + 1 <= U
  <2> DEFINE C == Using(b)
             D == Using(b)'
  <2>1. /\ C \in SUBSET Requests /\ D \in SUBSET Requests /\ C \ {r} = D \ {r}
        /\ r \in C <=> req[r].pc = "use" /\ req[r].code.of = b
        /\ r \in D <=> req'[r].pc = "use" /\ req'[r].code.of = b
    BY <1>5 DEF Using, Only
  <2> HIDE DEF C, D
  <2>2. /\ (r \in D => r \in C) => Cardinality(D) <= Cardinality(C)
        /\ r \in C /\ r \notin D => Cardinality(D) + 1 <= Cardinality(C)
    BY <2>1, PartShift, RequestsAssumption
  <2> QED BY <2>1, <2>2 DEF C, D
<1> HIDE DEF U, V, all, Fresh, FreshAfter
<1>6. ASSUME UNCHANGED spent, V <= U PROVE Goal
  BY <1>1, <1>2, <1>3, <1>4, <1>6
<1>7. ASSUME NEW r \in Requests, MarkUsed(r) PROVE Goal
  <2> DEFINE c == req[r].code.of
  <2>1. /\ Only(r) /\ req[r].pc = "use" /\ req'[r].pc \in {"off", "issue"}
        /\ c \in 1..batches /\ spent' = [spent EXCEPT ![c] = @ + 1]
        /\ unused' = unused \ {c} /\ batches' = batches
    BY <1>1, <1>7, Effects DEF Moves, MarkUsed, At, Rows
  <2>2. CASE c = b
    <3>1. V + 1 <= U /\ ~FreshAfter
      BY <1>1, <1>5, <2>1, <2>2 DEF FreshAfter
    <3>2. spent'[b] = spent[b] + 1
      BY <1>1, <2>1, <2>2 DEF TypeOK
    <3> QED BY <1>1, <1>2, <1>3, <3>1, <3>2
  <2>3. CASE c # b
    <3>1. V <= U
      BY <1>5, <2>1
    <3>2. spent'[b] = spent[b]
      BY <1>1, <2>1, <2>3 DEF TypeOK
    <3> QED BY <1>1, <1>2, <1>3, <1>4, <3>1, <3>2
  <2> QED BY <2>2, <2>3
<1>8. ASSUME NEW r \in Requests, FindUnused(r) PROVE Goal
  <2>1. /\ Only(r) /\ req[r].pc = "lookup" /\ UNCHANGED <<spent, unused, batches>>
        /\ \/ req[r].code.of \in unused /\ req'[r].code = req[r].code
           \/ req'[r].pc = "reply"
    BY <1>1, <1>8, Effects DEF Moves, At, FindUnused, Among, account, table, history
  <2>2. CASE req'[r].pc = "use" /\ req'[r].code.of = b
    <3>1. Fresh
      BY <2>1, <2>2 DEF Fresh
    <3> QED BY <1>1, <1>2, <1>3, <2>1, <3>1
  <2>3. CASE ~(req'[r].pc = "use" /\ req'[r].code.of = b)
    <3>1. V <= U
      BY <1>5, <2>1, <2>3
    <3> QED BY <1>6, <2>1, <3>1
  <2> QED BY <2>2, <2>3
<1>9. ASSUME NEW r \in Requests, Only(r), req'[r].pc # "use", UNCHANGED spent PROVE Goal
  <2>1. V <= U
    BY <1>5, <1>9
  <2> QED BY <1>6, <1>9, <2>1
<1> HIDE DEF Goal
<1>10. ASSUME NEW r \in Requests,
              \/ \E code \in Codes : BeginEnable(r, code) \/ BeginDisable(r, code)
                                     \/ BeginSecond(r, code)
              \/ BeginSetup(r) \/ BeginLogin(r) \/ BeginNoChallenge(r) \/ SetSecret(r)
              \/ EnableDenied(r) \/ EnableVerified(r) \/ SwitchOn(r) \/ DeleteMany(r)
              \/ CreateMany(r)
              \/ NotVerified(r) \/ VerifyTotp(r) \/ NoTotp(r) \/ MarkGone(r) \/ SwitchOff(r)
              \/ DeleteCodes(r) \/ LoginDenied(r) \/ LoginChallenge(r) \/ LoginDirect(r)
              \/ IssueSession(r) \/ Reply(r) \/ Fail(r)
       PROVE  Goal
  <2>1. UNCHANGED spent
    BY <1>10 DEF BeginEnable, BeginDisable, BeginSecond, BeginSetup, BeginLogin,
         BeginNoChallenge, Arrive, SetSecret, EnableDenied, EnableVerified, Confirm, SwitchOn,
         DeleteMany, Doom, CreateMany, NotVerified, VerifyTotp, NoTotp, MarkGone, SwitchOff, Off,
         DeleteCodes, LoginDenied, LoginChallenge, LoginDirect, IssueSession, Reply, Fail,
         history
  <2>2. Only(r) /\ req'[r].pc # "use"
    BY <1>1, <1>10, Effects DEF Moves, Turns
  <2> QED BY <1>9, <2>1, <2>2
<1>11. Goal
  BY <1>7, <1>8, <1>10 DEF Next
<1> QED BY <1>11 DEF Goal, FreshAfter, V, all

(* A guarded request stays so while 2FA stays on.                          *)
LEMMA GuardedStep == IInv /\ Next => Guarded'
<1> SUFFICES ASSUME IInv, Next PROVE Guarded'
  OBVIOUS
<1>1. TypeOK /\ Scripts /\ Guarded
  BY DEF IInv
<1> DEFINE Fine(q) == q.pc = "issue" \/ q.status = "session" => q.factor # "none"
<1>2. \A r \in guarded : r \in Requests /\ enabled /\ Fine(req[r])
  BY <1>1 DEF Guarded, TypeOK, At
<1>3. ASSUME NEW r \in Requests, Only(r), guarded' \ {r} \subseteq guarded,
             \A q \in guarded' : enabled',
             r \in guarded' => Fine(req'[r])
      PROVE  Guarded'
  <2>1. ASSUME NEW q \in guarded' PROVE Fine(req'[q])
    BY <1>2, <1>3, <2>1 DEF Only
  <2> QED BY <1>3, <2>1 DEF Guarded, At
<1>4. ASSUME NEW r \in Requests, Only(r), guarded' \subseteq guarded, enabled => enabled',
             r \in guarded' /\ Fine(req[r]) => Fine(req'[r])
      PROVE  Guarded'
  <2>1. \A q \in guarded' : enabled'
    BY <1>2, <1>4
  <2> QED BY <1>2, <1>3, <1>4, <2>1
<1>5. ASSUME NEW r \in Requests, NEW op, NEW pc \in {"secret", "find"}, NEW code,
             Arrive(r, op, pc, code), Turns(r, op, pc)
      PROVE  Guarded'
  <2>1. /\ Only(r) /\ Fine(req'[r]) /\ enabled' = enabled
        /\ guarded' = IF enabled THEN guarded \cup {r} ELSE guarded
    BY <1>5 DEF Arrive, Turns, account, table
  <2>2. \A q \in guarded' : enabled'
    BY <1>2, <2>1
  <2> HIDE DEF Fine
  <2> QED BY <1>3, <2>1, <2>2
<1>6. ASSUME NEW r \in Requests, NEW code \in Codes,
             BeginEnable(r, code) \/ BeginDisable(r, code) \/ BeginSecond(r, code)
      PROVE  Guarded'
  <2>1. \/ Arrive(r, "enable", "find", code) /\ Turns(r, "enable", "find")
        \/ Arrive(r, "disable", "find", code) /\ Turns(r, "disable", "find")
        \/ Arrive(r, "second", "find", code) /\ Turns(r, "second", "find")
    BY <1>1, <1>6, Effects DEF BeginEnable, BeginDisable, BeginSecond
  <2> QED BY <1>5, <2>1
<1>7. ASSUME NEW r \in Requests, BeginSetup(r) \/ BeginLogin(r) PROVE Guarded'
  <2>1. \/ Arrive(r, "setup", "secret", Wrong) /\ Turns(r, "setup", "secret")
        \/ Arrive(r, "login", "find", Wrong) /\ Turns(r, "login", "find")
    BY <1>1, <1>7, Effects DEF BeginSetup, BeginLogin
  <2> QED BY <1>5, <2>1
<1>8. ASSUME NEW r \in Requests, BeginNoChallenge(r) PROVE Guarded'
  <2>1. Only(r) /\ Fine(req'[r]) /\ UNCHANGED <<guarded, enabled>>
    BY <1>1, <1>8, Effects DEF Turns, BeginNoChallenge, account, table, history
  <2> QED BY <1>4, <2>1
<1>9. ASSUME NEW r \in Requests, SwitchOff(r) PROVE Guarded'
  BY <1>9 DEF SwitchOff, Off, Guarded
<1>10. ASSUME NEW r \in Requests, SwitchOn(r) PROVE Guarded'
  <2>1. /\ Only(r) /\ UNCHANGED guarded /\ enabled' = TRUE
        /\ Fine(req[r]) => Fine(req'[r])
    BY <1>1, <1>10, Effects DEF Moves, SwitchOn, history
  <2> QED BY <1>4, <2>1
<1>11. ASSUME NEW r \in Requests, LoginDirect(r) PROVE Guarded'
  <2>1. guarded' = guarded /\ ~enabled
    BY <1>11 DEF LoginDirect, history
  <2>2. guarded' = {}
    BY <1>2, <2>1
  <2> QED BY <2>2 DEF Guarded
<1>12. ASSUME NEW r \in Requests, VerifyTotp(r) \/ MarkUsed(r) \/ IssueSession(r)
       PROVE  Guarded'
  <2>1. UNCHANGED <<guarded, enabled>>
    BY <1>12 DEF VerifyTotp, MarkUsed, IssueSession, account, table, history
  <2>2. Only(r) /\ (Fine(req[r]) => Fine(req'[r]))
    BY <1>1, <1>12, Effects DEF Moves, At
  <2> QED BY <1>4, <2>1, <2>2
<1>13. ASSUME NEW r \in Requests, Reply(r) \/ Fail(r) PROVE Guarded'
  <2>1. Only(r) /\ guarded' = guarded \ {r} /\ enabled' = enabled
    BY <1>1, <1>13, Effects DEF Turns, Reply, Fail, Leave, account, table
  <2> QED BY <1>4, <2>1
<1>14. ASSUME NEW r \in Requests,
              \/ SetSecret(r) \/ EnableDenied(r) \/ EnableVerified(r) \/ DeleteMany(r)
              \/ CreateMany(r) \/ NotVerified(r) \/ NoTotp(r) \/ FindUnused(r) \/ MarkGone(r) \/ DeleteCodes(r)
              \/ LoginDenied(r) \/ LoginChallenge(r)
       PROVE  Guarded'
  <2>1. UNCHANGED <<guarded, enabled>>
    BY <1>14 DEF SetSecret, EnableDenied, EnableVerified, Confirm, DeleteMany, Doom, CreateMany, NotVerified,
         NoTotp, FindUnused, Among, MarkGone, DeleteCodes, LoginDenied, LoginChallenge,
         account, table, history
  <2>2. Only(r) /\ (Fine(req[r]) => Fine(req'[r]))
    BY <1>1, <1>14, Effects DEF Moves
  <2> QED BY <1>4, <2>1, <2>2
<1> QED BY <1>6, <1>7, <1>8, <1>9, <1>10, <1>11, <1>12, <1>13, <1>14 DEF Next

(* An overlap, and a loss part way, are never forgotten.                   *)
LEMMA Lasting == Next => (~overlapped' => ~overlapped) /\ (~broken' => ~broken)
<1>1. Next => (~overlapped' => ~overlapped)
  BY DEF Next, BeginEnable, BeginDisable, BeginSecond, BeginSetup, BeginLogin,
         BeginNoChallenge, Arrive, SetSecret, EnableDenied, EnableVerified, Confirm, SwitchOn,
         DeleteMany, Doom, CreateMany, NotVerified, VerifyTotp, NoTotp, FindUnused, Among,
         MarkUsed, MarkGone, SwitchOff, Off, DeleteCodes, LoginDenied, LoginChallenge,
         LoginDirect, IssueSession, Reply, Fail, history
<1>2. Next => (~broken' => ~broken)
  BY DEF Next, BeginEnable, BeginDisable, BeginSecond, BeginSetup, BeginLogin,
         BeginNoChallenge, Arrive, SetSecret, EnableDenied, EnableVerified, Confirm, SwitchOn,
         DeleteMany, Doom, CreateMany, NotVerified, VerifyTotp, NoTotp, FindUnused, Among,
         MarkUsed, MarkGone, SwitchOff, Off, DeleteCodes, LoginDenied, LoginChallenge,
         LoginDirect, IssueSession, Reply, Fail, history
<1> QED BY <1>1, <1>2

(* While no two changes overlap, one change takes all its steps before the *)
(* next begins.                                                            *)
LEMMA AloneStep == IInv /\ Next => Alone'
<1> DEFINE Changing(q) == q.op \in Changes /\ q.pc # "reply"
           Stage(q, on, s, rows) == /\ q.pc = "switch" => s # 0
                                    /\ q.pc \in {"codes", "create"} => on
                                    /\ q.pc = "create" => rows \subseteq q.doomed
                                    /\ q.pc = "delete" => ~on
           Lone(rows) == \A b, c \in rows : b = c
           Goal == /\ \A p, q \in Requests :
                        Changing(req'[p]) /\ Changing(req'[q]) => p = q
                   /\ \A q \in Requests : Stage(req'[q], enabled', secret', Rows')
                   /\ Lone(Rows')
<1> SUFFICES ASSUME IInv, Next, ~overlapped' PROVE Goal
  BY DEF Alone, Running, At
<1>1. TypeOK /\ Scripts
  BY DEF IInv
<1>2. ~overlapped
  BY Lasting
<1>3. /\ \A p, q \in Requests : Changing(req[p]) /\ Changing(req[q]) => p = q
      /\ \A q \in Requests : Stage(req[q], enabled, secret, Rows)
      /\ Lone(Rows)
  BY <1>2 DEF IInv, Alone, Running, At
<1>4. \A q \in Requests :
        req[q].pc \in {"switch", "codes", "create", "delete"} => Changing(req[q])
  BY <1>1 DEF Scripts, Scripted, Changes
<1>5. ASSUME NEW r \in Requests, Only(r), Changing(req'[r]) => Changing(req[r]),
             UNCHANGED <<enabled, secret>>, Rows' \subseteq Rows,
             Stage(req'[r], enabled, secret, Rows')
      PROVE  Goal
  <2>1. \A q \in Requests : Stage(req[q], enabled, secret, Rows')
    BY <1>3, <1>5
  <2>2. Lone(Rows')
    BY <1>3, <1>5
  <2> HIDE DEF Changing, Stage, Lone
  <2>3. \A q \in Requests : Changing(req'[q]) => Changing(req[q])
    BY <1>5 DEF Only
  <2>4. \A q \in Requests : Stage(req'[q], enabled, secret, Rows')
    BY <1>5, <2>1 DEF Only
  <2> QED BY <1>3, <1>5, <2>2, <2>3, <2>4
<1>6. ASSUME NEW r \in Requests, Only(r), Changing(req[r]),
             Stage(req'[r], enabled', secret', Rows'), Lone(Rows')
      PROVE  Goal
  <2>1. \A q \in Requests \ {r} : ~Changing(req'[q])
    BY <1>3, <1>6 DEF Only
  <2>2. \A q \in Requests \ {r} : req'[q].pc \notin {"switch", "codes", "create", "delete"}
    BY <1>3, <1>4, <1>6 DEF Only
  <2> HIDE DEF Changing, Lone
  <2> QED BY <1>6, <2>1, <2>2
<1>7. ASSUME NEW r \in Requests, NEW op, NEW pc \in {"secret", "find"}, NEW code,
             Arrive(r, op, pc, code), Turns(r, op, pc)
      PROVE  Goal
  <2>1. /\ Only(r) /\ UNCHANGED <<enabled, secret>> /\ req'[r].op = op /\ req'[r].pc = pc
        /\ op \notin Changes \/ Running(Changes) = {}
    BY <1>7 DEF Arrive, Turns, account, table
  <2>2. Rows' = Rows
    BY <1>7 DEF Arrive, account, table, Rows
  <2>3. CASE op \notin Changes
    BY <1>5, <2>1, <2>2, <2>3
  <2>4. CASE Running(Changes) = {}
    <3>1. \A q \in Requests : ~Changing(req[q])
      BY <2>4 DEF Running, At
    <3>2. \A q \in Requests \ {r} : ~Changing(req'[q])
      BY <2>1, <3>1 DEF Only
    <3>3. \A q \in Requests : Stage(req'[q], enabled', secret', Rows')
      BY <1>3, <2>1, <2>2 DEF Only
    <3>4. Lone(Rows')
      BY <1>3, <2>2
    <3> HIDE DEF Changing, Stage, Lone
    <3> QED BY <3>2, <3>3, <3>4
  <2> QED BY <2>1, <2>3, <2>4
<1> HIDE DEF Goal
<1>8. ASSUME NEW r \in Requests, NEW code \in Codes,
             BeginEnable(r, code) \/ BeginDisable(r, code) \/ BeginSecond(r, code)
      PROVE  Goal
  <2>1. \/ Arrive(r, "enable", "find", code) /\ Turns(r, "enable", "find")
        \/ Arrive(r, "disable", "find", code) /\ Turns(r, "disable", "find")
        \/ Arrive(r, "second", "find", code) /\ Turns(r, "second", "find")
    BY <1>1, <1>8, Effects DEF BeginEnable, BeginDisable, BeginSecond
  <2> QED BY <1>7, <2>1
<1>9. ASSUME NEW r \in Requests, BeginSetup(r) \/ BeginLogin(r) PROVE Goal
  <2>1. \/ Arrive(r, "setup", "secret", Wrong) /\ Turns(r, "setup", "secret")
        \/ Arrive(r, "login", "find", Wrong) /\ Turns(r, "login", "find")
    BY <1>1, <1>9, Effects DEF BeginSetup, BeginLogin
  <2> QED BY <1>7, <2>1
<1>10. ASSUME NEW r \in Requests,
              \/ SetSecret(r) \/ EnableVerified(r) \/ SwitchOn(r) \/ DeleteMany(r)
              \/ CreateMany(r) \/ SwitchOff(r) \/ DeleteCodes(r)
       PROVE  Goal
  <2>1. Only(r) /\ Changing(req[r])
    BY <1>1, <1>10, Effects DEF Moves, At, Scripts, Scripted, Changes
  <2>2. Stage(req'[r], enabled', secret', Rows')
    <3>1. CASE SetSecret(r) \/ CreateMany(r) \/ DeleteCodes(r)
      BY <1>1, <3>1, Effects DEF Moves
    <3>2. CASE EnableVerified(r)
      BY <1>1, <3>2, Effects DEF Moves, EnableVerified, Confirm, account, table
    <3>3. CASE SwitchOn(r)
      BY <1>1, <3>3, Effects DEF Moves, SwitchOn
    <3>4. CASE SwitchOff(r)
      BY <1>1, <3>4, Effects DEF Moves, SwitchOff, Off
    <3>5. CASE DeleteMany(r)
      <4>1. /\ req[r].pc = "codes" /\ req'[r].pc = "create" /\ req'[r].doomed = Rows
        BY <1>1, <3>5, Effects DEF Moves, At
      <4>2. Rows' = Rows /\ enabled' = enabled
        BY <3>5 DEF DeleteMany, Doom, account, table, Rows
      <4> QED BY <1>3, <4>1, <4>2
    <3> QED BY <1>10, <3>1, <3>2, <3>3, <3>4, <3>5
  <2>3. Lone(Rows')
    <3>1. CASE CreateMany(r)
      <4>1. /\ req[r].pc = "create" /\ unused' = (unused \ req[r].doomed) \cup {batches'}
            /\ used' = used \ req[r].doomed
        BY <3>1 DEF CreateMany, At
      <4>2. Rows \subseteq req[r].doomed
        BY <1>3, <4>1
      <4>3. Rows' = {batches'}
        BY <4>1, <4>2 DEF Rows
      <4> QED BY <4>3
    <3>2. CASE ~CreateMany(r)
      <4>1. Rows' \subseteq Rows
        BY <1>10, <3>2 DEF SetSecret, EnableVerified, Confirm, SwitchOn, DeleteMany, Doom,
           SwitchOff, Off, DeleteCodes, account, table, Rows
      <4> QED BY <1>3, <4>1
    <3> QED BY <3>1, <3>2
  <2> QED BY <1>6, <2>1, <2>2, <2>3
<1>11. ASSUME NEW r \in Requests,
              \/ BeginNoChallenge(r) \/ EnableDenied(r) \/ NotVerified(r) \/ VerifyTotp(r)
              \/ NoTotp(r) \/ FindUnused(r) \/ MarkUsed(r) \/ MarkGone(r) \/ LoginDenied(r)
              \/ LoginChallenge(r) \/ LoginDirect(r) \/ IssueSession(r) \/ Reply(r) \/ Fail(r)
       PROVE  Goal
  <2>1. UNCHANGED <<enabled, secret>> /\ Rows' \subseteq Rows
    BY <1>11 DEF BeginNoChallenge, EnableDenied, NotVerified, VerifyTotp, NoTotp, FindUnused,
         Among, MarkUsed, MarkGone, LoginDenied, LoginChallenge, LoginDirect, IssueSession,
         Reply, Fail, account, table, Rows
  <2>2. /\ Only(r) /\ req'[r].pc \notin {"switch", "codes", "create", "delete"}
        /\ Changing(req'[r]) => Changing(req[r])
    BY <1>1, <1>11, Effects DEF Moves, Turns, At, Changes
  <2> QED BY <1>5, <2>1, <2>2
<1> QED BY <1>8, <1>9, <1>10, <1>11 DEF Next

(* Rows that are all one batch's are one at most.                          *)
LEMMA OneRow == ASSUME NEW rows, \A b, c \in rows : b = c PROVE Cardinality(rows) <= 1
<1>1. CASE rows = {}
  BY <1>1, FS_EmptySet
<1>2. CASE \E b \in rows : rows = {b}
  BY <1>2, FS_Singleton
<1> QED BY <1>1, <1>2

(* Between two changes that did not overlap and were not lost part way,    *)
(* the flag, the secret and the rows agree.                                *)
LEMMA ConsistentStep == IInv /\ Next => EnrolmentConsistent'
<1> DEFINE Part(q) == q.pc \in {"codes", "create", "delete"}
           Agrees == enabled <=> Rows # {}
           Secret == enabled => secret # 0
           Goal == /\ ~overlapped' => Secret'
                   /\ (~overlapped' /\ ~broken' /\ (\A q \in Requests : ~Part(req'[q]))) => Agrees'
<1>1. IInv /\ Next => (~overlapped' => Cardinality(Rows') <= 1)
  BY AloneStep, OneRow DEF Alone
<1> SUFFICES ASSUME IInv, Next PROVE Goal
  BY <1>1 DEF EnrolmentConsistent, InFlight, Rows
<1>2. /\ TypeOK /\ Scripts
      /\ ~overlapped => Secret
      /\ (~overlapped /\ ~broken /\ (\A q \in Requests : ~Part(req[q]))) => Agrees
  BY DEF IInv, EnrolmentConsistent, InFlight, Rows
<1>3. (~overlapped' => ~overlapped) /\ (~broken' => ~broken)
  BY Lasting
<1>4. ASSUME NEW r \in Requests
      PROVE  ~overlapped => /\ At(r, "switch") => secret # 0
                            /\ At(r, "codes") \/ At(r, "create") => enabled
                            /\ At(r, "delete") => ~enabled
  BY <1>4 DEF IInv, Alone
<1>5. ASSUME NEW r \in Requests, Only(r), UNCHANGED enabled, secret' = secret \/ secret' # 0,
             Rows' = Rows, broken' \/ ~Part(req[r])
      PROVE  Goal
  <2>1. ~overlapped' => Secret'
    BY <1>2, <1>3, <1>5
  <2>2. ASSUME ~overlapped', ~broken', \A q \in Requests : ~Part(req'[q]) PROVE Agrees'
    <3>1. \A q \in Requests : ~Part(req[q])
      BY <1>5, <2>2 DEF Only
    <3> HIDE DEF Part
    <3> QED BY <1>2, <1>3, <1>5, <2>2, <3>1
  <2> QED BY <2>1, <2>2
<1>6. ASSUME NEW r \in Requests, SetSecret(r) PROVE Goal
  <2>1. /\ Only(r) /\ ~Part(req[r]) /\ UNCHANGED enabled /\ Rows' = Rows
        /\ secret' = setups + 1
    BY <1>2, <1>6, Effects DEF Moves, At, SetSecret, Rows
  <2>2. secret' # 0
    BY <1>2, <2>1, BoundsAssumption DEF TypeOK
  <2> QED BY <1>5, <2>1, <2>2
<1>7. ASSUME NEW r \in Requests, SwitchOn(r) PROVE Goal
  <2>1. /\ At(r, "switch") /\ Part(req'[r]) /\ secret' = secret
    BY <1>2, <1>7, Effects DEF Moves, SwitchOn
  <2> QED BY <1>3, <1>4, <2>1
<1>8. ASSUME NEW r \in Requests, SwitchOff(r) PROVE Goal
  <2>1. Part(req'[r]) /\ enabled' = FALSE
    BY <1>2, <1>8, Effects DEF Moves, SwitchOff, Off
  <2> QED BY <2>1
<1>9. ASSUME NEW r \in Requests, CreateMany(r) PROVE Goal
  <2>1. /\ At(r, "create") /\ UNCHANGED <<enabled, secret>> /\ batches' \in Rows'
    BY <1>9 DEF CreateMany, Rows
  <2> QED BY <1>2, <1>3, <1>4, <2>1
<1>10. ASSUME NEW r \in Requests, DeleteMany(r) PROVE Goal
  <2>1. Part(req'[r]) /\ UNCHANGED <<enabled, secret>>
    BY <1>2, <1>10, Effects DEF Moves, DeleteMany, Doom, account, table
  <2> QED BY <1>2, <1>3, <2>1
<1>11. ASSUME NEW r \in Requests, DeleteCodes(r) PROVE Goal
  <2>1. /\ At(r, "delete") /\ UNCHANGED <<enabled, secret>> /\ Rows' = {}
    BY <1>11 DEF DeleteCodes, Rows
  <2> QED BY <1>2, <1>3, <1>4, <2>1
<1>12. ASSUME NEW r \in Requests, MarkUsed(r) PROVE Goal
  <2>1. /\ Only(r) /\ ~Part(req[r]) /\ UNCHANGED <<enabled, secret>>
        /\ Rows' = Rows
    BY <1>2, <1>12, Effects DEF Moves, At, MarkUsed, Rows
  <2> QED BY <1>5, <2>1
<1>13. ASSUME NEW r \in Requests, Fail(r) PROVE Goal
  <2>1. /\ Only(r) /\ UNCHANGED <<enabled, secret>> /\ Rows' = Rows
    BY <1>2, <1>13, Effects DEF Turns, Fail, account, table, Rows
  <2>2. broken' \/ ~Part(req[r])
    BY <1>13 DEF Fail
  <2> QED BY <1>5, <2>1, <2>2
<1> HIDE DEF Goal
<1>14. ASSUME NEW r \in Requests,
              \/ \E code \in Codes : BeginEnable(r, code) \/ BeginDisable(r, code)
                                     \/ BeginSecond(r, code)
              \/ BeginSetup(r) \/ BeginLogin(r) \/ BeginNoChallenge(r)
              \/ EnableDenied(r) \/ EnableVerified(r) \/ NotVerified(r) \/ VerifyTotp(r)
              \/ NoTotp(r) \/ FindUnused(r) \/ MarkGone(r) \/ LoginDenied(r)
              \/ LoginChallenge(r) \/ LoginDirect(r) \/ IssueSession(r) \/ Reply(r)
       PROVE  Goal
  <2>1. UNCHANGED <<enabled, secret, unused, used>>
    BY <1>14 DEF BeginEnable, BeginDisable, BeginSecond, BeginSetup, BeginLogin,
         BeginNoChallenge, Arrive, EnableDenied, EnableVerified, Confirm, NotVerified, VerifyTotp, NoTotp,
         FindUnused, Among, MarkGone, LoginDenied, LoginChallenge, LoginDirect, IssueSession,
         Reply, account, table
  <2>2. Only(r) /\ ~Part(req[r])
    BY <1>2, <1>14, Effects DEF Moves, Turns, At
  <2> QED BY <1>5, <2>1, <2>2 DEF Rows
<1> QED BY <1>6, <1>7, <1>8, <1>9, <1>10, <1>11, <1>12, <1>13, <1>14 DEF Next

(* Every variable keeps its type.                                          *)
LEMMA TypeStep == IInv /\ Next => TypeOK'
<1> SUFFICES ASSUME IInv, Next PROVE TypeOK'
  OBVIOUS
<1>1. /\ TypeOK /\ Scripts /\ setups \in Nat /\ setups' \in Nat /\ setups <= setups'
      /\ setups' \in 0..MaxSetups /\ batches' \in 0..MaxBatches
  BY RoomsStep, BoundsAssumption DEF IInv, TypeOK
<1>2. req' \in [Requests -> RequestType]
  BY RequestStep, <1>1
<1>3. unused' \cup used' \subseteq 1..batches' /\ unused' \cap used' = {}
  BY RowsStep DEF Rows
<1>4. enabled' \in BOOLEAN /\ challenged' \in BOOLEAN
  <2>1. enabled' \in {enabled, TRUE, FALSE} /\ challenged' \in {challenged, TRUE}
    BY DEF Next, BeginEnable, BeginDisable, BeginSecond, BeginSetup, BeginLogin,
       BeginNoChallenge, Arrive, SetSecret, EnableDenied, EnableVerified, Confirm, SwitchOn,
       DeleteMany, Doom, CreateMany, NotVerified, VerifyTotp, NoTotp, FindUnused, Among,
       MarkUsed, MarkGone, SwitchOff, Off, DeleteCodes, LoginDenied, LoginChallenge,
       LoginDirect, IssueSession, Reply, Fail, account, table
  <2> QED BY <1>1, <2>1 DEF TypeOK
<1>5. secret' \in 0..setups'
  <2>1. secret \in 0..setups'
    BY <1>1 DEF TypeOK
  <2>2. secret' \in {secret, 0, setups'}
    BY DEF Next, BeginEnable, BeginDisable, BeginSecond, BeginSetup, BeginLogin,
       BeginNoChallenge, Arrive, SetSecret, EnableDenied, EnableVerified, Confirm, SwitchOn,
       DeleteMany, Doom, CreateMany, NotVerified, VerifyTotp, NoTotp, FindUnused, Among,
       MarkUsed, MarkGone, SwitchOff, Off, DeleteCodes, LoginDenied, LoginChallenge,
       LoginDirect, IssueSession, Reply, Fail, account, table
  <2> QED BY <1>1, <2>1, <2>2
<1>6. confirmed' \subseteq 1..setups'
  <2>1. confirmed \subseteq 1..setups' /\ secret \in 0..setups'
    BY <1>1 DEF TypeOK
  <2>2. confirmed' = confirmed \/ (secret # 0 /\ confirmed' = confirmed \cup {secret})
    BY DEF Next, BeginEnable, BeginDisable, BeginSecond, BeginSetup, BeginLogin,
       BeginNoChallenge, Arrive, SetSecret, EnableDenied, EnableVerified, Confirm, SwitchOn,
       DeleteMany, Doom, CreateMany, NotVerified, VerifyTotp, NoTotp, FindUnused, Among,
       MarkUsed, MarkGone, SwitchOff, Off, DeleteCodes, LoginDenied, LoginChallenge,
       LoginDirect, IssueSession, Reply, Fail, history
  <2>3. secret # 0 => secret \in 1..setups'
    BY <1>1, <2>1
  <2> QED BY <2>1, <2>2, <2>3
<1>7. guarded' \in SUBSET Requests
  <2>1. \E r \in Requests : guarded' \subseteq guarded \cup {r}
    BY DEF Next, BeginEnable, BeginDisable, BeginSecond, BeginSetup, BeginLogin,
       BeginNoChallenge, Arrive, SetSecret, EnableDenied, EnableVerified, Confirm, SwitchOn,
       DeleteMany, Doom, CreateMany, NotVerified, VerifyTotp, NoTotp, FindUnused, Among,
       MarkUsed, MarkGone, SwitchOff, Off, DeleteCodes, LoginDenied, LoginChallenge,
       LoginDirect, IssueSession, Reply, Fail, Leave, history
  <2> QED BY <1>1, <2>1 DEF TypeOK
<1>8. spent' \in [Batches -> Nat]
  <2>1. spent' = spent \/ \E b : spent' = [spent EXCEPT ![b] = @ + 1]
    BY DEF Next, BeginEnable, BeginDisable, BeginSecond, BeginSetup, BeginLogin,
       BeginNoChallenge, Arrive, SetSecret, EnableDenied, EnableVerified, Confirm, SwitchOn,
       DeleteMany, Doom, CreateMany, NotVerified, VerifyTotp, NoTotp, FindUnused, Among,
       MarkUsed, MarkGone, SwitchOff, Off, DeleteCodes, LoginDenied, LoginChallenge,
       LoginDirect, IssueSession, Reply, Fail, history
  <2> QED BY <1>1, <2>1 DEF TypeOK
<1>9. overlapped' \in BOOLEAN /\ broken' \in BOOLEAN
  <2>1. overlapped' = overlapped \/ overlapped' \in BOOLEAN
    BY DEF Next, BeginEnable, BeginDisable, BeginSecond, BeginSetup, BeginLogin,
       BeginNoChallenge, Arrive, SetSecret, EnableDenied, EnableVerified, Confirm, SwitchOn,
       DeleteMany, Doom, CreateMany, NotVerified, VerifyTotp, NoTotp, FindUnused, Among,
       MarkUsed, MarkGone, SwitchOff, Off, DeleteCodes, LoginDenied, LoginChallenge,
       LoginDirect, IssueSession, Reply, Fail, history
  <2>2. broken' = broken \/ broken' \in BOOLEAN
    BY DEF Next, BeginEnable, BeginDisable, BeginSecond, BeginSetup, BeginLogin,
       BeginNoChallenge, Arrive, SetSecret, EnableDenied, EnableVerified, Confirm, SwitchOn,
       DeleteMany, Doom, CreateMany, NotVerified, VerifyTotp, NoTotp, FindUnused, Among,
       MarkUsed, MarkGone, SwitchOff, Off, DeleteCodes, LoginDenied, LoginChallenge,
       LoginDirect, IssueSession, Reply, Fail, history
  <2> QED BY <1>1, <2>1, <2>2 DEF TypeOK
<1> QED BY <1>1, <1>2, <1>3, <1>4, <1>5, <1>6, <1>7, <1>8, <1>9 DEF TypeOK

-----------------------------------------------------------------------------
(* The invariant is inductive.                                             *)
LEMMA Inductive == Spec => []IInv
<1>1. Init => IInv
  <2> SUFFICES ASSUME Init PROVE IInv
    OBVIOUS
  <2>1. /\ unused = {} /\ used = {} /\ Rows = {} /\ setups = 0 /\ batches = 0 /\ guarded = {}
        /\ enabled = FALSE /\ \A r \in Requests : req[r] = NoRequest
    BY DEF Init, Rows
  <2>2. TypeOK
    <3>1. NoRequest \in RequestType
      BY BoundsAssumption DEF NoRequest, RequestType, Ops, Pcs, Statuses, Factors, Wrong, Codes,
         Secrets
    <3>2. req \in [Requests -> RequestType] /\ spent \in [Batches -> Nat]
      BY <3>1 DEF Init
    <3>3. unused \cap used = {}
      BY <2>1
    <3>4. /\ enabled \in BOOLEAN /\ challenged \in BOOLEAN
          /\ overlapped \in BOOLEAN /\ broken \in BOOLEAN
      BY DEF Init
    <3>5. /\ secret \in 0..setups /\ unused \cup used \subseteq 1..batches
          /\ setups \in 0..MaxSetups /\ batches \in 0..MaxBatches
          /\ confirmed \subseteq 1..setups /\ guarded \in SUBSET Requests
      BY <2>1, BoundsAssumption DEF Init
    <3> QED BY <3>2, <3>3, <3>4, <3>5 DEF TypeOK
  <2>3. Scripts /\ Guarded
    BY <2>1 DEF Scripts, Scripted, Guarded, NoRequest
  <2>4. Makers
    <3> DEFINE f == [b \in Rows |-> CHOOSE r \in Requests : TRUE]
    <3>1. f \in [Rows -> Requests]
      BY <2>1
    <3> QED BY <2>1, <3>1 DEF Makers
  <2>5. Rooms
    <3>1. ASSUME NEW op, NEW pcs, "idle" \notin pcs PROVE Cardinality(Busy(op, pcs)) = 0
      <4>1. Busy(op, pcs) = {}
        BY <2>1, <3>1 DEF Busy, NoRequest
      <4> QED BY <4>1, FS_EmptySet
    <3> QED BY <2>1, <3>1, BoundsAssumption DEF Rooms
  <2>6. Spends
    <3>1. ASSUME NEW b PROVE Cardinality(Using(b)) = 0
      <4>1. Using(b) = {}
        BY <2>1 DEF Using, NoRequest
      <4> QED BY <4>1, FS_EmptySet
    <3>2. Cardinality(Requests) \in Nat /\ \A b \in Batches : spent[b] = 0
      BY FS_CardinalityType, RequestsAssumption DEF Init
    <3> QED BY <3>1, <3>2 DEF Spends
  <2>7. Alone /\ EnrolmentConsistent
    <3>1. \A r \in Requests : req[r].op = "none" /\ req[r].pc = "idle"
      BY <2>1 DEF NoRequest
    <3>2. Cardinality(unused \cup used) = 0
      BY <2>1, FS_EmptySet
    <3> QED BY <2>1, <3>1, <3>2 DEF Alone, Running, Changes, At, EnrolmentConsistent
  <2> QED BY <2>2, <2>3, <2>4, <2>5, <2>6, <2>7 DEF IInv
<1>2. IInv /\ [Next]_vars => IInv'
  <2>1. IInv /\ Next => IInv'
    BY TypeStep, RequestStep, MakersStep, RoomsStep, SpendsStep, GuardedStep, AloneStep,
       ConsistentStep DEF IInv
  <2>2. ASSUME IInv, UNCHANGED vars PROVE IInv'
    <3>1. UNCHANGED <<enabled, secret, unused, used, challenged, req, setups, batches, confirmed,
                      guarded, spent, overlapped, broken>>
      BY <2>2 DEF vars, account, table, history
    <3>2. TypeOK' /\ Scripts' /\ Makers' /\ Guarded'
      BY <2>2, <3>1 DEF IInv, TypeOK, Scripts, Makers, Rows, Guarded, At
    <3>3. Alone'
      BY <2>2, <3>1 DEF IInv, Alone, Running, At, Rows
    <3>4. EnrolmentConsistent'
      BY <2>2, <3>1 DEF IInv, EnrolmentConsistent, InFlight
    <3>5. Rooms' /\ Spends'
      BY <2>2, <3>1 DEF IInv, Rooms, Busy, Spends, Using
    <3> QED BY <3>2, <3>3, <3>4, <3>5 DEF IInv
  <2> QED BY <2>1, <2>2
<1> QED BY <1>1, <1>2, PTL DEF Spec

(* Every variable keeps its type, no code is unused and used at once, and  *)
(* a setup or an enable stores nothing beyond the room it reserved.        *)
THEOREM TypeCorrect == Spec => []TypeOK
<1>1. IInv => TypeOK
  BY DEF IInv
<1> QED BY <1>1, Inductive, PTL

(* A recovery code passes at most as many verifications as requests were   *)
(* in flight when it was first spent, never one more.                      *)
THEOREM CodeSpendsCorrect == Spec => []CodeSpendBound
<1>1. ASSUME IInv, NEW b \in Batches PROVE spent[b] <= Cardinality(Requests)
  <2>1. Cardinality(Using(b)) \in Nat /\ Cardinality(Requests) \in Nat
    <3>1. Using(b) \in SUBSET Requests
      BY DEF Using
    <3> QED BY <3>1, PartType, RequestsAssumption
  <2>2. spent[b] \in Nat /\ spent[b] + Cardinality(Using(b)) <= Cardinality(Requests)
    BY <1>1 DEF IInv, TypeOK, Spends
  <2> QED BY <2>1, <2>2
<1>2. IInv => CodeSpendBound
  BY <1>1 DEF CodeSpendBound
<1> QED BY <1>2, Inductive, PTL

(* However many enables overlap, the batches that are left are never more  *)
(* than the requests that can overlap: a request slot leaves one.          *)
THEOREM BatchesCorrect == Spec => []BatchBound
<1>1. ASSUME IInv PROVE Cardinality(Rows) <= Cardinality(Requests)
  <2>1. PICK maker \in [Rows -> Requests] : \A b, c \in Rows : maker[b] = maker[c] => b = c
    BY <1>1 DEF IInv, Makers
  <2>2. maker \in Injection(Rows, Requests)
    BY <2>1 DEF Injection, IsInjective
  <2> QED BY <2>1, <2>2, FS_Injection, RequestsAssumption
<1>2. IInv => BatchBound
  BY <1>1 DEF BatchBound, Rows
<1> QED BY <1>2, Inductive, PTL

(* While 2FA is on, nobody gets a session without a second factor.         *)
THEOREM SecondFactorCorrect == Spec => []SecondFactorRequired
<1>1. IInv => SecondFactorRequired
  BY DEF IInv, Guarded, SecondFactorRequired
<1> QED BY <1>1, Inductive, PTL

(* The flag, the secret and the recovery codes agree between changes,      *)
(* unless two changes overlapped or one was lost part way.                 *)
THEOREM EnrolmentCorrect == Spec => []EnrolmentConsistent
<1>1. IInv => EnrolmentConsistent
  BY DEF IInv
<1> QED BY <1>1, Inductive, PTL

-----------------------------------------------------------------------------
(* README.md:147: recovery codes are one-time, as long as requests with    *)
(* one code do not overlap between the SELECT that finds it and the UPDATE *)
(* that marks it.                                                          *)
Apart ==
  \A q, r \in Requests :
    At(q, "use") /\ At(r, "use") /\ req[q].code.of = req[r].code.of => q = r

OneTime == \A b \in Batches : spent[b] <= 1

(* ... and a request that has just found it is the first.                  *)
FirstUse ==
  \A b \in Batches : spent[b] <= 1 /\ (Using(b) # {} => spent[b] = 0)

(* A request that is alone with a code finds it not yet spent.             *)
LEMMA FirstUseStep == IInv /\ FirstUse /\ Apart /\ Apart' /\ [Next]_vars => FirstUse'
<1> SUFFICES ASSUME IInv, FirstUse, Apart, Apart', [Next]_vars, NEW b \in Batches
             PROVE  spent'[b] <= 1 /\ (Using(b)' # {} => spent'[b] = 0)
  BY DEF FirstUse
<1> DEFINE Held == \E q \in Requests : req[q].pc = "use" /\ req[q].code.of = b
           HeldAfter == \E q \in Requests : req'[q].pc = "use" /\ req'[q].code.of = b
           Goal == spent'[b] <= 1 /\ (HeldAfter => spent'[b] = 0)
<1>1. /\ TypeOK /\ Scripts /\ spent[b] \in Nat /\ spent[b] <= 1 /\ Rows \subseteq 1..batches
      /\ b \in unused => spent[b] = 0
      /\ Held => spent[b] = 0
  <2>1. /\ TypeOK /\ Scripts /\ spent[b] \in Nat /\ Rows \subseteq 1..batches
        /\ b \in unused => spent[b] = 0
    BY BoundsAssumption DEF IInv, TypeOK, Batches, Rows, Spends
  <2>2. Held => Using(b) # {}
    BY DEF Using
  <2> QED BY <2>1, <2>2 DEF FirstUse
<1>2. Goal => spent'[b] <= 1 /\ (Using(b)' # {} => spent'[b] = 0)
  BY DEF Using
<1>3. ASSUME UNCHANGED spent, HeldAfter => Held PROVE Goal
  <2> HIDE DEF Held, HeldAfter
  <2> QED BY <1>1, <1>3
<1>4. ASSUME NEW r \in Requests, Only(r), req'[r].pc # "use", UNCHANGED spent PROVE Goal
  <2>1. HeldAfter => Held
    BY <1>4 DEF Only
  <2> QED BY <1>3, <1>4, <2>1
<1>5. ASSUME NEW r \in Requests, MarkUsed(r) PROVE Goal
  <2> DEFINE c == req[r].code.of
  <2>1. /\ Only(r) /\ req[r].pc = "use" /\ req'[r].pc \in {"off", "issue"}
        /\ spent' = [spent EXCEPT ![c] = @ + 1]
    BY <1>1, <1>5, Effects DEF Moves, MarkUsed, At
  <2>2. CASE c = b
    <3>1. Held
      BY <2>1, <2>2
    <3>2. spent'[b] = spent[b] + 1
      BY <1>1, <2>1, <2>2 DEF TypeOK
    <3>3. ASSUME HeldAfter PROVE FALSE
      <4>1. PICK q \in Requests : req'[q].pc = "use" /\ req'[q].code.of = b
        BY <3>3
      <4>2. q # r /\ req'[q] = req[q]
        BY <2>1, <4>1 DEF Only
      <4> QED BY <2>1, <2>2, <4>1, <4>2 DEF Apart, At
    <3> HIDE DEF Held, HeldAfter
    <3> QED BY <1>1, <3>1, <3>2, <3>3
  <2>3. CASE c # b
    <3>1. spent'[b] = spent[b]
      BY <1>1, <2>1, <2>3 DEF TypeOK
    <3>2. HeldAfter => Held
      BY <2>1 DEF Only
    <3> HIDE DEF Held, HeldAfter
    <3> QED BY <1>1, <3>1, <3>2
  <2> QED BY <2>2, <2>3
<1>6. ASSUME NEW r \in Requests, FindUnused(r) PROVE Goal
  <2>1. /\ Only(r) /\ UNCHANGED spent
        /\ \/ req[r].code.of \in unused /\ req'[r].code = req[r].code
           \/ req'[r].pc = "reply"
    BY <1>1, <1>6, Effects DEF Moves, At, FindUnused, Among, account, table, history
  <2>2. CASE req'[r].pc = "use" /\ req'[r].code.of = b
    <3>1. b \in unused
      BY <2>1, <2>2
    <3> HIDE DEF Held, HeldAfter
    <3> QED BY <1>1, <2>1, <3>1
  <2>3. CASE ~(req'[r].pc = "use" /\ req'[r].code.of = b)
    <3>1. HeldAfter => Held
      BY <2>1, <2>3 DEF Only
    <3> QED BY <1>3, <2>1, <3>1
  <2> QED BY <2>2, <2>3
<1>7. ASSUME UNCHANGED vars PROVE Goal
  BY <1>3, <1>7 DEF vars, history
<1> HIDE DEF Goal
<1>8. ASSUME NEW r \in Requests,
             \/ \E code \in Codes : BeginEnable(r, code) \/ BeginDisable(r, code)
                                    \/ BeginSecond(r, code)
             \/ BeginSetup(r) \/ BeginLogin(r) \/ BeginNoChallenge(r) \/ SetSecret(r)
             \/ EnableDenied(r) \/ EnableVerified(r) \/ SwitchOn(r) \/ DeleteMany(r)
             \/ CreateMany(r)
             \/ NotVerified(r) \/ VerifyTotp(r) \/ NoTotp(r) \/ MarkGone(r) \/ SwitchOff(r)
             \/ DeleteCodes(r) \/ LoginDenied(r) \/ LoginChallenge(r) \/ LoginDirect(r)
             \/ IssueSession(r) \/ Reply(r) \/ Fail(r)
      PROVE  Goal
  <2>1. UNCHANGED spent
    BY <1>8 DEF BeginEnable, BeginDisable, BeginSecond, BeginSetup, BeginLogin,
         BeginNoChallenge, Arrive, SetSecret, EnableDenied, EnableVerified, Confirm, SwitchOn,
         DeleteMany, Doom, CreateMany, NotVerified, VerifyTotp, NoTotp, MarkGone, SwitchOff, Off,
         DeleteCodes, LoginDenied, LoginChallenge, LoginDirect, IssueSession, Reply, Fail,
         history
  <2>2. Only(r) /\ req'[r].pc # "use"
    BY <1>1, <1>8, Effects DEF Moves, Turns
  <2> QED BY <1>4, <2>1, <2>2
<1>9. Goal
  BY <1>5, <1>6, <1>7, <1>8 DEF Next
<1> QED BY <1>2, <1>9

(* A recovery code passes one verification while requests with it do not   *)
(* overlap, whatever else runs at once, is lost or is made anew meanwhile. *)
THEOREM ApartOneTime == Spec /\ []Apart => []OneTime
<1>1. Init => FirstUse
  BY BoundsAssumption DEF Init, NoRequest, FirstUse, Using
<1>2. FirstUse => OneTime
  BY DEF FirstUse, OneTime
<1> QED BY <1>1, <1>2, FirstUseStep, Inductive, PTL DEF Spec

-----------------------------------------------------------------------------
(* The abstract specification: Enrolment.  The factor is active as soon as *)
(* there are recovery codes to it, and no longer than the flag is set.     *)
Enrol == INSTANCE Enrolment WITH
  active <- enabled /\ unused \cup used # {},
  codes <- IF enabled THEN unused ELSE {},
  prepared <- 1..setups,
  issued <- 1..batches

(* No two changes of the enrolment have overlapped, and none was lost      *)
(* between the flag and the codes.                                         *)
Undisturbed == ~overlapped /\ ~broken

(* A disable that has verified its code finds the factor on, and an enable *)
(* that has, its secret.                                                   *)
Settled ==
  ~overlapped =>
    \A r \in Requests :
      /\ req[r].op = "disable" /\ req[r].pc \in {"lookup", "use", "off"} => enabled
      /\ req[r].pc \in {"switch", "codes", "create"} => secret \in confirmed

(* While changes do not overlap, nothing comes between a check and what it *)
(* was made for.                                                           *)
LEMMA SettledStep == IInv /\ Settled /\ Next => Settled'
<1> DEFINE Stage(q, on, s, shown) ==
             /\ q.op = "disable" /\ q.pc \in {"lookup", "use", "off"} => on
             /\ q.pc \in {"switch", "codes", "create"} => s \in shown
           Checked(q) == \/ q.op = "disable" /\ q.pc \in {"lookup", "use", "off"}
                         \/ q.pc \in {"switch", "codes", "create"}
           Goal == \A q \in Requests : Stage(req'[q], enabled', secret', confirmed')
<1> SUFFICES ASSUME IInv, Settled, Next, ~overlapped' PROVE Goal
  BY DEF Settled
<1>1. TypeOK /\ Scripts /\ ~overlapped
  BY Lasting DEF IInv
<1>2. /\ \A p, q \in Requests :
           p \in Running(Changes) /\ q \in Running(Changes) => p = q
      /\ \A q \in Requests : Stage(req[q], enabled, secret, confirmed)
  BY <1>1 DEF IInv, Alone, Settled
<1>3. ASSUME NEW q \in Requests, Checked(req[q]) PROVE q \in Running(Changes)
  BY <1>1, <1>3 DEF Running, At, Changes, Scripts, Scripted
<1>4. ASSUME NEW r \in Requests, Only(r), enabled => enabled', UNCHANGED secret,
             confirmed \subseteq confirmed', Stage(req'[r], enabled', secret', confirmed')
      PROVE  Goal
  BY <1>2, <1>4 DEF Only
<1>5. ASSUME NEW r \in Requests, Only(r), r \in Running(Changes), ~Checked(req'[r])
      PROVE  Goal
  <2>1. \A q \in Requests \ {r} : ~Checked(req[q])
    BY <1>2, <1>3, <1>5
  <2>2. \A q \in Requests : ~Checked(req'[q])
    BY <1>5, <2>1 DEF Only
  <2> QED BY <2>2
<1>6. ASSUME NEW r \in Requests, SetSecret(r) \/ SwitchOff(r) PROVE Goal
  <2>1. Only(r) /\ r \in Running(Changes) /\ req'[r].pc \in {"reply", "delete"}
    BY <1>1, <1>6, Effects DEF Moves, At, Running, Changes, Scripts, Scripted
  <2> QED BY <1>5, <2>1
<1>7. ASSUME NEW r \in Requests, EnableVerified(r) PROVE Goal
  <2>1. /\ Only(r) /\ req'[r].pc = "switch" /\ UNCHANGED <<enabled, secret>>
        /\ confirmed' = confirmed \cup {secret}
    BY <1>1, <1>7, Effects DEF Moves, EnableVerified, Confirm, account, table
  <2> QED BY <1>4, <2>1
<1>8. ASSUME NEW r \in Requests, SwitchOn(r) PROVE Goal
  <2>1. /\ Only(r) /\ req[r].pc = "switch" /\ req'[r].pc = "codes" /\ enabled' = TRUE
        /\ UNCHANGED <<secret, confirmed>>
    BY <1>1, <1>8, Effects DEF Moves, At, SwitchOn, history
  <2>2. secret \in confirmed
    BY <1>2, <2>1
  <2> QED BY <1>4, <2>1, <2>2
<1>9. ASSUME NEW r \in Requests, DeleteMany(r) PROVE Goal
  <2>1. /\ Only(r) /\ req[r].pc = "codes" /\ req'[r].pc = "create"
        /\ UNCHANGED <<enabled, secret, confirmed>>
    BY <1>1, <1>9, Effects DEF Moves, At, DeleteMany, Doom, account, table, history
  <2>2. secret \in confirmed
    BY <1>2, <2>1
  <2> QED BY <1>4, <2>1, <2>2
<1>10. ASSUME NEW r \in Requests, VerifyTotp(r) \/ NoTotp(r) PROVE Goal
  <2>1. /\ Only(r) /\ enabled /\ UNCHANGED <<enabled, secret, confirmed>>
        /\ req'[r].pc \in {"off", "issue", "lookup"}
    BY <1>1, <1>10, Effects DEF Moves, VerifyTotp, NoTotp, account, table, history
  <2> QED BY <1>4, <2>1
<1>11. ASSUME NEW r \in Requests, FindUnused(r) \/ MarkUsed(r) PROVE Goal
  <2>1. /\ Only(r) /\ UNCHANGED <<enabled, secret, confirmed>>
        /\ req[r].pc \in {"lookup", "use"} /\ req'[r].op = req[r].op
        /\ req'[r].pc \in {"use", "reply", "off", "issue"}
    BY <1>1, <1>11, Effects DEF Moves, At, FindUnused, Among, MarkUsed, account, table, history
  <2>2. req[r].op = "disable" => enabled
    BY <1>2, <2>1
  <2> QED BY <1>4, <2>1, <2>2
<1> HIDE DEF Goal
<1>12. ASSUME NEW r \in Requests, Only(r), UNCHANGED <<enabled, secret, confirmed>>,
              req'[r].pc \notin {"lookup", "use", "off", "switch", "codes", "create"}
       PROVE  Goal
  BY <1>4, <1>12
<1>13. ASSUME NEW r \in Requests,
              \/ \E code \in Codes : BeginEnable(r, code) \/ BeginDisable(r, code)
                                     \/ BeginSecond(r, code)
              \/ BeginSetup(r) \/ BeginLogin(r) \/ BeginNoChallenge(r) \/ EnableDenied(r)
              \/ CreateMany(r) \/ NotVerified(r) \/ MarkGone(r) \/ DeleteCodes(r)
              \/ LoginDenied(r) \/ LoginChallenge(r) \/ LoginDirect(r) \/ IssueSession(r)
              \/ Reply(r) \/ Fail(r)
       PROVE  Goal
  <2>1. UNCHANGED <<enabled, secret, confirmed>>
    BY <1>13 DEF BeginEnable, BeginDisable, BeginSecond, BeginSetup, BeginLogin,
         BeginNoChallenge, Arrive, EnableDenied, CreateMany, NotVerified,
         MarkGone, DeleteCodes, LoginDenied, LoginChallenge, LoginDirect, IssueSession, Reply,
         Fail, account, table, history
  <2>2. Only(r) /\ req'[r].pc \notin {"lookup", "use", "off", "switch", "codes", "create"}
    BY <1>1, <1>13, Effects DEF Moves, Turns
  <2> QED BY <1>12, <2>1, <2>2
<1> QED BY <1>6, <1>7, <1>8, <1>9, <1>10, <1>11, <1>13 DEF Next

(* A step that leaves the columns alone is a stutter, and the others are   *)
(* each one step of the enrolment, or none.                                *)
LEMMA EnrolmentStep ==
  IInv /\ Settled /\ Undisturbed /\ Undisturbed' /\ [Next]_vars => [Enrol!Next]_(Enrol!vars)
<1> SUFFICES ASSUME IInv, Settled, Undisturbed, Undisturbed', [Next]_vars
             PROVE  Enrol!Next \/ UNCHANGED Enrol!vars
  OBVIOUS
<1>1. /\ TypeOK /\ Scripts /\ ~overlapped /\ ~broken
      /\ setups \in Nat /\ batches \in Nat /\ Rows \subseteq 1..batches
  BY BoundsAssumption DEF IInv, TypeOK, Rows, Undisturbed
<1>2. /\ \A p, q \in Running(Changes) : p = q
      /\ \A q \in Requests : /\ At(q, "create") => enabled /\ secret \in confirmed
                             /\ At(q, "create") => Rows \subseteq req[q].doomed
                             /\ At(q, "delete") => ~enabled
                             /\ At(q, "off") => enabled
  BY <1>1 DEF IInv, Alone, Settled, At, Scripts, Scripted
<1>3. ASSUME NEW r \in Requests, At(r, "switch") \/ At(r, "off")
      PROVE  enabled <=> Rows # {}
  <2>1. r \in Running(Changes)
    BY <1>1, <1>3 DEF Running, At, Changes, Scripts, Scripted
  <2>2. ASSUME NEW q \in InFlight({"codes", "create", "delete"}) PROVE FALSE
    <3>1. q \in Running(Changes)
      BY <1>1, <2>2 DEF InFlight, Running, At, Changes, Scripts, Scripted
    <3>2. q = r
      BY <1>2, <2>1, <3>1
    <3> QED BY <1>3, <2>2, <3>2 DEF InFlight, At
  <2> QED BY <1>1, <2>2 DEF IInv, EnrolmentConsistent, Rows
<1>4. ASSUME UNCHANGED <<enabled, secret, unused, used, setups, batches, confirmed>>
      PROVE  UNCHANGED Enrol!vars
  BY <1>4 DEF Enrol!vars
<1>5. ASSUME NEW r \in Requests, SetSecret(r) PROVE Enrol!Next
  <2>1. /\ setups' = setups + 1 /\ secret' = setups + 1
        /\ UNCHANGED <<enabled, unused, used, batches, confirmed>>
    BY <1>5 DEF SetSecret, history
  <2>2. setups + 1 \in Nat /\ setups + 1 \notin (1..setups) \cup {0}
        /\ 1..(setups + 1) = (1..setups) \cup {setups + 1}
    BY <1>1
  <2>3. Enrol!Prepare(setups + 1)
    BY <2>1, <2>2 DEF Enrol!Prepare
  <2> QED BY <2>2, <2>3 DEF Enrol!Next
<1>6. ASSUME NEW r \in Requests, EnableVerified(r) PROVE Enrol!Next
  <2>1. Enrol!Confirm
    BY <1>6 DEF EnableVerified, Confirm, Enrol!Confirm, account, table
  <2> QED BY <2>1 DEF Enrol!Next
<1>7. ASSUME NEW r \in Requests, SwitchOn(r) PROVE UNCHANGED Enrol!vars
  <2>1. /\ At(r, "switch") /\ enabled' = TRUE
        /\ UNCHANGED <<secret, unused, used, setups, batches, confirmed>>
    BY <1>7 DEF SwitchOn, history
  <2>2. enabled \/ (unused = {} /\ used = {})
    BY <1>3, <2>1 DEF Rows
  <2>3. enabled \in BOOLEAN
    BY <1>1 DEF TypeOK
  <2> QED BY <2>1, <2>2, <2>3 DEF Enrol!vars
<1>8. ASSUME NEW r \in Requests, DeleteMany(r) PROVE UNCHANGED Enrol!vars
  BY <1>4, <1>8 DEF DeleteMany, Doom, account, table, history
<1>9. ASSUME NEW r \in Requests, CreateMany(r) PROVE Enrol!Next
  <2>0. /\ At(r, "create") /\ batches' = batches + 1
        /\ unused' = (unused \ req[r].doomed) \cup {batches + 1}
        /\ used' = used \ req[r].doomed
        /\ UNCHANGED <<enabled, secret, setups, confirmed>>
    BY <1>9 DEF CreateMany, history
  <2>1. unused' = {batches + 1} /\ used' = {}
    BY <1>2, <2>0 DEF Rows
  <2>2. /\ batches + 1 \in Nat /\ batches + 1 \notin 1..batches
        /\ 1..(batches + 1) = (1..batches) \cup {batches + 1}
    BY <1>1
  <2>3. enabled /\ secret \in confirmed
    BY <1>2, <2>0
  <2>4. Enrol!Activate(batches + 1)
    BY <2>0, <2>1, <2>2, <2>3 DEF Enrol!Activate
  <2> QED BY <2>2, <2>4 DEF Enrol!Next
<1>10. ASSUME NEW r \in Requests, SwitchOff(r) PROVE Enrol!Next
  <2>1. /\ At(r, "off") /\ enabled' = FALSE /\ secret' = 0
        /\ UNCHANGED <<unused, used, setups, batches, confirmed>>
    BY <1>10 DEF SwitchOff, Off
  <2>2. enabled /\ unused \cup used # {}
    BY <1>2, <1>3, <2>1 DEF Rows
  <2>3. Enrol!Deactivate
    BY <2>1, <2>2 DEF Enrol!Deactivate
  <2> QED BY <2>3 DEF Enrol!Next
<1>11. ASSUME NEW r \in Requests, DeleteCodes(r) PROVE UNCHANGED Enrol!vars
  <2>1. /\ At(r, "delete") /\ UNCHANGED <<enabled, secret, setups, batches, confirmed>>
    BY <1>11 DEF DeleteCodes, history
  <2>2. ~enabled
    BY <1>2, <2>1
  <2> QED BY <2>1, <2>2 DEF Enrol!vars
<1>12. ASSUME NEW r \in Requests, MarkUsed(r) PROVE Enrol!Next \/ UNCHANGED Enrol!vars
  <2> DEFINE c == req[r].code.of
  <2>1. /\ c \in Rows /\ unused' = unused \ {c} /\ Rows' = Rows
        /\ UNCHANGED <<enabled, secret, setups, batches, confirmed>>
    BY <1>12 DEF MarkUsed, Rows
  <2>2. CASE enabled /\ c \in unused
    <3>1. Enrol!Spend(c)
      BY <2>1, <2>2 DEF Enrol!Spend, Rows
    <3> QED BY <2>2, <3>1 DEF Enrol!Next
  <2>3. CASE ~enabled \/ c \notin unused
    <3>1. unused' \cup used' = unused \cup used
      BY <2>1 DEF Rows
    <3>2. (IF enabled' THEN unused' ELSE {}) = (IF enabled THEN unused ELSE {})
      BY <2>1, <2>3
    <3> QED BY <2>1, <3>1, <3>2 DEF Enrol!vars
  <2> QED BY <2>2, <2>3
<1>13. ASSUME NEW r \in Requests,
              \/ \E code \in Codes : BeginEnable(r, code) \/ BeginDisable(r, code)
                                     \/ BeginSecond(r, code)
              \/ BeginSetup(r) \/ BeginLogin(r) \/ BeginNoChallenge(r) \/ EnableDenied(r)
              \/ NotVerified(r) \/ VerifyTotp(r) \/ NoTotp(r) \/ FindUnused(r) \/ MarkGone(r)
              \/ LoginDenied(r) \/ LoginChallenge(r) \/ LoginDirect(r) \/ IssueSession(r)
              \/ Reply(r) \/ Fail(r)
       PROVE  UNCHANGED Enrol!vars
  <2>1. UNCHANGED <<enabled, secret, unused, used, setups, batches, confirmed>>
    BY <1>13 DEF BeginEnable, BeginDisable, BeginSecond, BeginSetup, BeginLogin,
         BeginNoChallenge, Arrive, EnableDenied, NotVerified, VerifyTotp, NoTotp, FindUnused,
         Among, MarkGone, LoginDenied, LoginChallenge, LoginDirect, IssueSession, Reply, Fail,
         account, table, history
  <2> QED BY <1>4, <2>1
<1>14. ASSUME UNCHANGED vars PROVE UNCHANGED Enrol!vars
  BY <1>4, <1>14 DEF vars, account, table, history
<1> QED BY <1>5, <1>6, <1>7, <1>8, <1>9, <1>10, <1>11, <1>12, <1>13, <1>14 DEF Next

(* While changes of the enrolment do not overlap and none is lost between  *)
(* the flag and the codes, they come and go in one step: a factor is only  *)
(* active for a secret confirmed before, and with codes of its own.        *)
(* Logins, disables and spent codes may be under way all the time.         *)
THEOREM EnrolmentImplemented == Spec /\ []Undisturbed => Enrol!Spec
<1>1. Enrol!Spec <=> Enrol!Init /\ [][Enrol!Next]_(Enrol!vars)
  BY DEF Enrol!Spec
<1>2. Init => Enrol!Init /\ Settled
  <2> SUFFICES ASSUME Init PROVE Enrol!Init /\ Settled
    OBVIOUS
  <2>1. Enrol!Init
    BY DEF Init, Enrol!Init
  <2>2. Settled
    BY DEF Init, NoRequest, Settled
  <2> QED BY <2>1, <2>2
<1>3. IInv /\ Settled /\ [Next]_vars => Settled'
  <2>1. UNCHANGED vars /\ Settled => Settled'
    BY DEF vars, account, table, history, Settled
  <2> QED BY <2>1, SettledStep
<1> QED BY <1>1, <1>2, <1>3, EnrolmentStep, Inductive, PTL DEF Spec

-----------------------------------------------------------------------------
(* Totp, whose functions have no part in the steps of TwoFactor.           *)

-----------------------------------------------------------------------------
(* Base32, for keys of every length.  The bits of a key are a function B   *)
(* on the integers, 0 before the key and after it.                         *)

(* The bits of a byte or a character: w of them, after the first k.        *)
Group(B, k, w) == [j \in 1..w |-> B[k + j]]

(* The 32 bits of the accumulator when k bits have gone through it.        *)
Register(B, k) == Group(B, k - 32, 32)

(* The loop is at its first element in the initial state, and its state    *)
(* after an element is made of the one before it.  (Encode and decode: a   *)
(* step is no value, so that each loop has a lemma of its own.)            *)
LEMMA EncodeLoop ==
  ASSUME NEW Elements, NEW input \in Seq(Elements), NEW g, g[0] = Algorithms!Start,
         \A n \in 1..Len(input) : g[n] = Algorithms!EncodeByte(g[n - 1], input[n])
  PROVE  Algorithms!Loop(Algorithms!EncodeByte, input) = g[Len(input)]
<1> DEFINE last == Len(input)
           Runs(f) == f = [n \in 0..Len(input) |->
                             IF n = 0 THEN Algorithms!Start
                             ELSE Algorithms!EncodeByte(f[n - 1], input[n])]
           state == CHOOSE f : Runs(f)
           h == [n \in 0..last |-> g[n]]
<1>1. Algorithms!Loop(Algorithms!EncodeByte, input) = state[Len(input)]
  BY DEF Algorithms!Loop
<1>2. last \in Nat
  OBVIOUS
<1>3. Runs(h)
  <2>1. ASSUME NEW n \in 0..last
        PROVE  h[n] = IF n = 0 THEN Algorithms!Start
                      ELSE Algorithms!EncodeByte(h[n - 1], input[n])
    <3>1. CASE n = 0
      BY <3>1
    <3>2. CASE n # 0
      <4>1. n \in 1..last /\ n - 1 \in 0..last
        BY <1>2, <3>2
      <4>2. h[n] = g[n] /\ h[n - 1] = g[n - 1]
        BY <4>1
      <4> HIDE DEF h
      <4>3. g[n] = Algorithms!EncodeByte(g[n - 1], input[n])
        BY <4>1
      <4> QED BY <3>2, <4>2, <4>3
    <3> QED BY <3>1, <3>2
  <2>2. h = [n \in 0..last |-> h[n]]
    OBVIOUS
  <2> HIDE DEF h
  <2> QED BY <2>1, <2>2, Zenon
<1>4. Runs(state)
  <2> HIDE DEF Runs
  <2> QED BY <1>3
<1>5. ASSUME NEW n \in 0..last
      PROVE  state[n] = IF n = 0 THEN Algorithms!Start
                        ELSE Algorithms!EncodeByte(state[n - 1], input[n])
  <2> HIDE DEF state
  <2> QED BY <1>4
<1> HIDE DEF state
<1> DEFINE Holds == {n \in 0..last : state[n] = g[n]}
<1>6. ASSUME NEW n \in 0..last, n \in Holds, n + 1 <= last PROVE n + 1 \in Holds
  <2>1. n + 1 \in 0..last /\ n + 1 \in 1..last /\ n + 1 # 0 /\ (n + 1) - 1 = n
    BY <1>2, <1>6
  <2>2. state[n] = g[n]
    BY <1>6
  <2> HIDE DEF Holds
  <2>3. state[n + 1] = Algorithms!EncodeByte(state[n], input[n + 1])
    BY <1>5, <2>1
  <2>4. g[n + 1] = Algorithms!EncodeByte(g[n], input[n + 1])
    BY <2>1
  <2>5. state[n + 1] = g[n + 1]
    BY <2>2, <2>3, <2>4
  <2> QED BY <2>1, <2>5 DEF Holds
<1>7. 0 \in Holds /\ Holds \in SUBSET (0..last)
  BY <1>2, <1>5
<1>8. last \in Holds
  <2> HIDE DEF Holds
  <2>1. Holds = 0..last
    BY <1>2, <1>6, <1>7, UpTo
  <2> QED BY <1>2, <2>1
<1> QED BY <1>1, <1>8

(* The same of the loop that decodes.                                      *)
LEMMA DecodeLoop ==
  ASSUME NEW Elements, NEW input \in Seq(Elements), NEW g, g[0] = Algorithms!Start,
         \A n \in 1..Len(input) : g[n] = Algorithms!DecodeChar(g[n - 1], input[n])
  PROVE  Algorithms!Loop(Algorithms!DecodeChar, input) = g[Len(input)]
<1> DEFINE last == Len(input)
           Runs(f) == f = [n \in 0..Len(input) |->
                             IF n = 0 THEN Algorithms!Start
                             ELSE Algorithms!DecodeChar(f[n - 1], input[n])]
           state == CHOOSE f : Runs(f)
           h == [n \in 0..last |-> g[n]]
<1>1. Algorithms!Loop(Algorithms!DecodeChar, input) = state[Len(input)]
  BY DEF Algorithms!Loop
<1>2. last \in Nat
  OBVIOUS
<1>3. Runs(h)
  <2>1. ASSUME NEW n \in 0..last
        PROVE  h[n] = IF n = 0 THEN Algorithms!Start
                      ELSE Algorithms!DecodeChar(h[n - 1], input[n])
    <3>1. CASE n = 0
      BY <3>1
    <3>2. CASE n # 0
      <4>1. n \in 1..last /\ n - 1 \in 0..last
        BY <1>2, <3>2
      <4>2. h[n] = g[n] /\ h[n - 1] = g[n - 1]
        BY <4>1
      <4> HIDE DEF h
      <4>3. g[n] = Algorithms!DecodeChar(g[n - 1], input[n])
        BY <4>1
      <4> QED BY <3>2, <4>2, <4>3
    <3> QED BY <3>1, <3>2
  <2>2. h = [n \in 0..last |-> h[n]]
    OBVIOUS
  <2> HIDE DEF h
  <2> QED BY <2>1, <2>2, Zenon
<1>4. Runs(state)
  <2> HIDE DEF Runs
  <2> QED BY <1>3
<1>5. ASSUME NEW n \in 0..last
      PROVE  state[n] = IF n = 0 THEN Algorithms!Start
                        ELSE Algorithms!DecodeChar(state[n - 1], input[n])
  <2> HIDE DEF state
  <2> QED BY <1>4
<1> HIDE DEF state
<1> DEFINE Holds == {n \in 0..last : state[n] = g[n]}
<1>6. ASSUME NEW n \in 0..last, n \in Holds, n + 1 <= last PROVE n + 1 \in Holds
  <2>1. n + 1 \in 0..last /\ n + 1 \in 1..last /\ n + 1 # 0 /\ (n + 1) - 1 = n
    BY <1>2, <1>6
  <2>2. state[n] = g[n]
    BY <1>6
  <2> HIDE DEF Holds
  <2>3. state[n + 1] = Algorithms!DecodeChar(state[n], input[n + 1])
    BY <1>5, <2>1
  <2>4. g[n + 1] = Algorithms!DecodeChar(g[n], input[n + 1])
    BY <2>1
  <2>5. state[n + 1] = g[n + 1]
    BY <2>2, <2>3, <2>4
  <2> QED BY <2>1, <2>5 DEF Holds
<1>7. 0 \in Holds /\ Holds \in SUBSET (0..last)
  BY <1>2, <1>5
<1>8. last \in Holds
  <2> HIDE DEF Holds
  <2>1. Holds = 0..last
    BY <1>2, <1>6, <1>7, UpTo
  <2> QED BY <1>2, <2>1
<1> QED BY <1>1, <1>8

(* Two groups, the second beginning where the first ends, make one.        *)
LEMMA Rejoined ==
  ASSUME NEW B, NEW k \in Int, NEW v \in Nat, NEW w \in Nat
  PROVE  Group(B, k, v) \o Group(B, k + v, w) = Group(B, k, v + w)
<1> DEFINE S == {B[k + i] : i \in 1..(v + w)}
           s == Group(B, k, v)
           t == Group(B, k + v, w)
<1>1. /\ DOMAIN s = 1..v /\ \A i \in 1..v : s[i] = B[k + i]
      /\ DOMAIN t = 1..w /\ \A i \in 1..w : t[i] = B[k + v + i]
  BY DEF Group
<1>2. s \in Seq(S) /\ t \in Seq(S) /\ Len(s) = v /\ Len(t) = w
  <2>1. \A i \in 1..w : v + i \in 1..(v + w) /\ k + (v + i) = k + v + i
    OBVIOUS
  <2>2. (\A i \in 1..v : s[i] \in S) /\ (\A i \in 1..w : t[i] \in S)
    <3>1. \A i \in 1..v : i \in 1..(v + w)
      OBVIOUS
    <3> HIDE DEF s, t
    <3> QED BY <1>1, <2>1, <3>1
  <2>3. s = [i \in 1..v |-> s[i]] /\ t = [i \in 1..w |-> t[i]]
    BY DEF Group
  <2> HIDE DEF S, s, t
  <2> QED BY <2>2, <2>3
<1> HIDE DEF S, s, t
<1>3. /\ s \o t \in Seq(S)
      /\ Len(s \o t) = v + w
      /\ \A i \in 1..(v + w) : (s \o t)[i] = IF i <= v THEN s[i] ELSE t[i - v]
  BY <1>2, ConcatProperties
<1>4. ASSUME NEW i \in 1..(v + w) PROVE (IF i <= v THEN s[i] ELSE t[i - v]) = B[k + i]
  <2>1. CASE i <= v
    BY <1>1, <2>1
  <2>2. CASE i > v
    <3>1. i - v \in 1..w /\ k + v + (i - v) = k + i /\ ~(i <= v)
      BY <2>2
    <3> QED BY <1>1, <3>1
  <2>3. i <= v \/ i > v
    OBVIOUS
  <2> QED BY <2>1, <2>2, <2>3
<1>5. ASSUME NEW i \in 1..(v + w) PROVE (s \o t)[i] = B[k + i]
  BY <1>3, <1>4
<1>6. s \o t = [i \in 1..(v + w) |-> (s \o t)[i]]
  <2> DEFINE u == s \o t
  <2>1. u \in Seq(S) /\ Len(u) = v + w
    BY <1>3
  <2> HIDE DEF u
  <2>2. u = [i \in 1..(v + w) |-> u[i]]
    BY <2>1
  <2> QED BY <2>2 DEF u
<1>7. s \o t = Group(B, k, v + w)
  BY <1>5, <1>6 DEF Group
<1> QED BY <1>7 DEF s, t

(* A slice of a group is a group.                                          *)
LEMMA Slice ==
  ASSUME NEW B, NEW k \in Int, NEW n \in Nat,
         NEW first \in 1..(n + 1), NEW last \in 0..n, first <= last + 1
  PROVE  SubSeq(Group(B, k, n), first, last) = Group(B, k + first - 1, last - first + 1)
<1> DEFINE value == Group(B, k, n)
           Values == {B[i] : i \in Int}
           slice == SubSeq(value, first, last)
           length == last - first + 1
<1>1. \A j \in 1..n : value[j] = B[k + j] /\ value[j] \in Values
  BY DEF Group
<1>2. first \in Int /\ last \in Int /\ length \in Nat
  OBVIOUS
<1> HIDE DEF value, Values
<1>3. \A j \in first..last : value[j] \in Values
  BY <1>1
<1>4. /\ slice \in Seq(Values)
      /\ Len(slice) = IF first <= last THEN last - first + 1 ELSE 0
      /\ \A j \in 1..(last - first + 1) : slice[j] = value[first + j - 1]
  BY <1>2, <1>3, SubSeqProperties
<1> HIDE DEF slice
<1>5. Len(slice) = length
  BY <1>4
<1>6. ASSUME NEW j \in 1..length PROVE slice[j] = B[k + first - 1 + j]
  <2>1. first + j - 1 \in 1..n /\ k + (first + j - 1) = k + first - 1 + j
    OBVIOUS
  <2>2. slice[j] = value[first + j - 1]
    BY <1>4
  <2> HIDE DEF length
  <2> QED BY <1>1, <2>1, <2>2
<1> HIDE DEF length
<1>7. slice = [j \in 1..length |-> slice[j]]
  BY <1>2, <1>4, <1>5
<1>8. slice = [j \in 1..length |-> B[k + first - 1 + j]]
  BY <1>6, <1>7
<1> QED BY <1>8 DEF Group, slice, value, length

(* A group shifted in moves the accumulator on by its length.              *)
LEMMA Shifting ==
  ASSUME NEW B, NEW k \in Nat, NEW w \in 0..32
  PROVE  Algorithms!ShiftIn(Register(B, k), Group(B, k, w)) = Register(B, k + w)
<1> DEFINE kept == 32 - w
           start == k + w - 32
<1>1. kept \in Nat /\ w \in Nat /\ kept + w = 32 /\ start \in Int /\ start + kept = k
  OBVIOUS
<1>2. Len(Group(B, k, w)) = w
  BY DEF Group
<1>3. SubSeq(Register(B, k), w + 1, 32) = Group(B, start, kept)
  <2>1. /\ k - 32 \in Int /\ 32 \in Nat /\ w + 1 \in 1..(32 + 1) /\ 32 \in 0..32
        /\ w + 1 <= 32 + 1
    OBVIOUS
  <2>2. SubSeq(Group(B, k - 32, 32), w + 1, 32) = Group(B, k - 32 + (w + 1) - 1, 32 - (w + 1) + 1)
    BY <2>1, Slice
  <2>3. k - 32 + (w + 1) - 1 = start /\ 32 - (w + 1) + 1 = kept
    OBVIOUS
  <2> QED BY <2>2, <2>3 DEF Register
<1> HIDE DEF kept, start
<1>4. Group(B, start, kept) \o Group(B, start + kept, w) = Group(B, start, kept + w)
  BY <1>1, Rejoined
<1>5. Group(B, start, 32) = Register(B, k + w)
  BY DEF Register, start
<1> QED BY <1>1, <1>2, <1>3, <1>4, <1>5 DEF Algorithms!ShiftIn, Algorithms!Width

(* What is taken from the pending bits is a group.                         *)
LEMMA Taking ==
  ASSUME NEW B, NEW k \in Nat, NEW bits \in 0..32, NEW w \in 0..bits
  PROVE  Algorithms!Take(Register(B, k), bits, w) = Group(B, k - bits, w)
<1> DEFINE first == 32 - bits + 1
           last == 32 - bits + w
<1>1. /\ k - 32 \in Int /\ 32 \in Nat /\ first \in 1..(32 + 1) /\ last \in 0..32
      /\ first <= last + 1
  OBVIOUS
<1>2. last - first + 1 = w /\ k - 32 + first - 1 = k - bits
  OBVIOUS
<1> HIDE DEF first, last
<1>3. SubSeq(Group(B, k - 32, 32), first, last) = Group(B, k - 32 + first - 1, last - first + 1)
  BY <1>1, Slice
<1> QED BY <1>2, <1>3 DEF Register, Algorithms!Take, Algorithms!Width, first, last

(* The state of each loop when n bytes, or characters, have gone through   *)
(* it: what the bits make, all that were shifted out included.             *)
Encoded(B, n) ==
  [value |-> Register(B, 8 * n), bits |-> (8 * n) % 5,
   output |-> [c \in 1..((8 * n) \div 5) |-> Group(B, 5 * (c - 1), 5)]]

Decoded(B, n) ==
  [value |-> Register(B, 5 * n), bits |-> (5 * n) % 8,
   output |-> [b \in 1..((5 * n) \div 8) |-> Group(B, 8 * (b - 1), 8)]]

(* One more byte leaves fewer than 5 bits pending, and emits the others.   *)
LEMMA EncodeStep ==
  ASSUME NEW B, NEW n \in Nat
  PROVE  Algorithms!EncodeByte(Encoded(B, n), Group(B, 8 * n, 8)) = Encoded(B, n + 1)
<1> DEFINE k == 8 * n
           q == k \div 5
           bits == (k % 5) + 8
           more == bits \div 5
           value == Register(B, k + 8)
           g == [c \in Int |-> Group(B, 5 * (c - 1), 5)]
<1>1. k \in Nat /\ k + 8 = 8 * (n + 1) /\ 8 \in 0..32
  OBVIOUS
<1> HIDE DEF k
<1>2. /\ q \in Nat /\ more \in Nat /\ bits \in 0..12 /\ k + 8 = 5 * q + bits
      /\ bits \in Nat /\ 5 * more <= bits
  BY <1>1
<1>3. (k + 8) \div 5 = q + more /\ (k + 8) % 5 = bits % 5
  BY <1>1, <1>2
<1>4. Algorithms!ShiftIn(Register(B, k), Group(B, k, 8)) = value
  BY <1>1, Shifting
<1>5. ASSUME NEW i \in 1..more PROVE Algorithms!Take(value, bits - 5 * (i - 1), 5) = g[q + i]
  <2> DEFINE pending == bits - 5 * (i - 1)
  <2>1. pending \in 0..32 /\ 5 \in 0..pending
    BY <1>2
  <2>2. k + 8 \in Nat /\ (k + 8) - pending = 5 * ((q + i) - 1) /\ q + i \in Int
    BY <1>1, <1>2
  <2> HIDE DEF pending, q, bits, more
  <2>3. Algorithms!Take(Register(B, k + 8), pending, 5) = Group(B, (k + 8) - pending, 5)
    BY <2>1, <2>2, Taking
  <2>4. g[q + i] = Group(B, 5 * ((q + i) - 1), 5)
    BY <2>2
  <2> HIDE DEF g
  <2>5. Algorithms!Take(Register(B, k + 8), pending, 5) = g[q + i]
    BY <2>2, <2>3, <2>4
  <2> QED BY <2>5 DEF pending
<1>6. ASSUME NEW c \in 1..(q + more) PROVE Group(B, 5 * (c - 1), 5) = g[c]
  BY <1>2
<1> HIDE DEF q, bits, more, value, g
<1>7. Group(g, 0, q) \o Group(g, q, more) = Group(g, 0, q + more)
  <2>1. 0 \in Int /\ 0 + q = q
    BY <1>2
  <2>2. Group(g, 0, q) \o Group(g, 0 + q, more) = Group(g, 0, q + more)
    BY <1>2, <2>1, Rejoined
  <2> QED BY <2>1, <2>2
<1>8. /\ [c \in 1..q |-> Group(B, 5 * (c - 1), 5)] = Group(g, 0, q)
      /\ [c \in 1..(q + more) |-> Group(B, 5 * (c - 1), 5)] = Group(g, 0, q + more)
      /\ [i \in 1..more |-> Algorithms!Take(value, bits - 5 * (i - 1), 5)] = Group(g, q, more)
  <2>1. \A c \in 1..q : c \in 1..(q + more)
    BY <1>2
  <2>2. \A c \in 1..(q + more) : 0 + c = c
    BY <1>2
  <2> QED BY <1>5, <1>6, <2>1, <2>2 DEF Group
<1>9. Algorithms!EncodeByte(Encoded(B, n), Group(B, k, 8))
        = [value |-> value, bits |-> bits % 5,
           output |-> [c \in 1..q |-> Group(B, 5 * (c - 1), 5)]
                        \o [i \in 1..more |-> Algorithms!Take(value, bits - 5 * (i - 1), 5)]]
  <2>1. /\ Encoded(B, n).value = Register(B, k) /\ Encoded(B, n).bits + 8 = bits
        /\ Encoded(B, n).output = [c \in 1..q |-> Group(B, 5 * (c - 1), 5)]
    BY DEF Encoded, k, bits, q
  <2> HIDE DEF k
  <2> QED BY <1>4, <2>1 DEF Algorithms!EncodeByte, more
<1>10. Encoded(B, n + 1)
         = [value |-> value, bits |-> bits % 5,
            output |-> [c \in 1..(q + more) |-> Group(B, 5 * (c - 1), 5)]]
  BY <1>1, <1>3 DEF Encoded, value
<1> QED BY <1>7, <1>8, <1>9, <1>10 DEF k

(* One more character emits a byte as soon as 8 bits are pending.          *)
LEMMA DecodeStep ==
  ASSUME NEW B, NEW n \in Nat
  PROVE  Algorithms!DecodeChar(Decoded(B, n), Group(B, 5 * n, 5)) = Decoded(B, n + 1)
<1> DEFINE k == 5 * n
           q == k \div 8
           bits == (k % 8) + 5
           value == Register(B, k + 5)
           bytes(m) == [b \in 1..m |-> Group(B, 8 * (b - 1), 8)]
<1>1. k \in Nat /\ k + 5 = 5 * (n + 1) /\ 5 \in 0..32
  OBVIOUS
<1> HIDE DEF k
<1>2. q \in Nat /\ bits \in 5..12 /\ k + 5 = 8 * q + bits
  BY <1>1
<1>3. /\ bits >= 8 => (k + 5) \div 8 = q + 1 /\ (k + 5) % 8 = bits - 8
      /\ bits < 8 => (k + 5) \div 8 = q /\ (k + 5) % 8 = bits
  BY <1>1, <1>2
<1>4. Algorithms!ShiftIn(Register(B, k), Group(B, k, 5)) = value
  BY <1>1, Shifting
<1>5. Group(B, k, 5) # <<>>
  <2>1. Group(B, k, 5) = [j \in 1..5 |-> B[k + j]]
    BY DEF Group
  <2>2. Len(Group(B, k, 5)) = 5 /\ Len(<<>>) = 0
    BY <2>1
  <2> QED BY <2>2
<1>6. /\ Decoded(B, n).value = Register(B, k) /\ Decoded(B, n).bits + 5 = bits
      /\ Decoded(B, n).output = bytes(q)
  BY DEF Decoded, k, bits, q
<1>7. Decoded(B, n + 1)
        = [value |-> value, bits |-> (k + 5) % 8, output |-> bytes((k + 5) \div 8)]
  BY <1>1 DEF Decoded, value
<1>8. CASE bits >= 8
  <2>1. Algorithms!Take(value, bits, 8) = Group(B, 8 * q, 8)
    <3>1. bits \in 0..32 /\ 8 \in 0..bits /\ k + 5 \in Nat /\ (k + 5) - bits = 8 * q
      BY <1>1, <1>2, <1>8
    <3> HIDE DEF bits, q
    <3>2. Algorithms!Take(Register(B, k + 5), bits, 8) = Group(B, (k + 5) - bits, 8)
      BY <3>1, Taking
    <3> QED BY <3>1, <3>2 DEF value
  <2>2. Append(bytes(q), Group(B, 8 * q, 8)) = bytes(q + 1)
    <3>1. 8 * ((q + 1) - 1) = 8 * q
      BY <1>2
    <3> HIDE DEF q
    <3> QED BY <1>2, <3>1
  <2> HIDE DEF bits, q, value, bytes
  <2>3. Algorithms!DecodeChar(Decoded(B, n), Group(B, k, 5))
          = [value |-> value, bits |-> bits - 8, output |-> Append(bytes(q), Group(B, 8 * q, 8))]
    BY <1>4, <1>5, <1>6, <1>8, <2>1 DEF Algorithms!DecodeChar
  <2> QED BY <1>3, <1>7, <1>8, <2>2, <2>3 DEF k
<1>9. CASE bits < 8
  <2>1. ~(bits >= 8)
    BY <1>2, <1>9
  <2> HIDE DEF bits, q, value, bytes
  <2>2. Algorithms!DecodeChar(Decoded(B, n), Group(B, k, 5))
          = [value |-> value, bits |-> bits, output |-> bytes(q)]
    BY <1>4, <1>5, <1>6, <2>1 DEF Algorithms!DecodeChar
  <2> QED BY <1>3, <1>7, <1>9, <2>2 DEF k
<1>10. bits >= 8 \/ bits < 8
  BY <1>2
<1> QED BY <1>8, <1>9, <1>10

(* What the loop has made of the first n bytes of a key is Encoded(B, n).  *)
LEMMA Encoding ==
  ASSUME NEW B, \A i \in Int : i <= 0 => B[i] = 0,
         NEW Elements, NEW bytes \in Seq(Elements),
         \A n \in 1..Len(bytes) : bytes[n] = Group(B, 8 * (n - 1), 8)
  PROVE  Algorithms!Loop(Algorithms!EncodeByte, bytes) = Encoded(B, Len(bytes))
<1> DEFINE g == [n \in Nat |-> Encoded(B, n)]
<1>1. Len(bytes) \in Nat /\ g[Len(bytes)] = Encoded(B, Len(bytes))
  OBVIOUS
<1>2. g[0] = Algorithms!Start
  <2>1. Register(B, 8 * 0) = [i \in 1..32 |-> 0]
    <3>1. \A i \in 1..32 : B[8 * 0 - 32 + i] = 0
      OBVIOUS
    <3> QED BY <3>1 DEF Register, Group
  <2>2. (8 * 0) % 5 = 0 /\ (8 * 0) \div 5 = 0
    OBVIOUS
  <2>3. [c \in 1..0 |-> Group(B, 5 * (c - 1), 5)] = <<>>
    OBVIOUS
  <2>4. Encoded(B, 0) = [value |-> [i \in 1..32 |-> 0], bits |-> 0, output |-> <<>>]
    BY <2>1, <2>2, <2>3 DEF Encoded
  <2> QED BY <2>4 DEF Algorithms!Start, Algorithms!Width
<1>3. ASSUME NEW n \in 1..Len(bytes) PROVE g[n] = Algorithms!EncodeByte(g[n - 1], bytes[n])
  <2>1. n \in Nat /\ n - 1 \in Nat /\ (n - 1) + 1 = n
    OBVIOUS
  <2>2. g[n] = Encoded(B, n) /\ g[n - 1] = Encoded(B, n - 1)
    BY <2>1
  <2> HIDE DEF g
  <2>3. Algorithms!EncodeByte(Encoded(B, n - 1), Group(B, 8 * (n - 1), 8)) = Encoded(B, (n - 1) + 1)
    BY <2>1, EncodeStep
  <2> QED BY <2>1, <2>2, <2>3
<1> HIDE DEF g
<1> QED BY <1>1, <1>2, <1>3, EncodeLoop

(* What the loop has made of the first n elements typed is what it makes   *)
(* of the at[n] characters of the alphabet that are among them.            *)
LEMMA Decoding ==
  ASSUME NEW B, \A i \in Int : i <= 0 => B[i] = 0,
         NEW Elements, NEW input \in Seq(Elements),
         NEW at \in [Nat -> Nat], at[0] = 0,
         \A n \in 1..Len(input) :
           \/ input[n] = <<>> /\ at[n] = at[n - 1]
           \/ input[n] = Group(B, 5 * at[n - 1], 5) /\ at[n] = at[n - 1] + 1
  PROVE  Algorithms!Loop(Algorithms!DecodeChar, input) = Decoded(B, at[Len(input)])
<1> DEFINE g == [n \in Nat |-> Decoded(B, at[n])]
<1>1. Len(input) \in Nat /\ g[Len(input)] = Decoded(B, at[Len(input)])
  OBVIOUS
<1>2. g[0] = Algorithms!Start
  <2>1. Register(B, 5 * 0) = [i \in 1..32 |-> 0]
    <3>1. \A i \in 1..32 : B[5 * 0 - 32 + i] = 0
      OBVIOUS
    <3> QED BY <3>1 DEF Register, Group
  <2>2. (5 * 0) % 8 = 0 /\ (5 * 0) \div 8 = 0
    OBVIOUS
  <2>3. [b \in 1..0 |-> Group(B, 8 * (b - 1), 8)] = <<>>
    OBVIOUS
  <2>4. Decoded(B, 0) = [value |-> [i \in 1..32 |-> 0], bits |-> 0, output |-> <<>>]
    BY <2>1, <2>2, <2>3 DEF Decoded
  <2> QED BY <2>4 DEF Algorithms!Start, Algorithms!Width
<1>3. ASSUME NEW n \in 1..Len(input) PROVE g[n] = Algorithms!DecodeChar(g[n - 1], input[n])
  <2>1. n \in Nat /\ n - 1 \in Nat /\ at[n - 1] \in Nat
    OBVIOUS
  <2>2. g[n] = Decoded(B, at[n]) /\ g[n - 1] = Decoded(B, at[n - 1])
    BY <2>1
  <2> HIDE DEF g
  <2>3. CASE input[n] = <<>> /\ at[n] = at[n - 1]
    BY <2>2, <2>3 DEF Algorithms!DecodeChar
  <2>4. CASE input[n] = Group(B, 5 * at[n - 1], 5) /\ at[n] = at[n - 1] + 1
    <3>1. Algorithms!DecodeChar(Decoded(B, at[n - 1]), Group(B, 5 * at[n - 1], 5))
            = Decoded(B, at[n - 1] + 1)
      BY <2>1, DecodeStep
    <3> QED BY <2>2, <2>4, <3>1
  <2> QED BY <2>3, <2>4
<1> HIDE DEF g
<1> QED BY <1>1, <1>2, <1>3, DecodeLoop

(* Bit j of byte n is bit 8 * (n - 1) + j of the key, and no other.        *)
LEMMA BitPlace ==
  ASSUME NEW n \in Nat \ {0}, NEW j \in 1..8
  PROVE  /\ ((8 * (n - 1) + j) + 7) \div 8 = n
         /\ (((8 * (n - 1) + j) - 1) % 8) + 1 = j
<1>1. PICK m \in Nat : n = m + 1
  <2>1. n - 1 \in Nat /\ n = (n - 1) + 1
    OBVIOUS
  <2> QED BY <2>1
<1>2. PICK b \in 0..7 : j = b + 1
  <2>1. j - 1 \in 0..7 /\ j = (j - 1) + 1
    OBVIOUS
  <2> QED BY <2>1
<1>3. /\ (8 * (n - 1) + j) + 7 = 8 * (m + 1) + b
      /\ (8 * (n - 1) + j) - 1 = 8 * m + b
  BY <1>1, <1>2
<1>4. \A i \in Nat : (8 * i + b) \div 8 = i /\ (8 * i + b) % 8 = b
  BY <1>2
<1> QED BY <1>1, <1>2, <1>3, <1>4

(* Bits cut in fives, the last five filled up, and in eights again.        *)
LEMMA Fives ==
  ASSUME NEW L \in Nat, NEW count, count = (8 * L + 4) \div 5,
         NEW q, q = (8 * L) \div 5, NEW r, r = (8 * L) % 5
  PROVE  /\ count \in Nat /\ q \in Nat /\ r \in 0..4 /\ 8 * L = 5 * q + r
         /\ r = 0 => count = q
         /\ r # 0 => count = q + 1
         /\ (5 * count) \div 8 = L /\ 8 * L <= 5 * count
<1>1. q \in Nat /\ r \in 0..4 /\ 8 * L = 5 * q + r
  OBVIOUS
<1>2. count \in Nat /\ (r = 0 => count = q) /\ (r # 0 => count = q + 1)
  BY <1>1
<1>3. 8 * L <= 5 * count /\ 5 * count < 8 * L + 8
  BY <1>1, <1>2
<1>4. (5 * count) \div 8 = L
  BY <1>2, <1>3
<1> QED BY <1>1, <1>2, <1>3, <1>4

(* A secret is the base32 of RFC 4648 of its key, and the key comes back   *)
(* from it, also when other characters are typed between its own; however  *)
(* long the key is, and so however much the accumulators have shifted out. *)
THEOREM Base32KeyCorrect ==
  ASSUME NEW Bits, NEW bytes \in Seq([1..8 -> Bits])
  PROVE  Algorithms!Base32Correct(bytes)
<1> DEFINE L == Len(bytes)
           B == [k \in Int |->
                   IF k \in 1..(8 * L) THEN bytes[(k + 7) \div 8][((k - 1) % 8) + 1] ELSE 0]
           count == (8 * L + 4) \div 5
           chars == [c \in 1..count |-> Group(B, 5 * (c - 1), 5)]
           q == (8 * L) \div 5
           r == (8 * L) % 5
<1>1. L \in Nat /\ \A i \in Int : i <= 0 => B[i] = 0
  OBVIOUS
<1>2. \A i \in Int : i > 8 * L => B[i] = 0
  BY <1>1
<1> HIDE DEF L
<1>3. ASSUME NEW n \in 1..L PROVE bytes[n] = Group(B, 8 * (n - 1), 8)
  <2>1. ASSUME NEW j \in 1..8 PROVE B[8 * (n - 1) + j] = bytes[n][j]
    <3> DEFINE k == 8 * (n - 1) + j
    <3>1. k \in 1..(8 * L) /\ k \in Int
      BY <1>1
    <3>2. n \in Nat \ {0}
      BY <1>1
    <3>3. (k + 7) \div 8 = n /\ ((k - 1) % 8) + 1 = j
      BY <3>2, BitPlace
    <3>4. B[k] = bytes[(k + 7) \div 8][((k - 1) % 8) + 1]
      <4> HIDE DEF k
      <4> QED BY <3>1
    <3> HIDE DEF B, k
    <3>5. B[k] = bytes[n][j]
      BY <3>3, <3>4
    <3> QED BY <3>5 DEF k
  <2>2. bytes[n] = [j \in 1..8 |-> bytes[n][j]]
    BY DEF L
  <2> HIDE DEF B
  <2> QED BY <2>1, <2>2 DEF Group
<1>4. /\ count \in Nat /\ q \in Nat /\ r \in 0..4 /\ 8 * L = 5 * q + r
      /\ r = 0 => count = q
      /\ r # 0 => count = q + 1
      /\ (5 * count) \div 8 = L /\ 8 * L <= 5 * count
  BY <1>1, Fives
<1> HIDE DEF B, count, q, r
<1>5. Algorithms!Loop(Algorithms!EncodeByte, bytes) = Encoded(B, L)
  BY <1>1, <1>3, Encoding DEF L
<1>6. Algorithms!Base32Encode(bytes) = chars
  <2> DEFINE output == [c \in 1..q |-> Group(B, 5 * (c - 1), 5)]
             zeros == [i \in 1..(5 - r) |-> 0]
             padded == Algorithms!ShiftIn(Register(B, 8 * L), zeros)
  <2>1. Algorithms!Base32Encode(bytes)
          = IF r = 0 THEN output ELSE Append(output, Algorithms!Take(padded, 5, 5))
    <3>1. /\ Encoded(B, L).value = Register(B, 8 * L) /\ Encoded(B, L).bits = r
          /\ Encoded(B, L).output = output
      BY DEF Encoded, q, r
    <3> QED BY <1>5, <3>1 DEF Algorithms!Base32Encode
  <2>2. CASE r = 0
    BY <1>4, <2>1, <2>2
  <2>3. CASE r # 0
    <3>1. zeros = Group(B, 8 * L, 5 - r)
      <4>1. \A i \in 1..(5 - r) : B[8 * L + i] = 0
        <5>1. \A i \in 1..(5 - r) : 8 * L + i \in Int /\ 8 * L + i > 8 * L
          BY <1>1, <1>4
        <5> QED BY <1>2, <5>1
      <4> QED BY <4>1 DEF Group
    <3>2. 8 * L \in Nat /\ 5 - r \in 0..32 /\ 8 * L + (5 - r) \in Nat
      BY <1>1, <1>4
    <3> HIDE DEF zeros
    <3>3. padded = Register(B, 8 * L + (5 - r))
      BY <3>1, <3>2, Shifting
    <3> HIDE DEF padded
    <3>4. Algorithms!Take(padded, 5, 5) = Group(B, (8 * L + (5 - r)) - 5, 5)
      <4>1. 5 \in 0..32 /\ 5 \in 0..5
        OBVIOUS
      <4> QED BY <3>2, <3>3, <4>1, Taking
    <3>5. (8 * L + (5 - r)) - 5 = 5 * ((q + 1) - 1)
      BY <1>1, <1>4
    <3>6. Append(output, Group(B, 5 * ((q + 1) - 1), 5))
            = [c \in 1..(q + 1) |-> Group(B, 5 * (c - 1), 5)]
      BY <1>4
    <3> QED BY <1>4, <2>1, <2>3, <3>4, <3>5, <3>6
  <2> QED BY <2>2, <2>3
<1>7. Algorithms!ReferenceEncode(bytes) = chars
  <2> DEFINE bit == [i \in 1..(5 * count) |->
                       IF i > 8 * L THEN 0 ELSE bytes[(i + 7) \div 8][((i - 1) % 8) + 1]]
  <2>1. bit = Group(B, 0, 5 * count)
    <3>1. ASSUME NEW i \in 1..(5 * count)
          PROVE  (IF i > 8 * L THEN 0 ELSE bytes[(i + 7) \div 8][((i - 1) % 8) + 1]) = B[0 + i]
      <4>1. 0 + i = i /\ i \in Int /\ (i > 8 * L <=> i \notin 1..(8 * L))
        BY <1>1, <1>4
      <4> QED BY <4>1 DEF B
    <3> QED BY <3>1 DEF Group
  <2>2. Algorithms!ReferenceEncode(bytes) = [c \in 1..count |-> SubSeq(bit, 5 * c - 4, 5 * c)]
    BY DEF Algorithms!ReferenceEncode, count, L
  <2> HIDE DEF bit
  <2>3. ASSUME NEW c \in 1..count PROVE SubSeq(bit, 5 * c - 4, 5 * c) = Group(B, 5 * (c - 1), 5)
    <3>1. /\ 5 * count \in Nat /\ 5 * c - 4 \in 1..(5 * count + 1) /\ 5 * c \in 0..(5 * count)
          /\ 5 * c - 4 <= 5 * c + 1
      BY <1>4
    <3>2. 0 + (5 * c - 4) - 1 = 5 * (c - 1) /\ 5 * c - (5 * c - 4) + 1 = 5
      BY <1>4
    <3> DEFINE n == 5 * count
               first == 5 * c - 4
               last == 5 * c
    <3> HIDE DEF n, first, last
    <3>3. /\ n \in Nat /\ first \in 1..(n + 1) /\ last \in 0..n /\ first <= last + 1
          /\ 0 + first - 1 = 5 * (c - 1) /\ last - first + 1 = 5 /\ 0 \in Int
      BY <3>1, <3>2 DEF n, first, last
    <3>4. SubSeq(Group(B, 0, n), first, last) = Group(B, 0 + first - 1, last - first + 1)
      BY <3>3, Slice
    <3> QED BY <2>1, <3>3, <3>4 DEF n, first, last
  <2> QED BY <2>2, <2>3
<1>8. Decoded(B, count).output = bytes
  <2>1. Decoded(B, count).output = [b \in 1..L |-> Group(B, 8 * (b - 1), 8)]
    BY <1>4 DEF Decoded
  <2>2. bytes = [b \in 1..L |-> bytes[b]]
    BY DEF L
  <2> QED BY <1>3, <2>1, <2>2
<1>9. Algorithms!Base32Decode(chars) = bytes
  <2> DEFINE at == [n \in Nat |-> n]
             Elements == {Group(B, 5 * (c - 1), 5) : c \in 1..count}
  <2>1. chars \in Seq(Elements) /\ Len(chars) = count
    <3>1. \A c \in 1..count : chars[c] \in Elements
      OBVIOUS
    <3> HIDE DEF Elements
    <3> QED BY <1>4, <3>1
  <2>2. at \in [Nat -> Nat] /\ at[0] = 0 /\ at[count] = count
    BY <1>4
  <2>3. ASSUME NEW n \in 1..count
        PROVE  chars[n] = Group(B, 5 * at[n - 1], 5) /\ at[n] = at[n - 1] + 1
    <3>1. n \in Nat /\ n - 1 \in Nat
      BY <1>4
    <3>2. at[n] = n /\ at[n - 1] = n - 1
      BY <3>1
    <3> HIDE DEF at
    <3> QED BY <3>1, <3>2
  <2> HIDE DEF at, chars, Elements
  <2>4. Algorithms!Loop(Algorithms!DecodeChar, chars) = Decoded(B, at[Len(chars)])
    BY <1>1, <2>1, <2>2, <2>3, Decoding
  <2> QED BY <1>8, <2>1, <2>2, <2>4 DEF Algorithms!Base32Decode
<1>10. Algorithms!Base32Decode(Algorithms!Spaced(chars)) = bytes
  <2> DEFINE at == [n \in Nat |-> (n + 1) \div 2]
             typed == Algorithms!Spaced(chars)
             Elements == {<<>>} \cup {chars[c] : c \in 1..count}
  <2>1. Len(chars) = count /\ \A c \in 1..count : chars[c] = Group(B, 5 * (c - 1), 5)
    BY <1>4
  <2> HIDE DEF chars
  <2>2. typed = [i \in 1..(2 * count) |-> IF i % 2 = 1 THEN chars[(i + 1) \div 2] ELSE <<>>]
    BY <2>1 DEF Algorithms!Spaced
  <2>3. \A i \in 1..(2 * count) : (i + 1) \div 2 \in 1..count
    BY <1>4
  <2>4. typed \in Seq(Elements) /\ Len(typed) = 2 * count
    <3> HIDE DEF typed
    <3>1. \A i \in 1..(2 * count) : typed[i] \in Elements
      BY <2>2, <2>3
    <3> HIDE DEF Elements
    <3> QED BY <1>4, <2>2, <3>1
  <2>5. at \in [Nat -> Nat] /\ at[0] = 0 /\ at[2 * count] = count
    <3>1. \A n \in Nat : (n + 1) \div 2 \in Nat
      OBVIOUS
    <3>2. (0 + 1) \div 2 = 0 /\ (2 * count + 1) \div 2 = count /\ 2 * count \in Nat
      BY <1>4
    <3> QED BY <3>1, <3>2
  <2>6. ASSUME NEW n \in 1..(2 * count)
        PROVE  \/ typed[n] = <<>> /\ at[n] = at[n - 1]
               \/ typed[n] = Group(B, 5 * at[n - 1], 5) /\ at[n] = at[n - 1] + 1
    <3>1. n \in Nat /\ n - 1 \in Nat /\ at[n] = (n + 1) \div 2 /\ at[n - 1] = n \div 2
      BY <1>4
    <3>2. (n + 1) \div 2 = (n \div 2) + (n % 2) /\ n % 2 \in 0..1 /\ n \div 2 \in Nat
      BY <3>1
    <3> HIDE DEF at, typed
    <3>3. CASE n % 2 = 1
      <4>1. typed[n] = chars[(n + 1) \div 2]
        BY <2>2, <3>3
      <4>2. chars[(n + 1) \div 2] = Group(B, 5 * (((n + 1) \div 2) - 1), 5)
        BY <2>1, <2>3
      <4>3. ((n + 1) \div 2) - 1 = n \div 2 /\ (n + 1) \div 2 = (n \div 2) + 1
        BY <3>2, <3>3
      <4> QED BY <3>1, <4>1, <4>2, <4>3
    <3>4. CASE n % 2 # 1
      <4>1. typed[n] = <<>>
        BY <2>2, <3>4
      <4>2. (n + 1) \div 2 = n \div 2
        BY <3>2, <3>4
      <4> QED BY <3>1, <4>1, <4>2
    <3> QED BY <3>3, <3>4
  <2> HIDE DEF at, typed, Elements
  <2>7. Algorithms!Loop(Algorithms!DecodeChar, typed) = Decoded(B, at[Len(typed)])
    BY <1>1, <2>4, <2>5, <2>6, Decoding
  <2>8. Algorithms!Base32Decode(typed) = bytes
    BY <1>8, <2>4, <2>5, <2>7 DEF Algorithms!Base32Decode
  <2> QED BY <2>8 DEF typed
<1> HIDE DEF chars
<1> QED BY <1>6, <1>7, <1>9, <1>10 DEF Algorithms!Base32Correct

(* One more byte below a number.                                           *)
LEMMA NextByte ==
  ASSUME NEW a \in Nat, NEW b \in 0..255
  PROVE  a * 256 + b \in Nat
OBVIOUS

(* What is left of a number that is not negative.                          *)
LEMMA Remaining ==
  ASSUME NEW a \in Nat, NEW b \in Nat, b > 0
  PROVE  Algorithms!Remainder(a, b) \in 0..(b - 1)
<1>1. Algorithms!Remainder(a, b) = a % b
  BY DEF Algorithms!Remainder
<1>2. a % b \in 0..(b - 1)
  OBVIOUS
<1> QED BY <1>1, <1>2

(* Whatever the digest, its code has six digits: the bit that would make a *)
(* number negative is masked.                                              *)
LEMMA SixDigitCodes ==
  ASSUME NEW digest \in [1..20 -> 0..255]
  PROVE  Algorithms!Truncate(digest) \in Algorithms!SixDigits
<1> DEFINE offset == digest[20] % 16
           top == digest[offset + 1] % 128
           binary == ((top * 256 + digest[offset + 2]) * 256 + digest[offset + 3]) * 256
                       + digest[offset + 4]
<1>1. offset \in 0..15
  <2>1. digest[20] \in 0..255
    OBVIOUS
  <2> QED BY <2>1
<1> HIDE DEF offset
<1>2. /\ digest[offset + 1] \in 0..255 /\ digest[offset + 2] \in 0..255
      /\ digest[offset + 3] \in 0..255 /\ digest[offset + 4] \in 0..255
  BY <1>1
<1>3. top \in 0..127
  BY <1>2
<1>4. Algorithms!Signed(top) = top
  <2> HIDE DEF top
  <2> QED BY <1>3 DEF Algorithms!Signed
<1>5. binary \in Nat
  <2> DEFINE two == top * 256 + digest[offset + 2]
             three == two * 256 + digest[offset + 3]
  <2>1. top \in Nat
    BY <1>3
  <2> HIDE DEF top
  <2>2. two \in Nat
    BY <1>2, <2>1, NextByte
  <2> HIDE DEF two
  <2>3. three \in Nat
    BY <1>2, <2>2, NextByte
  <2> HIDE DEF three
  <2>4. three * 256 + digest[offset + 4] \in Nat
    BY <1>2, <2>3, NextByte
  <2> QED BY <2>4 DEF two, three
<1>6. Algorithms!Truncate(digest) = Algorithms!Remainder(binary, Algorithms!Million)
  BY <1>4 DEF Algorithms!Truncate, Algorithms!TruncateTo, offset
<1> HIDE DEF binary
<1>7. Algorithms!Million \in Nat /\ Algorithms!Million > 0
  BY DEF Algorithms!Million
<1>8. Algorithms!Remainder(binary, Algorithms!Million) \in 0..(Algorithms!Million - 1)
  BY <1>5, <1>7, Remaining
<1> QED BY <1>6, <1>8 DEF Algorithms!SixDigits

(* A code made of a stored secret is accepted in its own time step and in  *)
(* the two next to it, for a key of any length and any digests of 20       *)
(* bytes: the key comes back from the secret, the code has the six digits  *)
(* that are asked of it.                                                   *)
THEOREM DriftCorrect ==
  ASSUME NEW Bits, NEW bytes \in Seq([1..8 -> Bits]), MaxStep \in Nat,
         \A n \in 1..MaxStep : Hmac(bytes, n) \in [1..20 -> 0..255]
  PROVE  Algorithms!CodesAccepted(bytes)
<1> DEFINE stored == Algorithms!Base32Encode(bytes)
<1>1. Algorithms!Base32Decode(stored) = bytes
  BY Base32KeyCorrect DEF Algorithms!Base32Correct
<1> SUFFICES ASSUME NEW made \in 1..MaxStep, NEW now \in 1..MaxStep, now - made \in -1..1
    PROVE Algorithms!VerifyTotp(stored, Algorithms!GenerateTotp(stored, made), now)
  BY DEF Algorithms!CodesAccepted
<1> HIDE DEF stored
<1> DEFINE code == Algorithms!Hotp(bytes, made)
<1>2. code \in Algorithms!SixDigits
  BY SixDigitCodes DEF Algorithms!Hotp
<1>3. Algorithms!GenerateTotp(stored, made) = code
  BY <1>1 DEF Algorithms!GenerateTotp
<1>4. made - now \in -1..1 /\ now + (made - now) = made
  OBVIOUS
<1>5. \E i \in -1..1 : Algorithms!Hotp(bytes, now + i) = code
  BY <1>4
<1> HIDE DEF code
<1> QED BY <1>1, <1>2, <1>3, <1>5 DEF Algorithms!VerifyTotp, Algorithms!Window

-----------------------------------------------------------------------------
(* The key under test is one of the samples until the first step.          *)
SampleKey == key = <<>> \/ key \in BoundedSeq(SampleBytes, MaxKeyLength)

LEMMA KeyType == MCSpec => []SampleKey
<1>1. MCInit => SampleKey
  BY DEF MCInit, SampleKey
<1>2. SampleKey /\ [MCNext]_<<vars, key>> => SampleKey'
  BY DEF SampleKey, MCNext
<1> QED BY <1>1, <1>2, PTL DEF MCSpec

(* The samples are sequences of bytes.                                     *)
LEMMA SampleBits ==
  ASSUME NEW k \in BoundedSeq(SampleBytes, MaxKeyLength)
  PROVE  k \in Seq([1..8 -> {0, 1}])
<1>1. SampleBytes \subseteq [1..8 -> {0, 1}]
  BY DEF SampleBytes
<1>2. ASSUME NEW m \in 0..MaxKeyLength, NEW f \in [1..m -> SampleBytes]
      PROVE  f \in Seq([1..8 -> {0, 1}])
  <2>1. m \in Nat /\ f \in [1..m -> [1..8 -> {0, 1}]]
    BY <1>1
  <2> QED BY <2>1
<1> QED BY <1>2 DEF BoundedSeq, SeqOf

(* The secret made of a key is the base32 of RFC 4648, and the key comes   *)
(* back from it.                                                           *)
THEOREM SecretsCorrect == MCSpec => []Base32Correct
<1>1. SampleKey => Base32Correct
  BY Base32KeyCorrect, SampleBits DEF Base32Correct, SampleKey
<1> QED BY <1>1, KeyType, PTL

(* A code has six digits and is accepted in its own step and in the two    *)
(* next to it.                                                             *)
THEOREM CodesCorrect == MCSpec => []CodesAccepted
<1>1. ASSUME key \in BoundedSeq(SampleBytes, MaxKeyLength) PROVE Algorithms!CodesAccepted(key)
  <2>1. key \in Seq([1..8 -> {0, 1}]) /\ MaxStep \in Nat
    BY <1>1, SampleBits, HmacAssumption
  <2>2. ASSUME NEW n \in 1..MaxStep PROVE Hmac(key, n) \in [1..20 -> 0..255]
    <3>1. n \in 0..(MaxStep + 1)
      BY <2>1
    <3> QED BY <1>1, <3>1, HmacAssumption
  <2> QED BY <2>1, <2>2, DriftCorrect
<1>2. SampleKey => CodesAccepted
  BY <1>1 DEF CodesAccepted, SampleKey
<1> QED BY <1>2, KeyType, PTL
=============================================================================
