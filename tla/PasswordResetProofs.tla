-------------------------- MODULE PasswordResetProofs --------------------------
(***************************************************************************)
(* Theorems about PasswordReset, for every number of requests in flight    *)
(* and every bound on the rows they write; and of Credential, which it     *)
(* implements while resets and logins keep out of each other's way.        *)
(***************************************************************************)
EXTENDS PasswordReset, Counting, SequenceTheorems

-----------------------------------------------------------------------------
(* The inductive invariant.                                                *)

SessionType == [live : BOOLEAN, era : 0..MaxPasswords]

(* The tables are sequences of rows.                                       *)
Tables == tokens \in Seq(TokenStates) /\ sessions \in Seq(SessionType)

(* The place of a request tells the operation it runs; what a reset, a     *)
(* mail or a refresh carries is a row; what was made or seen of the tables *)
(* is still there, and what was seen is nothing for an operation that      *)
(* stores no password.                                                     *)
Scripted(q, made, opened) ==
  /\ q.pc = "idle" => q.op = "none"
  /\ q.pc = "find" => q.op \in {"forgot", "reset", "change", "login", "refresh"}
  /\ q.pc \in {"create", "mail"} => q.op = "forgot"
  /\ q.pc = "store" => q.op \in {"reset", "change"}
  /\ q.pc \in {"mark", "invalidate"} => q.op = "reset"
  /\ q.pc = "purge" => q.op \in {"reset", "change", "refresh"}
  /\ q.pc = "insert" => q.op \in {"login", "refresh"}
  /\ q.pc = "link" => q.op = "refresh"
  /\ q.pc # "reply" => /\ q.op = "reset" \/ q.pc = "mail" => q.token \in 1..made
                       /\ q.op = "refresh" => q.session \in 1..opened
  /\ q.fresh <= opened
  /\ q.tokensSeen <= made /\ q.sessionsSeen <= opened
  /\ q.op \notin {"reset", "change"} => q.sessionsSeen = 0

Scripts == \A r \in Requests : Scripted(req[r], Len(tokens), Len(sessions))

(* The requests of some operations that are at some places.                *)
Busy(ops, pcs) == {r \in Requests : req[r].op \in ops /\ req[r].pc \in pcs}

(* Every row and every password that a request may still write has room.   *)
Rooms ==
  /\ Len(tokens) + Cardinality(Busy({"forgot"}, {"find", "create"})) <= MaxTokens
  /\ password + Cardinality(Busy({"reset", "change"}, {"find", "store"})) <= MaxPasswords
  /\ Len(sessions) + Cardinality(Busy({"login", "refresh"}, {"find", "insert"})) <= MaxSessions

(* The resets that hold token t at place pc.                               *)
Holding(t, pc) == {r \in Requests : req[r].op = "reset" /\ req[r].token = t /\ req[r].pc = pc}

(* A live token was spent by requests that are about to mark it or were    *)
(* lost before they did; one that is no longer live can be spent again     *)
(* only by those that have already read it.                                *)
Spent ==
  \A t \in 1..MaxTokens :
    /\ spends[t] <= password
    /\ t > Len(tokens) => spends[t] = 0
    /\ t <= Len(tokens) /\ tokens[t] = "live" =>
         spends[t] <= Cardinality(Holding(t, "mark")) + lost
    /\ spends[t] + Cardinality(Holding(t, "store")) <= Cardinality(Requests) + lost

(* A reset that has swept the tokens, and any request that has revoked the *)
(* sessions, has left none of those it had seen.                           *)
Swept ==
  \A r \in Requests :
    /\ req[r].op = "reset" /\ req[r].status = "ok" /\ req[r].pc \in {"purge", "reply"} =>
         \A t \in 1..req[r].tokensSeen : tokens[t] = "used"
    /\ req[r].status = "ok" /\ req[r].pc = "reply" =>
         \A s \in 1..req[r].sessionsSeen : ~sessions[s].live

(* Who is about to insert a session of a replaced password was overtaken   *)
(* by a sweep, or will be by one that is to come, or trades in a session   *)
(* that a sweep is known to have missed.                                   *)
LateInserts ==
  \A r \in Requests :
    req[r].pc = "insert" /\ req[r].era < password =>
      r \in overtaken \/ req[r].session \in excused \/ Replacing # {}

IInv ==
  TypeOK /\ Tables /\ Scripts /\ Rooms /\ Spent /\ Swept /\ LateInserts /\ OldSessionsEnd

-----------------------------------------------------------------------------
(* Request r goes on to place pc, and the others stay.                     *)
Moves(r, pc) ==
  /\ req' \in [Requests -> RequestType]
  /\ req'[r].pc = pc /\ req'[r].op = req[r].op
  /\ req'[r].fresh = req[r].fresh \/ req'[r].fresh = Len(sessions')
  /\ \A q \in Requests \ {r} : req'[q] = req[q]

(* ... with what it carries, all of it unless that is an answer.           *)
Carries(r) ==
  /\ req'[r].pc # "reply" => /\ req'[r].token = req[r].token
                             /\ req'[r].session = req[r].session
  /\ req'[r].tokensSeen = req[r].tokensSeen /\ req'[r].sessionsSeen = req[r].sessionsSeen

(* Request r is another one now, with operation op on token t.             *)
Turns(r, op, pc, t) ==
  /\ req' \in [Requests -> RequestType]
  /\ req'[r].pc = pc /\ req'[r].op = op /\ req'[r].token = t
  /\ req'[r].fresh = 0 /\ req'[r].tokensSeen = 0 /\ req'[r].sessionsSeen = 0
  /\ \A q \in Requests \ {r} : req'[q] = req[q]

(* A request takes the value it becomes.                                   *)
LEMMA Becoming ==
  ASSUME TypeOK, NEW r \in Requests, NEW h \in RequestType, Become(r, h)
  PROVE  /\ req' \in [Requests -> RequestType] /\ req'[r] = h
         /\ \A q \in Requests \ {r} : req'[q] = req[q]
BY DEF TypeOK, Become

(* A reply, and a step to another place, leave the rest of a request.      *)
LEMMA Moving ==
  ASSUME TypeOK, NEW r \in Requests
  PROVE  /\ \A pc \in Pcs : Goto(r, pc) => /\ Moves(r, pc) /\ Carries(r)
                                           /\ req'[r].status = req[r].status
         /\ \A s \in Statuses : Answer(r, s) => /\ Moves(r, "reply") /\ Carries(r)
                                                /\ req'[r].status = s
         /\ \A pc \in Pcs, s \in Statuses :
              Become(r, [req[r] EXCEPT !.pc = pc, !.status = s]) =>
                Moves(r, pc) /\ Carries(r) /\ req'[r].status = s
<1>1. req[r] \in RequestType
  BY DEF TypeOK
<1>2. ASSUME NEW pc \in Pcs, Goto(r, pc)
      PROVE  Moves(r, pc) /\ Carries(r) /\ req'[r].status = req[r].status
  <2> DEFINE h == [req[r] EXCEPT !.pc = pc]
  <2>1. /\ h \in RequestType /\ h.pc = pc /\ h.op = req[r].op /\ h.token = req[r].token
        /\ h.session = req[r].session /\ h.fresh = req[r].fresh
        /\ h.tokensSeen = req[r].tokensSeen /\ h.sessionsSeen = req[r].sessionsSeen
        /\ h.status = req[r].status
    BY <1>1 DEF RequestType
  <2>2. Become(r, h)
    BY <1>2 DEF Goto
  <2> HIDE DEF h
  <2> QED BY <2>1, <2>2, Becoming DEF Moves, Carries
<1>3. ASSUME NEW pc \in Pcs, NEW s \in Statuses,
             Become(r, [req[r] EXCEPT !.pc = pc, !.status = s])
      PROVE  Moves(r, pc) /\ Carries(r) /\ req'[r].status = s
  <2> DEFINE h == [req[r] EXCEPT !.pc = pc, !.status = s]
  <2>1. /\ h \in RequestType /\ h.pc = pc /\ h.op = req[r].op /\ h.token = req[r].token
        /\ h.session = req[r].session /\ h.fresh = req[r].fresh
        /\ h.tokensSeen = req[r].tokensSeen /\ h.sessionsSeen = req[r].sessionsSeen
        /\ h.status = s
    BY <1>1 DEF RequestType
  <2>2. Become(r, h)
    BY <1>3
  <2> HIDE DEF h
  <2> QED BY <2>1, <2>2, Becoming DEF Moves, Carries
<1>4. ASSUME NEW s \in Statuses, Answer(r, s)
      PROVE  Moves(r, "reply") /\ Carries(r) /\ req'[r].status = s
  <2> DEFINE h == [req[r] EXCEPT !.pc = "reply", !.token = 0, !.session = 0, !.status = s]
  <2>1. /\ h \in RequestType /\ h.pc = "reply" /\ h.op = req[r].op
        /\ h.fresh = req[r].fresh /\ h.status = s
        /\ h.tokensSeen = req[r].tokensSeen /\ h.sessionsSeen = req[r].sessionsSeen
    <3>1. 0 \in 0..MaxTokens /\ 0 \in 0..MaxSessions
      BY BoundsAssumption
    <3> QED BY <1>1, <3>1 DEF RequestType, Pcs
  <2>2. Become(r, h)
    BY <1>4 DEF Answer
  <2> HIDE DEF h
  <2> QED BY <2>1, <2>2, Becoming DEF Moves, Carries
<1> QED BY <1>2, <1>3, <1>4

(* A request arrives with nothing seen, and leaves nothing behind.         *)
LEMMA Turning ==
  ASSUME TypeOK, NEW r \in Requests
  PROVE  /\ Become(r, NoRequest) => Turns(r, "none", "idle", 0)
         /\ \A op \in Ops, t \in 0..MaxTokens, s \in 0..MaxSessions :
              Arrive(r, op, t, s) => Turns(r, op, "find", t) /\ req'[r].session = s
<1>1. /\ NoRequest \in RequestType
      /\ NoRequest.op = "none" /\ NoRequest.pc = "idle" /\ NoRequest.token = 0
      /\ NoRequest.fresh = 0
      /\ NoRequest.tokensSeen = 0 /\ NoRequest.sessionsSeen = 0
  BY BoundsAssumption DEF NoRequest, RequestType, Ops, Pcs, Statuses
<1>2. ASSUME Become(r, NoRequest) PROVE Turns(r, "none", "idle", 0)
  BY <1>1, <1>2, Becoming DEF Turns
<1>3. ASSUME NEW op \in Ops, NEW t \in 0..MaxTokens, NEW s \in 0..MaxSessions,
             Arrive(r, op, t, s)
      PROVE  Turns(r, op, "find", t) /\ req'[r].session = s
  <2> DEFINE h == [NoRequest EXCEPT !.op = op, !.pc = "find", !.token = t, !.session = s]
  <2>1. /\ h \in RequestType /\ h.pc = "find" /\ h.op = op /\ h.token = t
        /\ h.session = s /\ h.fresh = 0
        /\ h.tokensSeen = 0 /\ h.sessionsSeen = 0
    BY <1>1 DEF RequestType, Pcs
  <2>2. Become(r, h)
    BY <1>3 DEF Arrive
  <2> HIDE DEF h
  <2> QED BY <2>1, <2>2, Becoming DEF Turns
<1> QED BY <1>2, <1>3 DEF Arrive

(* Request r has stored a password, and seen the rows there are.           *)
Stores(r, pc) ==
  /\ Moves(r, pc) /\ req'[r].token = req[r].token /\ req'[r].status = "ok"
  /\ req'[r].tokensSeen \in {0, Len(tokens)} /\ req'[r].sessionsSeen = Len(sessions)

(* Storing a password takes the number of the rows along.                  *)
LEMMA Storing ==
  ASSUME TypeOK, Tables, NEW r \in Requests, NEW pc \in Pcs, NEW m \in {0, Len(tokens)},
         StoreThen(r, pc, m)
  PROVE  Stores(r, pc)
<1>1. /\ req[r] \in RequestType
      /\ Len(tokens) \in 0..MaxTokens /\ Len(sessions) \in 0..MaxSessions
  BY LenProperties, BoundsAssumption DEF TypeOK, Tables
<1>2. m \in 0..MaxTokens
  BY <1>1, BoundsAssumption
<1> DEFINE h == [req[r] EXCEPT !.pc = pc, !.status = "ok", !.tokensSeen = m,
                               !.sessionsSeen = Len(sessions)]
<1>3. /\ h \in RequestType /\ h.pc = pc /\ h.op = req[r].op /\ h.token = req[r].token
      /\ h.fresh = req[r].fresh
      /\ h.tokensSeen = m /\ h.sessionsSeen = Len(sessions) /\ h.status = "ok"
  BY <1>1, <1>2 DEF RequestType, Statuses
<1>4. Become(r, h)
  BY DEF StoreThen
<1> HIDE DEF h
<1> QED BY <1>3, <1>4, Becoming DEF Moves, Stores

(* A request takes the password it goes by along.                          *)
LEMMA Verifying ==
  ASSUME TypeOK, NEW r \in Requests, NEW pc \in Pcs, NEW e \in 0..MaxPasswords,
         Become(r, [req[r] EXCEPT !.pc = pc, !.era = e])
  PROVE  Moves(r, pc) /\ Carries(r) /\ req'[r].era = e
<1>1. req[r] \in RequestType
  BY DEF TypeOK
<1> DEFINE h == [req[r] EXCEPT !.pc = pc, !.era = e]
<1>2. /\ h \in RequestType /\ h.pc = pc /\ h.op = req[r].op /\ h.token = req[r].token
      /\ h.session = req[r].session /\ h.fresh = req[r].fresh /\ h.era = e
      /\ h.tokensSeen = req[r].tokensSeen /\ h.sessionsSeen = req[r].sessionsSeen
  BY <1>1 DEF RequestType
<1>3. Become(r, h)
  OBVIOUS
<1> HIDE DEF h
<1> QED BY <1>2, <1>3, Becoming DEF Moves, Carries

(* A created token is a row more, and is what its request mails.           *)
LEMMA Creating ==
  ASSUME TypeOK, Tables, Len(tokens) < MaxTokens, NEW r \in Requests, CreateToken(r)
  PROVE  /\ Moves(r, "mail") /\ req'[r].token = Len(tokens) + 1
         /\ req'[r].tokensSeen = req[r].tokensSeen /\ req'[r].sessionsSeen = req[r].sessionsSeen
<1>1. req[r] \in RequestType /\ Len(tokens) \in Nat /\ Len(tokens') = Len(tokens) + 1
  BY LenProperties, AppendProperties DEF TypeOK, Tables, CreateToken, TokenStates
<1> DEFINE n == Len(tokens')
           h == [req[r] EXCEPT !.pc = "mail", !.token = n]
<1>2. n \in 0..MaxTokens /\ n = Len(tokens) + 1
  BY <1>1, BoundsAssumption
<1>3. Become(r, h)
  BY DEF CreateToken
<1> HIDE DEF n
<1>4. /\ h \in RequestType /\ h.pc = "mail" /\ h.op = req[r].op /\ h.token = n
      /\ h.fresh = req[r].fresh
      /\ h.tokensSeen = req[r].tokensSeen /\ h.sessionsSeen = req[r].sessionsSeen
  BY <1>1, <1>2 DEF RequestType, Pcs
<1> HIDE DEF h
<1> QED BY <1>2, <1>3, <1>4, Becoming DEF Moves

(* What a request is about to write has room.                              *)
LEMMA RoomFor ==
  ASSUME TypeOK, Tables, Scripts, Rooms, NEW r \in Requests
  PROVE  /\ At(r, "create") => Len(tokens) < MaxTokens
         /\ At(r, "store") => password < MaxPasswords
         /\ At(r, "insert") => Len(sessions) < MaxSessions
<1>1. /\ password \in Nat /\ Len(tokens) \in Nat /\ Len(sessions) \in Nat
      /\ IsFiniteSet(Requests)
  BY LenProperties, RequestsAssumption, BoundsAssumption DEF TypeOK, Tables
<1>2. ASSUME NEW ops, NEW pcs, r \in Busy(ops, pcs)
      PROVE  Cardinality(Busy(ops, pcs)) \in Nat /\ 1 <= Cardinality(Busy(ops, pcs))
  <2>1. Busy(ops, pcs) \in SUBSET Requests
    BY DEF Busy
  <2> QED BY <1>1, <1>2, <2>1, PartType, PartMember
<1>3. ASSUME At(r, "create") PROVE Len(tokens) < MaxTokens
  <2>1. r \in Busy({"forgot"}, {"find", "create"})
    BY <1>3 DEF Busy, At, Scripts, Scripted
  <2> QED BY <1>1, <1>2, <2>1, BoundsAssumption DEF Rooms
<1>4. ASSUME At(r, "store") PROVE password < MaxPasswords
  <2>1. r \in Busy({"reset", "change"}, {"find", "store"})
    BY <1>4 DEF Busy, At, Scripts, Scripted
  <2> QED BY <1>1, <1>2, <2>1, BoundsAssumption DEF Rooms
<1>5. ASSUME At(r, "insert") PROVE Len(sessions) < MaxSessions
  <2>1. r \in Busy({"login", "refresh"}, {"find", "insert"})
    BY <1>5 DEF Busy, At, Scripts, Scripted
  <2> QED BY <1>1, <1>2, <2>1, BoundsAssumption DEF Rooms
<1> QED BY <1>3, <1>4, <1>5

(* A session inserted is a row more, and is what its request made.         *)
LEMMA Opening ==
  ASSUME TypeOK, Tables, Scripts, Rooms, NEW r \in Requests, InsertSession(r)
  PROVE  /\ Moves(r, IF req[r].op = "login" THEN "reply" ELSE "link") /\ Carries(r)
         /\ req'[r].status = "ok"
<1> DEFINE row == [live |-> TRUE, era |-> req[r].era]
           n == Len(sessions')
           pc == IF req[r].op = "login" THEN "reply" ELSE "link"
           h == [req[r] EXCEPT !.pc = pc, !.fresh = n, !.status = "ok"]
<1>1. req[r] \in RequestType /\ Len(sessions) \in Nat /\ Len(sessions) < MaxSessions
  BY RoomFor, LenProperties DEF TypeOK, Tables, InsertSession
<1>2. n = Len(sessions) + 1
  <2>1. sessions \in Seq(SessionType) /\ row \in SessionType /\ sessions' = Append(sessions, row)
    BY <1>1 DEF Tables, SessionType, RequestType, InsertSession
  <2> HIDE DEF row
  <2> QED BY <2>1, AppendProperties
<1>3. n \in 0..MaxSessions /\ pc \in Pcs
  BY <1>1, <1>2, BoundsAssumption DEF Pcs
<1>4. Become(r, h)
  BY DEF InsertSession
<1> HIDE DEF n, pc
<1>5. /\ h \in RequestType /\ h.pc = pc /\ h.op = req[r].op /\ h.token = req[r].token
      /\ h.session = req[r].session /\ h.fresh = n /\ h.status = "ok"
      /\ h.tokensSeen = req[r].tokensSeen /\ h.sessionsSeen = req[r].sessionsSeen
  BY <1>1, <1>3 DEF RequestType, Statuses
<1> HIDE DEF h
<1>6. /\ req' \in [Requests -> RequestType] /\ req'[r] = h
      /\ \A q \in Requests \ {r} : req'[q] = req[q]
  BY <1>4, <1>5, Becoming
<1>7. Moves(r, pc) /\ Carries(r) /\ req'[r].status = "ok"
  BY <1>5, <1>6 DEF Moves, Carries, n
<1> QED BY <1>7 DEF pc

(* A refresh goes by the password of the session it presents.              *)
LEMMA Accepting ==
  ASSUME TypeOK, Tables, Scripts, NEW r \in Requests, RefreshAccepted(r)
  PROVE  /\ At(r, "find") /\ req[r].op = "refresh" /\ Moves(r, "insert") /\ Carries(r)
         /\ req[r].session \in 1..Len(sessions) /\ sessions[req[r].session].live
         /\ req'[r].era = sessions[req[r].session].era
<1> DEFINE e == sessions[req[r].session].era
<1>1. /\ At(r, "find") /\ req[r].op = "refresh" /\ sessions[req[r].session].live
      /\ Become(r, [req[r] EXCEPT !.pc = "insert", !.era = e])
      /\ req[r].session \in 1..Len(sessions)
  <2>1. /\ At(r, "find") /\ req[r].op = "refresh" /\ sessions[req[r].session].live
        /\ Become(r, [req[r] EXCEPT !.pc = "insert", !.era = e])
    BY DEF RefreshAccepted
  <2>2. req[r].session \in 1..Len(sessions)
    BY <2>1 DEF Scripts, Scripted, At
  <2> QED BY <2>1, <2>2
<1>2. e \in 0..MaxPasswords /\ "insert" \in Pcs
  <2>1. sessions[req[r].session] \in SessionType
    BY <1>1, ElementOfSeq DEF Tables
  <2>2. e \in 0..MaxPasswords
    BY <2>1 DEF SessionType
  <2> QED BY <2>2 DEF Pcs
<1> HIDE DEF e
<1>3. Moves(r, "insert") /\ Carries(r) /\ req'[r].era = e
  BY <1>1, <1>2, Verifying
<1> QED BY <1>1, <1>3 DEF e

(* What each action of a request does to the requests.                     *)
LEMMA Effects ==
  ASSUME TypeOK, Tables, Scripts, Rooms, NEW r \in Requests
  PROVE  /\ BeginForgot(r) => At(r, "idle") /\ Turns(r, "forgot", "find", 0)
         /\ BeginChange(r) => At(r, "idle") /\ Turns(r, "change", "find", 0)
         /\ BeginLogin(r) => At(r, "idle") /\ Turns(r, "login", "find", 0)
         /\ \A t \in 1..MaxTokens :
              BeginReset(r, t) => At(r, "idle") /\ Turns(r, "reset", "find", t)
         /\ \A s \in 1..MaxSessions :
              BeginRefresh(r, s) => /\ At(r, "idle") /\ Turns(r, "refresh", "find", 0)
                                    /\ req'[r].session = s
         /\ BeginGarbage(r) => /\ At(r, "idle") /\ Moves(r, "reply") /\ Carries(r)
                               /\ req'[r].status = "denied"
         /\ ForgotFind(r) => /\ At(r, "find") /\ req[r].op = "forgot" /\ Carries(r)
                             /\ Moves(r, "create") \/ Moves(r, "reply")
         /\ Mail(r) => At(r, "mail") /\ Moves(r, "reply") /\ Carries(r)
         /\ ResetDenied(r) => /\ At(r, "find") /\ req[r].op = "reset" /\ Carries(r)
                              /\ Moves(r, "reply") /\ req'[r].status = "denied"
         /\ ResetAccepted(r) => /\ At(r, "find") /\ req[r].op = "reset" /\ Carries(r)
                                /\ Moves(r, "store") /\ tokens[req[r].token] = "live"
         /\ VerifyCurrent(r) =>
              /\ At(r, "find") /\ Carries(r)
              /\ \/ req[r].op = "change" /\ Moves(r, "store")
                 \/ req[r].op = "login" /\ Moves(r, "insert") /\ req'[r].era = password
                 \/ /\ req[r].op \in {"change", "login"}
                    /\ Moves(r, "reply") /\ req'[r].status = "denied"
         /\ SetPasswordByToken(r) => At(r, "store") /\ req[r].op = "reset" /\ Stores(r, "mark")
         /\ ChangePassword(r) => At(r, "store") /\ req[r].op = "change" /\ Stores(r, "purge")
         /\ MarkUsed(r) => /\ At(r, "mark") /\ Moves(r, "invalidate") /\ Carries(r)
                           /\ req'[r].status = req[r].status
         /\ InvalidateAllForUser(r) => /\ At(r, "invalidate") /\ Moves(r, "purge") /\ Carries(r)
                                       /\ req'[r].status = req[r].status
         /\ RevokeAll(r) => /\ At(r, "purge") /\ Moves(r, "reply") /\ Carries(r)
                            /\ req'[r].status = req[r].status
         /\ RefreshReused(r) => /\ At(r, "find") /\ req[r].op = "refresh" /\ Carries(r)
                                /\ Moves(r, "purge") /\ req'[r].status = "denied"
         /\ RefreshDenied(r) => /\ At(r, "find") /\ req[r].op = "refresh" /\ Carries(r)
                                /\ Moves(r, "reply") /\ req'[r].status = "denied"
         /\ RefreshAccepted(r) => /\ At(r, "find") /\ req[r].op = "refresh" /\ Carries(r)
                                  /\ Moves(r, "insert")
         /\ InsertSession(r) =>
              /\ At(r, "insert") /\ Carries(r)
              /\ \/ req[r].op = "login" /\ Moves(r, "reply")
                 \/ req[r].op = "refresh" /\ Moves(r, "link")
         /\ Link(r) => /\ At(r, "link") /\ req[r].op = "refresh" /\ Carries(r)
                       /\ Moves(r, "reply") \/ Moves(r, "purge")
         /\ Reply(r) => At(r, "reply") /\ Turns(r, "none", "idle", 0)
         /\ Fail(r) => ~At(r, "idle") /\ Turns(r, "none", "idle", 0)
<1>1. /\ {"idle", "find", "create", "mail", "store", "mark", "invalidate", "purge", "insert",
          "link", "reply"} = Pcs
      /\ {"none", "ok", "denied"} = Statuses
      /\ {"none", "forgot", "reset", "change", "login", "refresh"} = Ops
      /\ 0 \in 0..MaxTokens /\ 1..MaxTokens \in SUBSET (0..MaxTokens)
      /\ 0 \in 0..MaxSessions /\ 1..MaxSessions \in SUBSET (0..MaxSessions)
  BY BoundsAssumption DEF Pcs, Statuses, Ops
<1>2. /\ BeginForgot(r) => At(r, "idle") /\ Turns(r, "forgot", "find", 0)
      /\ BeginChange(r) => At(r, "idle") /\ Turns(r, "change", "find", 0)
      /\ BeginLogin(r) => At(r, "idle") /\ Turns(r, "login", "find", 0)
  BY <1>1, Turning DEF BeginForgot, BeginChange, BeginLogin
<1>3. \A t \in 1..MaxTokens :
        BeginReset(r, t) => At(r, "idle") /\ Turns(r, "reset", "find", t)
  BY <1>1, Turning DEF BeginReset
<1>4. BeginGarbage(r) => /\ At(r, "idle") /\ Moves(r, "reply") /\ Carries(r)
                         /\ req'[r].status = "denied"
  BY <1>1, Moving DEF BeginGarbage
<1>5. ForgotFind(r) => /\ At(r, "find") /\ req[r].op = "forgot" /\ Carries(r)
                       /\ Moves(r, "create") \/ Moves(r, "reply")
  BY <1>1, Moving DEF ForgotFind
<1>6. Mail(r) => At(r, "mail") /\ Moves(r, "reply") /\ Carries(r)
  BY <1>1, Moving DEF Mail
<1>7. ResetDenied(r) => /\ At(r, "find") /\ req[r].op = "reset" /\ Carries(r)
                        /\ Moves(r, "reply") /\ req'[r].status = "denied"
  BY <1>1, Moving DEF ResetDenied
<1>8. ResetAccepted(r) => /\ At(r, "find") /\ req[r].op = "reset" /\ Carries(r)
                          /\ Moves(r, "store") /\ tokens[req[r].token] = "live"
  BY <1>1, Moving DEF ResetAccepted, ReadToken
<1>9. /\ password \in 0..MaxPasswords
      /\ \A s \in 1..MaxSessions :
           BeginRefresh(r, s) => /\ At(r, "idle") /\ Turns(r, "refresh", "find", 0)
                                 /\ req'[r].session = s
  BY <1>1, Turning DEF BeginRefresh, TypeOK
<1>10. ASSUME VerifyCurrent(r)
      PROVE  /\ At(r, "find") /\ Carries(r)
             /\ \/ req[r].op = "change" /\ Moves(r, "store")
                \/ req[r].op = "login" /\ Moves(r, "insert") /\ req'[r].era = password
                \/ /\ req[r].op \in {"change", "login"}
                   /\ Moves(r, "reply") /\ req'[r].status = "denied"
  <2>1. CASE req[r].op = "change" /\ Goto(r, "store")
    BY <1>1, <1>10, <2>1, Moving DEF VerifyCurrent
  <2>2. CASE req[r].op = "login" /\ Become(r, [req[r] EXCEPT !.pc = "insert", !.era = password])
    BY <1>1, <1>9, <1>10, <2>2, Verifying DEF VerifyCurrent
  <2>3. CASE req[r].op \in {"change", "login"} /\ Answer(r, "denied")
    BY <1>1, <1>10, <2>3, Moving DEF VerifyCurrent
  <2> QED BY <1>10, <2>1, <2>2, <2>3 DEF VerifyCurrent
<1>11. /\ SetPasswordByToken(r) => At(r, "store") /\ req[r].op = "reset" /\ Stores(r, "mark")
       /\ ChangePassword(r) => At(r, "store") /\ req[r].op = "change" /\ Stores(r, "purge")
  BY <1>1, Storing DEF SetPasswordByToken, ChangePassword
<1>12. /\ MarkUsed(r) => /\ At(r, "mark") /\ Moves(r, "invalidate") /\ Carries(r)
                         /\ req'[r].status = req[r].status
       /\ InvalidateAllForUser(r) => /\ At(r, "invalidate") /\ Moves(r, "purge") /\ Carries(r)
                                     /\ req'[r].status = req[r].status
       /\ RevokeAll(r) => /\ At(r, "purge") /\ Moves(r, "reply") /\ Carries(r)
                          /\ req'[r].status = req[r].status
  BY <1>1, Moving DEF MarkUsed, MarkAs, InvalidateAllForUser, InvalidateAll, RevokeAll
<1>13. /\ RefreshReused(r) => /\ At(r, "find") /\ req[r].op = "refresh" /\ Carries(r)
                              /\ Moves(r, "purge") /\ req'[r].status = "denied"
       /\ RefreshDenied(r) => /\ At(r, "find") /\ req[r].op = "refresh" /\ Carries(r)
                              /\ Moves(r, "reply") /\ req'[r].status = "denied"
  BY <1>1, Moving DEF RefreshReused, RefreshDenied
<1>14. RefreshAccepted(r) => /\ At(r, "find") /\ req[r].op = "refresh" /\ Carries(r)
                             /\ Moves(r, "insert")
  BY Accepting
<1>15. ASSUME InsertSession(r)
       PROVE  /\ At(r, "insert") /\ Carries(r)
              /\ \/ req[r].op = "login" /\ Moves(r, "reply")
                 \/ req[r].op = "refresh" /\ Moves(r, "link")
  <2>1. At(r, "insert")
    BY <1>15 DEF InsertSession
  <2>2. req[r].op \in {"login", "refresh"}
    BY <2>1 DEF At, Scripts, Scripted
  <2> QED BY <1>15, <2>1, <2>2, Opening
<1>16. Link(r) => /\ At(r, "link") /\ req[r].op = "refresh" /\ Carries(r)
                  /\ Moves(r, "reply") \/ Moves(r, "purge")
  <2>1. Link(r) => At(r, "link") /\ req[r].op = "refresh"
    BY DEF Link, At, Scripts, Scripted
  <2> QED BY <1>1, <2>1, Moving DEF Link
<1>17. /\ Reply(r) => At(r, "reply") /\ Turns(r, "none", "idle", 0)
       /\ Fail(r) => ~At(r, "idle") /\ Turns(r, "none", "idle", 0)
  BY Turning DEF Reply, Fail
<1> QED BY <1>2, <1>3, <1>4, <1>5, <1>6, <1>7, <1>8, <1>9, <1>11, <1>12, <1>17, <1>10, <1>13,
  <1>14, <1>15, <1>16

(* The tokens only grow in number and age, and a used one stays used.      *)
TokensAge ==
  /\ tokens' \in Seq(TokenStates) /\ Len(tokens') \in Nat
  /\ Len(tokens) <= Len(tokens') /\ Len(tokens') <= MaxTokens
  /\ \A t \in 1..Len(tokens) : /\ tokens[t] = "used" => tokens'[t] = "used"
                               /\ tokens'[t] = "live" => tokens[t] = "live"

(* The sessions only grow in number and end.                               *)
SessionsEnd ==
  /\ sessions' \in Seq(SessionType) /\ Len(sessions') \in Nat
  /\ Len(sessions) <= Len(sessions') /\ Len(sessions') <= MaxSessions
  /\ \A s \in 1..Len(sessions) : /\ sessions'[s].era = sessions[s].era
                                 /\ sessions'[s].live => sessions[s].live

(* What each statement that writes a token does to the tokens.             *)
LEMMA TokenWrites ==
  ASSUME TypeOK, Tables, Scripts, Rooms, NEW r \in Requests
  PROVE  /\ CreateToken(r) => /\ TokensAge /\ Len(tokens') = Len(tokens) + 1
                              /\ \A t \in 1..Len(tokens) : tokens'[t] = tokens[t]
         /\ MarkUsed(r) => /\ TokensAge /\ Len(tokens') = Len(tokens)
                           /\ req[r].token \in 1..Len(tokens)
                           /\ tokens'[req[r].token] = "used"
                           /\ \A t \in 1..Len(tokens) : t # req[r].token => tokens'[t] = tokens[t]
         /\ InvalidateAllForUser(r) => /\ TokensAge /\ Len(tokens') = Len(tokens)
                                       /\ \A t \in 1..Len(tokens) : tokens'[t] = "used"
<1>1. /\ tokens \in Seq(TokenStates) /\ Len(tokens) \in Nat /\ DOMAIN tokens = 1..Len(tokens)
      /\ Len(tokens) <= MaxTokens /\ MaxTokens \in Nat
      /\ \A t \in 1..Len(tokens) : tokens[t] \in TokenStates
  BY LenProperties, BoundsAssumption DEF TypeOK, Tables
<1>2. "live" \in TokenStates /\ "used" \in TokenStates
  BY DEF TokenStates
<1>3. ASSUME CreateToken(r)
      PROVE  /\ TokensAge /\ Len(tokens') = Len(tokens) + 1
             /\ \A t \in 1..Len(tokens) : tokens'[t] = tokens[t]
  <2>1. Len(tokens) < MaxTokens /\ tokens' = Append(tokens, "live")
    BY <1>3, RoomFor DEF CreateToken
  <2>2. /\ tokens' \in Seq(TokenStates) /\ Len(tokens') = Len(tokens) + 1
        /\ \A t \in 1..Len(tokens) : tokens'[t] = tokens[t]
    BY <1>1, <1>2, <2>1, AppendProperties
  <2> QED BY <1>1, <2>1, <2>2 DEF TokensAge
<1>4. ASSUME MarkUsed(r)
      PROVE  /\ TokensAge /\ Len(tokens') = Len(tokens) /\ req[r].token \in 1..Len(tokens)
             /\ tokens'[req[r].token] = "used"
             /\ \A t \in 1..Len(tokens) : t # req[r].token => tokens'[t] = tokens[t]
  <2>1. req[r].token \in 1..Len(tokens) /\ tokens' = [tokens EXCEPT ![req[r].token] = "used"]
    BY <1>4 DEF MarkUsed, MarkAs, At, Scripts, Scripted
  <2>2. /\ tokens' \in Seq(TokenStates) /\ Len(tokens') = Len(tokens)
        /\ \A t \in 1..Len(tokens) : tokens'[t] = IF t = req[r].token THEN "used" ELSE tokens[t]
    BY <1>1, <1>2, <2>1, ExceptSeq
  <2> QED BY <1>1, <2>1, <2>2 DEF TokensAge
<1>5. ASSUME InvalidateAllForUser(r)
      PROVE  /\ TokensAge /\ Len(tokens') = Len(tokens)
             /\ \A t \in 1..Len(tokens) : tokens'[t] = "used"
  <2>1. tokens' = [t \in 1..Len(tokens) |->
                     IF tokens[t] \in {"live", "expired"} THEN "used" ELSE tokens[t]]
    BY <1>1, <1>5 DEF InvalidateAllForUser, InvalidateAll
  <2>2. \A t \in 1..Len(tokens) : tokens'[t] = "used"
    BY <1>1, <2>1 DEF TokenStates
  <2>3. tokens' \in Seq(TokenStates) /\ Len(tokens') = Len(tokens)
    BY <1>1, <1>2, <2>1
  <2> QED BY <1>1, <2>2, <2>3 DEF TokensAge
<1> QED BY <1>3, <1>4, <1>5

(* What each statement that writes a session does to the sessions.         *)
LEMMA SessionWrites ==
  ASSUME TypeOK, Tables, Scripts, Rooms, NEW r \in Requests
  PROVE  /\ RevokeAll(r) => /\ SessionsEnd /\ Len(sessions') = Len(sessions)
                            /\ \A s \in 1..Len(sessions) : ~sessions'[s].live
         /\ InsertSession(r) => /\ SessionsEnd /\ Len(sessions') = Len(sessions) + 1
                                /\ sessions'[Len(sessions')].era = req[r].era
                                /\ \A s \in 1..Len(sessions) : sessions'[s] = sessions[s]
         /\ Link(r) => /\ SessionsEnd /\ Len(sessions') = Len(sessions)
                       /\ req[r].session \in 1..Len(sessions)
                       /\ ~sessions'[req[r].session].live
                       /\ \A s \in 1..Len(sessions) :
                            s # req[r].session => sessions'[s] = sessions[s]
<1>1. /\ sessions \in Seq(SessionType) /\ Len(sessions) \in Nat
      /\ DOMAIN sessions = 1..Len(sessions)
      /\ Len(sessions) <= MaxSessions /\ MaxSessions \in Nat
      /\ \A s \in 1..Len(sessions) : sessions[s] \in SessionType
  BY LenProperties, BoundsAssumption DEF TypeOK, Tables
<1>2. ASSUME RevokeAll(r)
      PROVE  /\ SessionsEnd /\ Len(sessions') = Len(sessions)
             /\ \A s \in 1..Len(sessions) : ~sessions'[s].live
  <2>1. sessions' = [s \in 1..Len(sessions) |-> [sessions[s] EXCEPT !.live = FALSE]]
    BY <1>1, <1>2 DEF RevokeAll
  <2>2. \A s \in 1..Len(sessions) : /\ sessions'[s] \in SessionType
                                    /\ sessions'[s].era = sessions[s].era
                                    /\ ~sessions'[s].live
    BY <1>1, <2>1 DEF SessionType
  <2>3. sessions' \in Seq(SessionType) /\ Len(sessions') = Len(sessions)
    BY <1>1, <2>1, <2>2
  <2> QED BY <1>1, <2>2, <2>3 DEF SessionsEnd
<1>3. ASSUME InsertSession(r)
      PROVE  /\ SessionsEnd /\ Len(sessions') = Len(sessions) + 1
             /\ sessions'[Len(sessions')].era = req[r].era
             /\ \A s \in 1..Len(sessions) : sessions'[s] = sessions[s]
  <2> DEFINE row == [live |-> TRUE, era |-> req[r].era]
  <2>1. row \in SessionType /\ row.era = req[r].era
    BY DEF TypeOK, RequestType, SessionType
  <2>2. sessions' = Append(sessions, row) /\ Len(sessions) < MaxSessions
    BY <1>3, RoomFor DEF InsertSession
  <2> HIDE DEF row
  <2>3. /\ sessions' \in Seq(SessionType) /\ Len(sessions') = Len(sessions) + 1
        /\ \A s \in 1..Len(sessions) : sessions'[s] = sessions[s]
        /\ sessions'[Len(sessions) + 1] = row
    BY <1>1, <2>1, <2>2, AppendProperties
  <2> QED BY <1>1, <2>1, <2>2, <2>3 DEF SessionsEnd
<1>4. ASSUME Link(r)
      PROVE  /\ SessionsEnd /\ Len(sessions') = Len(sessions)
             /\ req[r].session \in 1..Len(sessions)
             /\ ~sessions'[req[r].session].live
             /\ \A s \in 1..Len(sessions) : s # req[r].session => sessions'[s] = sessions[s]
  <2> DEFINE u == req[r].session
             row == [sessions[u] EXCEPT !.live = FALSE]
  <2>1. u \in 1..Len(sessions) /\ sessions' = [sessions EXCEPT ![u] = row]
    BY <1>4 DEF Link, At, Scripts, Scripted
  <2>2. row \in SessionType /\ row.era = sessions[u].era /\ ~row.live
    BY <1>1, <2>1 DEF SessionType
  <2> HIDE DEF row, u
  <2>3. /\ sessions' \in Seq(SessionType) /\ Len(sessions') = Len(sessions)
        /\ \A s \in 1..Len(sessions) : sessions'[s] = IF s = u THEN row ELSE sessions[s]
    BY <1>1, <2>1, <2>2, ExceptSeq
  <2>4. SessionsEnd
    BY <1>1, <2>2, <2>3 DEF SessionsEnd
  <2> QED BY <2>1, <2>2, <2>3, <2>4 DEF u
<1> QED BY <1>2, <1>3, <1>4

(* Every step lets the rows grow and age only.                             *)
LEMMA RowsStep ==
  TypeOK /\ Tables /\ Scripts /\ Rooms /\ [Next]_vars => TokensAge /\ SessionsEnd
<1> SUFFICES ASSUME TypeOK, Tables, Scripts, Rooms, [Next]_vars PROVE TokensAge /\ SessionsEnd
  OBVIOUS
<1>1. /\ tokens \in Seq(TokenStates) /\ Len(tokens) \in Nat /\ DOMAIN tokens = 1..Len(tokens)
      /\ sessions \in Seq(SessionType) /\ Len(sessions) \in Nat
      /\ Len(tokens) <= MaxTokens /\ Len(sessions) <= MaxSessions
  BY LenProperties DEF TypeOK, Tables
<1>2. UNCHANGED tokens => TokensAge
  BY <1>1 DEF TokensAge
<1>3. UNCHANGED sessions => SessionsEnd
  BY <1>1 DEF SessionsEnd
<1> DEFINE Goal == TokensAge /\ SessionsEnd
<1>4. UNCHANGED <<tokens, sessions>> => Goal
  BY <1>2, <1>3
<1>5. ASSUME NEW r \in Requests, CreateToken(r) \/ MarkUsed(r) \/ InvalidateAllForUser(r)
      PROVE  Goal
  <2>1. UNCHANGED sessions
    BY <1>5 DEF CreateToken, MarkUsed, MarkAs, InvalidateAllForUser, InvalidateAll
  <2> QED BY <1>3, <1>5, <2>1, TokenWrites
<1>6. ASSUME NEW r \in Requests, RevokeAll(r) \/ InsertSession(r) \/ Link(r) PROVE Goal
  <2>1. UNCHANGED tokens
    BY <1>6 DEF RevokeAll, InsertSession, Link
  <2> QED BY <1>2, <1>6, <2>1, SessionWrites
<1>7. ASSUME NEW t \in 1..MaxTokens, Expire(t) PROVE Goal
  <2>1. /\ tokens' = [tokens EXCEPT ![t] = "expired"] /\ t \in 1..Len(tokens)
        /\ tokens[t] = "live" /\ UNCHANGED sessions
    BY <1>1, <1>7 DEF Expire
  <2>2. "expired" \in TokenStates
    BY DEF TokenStates
  <2>3. /\ tokens' \in Seq(TokenStates) /\ Len(tokens') = Len(tokens)
        /\ \A u \in 1..Len(tokens) : tokens'[u] = IF u = t THEN "expired" ELSE tokens[u]
    BY <1>1, <2>1, <2>2, ExceptSeq
  <2> QED BY <1>1, <1>3, <2>1, <2>3 DEF TokensAge
<1> HIDE DEF Goal
<1>8. ASSUME NEW r \in Requests,
             \/ BeginForgot(r) \/ BeginChange(r) \/ BeginLogin(r) \/ BeginGarbage(r)
             \/ \E t \in 1..MaxTokens : BeginReset(r, t)
             \/ \E s \in 1..MaxSessions : BeginRefresh(r, s)
             \/ ForgotFind(r) \/ Mail(r) \/ ResetDenied(r) \/ ResetAccepted(r)
             \/ VerifyCurrent(r) \/ SetPasswordByToken(r) \/ ChangePassword(r)
             \/ RefreshReused(r) \/ RefreshDenied(r) \/ RefreshAccepted(r)
             \/ Reply(r) \/ Fail(r)
      PROVE  Goal
  BY <1>4, <1>8 DEF BeginForgot, BeginChange, BeginLogin, BeginGarbage, BeginReset,
       BeginRefresh, Arrive,
       ForgotFind, Mail, ResetDenied, ResetAccepted, ReadToken, VerifyCurrent,
       SetPasswordByToken, ChangePassword, StoreThen, RefreshReused, RefreshDenied,
       RefreshAccepted, Reply, Fail, table
<1>9. ASSUME UNCHANGED vars PROVE Goal
  BY <1>4, <1>9 DEF vars
<1> QED BY <1>5, <1>6, <1>7, <1>8, <1>9 DEF Next, Goal

(* Every step leaves the requests well typed and at their script.          *)
LEMMA RequestStep ==
  TypeOK /\ Tables /\ Scripts /\ Rooms /\ [Next]_vars =>
    req' \in [Requests -> RequestType] /\ Scripts'
<1> SUFFICES ASSUME TypeOK, Tables, Scripts, Rooms, [Next]_vars
             PROVE  req' \in [Requests -> RequestType] /\ Scripts'
  OBVIOUS
<1> DEFINE Goal == req' \in [Requests -> RequestType] /\ Scripts'
           made == Len(tokens')
           opened == Len(sessions')
<1>1. /\ made \in Nat /\ opened \in Nat /\ Len(tokens) \in Nat /\ Len(sessions) \in Nat
      /\ Len(tokens) <= made /\ Len(sessions) <= opened
  BY RowsStep, LenProperties DEF TokensAge, SessionsEnd, Tables
<1>2. /\ req \in [Requests -> RequestType]
      /\ \A q \in Requests : /\ req[q].tokensSeen \in Nat /\ req[q].sessionsSeen \in Nat
                             /\ req[q].fresh \in Nat /\ req[q].session \in Nat
                             /\ Scripted(req[q], Len(tokens), Len(sessions))
  BY BoundsAssumption DEF TypeOK, Scripts, RequestType
<1> HIDE DEF made, opened
<1>3. \A q \in Requests : Scripted(req[q], made, opened)
  BY <1>1, <1>2 DEF Scripted
<1>4. ASSUME NEW r \in Requests, req' \in [Requests -> RequestType],
             Scripted(req'[r], made, opened), \A q \in Requests \ {r} : req'[q] = req[q]
      PROVE  Goal
  BY <1>3, <1>4 DEF Scripts, made, opened
<1>5. ASSUME NEW r \in Requests, NEW pc, Moves(r, pc), Carries(r),
             pc # "reply" => req[r].pc # "reply",
             \/ pc = "create" /\ req[r].pc = "find" /\ req[r].op = "forgot"
             \/ pc = "store" /\ req[r].pc = "find" /\ req[r].op \in {"reset", "change"}
             \/ pc = "insert" /\ req[r].pc = "find" /\ req[r].op \in {"login", "refresh"}
             \/ pc = "link" /\ req[r].op = "refresh"
             \/ pc = "invalidate" /\ req[r].pc = "mark"
             \/ pc = "purge" /\ (req[r].pc = "invalidate" \/ req[r].op = "refresh")
             \/ pc = "reply"
      PROVE  Goal
  <2>1. Scripted(req'[r], made, opened)
    BY <1>1, <1>3, <1>5 DEF Moves, Carries, Scripted, opened
  <2> QED BY <1>4, <1>5, <2>1 DEF Moves
<1>6. ASSUME NEW r \in Requests, NEW op, NEW pc, NEW t, Turns(r, op, pc, t),
             \/ pc = "idle" /\ op = "none"
             \/ pc = "find" /\ op \in {"forgot", "change", "login"}
             \/ pc = "find" /\ op = "reset" /\ t \in 1..made
             \/ pc = "find" /\ op = "refresh" /\ req'[r].session \in 1..opened
      PROVE  Goal
  <2>1. Scripted(req'[r], made, opened)
    BY <1>1, <1>6 DEF Turns, Scripted
  <2> QED BY <1>4, <1>6, <2>1 DEF Turns
<1>7. ASSUME UNCHANGED req PROVE Goal
  BY <1>2, <1>3, <1>7 DEF Scripts, made, opened
<1> HIDE DEF Goal
<1>8. ASSUME NEW r \in Requests, BeginForgot(r) \/ BeginChange(r) \/ BeginLogin(r) \/ Reply(r)
                                 \/ Fail(r)
      PROVE  Goal
  BY <1>6, <1>8, Effects
<1>9. ASSUME NEW r \in Requests, NEW t \in 1..MaxTokens, BeginReset(r, t) PROVE Goal
  <2>1. t \in 1..made
    <3>1. t \in DOMAIN tokens
      BY <1>9 DEF BeginReset, TypeOK
    <3> QED BY <1>1, <3>1, LenProperties DEF Tables
  <2> QED BY <1>6, <1>9, <2>1, Effects
<1>10. ASSUME NEW r \in Requests, NEW s \in 1..MaxSessions, BeginRefresh(r, s) PROVE Goal
  <2>1. s \in 1..opened
    <3>1. s \in DOMAIN sessions
      BY <1>10 DEF BeginRefresh, TypeOK
    <3> QED BY <1>1, <3>1, LenProperties DEF Tables
  <2> QED BY <1>6, <1>10, <2>1, Effects
<1>11. ASSUME NEW r \in Requests,
              \/ BeginGarbage(r) \/ ForgotFind(r) \/ Mail(r) \/ ResetDenied(r)
              \/ ResetAccepted(r) \/ VerifyCurrent(r) \/ MarkUsed(r)
              \/ InvalidateAllForUser(r) \/ RevokeAll(r) \/ InsertSession(r)
              \/ RefreshReused(r) \/ RefreshDenied(r) \/ RefreshAccepted(r) \/ Link(r)
       PROVE  Goal
  BY <1>5, <1>11, Effects DEF At
<1>12. ASSUME NEW r \in Requests, CreateToken(r) PROVE Goal
  <2>1. At(r, "create") /\ Len(tokens) < MaxTokens
    BY <1>12, RoomFor DEF CreateToken
  <2>2. /\ Moves(r, "mail") /\ req'[r].token = Len(tokens) + 1 /\ made = Len(tokens) + 1
        /\ req'[r].tokensSeen = req[r].tokensSeen /\ req'[r].sessionsSeen = req[r].sessionsSeen
    BY <1>12, <2>1, Creating, TokenWrites DEF made
  <2>3. req[r].op = "forgot"
    BY <1>2, <2>1 DEF At, Scripted
  <2>4. Scripted(req'[r], made, opened)
    BY <1>1, <1>3, <2>2, <2>3 DEF Moves, Scripted, opened
  <2> QED BY <1>4, <2>2, <2>4 DEF Moves
<1>13. ASSUME NEW r \in Requests, SetPasswordByToken(r) \/ ChangePassword(r) PROVE Goal
  <2>1. \/ At(r, "store") /\ req[r].op = "reset" /\ Stores(r, "mark")
        \/ At(r, "store") /\ req[r].op = "change" /\ Stores(r, "purge")
    BY <1>13, Effects
  <2>2. Scripted(req'[r], made, opened)
    BY <1>1, <1>3, <2>1 DEF Stores, Moves, Scripted, At, opened
  <2> QED BY <1>4, <2>1, <2>2 DEF Stores, Moves
<1>14. ASSUME NEW t \in 1..MaxTokens, Expire(t) PROVE Goal
  BY <1>7, <1>14 DEF Expire
<1>15. ASSUME UNCHANGED vars PROVE Goal
  BY <1>7, <1>15 DEF vars
<1> QED BY <1>8, <1>9, <1>11, <1>12, <1>13, <1>14, <1>15, <1>10 DEF Next, Goal

(* One request moves: the count of the busy ones follows it.               *)
LEMMA BusyShift ==
  ASSUME NEW r \in Requests, \A q \in Requests \ {r} : req'[q] = req[q], NEW ops, NEW pcs
  PROVE  /\ Cardinality(Busy(ops, pcs)) \in Nat /\ Cardinality(Busy(ops, pcs))' \in Nat
         /\ Cardinality(Busy(ops, pcs))' <= Cardinality(Busy(ops, pcs)) + 1
         /\ (req'[r].op \in ops /\ req'[r].pc \in pcs => req[r].op \in ops /\ req[r].pc \in pcs)
              => Cardinality(Busy(ops, pcs))' <= Cardinality(Busy(ops, pcs))
         /\ /\ req[r].op \in ops /\ req[r].pc \in pcs
            /\ ~(req'[r].op \in ops /\ req'[r].pc \in pcs)
            => Cardinality(Busy(ops, pcs))' + 1 <= Cardinality(Busy(ops, pcs))
<1> DEFINE A == Busy(ops, pcs)
           B == Busy(ops, pcs)'
<1>1. /\ A \in SUBSET Requests /\ B \in SUBSET Requests /\ A \ {r} = B \ {r}
      /\ r \in A <=> req[r].op \in ops /\ req[r].pc \in pcs
      /\ r \in B <=> req'[r].op \in ops /\ req'[r].pc \in pcs
  BY DEF Busy
<1> HIDE DEF A, B
<1>2. Cardinality(B) + One(r, A) = Cardinality(A) + One(r, B)
  BY <1>1, PartMove, RequestsAssumption
<1>3. Cardinality(A) \in Nat /\ Cardinality(B) \in Nat
  BY <1>1, PartType, RequestsAssumption
<1> QED BY <1>1, <1>2, <1>3 DEF One, A, B

(* Who arrives is counted by the guards as long as it may still write.     *)
LEMMA BusyRuns ==
  ASSUME NEW ops, NEW pcs, "reply" \notin pcs
  PROVE  /\ Cardinality(Running(ops)) \in Nat
         /\ Cardinality(Busy(ops, pcs)) <= Cardinality(Running(ops))
<1>1. Running(ops) \in SUBSET Requests /\ Busy(ops, pcs) \in SUBSET Running(ops)
  BY DEF Running, Busy, At
<1>2. IsFiniteSet(Running(ops)) /\ Cardinality(Running(ops)) \in Nat
  BY <1>1, PartType, RequestsAssumption
<1> QED BY <1>1, <1>2, PartType

(* Only request r changes.                                                *)
Only(r) == \A q \in Requests \ {r} : req'[q] = req[q]

(* Where a request can join those that may still write, and leave them.    *)
LEMMA RoomsStep == IInv /\ Next => Rooms'
<1> SUFFICES ASSUME IInv, Next PROVE Rooms'
  OBVIOUS
<1>1. /\ TypeOK /\ Tables /\ Scripts /\ Rooms /\ TokensAge /\ SessionsEnd
      /\ Len(tokens) \in Nat /\ Len(sessions) \in Nat /\ password \in Nat
      /\ MaxTokens \in Nat /\ MaxSessions \in Nat /\ MaxPasswords \in Nat
  BY RowsStep, LenProperties, BoundsAssumption DEF IInv, TypeOK, Tables
<1>2. /\ Len(tokens) \in Nat /\ Len(sessions) \in Nat /\ password \in Nat
      /\ MaxTokens \in Nat /\ MaxSessions \in Nat /\ MaxPasswords \in Nat
  BY <1>1
<1> DEFINE making == Cardinality(Busy({"forgot"}, {"find", "create"}))
           storing == Cardinality(Busy({"reset", "change"}, {"find", "store"}))
           opening == Cardinality(Busy({"login", "refresh"}, {"find", "insert"}))
           makingAfter == Cardinality(Busy({"forgot"}, {"find", "create"}))'
           storingAfter == Cardinality(Busy({"reset", "change"}, {"find", "store"}))'
           openingAfter == Cardinality(Busy({"login", "refresh"}, {"find", "insert"}))'
           Goal == /\ Len(tokens') + makingAfter <= MaxTokens
                   /\ password' + storingAfter <= MaxPasswords
                   /\ Len(sessions') + openingAfter <= MaxSessions
<1>3. /\ Len(tokens) + making <= MaxTokens
      /\ password + storing <= MaxPasswords
      /\ Len(sessions) + opening <= MaxSessions
  BY <1>1 DEF Rooms
<1>4. Goal => Rooms'
  BY DEF Rooms
<1>5. ASSUME NEW r \in Requests, Only(r)
      PROVE  /\ makingAfter <= making + 1 /\ storingAfter <= storing + 1 /\ openingAfter <= opening + 1
             /\ (req'[r].op \in {"forgot"} /\ req'[r].pc \in {"find", "create"}
                  => req[r].op \in {"forgot"} /\ req[r].pc \in {"find", "create"})
                => makingAfter <= making
             /\ (req'[r].op \in {"reset", "change"} /\ req'[r].pc \in {"find", "store"}
                  => req[r].op \in {"reset", "change"} /\ req[r].pc \in {"find", "store"})
                => storingAfter <= storing
             /\ (req'[r].op \in {"login", "refresh"} /\ req'[r].pc \in {"find", "insert"}
                  => req[r].op \in {"login", "refresh"} /\ req[r].pc \in {"find", "insert"})
                => openingAfter <= opening
  BY <1>5, BusyShift DEF Only
<1>6. \A r \in Requests :
          /\ \A pc : Moves(r, pc) => Only(r) /\ req'[r].pc = pc /\ req'[r].op = req[r].op
          /\ \A op, pc, t : Turns(r, op, pc, t) => Only(r) /\ req'[r].pc = pc /\ req'[r].op = op
  BY DEF Moves, Turns, Only
<1>7. UNCHANGED req => makingAfter = making /\ storingAfter = storing /\ openingAfter = opening
  BY DEF Busy
<1>8. /\ making \in Nat /\ makingAfter \in Nat /\ storing \in Nat /\ storingAfter \in Nat
       /\ opening \in Nat /\ openingAfter \in Nat
  <2>1. ASSUME NEW ops, NEW pcs
        PROVE  Cardinality(Busy(ops, pcs)) \in Nat /\ Cardinality(Busy(ops, pcs))' \in Nat
    <3>1. Busy(ops, pcs) \in SUBSET Requests /\ Busy(ops, pcs)' \in SUBSET Requests
      BY DEF Busy
    <3> QED BY <3>1, PartType, RequestsAssumption
  <2> QED BY <2>1
<1> HIDE DEF making, storing, opening, makingAfter, storingAfter, openingAfter
<1>9. ASSUME NEW r \in Requests,
             \/ BeginForgot(r) \/ BeginChange(r) \/ BeginLogin(r)
             \/ \E t \in 1..MaxTokens : BeginReset(r, t)
             \/ \E s \in 1..MaxSessions : BeginRefresh(r, s)
      PROVE  Goal
  <2>1. UNCHANGED <<tokens, sessions, password>>
    BY <1>9 DEF BeginForgot, BeginChange, BeginLogin, BeginReset, BeginRefresh,
         Arrive, table
  <2>2. /\ making <= Cardinality(Running({"forgot"}))
        /\ storing <= Cardinality(Running({"reset", "change"}))
        /\ opening <= Cardinality(Running({"login", "refresh"}))
        /\ Cardinality(Running({"forgot"})) \in Nat
        /\ Cardinality(Running({"reset", "change"})) \in Nat
        /\ Cardinality(Running({"login", "refresh"})) \in Nat
    BY BusyRuns DEF making, storing, opening
  <2>3. CASE BeginForgot(r)
    <3>1. Turns(r, "forgot", "find", 0) /\ Len(tokens) + Cardinality(Running({"forgot"})) < MaxTokens
      BY <1>1, <2>3, Effects DEF BeginForgot
    <3>2. Only(r) /\ req'[r].pc = "find" /\ req'[r].op = "forgot"
      BY <1>6, <3>1
    <3>3. makingAfter <= making + 1 /\ storingAfter <= storing /\ openingAfter <= opening
      BY <1>5, <3>2
    <3> QED BY <1>2, <1>3, <1>8, <2>1, <2>2, <3>1, <3>2, <3>3
  <2>4. ASSUME NEW op \in {"reset", "change"}, NEW t, Turns(r, op, "find", t),
               password + Cardinality(Running({"reset", "change"})) < MaxPasswords
        PROVE  Goal
    <3>1. Only(r) /\ req'[r].pc = "find" /\ req'[r].op \in {"reset", "change"}
      BY <1>6, <2>4
    <3>2. makingAfter <= making /\ storingAfter <= storing + 1 /\ openingAfter <= opening
      BY <1>5, <3>1
    <3> QED BY <1>2, <1>3, <1>8, <2>1, <2>2, <2>4, <3>1, <3>2
  <2>5. CASE BeginChange(r)
    BY <1>1, <2>4, <2>5, Effects DEF BeginChange
  <2>6. ASSUME NEW t \in 1..MaxTokens, BeginReset(r, t) PROVE Goal
    BY <1>1, <2>4, <2>6, Effects DEF BeginReset
  <2>7. ASSUME NEW op \in {"login", "refresh"}, Turns(r, op, "find", 0), RoomForASession
        PROVE  Goal
    <3>1. Len(sessions) + Cardinality(Running({"login", "refresh"})) < MaxSessions
      BY <2>7 DEF RoomForASession
    <3>2. Only(r) /\ req'[r].pc = "find" /\ req'[r].op \in {"login", "refresh"}
      BY <1>6, <2>7
    <3>3. makingAfter <= making /\ storingAfter <= storing /\ openingAfter <= opening + 1
      BY <1>5, <3>2
    <3>4. Len(sessions) + openingAfter <= MaxSessions
      BY <1>2, <1>8, <2>2, <3>1, <3>3
    <3>5. Len(tokens) + makingAfter <= MaxTokens /\ password + storingAfter <= MaxPasswords
      BY <1>2, <1>3, <1>8, <3>3
    <3> QED BY <2>1, <3>4, <3>5
  <2>8. CASE BeginLogin(r)
    BY <1>1, <2>7, <2>8, Effects DEF BeginLogin
  <2>9. ASSUME NEW s \in 1..MaxSessions, BeginRefresh(r, s) PROVE Goal
    BY <1>1, <2>7, <2>9, Effects DEF BeginRefresh
  <2> QED BY <1>9, <2>3, <2>5, <2>6, <2>8, <2>9
<1>10. ASSUME NEW r \in Requests, CreateToken(r) PROVE Goal
  <2>1. /\ At(r, "create") /\ req[r].op = "forgot" /\ Moves(r, "mail")
        /\ Len(tokens') = Len(tokens) + 1 /\ UNCHANGED <<sessions, password>>
    <3>1. At(r, "create") /\ Len(tokens) < MaxTokens
      BY <1>1, <1>10, RoomFor DEF CreateToken
    <3> QED BY <1>1, <1>10, <3>1, Creating, TokenWrites DEF CreateToken, Scripts, Scripted, At
  <2>2. makingAfter + 1 <= making
    BY <2>1, BusyShift DEF making, makingAfter, Moves, At
  <2>3. Only(r) /\ storingAfter <= storing /\ openingAfter <= opening
    <3>1. Only(r) /\ req'[r].op = req[r].op /\ req'[r].pc \notin {"find", "create", "store", "insert"}
      BY <1>6, <2>1
    <3> QED BY <1>5, <3>1
  <2> QED BY <1>2, <1>3, <1>8, <2>1, <2>2, <2>3
<1>11. ASSUME NEW r \in Requests, SetPasswordByToken(r) \/ ChangePassword(r) PROVE Goal
  <2>1. /\ At(r, "store") /\ req[r].op \in {"reset", "change"}
        /\ Moves(r, "mark") \/ Moves(r, "purge")
        /\ password' = password + 1 /\ UNCHANGED <<tokens, sessions>>
    BY <1>1, <1>11, Effects DEF Stores, SetPasswordByToken, ChangePassword, StoreThen
  <2>2. storingAfter + 1 <= storing
    BY <2>1, BusyShift DEF storing, storingAfter, Moves, At
  <2>3. Only(r) /\ makingAfter <= making /\ openingAfter <= opening
    <3>1. Only(r) /\ req'[r].op = req[r].op /\ req'[r].pc \notin {"find", "create", "store", "insert"}
      BY <1>6, <2>1
    <3> QED BY <1>5, <3>1
  <2> QED BY <1>2, <1>3, <1>8, <2>1, <2>2, <2>3
<1>12. ASSUME NEW r \in Requests, InsertSession(r) PROVE Goal
  <2>1. /\ At(r, "insert") /\ req[r].op \in {"login", "refresh"}
        /\ Moves(r, "reply") \/ Moves(r, "link")
        /\ Len(sessions') = Len(sessions) + 1 /\ UNCHANGED <<tokens, password>>
    BY <1>1, <1>12, Effects, SessionWrites DEF InsertSession
  <2>2. openingAfter + 1 <= opening
    BY <2>1, BusyShift DEF opening, openingAfter, Moves, At
  <2>3. Only(r) /\ makingAfter <= making /\ storingAfter <= storing
    <3>1. Only(r) /\ req'[r].op = req[r].op /\ req'[r].pc \notin {"find", "create", "store", "insert"}
      BY <1>6, <2>1
    <3> QED BY <1>5, <3>1
  <2> QED BY <1>2, <1>3, <1>8, <2>1, <2>2, <2>3
<1>13. ASSUME NEW r \in Requests, NEW pc, Moves(r, pc),
              Len(tokens') = Len(tokens), Len(sessions') = Len(sessions), password' = password,
              pc = "create" => req[r].pc = "find" /\ req[r].op = "forgot",
              pc = "store" => req[r].pc = "find" /\ req[r].op \in {"reset", "change"},
              pc = "insert" => req[r].pc = "find" /\ req[r].op \in {"login", "refresh"},
              pc # "find"
       PROVE  Goal
  <2>1. Only(r) /\ req'[r].pc = pc /\ req'[r].op = req[r].op
    BY <1>6, <1>13
  <2>2. makingAfter <= making /\ storingAfter <= storing /\ openingAfter <= opening
    BY <1>5, <1>13, <2>1
  <2> QED BY <1>2, <1>3, <1>8, <1>13, <2>1, <2>2
<1>14. ASSUME NEW r \in Requests, Reply(r) \/ Fail(r) PROVE Goal
  <2>1. Turns(r, "none", "idle", 0) /\ UNCHANGED <<tokens, sessions, password>>
    BY <1>1, <1>14, Effects DEF Reply, Fail, table
  <2>2. Only(r) /\ req'[r].pc = "idle"
    BY <1>6, <2>1
  <2>3. makingAfter <= making /\ storingAfter <= storing /\ openingAfter <= opening
    BY <1>5, <2>2
  <2> QED BY <1>2, <1>3, <1>8, <2>1, <2>2, <2>3
<1>15. ASSUME NEW t \in 1..MaxTokens, Expire(t) PROVE Goal
  <2>1. UNCHANGED <<req, sessions, password>> /\ Len(tokens') = Len(tokens)
    <3>1. t \in 1..Len(tokens) /\ tokens' = [tokens EXCEPT ![t] = "expired"]
      BY <1>1, <1>15, LenProperties DEF Expire, Tables
    <3>2. Len(tokens') = Len(tokens)
      BY <1>1, <3>1, ExceptSeq DEF Tables, TokenStates
    <3> QED BY <1>15, <3>2 DEF Expire
  <2> QED BY <1>3, <1>7, <2>1
<1> HIDE DEF Goal
<1>16. ASSUME NEW r \in Requests,
              \/ BeginGarbage(r) \/ ForgotFind(r) \/ Mail(r) \/ ResetDenied(r)
              \/ ResetAccepted(r) \/ VerifyCurrent(r) \/ MarkUsed(r)
              \/ InvalidateAllForUser(r) \/ RevokeAll(r)
              \/ RefreshReused(r) \/ RefreshDenied(r) \/ RefreshAccepted(r) \/ Link(r)
       PROVE  Goal
  <2>1. Len(tokens') = Len(tokens)
    BY <1>1, <1>16, TokenWrites DEF BeginGarbage, ForgotFind, Mail, ResetDenied, ResetAccepted,
         ReadToken, VerifyCurrent, RevokeAll, RefreshReused, RefreshDenied, RefreshAccepted,
         Link, table
  <2>2. Len(sessions') = Len(sessions) /\ password' = password
    BY <1>1, <1>16, SessionWrites DEF BeginGarbage, ForgotFind, Mail, ResetDenied, ResetAccepted,
         ReadToken, VerifyCurrent, MarkUsed, MarkAs, InvalidateAllForUser, InvalidateAll,
         RevokeAll, RefreshReused, RefreshDenied, RefreshAccepted, Link, table
  <2> QED BY <1>1, <1>13, <1>16, <2>1, <2>2, Effects DEF At
<1>17. Goal
  BY <1>9, <1>10, <1>11, <1>12, <1>14, <1>15, <1>16 DEF Next
<1> QED BY <1>4, <1>17

(* One request moves: the count of those that hold a token follows it.     *)
LEMMA HoldingShift ==
  ASSUME NEW r \in Requests, Only(r), NEW t, NEW pc
  PROVE  LET A == Cardinality(Holding(t, pc))
             B == Cardinality(Holding(t, pc))'
             held == req[r].op = "reset" /\ req[r].token = t /\ req[r].pc = pc
             holds == req'[r].op = "reset" /\ req'[r].token = t /\ req'[r].pc = pc
         IN /\ B <= A + 1
            /\ (holds => held) => B <= A
            /\ (held => holds) => A <= B
            /\ held /\ ~holds => B + 1 <= A
            /\ holds /\ ~held => A + 1 <= B
<1> DEFINE C == Holding(t, pc)
           D == Holding(t, pc)'
<1>1. /\ C \in SUBSET Requests /\ D \in SUBSET Requests /\ C \ {r} = D \ {r}
      /\ r \in C <=> req[r].op = "reset" /\ req[r].token = t /\ req[r].pc = pc
      /\ r \in D <=> req'[r].op = "reset" /\ req'[r].token = t /\ req'[r].pc = pc
  BY DEF Holding, Only
<1> HIDE DEF C, D
<1>2. /\ Cardinality(D) <= Cardinality(C) + 1
      /\ (r \in D => r \in C) => Cardinality(D) <= Cardinality(C)
      /\ (r \in C => r \in D) => Cardinality(C) <= Cardinality(D)
      /\ r \in C /\ r \notin D => Cardinality(D) + 1 <= Cardinality(C)
      /\ r \in D /\ r \notin C => Cardinality(C) + 1 <= Cardinality(D)
  BY <1>1, PartShift, RequestsAssumption
<1> QED BY <1>1, <1>2 DEF C, D

(* A token's spends stay within what its readers and the losses allow.     *)
LEMMA SpentStep == IInv /\ Next => Spent'
<1> SUFFICES ASSUME IInv, Next, NEW t \in 1..MaxTokens
             PROVE  /\ spends'[t] <= password'
                    /\ t > Len(tokens') => spends'[t] = 0
                    /\ t <= Len(tokens') /\ tokens'[t] = "live" =>
                         spends'[t] <= Cardinality(Holding(t, "mark"))' + lost'
                    /\ spends'[t] + Cardinality(Holding(t, "store"))'
                         <= Cardinality(Requests) + lost'
  BY DEF Spent
<1>1. /\ TypeOK /\ Tables /\ Scripts /\ Rooms /\ TokensAge
      /\ Len(tokens) \in Nat /\ Len(tokens') \in Nat /\ Len(tokens) <= Len(tokens')
      /\ password \in Nat /\ spends[t] \in Nat /\ lost \in Nat
  BY RowsStep, LenProperties, BoundsAssumption DEF IInv, TypeOK, Tables, TokensAge
<1> DEFINE marks == Cardinality(Holding(t, "mark"))
           stores == Cardinality(Holding(t, "store"))
           marksAfter == Cardinality(Holding(t, "mark"))'
           storesAfter == Cardinality(Holding(t, "store"))'
           all == Cardinality(Requests)
           Live == t \in 1..Len(tokens) /\ tokens[t] = "live"
           LiveAfter == t \in 1..Len(tokens') /\ tokens'[t] = "live"
           Goal == /\ spends'[t] <= password'
                   /\ t > Len(tokens') => spends'[t] = 0
                   /\ LiveAfter => spends'[t] <= marksAfter + lost'
                   /\ spends'[t] + storesAfter <= all + lost'
<1>2. /\ marks \in Nat /\ stores \in Nat /\ marksAfter \in Nat /\ storesAfter \in Nat
      /\ all \in Nat /\ marksAfter + storesAfter <= all
  <2>1. /\ Holding(t, "mark") \in SUBSET Requests /\ Holding(t, "store") \in SUBSET Requests
        /\ Holding(t, "mark")' \in SUBSET Requests /\ Holding(t, "store")' \in SUBSET Requests
        /\ Holding(t, "mark")' \cap Holding(t, "store")' = {}
    BY DEF Holding
  <2> QED BY <2>1, PartType, PartsApart, RequestsAssumption
<1>3. /\ spends[t] <= password
      /\ t > Len(tokens) => spends[t] = 0
      /\ Live => spends[t] <= marks + lost
      /\ spends[t] + stores <= all + lost
  BY <1>1 DEF IInv, Spent
<1>4. Live \/ ~LiveAfter \/ spends[t] = 0
  BY <1>1, <1>3 DEF TokensAge
<1>5. ASSUME NEW r \in Requests, Only(r)
      PROVE  LET marked == req[r].op = "reset" /\ req[r].token = t /\ req[r].pc = "mark"
                 markAfter == req'[r].op = "reset" /\ req'[r].token = t /\ req'[r].pc = "mark"
                 stored == req[r].op = "reset" /\ req[r].token = t /\ req[r].pc = "store"
                 storeAfter == req'[r].op = "reset" /\ req'[r].token = t /\ req'[r].pc = "store"
             IN /\ marks <= marksAfter + 1
                /\ (marked => markAfter) => marks <= marksAfter
                /\ (markAfter => marked) => marksAfter <= marks
                /\ markAfter /\ ~marked => marks + 1 <= marksAfter
                /\ (storeAfter => stored) => storesAfter <= stores
                /\ stored /\ ~storeAfter => storesAfter + 1 <= stores
  <2>1. marks <= marksAfter + 1
    <3>1. /\ Holding(t, "mark") \in SUBSET Requests /\ Holding(t, "mark")' \in SUBSET Requests
          /\ Holding(t, "mark") \ {r} = Holding(t, "mark")' \ {r}
      BY <1>5 DEF Holding, Only
    <3> QED BY <3>1, PartShift, RequestsAssumption
  <2> QED BY <1>5, <2>1, HoldingShift
<1>6. \A r \in Requests :
        /\ \A pc : Moves(r, pc) => Only(r) /\ req'[r].pc = pc /\ req'[r].op = req[r].op
        /\ \A op, pc, u : Turns(r, op, pc, u) => Only(r) /\ req'[r].pc = pc /\ req'[r].op = op
  BY DEF Moves, Turns, Only
<1>7. UNCHANGED req => marksAfter = marks /\ storesAfter = stores
  BY DEF Holding
<1> HIDE DEF marks, stores, marksAfter, storesAfter, all
<1>8. Goal => /\ spends'[t] <= password'
              /\ t > Len(tokens') => spends'[t] = 0
              /\ t <= Len(tokens') /\ tokens'[t] = "live" =>
                   spends'[t] <= Cardinality(Holding(t, "mark"))' + lost'
              /\ spends'[t] + Cardinality(Holding(t, "store"))' <= Cardinality(Requests) + lost'
  BY <1>1 DEF marks, stores, marksAfter, storesAfter, all
<1> HIDE DEF Live, LiveAfter
<1>9. ASSUME spends' = spends, password' \in Nat, password <= password',
             storesAfter <= stores,
             \/ lost' = lost /\ marks <= marksAfter
             \/ lost' = lost + 1 /\ marks <= marksAfter + 1
             \/ lost' = lost /\ ~LiveAfter
      PROVE  Goal
  <2>1. spends'[t] = spends[t] /\ spends'[t] <= password'
    BY <1>1, <1>3, <1>9
  <2>2. t > Len(tokens') => spends'[t] = 0
    BY <1>1, <1>3, <2>1
  <2>3. LiveAfter => spends'[t] <= marksAfter + lost'
    BY <1>1, <1>2, <1>3, <1>4, <1>9, <2>1
  <2>4. spends'[t] + storesAfter <= all + lost'
    BY <1>1, <1>2, <1>3, <1>9, <2>1
  <2> QED BY <2>1, <2>2, <2>3, <2>4
<1>10. ASSUME NEW r \in Requests, SetPasswordByToken(r) PROVE Goal
  <2>1. /\ req[r].op = "reset" /\ req[r].pc = "store" /\ Only(r)
        /\ req'[r].pc = "mark" /\ req'[r].op = "reset" /\ req'[r].token = req[r].token
        /\ password' = password + 1 /\ UNCHANGED <<tokens, lost>>
        /\ spends' = [spends EXCEPT ![req[r].token] = @ + 1]
    BY <1>1, <1>6, <1>10, Effects DEF Stores, At, SetPasswordByToken, StoreThen
  <2>2. CASE t = req[r].token
    <3>1. marks + 1 <= marksAfter /\ storesAfter + 1 <= stores
      BY <1>5, <2>1, <2>2
    <3>2. spends'[t] = spends[t] + 1
      BY <1>1, <2>1, <2>2 DEF TypeOK
    <3>3. t <= Len(tokens')
      BY <1>1, <2>1, <2>2 DEF Scripts, Scripted
    <3>4. LiveAfter => Live
      BY <2>1 DEF Live, LiveAfter
    <3> QED BY <1>1, <1>2, <1>3, <2>1, <3>1, <3>2, <3>3, <3>4 DEF Goal
  <2>3. CASE t # req[r].token
    <3>1. marks <= marksAfter /\ storesAfter <= stores
      BY <1>5, <2>1, <2>3
    <3>2. spends'[t] = spends[t]
      BY <1>1, <2>1, <2>3 DEF TypeOK
    <3>3. LiveAfter => Live
      BY <2>1 DEF Live, LiveAfter
    <3> QED BY <1>1, <1>2, <1>3, <2>1, <3>1, <3>2, <3>3 DEF Goal
  <2> QED BY <2>2, <2>3
<1>11. ASSUME NEW r \in Requests, ResetAccepted(r) PROVE Goal
  <2>1. /\ req[r].op = "reset" /\ req[r].pc = "find" /\ Only(r)
        /\ req'[r].pc = "store" /\ req'[r].token = req[r].token
        /\ tokens[req[r].token] = "live" /\ UNCHANGED <<tokens, spends, lost, password>>
    BY <1>1, <1>6, <1>11, Effects DEF Carries, At, ResetAccepted, ReadToken, table, history
  <2>2. marks <= marksAfter
    BY <1>5, <2>1
  <2>3. CASE t = req[r].token
    <3>1. Live
      BY <1>1, <2>1, <2>3 DEF Live, Scripts, Scripted
    <3>2. spends'[t] <= marksAfter + lost'
      BY <1>1, <1>2, <1>3, <2>1, <2>2, <3>1
    <3> QED BY <1>1, <1>2, <1>3, <2>1, <3>2 DEF Goal
  <2>4. CASE t # req[r].token
    <3>1. storesAfter <= stores
      BY <1>5, <2>1, <2>4
    <3> QED BY <1>1, <1>9, <2>1, <2>2, <3>1
  <2> QED BY <2>3, <2>4
<1>12. ASSUME NEW r \in Requests, MarkUsed(r) PROVE Goal
  <2>1. /\ req[r].pc = "mark" /\ Only(r) /\ req'[r].pc = "invalidate"
        /\ req[r].token \in 1..Len(tokens) /\ tokens'[req[r].token] = "used"
        /\ UNCHANGED <<spends, lost, password>>
    BY <1>1, <1>6, <1>12, Effects, TokenWrites DEF At, MarkUsed, MarkAs, history
  <2>2. storesAfter <= stores
    BY <1>5, <2>1
  <2>3. CASE t = req[r].token
    <3>1. ~LiveAfter
      BY <2>1, <2>3 DEF LiveAfter
    <3> QED BY <1>1, <1>9, <2>1, <2>2, <3>1
  <2>4. CASE t # req[r].token
    <3>1. marks <= marksAfter
      BY <1>5, <2>1, <2>4
    <3> QED BY <1>1, <1>9, <2>1, <2>2, <3>1
  <2> QED BY <2>3, <2>4
<1>13. ASSUME NEW r \in Requests, Fail(r) PROVE Goal
  <2>1. /\ Only(r) /\ req'[r].pc = "idle" /\ UNCHANGED <<spends, password>>
        /\ \/ req[r].pc = "mark" /\ lost' = lost + 1
           \/ req[r].pc # "mark" /\ lost' = lost
    BY <1>1, <1>6, <1>13, Effects DEF At, Fail, table
  <2>2. /\ storesAfter <= stores /\ marks <= marksAfter + 1
        /\ req[r].pc # "mark" => marks <= marksAfter
    BY <1>5, <2>1
  <2> QED BY <1>1, <1>9, <2>1, <2>2
<1>14. ASSUME NEW u \in 1..MaxTokens, Expire(u) PROVE Goal
  <2>1. UNCHANGED <<req, spends, lost, password>>
    BY <1>14 DEF Expire, history
  <2> QED BY <1>1, <1>2, <1>7, <1>9, <2>1
<1>15. ASSUME NEW r \in Requests, Only(r), UNCHANGED <<spends, lost>>, password' \in Nat,
              password <= password',
              req[r].pc \notin {"store", "mark"}, req'[r].pc \notin {"store", "mark"}
       PROVE  Goal
  <2>1. marks <= marksAfter /\ storesAfter <= stores
    BY <1>5, <1>15
  <2> QED BY <1>1, <1>9, <1>15, <2>1
<1> HIDE DEF Goal
<1>16. ASSUME NEW r \in Requests,
              \/ BeginForgot(r) \/ BeginChange(r) \/ BeginLogin(r) \/ BeginGarbage(r)
              \/ \E u \in 1..MaxTokens : BeginReset(r, u)
              \/ \E s \in 1..MaxSessions : BeginRefresh(r, s)
              \/ ForgotFind(r) \/ CreateToken(r) \/ Mail(r) \/ ResetDenied(r)
              \/ InvalidateAllForUser(r) \/ RevokeAll(r) \/ RefreshReused(r)
              \/ RefreshDenied(r) \/ RefreshAccepted(r) \/ InsertSession(r) \/ Link(r)
              \/ Reply(r)
       PROVE  Goal
  <2>1. UNCHANGED <<spends, lost, password>>
    BY <1>16 DEF BeginForgot, BeginChange, BeginLogin, BeginGarbage, BeginReset,
         BeginRefresh, Arrive,
         ForgotFind, CreateToken, Mail, ResetDenied, InvalidateAllForUser, InvalidateAll,
         RevokeAll, RefreshReused, RefreshDenied, RefreshAccepted, InsertSession, Link, Reply,
         table, history
  <2>2. /\ Only(r) /\ req[r].pc \notin {"store", "mark"}
        /\ req'[r].pc \notin {"store", "mark"}
    <3>1. CreateToken(r) => At(r, "create") /\ Moves(r, "mail")
      BY <1>1, RoomFor, Creating DEF CreateToken
    <3> QED BY <1>1, <1>6, <1>16, <3>1, Effects DEF At
  <2> QED BY <1>1, <1>15, <2>1, <2>2
<1>17. ASSUME NEW r \in Requests, VerifyCurrent(r) PROVE Goal
  <2>1. /\ Only(r) /\ req[r].pc = "find" /\ req[r].op \in {"change", "login"}
        /\ req'[r].op = req[r].op /\ UNCHANGED <<spends, lost, password>>
    BY <1>1, <1>6, <1>17, Effects DEF At, VerifyCurrent, table, history
  <2>2. marks <= marksAfter /\ storesAfter <= stores
    BY <1>5, <2>1
  <2> QED BY <1>1, <1>9, <2>1, <2>2
<1>18. ASSUME NEW r \in Requests, ChangePassword(r) PROVE Goal
  <2>1. /\ Only(r) /\ req[r].op = "change" /\ req'[r].op = req[r].op
        /\ UNCHANGED <<spends, lost>> /\ password' = password + 1
    BY <1>1, <1>6, <1>18, Effects DEF Stores, ChangePassword, StoreThen
  <2>2. marks <= marksAfter /\ storesAfter <= stores
    BY <1>5, <2>1
  <2> QED BY <1>1, <1>9, <2>1, <2>2
<1>19. Goal
  BY <1>10, <1>11, <1>12, <1>13, <1>14, <1>16, <1>17, <1>18 DEF IInv, Next
<1> QED BY <1>8, <1>19

(* What a request has swept stays swept.                                   *)
LEMMA SweptStep == IInv /\ Next => Swept'
<1> SUFFICES ASSUME IInv, Next PROVE Swept'
  OBVIOUS
<1> DEFINE Clean(q, toks, sess) ==
             /\ q.op = "reset" /\ q.status = "ok" /\ q.pc \in {"purge", "reply"} =>
                  \A t \in 1..q.tokensSeen : toks[t] = "used"
             /\ q.status = "ok" /\ q.pc = "reply" =>
                  \A s \in 1..q.sessionsSeen : ~sess[s].live
<1>1. /\ TypeOK /\ Tables /\ Scripts /\ Rooms /\ TokensAge /\ SessionsEnd
      /\ Len(tokens) \in Nat /\ Len(sessions) \in Nat
      /\ req' \in [Requests -> RequestType] /\ Scripts'
  BY RowsStep, RequestStep, LenProperties DEF IInv, Tables
<1>2. \A q \in Requests : /\ Clean(req[q], tokens, sessions)
                          /\ req[q].tokensSeen \in Nat /\ req[q].sessionsSeen \in Nat
                          /\ req[q].tokensSeen <= Len(tokens)
                          /\ req[q].sessionsSeen <= Len(sessions)
  <2>1. ASSUME NEW q \in Requests PROVE Clean(req[q], tokens, sessions)
    BY DEF IInv, Swept
  <2>2. ASSUME NEW q \in Requests
        PROVE  /\ req[q].tokensSeen \in Nat /\ req[q].sessionsSeen \in Nat
               /\ req[q].tokensSeen <= Len(tokens) /\ req[q].sessionsSeen <= Len(sessions)
    <3>1. req[q] \in RequestType /\ Scripted(req[q], Len(tokens), Len(sessions))
      BY <1>1 DEF TypeOK, Scripts
    <3> QED BY <3>1, BoundsAssumption DEF RequestType, Scripted
  <2> QED BY <2>1, <2>2
<1>3. ASSUME NEW q \in Requests PROVE Clean(req[q], tokens', sessions')
  <2>1. /\ 1..req[q].tokensSeen \subseteq 1..Len(tokens)
        /\ 1..req[q].sessionsSeen \subseteq 1..Len(sessions)
    BY <1>1, <1>2
  <2>2. /\ \A t \in 1..req[q].tokensSeen : tokens[t] = "used" => tokens'[t] = "used"
        /\ \A s \in 1..req[q].sessionsSeen : ~sessions[s].live => ~sessions'[s].live
    BY <1>1, <2>1 DEF TokensAge, SessionsEnd
  <2> QED BY <1>2, <2>2
<1>4. ASSUME NEW r \in Requests, \A q \in Requests \ {r} : req'[q] = req[q],
             Clean(req'[r], tokens', sessions')
      PROVE  Swept'
  BY <1>3, <1>4 DEF Swept
<1>5. ASSUME NEW r \in Requests, \A q \in Requests \ {r} : req'[q] = req[q],
             \/ req'[r].pc \notin {"purge", "reply"}
             \/ req'[r].pc = "purge" /\ req'[r].op # "reset"
             \/ req'[r].status # "ok"
             \/ req'[r].op \notin {"reset", "change"}
      PROVE  Swept'
  <2>1. /\ req'[r].op \notin {"reset", "change"} => req'[r].sessionsSeen = 0
    BY <1>1 DEF Scripts, Scripted
  <2>2. Clean(req'[r], tokens', sessions')
    BY <1>5, <2>1
  <2> QED BY <1>4, <1>5, <2>2
<1>6. ASSUME UNCHANGED req PROVE Swept'
  BY <1>3, <1>6 DEF Swept
<1>7. ASSUME NEW r \in Requests, InvalidateAllForUser(r) PROVE Swept'
  <2>1. /\ Moves(r, "purge") /\ Carries(r)
        /\ \A t \in 1..Len(tokens) : tokens'[t] = "used"
    BY <1>1, <1>7, Effects, TokenWrites
  <2>2. Clean(req'[r], tokens', sessions')
    BY <1>1, <1>2, <2>1 DEF Moves, Carries
  <2> QED BY <1>4, <2>1, <2>2 DEF Moves
<1>8. ASSUME NEW r \in Requests, RevokeAll(r) PROVE Swept'
  <2>1. /\ At(r, "purge") /\ Moves(r, "reply") /\ Carries(r) /\ req'[r].status = req[r].status
        /\ \A s \in 1..Len(sessions) : ~sessions'[s].live
    BY <1>1, <1>8, Effects, SessionWrites
  <2>2. Clean(req'[r], tokens', sessions')
    BY <1>1, <1>2, <1>3, <2>1 DEF Moves, Carries, At
  <2> QED BY <1>4, <2>1, <2>2 DEF Moves
<1> HIDE DEF Clean
<1>9. ASSUME NEW r \in Requests,
             \/ BeginForgot(r) \/ BeginChange(r) \/ BeginLogin(r)
             \/ \E t \in 1..MaxTokens : BeginReset(r, t)
             \/ \E s \in 1..MaxSessions : BeginRefresh(r, s)
             \/ Reply(r) \/ Fail(r)
      PROVE  Swept'
  <2>1. \E op \in Ops, pc \in {"idle", "find"}, t \in 0..MaxTokens : Turns(r, op, pc, t)
    <3>1. 0 \in 0..MaxTokens /\ 1..MaxTokens \in SUBSET (0..MaxTokens)
      BY BoundsAssumption
    <3>2. {"none", "forgot", "reset", "change", "login", "refresh"} = Ops
      BY DEF Ops
    <3> QED BY <1>1, <1>9, <3>1, <3>2, Effects
  <2> QED BY <1>5, <2>1 DEF Turns
<1>10. ASSUME NEW r \in Requests,
              \/ BeginGarbage(r) \/ ForgotFind(r) \/ CreateToken(r) \/ Mail(r)
              \/ ResetDenied(r) \/ ResetAccepted(r) \/ VerifyCurrent(r)
              \/ SetPasswordByToken(r) \/ ChangePassword(r) \/ MarkUsed(r)
              \/ RefreshReused(r) \/ RefreshDenied(r) \/ RefreshAccepted(r)
              \/ InsertSession(r) \/ Link(r)
       PROVE  Swept'
  <2>1. CreateToken(r) => Moves(r, "mail")
    BY <1>1, RoomFor, Creating DEF CreateToken
  <2>2. Mail(r) => req[r].op = "forgot"
    BY <1>1 DEF Mail, At, Scripts, Scripted
  <2>3. /\ \A q \in Requests \ {r} : req'[q] = req[q]
        /\ \/ req'[r].pc \notin {"purge", "reply"}
           \/ req'[r].pc = "purge" /\ req'[r].op # "reset"
           \/ req'[r].status # "ok"
           \/ req'[r].op \notin {"reset", "change"}
    BY <1>1, <1>10, <2>1, <2>2, Effects DEF Moves, Stores
  <2> QED BY <1>5, <2>3
<1>11. ASSUME NEW t \in 1..MaxTokens, Expire(t) PROVE Swept'
  BY <1>6, <1>11 DEF Expire
<1> QED BY <1>7, <1>8, <1>9, <1>10, <1>11 DEF Next

(* Who was overtaken is still about to insert.                             *)
LEMMA OvertakenStep == IInv /\ Next => overtaken' \subseteq Inserting'
<1> SUFFICES ASSUME IInv, Next, NEW q \in overtaken'
             PROVE  q \in Requests /\ req'[q].pc = "insert"
  BY DEF Inserting, At
<1>1. /\ TypeOK /\ Tables /\ Scripts /\ Rooms
      /\ \A p \in overtaken : p \in Requests /\ req[p].pc = "insert"
      /\ \A p \in Inserting : p \in Requests /\ req[p].pc = "insert"
  BY DEF IInv, TypeOK, Inserting, At
<1>2. \A r \in Requests :
        /\ \A pc : Moves(r, pc) => Only(r) /\ req'[r].pc = pc
        /\ \A op, pc, t : Turns(r, op, pc, t) => Only(r) /\ req'[r].pc = pc
  BY DEF Moves, Turns, Only
<1> DEFINE Goal == q \in Requests /\ req'[q].pc = "insert"
<1>3. ASSUME NEW r \in Requests, Only(r), overtaken' \subseteq overtaken \cup Inserting,
             r \notin overtaken' \/ req'[r].pc = "insert"
      PROVE  Goal
  BY <1>1, <1>3 DEF Only
<1>4. ASSUME NEW r \in Requests, RevokeAll(r) PROVE Goal
  <2>1. Only(r) /\ req[r].pc # "insert" /\ overtaken' \subseteq overtaken \cup Inserting
    BY <1>1, <1>2, <1>4, Effects DEF RevokeAll, At
  <2> QED BY <1>1, <1>3, <2>1
<1>5. ASSUME NEW r \in Requests, Fail(r) PROVE Goal
  <2>1. Only(r)
    BY <1>1, <1>2, <1>5, Effects
  <2>2. (overtaken' = Inserting /\ r \in Replacing) \/ overtaken' = overtaken \ {r}
    BY <1>5 DEF Fail
  <2>3. r \in Replacing => r \notin Inserting
    BY DEF Replacing, Inserting, At
  <2> QED BY <1>3, <2>1, <2>2, <2>3
<1>6. ASSUME NEW r \in Requests, InsertSession(r) PROVE Goal
  <2>1. Only(r) /\ overtaken' = overtaken \ {r}
    BY <1>1, <1>2, <1>6, Effects DEF InsertSession
  <2> QED BY <1>3, <2>1
<1>7. ASSUME NEW r \in Requests, UNCHANGED overtaken, Only(r), req[r].pc # "insert"
      PROVE  Goal
  BY <1>1, <1>3, <1>7
<1>8. ASSUME NEW t \in 1..MaxTokens, Expire(t) PROVE Goal
  BY <1>1, <1>8 DEF Expire, history, sweeps
<1> HIDE DEF Goal
<1>9. ASSUME NEW r \in Requests,
             \/ BeginForgot(r) \/ BeginChange(r) \/ BeginLogin(r) \/ BeginGarbage(r)
             \/ \E t \in 1..MaxTokens : BeginReset(r, t)
             \/ \E s \in 1..MaxSessions : BeginRefresh(r, s)
             \/ ForgotFind(r) \/ CreateToken(r) \/ Mail(r) \/ ResetDenied(r)
             \/ ResetAccepted(r) \/ VerifyCurrent(r) \/ SetPasswordByToken(r)
             \/ ChangePassword(r) \/ MarkUsed(r) \/ InvalidateAllForUser(r)
             \/ RefreshReused(r) \/ RefreshDenied(r) \/ RefreshAccepted(r)
             \/ Link(r) \/ Reply(r)
      PROVE  Goal
  <2>1. UNCHANGED overtaken
    BY <1>9 DEF BeginForgot, BeginChange, BeginLogin, BeginGarbage, BeginReset, BeginRefresh,
       Arrive, ForgotFind, CreateToken, Mail, ResetDenied, ResetAccepted, ReadToken,
       VerifyCurrent, SetPasswordByToken, ChangePassword, StoreThen, MarkUsed, MarkAs,
       InvalidateAllForUser, InvalidateAll, RefreshReused, RefreshDenied, RefreshAccepted,
       Link, Reply, history, sweeps
  <2>2. Only(r) /\ req[r].pc # "insert"
    <3>1. CreateToken(r) => At(r, "create") /\ Moves(r, "mail")
      BY <1>1, RoomFor, Creating DEF CreateToken
    <3> QED BY <1>1, <1>2, <1>9, <3>1, Effects DEF At, Stores
  <2> QED BY <1>7, <2>1, <2>2
<1>10. Goal
  BY <1>4, <1>5, <1>6, <1>8, <1>9 DEF Next
<1> QED BY <1>10 DEF Goal

(* Where nothing is written to a session, nothing is taken off the books   *)
(* and no sweep is lost, the books stand as they did.                      *)
Quiet(r) ==
  /\ Only(r) /\ UNCHANGED password
  /\ overtaken \ {r} \subseteq overtaken' /\ excused \subseteq excused'
  /\ r \in Replacing => r \in Replacing'

LEMMA QuietStep ==
  ASSUME IInv, NEW r \in Requests, Quiet(r)
  PROVE  /\ Replacing # {} => Replacing' # {}
         /\ \A s \in 1..Len(sessions) : sessions[s].live /\ sessions[s].era < password =>
              s \in excused' \/ Replacing' # {}
         /\ \A q \in Requests \ {r} : req'[q].pc = "insert" /\ req'[q].era < password' =>
              q \in overtaken' \/ req'[q].session \in excused' \/ Replacing' # {}
<1>1. Replacing # {} => Replacing' # {}
  <2> SUFFICES ASSUME NEW q \in Replacing PROVE q \in Replacing'
    OBVIOUS
  <2>1. CASE q = r
    BY <2>1 DEF Quiet
  <2>2. CASE q # r
    BY <2>2 DEF Quiet, Only, Replacing
  <2> QED BY <2>1, <2>2
<1>2. \A s \in 1..Len(sessions) : sessions[s].live /\ sessions[s].era < password =>
        s \in excused \/ Replacing # {}
  BY LenProperties DEF IInv, OldSessionsEnd, Tables
<1>3. ASSUME NEW q \in Requests \ {r}, req'[q].pc = "insert", req'[q].era < password'
      PROVE  q \in overtaken' \/ req'[q].session \in excused' \/ Replacing' # {}
  <2>1. req'[q] = req[q] /\ password' = password
    BY DEF Quiet, Only
  <2>2. q \in overtaken \/ req[q].session \in excused \/ Replacing # {}
    BY <1>3, <2>1 DEF IInv, LateInserts
  <2> QED BY <1>1, <2>1, <2>2 DEF Quiet
<1>4. excused \subseteq excused'
  BY DEF Quiet
<1> QED BY <1>1, <1>2, <1>3, <1>4

(* Most steps are quiet, and bring nobody to the insertion of a session.   *)
LEMMA QuietActions ==
  ASSUME IInv, NEW r \in Requests,
         \/ BeginForgot(r) \/ BeginChange(r) \/ BeginLogin(r) \/ BeginGarbage(r)
         \/ \E t \in 1..MaxTokens : BeginReset(r, t)
         \/ \E s \in 1..MaxSessions : BeginRefresh(r, s)
         \/ ForgotFind(r) \/ CreateToken(r) \/ Mail(r) \/ ResetDenied(r)
         \/ ResetAccepted(r) \/ MarkUsed(r) \/ InvalidateAllForUser(r)
         \/ RefreshReused(r) \/ RefreshDenied(r) \/ Link(r) \/ Reply(r)
  PROVE  Quiet(r) /\ req'[r].pc # "insert" /\ (UNCHANGED sessions \/ Link(r))
<1>1. TypeOK /\ Tables /\ Scripts /\ Rooms
  BY DEF IInv
<1>2. UNCHANGED <<password, overtaken, excused>> /\ (UNCHANGED sessions \/ Link(r))
  BY DEF BeginForgot, BeginChange, BeginLogin, BeginGarbage, BeginReset, BeginRefresh,
     Arrive, ForgotFind, CreateToken, Mail, ResetDenied, ResetAccepted, ReadToken,
     MarkUsed, MarkAs, InvalidateAllForUser, InvalidateAll, RefreshReused, RefreshDenied,
     Link, Reply, table, history, sweeps
<1>3. CreateToken(r) => At(r, "create") /\ Moves(r, "mail")
  BY <1>1, RoomFor, Creating DEF CreateToken
<1>4. /\ Only(r) /\ req'[r].pc # "insert"
      /\ \/ req[r].pc \in {"idle", "find", "create", "mail", "link", "reply"}
         \/ req'[r].op = req[r].op /\ req'[r].pc \in {"invalidate", "purge"}
  BY <1>1, <1>3, Effects DEF Moves, Turns, Only, At
<1>5. r \in Replacing => r \in Replacing'
  BY <1>4 DEF Replacing
<1> QED BY <1>2, <1>4, <1>5 DEF Quiet

(* Who is late to insert is known to be, or a sweep is to come.            *)
LEMMA LateStep == IInv /\ Next => LateInserts'
<1> SUFFICES ASSUME IInv, Next, NEW q \in Requests, req'[q].pc = "insert",
                    req'[q].era < password'
             PROVE  q \in overtaken' \/ req'[q].session \in excused' \/ Replacing' # {}
  BY DEF LateInserts
<1> DEFINE Goal == q \in overtaken' \/ req'[q].session \in excused' \/ Replacing' # {}
<1>1. /\ TypeOK /\ Tables /\ Scripts /\ Rooms /\ password \in Nat
  BY BoundsAssumption DEF IInv, TypeOK
<1>2. ASSUME NEW r \in Requests, Quiet(r), r # q PROVE Goal
  BY <1>2, QuietStep
<1>3. ASSUME NEW r \in Requests, SetPasswordByToken(r) \/ ChangePassword(r) PROVE Goal
  <2>1. r \in Replacing'
    BY <1>1, <1>3, Effects DEF Stores, Moves, Replacing
  <2> QED BY <2>1
<1>4. ASSUME NEW r \in Requests, RevokeAll(r) PROVE Goal
  <2>1. /\ req'[r].pc = "reply" /\ Only(r) /\ UNCHANGED <<password, excused>>
        /\ overtaken' = IF r \in Replacing THEN Inserting ELSE overtaken
    BY <1>1, <1>4, Effects DEF Moves, Only, RevokeAll
  <2>2. CASE r \in Replacing
    <3>1. q # r /\ req'[q] = req[q]
      BY <2>1 DEF Only
    <3>2. q \in Inserting
      BY <3>1 DEF Inserting, At
    <3> QED BY <2>1, <2>2, <3>2
  <2>3. CASE r \notin Replacing
    BY <1>2, <2>1, <2>3 DEF Quiet
  <2> QED BY <2>2, <2>3
<1>5. ASSUME NEW r \in Requests, Fail(r) PROVE Goal
  <2>1. req'[r].pc = "idle" /\ Only(r) /\ UNCHANGED password
    BY <1>1, <1>5, Effects DEF Turns, Only, Fail, table
  <2>2. CASE r \in Replacing /\ overtaken' = Inserting
    <3>1. q # r /\ req'[q] = req[q]
      BY <2>1 DEF Only
    <3>2. q \in Inserting
      BY <3>1 DEF Inserting, At
    <3> QED BY <2>2, <3>2
  <2>3. CASE r \notin Replacing /\ overtaken' = overtaken \ {r} /\ UNCHANGED excused
    BY <1>2, <2>1, <2>3 DEF Quiet
  <2> QED BY <1>5, <2>2, <2>3 DEF Fail
<1>6. ASSUME NEW r \in Requests, InsertSession(r) PROVE Goal
  <2>1. /\ Only(r) /\ req[r].pc = "insert" /\ req'[r].pc # "insert" /\ UNCHANGED password
        /\ overtaken' = overtaken \ {r} /\ excused \subseteq excused'
    BY <1>1, <1>6, Effects DEF Moves, Only, InsertSession, At
  <2>2. r \notin Replacing
    BY <2>1 DEF Replacing
  <2> QED BY <1>2, <2>1, <2>2 DEF Quiet
<1>7. ASSUME NEW r \in Requests, VerifyCurrent(r) PROVE Goal
  <2>1. /\ Only(r) /\ req[r].pc = "find" /\ UNCHANGED <<password, overtaken, excused>>
        /\ req'[r].pc = "insert" => req'[r].era = password
    BY <1>1, <1>7, Effects
    DEF Moves, Only, At, VerifyCurrent, table, history, sweeps
  <2>2. q # r
    BY <1>1, <2>1
  <2>3. r \notin Replacing
    BY <2>1 DEF Replacing
  <2> QED BY <1>2, <2>1, <2>2, <2>3 DEF Quiet
<1>8. ASSUME NEW r \in Requests, RefreshAccepted(r) PROVE Goal
  <2>1. /\ Only(r) /\ req[r].pc = "find" /\ UNCHANGED <<password, overtaken, excused>>
        /\ req[r].session \in 1..Len(sessions) /\ sessions[req[r].session].live
        /\ req'[r].era = sessions[req[r].session].era /\ req'[r].session = req[r].session
    BY <1>1, <1>8, Accepting
    DEF Moves, Carries, Only, At, RefreshAccepted, table, history, sweeps
  <2>2. Quiet(r)
    BY <2>1 DEF Quiet, Replacing
  <2>3. CASE q = r
    BY <2>1, <2>2, <2>3, QuietStep
  <2> QED BY <1>2, <2>2, <2>3
<1>9. ASSUME NEW t \in 1..MaxTokens, Expire(t) PROVE Goal
  BY <1>9 DEF Expire, history, sweeps, IInv, LateInserts, Replacing
<1> HIDE DEF Goal
<1>10. ASSUME NEW r \in Requests,
              \/ BeginForgot(r) \/ BeginChange(r) \/ BeginLogin(r) \/ BeginGarbage(r)
              \/ \E t \in 1..MaxTokens : BeginReset(r, t)
              \/ \E s \in 1..MaxSessions : BeginRefresh(r, s)
              \/ ForgotFind(r) \/ CreateToken(r) \/ Mail(r) \/ ResetDenied(r)
              \/ ResetAccepted(r) \/ MarkUsed(r) \/ InvalidateAllForUser(r)
              \/ RefreshReused(r) \/ RefreshDenied(r) \/ Link(r) \/ Reply(r)
       PROVE  Goal
  <2>1. Quiet(r) /\ req'[r].pc # "insert"
    BY <1>10, QuietActions
  <2> QED BY <1>2, <2>1
<1>11. Goal
  BY <1>3, <1>4, <1>5, <1>6, <1>7, <1>8, <1>9, <1>10 DEF Next
<1> QED BY <1>11 DEF Goal

(* An old session is excused, or a request is on its way to revoke it.     *)
LEMMA OldStep == IInv /\ Next => OldSessionsEnd'
<1> SUFFICES ASSUME IInv, Next, NEW s \in DOMAIN sessions', sessions'[s].live,
                    sessions'[s].era < password'
             PROVE  s \in excused' \/ Replacing' # {}
  BY DEF OldSessionsEnd
<1> DEFINE Goal == s \in excused' \/ Replacing' # {}
           Old == s \in 1..Len(sessions) /\ sessions[s].live /\ sessions[s].era < password
<1>1. /\ TypeOK /\ Tables /\ Scripts /\ Rooms /\ SessionsEnd /\ OldSessionsEnd
      /\ Len(sessions) \in Nat /\ Len(sessions') \in Nat
      /\ DOMAIN sessions = 1..Len(sessions) /\ DOMAIN sessions' = 1..Len(sessions')
  <2>1. /\ TypeOK /\ Tables /\ Scripts /\ Rooms /\ SessionsEnd /\ OldSessionsEnd
    BY RowsStep DEF IInv
  <2> QED BY <2>1, LenProperties DEF Tables, SessionsEnd
<1>2. UNCHANGED password /\ (UNCHANGED sessions \/ Len(sessions') = Len(sessions)) => Old
  BY <1>1 DEF SessionsEnd
<1>3. Old => s \in excused \/ Replacing # {}
  BY <1>1 DEF OldSessionsEnd
<1> HIDE DEF Old
<1>4. ASSUME NEW r \in Requests, Quiet(r), Old PROVE Goal
  BY <1>4, QuietStep DEF Old
<1>5. ASSUME NEW r \in Requests, SetPasswordByToken(r) \/ ChangePassword(r) PROVE Goal
  <2>1. r \in Replacing'
    BY <1>1, <1>5, Effects DEF Stores, Moves, Replacing
  <2> QED BY <2>1
<1>6. ASSUME NEW r \in Requests, RevokeAll(r) PROVE Goal
  BY <1>1, <1>6, SessionWrites
<1>7. ASSUME NEW r \in Requests, InsertSession(r) PROVE Goal
  <2>1. /\ Len(sessions') = Len(sessions) + 1 /\ sessions'[Len(sessions')].era = req[r].era
        /\ \A u \in 1..Len(sessions) : sessions'[u] = sessions[u]
        /\ req[r].pc = "insert" /\ Only(r) /\ UNCHANGED password
        /\ overtaken' = overtaken \ {r}
        /\ excused' = IF req[r].era < password /\ (r \in overtaken \/ req[r].session \in excused)
                      THEN excused \cup {Len(sessions')} ELSE excused
    BY <1>1, <1>7, SessionWrites, Effects DEF InsertSession, At, Moves, Only
  <2>2. Quiet(r)
    BY <2>1 DEF Quiet, Replacing
  <2>3. CASE s \in 1..Len(sessions)
    <3>1. Old
      BY <2>1, <2>3 DEF Old
    <3> QED BY <1>4, <2>2, <3>1
  <2>4. CASE s \notin 1..Len(sessions)
    <3>1. s = Len(sessions') /\ req[r].era < password
      BY <1>1, <2>1, <2>4
    <3>2. r \in overtaken \/ req[r].session \in excused \/ Replacing # {}
      BY <2>1, <3>1 DEF IInv, LateInserts
    <3> QED BY <2>1, <2>2, <3>1, <3>2, QuietStep
  <2> QED BY <2>3, <2>4
<1>8. ASSUME NEW r \in Requests, Fail(r) PROVE Goal
  <2>1. UNCHANGED <<sessions, password>> /\ Old /\ Only(r) /\ s \in DOMAIN sessions
    BY <1>1, <1>2, <1>8, Effects DEF Fail, table, Turns, Only
  <2>2. CASE excused' = excused \cup DOMAIN sessions
    BY <2>1, <2>2
  <2>3. CASE r \notin Replacing /\ overtaken' = overtaken \ {r} /\ UNCHANGED excused
    BY <1>4, <2>1, <2>3 DEF Quiet
  <2> QED BY <1>8, <2>2, <2>3 DEF Fail
<1>9. ASSUME NEW r \in Requests, VerifyCurrent(r) \/ RefreshAccepted(r) PROVE Goal
  <2>1. /\ Only(r) /\ req[r].pc = "find"
        /\ UNCHANGED <<sessions, password, overtaken, excused>>
    BY <1>1, <1>9, Effects
    DEF Moves, Only, At, VerifyCurrent, RefreshAccepted, table, history, sweeps
  <2> QED BY <1>2, <1>4, <2>1 DEF Quiet, Replacing
<1>10. ASSUME NEW t \in 1..MaxTokens, Expire(t) PROVE Goal
  <2>1. UNCHANGED <<req, sessions, password, excused>>
    BY <1>10 DEF Expire, history, sweeps
  <2> QED BY <1>2, <1>3, <2>1 DEF Replacing
<1> HIDE DEF Goal
<1>11. ASSUME NEW r \in Requests,
              \/ BeginForgot(r) \/ BeginChange(r) \/ BeginLogin(r) \/ BeginGarbage(r)
              \/ \E t \in 1..MaxTokens : BeginReset(r, t)
              \/ \E u \in 1..MaxSessions : BeginRefresh(r, u)
              \/ ForgotFind(r) \/ CreateToken(r) \/ Mail(r) \/ ResetDenied(r)
              \/ ResetAccepted(r) \/ MarkUsed(r) \/ InvalidateAllForUser(r)
              \/ RefreshReused(r) \/ RefreshDenied(r) \/ Link(r) \/ Reply(r)
       PROVE  Goal
  <2>1. Quiet(r) /\ (UNCHANGED sessions \/ Link(r))
    BY <1>11, QuietActions
  <2>2. UNCHANGED password /\ (UNCHANGED sessions \/ Len(sessions') = Len(sessions))
    BY <1>1, <2>1, SessionWrites DEF Quiet
  <2> QED BY <1>2, <1>4, <2>1, <2>2
<1>12. Goal
  BY <1>5, <1>6, <1>7, <1>8, <1>9, <1>10, <1>11 DEF Next
<1> QED BY <1>12 DEF Goal

(* Every variable keeps its type.                                          *)
LEMMA TypeStep == IInv /\ Next => TypeOK' /\ Tables'
<1> SUFFICES ASSUME IInv, Next PROVE TypeOK' /\ Tables'
  OBVIOUS
<1>1. /\ TypeOK /\ Tables /\ Scripts /\ Rooms /\ TokensAge /\ SessionsEnd
      /\ req' \in [Requests -> RequestType] /\ Rooms' /\ Spent'
  BY RowsStep, RequestStep, RoomsStep, SpentStep DEF IInv
<1>2. /\ Tables'
      /\ Len(tokens') <= MaxTokens /\ \A t \in DOMAIN tokens' : tokens'[t] \in TokenStates
      /\ Len(sessions') <= MaxSessions
      /\ \A s \in DOMAIN sessions' : sessions'[s] \in [live : BOOLEAN, era : 0..MaxPasswords]
      /\ DOMAIN tokens = 1..Len(tokens) /\ DOMAIN tokens' = 1..Len(tokens')
      /\ DOMAIN sessions = 1..Len(sessions) /\ DOMAIN sessions' = 1..Len(sessions')
      /\ Len(tokens) \in Nat /\ Len(sessions) \in Nat
      /\ Len(tokens') \in Nat /\ Len(sessions') \in Nat
      /\ Len(tokens) <= Len(tokens') /\ Len(sessions) <= Len(sessions')
  <2>1. /\ Tables' /\ tokens' \in Seq(TokenStates) /\ sessions' \in Seq(SessionType)
        /\ tokens \in Seq(TokenStates) /\ sessions \in Seq(SessionType)
    BY <1>1 DEF Tables, TokensAge, SessionsEnd
  <2>2. /\ DOMAIN tokens' = 1..Len(tokens') /\ \A t \in 1..Len(tokens') : tokens'[t] \in TokenStates
        /\ DOMAIN sessions' = 1..Len(sessions')
        /\ \A s \in 1..Len(sessions') : sessions'[s] \in SessionType
        /\ DOMAIN tokens = 1..Len(tokens) /\ DOMAIN sessions = 1..Len(sessions)
        /\ Len(tokens) \in Nat /\ Len(sessions) \in Nat
    BY <2>1, LenProperties, ElementOfSeq
  <2> QED BY <1>1, <2>1, <2>2 DEF TokensAge, SessionsEnd, SessionType
<1>3. DOMAIN tokens \subseteq DOMAIN tokens' /\ DOMAIN sessions \subseteq DOMAIN sessions'
  BY <1>2
<1>4. password' \in 0..MaxPasswords
  <2>1. password' \in Nat
    <3>1. password \in Nat
      BY <1>1, BoundsAssumption DEF TypeOK
    <3>2. password' = password \/ password' = password + 1
      BY DEF IInv, Next, BeginForgot, BeginChange, BeginLogin, BeginGarbage, BeginReset,
         BeginRefresh, Arrive,
         ForgotFind, CreateToken, Mail, ResetDenied, ResetAccepted, ReadToken, VerifyCurrent,
         SetPasswordByToken, ChangePassword, StoreThen, MarkUsed, MarkAs, InvalidateAllForUser,
         InvalidateAll, RevokeAll, RefreshReused, RefreshDenied, RefreshAccepted, InsertSession,
         Link, Reply, Fail, Expire, table
    <3> QED BY <3>1, <3>2
  <2>2. Cardinality(Busy({"reset", "change"}, {"find", "store"}))' \in Nat
    <3>1. Busy({"reset", "change"}, {"find", "store"})' \in SUBSET Requests
      BY DEF Busy
    <3> QED BY <3>1, PartType, RequestsAssumption
  <2>3. password' + Cardinality(Busy({"reset", "change"}, {"find", "store"}))' <= MaxPasswords
    BY <1>1 DEF Rooms
  <2> QED BY <2>1, <2>2, <2>3, BoundsAssumption
<1>5. mailed' \subseteq DOMAIN tokens'
  <2>1. mailed \subseteq DOMAIN tokens
    BY <1>1 DEF TypeOK
  <2>2. ASSUME NEW r \in Requests, Mail(r) PROVE mailed' \subseteq DOMAIN tokens'
    <3>1. req[r].token \in DOMAIN tokens
      BY <1>1, <1>2, <2>2 DEF Mail, At, Scripts, Scripted
    <3> QED BY <1>3, <2>1, <2>2, <3>1 DEF Mail
  <2>3. UNCHANGED mailed \/ \E r \in Requests : Mail(r)
    BY DEF IInv, Next, BeginForgot, BeginChange, BeginLogin, BeginGarbage, BeginReset,
         BeginRefresh, Arrive,
       ForgotFind, CreateToken, ResetDenied, ResetAccepted, ReadToken, VerifyCurrent,
       SetPasswordByToken, ChangePassword, StoreThen, MarkUsed, MarkAs, InvalidateAllForUser,
       InvalidateAll, RevokeAll, RefreshReused, RefreshDenied, RefreshAccepted, InsertSession,
         Link, Reply, Fail, Expire, table
  <2> QED BY <1>3, <2>1, <2>2, <2>3
<1>6. spends' \in [1..MaxTokens -> 0..MaxPasswords]
  <2>1. spends \in [1..MaxTokens -> Nat]
    BY <1>1, BoundsAssumption DEF TypeOK
  <2>2. spends' \in [1..MaxTokens -> Nat]
    <3>1. UNCHANGED spends \/ \E r \in Requests : spends' = [spends EXCEPT ![req[r].token] = @ + 1]
      BY DEF IInv, Next, BeginForgot, BeginChange, BeginLogin, BeginGarbage, BeginReset,
         BeginRefresh, Arrive,
         ForgotFind, CreateToken, Mail, ResetDenied, ResetAccepted, ReadToken, VerifyCurrent,
         SetPasswordByToken, ChangePassword, StoreThen, MarkUsed, MarkAs, InvalidateAllForUser,
         InvalidateAll, RevokeAll, RefreshReused, RefreshDenied, RefreshAccepted, InsertSession,
         Link, Reply, Fail, Expire, history
    <3> QED BY <2>1, <3>1
  <2>3. \A t \in 1..MaxTokens : spends'[t] <= MaxPasswords
    BY <1>1, <1>4, <2>2, BoundsAssumption DEF Spent
  <2> QED BY <2>2, <2>3, BoundsAssumption
<1>7. lost' \in 0..MaxLost
  <2>1. lost' = lost \/ (lost < MaxLost /\ lost' = lost + 1)
    BY DEF IInv, Next, BeginForgot, BeginChange, BeginLogin, BeginGarbage, BeginReset,
         BeginRefresh, Arrive,
       ForgotFind, CreateToken, Mail, ResetDenied, ResetAccepted, ReadToken, VerifyCurrent,
       SetPasswordByToken, ChangePassword, StoreThen, MarkUsed, MarkAs, InvalidateAllForUser,
       InvalidateAll, RevokeAll, RefreshReused, RefreshDenied, RefreshAccepted, InsertSession,
         Link, Reply, Fail, Expire, history
  <2> QED BY <1>1, <2>1, BoundsAssumption DEF TypeOK
<1>8. excused' \subseteq DOMAIN sessions'
  <2>1. excused \subseteq DOMAIN sessions
    BY <1>1 DEF TypeOK
  <2>2. ASSUME NEW r \in Requests, InsertSession(r) PROVE excused' \subseteq DOMAIN sessions'
    <3>1. Len(sessions') \in DOMAIN sessions'
      <4>1. Len(sessions') = Len(sessions) + 1
        BY <1>1, <2>2, SessionWrites
      <4> QED BY <1>2, <4>1
    <3>2. excused' \subseteq excused \cup {Len(sessions')}
      BY <2>2 DEF InsertSession
    <3> QED BY <1>3, <2>1, <3>1, <3>2
  <2>3. excused' \subseteq excused \cup DOMAIN sessions \/ \E r \in Requests : InsertSession(r)
    BY DEF IInv, Next, BeginForgot, BeginChange, BeginLogin, BeginGarbage, BeginReset,
         BeginRefresh, Arrive,
       ForgotFind, CreateToken, Mail, ResetDenied, ResetAccepted, ReadToken, VerifyCurrent,
       SetPasswordByToken, ChangePassword, StoreThen, MarkUsed, MarkAs, InvalidateAllForUser,
       InvalidateAll, RevokeAll, RefreshReused, RefreshDenied, RefreshAccepted, Link, Reply,
       Fail, Expire, history, sweeps
  <2> QED BY <1>3, <2>1, <2>2, <2>3
<1>9. handed' \subseteq DOMAIN sessions'
  <2>1. handed \subseteq DOMAIN sessions
    BY <1>1 DEF TypeOK
  <2>2. ASSUME NEW r \in Requests, Reply(r) PROVE handed' \subseteq DOMAIN sessions'
    <3>1. req[r].fresh \in Nat /\ req[r].fresh <= Len(sessions)
      BY <1>1, BoundsAssumption DEF TypeOK, RequestType, Scripts, Scripted
    <3>2. {req[r].fresh} \ {0} \subseteq DOMAIN sessions
      BY <1>2, <3>1
    <3> QED BY <1>3, <2>1, <2>2, <3>2 DEF Reply
  <2>3. UNCHANGED handed \/ \E r \in Requests : Reply(r)
    BY DEF IInv, Next, BeginForgot, BeginChange, BeginLogin, BeginGarbage, BeginReset,
       BeginRefresh, Arrive, ForgotFind, CreateToken, Mail, ResetDenied, ResetAccepted,
       ReadToken, VerifyCurrent, SetPasswordByToken, ChangePassword, StoreThen, MarkUsed,
       MarkAs, InvalidateAllForUser, InvalidateAll, RevokeAll, RefreshReused, RefreshDenied,
       RefreshAccepted, InsertSession, Link, Fail, Expire, table
  <2> QED BY <1>3, <2>1, <2>2, <2>3
<1> QED BY <1>1, <1>2, <1>4, <1>5, <1>6, <1>7, <1>8, <1>9, OvertakenStep DEF TypeOK

-----------------------------------------------------------------------------
(* The invariant is inductive.                                             *)
LEMMA Inductive == Spec => []IInv
<1>1. Init => IInv
  <2> SUFFICES ASSUME Init PROVE IInv
    OBVIOUS
  <2>1. /\ tokens = <<>> /\ sessions = <<>> /\ Len(tokens) = 0 /\ Len(sessions) = 0
        /\ Tables /\ password = 0 /\ lost = 0
        /\ \A r \in Requests : req[r] = NoRequest
    BY EmptySeq DEF Init, Tables
  <2>2. TypeOK
    <3>1. NoRequest \in RequestType
      BY BoundsAssumption DEF NoRequest, RequestType, Ops, Pcs, Statuses
    <3> QED BY <2>1, <3>1, BoundsAssumption DEF Init, TypeOK
  <2>3. Scripts /\ Swept
    BY <2>1 DEF Scripts, Scripted, Swept, NoRequest
  <2>4. \A ops, pcs : "idle" \notin pcs => Cardinality(Busy(ops, pcs)) = 0
    <3>1. ASSUME NEW ops, NEW pcs, "idle" \notin pcs PROVE Busy(ops, pcs) = {}
      BY <2>1, <3>1 DEF Busy, NoRequest
    <3> QED BY <3>1, FS_EmptySet
  <2>5. Rooms
    BY <2>1, <2>4, BoundsAssumption DEF Rooms
  <2>6. Spent
    <3>1. \A t : Cardinality(Holding(t, "store")) = 0
      <4>1. ASSUME NEW t PROVE Holding(t, "store") = {}
        BY <2>1 DEF Holding, NoRequest
      <4> QED BY <4>1, FS_EmptySet
    <3>2. Cardinality(Requests) \in Nat
      BY FS_CardinalityType, RequestsAssumption
    <3>3. \A t \in 1..MaxTokens : spends[t] = 0 /\ t > Len(tokens)
      BY <2>1, BoundsAssumption DEF Init
    <3> QED BY <2>1, <3>1, <3>2, <3>3, BoundsAssumption DEF Spent
  <2>7. OldSessionsEnd
    BY <2>1 DEF OldSessionsEnd
  <2>8. LateInserts
    BY <2>1 DEF LateInserts, NoRequest
  <2> QED BY <2>1, <2>2, <2>3, <2>5, <2>6, <2>7, <2>8 DEF IInv
<1>2. IInv /\ [Next]_vars => IInv'
  <2>1. IInv /\ Next => IInv'
    BY TypeStep, RequestStep, RoomsStep, SpentStep, SweptStep, LateStep, OldStep DEF IInv
  <2>2. ASSUME IInv, UNCHANGED vars PROVE IInv'
    <3>1. UNCHANGED <<password, tokens, mailed, sessions, handed, req, spends, lost, overtaken,
                    excused>>
      BY <2>2 DEF vars
    <3>2. TypeOK' /\ Tables' /\ Scripts' /\ Swept' /\ LateInserts' /\ OldSessionsEnd'
      BY <2>2, <3>1 DEF IInv, TypeOK, Tables, Scripts, Swept, LateInserts, OldSessionsEnd,
           Replacing, Inserting, At
    <3>3. Rooms'
      BY <2>2, <3>1 DEF IInv, Rooms, Busy
    <3>4. Spent'
      BY <2>2, <3>1 DEF IInv, Spent, Holding
    <3> QED BY <3>2, <3>3, <3>4 DEF IInv
  <2> QED BY <2>1, <2>2
<1> QED BY <1>1, <1>2, PTL DEF Spec

(* Every variable keeps its type, and no request writes a row or a         *)
(* password beyond the room its arrival reserved.                          *)
THEOREM TypeCorrect == Spec => []TypeOK
<1>1. IInv => TypeOK
  BY DEF IInv
<1> QED BY <1>1, Inductive, PTL

(* A reset answered with success has spent every token and every session   *)
(* there were when it stored its password, and a change every session,     *)
(* however many resets, changes, logins and refreshes run at once.         *)
THEOREM ResetCorrect == Spec => []ResetCompletes
<1>1. IInv => ResetCompletes
  BY DEF IInv, Swept, ResetCompletes, At
<1> QED BY <1>1, Inductive, PTL

(* A token stores at most one password per request in flight, and one per  *)
(* reset that was lost before it marked its token.                         *)
THEOREM SpendsCorrect == Spec => []SpendBound
<1>1. ASSUME IInv, NEW t \in 1..MaxTokens PROVE spends[t] <= Cardinality(Requests) + lost
  <2>1. Cardinality(Holding(t, "store")) \in Nat /\ Cardinality(Requests) \in Nat
    <3>1. Holding(t, "store") \in SUBSET Requests
      BY DEF Holding
    <3> QED BY <3>1, PartType, RequestsAssumption
  <2>2. spends[t] \in Nat /\ lost \in Nat
    BY <1>1, BoundsAssumption DEF IInv, TypeOK
  <2>3. spends[t] + Cardinality(Holding(t, "store")) <= Cardinality(Requests) + lost
    BY <1>1 DEF IInv, Spent
  <2> QED BY <2>1, <2>2, <2>3
<1>2. IInv => SpendBound
  BY <1>1 DEF SpendBound
<1> QED BY <1>2, Inductive, PTL

(* A session opened with a replaced password is revoked, is about to be,   *)
(* or is one of those the code is known to miss.                           *)
THEOREM OldSessionsCorrect == Spec => []OldSessionsEnd
<1>1. IInv => OldSessionsEnd
  BY DEF IInv
<1> QED BY <1>1, Inductive, PTL

-----------------------------------------------------------------------------
(* Resets of one token do not overlap between its SELECT and the UPDATE    *)
(* that marks it: what the code relies on and does not enforce.            *)
Apart ==
  \A q, r \in Requests :
    /\ req[q].op = "reset" /\ req[r].op = "reset" /\ req[q].token = req[r].token
    /\ req[q].pc \in {"store", "mark"} /\ req[r].pc \in {"store", "mark"}
    => q = r

(* A token stores one password, and one for each reset that was lost       *)
(* before it marked its token.                                             *)
SingleUse == \A t \in 1..MaxTokens : spends[t] <= 1 + lost

(* ... and a reset that has just read it is the first that was not lost.   *)
FirstUse ==
  \A t \in 1..MaxTokens :
    /\ spends[t] <= 1 + lost
    /\ Holding(t, "store") # {} => spends[t] <= lost

(* Who reads a live token apart from the others finds it not yet spent.    *)
LEMMA FirstUseStep == IInv /\ FirstUse /\ Apart /\ Apart' /\ [Next]_vars => FirstUse'
<1> SUFFICES ASSUME IInv, FirstUse, Apart, Apart', [Next]_vars, NEW t \in 1..MaxTokens
             PROVE  /\ spends'[t] <= 1 + lost'
                    /\ Holding(t, "store")' # {} => spends'[t] <= lost'
  BY DEF FirstUse
<1> DEFINE Held == \E q \in Requests :
                     req[q].op = "reset" /\ req[q].token = t /\ req[q].pc = "store"
           HeldAfter == \E q \in Requests :
                     req'[q].op = "reset" /\ req'[q].token = t /\ req'[q].pc = "store"
           Goal == spends'[t] <= 1 + lost' /\ (HeldAfter => spends'[t] <= lost')
<1>1. /\ TypeOK /\ Tables /\ Scripts /\ Rooms /\ spends[t] \in Nat /\ lost \in Nat
      /\ spends[t] <= 1 + lost
      /\ Held => spends[t] <= lost
  <2>1. /\ TypeOK /\ Tables /\ Scripts /\ Rooms /\ spends[t] \in Nat /\ lost \in Nat
    BY BoundsAssumption DEF IInv, TypeOK
  <2>2. Held => Holding(t, "store") # {}
    BY DEF Holding
  <2> QED BY <2>1, <2>2 DEF FirstUse
<1>2. Goal => /\ spends'[t] <= 1 + lost'
              /\ Holding(t, "store")' # {} => spends'[t] <= lost'
  BY DEF Holding
<1>3. ASSUME spends' = spends, lost' \in Nat, lost <= lost', HeldAfter => Held
      PROVE  Goal
  <2> HIDE DEF Held, HeldAfter
  <2> QED BY <1>1, <1>3
<1>4. ASSUME NEW r \in Requests, Only(r), UNCHANGED spends, lost' \in Nat, lost <= lost',
             \/ req'[r].op # "reset"
             \/ req'[r].pc # "store"
             \/ req'[r].token # t
      PROVE  Goal
  <2>1. HeldAfter => Held
    BY <1>4 DEF Only
  <2> QED BY <1>3, <1>4, <2>1
<1>5. \A r \in Requests :
        /\ \A pc : Moves(r, pc) => Only(r) /\ req'[r].pc = pc /\ req'[r].op = req[r].op
        /\ \A op, pc, u : Turns(r, op, pc, u) => Only(r) /\ req'[r].pc = pc /\ req'[r].op = op
  BY DEF Moves, Turns, Only
<1>6. ASSUME NEW r \in Requests, SetPasswordByToken(r) PROVE Goal
  <2>1. /\ req[r].op = "reset" /\ req[r].pc = "store" /\ Only(r) /\ req'[r].pc = "mark"
        /\ UNCHANGED lost
        /\ spends' = [spends EXCEPT ![req[r].token] = @ + 1]
    BY <1>1, <1>5, <1>6, Effects DEF Stores, At, SetPasswordByToken, StoreThen
  <2>2. CASE t = req[r].token
    <3>1. Held
      BY <2>1, <2>2
    <3>2. spends'[t] = spends[t] + 1
      BY <1>1, <2>1, <2>2 DEF TypeOK
    <3>3. ASSUME HeldAfter PROVE FALSE
      <4>1. PICK q \in Requests :
              req'[q].op = "reset" /\ req'[q].token = t /\ req'[q].pc = "store"
        BY <3>3
      <4>2. q # r /\ req'[q] = req[q]
        BY <2>1, <4>1 DEF Only
      <4> QED BY <2>1, <2>2, <4>1, <4>2 DEF Apart
    <3> HIDE DEF Held, HeldAfter
    <3> QED BY <1>1, <2>1, <3>1, <3>2, <3>3
  <2>3. CASE t # req[r].token
    <3>1. spends'[t] = spends[t]
      BY <1>1, <2>1, <2>3 DEF TypeOK
    <3>2. HeldAfter => Held
      BY <2>1 DEF Only
    <3> HIDE DEF Held, HeldAfter
    <3> QED BY <1>1, <2>1, <3>1, <3>2
  <2> QED BY <2>2, <2>3
<1>7. ASSUME NEW r \in Requests, ResetAccepted(r) PROVE Goal
  <2>1. /\ req[r].op = "reset" /\ req[r].pc = "find" /\ Only(r)
        /\ req'[r].pc = "store" /\ req'[r].token = req[r].token /\ req'[r].op = "reset"
        /\ tokens[req[r].token] = "live" /\ UNCHANGED <<spends, lost>>
    BY <1>1, <1>5, <1>7, Effects DEF Carries, At, ResetAccepted, ReadToken, table, history
  <2>2. CASE t = req[r].token
    <3>1. Holding(t, "mark") = {}
      <4> SUFFICES ASSUME NEW q \in Holding(t, "mark") PROVE FALSE
        OBVIOUS
      <4>1. /\ q \in Requests /\ req[q].op = "reset" /\ req[q].token = t
            /\ req[q].pc = "mark"
        BY DEF Holding
      <4>2. q # r /\ req'[q] = req[q]
        BY <2>1, <4>1 DEF Only
      <4> QED BY <2>1, <2>2, <4>1, <4>2 DEF Apart
    <3>2. Cardinality(Holding(t, "mark")) = 0
      BY <3>1, FS_EmptySet
    <3>3. t <= Len(tokens)
      BY <1>1, <2>1, <2>2 DEF Scripts, Scripted
    <3>4. spends[t] <= Cardinality(Holding(t, "mark")) + lost
      BY <2>1, <2>2, <3>3 DEF IInv, Spent
    <3> HIDE DEF Held, HeldAfter
    <3> QED BY <1>1, <2>1, <3>2, <3>4
  <2>3. CASE t # req[r].token
    BY <1>1, <1>4, <2>1, <2>3
  <2> QED BY <2>2, <2>3
<1>8. ASSUME NEW r \in Requests, Fail(r) PROVE Goal
  <2>1. /\ Only(r) /\ req'[r].pc = "idle" /\ UNCHANGED spends
        /\ lost' = lost + 1 \/ lost' = lost
    BY <1>1, <1>5, <1>8, Effects DEF At, Fail, table
  <2> QED BY <1>1, <1>4, <2>1
<1>9. ASSUME NEW u \in 1..MaxTokens, Expire(u) PROVE Goal
  BY <1>1, <1>3, <1>9 DEF Expire, history
<1>10. ASSUME UNCHANGED vars PROVE Goal
  BY <1>1, <1>3, <1>10 DEF vars
<1>11. ASSUME NEW r \in Requests, Only(r), UNCHANGED <<spends, lost>>,
              req'[r].pc # "store" \/ req'[r].op # "reset"
       PROVE  Goal
  BY <1>1, <1>4, <1>11
<1> HIDE DEF Goal
<1>12. ASSUME NEW r \in Requests,
              \/ BeginForgot(r) \/ BeginChange(r) \/ BeginLogin(r) \/ BeginGarbage(r)
              \/ \E u \in 1..MaxTokens : BeginReset(r, u)
              \/ \E s \in 1..MaxSessions : BeginRefresh(r, s)
              \/ ForgotFind(r) \/ CreateToken(r) \/ Mail(r) \/ ResetDenied(r)
              \/ MarkUsed(r) \/ InvalidateAllForUser(r) \/ RevokeAll(r)
              \/ RefreshReused(r) \/ RefreshDenied(r) \/ RefreshAccepted(r)
              \/ InsertSession(r) \/ Link(r) \/ Reply(r)
       PROVE  Goal
  <2>1. UNCHANGED <<spends, lost>>
    BY <1>12 DEF BeginForgot, BeginChange, BeginLogin, BeginGarbage, BeginReset,
         BeginRefresh, Arrive,
         ForgotFind, CreateToken, Mail, ResetDenied, MarkUsed, MarkAs, InvalidateAllForUser,
         InvalidateAll, RevokeAll, RefreshReused, RefreshDenied, RefreshAccepted, InsertSession,
         Link, Reply, table, history
  <2>2. Only(r) /\ req'[r].pc # "store"
    <3>1. CreateToken(r) => Moves(r, "mail")
      BY <1>1, RoomFor, Creating DEF CreateToken, IInv
    <3> QED BY <1>1, <1>5, <1>12, <3>1, Effects
  <2> QED BY <1>11, <2>1, <2>2
<1>13. ASSUME NEW r \in Requests, VerifyCurrent(r) PROVE Goal
  <2>1. /\ Only(r) /\ req'[r].op \in {"change", "login"} /\ UNCHANGED <<spends, lost>>
    BY <1>1, <1>5, <1>13, Effects DEF VerifyCurrent, table, history
  <2> QED BY <1>11, <2>1
<1>14. ASSUME NEW r \in Requests, ChangePassword(r) PROVE Goal
  <2>1. /\ Only(r) /\ req'[r].pc = "purge" /\ UNCHANGED <<spends, lost>>
    BY <1>1, <1>5, <1>14, Effects DEF Stores, ChangePassword, StoreThen
  <2> QED BY <1>11, <2>1
<1>15. Goal
  BY <1>6, <1>7, <1>8, <1>9, <1>10, <1>12, <1>13, <1>14 DEF Next
<1> QED BY <1>2, <1>15

(* README.md:146: reset tokens are single-use, as long as resets of one    *)
(* token do not overlap, and but for those lost before they mark it.       *)
THEOREM ApartSingleUse == Spec /\ []Apart => []SingleUse
<1>1. Init => FirstUse
  BY BoundsAssumption DEF Init, NoRequest, FirstUse, Holding
<1>2. FirstUse => SingleUse
  BY DEF FirstUse, SingleUse
<1> QED BY <1>1, <1>2, FirstUseStep, Inductive, PTL DEF Spec
-----------------------------------------------------------------------------
(* The abstract specification: Credential.  A password takes effect on     *)
(* tokens and sessions where it is stored, and what is created between     *)
(* that and the UPDATE that sweeps it never counts.                        *)
Resetting == \E r \in Requests : req[r].op = "reset" /\ req[r].pc \in {"mark", "invalidate"}
Ending == Replacing # {}

(* The tokens judged live by a reset that has yet to store its password.   *)
Held == {t \in 1..Len(tokens) :
           \E r \in Requests : req[r].op = "reset" /\ req[r].token = t /\ req[r].pc = "store"}
Live == {t \in 1..Len(tokens) : tokens[t] = "live"}
Usable == IF Resetting THEN {} ELSE Live \cup Held

LiveSessions == {s \in 1..Len(sessions) : sessions[s].live}
Open == IF Ending THEN {}
        ELSE {[session |-> s, era |-> sessions[s].era] : s \in LiveSessions}

Cred == INSTANCE Credential WITH
  usable <- Usable, open <- Open, issued <- 1..Len(tokens), opened <- 1..Len(sessions)

(* What the code relies on and does not enforce: resets do not overlap     *)
(* between the SELECT and the UPDATE of all tokens, no sweep of the        *)
(* sessions goes by between the SELECT and the INSERT of a login or a      *)
(* refresh of a replaced password, and a password once stored is followed  *)
(* by every statement that belongs to it.                                  *)
ResetsApart ==
  \A q, r \in Requests :
    /\ req[q].op = "reset" /\ req[q].pc \in {"store", "mark", "invalidate"}
    /\ req[r].op = "reset" /\ req[r].pc \in {"store", "mark", "invalidate"}
    => q = r

Undisturbed == ResetsApart /\ excused = {}

Completes == \A r \in Requests : Fail(r) => r \notin Replacing

(* Nobody goes by a password that is yet to come.                          *)
Eras ==
  /\ \A r \in Requests : req[r].era <= password
  /\ \A s \in 1..Len(sessions) : sessions[s].era <= password

(* A request takes along the password it was verified against, or that of  *)
(* the session it presents, and leaves it to the session it makes.         *)
LEMMA ErasStep == IInv /\ Eras /\ [Next]_vars => Eras'
<1> SUFFICES ASSUME IInv, Eras, [Next]_vars PROVE Eras'
  OBVIOUS
<1>1. /\ password \in Nat /\ \A q \in Requests : req[q] \in RequestType
      /\ \A q \in Requests : req[q].era \in Nat /\ req[q].era <= password
      /\ req \in [Requests -> RequestType]
      /\ TypeOK /\ Tables /\ Scripts /\ Rooms
      /\ \A s \in 1..Len(sessions) : sessions[s].era \in Nat /\ sessions[s].era <= password
  <2>1. \A s \in 1..Len(sessions) : sessions[s] \in SessionType
    BY ElementOfSeq DEF IInv, Tables
  <2>2. TypeOK /\ Tables /\ Scripts /\ Rooms
    BY DEF IInv
  <2>3. password \in Nat /\ req \in [Requests -> RequestType]
    BY <2>2, BoundsAssumption DEF TypeOK
  <2>4. \A q \in Requests : req[q].era \in Nat /\ req[q].era <= password
    <3>1. \A q \in Requests : req[q] \in RequestType
      BY <2>3
    <3>2. 0..MaxPasswords \subseteq Nat
      BY BoundsAssumption
    <3> QED BY <3>1, <3>2 DEF RequestType, Eras
  <2>5. \A s \in 1..Len(sessions) : sessions[s].era \in Nat /\ sessions[s].era <= password
    BY <2>1, BoundsAssumption DEF SessionType, Eras
  <2> QED BY <2>2, <2>3, <2>4, <2>5
<1>2. password' = password \/ password' = password + 1
  BY DEF Next, BeginForgot, BeginChange, BeginLogin, BeginGarbage, BeginReset,
     BeginRefresh, Arrive, ForgotFind, CreateToken, Mail, ResetDenied, ResetAccepted, ReadToken,
     VerifyCurrent, SetPasswordByToken, ChangePassword, StoreThen, MarkUsed, MarkAs, InvalidateAllForUser,
     InvalidateAll, RevokeAll, RefreshReused, RefreshDenied, RefreshAccepted, InsertSession,
     Link, Reply, Fail, Expire, vars, table
<1> DEFINE Goal == \A q \in Requests : req'[q].era <= password'
<1>3. ASSUME NEW r \in Requests, NEW h, Become(r, h), h.era \in Nat, h.era <= password
      PROVE  Goal
  <2>1. \A q \in Requests : req'[q].era \in Nat /\ req'[q].era <= password
    BY <1>1, <1>3 DEF Become
  <2> QED BY <1>1, <1>2, <2>1
<1>4. ASSUME UNCHANGED req PROVE Goal
  BY <1>1, <1>2, <1>4
<1> HIDE DEF Goal
<1>5. ASSUME NEW r \in Requests,
             \/ \E pc : Goto(r, pc)
             \/ \E status : Answer(r, status)
             \/ \E pc, status : Become(r, [req[r] EXCEPT !.pc = pc, !.status = status])
      PROVE  Goal
  <2>1. /\ \A pc : [req[r] EXCEPT !.pc = pc].era = req[r].era
        /\ \A pc, status : [req[r] EXCEPT !.pc = pc, !.status = status].era = req[r].era
        /\ \A status : [req[r] EXCEPT !.pc = "reply", !.token = 0, !.session = 0,
                                       !.status = status].era = req[r].era
    BY <1>1 DEF RequestType
  <2> QED BY <1>1, <1>3, <1>5, <2>1 DEF Goto, Answer
<1>6. ASSUME NEW r \in Requests,
             \/ \E op, t, s : Arrive(r, op, t, s)
             \/ Become(r, NoRequest)
      PROVE  Goal
  <2>1. /\ \A op, t, s : [NoRequest EXCEPT !.op = op, !.pc = "find", !.token = t,
                                            !.session = s].era = 0
        /\ NoRequest.era = 0
    BY DEF NoRequest
  <2>2. 0 \in Nat /\ 0 <= password
    BY <1>1
  <2>3. PICK h : Become(r, h) /\ h.era = 0
    BY <1>6, <2>1 DEF Arrive
  <2> QED BY <1>3, <2>2, <2>3
<1>7. ASSUME NEW r \in Requests,
             \/ BeginForgot(r) \/ BeginChange(r) \/ BeginLogin(r) \/ BeginGarbage(r)
             \/ \E t \in 1..MaxTokens : BeginReset(r, t)
             \/ \E s \in 1..MaxSessions : BeginRefresh(r, s)
             \/ Reply(r) \/ Fail(r) \/ ForgotFind(r) \/ Mail(r) \/ ResetDenied(r)
             \/ ResetAccepted(r) \/ MarkUsed(r) \/ InvalidateAllForUser(r) \/ RevokeAll(r)
             \/ RefreshReused(r) \/ RefreshDenied(r) \/ Link(r)
      PROVE  Goal
  <2>1. \/ \E pc : Goto(r, pc)
        \/ \E status : Answer(r, status)
        \/ \E pc, status : Become(r, [req[r] EXCEPT !.pc = pc, !.status = status])
        \/ \E op, t, s : Arrive(r, op, t, s)
        \/ Become(r, NoRequest)
    BY <1>7 DEF BeginForgot, BeginChange, BeginLogin, BeginGarbage, BeginReset, BeginRefresh, Reply,
         Fail, ForgotFind, Mail, ResetDenied, ResetAccepted, ReadToken, MarkUsed, MarkAs,
         InvalidateAllForUser, InvalidateAll, RevokeAll, RefreshReused, RefreshDenied, Link
  <2> QED BY <1>5, <1>6, <2>1
<1>8. ASSUME NEW r \in Requests, CreateToken(r) PROVE Goal
  <2>1. \A n : [req[r] EXCEPT !.pc = "mail", !.token = n].era = req[r].era
    BY <1>1 DEF RequestType
  <2>2. PICK n : Become(r, [req[r] EXCEPT !.pc = "mail", !.token = n])
    BY <1>8 DEF CreateToken
  <2> QED BY <1>1, <1>3, <2>1, <2>2
<1>9. ASSUME NEW r \in Requests, VerifyCurrent(r) PROVE Goal
  <2>1. \A pc : [req[r] EXCEPT !.pc = pc, !.era = password].era = password
    BY <1>1 DEF RequestType
  <2>2. CASE Answer(r, "denied") \/ Goto(r, "store")
    BY <1>5, <2>2
  <2>3. ASSUME NEW pc, Become(r, [req[r] EXCEPT !.pc = pc, !.era = password]) PROVE Goal
    <3> DEFINE h == [req[r] EXCEPT !.pc = pc, !.era = password]
    <3>1. h.era = password
      BY <2>1
    <3>2. h.era \in Nat /\ h.era <= password
      BY <1>1, <3>1
    <3>3. Become(r, h)
      BY <2>3
    <3> HIDE DEF h
    <3> QED BY <1>3, <3>2, <3>3
  <2> QED BY <1>9, <2>2, <2>3 DEF VerifyCurrent
<1>10. ASSUME NEW r \in Requests, SetPasswordByToken(r) \/ ChangePassword(r) PROVE Goal
  <2>1. \A pc, m, n : [req[r] EXCEPT !.pc = pc, !.status = "ok", !.tokensSeen = m,
                                     !.sessionsSeen = n].era = req[r].era
    BY <1>1 DEF RequestType
  <2>2. PICK pc, m, n :
          Become(r, [req[r] EXCEPT !.pc = pc, !.status = "ok", !.tokensSeen = m,
                                   !.sessionsSeen = n])
    BY <1>10 DEF SetPasswordByToken, ChangePassword, StoreThen
  <2> DEFINE h == [req[r] EXCEPT !.pc = pc, !.status = "ok", !.tokensSeen = m,
                                 !.sessionsSeen = n]
  <2>3. h.era = req[r].era
    BY <2>1
  <2>4. h.era \in Nat /\ h.era <= password
    BY <1>1, <2>3
  <2>5. Become(r, h)
    BY <2>2
  <2> HIDE DEF h
  <2> QED BY <1>3, <2>4, <2>5
<1>11. ASSUME UNCHANGED vars \/ \E t \in 1..MaxTokens : Expire(t) PROVE Goal
  BY <1>4, <1>11 DEF vars, Expire
<1>12. ASSUME NEW r \in Requests, RefreshAccepted(r) PROVE Goal
  <2>1. \A pc, n : [req[r] EXCEPT !.pc = pc, !.era = n].era = n
    BY <1>1 DEF RequestType
  <2>2. req[r].session \in 1..Len(sessions)
    BY <1>1, <1>12, Accepting
  <2>3. Become(r, [req[r] EXCEPT !.pc = "insert", !.era = sessions[req[r].session].era])
    BY <1>12 DEF RefreshAccepted
  <2> QED BY <1>1, <1>3, <2>1, <2>2, <2>3
<1>13. ASSUME NEW r \in Requests, InsertSession(r) PROVE Goal
  <2>1. \A pc, n : [req[r] EXCEPT !.pc = pc, !.fresh = n, !.status = "ok"].era = req[r].era
    BY <1>1 DEF RequestType
  <2>2. PICK pc, n : Become(r, [req[r] EXCEPT !.pc = pc, !.fresh = n, !.status = "ok"])
    BY <1>13 DEF InsertSession
  <2> QED BY <1>1, <1>3, <2>1, <2>2
<1>14. Goal
  BY <1>7, <1>8, <1>9, <1>10, <1>11, <1>12, <1>13 DEF Next
<1>15. \A s \in 1..Len(sessions') : sessions'[s].era <= password'
  <2>1. /\ SessionsEnd /\ Len(sessions) \in Nat
    BY <1>1, RowsStep, LenProperties DEF Tables
  <2>2. \A s \in 1..Len(sessions) : sessions'[s].era <= password'
    BY <1>1, <1>2, <2>1 DEF SessionsEnd
  <2>3. ASSUME NEW r \in Requests, InsertSession(r)
        PROVE  \A s \in 1..Len(sessions') : sessions'[s].era <= password'
    <3>1. Len(sessions') = Len(sessions) + 1 /\ sessions'[Len(sessions')].era = req[r].era
      BY <1>1, <2>3, SessionWrites
    <3>2. password' = password
      BY <2>3 DEF InsertSession
    <3> QED BY <1>1, <2>1, <2>2, <3>1, <3>2
  <2>4. Len(sessions') = Len(sessions) \/ \E r \in Requests : InsertSession(r)
    <3>1. \/ UNCHANGED sessions
          \/ \E r \in Requests : RevokeAll(r) \/ Link(r) \/ InsertSession(r)
      BY DEF Next, BeginForgot, BeginChange, BeginLogin, BeginGarbage, BeginReset,
         BeginRefresh, Arrive, ForgotFind, CreateToken, Mail, ResetDenied, ResetAccepted,
         ReadToken, VerifyCurrent, SetPasswordByToken, ChangePassword, StoreThen, MarkUsed,
         MarkAs, InvalidateAllForUser, InvalidateAll, RefreshReused, RefreshDenied,
         RefreshAccepted, Reply, Fail, Expire, vars, table
    <3> QED BY <1>1, <3>1, SessionWrites
  <2> QED BY <2>2, <2>3, <2>4
<1> QED BY <1>14, <1>15 DEF Eras, Goal

(* Every step of the handlers is one of the account's, or none.            *)
LEMMA CredentialStep ==
  /\ IInv /\ Eras /\ Undisturbed /\ Undisturbed' /\ [Next]_vars /\ [Completes]_vars
  => [Cred!Next]_(Cred!vars)
<1> SUFFICES ASSUME IInv, Eras, Undisturbed, Undisturbed', [Next]_vars, [Completes]_vars
             PROVE  Cred!Next \/ UNCHANGED Cred!vars
  OBVIOUS
<1>1. /\ TypeOK /\ Tables /\ Scripts /\ Rooms /\ ResetsApart /\ ResetsApart' /\ excused' = {}
      /\ Len(tokens) \in Nat /\ Len(sessions) \in Nat /\ password \in Nat
  BY LenProperties, BoundsAssumption DEF IInv, TypeOK, Tables, Undisturbed
<1>2. \A r \in Requests :
        /\ \A pc : Moves(r, pc) => Only(r) /\ req'[r].pc = pc /\ req'[r].op = req[r].op
        /\ \A op, pc, u : Turns(r, op, pc, u) => Only(r) /\ req'[r].pc = pc /\ req'[r].op = op
  BY DEF Moves, Turns, Only
<1> DEFINE Claims(q) == q.op = "reset" /\ q.pc \in {"store", "mark", "invalidate"}
           Ends(q) == q.op \in {"reset", "change"} /\ q.pc \in {"mark", "invalidate", "purge"}
           Stutter == UNCHANGED Cred!vars
<1>3. ASSUME NEW r \in Requests, Only(r), UNCHANGED tokens, ~Claims(req[r]), ~Claims(req'[r])
      PROVE  Usable' = Usable
  <2>1. /\ Resetting' <=> Resetting
        /\ \A t : (\E q \in Requests : /\ req'[q].op = "reset" /\ req'[q].token = t
                                       /\ req'[q].pc = "store")
                  <=> (\E q \in Requests : /\ req[q].op = "reset" /\ req[q].token = t
                                           /\ req[q].pc = "store")
    BY <1>3 DEF Only, Resetting
  <2>2. Live' = Live
    BY <1>3 DEF Live
  <2>3. Held' = Held
    <3>1. /\ \A t : t \in Held' <=>
               /\ t \in 1..Len(tokens)
               /\ \E q \in Requests :
                    req'[q].op = "reset" /\ req'[q].token = t /\ req'[q].pc = "store"
          /\ \A t : t \in Held <=>
               /\ t \in 1..Len(tokens)
               /\ \E q \in Requests :
                    req[q].op = "reset" /\ req[q].token = t /\ req[q].pc = "store"
      BY <1>3 DEF Held
    <3>2. \A t : t \in Held' <=> t \in Held
      BY <2>1, <3>1
    <3> QED BY <3>2
  <2> QED BY <2>1, <2>2, <2>3 DEF Usable
<1>4. ASSUME NEW r \in Requests, Only(r), UNCHANGED sessions, Ends(req[r]) <=> Ends(req'[r])
      PROVE  Open' = Open
  <2>1. Ending' <=> Ending
    BY <1>4 DEF Only, Ending, Replacing
  <2> QED BY <1>4, <2>1 DEF Open, LiveSessions
<1>5. ASSUME Usable' = Usable, Open' = Open, UNCHANGED password,
             Len(tokens') = Len(tokens), Len(sessions') = Len(sessions)
      PROVE  Stutter
  BY <1>5 DEF Cred!vars
<1>6. ASSUME NEW r \in Requests, Only(r), UNCHANGED <<tokens, sessions, password>>,
             ~Claims(req[r]), ~Claims(req'[r]), Ends(req[r]) <=> Ends(req'[r])
      PROVE  Stutter
  BY <1>3, <1>4, <1>5, <1>6
<1>7. ASSUME NEW r \in Requests, Claims(req[r]) \/ Claims(req'[r]), Only(r)
      PROVE  \A q \in Requests \ {r} : ~Claims(req[q]) /\ ~Claims(req'[q])
  BY <1>1, <1>7 DEF ResetsApart, Only
<1> HIDE DEF Stutter
<1>8. ASSUME NEW r \in Requests,
             \/ BeginForgot(r) \/ BeginChange(r) \/ BeginLogin(r) \/ BeginGarbage(r)
             \/ \E t \in 1..MaxTokens : BeginReset(r, t)
             \/ \E s \in 1..MaxSessions : BeginRefresh(r, s)
             \/ ForgotFind(r) \/ ResetDenied(r) \/ RefreshReused(r) \/ RefreshDenied(r)
             \/ RefreshAccepted(r) \/ Reply(r)
      PROVE  Stutter
  <2>1. UNCHANGED <<tokens, sessions, password>>
    BY <1>8 DEF BeginForgot, BeginChange, BeginLogin, BeginGarbage, BeginReset, BeginRefresh,
         Arrive, ForgotFind, ResetDenied, RefreshReused, RefreshDenied, RefreshAccepted, Reply,
         table
  <2>2. /\ Only(r) /\ req[r].pc \in {"idle", "find", "reply"}
        /\ \/ req'[r].pc \in {"idle", "find", "create", "insert", "reply"}
           \/ req'[r].pc = "purge" /\ req'[r].op = "refresh"
    BY <1>1, <1>2, <1>8, Effects DEF At
  <2> QED BY <1>6, <2>1, <2>2
<1>9. ASSUME NEW r \in Requests, Mail(r) PROVE Stutter
  <2>1. /\ Only(r) /\ req[r].pc = "mail" /\ req'[r].pc = "reply"
        /\ UNCHANGED <<tokens, sessions, password>>
    BY <1>1, <1>2, <1>9, Effects DEF At, Mail
  <2> QED BY <1>3, <1>4, <1>5, <2>1
<1>10. ASSUME NEW r \in Requests, VerifyCurrent(r) PROVE Stutter
  <2>1. /\ Only(r) /\ req[r].pc = "find" /\ req'[r].pc \in {"store", "insert", "reply"}
        /\ req'[r].op \in {"change", "login"} /\ UNCHANGED table
    BY <1>1, <1>2, <1>10, Effects DEF At, VerifyCurrent
  <2> QED BY <1>6, <2>1 DEF table
<1>11. ASSUME NEW r \in Requests, ResetAccepted(r) PROVE Stutter
  <2>1. /\ Only(r) /\ req[r].op = "reset" /\ req[r].pc = "find" /\ req'[r].pc = "store"
        /\ req'[r].op = "reset" /\ req'[r].token = req[r].token
        /\ tokens[req[r].token] = "live" /\ UNCHANGED table
        /\ req[r].token \in 1..Len(tokens)
    BY <1>1, <1>2, <1>11, Effects
    DEF At, Carries, ResetAccepted, ReadToken, Scripts, Scripted
  <2>2. ~Resetting /\ ~Resetting' /\ Held = {} /\ Held' \subseteq {req[r].token}
    BY <1>7, <2>1 DEF Resetting, Held
  <2>3. Usable' = Usable
    <3>1. Live' = Live /\ req[r].token \in Live
      BY <2>1 DEF Live, table
    <3> QED BY <2>2, <3>1 DEF Usable
  <2>4. Open' = Open
    BY <1>4, <2>1 DEF table
  <2> QED BY <1>5, <2>1, <2>3, <2>4 DEF table
<1>12. ASSUME NEW r \in Requests, CreateToken(r) PROVE Cred!Next
  <2> DEFINE n == Len(tokens) + 1
  <2>1. /\ Only(r) /\ req[r].pc = "create" /\ req'[r].pc = "mail"
        /\ UNCHANGED <<sessions, password>>
    <3>1. Moves(r, "mail")
      BY <1>1, <1>12, RoomFor, Creating DEF CreateToken
    <3> QED BY <1>2, <1>12, <3>1 DEF CreateToken, At
  <2>2. /\ Len(tokens') = n /\ tokens'[n] = "live"
        /\ \A t \in 1..Len(tokens) : tokens'[t] = tokens[t]
        /\ n \in Nat /\ n \notin 1..Len(tokens) /\ 1..n = (1..Len(tokens)) \cup {n}
    <3>1. tokens \in Seq(TokenStates) /\ "live" \in TokenStates
      BY <1>1 DEF Tables, TokenStates
    <3>2. tokens' = Append(tokens, "live")
      BY <1>12 DEF CreateToken
    <3>3. Len(tokens') = n /\ tokens'[n] = "live"
      BY <3>1, <3>2, AppendProperties
    <3>4. \A t \in 1..Len(tokens) : tokens'[t] = tokens[t]
      BY <3>1, <3>2, AppendProperties
    <3> QED BY <1>1, <3>3, <3>4
  <2> HIDE DEF n
  <2>3. Live' = Live \cup {n}
    BY <2>2 DEF Live
  <2>4. Resetting' <=> Resetting
    BY <2>1 DEF Resetting, Only
  <2>5. Held' = Held
    <3>1. \A t : (\E q \in Requests : /\ req'[q].op = "reset" /\ req'[q].token = t
                                      /\ req'[q].pc = "store")
                 <=> (\E q \in Requests : /\ req[q].op = "reset" /\ req[q].token = t
                                          /\ req[q].pc = "store")
      BY <2>1 DEF Only
    <3>2. \A q \in Requests : req[q].op = "reset" /\ req[q].pc = "store" =>
                                req[q].token \in 1..Len(tokens)
      BY <1>1 DEF Scripts, Scripted
    <3>3. \A t : t \in Held' <=>
            /\ t \in 1..n
            /\ \E q \in Requests :
                 req'[q].op = "reset" /\ req'[q].token = t /\ req'[q].pc = "store"
      BY <2>2 DEF Held
    <3>4. \A t : t \in Held <=>
            /\ t \in 1..Len(tokens)
            /\ \E q \in Requests :
                 req[q].op = "reset" /\ req[q].token = t /\ req[q].pc = "store"
      BY DEF Held
    <3>5. ASSUME NEW t PROVE t \in Held' <=> t \in Held
      <4>1. t \in 1..n <=> t \in 1..Len(tokens) \/ t = n
        BY <2>2
      <4>2. (\E q \in Requests : req[q].op = "reset" /\ req[q].token = t /\ req[q].pc = "store")
            => t \in 1..Len(tokens)
        BY <3>2
      <4> QED BY <3>1, <3>3, <3>4, <4>1, <4>2
    <3> QED BY <3>5
  <2>6. Usable' \in {Usable, Usable \cup {n}}
    BY <2>3, <2>4, <2>5 DEF Usable
  <2>7. Open' = Open
    BY <1>4, <2>1
  <2>8. Cred!Issue(n)
    BY <2>1, <2>2, <2>6, <2>7 DEF Cred!Issue
  <2> QED BY <2>2, <2>8 DEF Cred!Next
<1>13. ASSUME NEW r \in Requests, SetPasswordByToken(r) PROVE Cred!Next
  <2> DEFINE u == req[r].token
  <2>1. /\ Only(r) /\ req[r].op = "reset" /\ req[r].pc = "store" /\ req'[r].pc = "mark"
        /\ req'[r].op = "reset" /\ UNCHANGED <<tokens, sessions>> /\ password' = password + 1
        /\ u \in 1..Len(tokens)
    BY <1>1, <1>2, <1>13, Effects
    DEF At, Stores, SetPasswordByToken, StoreThen, Scripts, Scripted
  <2>2. ~Resetting
    BY <1>7, <2>1 DEF Resetting
  <2>3. u \in Usable
    BY <2>1, <2>2 DEF Usable, Held
  <2>4. Usable' = {} /\ Open' = {}
    BY <2>1 DEF Usable, Resetting, Open, Ending, Replacing
  <2>5. Cred!Reset(u)
    BY <2>1, <2>3, <2>4 DEF Cred!Reset
  <2> QED BY <2>3, <2>5 DEF Cred!Next
<1>14. ASSUME NEW r \in Requests, ChangePassword(r) PROVE Cred!Next
  <2>1. /\ Only(r) /\ req[r].op = "change" /\ req'[r].op = "change" /\ req'[r].pc = "purge"
        /\ UNCHANGED <<tokens, sessions>> /\ password' = password + 1
    BY <1>1, <1>2, <1>14, Effects DEF Stores, ChangePassword, StoreThen
  <2>2. Usable' = Usable
    BY <1>3, <2>1
  <2>3. Open' = {}
    BY <2>1 DEF Open, Ending, Replacing
  <2>4. Cred!Change
    BY <2>1, <2>2, <2>3 DEF Cred!Change
  <2> QED BY <2>4 DEF Cred!Next
<1>15. ASSUME NEW r \in Requests, MarkUsed(r) PROVE Stutter
  <2>1. /\ Only(r) /\ req[r].op = "reset" /\ req[r].pc = "mark" /\ req'[r].pc = "invalidate"
        /\ req'[r].op = "reset" /\ UNCHANGED <<sessions, password>> /\ Len(tokens') = Len(tokens)
    <3>1. Len(tokens') = Len(tokens)
      BY <1>1, <1>15, TokenWrites
    <3>2. UNCHANGED <<sessions, password>>
      BY <1>15 DEF MarkUsed, MarkAs
    <3>3. Only(r) /\ req[r].pc = "mark" /\ req'[r].pc = "invalidate" /\ req'[r].op = req[r].op
      BY <1>1, <1>2, <1>15, Effects DEF At
    <3> QED BY <1>1, <3>1, <3>2, <3>3 DEF Scripts, Scripted
  <2>2. Resetting /\ Resetting'
    BY <2>1 DEF Resetting
  <2>3. Usable' = Usable
    BY <2>2 DEF Usable
  <2> QED BY <1>4, <1>5, <2>1, <2>3
<1>16. ASSUME NEW r \in Requests, InvalidateAllForUser(r) PROVE Stutter
  <2>1. /\ Only(r) /\ req[r].op = "reset" /\ req[r].pc = "invalidate" /\ req'[r].pc = "purge"
        /\ req'[r].op = "reset" /\ UNCHANGED <<sessions, password>> /\ Len(tokens') = Len(tokens)
        /\ \A t \in 1..Len(tokens) : tokens'[t] = "used"
    <3>1. Len(tokens') = Len(tokens) /\ \A t \in 1..Len(tokens) : tokens'[t] = "used"
      BY <1>1, <1>16, TokenWrites
    <3>2. UNCHANGED <<sessions, password>>
      BY <1>16 DEF InvalidateAllForUser, InvalidateAll
    <3>3. Only(r) /\ req[r].pc = "invalidate" /\ req'[r].pc = "purge" /\ req'[r].op = req[r].op
      BY <1>1, <1>2, <1>16, Effects DEF At
    <3> QED BY <1>1, <3>1, <3>2, <3>3 DEF Scripts, Scripted
  <2>2. Resetting
    BY <2>1 DEF Resetting
  <2>3. Live' = {} /\ Held' = {}
    BY <1>7, <2>1 DEF Live, Held
  <2>4. Usable' = Usable
    BY <2>2, <2>3 DEF Usable
  <2> QED BY <1>4, <1>5, <2>1, <2>4
<1>17. ASSUME NEW r \in Requests, RevokeAll(r) PROVE Cred!Next \/ Stutter
  <2>1. /\ Only(r) /\ req[r].pc = "purge" /\ req'[r].pc = "reply"
        /\ UNCHANGED <<tokens, password>> /\ Len(sessions') = Len(sessions)
        /\ \A s \in 1..Len(sessions) : ~sessions'[s].live
    BY <1>1, <1>2, <1>17, Effects, SessionWrites DEF At, RevokeAll
  <2>2. Usable' = Usable
    BY <1>3, <2>1
  <2>3. Open' = {}
    <3>1. LiveSessions' = {}
      BY <2>1 DEF LiveSessions
    <3> QED BY <3>1 DEF Open
  <2>4. Cred!CloseSessions
    BY <2>1, <2>2, <2>3 DEF Cred!CloseSessions
  <2> QED BY <2>4 DEF Cred!Next
<1>18. ASSUME NEW r \in Requests, Link(r) PROVE Cred!Next
  <2>1. /\ Only(r) /\ req[r].pc = "link" /\ req[r].op = "refresh" /\ req'[r].op = "refresh"
        /\ req'[r].pc \in {"reply", "purge"}
        /\ UNCHANGED <<tokens, password>> /\ SessionsEnd /\ Len(sessions') = Len(sessions)
    BY <1>1, <1>2, <1>18, Effects, SessionWrites DEF At, Link
  <2>2. Usable' = Usable
    BY <1>3, <2>1
  <2>3. Ending' <=> Ending
    BY <2>1 DEF Only, Ending, Replacing
  <2>4. LiveSessions' \subseteq LiveSessions
    BY <2>1 DEF LiveSessions, SessionsEnd
  <2>5. \A s \in LiveSessions' : sessions'[s].era = sessions[s].era
    BY <2>1 DEF LiveSessions, SessionsEnd
  <2>6. Open' \in SUBSET Open
    <3>1. \A x \in Open' : x \in Open
      BY <2>3, <2>4, <2>5 DEF Open
    <3> QED BY <3>1
  <2>7. Cred!CloseSessions
    BY <2>1, <2>2, <2>6 DEF Cred!CloseSessions
  <2> QED BY <2>7 DEF Cred!Next
<1>19. ASSUME NEW r \in Requests, InsertSession(r) PROVE Cred!Next
  <2> DEFINE n == Len(sessions) + 1
  <2>1. /\ Only(r) /\ req[r].pc = "insert" /\ req'[r].pc \in {"reply", "link"}
        /\ UNCHANGED <<tokens, password>>
    BY <1>1, <1>2, <1>19, Effects DEF At, InsertSession
  <2>2. /\ Len(sessions') = n /\ sessions'[n].live /\ sessions'[n].era = req[r].era
        /\ \A s \in 1..Len(sessions) : sessions'[s] = sessions[s]
        /\ n \in Nat /\ n \notin 1..Len(sessions) /\ 1..n = (1..Len(sessions)) \cup {n}
    <3> DEFINE row == [live |-> TRUE, era |-> req[r].era]
    <3>1. sessions \in Seq(SessionType) /\ row \in SessionType
      BY <1>1 DEF Tables, SessionType, TypeOK, RequestType
    <3>2. sessions' = Append(sessions, row)
      BY <1>19 DEF InsertSession
    <3> HIDE DEF row
    <3>3. Len(sessions') = n /\ sessions'[n] = row
      BY <3>1, <3>2, AppendProperties
    <3>4. \A s \in 1..Len(sessions) : sessions'[s] = sessions[s]
      BY <3>1, <3>2, AppendProperties
    <3> QED BY <1>1, <3>3, <3>4 DEF row
  <2>3. req[r].era = password \/ Ending
    <3>1. req[r].era \in Nat /\ req[r].era <= password
      BY <1>1, BoundsAssumption DEF TypeOK, RequestType, Eras
    <3>2. CASE req[r].era < password /\ ~Ending
      <4>1. r \in overtaken \/ req[r].session \in excused
        BY <2>1, <3>2 DEF IInv, LateInserts, Ending
      <4>2. Len(sessions') \in excused'
        BY <1>19, <3>2, <4>1 DEF InsertSession
      <4> QED BY <1>1, <4>2
    <3> QED BY <1>1, <3>1, <3>2
  <2> HIDE DEF n
  <2>4. LiveSessions' = LiveSessions \cup {n}
    BY <2>2 DEF LiveSessions
  <2>5. Ending' <=> Ending
    BY <2>1 DEF Ending, Replacing, Only
  <2>6. /\ \A s \in LiveSessions : sessions'[s].era = sessions[s].era
        /\ sessions'[n].era = password \/ Ending
    BY <2>2, <2>3 DEF LiveSessions
  <2>7. Open' \in {Open, Open \cup {[session |-> n, era |-> password]}}
    <3>1. CASE Ending
      BY <2>5, <3>1 DEF Open
    <3>2. CASE ~Ending
      BY <2>4, <2>5, <2>6, <3>2 DEF Open
    <3> QED BY <3>1, <3>2
  <2>8. Usable' = Usable
    BY <1>3, <2>1
  <2>9. Cred!OpenSession(n)
    BY <2>1, <2>2, <2>7, <2>8 DEF Cred!OpenSession
  <2> QED BY <2>2, <2>9 DEF Cred!Next
<1>20. ASSUME NEW t, Usable' = Usable \ {t}, Open' = Open,
              UNCHANGED <<password, sessions>>, Len(tokens') = Len(tokens)
       PROVE  Cred!Next \/ Stutter
  <2>1. CASE t \notin Usable
    <3>1. Usable' = Usable
      BY <1>20, <2>1
    <3> QED BY <1>5, <1>20, <3>1
  <2>2. CASE t \in Usable
    <3>1. Cred!Expire(t)
      BY <1>20, <2>2 DEF Cred!Expire
    <3> QED BY <2>2, <3>1 DEF Cred!Next
  <2> QED BY <2>1, <2>2
<1>21. ASSUME NEW r \in Requests, Fail(r) PROVE Cred!Next \/ Stutter
  <2>1. /\ Only(r) /\ req'[r].pc = "idle" /\ UNCHANGED table
        /\ r \notin Replacing
    <3>1. Completes
      <4>1. CASE UNCHANGED vars
        <5>1. Only(r) /\ req'[r].pc = "idle" /\ req'[r] = req[r] /\ ~At(r, "idle")
          BY <1>1, <1>2, <1>21, <4>1, Effects DEF vars
        <5> QED BY <5>1 DEF At
      <4> QED BY <4>1
    <3> QED BY <1>1, <1>2, <1>21, <3>1, Effects DEF Fail, Completes
  <2>2. CASE ~Claims(req[r])
    <3>1. ~Ends(req[r]) /\ ~Ends(req'[r]) /\ ~Claims(req'[r])
      BY <2>1 DEF Replacing
    <3> QED BY <1>6, <2>1, <2>2, <3>1 DEF table
  <2>3. CASE Claims(req[r])
    <3> DEFINE u == req[r].token
    <3>1. req[r].op = "reset" /\ req[r].pc = "store" /\ u \in 1..Len(tokens)
      BY <1>1, <2>1, <2>3 DEF Replacing, Scripts, Scripted
    <3>2. ~Resetting /\ ~Resetting' /\ Held = {u} /\ Held' = {} /\ Live' = Live
      BY <1>7, <2>1, <2>3, <3>1 DEF Resetting, Held, Live, table
    <3>3. Open' = Open
      BY <1>4, <2>1, <3>1 DEF table
    <3>4. CASE u \in Live
      <4>1. Usable' = Usable
        BY <3>2, <3>4 DEF Usable
      <4> QED BY <1>5, <2>1, <3>3, <4>1 DEF table
    <3>5. CASE u \notin Live
      <4>1. Usable' = Usable \ {u}
        BY <3>2, <3>5 DEF Usable
      <4> QED BY <1>20, <2>1, <3>1, <3>3, <4>1 DEF table
    <3> QED BY <3>4, <3>5
  <2> QED BY <2>2, <2>3
<1>22. ASSUME NEW t \in 1..MaxTokens, Expire(t) PROVE Cred!Next \/ Stutter
  <2>1. /\ t \in 1..Len(tokens) /\ UNCHANGED <<req, password, sessions>>
        /\ Len(tokens') = Len(tokens)
        /\ \A u \in 1..Len(tokens) : tokens'[u] = IF u = t THEN "expired" ELSE tokens[u]
    BY <1>1, <1>22, LenProperties DEF Expire, Tables
  <2>2. Live' = Live \ {t} /\ Held' = Held /\ (Resetting' <=> Resetting)
    BY <2>1 DEF Live, Held, Resetting
  <2>3. Open' = Open
    BY <2>1 DEF Open, Ending, Replacing, LiveSessions
  <2>4. CASE Resetting \/ t \in Held
    <3>1. Usable' = Usable
      BY <2>2, <2>4 DEF Usable
    <3> QED BY <1>5, <2>1, <2>3, <3>1
  <2>5. CASE ~Resetting /\ t \notin Held
    <3>1. Usable' = Usable \ {t}
      BY <2>2, <2>5 DEF Usable
    <3> QED BY <1>20, <2>1, <2>3, <3>1
  <2> QED BY <2>4, <2>5
<1>23. ASSUME UNCHANGED vars PROVE Stutter
  <2>1. /\ Usable' = Usable /\ Open' = Open
    BY <1>23 DEF vars, Usable, Resetting, Live, Held, Open, Ending, Replacing,
       LiveSessions
  <2> QED BY <1>5, <1>23, <2>1 DEF vars
<1>24. Cred!Next \/ Stutter
  BY <1>8, <1>9, <1>10, <1>11, <1>12, <1>13, <1>14, <1>15, <1>16, <1>17, <1>19, <1>21, <1>22,
     <1>23, <1>18 DEF Next
<1> QED BY <1>24 DEF Stutter

(* README.md:146 as an account keeps it while resets do not overlap, no    *)
(* sweep goes by between the SELECT of a login or a refresh and its        *)
(* INSERT, and no request is lost after it stored a password: a reset is   *)
(* one step, by a token that is usable once, and leaves neither a usable   *)
(* token nor an open session; so is a change, for the sessions; and every  *)
(* open session descends from the password there is.  Changes, expiries,   *)
(* mails, logins and refreshes may be under way all the time.              *)
THEOREM CredentialImplemented ==
  Spec /\ []Undisturbed /\ [][Completes]_vars => Cred!Spec
<1>1. Cred!Spec <=> Cred!Init /\ [][Cred!Next]_(Cred!vars)
  BY DEF Cred!Spec
<1>2. Init => Cred!Init /\ Eras
  <2> SUFFICES ASSUME Init PROVE Cred!Init /\ Eras
    OBVIOUS
  <2>1. /\ tokens = <<>> /\ sessions = <<>> /\ password = 0
        /\ \A r \in Requests : req[r] = NoRequest
    BY DEF Init
  <2>2. Len(tokens) = 0 /\ Len(sessions) = 0
    BY <2>1
  <2>3. 1..Len(tokens) = {} /\ 1..Len(sessions) = {}
    BY <2>2
  <2>4. Usable = {} /\ Open = {}
    BY <2>3 DEF Usable, Live, Held, Open, LiveSessions
  <2>5. Eras
    BY <2>1 DEF Eras, NoRequest
  <2> QED BY <2>1, <2>3, <2>4, <2>5 DEF Cred!Init
<1> QED BY <1>1, <1>2, ErasStep, CredentialStep, Inductive, PTL DEF Spec
=============================================================================
