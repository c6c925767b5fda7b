--------------------------- MODULE PasswordReset ---------------------------
(***************************************************************************)
(* Every way one account's password and its proofs of identity meet: the   *)
(* reset tokens mailed to its owner, the password they and changePassword  *)
(* replace, and the sessions that both must end while logins open others   *)
(* and refreshes trade them in.                                            *)
(*                                                                         *)
(* One action is one awaited statement of PasswordResetService,            *)
(* AuthService or RefreshTokenService; handlers interleave at the awaits.  *)
(* A password is the number of times one was stored before it.             *)
(***************************************************************************)
EXTENDS Naturals, Sequences, FiniteSets

CONSTANTS
  Requests,      \* slots for requests in flight
  MaxPasswords,  \* bound: passwords stored
  MaxTokens,     \* bound: reset tokens created
  MaxSessions,   \* bound: sessions created
  MaxLost        \* bound: resets lost between the password and its token

ASSUME RequestsAssumption == IsFiniteSet(Requests)
ASSUME BoundsAssumption ==
  MaxPasswords \in Nat /\ MaxTokens \in Nat /\ MaxSessions \in Nat /\ MaxLost \in Nat

VARIABLES
  password,  \* column password_hash: the number of the password stored
  tokens,    \* table password_reset_tokens, in order of creation
  mailed,    \* the tokens that reached the owner
  sessions,  \* table refresh_tokens of the account, in order of creation;
             \* the era is the password that the session descends from
  handed,    \* the sessions whose token reached a client
  req,       \* the requests in flight
  spends,    \* history: passwords stored on the strength of each token
  lost,      \* history: resets that ended between the password and its token
  overtaken, \* history: requests about to insert a session while the sweep of
             \* the sessions went by, or was lost
  excused    \* history: sessions inserted so, their successors, and those
             \* that a lost sweep left behind

vars == <<password, tokens, mailed, sessions, handed, req, spends, lost, overtaken, excused>>
table == <<password, tokens, mailed, sessions, handed>>
sweeps == <<overtaken, excused>>
history == <<spends, lost, sweeps>>

TokenStates == {"live", "expired", "used"}
Ops == {"none", "forgot", "reset", "change", "login", "refresh"}
Pcs == {"idle", "find", "create", "mail", "store", "mark", "invalidate", "purge",
        "insert", "link", "reply"}
Statuses == {"none", "ok", "denied"}

(* token: the reset token presented or made; session, fresh: the session   *)
(* presented and the one made; era: the password a login read, or that of  *)
(* the session; tokensSeen (of a reset), sessionsSeen: rows before this    *)
(* request's password.                                                     *)
NoRequest == [op |-> "none", pc |-> "idle", token |-> 0, session |-> 0, fresh |-> 0,
              era |-> 0, tokensSeen |-> 0, sessionsSeen |-> 0, status |-> "none"]

Init ==
  /\ password = 0
  /\ tokens = <<>>
  /\ mailed = {}
  /\ sessions = <<>>
  /\ handed = {}
  /\ req = [r \in Requests |-> NoRequest]
  /\ spends = [t \in 1..MaxTokens |-> 0]
  /\ lost = 0
  /\ overtaken = {}
  /\ excused = {}

At(r, pc) == req[r].pc = pc
Running(ops) == {r \in Requests : req[r].op \in ops /\ ~At(r, "reply")}
Become(r, request) == req' = [req EXCEPT ![r] = request]
Goto(r, pc) == Become(r, [req[r] EXCEPT !.pc = pc])
Answer(r, status) ==
  Become(r, [req[r] EXCEPT !.pc = "reply", !.token = 0, !.session = 0, !.status = status])

(* The requests that have stored a password and not yet revoked.           *)
Replacing == {r \in Requests : /\ req[r].op \in {"reset", "change"}
                               /\ req[r].pc \in {"mark", "invalidate", "purge"}}
Inserting == {r \in Requests : At(r, "insert")}

-----------------------------------------------------------------------------
(* Arrivals.  Each leaves room for the rows that may still be written.     *)
Arrive(r, op, t, s) ==
  /\ Become(r, [NoRequest EXCEPT !.op = op, !.pc = "find", !.token = t, !.session = s])
  /\ UNCHANGED <<table, history>>

BeginForgot(r) ==
  /\ At(r, "idle")
  /\ Len(tokens) + Cardinality(Running({"forgot"})) < MaxTokens
  /\ Arrive(r, "forgot", 0, 0)

BeginReset(r, t) ==
  /\ At(r, "idle")
  /\ t \in mailed
  /\ password + Cardinality(Running({"reset", "change"})) < MaxPasswords
  /\ Arrive(r, "reset", t, 0)

BeginChange(r) ==
  /\ At(r, "idle")
  /\ password + Cardinality(Running({"reset", "change"})) < MaxPasswords
  /\ Arrive(r, "change", 0, 0)

RoomForASession == Len(sessions) + Cardinality(Running({"login", "refresh"})) < MaxSessions

BeginLogin(r) == At(r, "idle") /\ RoomForASession /\ Arrive(r, "login", 0, 0)

BeginRefresh(r, s) ==
  /\ At(r, "idle")
  /\ s \in handed
  /\ RoomForASession
  /\ Arrive(r, "refresh", 0, s)

(* A reset token or a refresh token that was never issued.                 *)
BeginGarbage(r) == At(r, "idle") /\ Answer(r, "denied") /\ UNCHANGED <<table, history>>

-----------------------------------------------------------------------------
(* Forgot: an inactive account has the outcome of an active one, except    *)
(* for the row; so has a mail that is lost.                                *)
ForgotFind(r) ==
  /\ At(r, "find")
  /\ req[r].op = "forgot"
  /\ Goto(r, "create") \/ Answer(r, "ok")
  /\ UNCHANGED <<table, history>>

CreateToken(r) ==
  /\ At(r, "create")
  /\ tokens' = Append(tokens, "live")
  /\ Become(r, [req[r] EXCEPT !.pc = "mail", !.token = Len(tokens')])
  /\ UNCHANGED <<password, mailed, sessions, handed, history>>

Mail(r) ==
  /\ At(r, "mail")
  /\ mailed' \in {mailed, mailed \cup {req[r].token}}
  /\ Answer(r, "ok")
  /\ UNCHANGED <<password, tokens, sessions, handed, history>>

-----------------------------------------------------------------------------
(* Reset: the token is judged as read.                                     *)
ResetDenied(r) ==
  /\ At(r, "find")
  /\ req[r].op = "reset"
  /\ tokens[req[r].token] # "live"
  /\ Answer(r, "denied")
  /\ UNCHANGED <<table, history>>

ReadToken(r, accepted) ==
  /\ At(r, "find")
  /\ req[r].op = "reset"
  /\ tokens[req[r].token] \in accepted
  /\ Goto(r, "store")
  /\ UNCHANGED <<table, history>>

(* Mutant: only the expiry is looked at.                                   *)
BugReadUsed(r) == ReadToken(r, {"live", "used"})

ResetAccepted(r) == ReadToken(r, {"live"})

(* Change and login: the account is read, and the password verified, by    *)
(* argon2 in a worker thread, against the hash as read.                    *)
VerifyCurrent(r) ==
  /\ At(r, "find")
  /\ \/ req[r].op = "change" /\ Goto(r, "store")
     \/ req[r].op = "login" /\ Become(r, [req[r] EXCEPT !.pc = "insert", !.era = password])
     \/ req[r].op \in {"change", "login"} /\ Answer(r, "denied")
  /\ UNCHANGED <<table, history>>

StoreThen(r, pc, tokensSeen) ==
  /\ password' = password + 1
  /\ Become(r, [req[r] EXCEPT !.pc = pc, !.status = "ok",
                              !.tokensSeen = tokensSeen, !.sessionsSeen = Len(sessions)])
  /\ UNCHANGED <<tokens, mailed, sessions, handed, lost, sweeps>>

SetPasswordByToken(r) ==
  /\ At(r, "store")
  /\ req[r].op = "reset"
  /\ StoreThen(r, "mark", Len(tokens))
  /\ spends' = [spends EXCEPT ![req[r].token] = @ + 1]

(* Mutant: the sessions are left alone.                                    *)
BugKeepSessions(r) ==
  At(r, "store") /\ req[r].op = "change" /\ StoreThen(r, "reply", 0) /\ UNCHANGED spends

ChangePassword(r) ==
  At(r, "store") /\ req[r].op = "change" /\ StoreThen(r, "purge", 0) /\ UNCHANGED spends

MarkAs(r, state) ==
  /\ At(r, "mark")
  /\ tokens' = [tokens EXCEPT ![req[r].token] = state]
  /\ Goto(r, "invalidate")
  /\ UNCHANGED <<password, mailed, sessions, handed, history>>

(* Mutant: the row is emptied instead of marked.                           *)
BugMarkNull(r) == MarkAs(r, "null")

MarkUsed(r) == MarkAs(r, "used")

InvalidateAll(r, states) ==
  /\ At(r, "invalidate")
  /\ tokens' = [t \in DOMAIN tokens |-> IF tokens[t] \in states THEN "used" ELSE tokens[t]]
  /\ Goto(r, "purge")
  /\ UNCHANGED <<password, mailed, sessions, handed, history>>

(* Mutant: only the expired tokens are swept.                              *)
BugSweepExpired(r) == InvalidateAll(r, {"expired"})

InvalidateAllForUser(r) == InvalidateAll(r, {"live", "expired"})

(* The row a reset, a change or a refresh ends with: one UPDATE.           *)
RevokeAll(r) ==
  /\ At(r, "purge")
  /\ sessions' = [s \in DOMAIN sessions |-> [sessions[s] EXCEPT !.live = FALSE]]
  /\ overtaken' = IF r \in Replacing THEN Inserting ELSE overtaken
  /\ Goto(r, "reply")
  /\ UNCHANGED <<password, tokens, mailed, handed, spends, lost, excused>>

-----------------------------------------------------------------------------
(* Refresh: the session is judged as read, revoked before anything else;   *)
(* it may be expired, or the secret wrong.                                 *)
RefreshReused(r) ==
  /\ At(r, "find")
  /\ req[r].op = "refresh"
  /\ ~sessions[req[r].session].live
  /\ Become(r, [req[r] EXCEPT !.pc = "purge", !.status = "denied"])
  /\ UNCHANGED <<table, history>>

RefreshDenied(r) ==
  /\ At(r, "find")
  /\ req[r].op = "refresh"
  /\ sessions[req[r].session].live
  /\ Answer(r, "denied")
  /\ UNCHANGED <<table, history>>

RefreshAccepted(r) ==
  /\ At(r, "find")
  /\ req[r].op = "refresh"
  /\ sessions[req[r].session].live
  /\ Become(r, [req[r] EXCEPT !.pc = "insert", !.era = sessions[req[r].session].era])
  /\ UNCHANGED <<table, history>>

(* The row of a login, or the successor of the one presented.              *)
InsertSession(r) ==
  /\ At(r, "insert")
  /\ sessions' = Append(sessions, [live |-> TRUE, era |-> req[r].era])
  /\ Become(r, [req[r] EXCEPT !.pc = IF req[r].op = "login" THEN "reply" ELSE "link",
                              !.fresh = Len(sessions'), !.status = "ok"])
  /\ overtaken' = overtaken \ {r}
  /\ excused' = IF req[r].era < password /\ (r \in overtaken \/ req[r].session \in excused)
                THEN excused \cup {Len(sessions')} ELSE excused
  /\ UNCHANGED <<password, tokens, mailed, handed, spends, lost>>

(* The presented row is revoked by its id.  The account, read again after, *)
(* may have been deactivated.                                              *)
Link(r) ==
  /\ At(r, "link")
  /\ sessions' = [sessions EXCEPT ![req[r].session].live = FALSE]
  /\ Goto(r, "reply") \/ Become(r, [req[r] EXCEPT !.pc = "purge", !.status = "denied"])
  /\ UNCHANGED <<password, tokens, mailed, handed, history>>

-----------------------------------------------------------------------------
Reply(r) ==
  /\ At(r, "reply")
  /\ handed' = IF req[r].status = "ok" THEN handed \cup ({req[r].fresh} \ {0}) ELSE handed
  /\ Become(r, NoRequest)
  /\ UNCHANGED <<password, tokens, mailed, sessions, history>>

(* A statement rejects, the process stops: nothing is undone.              *)
Fail(r) ==
  /\ ~At(r, "idle")
  /\ \/ At(r, "mark") /\ lost < MaxLost /\ lost' = lost + 1
     \/ ~At(r, "mark") /\ UNCHANGED lost
  /\ \/ /\ r \in Replacing
        /\ overtaken' = Inserting
        /\ excused' = excused \cup DOMAIN sessions
     \/ /\ r \notin Replacing
        /\ overtaken' = overtaken \ {r}
        /\ UNCHANGED excused
  /\ Become(r, NoRequest)
  /\ UNCHANGED <<table, spends>>

Expire(t) ==
  /\ t \in DOMAIN tokens
  /\ tokens[t] = "live"
  /\ tokens' = [tokens EXCEPT ![t] = "expired"]
  /\ UNCHANGED <<password, mailed, sessions, handed, req, history>>

-----------------------------------------------------------------------------
Next ==
  \/ \E r \in Requests :
       \/ BeginForgot(r) \/ BeginChange(r) \/ BeginLogin(r) \/ BeginGarbage(r)
       \/ \E t \in 1..MaxTokens : BeginReset(r, t)
       \/ \E s \in 1..MaxSessions : BeginRefresh(r, s)
       \/ ForgotFind(r) \/ CreateToken(r) \/ Mail(r)
       \/ ResetDenied(r) \/ ResetAccepted(r) \/ VerifyCurrent(r)
       \/ SetPasswordByToken(r) \/ ChangePassword(r)
       \/ MarkUsed(r) \/ InvalidateAllForUser(r) \/ RevokeAll(r)
       \/ RefreshReused(r) \/ RefreshDenied(r) \/ RefreshAccepted(r)
       \/ InsertSession(r) \/ Link(r) \/ Reply(r) \/ Fail(r)
  \/ \E t \in 1..MaxTokens : Expire(t)

Spec == Init /\ [][Next]_vars

-----------------------------------------------------------------------------
(* Properties.                                                             *)

RequestType ==
  [op : Ops, pc : Pcs, token : 0..MaxTokens,
   session : 0..MaxSessions, fresh : 0..MaxSessions, era : 0..MaxPasswords,
   tokensSeen : 0..MaxTokens, sessionsSeen : 0..MaxSessions, status : Statuses]

(* Every variable has its type, within the room arrivals reserve.          *)
TypeOK ==
  /\ password \in 0..MaxPasswords
  /\ Len(tokens) <= MaxTokens /\ \A t \in DOMAIN tokens : tokens[t] \in TokenStates
  /\ mailed \subseteq DOMAIN tokens
  /\ Len(sessions) <= MaxSessions
  /\ \A s \in DOMAIN sessions : sessions[s] \in [live : BOOLEAN, era : 0..MaxPasswords]
  /\ handed \subseteq DOMAIN sessions
  /\ req \in [Requests -> RequestType]
  /\ spends \in [1..MaxTokens -> 0..MaxPasswords]
  /\ lost \in 0..MaxLost
  /\ overtaken \subseteq Inserting
  /\ excused \subseteq DOMAIN sessions

(* password-reset.service.ts:23-25: when a reset is answered with success, *)
(* every reset token and every session that existed when it stored the new *)
(* password is spent; when a password change is, every session.  What was  *)
(* created between the password and the UPDATE is swept as well, what is   *)
(* created after the UPDATE is not.                                        *)
ResetCompletes ==
  \A r \in Requests :
    At(r, "reply") /\ req[r].status = "ok" =>
      /\ req[r].op = "reset" => \A t \in 1..req[r].tokensSeen : tokens[t] = "used"
      /\ \A s \in 1..req[r].sessionsSeen : ~sessions[s].live

(* A token stores one password, and one more for every other request that  *)
(* reads it unused before the first marks it, or that is lost before it    *)
(* marks it: it is single-use (README.md:146) only while resets neither    *)
(* overlap nor fail.                                                       *)
SpendBound == \A t \in 1..MaxTokens : spends[t] <= Cardinality(Requests) + lost

(* A session that descends from a replaced password, by login or through   *)
(* any number of refreshes, is on its way to be revoked, unless the sweep  *)
(* that should have ended it was lost, or went by between the SELECT and   *)
(* the INSERT of the login or the refresh that made it, or of one that     *)
(* made a session it descends from.                                        *)
OldSessionsEnd ==
  \A s \in DOMAIN sessions :
    sessions[s].live /\ sessions[s].era < password => s \in excused \/ Replacing # {}
=============================================================================
