--------------------------- MODULE RefreshTokens ---------------------------
(***************************************************************************)
(* The refresh-token sessions of the auth module: the refresh_tokens table *)
(* and the requests that read and write it (login, refresh, logout,        *)
(* logout-all), together with the activation flag of the account.          *)
(*                                                                         *)
(* One action is one awaited database statement of a handler.  Node runs a *)
(* handler without interruption between two awaits, and any number of      *)
(* handlers (of one process or of several behind a balancer) interleave at *)
(* the awaits.  A request keeps in req[r] what its handler keeps in local  *)
(* variables: what it read is not read again.                              *)
(***************************************************************************)
EXTENDS Naturals, FiniteSets

CONSTANTS
  Users,      \* accounts
  Requests,   \* slots for requests in flight: their number bounds concurrency
  MaxTokens,  \* bound: rows of refresh_tokens ever created
  NoUser      \* the user of a request about no known account

ASSUME NoUserAssumption == NoUser \notin Users
ASSUME MaxTokensAssumption == MaxTokens \in Nat

(* Row ids in order of creation; 0 stands for null and for an unknown id.  *)
Tokens == 1..MaxTokens
NoToken == 0

VARIABLES
  last,        \* number of rows created
  owner,       \* column user_id
  revoked,     \* column revoked_at is set
  replacedBy,  \* column replaced_by_id
  expired,     \* expires_at lies in the past
  active,      \* users.is_active and not soft-deleted, per user
  req,         \* the handlers in flight
  delivered,   \* tokens whose raw string has reached a client
  root,        \* history: the login that a row descends from by rotations
  shut         \* history: requests whose user was inactive ever since arrival

columns == <<owner, revoked, replacedBy, expired>>
history == <<root, shut>>
vars == <<last, columns, active, req, delivered, history>>

Ops == {"none", "login", "refresh", "logout", "logoutAll"}
Pcs == {"idle", "credentials", "find", "issue", "link", "loadUser", "actor",
        "purge", "lookup", "revokeOne", "reply"}
Statuses == {"none", "ok", "rejected", "reused", "inactive", "silent"}

(* A request: op and pc say where its handler is, tok and good which token *)
(* was presented and whether its secret is the right one, fresh the row it *)
(* has created, status the answer it is about to give, horizon the newest  *)
(* row when it decided to revoke all the sessions of its user.             *)
NoRequest == [op |-> "none", pc |-> "idle", user |-> NoUser, tok |-> NoToken,
              good |-> FALSE, fresh |-> NoToken, status |-> "none",
              horizon |-> NoToken]

Init ==
  /\ last = 0
  /\ owner = [t \in Tokens |-> NoUser]
  /\ revoked = [t \in Tokens |-> FALSE]
  /\ replacedBy = [t \in Tokens |-> NoToken]
  /\ expired = [t \in Tokens |-> FALSE]
  /\ active = [u \in Users |-> TRUE]
  /\ req = [r \in Requests |-> NoRequest]
  /\ delivered = {}
  /\ root = [t \in Tokens |-> NoToken]
  /\ shut = {}

At(r, pc) == req[r].pc = pc
Become(r, handler) == req' = [req EXCEPT ![r] = handler]
Goto(r, pc) == Become(r, [req[r] EXCEPT !.pc = pc])
Answer(r, status) == Become(r, [req[r] EXCEPT !.pc = "reply", !.status = status])

-----------------------------------------------------------------------------
(* Arrivals.                                                               *)

(* Requests that may still create a row: arrivals keep room for them, so   *)
(* that the bound on rows never leaves a handler without its insert.       *)
Pending == {r \in Requests : /\ req[r].op \in {"login", "refresh"}
                             /\ req[r].fresh = NoToken}
RoomForARow == last + Cardinality(Pending) < MaxTokens

Arrive(r, op, pc, u, t, g) ==
  /\ At(r, "idle")
  /\ Become(r, [NoRequest EXCEPT !.op = op, !.pc = pc, !.user = u, !.tok = t, !.good = g])
  /\ shut' = IF u \in Users /\ ~active[u] THEN shut \cup {r} ELSE shut
  /\ UNCHANGED <<last, columns, active, delivered, root>>

OwnerOf(t) == IF t = NoToken THEN NoUser ELSE owner[t]

BeginLogin(r, u) == RoomForARow /\ Arrive(r, "login", "credentials", u, NoToken, FALSE)
BeginRefresh(r, t, g) == RoomForARow /\ Arrive(r, "refresh", "find", OwnerOf(t), t, g)
BeginLogout(r, t) == Arrive(r, "logout", "lookup", OwnerOf(t), t, FALSE)
BeginLogoutAll(r, u) == Arrive(r, "logoutAll", "actor", u, NoToken, FALSE)

-----------------------------------------------------------------------------
(* Login: the user is read once; the row is inserted from that snapshot.   *)

CheckCredentials(r) ==
  /\ At(r, "credentials")
  /\ \/ active[req[r].user] /\ Goto(r, "issue")
     \/ Answer(r, "rejected")
  /\ UNCHANGED <<last, columns, active, delivered, history>>

CreateRow(r, rootOfNew) ==
  /\ At(r, "issue")
  /\ last < MaxTokens
  /\ last' = last + 1
  /\ owner' = [owner EXCEPT ![last + 1] = req[r].user]
  /\ root' = [root EXCEPT ![last + 1] = rootOfNew]
  /\ UNCHANGED <<revoked, replacedBy, expired, active, delivered, shut>>

(* Mutant: a login is handed the newest earlier row instead of its own.    *)
BugIssueShared(r) ==
  /\ req[r].op = "login"
  /\ CreateRow(r, last + 1)
  /\ Become(r, [req[r] EXCEPT !.pc = "reply", !.status = "ok",
                             !.fresh = IF last = NoToken THEN last + 1 ELSE last])

IssueSession(r) ==
  /\ req[r].op = "login"
  /\ CreateRow(r, last + 1)
  /\ Become(r, [req[r] EXCEPT !.pc = "reply", !.status = "ok", !.fresh = last + 1])

-----------------------------------------------------------------------------
(* Refresh: rotate() reads the row, inserts the successor, then updates    *)
(* the presented row by its id; refresh() then re-reads the user.          *)

(* Mutant: the expired token has no answer.                                *)
BugExpiredUnanswered(r) ==
  /\ At(r, "find")
  /\ \/ req[r].tok = NoToken
     \/ /\ req[r].tok # NoToken
        /\ ~revoked[req[r].tok]
        /\ ~expired[req[r].tok]
        /\ ~req[r].good
  /\ Answer(r, "rejected")
  /\ UNCHANGED <<last, columns, active, delivered, history>>

RotateInvalid(r) ==
  /\ At(r, "find")
  /\ \/ req[r].tok = NoToken
     \/ /\ req[r].tok # NoToken
        /\ ~revoked[req[r].tok]
        /\ expired[req[r].tok] \/ ~req[r].good
  /\ Answer(r, "rejected")
  /\ UNCHANGED <<last, columns, active, delivered, history>>

RotateReused(r) ==
  /\ At(r, "find")
  /\ req[r].tok # NoToken
  /\ revoked[req[r].tok]
  /\ Become(r, [req[r] EXCEPT !.pc = "purge", !.status = "reused", !.horizon = last])
  /\ UNCHANGED <<last, columns, active, delivered, history>>

(* Mutant: a revoked token rotates.                                        *)
BugRotateRevoked(r) ==
  /\ At(r, "find")
  /\ req[r].tok # NoToken
  /\ ~expired[req[r].tok]
  /\ req[r].good
  /\ Goto(r, "issue")
  /\ UNCHANGED <<last, columns, active, delivered, history>>

RotateValid(r) ==
  /\ At(r, "find")
  /\ req[r].tok # NoToken
  /\ ~revoked[req[r].tok]
  /\ ~expired[req[r].tok]
  /\ req[r].good
  /\ Goto(r, "issue")
  /\ UNCHANGED <<last, columns, active, delivered, history>>

(* Mutant: the presented row is never updated.                             *)
BugNoLink(r) ==
  /\ req[r].op = "refresh"
  /\ CreateRow(r, root[req[r].tok])
  /\ Become(r, [req[r] EXCEPT !.pc = "loadUser", !.fresh = last + 1])

IssueSuccessor(r) ==
  /\ req[r].op = "refresh"
  /\ CreateRow(r, root[req[r].tok])
  /\ Become(r, [req[r] EXCEPT !.pc = "link", !.fresh = last + 1])

(* Mutants: the link is stored without revoked_at; the column is given the  *)
(* user's id where it should hold the successor's.                          *)
BugLinkOnly(r) ==
  /\ At(r, "link")
  /\ replacedBy' = [replacedBy EXCEPT ![req[r].tok] = req[r].fresh]
  /\ Goto(r, "loadUser")
  /\ UNCHANGED <<last, owner, revoked, expired, active, delivered, history>>

BugLinkUser(r) ==
  /\ At(r, "link")
  /\ revoked' = [revoked EXCEPT ![req[r].tok] = TRUE]
  /\ replacedBy' = [replacedBy EXCEPT ![req[r].tok] = req[r].user]
  /\ Goto(r, "loadUser")
  /\ UNCHANGED <<last, owner, expired, active, delivered, history>>

Link(r) ==
  /\ At(r, "link")
  /\ revoked' = [revoked EXCEPT ![req[r].tok] = TRUE]
  /\ replacedBy' = [replacedBy EXCEPT ![req[r].tok] = req[r].fresh]
  /\ Goto(r, "loadUser")
  /\ UNCHANGED <<last, owner, expired, active, delivered, history>>

(* Mutant: the account is not re-checked.                                  *)
BugNoRecheck(r) ==
  /\ At(r, "loadUser")
  /\ Answer(r, "ok")
  /\ UNCHANGED <<last, columns, active, delivered, history>>

LoadUserActive(r) ==
  /\ At(r, "loadUser")
  /\ active[req[r].user]
  /\ Answer(r, "ok")
  /\ UNCHANGED <<last, columns, active, delivered, history>>

LoadUserInactive(r) ==
  /\ At(r, "loadUser")
  /\ ~active[req[r].user]
  /\ Become(r, [req[r] EXCEPT !.pc = "purge", !.status = "inactive", !.horizon = last])
  /\ UNCHANGED <<last, columns, active, delivered, history>>

-----------------------------------------------------------------------------
(* revokeAllForUser: one UPDATE over the rows the user has at that moment. *)

(* Mutants: the UPDATE skips expired rows; the UPDATE forgets the user.     *)
BugPurgeUnexpired(r) ==
  /\ At(r, "purge")
  /\ revoked' = [t \in Tokens |-> revoked[t] \/ (owner[t] = req[r].user /\ ~expired[t])]
  /\ Goto(r, "reply")
  /\ UNCHANGED <<last, owner, replacedBy, expired, active, delivered, history>>

BugPurgeAll(r) ==
  /\ At(r, "purge")
  /\ revoked' = [t \in Tokens |-> revoked[t] \/ t <= last]
  /\ Goto(r, "reply")
  /\ UNCHANGED <<last, owner, replacedBy, expired, active, delivered, history>>

Purge(r) ==
  /\ At(r, "purge")
  /\ revoked' = [t \in Tokens |-> revoked[t] \/ owner[t] = req[r].user]
  /\ Goto(r, "reply")
  /\ UNCHANGED <<last, owner, replacedBy, expired, active, delivered, history>>

-----------------------------------------------------------------------------
(* Logout-all authenticates first (the JWT strategy re-reads the user).    *)

LoadActor(r) ==
  /\ At(r, "actor")
  /\ \/ /\ active[req[r].user]
        /\ Become(r, [req[r] EXCEPT !.pc = "purge", !.status = "ok", !.horizon = last])
     \/ /\ ~active[req[r].user]
        /\ Answer(r, "rejected")
  /\ UNCHANGED <<last, columns, active, delivered, history>>

-----------------------------------------------------------------------------
(* Logout of one session.  The id alone selects the row.                   *)

(* Mutant: logout ignores an expired token too.                            *)
BugIgnoreExpired(r) ==
  /\ At(r, "lookup")
  /\ \/ req[r].tok = NoToken
     \/ req[r].tok # NoToken /\ (revoked[req[r].tok] \/ expired[req[r].tok])
  /\ Answer(r, "ok")
  /\ UNCHANGED <<last, columns, active, delivered, history>>

LogoutNothing(r) ==
  /\ At(r, "lookup")
  /\ req[r].tok = NoToken \/ (req[r].tok # NoToken /\ revoked[req[r].tok])
  /\ Answer(r, "ok")
  /\ UNCHANGED <<last, columns, active, delivered, history>>

LogoutFound(r) ==
  /\ At(r, "lookup")
  /\ req[r].tok # NoToken
  /\ ~revoked[req[r].tok]
  /\ Goto(r, "revokeOne")
  /\ UNCHANGED <<last, columns, active, delivered, history>>

(* Any rejection of the lookup is swallowed: the client sees a success.    *)
LogoutLookupFails(r) ==
  /\ At(r, "lookup")
  /\ Answer(r, "silent")
  /\ UNCHANGED <<last, columns, active, delivered, history>>

(* Mutant: the omitted replacedById is written as null.                    *)
BugUnlink(r) ==
  /\ At(r, "revokeOne")
  /\ revoked' = [revoked EXCEPT ![req[r].tok] = TRUE]
  /\ replacedBy' = [replacedBy EXCEPT ![req[r].tok] = NoToken]
  /\ Answer(r, "ok")
  /\ UNCHANGED <<last, owner, expired, active, delivered, history>>

RevokeOne(r) ==
  /\ At(r, "revokeOne")
  /\ revoked' = [revoked EXCEPT ![req[r].tok] = TRUE]
  /\ Answer(r, "ok")
  /\ UNCHANGED <<last, owner, replacedBy, expired, active, delivered, history>>

-----------------------------------------------------------------------------
(* The answer reaches the client, or it does not: a statement rejects (500 *)
(* from the exception filter, 401 when it is rotate's lookup), the process *)
(* dies, the connection is lost.  What has been written stays written.     *)

Reply(r) ==
  /\ At(r, "reply")
  /\ delivered' = IF req[r].status = "ok" THEN delivered \cup ({req[r].fresh} \cap Tokens)
                                          ELSE delivered
  /\ Become(r, NoRequest)
  /\ shut' = shut \ {r}
  /\ UNCHANGED <<last, columns, active, root>>

Fail(r) ==
  /\ ~At(r, "idle")
  /\ Become(r, NoRequest)
  /\ shut' = shut \ {r}
  /\ UNCHANGED <<last, columns, active, delivered, root>>

-----------------------------------------------------------------------------
(* The environment: time passes; an administrator flips the account.  The  *)
(* expiry of a row already revoked is left out: revoked_at is tested first. *)

Expire(t) ==
  /\ t <= last
  /\ ~revoked[t]
  /\ ~expired[t]
  /\ expired' = [expired EXCEPT ![t] = TRUE]
  /\ UNCHANGED <<last, owner, revoked, replacedBy, active, req, delivered, history>>

SetActive(u, b) ==
  /\ active[u] # b
  /\ active' = [active EXCEPT ![u] = b]
  /\ shut' = IF b THEN {r \in shut : req[r].user # u} ELSE shut
  /\ UNCHANGED <<last, columns, req, delivered, root>>

-----------------------------------------------------------------------------
Begin(r) ==
  \/ \E u \in Users : BeginLogin(r, u) \/ BeginLogoutAll(r, u)
  \/ \E t \in delivered \cup {NoToken} :
       BeginLogout(r, t) \/ \E g \in BOOLEAN : BeginRefresh(r, t, g)

ServerStep(r) ==
  \/ CheckCredentials(r) \/ IssueSession(r)
  \/ RotateInvalid(r) \/ RotateReused(r) \/ RotateValid(r)
  \/ IssueSuccessor(r) \/ Link(r)
  \/ LoadUserActive(r) \/ LoadUserInactive(r)
  \/ Purge(r) \/ LoadActor(r)
  \/ LogoutNothing(r) \/ LogoutFound(r) \/ LogoutLookupFails(r) \/ RevokeOne(r)
  \/ Reply(r)

Environment ==
  \/ \E t \in Tokens : Expire(t)
  \/ \E u \in Users, b \in BOOLEAN : SetActive(u, b)

Next ==
  \/ \E r \in Requests : Begin(r) \/ ServerStep(r) \/ Fail(r)
  \/ Environment

Spec == Init /\ [][Next]_vars

(* The event loop runs the continuation of every settled await; nothing    *)
(* obliges a client to send a request, nor a statement to fail.            *)
FairSpec == Spec /\ \A r \in Requests : WF_vars(ServerStep(r))

-----------------------------------------------------------------------------
(* Properties.                                                             *)

RequestType ==
  [op : Ops, pc : Pcs, user : Users \cup {NoUser}, tok : 0..MaxTokens,
   good : BOOLEAN, fresh : 0..MaxTokens, status : Statuses, horizon : 0..MaxTokens]

(* Every variable has its type.                                            *)
TypeOK ==
  /\ last \in 0..MaxTokens
  /\ owner \in [Tokens -> Users \cup {NoUser}]
  /\ revoked \in [Tokens -> BOOLEAN]
  /\ replacedBy \in [Tokens -> 0..MaxTokens]
  /\ expired \in [Tokens -> BOOLEAN]
  /\ active \in [Users -> BOOLEAN]
  /\ req \in [Requests -> RequestType]
  /\ delivered \in SUBSET Tokens
  /\ root \in [Tokens -> 0..MaxTokens]
  /\ shut \in SUBSET Requests

(* The replacedById links form chains inside one user's one login: a linked *)
(* row is revoked, and its successor exists, is younger, belongs to the     *)
(* same user and descends from the same login -- whichever rotations of it  *)
(* overlapped, and whatever revoked either row in between.                  *)
Lineage ==
  \A t \in Tokens : replacedBy[t] # NoToken =>
    /\ revoked[t]
    /\ t < replacedBy[t] /\ replacedBy[t] <= last
    /\ owner[replacedBy[t]] = owner[t]
    /\ root[replacedBy[t]] = root[t]

(* A handler that answers "already used", "no longer active" or a           *)
(* logout-all has revoked every row its user had when it decided to do so.  *)
AnsweredPurge(r) ==
  /\ At(r, "reply")
  /\ \/ req[r].status \in {"reused", "inactive"}
     \/ req[r].op = "logoutAll" /\ req[r].status = "ok"

PurgeIsComplete ==
  \A r \in Requests : AnsweredPurge(r) =>
    \A t \in 1..req[r].horizon : owner[t] = req[r].user => revoked[t]

(* A refresh answered with success has retired the token presented to it    *)
(* and left it linked to a successor; the row it hands out is another one,  *)
(* of the same user and login.                                              *)
RotationRetires ==
  \A r \in Requests :
    req[r].op = "refresh" /\ At(r, "reply") /\ req[r].status = "ok" =>
      /\ revoked[req[r].tok]
      /\ replacedBy[req[r].tok] # NoToken
      /\ req[r].fresh \in (1..last) \ {req[r].tok}
      /\ owner[req[r].fresh] = owner[req[r].tok]
      /\ root[req[r].fresh] = root[req[r].tok]

(* No row is handed to two clients: a row created by a request in flight is *)
(* of that request alone and has not been delivered yet.                    *)
OneHolder ==
  \A r \in Requests : req[r].fresh # NoToken =>
    /\ req[r].fresh \notin delivered
    /\ \A s \in Requests \ {r} : req[s].fresh # req[r].fresh

(* A request whose account was inactive from its arrival on is never served *)
(* a session, whatever it had been sent: login, refresh and logout-all each *)
(* re-read the account.                                                     *)
InactiveNeverServed ==
  \A r \in Requests :
    At(r, "reply") /\ req[r].status = "ok" /\ req[r].op # "logout" => r \notin shut

(* A logout whose lookup answered leaves the session revoked.  A logout     *)
(* whose lookup rejects is answered 204 too: its status here is "silent".   *)
LogoutRevokes ==
  \A r \in Requests :
    req[r].op = "logout" /\ At(r, "reply") /\ req[r].status = "ok" /\ req[r].tok # NoToken
      => revoked[req[r].tok]

(* Revocation and expiry are permanent, a row never changes its user, and a *)
(* link once made is never cleared (it may be overwritten).                 *)
Ages ==
  \A t \in 1..last :
    /\ revoked[t] => revoked'[t]
    /\ expired[t] => expired'[t]
    /\ owner'[t] = owner[t]
    /\ replacedBy[t] # NoToken => replacedBy'[t] # NoToken
RowsOnlyAge == [][Ages]_vars

(* A step that revokes a row is the step of a request about that row's      *)
(* user: the sessions of other users are out of its reach.                  *)
RevokesOwn ==
  \A t \in Tokens : revoked'[t] # revoked[t] =>
    \E r \in Requests : req'[r] # req[r] /\ req[r].user = owner[t]
Isolation == [][RevokesOwn]_vars

(* Every request is answered, or fails.                                     *)
Answered == \A r \in Requests : ~At(r, "idle") ~> At(r, "idle")

-----------------------------------------------------------------------------
(* Refinement.  While requests come one at a time, failures and lost        *)
(* answers included, the table implements LoginSession: the current token   *)
(* of a login is its one row that is not revoked and that is the login's    *)
(* first or linked to by its predecessor.  A rotation takes effect at Link. *)
(* Two such rows are no state of a session, so none of them may appear.     *)

SpentTokens == {t \in 1..last : root[t] = t \/ \E p \in Tokens : replacedBy[p] = t}
LiveRows(f) == {t \in SpentTokens : root[t] = f /\ ~revoked[t]}

CurrentOf(f) ==
  CASE LiveRows(f) = {} -> 0
    [] Cardinality(LiveRows(f)) = 1 -> CHOOSE t \in LiveRows(f) : TRUE
    [] OTHER -> MaxTokens + 1

Session == INSTANCE LoginSession WITH
  current <- [f \in Tokens |-> CurrentOf(f)],
  opened <- {t \in 1..last : root[t] = t},
  spent <- SpentTokens

ImplementsLoginSession == Session!Spec

-----------------------------------------------------------------------------
(* What the documentation promises, and concurrent requests refute.        *)

(* docs/TESTING-PHASE-4-REFRESH.md:34-36: a refresh token is exchanged for  *)
(* one new pair, and a second use is refused and ends every session -- a    *)
(* login never has two usable sessions that clients hold.                   *)
Usable(t) == t \in delivered /\ ~revoked[t] /\ ~expired[t]
OneSessionPerLogin ==
  \A t, s \in 1..last : Usable(t) /\ Usable(s) /\ root[t] = root[s] => t = s

(* docs/TESTING-PHASE-4-REFRESH.md:166-167: after a reuse hit or logout-all *)
(* all rows of the user are revoked -- when the request is answered, no row *)
(* descending from a login made before it is left usable.                   *)
PurgeEndsLogins ==
  \A r \in Requests : AnsweredPurge(r) =>
    \A t \in 1..last :
      owner[t] = req[r].user /\ root[t] <= req[r].horizon => revoked[t]
=============================================================================
