---------------------------- MODULE Notifications ----------------------------
(***************************************************************************)
(* The welcome of a new account, and the notes in its inbox.               *)
(*                                                                         *)
(* A registration announces the account on the event bus and goes on; the  *)
(* reaction of the listener (a mail, then a note) runs beside it, and no   *)
(* one waits for it.  The welcome is the only note the program creates, so *)
(* a note is named by its owner.  One action is one awaited call.          *)
(***************************************************************************)
EXTENDS Naturals, FiniteSets

CONSTANTS
  Users,     \* accounts, registered or to be
  Requests   \* slots for requests in flight

ASSUME UsersAssumption == IsFiniteSet(Users)
ASSUME NobodyAssumption == "nobody" \notin Users

VARIABLES
  accounts,  \* table users
  reaction,  \* the listener's handler of each account's event
  mailed,    \* accounts whose welcome mail went out
  notes,     \* table notifications: the welcome of each account
  req,       \* the requests in flight
  silent     \* history: accounts whose announcement was lost

tables == <<accounts, notes>>
vars == <<tables, reaction, mailed, req, silent>>

Nobody == "nobody"
Reads == {"list", "count"}
Ops == {"none", "register", "read", "readAll"} \cup Reads
Pcs == {"idle", "check", "insert", "announce", "session", "find", "mark", "markAll", "query",
        "reply"}
Statuses == {"none", "ok", "notFound", "conflict", "error"}

NoRequest ==
  [op |-> "none", pc |-> "idle", user |-> Nobody, note |-> Nobody,
   awaits |-> {}, items |-> {}, total |-> 0, status |-> "none"]

Init ==
  /\ accounts = {}
  /\ reaction = [u \in Users |-> "none"]
  /\ mailed = {}
  /\ notes = [u \in Users |-> "none"]
  /\ req = [r \in Requests |-> NoRequest]
  /\ silent = {}

At(r, pc) == req[r].pc = pc
Become(r, request) == req' = [req EXCEPT ![r] = request]
Goto(r, pc) == Become(r, [req[r] EXCEPT !.pc = pc])
Answer(r, status) == Become(r, [req[r] EXCEPT !.pc = "reply", !.status = status])
React(u, stage) == reaction' = [reaction EXCEPT ![u] = stage]
Quiet == UNCHANGED <<reaction, mailed, silent>>

-----------------------------------------------------------------------------
(* Registration: check the address, insert, announce, open a session,      *)
(* answer.  Two of one address may both find it free; the unique index     *)
(* refuses the later row.                                                  *)
BeginRegister(r, u) ==
  /\ At(r, "idle")
  /\ Become(r, [NoRequest EXCEPT !.op = "register", !.pc = "check", !.user = u])
  /\ UNCHANGED tables /\ Quiet

FindByEmail(r) ==
  /\ At(r, "check")
  /\ \/ req[r].user \in accounts /\ Answer(r, "conflict")
     \/ req[r].user \notin accounts /\ Goto(r, "insert")
  /\ UNCHANGED tables /\ Quiet

InsertUser(r) ==
  LET u == req[r].user
  IN /\ At(r, "insert")
     /\ \/ u \in accounts /\ Answer(r, "error") /\ UNCHANGED accounts
        \/ u \notin accounts /\ Goto(r, "announce") /\ accounts' = accounts \cup {u}
     /\ UNCHANGED notes /\ Quiet

(* The listener runs up to its first await inside the emit.                *)
Announce(r) ==
  /\ At(r, "announce")
  /\ React(req[r].user, "mail")
  /\ Goto(r, "session")
  /\ UNCHANGED <<tables, mailed, silent>>

SessionIf(r, stages) ==
  /\ At(r, "session")
  /\ reaction[req[r].user] \in stages
  /\ Answer(r, "ok")
  /\ UNCHANGED tables /\ Quiet

(* Mutant: the reaction is awaited.                                        *)
BugAwaitWelcome(r) == SessionIf(r, {"done", "failed"})

IssueSession(r) == SessionIf(r, {"mail", "note", "done", "failed"})

-----------------------------------------------------------------------------
(* The reaction: mail, then note; one try block swallows the failure of    *)
(* either.                                                                 *)
MailSent(u) ==
  /\ reaction[u] = "mail"
  /\ mailed' = mailed \cup {u}
  /\ React(u, "note")
  /\ UNCHANGED <<tables, req, silent>>

GiveUp(u) == React(u, "failed") /\ UNCHANGED <<tables, mailed, req, silent>>

(* Mutant: the note is written although the mail failed.                   *)
BugMailSwallowed(u) ==
  reaction[u] = "mail" /\ React(u, "note") /\ UNCHANGED <<tables, mailed, req, silent>>

MailFails(u) == reaction[u] = "mail" /\ GiveUp(u)

CreateNote(u) ==
  /\ reaction[u] = "note"
  /\ notes' = [notes EXCEPT ![u] = "unread"]
  /\ React(u, "done")
  /\ UNCHANGED <<accounts, mailed, req, silent>>

NoteFails(u) == reaction[u] = "note" /\ GiveUp(u)

-----------------------------------------------------------------------------
(* The inbox.  A caller is registered; it may name any note.               *)
BeginRead(r, u, n) ==
  /\ At(r, "idle")
  /\ u \in accounts
  /\ Become(r, [NoRequest EXCEPT !.op = "read", !.pc = "find", !.user = u, !.note = n])
  /\ UNCHANGED tables /\ Quiet

BeginReadAll(r, u) ==
  /\ At(r, "idle")
  /\ u \in accounts
  /\ Become(r, [NoRequest EXCEPT !.op = "readAll", !.pc = "markAll", !.user = u])
  /\ UNCHANGED tables /\ Quiet

BeginQuery(r, u, op) ==
  /\ At(r, "idle")
  /\ u \in accounts
  /\ Become(r, [NoRequest EXCEPT !.op = op, !.pc = "query", !.user = u,
                  !.awaits = IF op = "list" THEN {"items", "total"} ELSE {"total"}])
  /\ UNCHANGED tables /\ Quiet

FindNote(r, owners) ==
  LET n == req[r].note
      found == n \in owners /\ notes[n] # "none"
  IN /\ At(r, "find")
     /\ \/ ~found /\ Answer(r, "notFound")
        \/ found /\ notes[n] = "read" /\ Answer(r, "ok")
        \/ found /\ notes[n] = "unread" /\ Goto(r, "mark")
     /\ UNCHANGED tables /\ Quiet

(* Mutant: the note is found by id alone.                                  *)
BugFindAnyones(r) == FindNote(r, Users)

FindByIdForUser(r) == FindNote(r, {req[r].user})

(* The UPDATE is by id, and does not ask whether the note is still unread. *)
MarkRead(r) ==
  /\ At(r, "mark")
  /\ notes' = [notes EXCEPT ![req[r].note] = "read"]
  /\ Answer(r, "ok")
  /\ UNCHANGED accounts /\ Quiet

MarkAllRead(r) ==
  /\ At(r, "markAll")
  /\ notes' = [notes EXCEPT ![req[r].user] = IF @ = "unread" THEN "read" ELSE @]
  /\ Answer(r, "ok")
  /\ UNCHANGED accounts /\ Quiet

(* A page and its total are two statements, sent together.                 *)
Arrives(r, part, request) ==
  LET left == req[r].awaits \ {part}
  IN /\ At(r, "query")
     /\ part \in req[r].awaits
     /\ Become(r, [request EXCEPT !.awaits = left,
                     !.pc = IF left = {} THEN "reply" ELSE "query",
                     !.status = IF left = {} THEN "ok" ELSE "none"])
     /\ UNCHANGED tables /\ Quiet

Inbox(owners) == {n \in owners : notes[n] # "none"}
Unread(owners) == {n \in owners : notes[n] = "unread"}

FindMany(r) == Arrives(r, "items", [req[r] EXCEPT !.items = Inbox({req[r].user})])

CountIn(r, owners) ==
  LET counted == IF req[r].op = "list" THEN Inbox(owners) ELSE Unread(owners)
  IN Arrives(r, "total", [req[r] EXCEPT !.total = Cardinality(counted)])

(* Mutant: the count is of every user's notes.                             *)
BugCountAll(r) == CountIn(r, Users)

CountRows(r) == CountIn(r, {req[r].user})

Reply(r) == At(r, "reply") /\ Become(r, NoRequest) /\ UNCHANGED tables /\ Quiet

(* A statement rejects, or the process stops: nothing is undone.           *)
Fail(r) ==
  /\ ~At(r, "idle")
  /\ Become(r, NoRequest)
  /\ silent' = IF At(r, "announce") THEN silent \cup {req[r].user} ELSE silent
  /\ UNCHANGED <<tables, reaction, mailed>>

-----------------------------------------------------------------------------
Handler(r) ==
  \/ FindByEmail(r) \/ InsertUser(r) \/ Announce(r) \/ IssueSession(r)
  \/ FindByIdForUser(r) \/ MarkRead(r) \/ MarkAllRead(r)
  \/ FindMany(r) \/ CountRows(r) \/ Reply(r)

Listener(u) == MailSent(u) \/ MailFails(u) \/ CreateNote(u) \/ NoteFails(u)

Next ==
  \/ \E r \in Requests :
       \/ Handler(r) \/ Fail(r)
       \/ \E u \in Users :
            \/ BeginRegister(r, u) \/ BeginReadAll(r, u)
            \/ \E n \in Users : BeginRead(r, u, n)
            \/ \E op \in Reads : BeginQuery(r, u, op)
  \/ \E u \in Users : Listener(u)

Spec == Init /\ [][Next]_vars

(* Node resumes a handler whose statement has settled, and every statement *)
(* to the database settles.  A mail may be under way for ever: nothing is  *)
(* assumed of the listener.                                                *)
FairSpec == Spec /\ \A r \in Requests : WF_vars(Handler(r))

-----------------------------------------------------------------------------
(* Properties.                                                             *)

RequestType ==
  [op : Ops, pc : Pcs, user : Users \cup {Nobody}, note : Users \cup {Nobody},
   awaits : SUBSET {"items", "total"}, items : SUBSET Users, total : {0, 1},
   status : Statuses]

(* Every variable has its type; a user is told of one note, the welcome,   *)
(* and what was to be announced is stored.                                 *)
TypeOK ==
  /\ accounts \in SUBSET Users
  /\ reaction \in [Users -> {"none", "mail", "note", "done", "failed"}]
  /\ mailed \in SUBSET Users
  /\ notes \in [Users -> {"none", "unread", "read"}]
  /\ req \in [Requests -> RequestType]
  /\ silent \in SUBSET accounts

(* notifications.service.ts:73-76: a note tells of a mail that went out,   *)
(* and a mail of an account that is stored.  An account is welcomed but    *)
(* for a reaction that failed or has not come to its end, or a process     *)
(* that stopped between the insert and the announcement.                   *)
WelcomeTrace ==
  \A u \in Users :
    /\ notes[u] # "none" => u \in mailed
    /\ u \in mailed \/ reaction[u] # "none" => u \in accounts
    /\ u \in accounts =>
         \/ notes[u] # "none"
         \/ reaction[u] \in {"mail", "note", "failed"}
         \/ u \in silent
         \/ \E r \in Requests : At(r, "announce") /\ req[r].user = u

(* notifications.controller.ts:26-29: a note is marked by a request of its *)
(* owner and by nothing else, never unmarked; who is told a note is read   *)
(* owns it and finds it read; a page shows the caller's notes alone.       *)
Own ==
  /\ \A u \in Users : notes'[u] # notes[u] =>
       \/ notes[u] = "none" /\ notes'[u] = "unread"
       \/ /\ notes[u] = "unread" /\ notes'[u] = "read"
          /\ \E r \in Requests : req'[r] # req[r] /\ req[r].user = u
  /\ \A r \in Requests :
       /\ req'[r].items \subseteq {req'[r].user}
       /\ ~At(r, "reply") /\ At(r, "reply")' /\ req'[r].op = "read" /\ req'[r].status = "ok"
            => req'[r].note = req'[r].user /\ notes'[req'[r].note] = "read"
OwnNotesOnly == [][Own]_vars

(* docs/TESTING-PHASE-9-NOTIFICATIONS.md:39: a registration is answered,   *)
(* or lost, whether or not its mail ever comes back.                       *)
RegistrationAnswered ==
  \A r \in Requests : At(r, "check") ~> At(r, "idle")
=============================================================================
