-------------------------- MODULE NotificationsProofs --------------------------
(***************************************************************************)
(* Theorems about Notifications, for every set of users and every number   *)
(* of requests in flight.                                                  *)
(***************************************************************************)
EXTENDS Notifications, FiniteSetTheorems, TLAPS

-----------------------------------------------------------------------------
(* The inductive invariant.                                                *)

(* What the place of a request says of it: the operation it runs, and that *)
(* the note to be marked is the caller's.                                  *)
Scripted(q) ==
  /\ q.pc # "idle" => q.user \in Users
  /\ q.pc \in {"check", "insert", "announce", "session"} => q.op = "register"
  /\ q.pc \in {"find", "mark"} => q.op = "read"
  /\ q.pc = "find" => q.note \in Users
  /\ q.pc = "mark" => q.note = q.user
  /\ q.pc = "markAll" => q.op = "readAll"
  /\ q.pc = "query" => q.op \in Reads
  /\ q.items \subseteq {q.user}

Scripts == \A r \in Requests : Scripted(req[r])

(* An account is announced by the one request that inserted it, and its    *)
(* listener has not been called before.                                    *)
AnnouncedOnce ==
  /\ \A r \in Requests : At(r, "announce") =>
       req[r].user \in accounts /\ reaction[req[r].user] = "none"
  /\ \A r, s \in Requests :
       At(r, "announce") /\ At(s, "announce") /\ req[r].user = req[s].user => r = s

(* The reaction writes the note, once, after its mail; what is marked is   *)
(* there.                                                                  *)
NoteLast ==
  /\ \A u \in Users :
       /\ reaction[u] \in {"none", "mail", "note"} => notes[u] = "none"
       /\ reaction[u] \in {"note", "done"} => u \in mailed
       /\ reaction[u] = "done" => notes[u] # "none"
  /\ \A r \in Requests : At(r, "mark") => notes[req[r].note] # "none"

(* What the tables, the reactions and the announcers say of each other.    *)
Agreed == silent \in SUBSET accounts /\ AnnouncedOnce /\ NoteLast /\ WelcomeTrace

IInv == TypeOK /\ Scripts /\ Agreed

-----------------------------------------------------------------------------
(* A caller has at most one note, and a page of the inbox is the caller's. *)
LEMMA OneNote ==
  ASSUME NEW u \in Users
  PROVE  /\ Inbox({u}) \in SUBSET {u}
         /\ Cardinality(Inbox({u})) \in {0, 1}
         /\ Cardinality(Unread({u})) \in {0, 1}
<1>1. Inbox({u}) \in {{}, {u}} /\ Unread({u}) \in {{}, {u}}
  BY DEF Inbox, Unread
<1>2. Cardinality({}) = 0 /\ Cardinality({u}) = 1
  BY FS_EmptySet, FS_Singleton
<1> QED BY <1>1, <1>2

(* A request moves by itself.                                              *)
LEMMA Moved ==
  ASSUME TypeOK, NEW r \in Requests, NEW h, Become(r, h)
  PROVE  req'[r] = h /\ \A q \in Requests \ {r} : req'[q] = req[q]
BY DEF TypeOK, Become

(* An idle request is well typed and says nothing.                         *)
LEMMA NoRequestType == NoRequest \in RequestType /\ Scripted(NoRequest)
BY DEF NoRequest, RequestType, Ops, Pcs, Statuses, Nobody, Scripted

(* Every step leaves the requests well typed and at their script.          *)
LEMMA RequestStep ==
  TypeOK /\ Scripts /\ [Next]_vars => req' \in [Requests -> RequestType] /\ Scripts'
<1> SUFFICES ASSUME TypeOK, Scripts, [Next]_vars
             PROVE  req' \in [Requests -> RequestType] /\ Scripts'
  OBVIOUS
<1> DEFINE Good(h) == h \in RequestType /\ Scripted(h)
<1>1. ASSUME NEW r \in Requests, NEW h, Become(r, h), Good(h)
      PROVE  req' \in [Requests -> RequestType] /\ Scripts'
  BY <1>1 DEF TypeOK, Scripts, Become
<1>2. ASSUME NEW r \in Requests
      PROVE  Good(req[r])
  BY DEF TypeOK, Scripts
<1>3. Good(NoRequest)
  BY NoRequestType
<1>4. ASSUME NEW r \in Requests, NEW s \in Statuses, Answer(r, s), ~At(r, "idle")
      PROVE  req' \in [Requests -> RequestType] /\ Scripts'
  <2>1. Good([req[r] EXCEPT !.pc = "reply", !.status = s])
    BY <1>2, <1>4 DEF RequestType, Pcs, Scripted, At
  <2> QED BY <1>1, <1>4, <2>1 DEF Answer
<1> HIDE DEF Good
<1>5. {"ok", "notFound", "conflict", "error"} \subseteq Statuses
  BY DEF Statuses
<1>6. ASSUME NEW r \in Requests, NEW u \in Users,
             BeginRegister(r, u) \/ BeginReadAll(r, u)
      PROVE  req' \in [Requests -> RequestType] /\ Scripts'
  <2>1. /\ Good([NoRequest EXCEPT !.op = "register", !.pc = "check", !.user = u])
        /\ Good([NoRequest EXCEPT !.op = "readAll", !.pc = "markAll", !.user = u])
    BY DEF Good, NoRequest, RequestType, Ops, Pcs, Statuses, Nobody, Scripted
  <2> QED BY <1>1, <1>6, <2>1 DEF BeginRegister, BeginReadAll
<1>7. ASSUME NEW r \in Requests, NEW u \in Users, NEW n \in Users, BeginRead(r, u, n)
      PROVE  req' \in [Requests -> RequestType] /\ Scripts'
  <2>1. Good([NoRequest EXCEPT !.op = "read", !.pc = "find", !.user = u, !.note = n])
    BY DEF Good, NoRequest, RequestType, Ops, Pcs, Statuses, Nobody, Scripted
  <2> QED BY <1>1, <1>7, <2>1 DEF BeginRead
<1>8. ASSUME NEW r \in Requests, NEW u \in Users, NEW op \in Reads, BeginQuery(r, u, op)
      PROVE  req' \in [Requests -> RequestType] /\ Scripts'
  <2>1. Good([NoRequest EXCEPT !.op = op, !.pc = "query", !.user = u,
                !.awaits = IF op = "list" THEN {"items", "total"} ELSE {"total"}])
    BY DEF Good, NoRequest, RequestType, Ops, Pcs, Reads, Statuses, Nobody, Scripted
  <2> QED BY <1>1, <1>8, <2>1 DEF BeginQuery
<1>9. ASSUME NEW r \in Requests, InsertUser(r)
      PROVE  req' \in [Requests -> RequestType] /\ Scripts'
  <2>1. Good([req[r] EXCEPT !.pc = "announce"])
    BY <1>2, <1>9 DEF Good, InsertUser, At, RequestType, Pcs, Scripted
  <2> QED BY <1>1, <1>4, <1>5, <1>9, <2>1 DEF InsertUser, Goto, At
<1>10. ASSUME NEW r \in Requests, FindByEmail(r)
       PROVE  req' \in [Requests -> RequestType] /\ Scripts'
  <2>1. Good([req[r] EXCEPT !.pc = "insert"])
    BY <1>2, <1>10 DEF Good, FindByEmail, At, RequestType, Pcs, Scripted
  <2> QED BY <1>1, <1>4, <1>5, <1>10, <2>1 DEF FindByEmail, Goto, At
<1>11. ASSUME NEW r \in Requests, Announce(r)
       PROVE  req' \in [Requests -> RequestType] /\ Scripts'
  <2>1. Good([req[r] EXCEPT !.pc = "session"])
    BY <1>2, <1>11 DEF Good, Announce, At, RequestType, Pcs, Scripted
  <2> QED BY <1>1, <1>11, <2>1 DEF Announce, Goto
<1>12. ASSUME NEW r \in Requests, IssueSession(r) \/ MarkRead(r) \/ MarkAllRead(r)
       PROVE  req' \in [Requests -> RequestType] /\ Scripts'
  BY <1>4, <1>5, <1>12 DEF IssueSession, SessionIf, MarkRead, MarkAllRead, At
<1>13. ASSUME NEW r \in Requests, FindByIdForUser(r)
       PROVE  req' \in [Requests -> RequestType] /\ Scripts'
  <2>1. CASE Answer(r, "notFound") \/ Answer(r, "ok")
    BY <1>4, <1>5, <1>13, <2>1 DEF FindByIdForUser, FindNote, At
  <2>2. CASE Goto(r, "mark") /\ req[r].note = req[r].user
    <3>1. Good([req[r] EXCEPT !.pc = "mark"])
      BY <1>2, <1>13, <2>2
      DEF Good, FindByIdForUser, FindNote, At, RequestType, Pcs, Scripted
    <3> QED BY <1>1, <2>2, <3>1 DEF Goto
  <2> QED BY <1>13, <2>1, <2>2 DEF FindByIdForUser, FindNote
<1>14. ASSUME NEW r \in Requests, NEW part, NEW h, Arrives(r, part, h), Good(h),
              h.pc = req[r].pc, h.op = req[r].op
       PROVE  req' \in [Requests -> RequestType] /\ Scripts'
  <2> DEFINE left == req[r].awaits \ {part}
             g == [h EXCEPT !.awaits = left,
                     !.pc = IF left = {} THEN "reply" ELSE "query",
                     !.status = IF left = {} THEN "ok" ELSE "none"]
  <2>1. left \in SUBSET {"items", "total"} /\ req[r].pc = "query"
    BY <1>2, <1>14 DEF Good, Arrives, At, RequestType
  <2>2. Good(g)
    <3> HIDE DEF left
    <3> QED BY <1>14, <2>1 DEF Good, RequestType, Pcs, Statuses, Scripted
  <2> QED BY <1>1, <1>14, <2>2 DEF Arrives
<1>15. ASSUME NEW r \in Requests, FindMany(r)
       PROVE  req' \in [Requests -> RequestType] /\ Scripts'
  <2>1. req[r].user \in Users
    BY <1>2, <1>15 DEF Good, FindMany, Arrives, At, Scripted
  <2>2. Inbox({req[r].user}) \in SUBSET {req[r].user}
    BY <2>1, OneNote
  <2>3. Good([req[r] EXCEPT !.items = Inbox({req[r].user})])
    BY <1>2, <2>1, <2>2 DEF Good, RequestType, Scripted
  <2> QED BY <1>2, <1>14, <1>15, <2>3 DEF FindMany, Good, RequestType
<1>16. ASSUME NEW r \in Requests, CountRows(r)
       PROVE  req' \in [Requests -> RequestType] /\ Scripts'
  <2> DEFINE counted == IF req[r].op = "list" THEN Inbox({req[r].user})
                                              ELSE Unread({req[r].user})
  <2>1. req[r].user \in Users
    BY <1>2, <1>16 DEF Good, CountRows, CountIn, Arrives, At, Scripted
  <2>2. Cardinality(counted) \in {0, 1}
    BY <2>1, OneNote
  <2>3. Good([req[r] EXCEPT !.total = Cardinality(counted)])
    <3> HIDE DEF counted
    <3> QED BY <1>2, <2>2 DEF Good, RequestType, Scripted
  <2>4. Arrives(r, "total", [req[r] EXCEPT !.total = Cardinality(counted)])
    BY <1>16 DEF CountRows, CountIn
  <2>5. /\ [req[r] EXCEPT !.total = Cardinality(counted)].pc = req[r].pc
        /\ [req[r] EXCEPT !.total = Cardinality(counted)].op = req[r].op
    BY <1>2 DEF Good, RequestType
  <2> QED BY <1>14, <2>3, <2>4, <2>5
<1>17. ASSUME NEW r \in Requests, Reply(r) \/ Fail(r)
       PROVE  req' \in [Requests -> RequestType] /\ Scripts'
  BY <1>1, <1>3, <1>17 DEF Reply, Fail
<1>18. ASSUME UNCHANGED req
       PROVE  req' \in [Requests -> RequestType] /\ Scripts'
  BY <1>18 DEF TypeOK, Scripts
<1>19. CASE \E u \in Users : Listener(u)
  BY <1>18, <1>19 DEF Listener, MailSent, MailFails, GiveUp, CreateNote, NoteFails
<1>20. CASE UNCHANGED vars
  BY <1>18, <1>20 DEF vars
<1> QED BY <1>6, <1>7, <1>8, <1>9, <1>11, <1>12, <1>13, <1>15, <1>16, <1>17, <1>19, <1>20,
          <1>10
        DEF Next, Handler

-----------------------------------------------------------------------------
(* A reaction takes one account to another stage, and nothing else moves.  *)
LEMMA Reacted ==
  ASSUME TypeOK, NEW u \in Users, NEW stage, React(u, stage)
  PROVE  reaction'[u] = stage /\ \A v \in Users \ {u} : reaction'[v] = reaction[v]
BY DEF TypeOK, React

(* A request that does not write, and is not about to announce or to mark, *)
(* disturbs nothing of it.                                                 *)
LEMMA QuietMove ==
  ASSUME TypeOK, Agreed, NEW r \in Requests, NEW h, Become(r, h),
         h.pc \notin {"announce", "mark"}, ~At(r, "announce"), UNCHANGED tables, Quiet
  PROVE  Agreed'
<1>1. req'[r] = h /\ \A q \in Requests \ {r} : req'[q] = req[q]
  BY Moved
<1>2. /\ accounts' = accounts /\ notes' = notes /\ reaction' = reaction
      /\ mailed' = mailed /\ silent' = silent
  BY DEF tables, Quiet
<1>3. \A q \in Requests : /\ At(q, "announce")' => req'[q] = req[q] /\ At(q, "announce")
                          /\ At(q, "announce") => req'[q] = req[q] /\ At(q, "announce")'
                          /\ At(q, "mark")' => req'[q] = req[q] /\ At(q, "mark")
  BY <1>1 DEF At
<1>4. AnnouncedOnce'
  BY <1>2, <1>3 DEF Agreed, AnnouncedOnce
<1>5. NoteLast'
  BY <1>2, <1>3 DEF Agreed, NoteLast
<1>6. WelcomeTrace'
  BY <1>2, <1>3 DEF Agreed, WelcomeTrace
<1> QED BY <1>2, <1>4, <1>5, <1>6 DEF Agreed

(* Every step keeps the tables, the reactions and the announcers agreed.   *)
LEMMA AgreedStep == TypeOK /\ Scripts /\ Agreed /\ [Next]_vars => Agreed'
<1> SUFFICES ASSUME TypeOK, Scripts, Agreed, [Next]_vars PROVE Agreed'
  OBVIOUS
<1> USE DEF tables, Quiet
<1>1. /\ accounts \in SUBSET Users /\ mailed \in SUBSET Users
      /\ reaction \in [Users -> {"none", "mail", "note", "done", "failed"}]
      /\ notes \in [Users -> {"none", "unread", "read"}]
      /\ \A r \in Requests : req[r] \in RequestType /\ Scripted(req[r])
  BY DEF TypeOK, Scripts
<1>2. silent \in SUBSET accounts /\ AnnouncedOnce /\ NoteLast /\ WelcomeTrace
  BY DEF Agreed
<1>3. ASSUME NEW r \in Requests, NEW h, Become(r, h)
      PROVE  req'[r] = h /\ \A q \in Requests \ {r} : req'[q] = req[q]
  BY <1>3, Moved
<1>4. ASSUME NEW r \in Requests, NEW s, Answer(r, s), ~At(r, "announce"), UNCHANGED tables, Quiet
      PROVE  Agreed'
  <2>1. [req[r] EXCEPT !.pc = "reply", !.status = s].pc = "reply"
    BY <1>1 DEF RequestType
  <2> QED BY <1>4, <2>1, QuietMove DEF Answer
<1>5. ASSUME NEW r \in Requests, NEW u \in Users,
             \/ BeginRegister(r, u) \/ BeginReadAll(r, u)
             \/ \E n \in Users : BeginRead(r, u, n)
             \/ \E op \in Reads : BeginQuery(r, u, op)
      PROVE  Agreed'
  <2>1. ~At(r, "announce") /\ UNCHANGED tables /\ Quiet
    BY <1>5 DEF BeginRegister, BeginReadAll, BeginRead, BeginQuery, At
  <2>2. ASSUME NEW h, Become(r, h), h.pc \in {"check", "markAll", "find", "query"}
        PROVE  Agreed'
    BY <2>1, <2>2, QuietMove
  <2>3. /\ [NoRequest EXCEPT !.op = "register", !.pc = "check", !.user = u].pc = "check"
        /\ [NoRequest EXCEPT !.op = "readAll", !.pc = "markAll", !.user = u].pc = "markAll"
    BY DEF NoRequest
  <2>4. ASSUME NEW n \in Users, BeginRead(r, u, n) PROVE Agreed'
    <3>1. [NoRequest EXCEPT !.op = "read", !.pc = "find", !.user = u, !.note = n].pc = "find"
      BY DEF NoRequest
    <3> QED BY <2>2, <2>4, <3>1 DEF BeginRead
  <2>5. ASSUME NEW op \in Reads, BeginQuery(r, u, op) PROVE Agreed'
    <3> DEFINE parts == IF op = "list" THEN {"items", "total"} ELSE {"total"}
    <3>1. [NoRequest EXCEPT !.op = op, !.pc = "query", !.user = u,
                            !.awaits = parts].pc = "query"
      BY DEF NoRequest
    <3> QED BY <2>2, <2>5, <3>1 DEF BeginQuery
  <2> QED BY <1>5, <2>2, <2>3, <2>4, <2>5 DEF BeginRegister, BeginReadAll
<1>6. ASSUME NEW r \in Requests, InsertUser(r) PROVE Agreed'
  <2> DEFINE u == req[r].user
  <2>1. CASE Answer(r, "error") /\ UNCHANGED accounts
    BY <1>4, <1>6, <2>1 DEF InsertUser, At
  <2>2. CASE u \notin accounts /\ Goto(r, "announce") /\ accounts' = accounts \cup {u}
    <3>1. /\ req'[r].pc = "announce" /\ req'[r].user = u
          /\ \A q \in Requests \ {r} : req'[q] = req[q]
      BY <1>1, <1>3, <2>2 DEF Goto, RequestType
    <3>2. req[r].pc = "insert" /\ u \in Users
      BY <1>1, <1>6 DEF InsertUser, At, Scripted
    <3>3. /\ reaction' = reaction /\ notes' = notes /\ mailed' = mailed /\ silent' = silent
      BY <1>6 DEF InsertUser
    <3>4. reaction[u] = "none" /\ \A q \in Requests : At(q, "announce") => req[q].user # u
      BY <1>2, <2>2, <3>2 DEF WelcomeTrace, AnnouncedOnce
    <3>5. AnnouncedOnce'
      BY <1>2, <2>2, <3>1, <3>2, <3>3, <3>4 DEF AnnouncedOnce, At
    <3>6. NoteLast'
      BY <1>2, <3>1, <3>3 DEF NoteLast, At
    <3>7. WelcomeTrace'
      BY <1>2, <2>2, <3>1, <3>2, <3>3 DEF WelcomeTrace, At
    <3> QED BY <1>2, <2>2, <3>3, <3>5, <3>6, <3>7 DEF Agreed
  <2> QED BY <1>6, <2>1, <2>2 DEF InsertUser
<1>7. ASSUME NEW r \in Requests, FindByEmail(r) PROVE Agreed'
  <2>1. ~At(r, "announce")
    BY <1>7 DEF FindByEmail, At
  <2>2. CASE Answer(r, "conflict")
    BY <1>4, <1>7, <2>1, <2>2 DEF FindByEmail
  <2>3. CASE Goto(r, "insert")
    <3>1. [req[r] EXCEPT !.pc = "insert"].pc = "insert"
      BY <1>1 DEF RequestType
    <3> QED BY <1>7, <2>1, <2>3, <3>1, QuietMove DEF FindByEmail, Goto
  <2> QED BY <1>7, <2>2, <2>3 DEF FindByEmail
<1>8. ASSUME NEW r \in Requests, Announce(r) PROVE Agreed'
  <2> DEFINE u == req[r].user
  <2>1. req'[r].pc = "session" /\ \A q \in Requests \ {r} : req'[q] = req[q]
    BY <1>1, <1>3, <1>8 DEF Announce, Goto, RequestType
  <2>2. req[r].pc = "announce" /\ u \in Users
    BY <1>1, <1>8 DEF Announce, At, Scripted
  <2>3. /\ accounts' = accounts /\ notes' = notes /\ mailed' = mailed /\ silent' = silent
        /\ reaction'[u] = "mail" /\ \A v \in Users \ {u} : reaction'[v] = reaction[v]
    BY <1>8, <2>2, Reacted DEF Announce
  <2>4. u \in accounts /\ reaction[u] = "none"
    BY <1>2, <2>2 DEF AnnouncedOnce, At
  <2>5. AnnouncedOnce'
    <3>1. \A q \in Requests : At(q, "announce")' =>
            At(q, "announce") /\ req'[q] = req[q] /\ req[q].user # u
      BY <1>2, <2>1, <2>2 DEF AnnouncedOnce, At
    <3>2. \A q \in Requests : At(q, "announce")' => req[q].user \in Users
      BY <1>1, <3>1 DEF Scripted, At
    <3> QED BY <1>2, <2>3, <3>1, <3>2 DEF AnnouncedOnce
  <2>6. NoteLast'
    BY <1>2, <2>1, <2>3, <2>4 DEF NoteLast, At
  <2>7. WelcomeTrace'
    BY <1>2, <2>1, <2>3, <2>4 DEF WelcomeTrace, At
  <2> QED BY <1>2, <2>3, <2>5, <2>6, <2>7 DEF Agreed
<1>9. ASSUME NEW r \in Requests,
             IssueSession(r) \/ FindMany(r) \/ CountRows(r) \/ Reply(r)
      PROVE  Agreed'
  <2>1. CASE IssueSession(r)
    BY <1>4, <2>1 DEF IssueSession, SessionIf, At
  <2>2. ASSUME NEW part, NEW h, Arrives(r, part, h), h \in RequestType PROVE Agreed'
    <3> DEFINE left == req[r].awaits \ {part}
               g == [h EXCEPT !.awaits = left, !.pc = IF left = {} THEN "reply" ELSE "query",
                              !.status = IF left = {} THEN "ok" ELSE "none"]
    <3>1. g.pc \in {"reply", "query"}
      <4> HIDE DEF left
      <4> QED BY <2>2 DEF RequestType
    <3> QED BY <2>2, <3>1, QuietMove DEF Arrives, At
  <2>3. CASE FindMany(r)
    <3>1. [req[r] EXCEPT !.items = Inbox({req[r].user})] \in RequestType
      BY <1>1, <2>3, OneNote DEF FindMany, Arrives, At, Scripted, RequestType
    <3> QED BY <2>2, <2>3, <3>1 DEF FindMany
  <2>4. CASE CountRows(r)
    <3> DEFINE counted == IF req[r].op = "list" THEN Inbox({req[r].user})
                                                ELSE Unread({req[r].user})
    <3>1. Cardinality(counted) \in {0, 1}
      BY <1>1, <2>4, OneNote DEF CountRows, CountIn, Arrives, At, Scripted
    <3>2. [req[r] EXCEPT !.total = Cardinality(counted)] \in RequestType
      <4> HIDE DEF counted
      <4> QED BY <1>1, <3>1 DEF RequestType
    <3> QED BY <2>2, <2>4, <3>2 DEF CountRows, CountIn
  <2>5. CASE Reply(r)
    BY <2>5, QuietMove DEF Reply, NoRequest, At
  <2> QED BY <1>9, <2>1, <2>3, <2>4, <2>5
<1>10. ASSUME NEW r \in Requests, FindByIdForUser(r) PROVE Agreed'
  <2>1. CASE Answer(r, "notFound") \/ Answer(r, "ok")
    BY <1>4, <1>10, <2>1 DEF FindByIdForUser, FindNote, At
  <2>2. CASE Goto(r, "mark") /\ notes[req[r].note] = "unread"
    <3>1. /\ req'[r] = [req[r] EXCEPT !.pc = "mark"] /\ req'[r].pc = "mark"
          /\ req'[r].note = req[r].note /\ \A q \in Requests \ {r} : req'[q] = req[q]
      BY <1>1, <1>3, <2>2 DEF Goto, RequestType
    <3>2. UNCHANGED <<accounts, notes, reaction, mailed, silent>> /\ req[r].pc = "find"
      BY <1>10 DEF FindByIdForUser, FindNote, At
    <3>3. AnnouncedOnce'
      <4>1. \A q \in Requests : At(q, "announce")' => At(q, "announce") /\ req'[q] = req[q]
        BY <3>1 DEF At
      <4> QED BY <1>2, <3>2, <4>1 DEF AnnouncedOnce
    <3>4. NoteLast'
      BY <1>2, <2>2, <3>1, <3>2 DEF NoteLast, At
    <3>5. WelcomeTrace'
      BY <1>2, <3>1, <3>2 DEF WelcomeTrace, At
    <3> QED BY <1>2, <3>2, <3>3, <3>4, <3>5 DEF Agreed
  <2> QED BY <1>10, <2>1, <2>2 DEF FindByIdForUser, FindNote
<1>11. ASSUME NEW r \in Requests, MarkRead(r) \/ MarkAllRead(r) PROVE Agreed'
  <2>1. req'[r].pc = "reply" /\ \A q \in Requests \ {r} : req'[q] = req[q]
    <3>1. Answer(r, "ok")
      BY <1>11 DEF MarkRead, MarkAllRead
    <3>2. [req[r] EXCEPT !.pc = "reply", !.status = "ok"].pc = "reply"
      BY <1>1 DEF RequestType
    <3> QED BY <1>3, <3>1, <3>2 DEF Answer
  <2>2. /\ UNCHANGED <<accounts, reaction, mailed, silent>>
        /\ req[r].pc \in {"mark", "markAll"}
    BY <1>11 DEF MarkRead, MarkAllRead, At
  <2>3. \A u \in Users : notes'[u] # notes[u] => notes[u] # "none" /\ notes'[u] # "none"
    BY <1>1, <1>2, <1>11 DEF MarkRead, MarkAllRead, At, NoteLast
  <2>4. AnnouncedOnce'
    BY <1>2, <2>1, <2>2 DEF AnnouncedOnce, At
  <2>5. NoteLast'
    <3>1. \A q \in Requests : At(q, "mark")' => At(q, "mark") /\ req'[q] = req[q]
      BY <2>1 DEF At
    <3>2. \A q \in Requests : At(q, "mark") => req[q].note \in Users
      BY <1>1 DEF Scripted, At
    <3> QED BY <1>2, <2>2, <2>3, <3>1, <3>2 DEF NoteLast
  <2>6. WelcomeTrace'
    BY <1>2, <2>1, <2>2, <2>3 DEF WelcomeTrace, At
  <2> QED BY <1>2, <2>2, <2>4, <2>5, <2>6 DEF Agreed
<1>12. ASSUME NEW r \in Requests, Fail(r) PROVE Agreed'
  <2>1. req'[r].pc = "idle" /\ \A q \in Requests \ {r} : req'[q] = req[q]
    BY <1>3, <1>12 DEF Fail, NoRequest
  <2>2. UNCHANGED <<accounts, notes, reaction, mailed>>
    BY <1>12 DEF Fail
  <2>3. silent' \in SUBSET accounts /\ silent \subseteq silent'
        /\ (At(r, "announce") => req[r].user \in silent')
    BY <1>2, <1>12 DEF Fail, AnnouncedOnce
  <2>4. AnnouncedOnce'
    BY <1>2, <2>1, <2>2 DEF AnnouncedOnce, At
  <2>5. NoteLast'
    BY <1>2, <2>1, <2>2 DEF NoteLast, At
  <2>6. WelcomeTrace'
    BY <1>2, <2>1, <2>2, <2>3 DEF WelcomeTrace, At
  <2> QED BY <2>2, <2>3, <2>4, <2>5, <2>6 DEF Agreed
<1>13. ASSUME NEW u \in Users, Listener(u) PROVE Agreed'
  <2>1. /\ req' = req /\ accounts' = accounts /\ silent' = silent
        /\ reaction[u] \in {"mail", "note"}
        /\ reaction'[u] \in {"note", "done", "failed"}
        /\ \A v \in Users \ {u} : reaction'[v] = reaction[v]
    BY <1>13, Reacted DEF Listener, MailSent, MailFails, GiveUp, CreateNote, NoteFails
  <2>2. /\ mailed' \in SUBSET Users /\ \A v \in Users \ {u} : v \in mailed' <=> v \in mailed
        /\ \A v \in Users \ {u} : notes'[v] = notes[v]
        /\ reaction'[u] \in {"note", "done"} => u \in mailed'
        /\ u \in mailed => u \in mailed'
        /\ notes'[u] # "none" <=> reaction'[u] = "done"
    <3>1. notes[u] = "none" /\ (reaction[u] = "note" => u \in mailed)
      BY <1>2, <2>1 DEF NoteLast
    <3> QED BY <1>1, <1>13, <3>1, Reacted
            DEF Listener, MailSent, MailFails, GiveUp, CreateNote, NoteFails
  <2>3. u \in accounts
    BY <1>2, <2>1 DEF WelcomeTrace
  <2>4. AnnouncedOnce'
    <3>1. \A q \in Requests : At(q, "announce") => req[q].user \in Users /\ req[q].user # u
      BY <1>1, <1>2, <2>1 DEF AnnouncedOnce, Scripted, At
    <3> QED BY <1>2, <2>1, <3>1 DEF AnnouncedOnce, At
  <2>5. NoteLast'
    <3>1. \A q \in Requests : At(q, "mark") =>
            req[q].note \in Users /\ req[q].note # u
      BY <1>1, <1>2, <2>1 DEF NoteLast, Scripted, At
    <3> QED BY <1>2, <2>1, <2>2, <3>1 DEF NoteLast, At
  <2>6. WelcomeTrace'
    BY <1>2, <2>1, <2>2, <2>3 DEF WelcomeTrace, NoteLast, At
  <2> QED BY <1>2, <2>1, <2>4, <2>5, <2>6 DEF Agreed
<1>14. CASE UNCHANGED vars
  BY <1>2, <1>14 DEF vars, Agreed, AnnouncedOnce, NoteLast, WelcomeTrace, At
<1> QED BY <1>5, <1>6, <1>8, <1>9, <1>10, <1>11, <1>12, <1>13, <1>14, <1>7
        DEF Next, Handler

(* The tables stay well typed.                                             *)
LEMMA TablesStep ==
  TypeOK /\ Scripts /\ [Next]_vars =>
    /\ accounts' \in SUBSET Users /\ mailed' \in SUBSET Users
    /\ reaction' \in [Users -> {"none", "mail", "note", "done", "failed"}]
    /\ notes' \in [Users -> {"none", "unread", "read"}]
<1> SUFFICES ASSUME TypeOK, Scripts, [Next]_vars
             PROVE  /\ accounts' \in SUBSET Users /\ mailed' \in SUBSET Users
                    /\ reaction' \in [Users -> {"none", "mail", "note", "done", "failed"}]
                    /\ notes' \in [Users -> {"none", "unread", "read"}]
  OBVIOUS
<1> USE DEF tables, Quiet, TypeOK
<1>1. \A r \in Requests : At(r, "insert") \/ At(r, "announce") => req[r].user \in Users
  BY DEF Scripts, Scripted, At
<1>2. ASSUME NEW r \in Requests, InsertUser(r) PROVE UNCHANGED <<mailed, reaction, notes>>
                                                     /\ accounts' \in SUBSET Users
  BY <1>1, <1>2 DEF InsertUser
<1>3. ASSUME NEW r \in Requests, Announce(r) PROVE UNCHANGED <<accounts, mailed, notes>>
        /\ reaction' \in [Users -> {"none", "mail", "note", "done", "failed"}]
  BY <1>1, <1>3 DEF Announce, React
<1>4. ASSUME NEW r \in Requests, MarkRead(r) \/ MarkAllRead(r)
      PROVE  /\ UNCHANGED <<accounts, mailed, reaction>>
             /\ notes' \in [Users -> {"none", "unread", "read"}]
  BY <1>4 DEF MarkRead, MarkAllRead
<1>5. ASSUME NEW r \in Requests,
             FindByEmail(r) \/ IssueSession(r) \/ FindByIdForUser(r) \/ FindMany(r)
             \/ CountRows(r) \/ Reply(r) \/ Fail(r)
      PROVE  UNCHANGED <<accounts, mailed, reaction, notes>>
  BY <1>5 DEF FindByEmail, IssueSession, SessionIf, FindByIdForUser, FindNote, FindMany, CountRows,
              CountIn, Arrives, Reply, Fail
<1>6. ASSUME NEW r \in Requests, NEW u \in Users,
             \/ BeginRegister(r, u) \/ BeginReadAll(r, u)
             \/ \E n \in Users : BeginRead(r, u, n)
             \/ \E op \in Reads : BeginQuery(r, u, op)
      PROVE  UNCHANGED <<accounts, mailed, reaction, notes>>
  BY <1>6 DEF BeginRegister, BeginReadAll, BeginRead, BeginQuery
<1>7. ASSUME NEW u \in Users, Listener(u)
      PROVE  /\ accounts' = accounts /\ mailed' \in SUBSET Users
             /\ reaction' \in [Users -> {"none", "mail", "note", "done", "failed"}]
             /\ notes' \in [Users -> {"none", "unread", "read"}]
  BY <1>7 DEF Listener, MailSent, MailFails, GiveUp, CreateNote, NoteFails, React
<1>8. CASE UNCHANGED vars
  BY <1>8 DEF vars
<1> QED BY <1>2, <1>3, <1>4, <1>5, <1>6, <1>7, <1>8 DEF Next, Handler

(* The inductive invariant holds in every reachable state.                 *)
LEMMA Inductive == Spec => []IInv
<1>1. Init => IInv
  <2> SUFFICES ASSUME Init PROVE IInv
    OBVIOUS
  <2>1. req \in [Requests -> RequestType] /\ Scripts
    BY NoRequestType DEF Init, Scripts
  <2>2. AnnouncedOnce
    BY DEF Init, AnnouncedOnce, At, NoRequest
  <2>3. NoteLast
    BY DEF Init, NoteLast, At, NoRequest
  <2>4. WelcomeTrace
    BY DEF Init, WelcomeTrace
  <2> QED BY <2>1, <2>2, <2>3, <2>4 DEF Init, TypeOK, Agreed, IInv
<1>2. IInv /\ [Next]_vars => IInv'
  BY RequestStep, AgreedStep, TablesStep DEF IInv, TypeOK, Agreed
<1> QED BY <1>1, <1>2, PTL DEF Spec

-----------------------------------------------------------------------------
(* Every variable keeps its type; what was to be announced is stored.      *)
THEOREM TypeCorrect == Spec => []TypeOK
<1>1. IInv => TypeOK
  BY DEF IInv
<1> QED BY <1>1, Inductive, PTL

(* A note tells of a mail that went out, a mail of an account that is      *)
(* stored, and an account that was not welcomed of a reaction that failed  *)
(* or is under way, or of an announcement that is to come or was lost.     *)
THEOREM WelcomeCorrect == Spec => []WelcomeTrace
<1>1. IInv => WelcomeTrace
  BY DEF IInv, Agreed
<1> QED BY <1>1, Inductive, PTL

-----------------------------------------------------------------------------
(* A request is told that its note is read by one of two steps: the SELECT *)
(* that found it read, and the UPDATE.                                     *)
LEMMA ReadStep ==
  ASSUME IInv, [Next]_vars, NEW r \in Requests,
         ~At(r, "reply"), At(r, "reply")', req'[r].op = "read", req'[r].status = "ok"
  PROVE  req'[r].note = req'[r].user /\ notes'[req'[r].note] = "read"
<1> DEFINE Told == req'[r].note = req'[r].user /\ notes'[req'[r].note] = "read"
<1> USE DEF tables, Quiet
<1>1. /\ \A q \in Requests : req[q] \in RequestType /\ Scripted(req[q])
      /\ notes \in [Users -> {"none", "unread", "read"}]
  BY DEF IInv, TypeOK, Scripts
<1>2. ASSUME NEW q \in Requests, NEW h, Become(q, h)
      PROVE  req'[q] = h /\ \A s \in Requests \ {q} : req'[s] = req[s]
  BY <1>2, Moved DEF IInv
<1>3. ASSUME NEW q \in Requests, NEW h, Become(q, h), h.pc # "reply" \/ h.op # "read"
      PROVE  Told
  BY <1>2, <1>3 DEF At
<1>4. ASSUME NEW q \in Requests, NEW s, Answer(q, s)
      PROVE  /\ q = r /\ s = "ok" /\ req[r].op = "read"
             /\ req'[r].note = req[r].note /\ req'[r].user = req[r].user
  <2>1. /\ [req[q] EXCEPT !.pc = "reply", !.status = s].status = s
        /\ [req[q] EXCEPT !.pc = "reply", !.status = s].op = req[q].op
        /\ [req[q] EXCEPT !.pc = "reply", !.status = s].note = req[q].note
        /\ [req[q] EXCEPT !.pc = "reply", !.status = s].user = req[q].user
    BY <1>1 DEF RequestType
  <2> QED BY <1>2, <1>4, <2>1 DEF Answer, At
<1>5. ASSUME NEW q \in Requests, NEW p, Goto(q, p), p # "reply" PROVE Told
  <2>1. [req[q] EXCEPT !.pc = p].pc = p
    BY <1>1 DEF RequestType
  <2> QED BY <1>3, <1>5, <2>1 DEF Goto
<1> HIDE DEF Told
<1>6. ASSUME NEW q \in Requests, NEW u \in Users, BeginRegister(q, u) \/ BeginReadAll(q, u)
      PROVE  Told
  <2>1. /\ [NoRequest EXCEPT !.op = "register", !.pc = "check", !.user = u].pc = "check"
        /\ [NoRequest EXCEPT !.op = "readAll", !.pc = "markAll", !.user = u].pc = "markAll"
    BY DEF NoRequest
  <2> QED BY <1>3, <1>6, <2>1 DEF BeginRegister, BeginReadAll
<1>7. ASSUME NEW q \in Requests, NEW u \in Users, NEW n \in Users, BeginRead(q, u, n)
      PROVE  Told
  <2>1. [NoRequest EXCEPT !.op = "read", !.pc = "find", !.user = u, !.note = n].pc = "find"
    BY DEF NoRequest
  <2> QED BY <1>3, <1>7, <2>1 DEF BeginRead
<1>8. ASSUME NEW q \in Requests, NEW u \in Users, NEW op \in Reads, BeginQuery(q, u, op)
      PROVE  Told
  <2> DEFINE parts == IF op = "list" THEN {"items", "total"} ELSE {"total"}
  <2>1. [NoRequest EXCEPT !.op = op, !.pc = "query", !.user = u, !.awaits = parts].pc = "query"
    BY DEF NoRequest
  <2> QED BY <1>3, <1>8, <2>1 DEF BeginQuery
<1>9. ASSUME NEW q \in Requests,
             \/ FindByEmail(q) \/ InsertUser(q) \/ Announce(q) \/ IssueSession(q)
             \/ MarkAllRead(q)
      PROVE  Told
  <2>1. \/ Goto(q, "insert") \/ Goto(q, "announce") \/ Goto(q, "session")
        \/ /\ req[q].op # "read"
           /\ Answer(q, "conflict") \/ Answer(q, "error") \/ Answer(q, "ok")
    BY <1>1, <1>9 DEF FindByEmail, InsertUser, Announce, IssueSession, SessionIf, MarkAllRead, At, Scripted
  <2> QED BY <1>4, <1>5, <2>1
<1>10. ASSUME NEW q \in Requests, FindByIdForUser(q) PROVE Told
  <2>1. CASE Answer(q, "notFound") \/ Goto(q, "mark")
    BY <1>4, <1>5, <2>1
  <2>2. CASE /\ Answer(q, "ok") /\ notes[req[q].note] = "read" /\ req[q].note = req[q].user
    BY <1>4, <1>10, <2>2 DEF FindByIdForUser, FindNote, Told
  <2> QED BY <1>10, <2>1, <2>2 DEF FindByIdForUser, FindNote
<1>11. ASSUME NEW q \in Requests, MarkRead(q) PROVE Told
  <2>1. Answer(q, "ok") /\ req[q].note = req[q].user /\ req[q].user \in Users
    BY <1>1, <1>11 DEF MarkRead, At, Scripted
  <2> QED BY <1>1, <1>4, <1>11, <2>1 DEF MarkRead, Told
<1>12. ASSUME NEW q \in Requests, FindMany(q) \/ CountRows(q) PROVE FALSE
  <2>1. At(q, "query") /\ \A s \in Requests \ {q} : req'[s] = req[s]
    BY <1>2, <1>12 DEF FindMany, CountRows, CountIn, Arrives
  <2>2. req'[q].op = req[q].op
    <3>1. ASSUME NEW part, NEW h \in RequestType, Arrives(q, part, h)
          PROVE  req'[q].op = h.op
      <4> DEFINE left == req[q].awaits \ {part}
                 g == [h EXCEPT !.awaits = left, !.pc = IF left = {} THEN "reply" ELSE "query",
                                !.status = IF left = {} THEN "ok" ELSE "none"]
      <4>1. g.op = h.op
        <5> HIDE DEF left
        <5> QED BY DEF RequestType
      <4>2. req'[q] = g
        BY <1>2, <3>1 DEF Arrives
      <4> QED BY <4>1, <4>2
    <3>2. CASE FindMany(q)
      <4>1. [req[q] EXCEPT !.items = Inbox({req[q].user})] \in RequestType
        BY <1>1, <2>1, OneNote DEF At, Scripted, RequestType
      <4>2. [req[q] EXCEPT !.items = Inbox({req[q].user})].op = req[q].op
        BY <1>1 DEF RequestType
      <4> QED BY <3>1, <3>2, <4>1, <4>2 DEF FindMany
    <3>3. CASE CountRows(q)
      <4> DEFINE counted == IF req[q].op = "list" THEN Inbox({req[q].user})
                                                  ELSE Unread({req[q].user})
      <4>1. Cardinality(counted) \in {0, 1}
        BY <1>1, <2>1, OneNote DEF At, Scripted
      <4>2. Arrives(q, "total", [req[q] EXCEPT !.total = Cardinality(counted)])
        BY <3>3 DEF CountRows, CountIn
      <4> HIDE DEF counted
      <4>3. /\ [req[q] EXCEPT !.total = Cardinality(counted)] \in RequestType
            /\ [req[q] EXCEPT !.total = Cardinality(counted)].op = req[q].op
        BY <1>1, <4>1 DEF RequestType
      <4> QED BY <3>1, <4>2, <4>3
    <3> QED BY <1>12, <3>2, <3>3
  <2> QED BY <1>1, <2>1, <2>2 DEF At, Scripted, Reads
<1>13. ASSUME NEW q \in Requests, Reply(q) \/ Fail(q) PROVE Told
  BY <1>3, <1>13 DEF Reply, Fail, NoRequest
<1>14. CASE UNCHANGED req
  BY <1>14 DEF At
<1>15. CASE \E u \in Users : Listener(u)
  BY <1>14, <1>15 DEF Listener, MailSent, MailFails, GiveUp, CreateNote, NoteFails
<1> QED BY <1>6, <1>7, <1>8, <1>9, <1>10, <1>11, <1>12, <1>13, <1>14, <1>15
        DEF Next, Handler, vars, Told

(* A note changes by the listener's INSERT, or by an UPDATE for its owner. *)
LEMMA NoteStep ==
  ASSUME IInv, [Next]_vars, NEW u \in Users, notes'[u] # notes[u]
  PROVE  \/ notes[u] = "none" /\ notes'[u] = "unread"
         \/ /\ notes[u] = "unread" /\ notes'[u] = "read"
            /\ \E r \in Requests : req'[r] # req[r] /\ req[r].user = u
<1> USE DEF tables, Quiet
<1>1. /\ \A q \in Requests : req[q] \in RequestType /\ Scripted(req[q])
      /\ notes \in [Users -> {"none", "unread", "read"}] /\ NoteLast
  BY DEF IInv, TypeOK, Scripts, Agreed
<1>2. ASSUME NEW r \in Requests, MarkRead(r) \/ MarkAllRead(r)
      PROVE  /\ notes[u] = "unread" /\ notes'[u] = "read"
             /\ \E q \in Requests : req'[q] # req[q] /\ req[q].user = u
  <2>1. req[r].pc \in {"mark", "markAll"} /\ Answer(r, "ok")
    BY <1>2 DEF MarkRead, MarkAllRead, At
  <2>2. req'[r] # req[r]
    <3>1. [req[r] EXCEPT !.pc = "reply", !.status = "ok"].pc = "reply"
      BY <1>1 DEF RequestType
    <3> QED BY <2>1, <3>1, Moved DEF Answer, IInv
  <2>3. req[r].user = u /\ notes[u] = "unread" /\ notes'[u] = "read"
    BY <1>1, <1>2 DEF MarkRead, MarkAllRead, At, Scripted, NoteLast
  <2> QED BY <2>2, <2>3
<1>3. ASSUME NEW v \in Users, CreateNote(v)
      PROVE  notes[u] = "none" /\ notes'[u] = "unread"
  BY <1>1, <1>3 DEF CreateNote, NoteLast
<1>4. ASSUME NEW v \in Users, Listener(v), ~CreateNote(v) PROVE FALSE
  BY <1>4 DEF Listener, MailSent, MailFails, GiveUp, NoteFails
<1>5. ASSUME NEW r \in Requests,
             \/ FindByEmail(r) \/ InsertUser(r) \/ Announce(r) \/ IssueSession(r)
             \/ FindByIdForUser(r) \/ FindMany(r) \/ CountRows(r) \/ Reply(r) \/ Fail(r)
      PROVE  FALSE
  BY <1>5 DEF FindByEmail, InsertUser, Announce, IssueSession, SessionIf, FindByIdForUser, FindNote,
              FindMany, CountRows, CountIn, Arrives, Reply, Fail
<1>6. ASSUME NEW r \in Requests, NEW v \in Users,
             \/ BeginRegister(r, v) \/ BeginReadAll(r, v)
             \/ \E n \in Users : BeginRead(r, v, n)
             \/ \E op \in Reads : BeginQuery(r, v, op)
      PROVE  FALSE
  BY <1>6 DEF BeginRegister, BeginReadAll, BeginRead, BeginQuery
<1>7. CASE UNCHANGED vars
  BY <1>7 DEF vars
<1> QED BY <1>2, <1>3, <1>4, <1>5, <1>6, <1>7 DEF Next, Handler

(* A note is marked by a request of its owner and by nothing else, who is  *)
(* told a note is read owns it and finds it read, and a page shows the     *)
(* caller's notes alone.                                                   *)
THEOREM OwnNotesCorrect == Spec => OwnNotesOnly
<1>1. IInv /\ [Next]_vars => [Own]_vars
  <2> SUFFICES ASSUME IInv, [Next]_vars PROVE Own
    OBVIOUS
  <2>1. \A r \in Requests : req'[r].items \subseteq {req'[r].user}
    BY RequestStep DEF IInv, Scripts, Scripted
  <2> QED BY <2>1, NoteStep, ReadStep DEF Own
<1> QED BY <1>1, Inductive, PTL DEF Spec, OwnNotesOnly
=============================================================================
