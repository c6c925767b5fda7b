------------------------------ MODULE FilesProofs ------------------------------
(***************************************************************************)
(* Theorems about Files, for every number of requests in flight and every  *)
(* number of uploads.                                                      *)
(***************************************************************************)
EXTENDS Files, Counting

-----------------------------------------------------------------------------
(* The inductive invariant.                                                *)

(* How often an event has been emitted and not been lost.                  *)
Said(e) == pending[e] + recorded[e]

(* The place of a request tells the operation it runs, on a file that has  *)
(* arrived.                                                                *)
Scripted(q, arrived) ==
  /\ q.pc \notin {"idle", "reply"} => q.file \in 1..arrived
  /\ q.pc \in {"save", "create"} => q.op = "upload"
  /\ q.pc = "find" => q.op \in {"info", "download", "remove"}
  /\ q.pc = "read" => q.op = "download"
  /\ q.pc \in {"unlink", "mark"} => q.op = "remove"
  /\ q.pc = "emit" => q.op \in {"upload", "remove"}

Scripts == \A r \in Requests : Scripted(req[r], uploads)

(* An upload is the only one of its file, and its event is still to come.  *)
Uploading(r) == req[r].op = "upload" /\ req[r].pc \in {"save", "create", "emit"}

UploadsAlone ==
  /\ \A r \in Requests : Uploading(r) => Said(Event("uploaded", req[r].file)) = 0
  /\ \A r, s \in Requests :
       Uploading(r) /\ Uploading(s) /\ req[r].file = req[s].file => r = s

(* What the place of a request says of the file's row and object.          *)
Staged ==
  /\ \A f \in FileIds : f > uploads => row[f] = "none"
  /\ \A r \in Requests :
       LET f == req[r].file
       IN /\ req[r].pc \in {"save", "create"} => row[f] = "none"
          /\ req[r].pc = "create" => f \in objects
          /\ req[r].pc \in {"find", "read", "unlink", "mark", "emit"} => row[f] # "none"
          /\ req[r].pc = "emit" /\ req[r].op = "remove" => row[f] = "deleted"
          /\ req[r].pc = "mark" /\ f \in objects => f \in leaked

(* Every event tells of what happened, and what happened is told, lost, or *)
(* about to be told by the request that did it.                            *)
Happened(e) ==
  IF e.action = "uploaded" THEN row[e.file] # "none" ELSE row[e.file] = "deleted"

Telling(r, e) == At(r, "emit") /\ Told(r) = e

Trail ==
  \A e \in Events :
    /\ Said(e) > 0 => Happened(e)
    /\ Happened(e) => Said(e) > 0 \/ e \in silent \/ \E r \in Requests : Telling(r, e)

(* The removals that have found the row, or told that they have marked it, *)
(* are no more than there are slots: none starts once the row is marked.   *)
Removing(f) ==
  {r \in Requests : req[r].op = "remove" /\ req[r].file = f
                    /\ req[r].pc \in {"unlink", "mark", "emit"}}

RemovalsFit ==
  \A f \in FileIds :
    Said(Event("deleted", f)) + Cardinality(Removing(f)) <= Cardinality(Requests)

(* What is remembered as undisturbed still is.                             *)
StillCalm == \A r \in calm : Calm(r)

IInv ==
  /\ TypeOK /\ Scripts /\ UploadsAlone /\ Staged /\ Trail /\ RemovalsFit
  /\ StoresAgree /\ StillCalm /\ DownloadsServed

-----------------------------------------------------------------------------
(* Request r goes on to place pc, and the others stay.                     *)
Moves(r, pc) ==
  /\ req' \in [Requests -> RequestType]
  /\ req'[r].pc = pc /\ req'[r].op = req[r].op /\ req'[r].file = req[r].file
  /\ \A q \in Requests \ {r} : req'[q] = req[q]

(* Request r is another one now, with operation op on file f.              *)
Turns(r, op, pc, f) ==
  /\ req' \in [Requests -> RequestType]
  /\ req'[r].pc = pc /\ req'[r].op = op /\ req'[r].file = f
  /\ \A q \in Requests \ {r} : req'[q] = req[q]

(* The updates of the model move one request.                              *)
LEMMA Movement ==
  ASSUME TypeOK, NEW r \in Requests
  PROVE  /\ \A pc \in Pcs : Goto(r, pc) => Moves(r, pc)
         /\ \A s \in Statuses : Answer(r, s) => Moves(r, "reply") /\ req'[r].status = s
         /\ Become(r, NoRequest) => Turns(r, "none", "idle", 0)
         /\ \A op \in Ops, pc \in Pcs, f \in 0..MaxFiles :
              Become(r, [NoRequest EXCEPT !.op = op, !.pc = pc, !.file = f])
                => Turns(r, op, pc, f)
         /\ Become(r, [NoRequest EXCEPT !.op = "upload", !.pc = "reply",
                                        !.status = "badRequest"])
                => Turns(r, "upload", "reply", 0)
<1>1. req[r] \in RequestType
  BY DEF TypeOK
<1>2. ASSUME NEW h, Become(r, h), h \in RequestType
      PROVE  /\ req' \in [Requests -> RequestType]
             /\ req'[r] = h /\ \A q \in Requests \ {r} : req'[q] = req[q]
  BY <1>2 DEF TypeOK, Become
<1>3. NoRequest \in RequestType
  BY BoundsAssumption DEF NoRequest, RequestType, Ops, Pcs, Statuses
<1>4. ASSUME NEW pc \in Pcs, Goto(r, pc) PROVE Moves(r, pc)
  <2> DEFINE h == [req[r] EXCEPT !.pc = pc]
  <2>1. h \in RequestType /\ h.pc = pc /\ h.op = req[r].op /\ h.file = req[r].file
    BY <1>1 DEF RequestType
  <2> HIDE DEF h
  <2> QED BY <1>2, <1>4, <2>1 DEF Goto, Moves, h
<1>5. ASSUME NEW s \in Statuses, Answer(r, s)
      PROVE  Moves(r, "reply") /\ req'[r].status = s
  <2> DEFINE h == [req[r] EXCEPT !.pc = "reply", !.status = s]
  <2>1. /\ h \in RequestType /\ h.pc = "reply" /\ h.status = s
        /\ h.op = req[r].op /\ h.file = req[r].file
    BY <1>1 DEF RequestType, Pcs
  <2>2. /\ req' \in [Requests -> RequestType]
        /\ req'[r] = h /\ \A q \in Requests \ {r} : req'[q] = req[q]
    BY <1>2, <1>5, <2>1 DEF Answer
  <2> HIDE DEF h
  <2> QED BY <2>1, <2>2 DEF Moves
<1>6. ASSUME Become(r, NoRequest) PROVE Turns(r, "none", "idle", 0)
  <2>1. NoRequest.pc = "idle" /\ NoRequest.op = "none" /\ NoRequest.file = 0
    BY DEF NoRequest
  <2> QED BY <1>2, <1>3, <1>6, <2>1 DEF Turns
<1>7. ASSUME NEW op \in Ops, NEW pc \in Pcs, NEW f \in 0..MaxFiles,
             Become(r, [NoRequest EXCEPT !.op = op, !.pc = pc, !.file = f])
      PROVE  Turns(r, op, pc, f)
  <2> DEFINE h == [NoRequest EXCEPT !.op = op, !.pc = pc, !.file = f]
  <2>1. h \in RequestType /\ h.pc = pc /\ h.op = op /\ h.file = f
    BY <1>3 DEF RequestType
  <2>2. /\ req' \in [Requests -> RequestType]
        /\ req'[r] = h /\ \A q \in Requests \ {r} : req'[q] = req[q]
    BY <1>2, <1>7, <2>1
  <2> HIDE DEF h
  <2> QED BY <2>1, <2>2 DEF Turns
<1>8. ASSUME Become(r, [NoRequest EXCEPT !.op = "upload", !.pc = "reply",
                                         !.status = "badRequest"])
      PROVE  Turns(r, "upload", "reply", 0)
  <2> DEFINE h == [NoRequest EXCEPT !.op = "upload", !.pc = "reply", !.status = "badRequest"]
  <2>1. h \in RequestType /\ h.pc = "reply" /\ h.op = "upload" /\ h.file = 0
    <3>1. "upload" \in Ops /\ "reply" \in Pcs /\ "badRequest" \in Statuses
      BY DEF Ops, Pcs, Statuses
    <3>2. NoRequest.file = 0
      BY DEF NoRequest
    <3> QED BY <1>3, <3>1, <3>2 DEF RequestType
  <2>2. /\ req' \in [Requests -> RequestType]
        /\ req'[r] = h /\ \A q \in Requests \ {r} : req'[q] = req[q]
    BY <1>2, <1>8, <2>1
  <2> HIDE DEF h
  <2> QED BY <2>1, <2>2 DEF Turns
<1> QED BY <1>4, <1>5, <1>6, <1>7, <1>8

(* What each action of a request does to the requests.                     *)
LEMMA Effects ==
  ASSUME TypeOK, Scripts, NEW r \in Requests
  PROVE  /\ Refuse(r) => At(r, "idle") /\ Turns(r, "upload", "reply", 0)
         /\ BeginUpload(r) => /\ At(r, "idle") /\ Turns(r, "upload", "save", uploads + 1)
                              /\ uploads' = uploads + 1 /\ uploads + 1 \in FileIds
         /\ Save(r) => At(r, "save") /\ Moves(r, "create")
         /\ SaveFails(r) => At(r, "save") /\ Moves(r, "reply") /\ req'[r].status = "error"
         /\ CreateRow(r) => At(r, "create") /\ Moves(r, "emit")
         /\ \A op \in {"info", "download", "remove"}, f \in FileIds :
              BeginOn(r, op, f) => At(r, "idle") /\ Turns(r, op, "find", f)
         /\ GetOrThrow(r) =>
              /\ At(r, "find")
              /\ \/ /\ Moves(r, "reply") /\ req'[r].status = "notFound"
                    /\ row[req[r].file] # "live"
                 \/ /\ row[req[r].file] = "live"
                    /\ \/ req[r].op = "info" /\ Moves(r, "reply")
                       \/ req[r].op = "download" /\ Moves(r, "read")
                       \/ req[r].op = "remove" /\ Moves(r, "unlink")
         /\ Read(r) => /\ At(r, "read") /\ Moves(r, "reply")
                       /\ req[r].file \in objects => req'[r].status = "ok"
         /\ Unlink(r) => At(r, "unlink") /\ Moves(r, "mark")
         /\ UnlinkFails(r) => At(r, "unlink") /\ Moves(r, "mark")
         /\ SoftDelete(r) => At(r, "mark") /\ Moves(r, "emit")
         /\ Emit(r) => /\ At(r, "emit") /\ Moves(r, "reply")
                       /\ pending' = [pending EXCEPT ![Told(r)] = @ + 1]
         /\ Reply(r) => At(r, "reply") /\ Turns(r, "none", "idle", 0)
         /\ Fail(r) => ~At(r, "idle") /\ Turns(r, "none", "idle", 0)
<1>1. /\ {"idle", "save", "create", "find", "read", "unlink", "mark", "emit", "reply"} = Pcs
      /\ {"none", "ok", "badRequest", "notFound", "error"} = Statuses
      /\ {"none", "upload", "info", "download", "remove"} = Ops
      /\ FileIds \in SUBSET (0..MaxFiles) /\ MaxFiles \in Nat /\ uploads \in 0..MaxFiles
  BY BoundsAssumption DEF Pcs, Statuses, Ops, FileIds, TypeOK
<1>2. Refuse(r) => At(r, "idle") /\ Turns(r, "upload", "reply", 0)
  BY Movement DEF Refuse
<1>3. BeginUpload(r) => /\ At(r, "idle") /\ Turns(r, "upload", "save", uploads + 1)
                        /\ uploads' = uploads + 1 /\ uploads + 1 \in FileIds
  <2>1. SUFFICES ASSUME BeginUpload(r)
                 PROVE  Turns(r, "upload", "save", uploads + 1) /\ uploads + 1 \in FileIds
    BY DEF BeginUpload
  <2>2. uploads + 1 \in FileIds
    BY <1>1, <2>1 DEF BeginUpload, FileIds
  <2> QED BY <1>1, <2>1, <2>2, Movement DEF BeginUpload
<1>4. Save(r) => At(r, "save") /\ Moves(r, "create")
  BY <1>1, Movement DEF Save
<1>5. SaveFails(r) => At(r, "save") /\ Moves(r, "reply") /\ req'[r].status = "error"
  BY <1>1, Movement DEF SaveFails
<1>6. CreateRow(r) => At(r, "create") /\ Moves(r, "emit")
  BY <1>1, Movement DEF CreateRow
<1>7. ASSUME NEW op \in {"info", "download", "remove"}, NEW f \in FileIds, BeginOn(r, op, f)
      PROVE  At(r, "idle") /\ Turns(r, op, "find", f)
  BY <1>1, <1>7, Movement DEF BeginOn
<1>8. ASSUME GetOrThrow(r)
      PROVE  /\ At(r, "find")
             /\ \/ /\ Moves(r, "reply") /\ req'[r].status = "notFound"
                   /\ row[req[r].file] # "live"
                \/ /\ row[req[r].file] = "live"
                   /\ \/ req[r].op = "info" /\ Moves(r, "reply")
                      \/ req[r].op = "download" /\ Moves(r, "read")
                      \/ req[r].op = "remove" /\ Moves(r, "unlink")
  BY <1>1, <1>8, Movement DEF GetOrThrow
<1>9. Read(r) => /\ At(r, "read") /\ Moves(r, "reply")
                 /\ req[r].file \in objects => req'[r].status = "ok"
  BY <1>1, Movement DEF Read
<1>10. Unlink(r) => At(r, "unlink") /\ Moves(r, "mark")
  BY <1>1, Movement DEF Unlink
<1>11. UnlinkFails(r) => At(r, "unlink") /\ Moves(r, "mark")
  BY <1>1, Movement DEF UnlinkFails
<1>12. SoftDelete(r) => At(r, "mark") /\ Moves(r, "emit")
  BY <1>1, Movement DEF SoftDelete
<1>13. Emit(r) => /\ At(r, "emit") /\ Moves(r, "reply")
                  /\ pending' = [pending EXCEPT ![Told(r)] = @ + 1]
  BY <1>1, Movement DEF Emit, EmitFor, Scripts, Scripted, At
<1>14. Reply(r) => At(r, "reply") /\ Turns(r, "none", "idle", 0)
  BY Movement DEF Reply
<1>15. Fail(r) => ~At(r, "idle") /\ Turns(r, "none", "idle", 0)
  BY Movement DEF Fail
<1> QED BY <1>2, <1>3, <1>4, <1>5, <1>6, <1>7, <1>8, <1>9, <1>10, <1>11, <1>12, <1>13,
           <1>14, <1>15

(* The listener's steps leave the requests and the files alone.            *)
LEMMA ListenerFrame ==
  ASSUME NEW e \in Events, Record(e) \/ Lose(e)
  PROVE  UNCHANGED <<uploads, objects, row, req, broken, leaked>>
BY DEF Record, RecordLeaving, Lose

(* Every step leaves the requests well typed and at their script.          *)
LEMMA RequestStep ==
  TypeOK /\ Scripts /\ Staged /\ [Next]_vars =>
    req' \in [Requests -> RequestType] /\ Scripts' /\ uploads' \in 0..MaxFiles
<1> SUFFICES ASSUME TypeOK, Scripts, Staged, [Next]_vars
             PROVE  req' \in [Requests -> RequestType] /\ Scripts' /\ uploads' \in 0..MaxFiles
  OBVIOUS
<1> DEFINE Goal == req' \in [Requests -> RequestType] /\ Scripts' /\ uploads' \in 0..MaxFiles
<1>1. /\ uploads \in 0..MaxFiles /\ MaxFiles \in Nat
      /\ req \in [Requests -> RequestType]
      /\ \A q \in Requests : req[q] \in RequestType /\ Scripted(req[q], uploads)
  BY BoundsAssumption DEF TypeOK, Scripts
<1>2. ASSUME NEW r \in Requests, NEW pc, Moves(r, pc), uploads' = uploads,
             \/ pc = "create" /\ req[r].pc = "save"
             \/ pc = "emit" /\ req[r].pc \in {"create", "mark"}
             \/ pc = "read" /\ req[r].pc = "find" /\ req[r].op = "download"
             \/ pc = "unlink" /\ req[r].pc = "find" /\ req[r].op = "remove"
             \/ pc = "mark" /\ req[r].pc = "unlink"
             \/ pc = "reply"
      PROVE  Goal
  <2>1. Scripted(req'[r], uploads)
    BY <1>1, <1>2 DEF Moves, Scripted
  <2> QED BY <1>1, <1>2, <2>1 DEF Moves, Scripts
<1>3. ASSUME NEW r \in Requests, NEW op, NEW pc, NEW f, Turns(r, op, pc, f),
             uploads' \in uploads..MaxFiles,
             \/ pc \in {"idle", "reply"}
             \/ pc = "save" /\ op = "upload" /\ f \in 1..uploads'
             \/ pc = "find" /\ op \in {"info", "download", "remove"} /\ f \in 1..uploads'
      PROVE  Goal
  <2>1. Scripted(req'[r], uploads')
    BY <1>3 DEF Turns, Scripted
  <2>2. \A q \in Requests \ {r} : Scripted(req[q], uploads')
    <3>1. 1..uploads \subseteq 1..uploads'
      BY <1>1, <1>3
    <3> QED BY <1>1, <3>1 DEF Scripted
  <2> QED BY <1>1, <1>3, <2>1, <2>2 DEF Turns, Scripts
<1>4. ASSUME UNCHANGED <<req, uploads>> PROVE Goal
  BY <1>1, <1>4 DEF Scripts
<1> HIDE DEF Goal
<1>5. ASSUME NEW r \in Requests, BeginUpload(r) PROVE Goal
  BY <1>1, <1>3, <1>5, Effects DEF FileIds
<1>6. ASSUME NEW r \in Requests, Refuse(r) \/ Reply(r) \/ Fail(r) PROVE Goal
  <2>1. uploads' = uploads
    BY <1>6 DEF Refuse, Reply, Fail, stores
  <2> QED BY <1>1, <1>3, <1>6, <2>1, Effects
<1>7. ASSUME NEW r \in Requests, NEW op \in {"info", "download", "remove"}, NEW f \in FileIds,
             BeginOn(r, op, f)
      PROVE  Goal
  <2>1. uploads' = uploads
    BY <1>7 DEF BeginOn, stores
  <2>2. f \in 1..uploads
    BY <1>1, <1>7 DEF BeginOn, Staged, FileIds
  <2> QED BY <1>1, <1>3, <1>7, <2>1, <2>2, Effects
<1>8. ASSUME NEW r \in Requests,
             \/ Save(r) \/ SaveFails(r) \/ CreateRow(r) \/ GetOrThrow(r) \/ Read(r)
             \/ Unlink(r) \/ UnlinkFails(r) \/ SoftDelete(r) \/ Emit(r)
      PROVE  Goal
  <2>1. uploads' = uploads
    BY <1>8 DEF Save, SaveFails, CreateRow, GetOrThrow, Read, Unlink, UnlinkFails,
                SoftDelete, Emit, EmitFor, stores
  <2> QED BY <1>2, <1>8, <2>1, Effects DEF At
<1>9. ASSUME NEW e \in Events, Record(e) \/ Lose(e) PROVE Goal
  BY <1>4, <1>9, ListenerFrame
<1>10. ASSUME UNCHANGED vars PROVE Goal
  BY <1>4, <1>10 DEF vars, stores
<1> QED BY <1>5, <1>6, <1>7, <1>8, <1>9, <1>10 DEF Next, Step, Goal

(* The events of the trail, by action and file.                            *)
LEMMA EventFacts ==
  /\ \A a \in {"uploaded", "deleted"}, f \in FileIds :
       Event(a, f) \in Events /\ Event(a, f).action = a /\ Event(a, f).file = f
  /\ \A e \in Events : /\ e = Event(e.action, e.file) /\ e.file \in FileIds
                       /\ e.action \in {"uploaded", "deleted"}
BY DEF Events, Event

(* A file with a row has arrived.                                          *)
LEMMA StagedStep == IInv /\ Step => Staged'
<1> SUFFICES ASSUME IInv, Step PROVE Staged'
  OBVIOUS
<1> USE DEF stores, Unlogged
<1>1. /\ TypeOK /\ Scripts /\ UploadsAlone /\ Staged
      /\ uploads \in 0..MaxFiles /\ MaxFiles \in Nat /\ row \in [FileIds -> {"none", "live", "deleted"}]
  BY BoundsAssumption DEF IInv, TypeOK
<1>2. \A r \in Requests : ~At(r, "idle") /\ ~At(r, "reply") => req[r].file \in FileIds
  BY <1>1 DEF Scripts, Scripted, FileIds, At
<1>3. ASSUME NEW r \in Requests, NEW pc, Moves(r, pc), pc \in {"reply", "read", "unlink"},
             pc # "reply" => req[r].pc = "find",
             UNCHANGED <<uploads, objects, row, leaked>>
      PROVE  Staged'
  BY <1>1, <1>3 DEF Staged, Moves
<1>4. ASSUME NEW r \in Requests, Refuse(r) \/ BeginUpload(r) \/ Reply(r) \/ Fail(r)
      PROVE  Staged'
  <2>1. UNCHANGED <<objects, row>> /\ leaked \subseteq leaked'
    BY <1>4 DEF Refuse, BeginUpload, Reply, Fail
  <2>2. ASSUME NEW op, NEW pc \in {"idle", "reply"}, NEW f, Turns(r, op, pc, f), uploads' = uploads
        PROVE  Staged'
    BY <1>1, <2>1, <2>2 DEF Staged, Turns
  <2>3. CASE BeginUpload(r)
    <3>1. /\ uploads' = uploads + 1 /\ Turns(r, "upload", "save", uploads')
          /\ uploads' \in FileIds
      BY <1>1, <2>3, Effects
    <3>2. row[uploads'] = "none"
      BY <1>1, <3>1 DEF Staged
    <3> QED BY <1>1, <2>1, <3>1, <3>2 DEF Staged, Turns
  <2>4. CASE Refuse(r) \/ Reply(r) \/ Fail(r)
    <3>1. uploads' = uploads
      BY <2>4 DEF Refuse, Reply, Fail
    <3> QED BY <1>1, <2>2, <2>4, <3>1, Effects
  <2> QED BY <1>4, <2>3, <2>4
<1>5. ASSUME NEW r \in Requests, NEW op \in {"info", "download", "remove"}, NEW f \in FileIds,
             BeginOn(r, op, f)
      PROVE  Staged'
  <2>1. UNCHANGED <<uploads, objects, row, leaked>> /\ row[f] # "none" /\ Turns(r, op, "find", f)
    BY <1>1, <1>5, Effects DEF BeginOn
  <2> QED BY <1>1, <2>1 DEF Staged, Turns
<1>6. ASSUME NEW r \in Requests, GetOrThrow(r) \/ Read(r) \/ Emit(r) PROVE Staged'
  <2>1. UNCHANGED <<uploads, objects, row, leaked>>
    BY <1>6 DEF GetOrThrow, Read, Emit, EmitFor
  <2> QED BY <1>1, <1>3, <1>6, <2>1, Effects DEF At
<1>7. ASSUME NEW r \in Requests, Save(r) \/ SaveFails(r) PROVE Staged'
  <2>1. /\ objects' = objects \cup {req[r].file} /\ UNCHANGED <<uploads, row>>
        /\ leaked \subseteq leaked' /\ req[r].pc = "save"
        /\ (Moves(r, "create") \/ Moves(r, "reply"))
    BY <1>1, <1>7, Effects DEF Save, SaveFails, At
  <2>2. \A q \in Requests : req[q].pc = "mark" => req[q].file # req[r].file
    BY <1>1, <2>1 DEF Staged
  <2> QED BY <1>1, <2>1, <2>2 DEF Staged, Moves
<1>8. ASSUME NEW r \in Requests, CreateRow(r) PROVE Staged'
  <2> DEFINE f == req[r].file
  <2>1. /\ row' = [row EXCEPT ![f] = "live"] /\ UNCHANGED <<uploads, objects, leaked>>
        /\ req[r].pc = "create" /\ req[r].op = "upload" /\ f \in FileIds /\ f \in 1..uploads
        /\ Moves(r, "emit")
    BY <1>1, <1>2, <1>8, Effects DEF CreateRow, At, Scripts, Scripted
  <2>2. \A q \in Requests \ {r} : req[q].pc \notin {"idle", "reply"} => req[q].file # f
    <3>1. \A q \in Requests \ {r} : Uploading(q) => req[q].file # f
      BY <1>1, <2>1 DEF UploadsAlone, Uploading
    <3>2. \A q \in Requests : req[q].pc \in {"save", "create"} => Uploading(q)
      BY <1>1 DEF Scripts, Scripted, Uploading
    <3>3. \A q \in Requests :
            req[q].pc \in {"find", "read", "unlink", "mark", "emit"} => req[q].file # f
      BY <1>1, <2>1 DEF Staged
    <3> QED BY <1>1, <3>1, <3>2, <3>3 DEF TypeOK, RequestType, Pcs
  <2>3. row'[f] = "live" /\ \A g \in FileIds \ {f} : row'[g] = row[g]
    BY <1>1, <2>1
  <2>4. \A g \in FileIds : g > uploads' => row'[g] = "none"
    BY <1>1, <2>1, <2>3 DEF Staged
  <2> QED BY <1>1, <1>2, <2>1, <2>2, <2>3, <2>4 DEF Staged, Moves, At
<1>9. ASSUME NEW r \in Requests, Unlink(r) \/ UnlinkFails(r) PROVE Staged'
  <2> DEFINE f == req[r].file
  <2>1. /\ \/ objects' = objects \ {f} /\ UNCHANGED leaked
           \/ UNCHANGED objects /\ leaked' = leaked \cup {f}
        /\ UNCHANGED <<uploads, row>> /\ req[r].pc = "unlink" /\ Moves(r, "mark")
    BY <1>1, <1>9, Effects DEF Unlink, UnlinkFails, At
  <2>2. \A q \in Requests : req[q].pc = "create" => req[q].file # f
    BY <1>1, <2>1 DEF Staged
  <2> QED BY <1>1, <2>1, <2>2 DEF Staged, Moves
<1>10. ASSUME NEW r \in Requests, SoftDelete(r) PROVE Staged'
  <2> DEFINE f == req[r].file
  <2>1. /\ row' = [row EXCEPT ![f] = "deleted"] /\ UNCHANGED <<uploads, objects, leaked>>
        /\ req[r].pc = "mark" /\ f \in FileIds /\ f \in 1..uploads /\ Moves(r, "emit")
    BY <1>1, <1>2, <1>10, Effects DEF SoftDelete, At, Scripts, Scripted
  <2>2. \A q \in Requests : req[q].pc \in {"save", "create"} => req[q].file # f
    BY <1>1, <2>1 DEF Staged
  <2>3. row'[f] = "deleted" /\ \A g \in FileIds \ {f} : row'[g] = row[g]
    BY <1>1, <2>1
  <2>4. \A g \in FileIds : g > uploads' => row'[g] = "none"
    BY <1>1, <2>1, <2>3 DEF Staged
  <2> QED BY <1>1, <1>2, <2>1, <2>2, <2>3, <2>4 DEF Staged, Moves, At
<1>11. ASSUME NEW e \in Events, Record(e) \/ Lose(e) PROVE Staged'
  BY <1>1, <1>11, ListenerFrame DEF Staged
<1> QED BY <1>4, <1>5, <1>6, <1>7, <1>8, <1>9, <1>10, <1>11 DEF Step

(* A request that is about a file has the number of one.                   *)
LEMMA FileOf ==
  ASSUME TypeOK, Scripts, NEW r \in Requests, req[r].pc \notin {"idle", "reply"}
  PROVE  req[r].file \in FileIds
<1>1. req[r].file \in 1..uploads /\ uploads \in 0..MaxFiles /\ MaxFiles \in Nat
  BY BoundsAssumption DEF TypeOK, Scripts, Scripted
<1> QED BY <1>1 DEF FileIds

(* Rows and objects agree after every step.                                *)
LEMMA AgreeStep == IInv /\ Step => StoresAgree'
<1> SUFFICES ASSUME IInv, Step, NEW f \in FileIds
             PROVE  /\ row'[f] = "live" => \/ f \in objects' \cup broken'
                                           \/ \E q \in Requests : req'[q].file = f /\ req'[q].pc = "mark"
                    /\ f \in objects' => \/ row'[f] = "live" \/ f \in leaked'
                                         \/ \E q \in Requests : req'[q].file = f /\ req'[q].pc = "create"
  BY DEF StoresAgree, Handling
<1> USE DEF stores, Unlogged
<1> DEFINE Marking(g) == \E q \in Requests : req[q].file = g /\ req[q].pc = "mark"
           Creating(g) == \E q \in Requests : req[q].file = g /\ req[q].pc = "create"
           Goal == /\ row'[f] = "live" => f \in objects' \cup broken' \/ Marking(f)'
                   /\ f \in objects' => row'[f] = "live" \/ f \in leaked' \/ Creating(f)'
<1>1. /\ TypeOK /\ Scripts /\ Staged
      /\ row \in [FileIds -> {"none", "live", "deleted"}]
      /\ row[f] = "live" => f \in objects \cup broken \/ Marking(f)
      /\ f \in objects => row[f] = "live" \/ f \in leaked \/ Creating(f)
  BY DEF IInv, TypeOK, StoresAgree, Handling
<1>2. ASSUME NEW r \in Requests, \A q \in Requests \ {r} : req'[q] = req[q],
             req[r].pc \notin {"mark", "create"}, UNCHANGED <<row, objects>>,
             broken \subseteq broken', leaked \subseteq leaked'
      PROVE  Goal
  <2>1. Marking(f) => Marking(f)'
    BY <1>2
  <2>2. Creating(f) => Creating(f)'
    BY <1>2
  <2> HIDE DEF Marking, Creating
  <2> QED BY <1>1, <1>2, <2>1, <2>2
<1>3. ASSUME NEW r \in Requests, NEW pc, Moves(r, pc)
      PROVE  /\ pc = "mark" /\ req[r].file = f => Marking(f)'
             /\ pc = "create" /\ req[r].file = f => Creating(f)'
             /\ req[r].file # f => (Marking(f) => Marking(f)') /\ (Creating(f) => Creating(f)')
             /\ req[r].pc # "mark" => (Marking(f) => Marking(f)')
             /\ req[r].pc # "create" => (Creating(f) => Creating(f)')
  BY <1>3 DEF Moves
<1> HIDE DEF Marking, Creating
<1>4. ASSUME NEW r \in Requests,
             \/ Refuse(r) \/ BeginUpload(r) \/ GetOrThrow(r) \/ Read(r) \/ Emit(r) \/ Reply(r)
             \/ Fail(r) /\ req[r].pc \notin {"mark", "create"}
             \/ \E op \in {"info", "download", "remove"}, g \in FileIds : BeginOn(r, op, g)
      PROVE  Goal
  <2>1. UNCHANGED <<row, objects>> /\ broken \subseteq broken' /\ leaked \subseteq leaked'
    BY <1>4 DEF Refuse, BeginUpload, GetOrThrow, Read, Emit, EmitFor, Reply, Fail, BeginOn
  <2>2. req[r].pc \notin {"mark", "create"} /\ \A q \in Requests \ {r} : req'[q] = req[q]
    BY <1>1, <1>4, Effects DEF Moves, Turns, At
  <2> QED BY <1>2, <2>1, <2>2
<1>5. ASSUME NEW r \in Requests, Save(r) \/ SaveFails(r) PROVE Goal
  <2>1. /\ objects' = objects \cup {req[r].file} /\ UNCHANGED <<row, broken>>
        /\ req[r].pc = "save"
        /\ \/ Moves(r, "create") /\ UNCHANGED leaked
           \/ Moves(r, "reply") /\ leaked' = leaked \cup {req[r].file}
    BY <1>1, <1>5, Effects DEF Save, SaveFails, At
  <2> QED BY <1>1, <1>3, <2>1
<1>6. ASSUME NEW r \in Requests, CreateRow(r) PROVE Goal
  <2>1. /\ row' = [row EXCEPT ![req[r].file] = "live"] /\ UNCHANGED <<objects, broken, leaked>>
        /\ req[r].pc = "create" /\ Moves(r, "emit") /\ req[r].file \in objects
    BY <1>1, <1>6, Effects DEF CreateRow, At, Staged
  <2> QED BY <1>1, <1>3, <2>1
<1>7. ASSUME NEW r \in Requests, Unlink(r) \/ UnlinkFails(r) PROVE Goal
  <2>1. /\ UNCHANGED <<row, broken>> /\ req[r].pc = "unlink" /\ Moves(r, "mark")
        /\ \/ objects' = objects \ {req[r].file} /\ UNCHANGED leaked
           \/ UNCHANGED objects /\ leaked' = leaked \cup {req[r].file}
    BY <1>1, <1>7, Effects DEF Unlink, UnlinkFails, At
  <2> QED BY <1>1, <1>3, <2>1
<1>8. ASSUME NEW r \in Requests, SoftDelete(r) PROVE Goal
  <2>1. /\ row' = [row EXCEPT ![req[r].file] = "deleted"]
        /\ UNCHANGED <<objects, broken, leaked>>
        /\ req[r].pc = "mark" /\ Moves(r, "emit")
        /\ req[r].file \in objects => req[r].file \in leaked
    BY <1>1, <1>8, Effects DEF SoftDelete, At, Staged
  <2> QED BY <1>1, <1>3, <2>1
<1>9. ASSUME NEW r \in Requests, Fail(r), req[r].pc \in {"mark", "create"} PROVE Goal
  <2>1. /\ UNCHANGED <<row, objects>> /\ broken \subseteq broken' /\ leaked \subseteq leaked'
        /\ req[r].pc = "mark" => req[r].file \in broken'
        /\ req[r].pc = "create" => req[r].file \in leaked'
    BY <1>9 DEF Fail, At
  <2>2. \A q \in Requests \ {r} : req'[q] = req[q]
    BY <1>1, <1>9, Effects DEF Turns
  <2>3. Marking(f) => Marking(f)' \/ (req[r].pc = "mark" /\ req[r].file = f)
    BY <2>2 DEF Marking
  <2>4. Creating(f) => Creating(f)' \/ (req[r].pc = "create" /\ req[r].file = f)
    BY <2>2 DEF Creating
  <2> QED BY <1>1, <2>1, <2>3, <2>4
<1>10. ASSUME NEW e \in Events, Record(e) \/ Lose(e) PROVE Goal
  BY <1>1, <1>10, ListenerFrame DEF Marking, Creating
<1> QED BY <1>4, <1>5, <1>6, <1>7, <1>8, <1>9, <1>10 DEF Step, Marking, Creating

-----------------------------------------------------------------------------
(* How a step changes what has been said: an emission by one more, the     *)
(* loss of an event by one less, and nothing else at all.                  *)
SaidNext(e) == pending'[e] + recorded'[e]

SaidSame == \A e \in Events : SaidNext(e) = Said(e)

LEMMA SaidStep ==
  ASSUME TypeOK, Scripts
  PROVE  /\ \A e \in Events : Said(e) \in Nat
         /\ \A r \in Requests : At(r, "emit") => Told(r) \in Events
         /\ \A r \in Requests : Emit(r) =>
              /\ pending' \in [Events -> Nat] /\ recorded' \in [Events -> Nat]
              /\ \A e \in Events : SaidNext(e) = IF e = Told(r) THEN Said(e) + 1 ELSE Said(e)
         /\ \A d \in Events : Record(d) =>
              /\ pending' \in [Events -> Nat] /\ recorded' \in [Events -> Nat]
              /\ SaidSame
         /\ \A d \in Events : Lose(d) =>
              /\ pending' \in [Events -> Nat] /\ recorded' \in [Events -> Nat]
              /\ \A e \in Events : SaidNext(e) = IF e = d THEN Said(e) - 1 ELSE Said(e)
<1> USE DEF Said, SaidNext, SaidSame
<1>1. pending \in [Events -> Nat] /\ recorded \in [Events -> Nat]
  BY DEF TypeOK
<1>2. \A r \in Requests : At(r, "emit") => Told(r) \in Events
  BY FileOf, EventFacts DEF At, Told
<1>3. ASSUME NEW r \in Requests, Emit(r)
      PROVE  /\ pending' \in [Events -> Nat] /\ recorded' \in [Events -> Nat]
             /\ \A e \in Events : SaidNext(e) = IF e = Told(r) THEN Said(e) + 1 ELSE Said(e)
  <2>1. pending' = [pending EXCEPT ![Told(r)] = @ + 1] /\ recorded' = recorded
    BY <1>3, Effects DEF Emit, EmitFor
  <2>2. Told(r) \in Events
    BY <1>2, <1>3, Effects
  <2> HIDE DEF Said, SaidNext, SaidSame
  <2>3. pending' \in [Events -> Nat] /\ recorded' \in [Events -> Nat]
    BY <1>1, <2>1, <2>2
  <2>4. ASSUME NEW e \in Events
        PROVE  SaidNext(e) = IF e = Told(r) THEN Said(e) + 1 ELSE Said(e)
    BY <1>1, <2>1, <2>2 DEF Said, SaidNext
  <2> QED BY <2>3, <2>4
<1>4. ASSUME NEW d \in Events, Record(d)
      PROVE  pending' \in [Events -> Nat] /\ recorded' \in [Events -> Nat] /\ SaidSame
  <2>1. /\ pending' = [pending EXCEPT ![d] = pending[d] - 1] /\ pending[d] > 0
        /\ recorded' = [recorded EXCEPT ![d] = @ + 1]
    BY <1>4 DEF Record, RecordLeaving
  <2> QED BY <1>1, <2>1
<1>5. ASSUME NEW d \in Events, Lose(d)
      PROVE  /\ pending' \in [Events -> Nat] /\ recorded' \in [Events -> Nat]
             /\ \A e \in Events : SaidNext(e) = IF e = d THEN Said(e) - 1 ELSE Said(e)
  <2>1. /\ pending' = [pending EXCEPT ![d] = @ - 1] /\ pending[d] > 0
        /\ recorded' = recorded
    BY <1>5 DEF Lose
  <2> QED BY <1>1, <2>1
<1> QED BY <1>1, <1>2, <1>3, <1>4, <1>5

(* The steps of a request that say nothing.                                *)
LEMMA SilentStep ==
  ASSUME NEW r \in Requests,
         \/ Refuse(r) \/ BeginUpload(r) \/ Save(r) \/ SaveFails(r) \/ CreateRow(r)
         \/ \E op \in {"info", "download", "remove"}, f \in FileIds : BeginOn(r, op, f)
         \/ GetOrThrow(r) \/ Read(r) \/ Unlink(r) \/ UnlinkFails(r) \/ SoftDelete(r)
         \/ Reply(r) \/ Fail(r)
  PROVE  /\ UNCHANGED <<pending, recorded>> /\ SaidSame
         /\ ~Fail(r) => silent' = silent
         /\ Fail(r) => silent' = IF At(r, "emit") THEN silent \cup {Told(r)} ELSE silent
BY DEF Refuse, BeginUpload, Save, SaveFails, CreateRow, BeginOn, GetOrThrow, Read, Unlink,
       UnlinkFails, SoftDelete, Reply, Fail, stores, Unlogged, SaidSame, SaidNext, Said

(* An upload stays the only one of its file until it has told.             *)
LEMMA AloneStep == IInv /\ Step => UploadsAlone'
<1> SUFFICES ASSUME IInv, Step PROVE UploadsAlone'
  OBVIOUS
<1>1. /\ TypeOK /\ Scripts /\ UploadsAlone /\ Staged /\ Trail
      /\ uploads \in 0..MaxFiles /\ MaxFiles \in Nat
      /\ \A e \in Events : Said(e) \in Nat
  BY BoundsAssumption, SaidStep DEF IInv, TypeOK
<1> DEFINE Upload(q) == q.op = "upload" /\ q.pc \in {"save", "create", "emit"}
           Quiet(q) == SaidNext(Event("uploaded", q.file)) = 0
<1>2. /\ \A q \in Requests : Upload(req[q]) => Said(Event("uploaded", req[q].file)) = 0
      /\ \A q, s \in Requests :
           Upload(req[q]) /\ Upload(req[s]) /\ req[q].file = req[s].file => q = s
  BY <1>1 DEF UploadsAlone, Uploading
<1>3. ASSUME \A q \in Requests : Upload(req'[q]) => Quiet(req'[q]),
             \A q, s \in Requests :
               Upload(req'[q]) /\ Upload(req'[s]) /\ req'[q].file = req'[s].file => q = s
      PROVE  UploadsAlone'
  BY <1>3 DEF UploadsAlone, Uploading, Said, SaidNext
<1>4. \A q \in Requests : Upload(req[q]) => req[q].file \in FileIds
                                            /\ Event("uploaded", req[q].file) \in Events
  BY <1>1, FileOf, EventFacts
<1> HIDE DEF Quiet
<1>5. ASSUME NEW r \in Requests, \A q \in Requests \ {r} : req'[q] = req[q],
             Upload(req'[r]) => Upload(req[r]) /\ req'[r].file = req[r].file,
             \A q \in Requests : Upload(req'[q]) => Quiet(req'[q])
      PROVE  UploadsAlone'
  BY <1>2, <1>3, <1>5
<1>6. ASSUME NEW r \in Requests, \A q \in Requests \ {r} : req'[q] = req[q],
             Upload(req'[r]) => Upload(req[r]) /\ req'[r].file = req[r].file,
             SaidSame
      PROVE  UploadsAlone'
  <2>1. \A q \in Requests : Upload(req'[q]) => Quiet(req'[q])
    BY <1>2, <1>4, <1>6 DEF Quiet, SaidSame
  <2> QED BY <1>5, <1>6, <2>1
<1>7. ASSUME NEW r \in Requests,
             \/ Refuse(r) \/ Save(r) \/ SaveFails(r) \/ CreateRow(r)
             \/ \E op \in {"info", "download", "remove"}, f \in FileIds : BeginOn(r, op, f)
             \/ GetOrThrow(r) \/ Read(r) \/ Unlink(r) \/ UnlinkFails(r) \/ SoftDelete(r)
             \/ Reply(r) \/ Fail(r)
      PROVE  UploadsAlone'
  <2>1. SaidSame
    BY <1>7, SilentStep
  <2>2. \A q \in Requests \ {r} : req'[q] = req[q]
    BY <1>1, <1>7, Effects DEF Moves, Turns
  <2>3. Upload(req'[r]) => Upload(req[r]) /\ req'[r].file = req[r].file
    BY <1>1, <1>7, Effects DEF Moves, Turns, At, Scripts, Scripted
  <2> QED BY <1>6, <2>1, <2>2, <2>3
<1>8. ASSUME NEW r \in Requests, BeginUpload(r) PROVE UploadsAlone'
  <2> DEFINE f == uploads + 1
  <2>1. Turns(r, "upload", "save", f) /\ f \in FileIds /\ SaidSame
    BY <1>1, <1>8, Effects, SilentStep
  <2>2. Said(Event("uploaded", f)) = 0
    <3>1. row[f] = "none"
      BY <1>1, <2>1 DEF Staged
    <3> QED BY <1>1, <2>1, <3>1, EventFacts DEF Trail, Happened
  <2>3. \A q \in Requests \ {r} : Upload(req[q]) => req[q].file # f
    BY <1>1 DEF Scripts, Scripted
  <2>4. \A q \in Requests : Upload(req'[q]) => Quiet(req'[q])
    BY <1>2, <1>4, <2>1, <2>2, EventFacts DEF Quiet, SaidSame, Turns
  <2> QED BY <1>2, <1>3, <2>1, <2>3, <2>4 DEF Turns
<1>9. ASSUME NEW r \in Requests, Emit(r) PROVE UploadsAlone'
  <2>1. /\ At(r, "emit") /\ Moves(r, "reply")
        /\ \A e \in Events : SaidNext(e) = IF e = Told(r) THEN Said(e) + 1 ELSE Said(e)
    BY <1>1, <1>9, Effects, SaidStep
  <2>2. ASSUME NEW q \in Requests, Upload(req'[q]) PROVE Quiet(req'[q])
    <3>1. q # r /\ req'[q] = req[q] /\ req[q].file \in FileIds
      BY <1>4, <2>1, <2>2 DEF Moves
    <3>2. Event("uploaded", req[q].file) # Told(r)
      <4>1. CASE req[r].op = "upload"
        BY <1>2, <1>4, <2>1, <2>2, <3>1, <4>1, EventFacts DEF Told, At
      <4>2. CASE req[r].op # "upload"
        <5>1. req[r].file \in FileIds
          BY <1>1, <2>1, FileOf DEF At
        <5> QED BY <3>1, <4>2, <5>1, EventFacts DEF Told
      <4> QED BY <4>1, <4>2
    <3> QED BY <1>2, <1>4, <2>1, <2>2, <3>1, <3>2 DEF Quiet
  <2> QED BY <1>5, <2>1, <2>2 DEF Moves
<1>10. ASSUME NEW e \in Events, Record(e) PROVE UploadsAlone'
  <2>1. req' = req /\ SaidSame
    BY <1>1, <1>10, ListenerFrame, SaidStep
  <2>2. \A q \in Requests : Upload(req'[q]) => Quiet(req'[q])
    BY <1>2, <1>4, <2>1 DEF Quiet, SaidSame
  <2> QED BY <1>2, <1>3, <2>1, <2>2
<1>11. ASSUME NEW d \in Events, Lose(d) PROVE UploadsAlone'
  <2>1. /\ req' = req /\ Said(d) > 0
        /\ \A e \in Events : SaidNext(e) = IF e = d THEN Said(e) - 1 ELSE Said(e)
    <3>1. Said(d) > 0
      BY <1>1, <1>11 DEF Lose, Said, TypeOK
    <3> QED BY <1>1, <1>11, <3>1, ListenerFrame, SaidStep
  <2>2. \A q \in Requests : Upload(req'[q]) => Quiet(req'[q])
    BY <1>2, <1>4, <2>1 DEF Quiet
  <2> QED BY <1>2, <1>3, <2>1, <2>2
<1> QED BY <1>7, <1>8, <1>9, <1>10, <1>11 DEF Step

(* The trail keeps telling of what happened, and of nothing else.          *)
LEMMA TrailStep == IInv /\ Step => Trail'
<1> DEFINE Telling2(e) == \E r \in Requests : Telling(r, e)
           Kept(e) == /\ SaidNext(e) > 0 => Happened(e)'
                      /\ Happened(e)' => \/ SaidNext(e) > 0 \/ e \in silent'
                                         \/ Telling2(e)'
<1> SUFFICES ASSUME IInv, Step, NEW e \in Events PROVE Kept(e)
  BY DEF Trail, Said, SaidNext
<1>1. /\ TypeOK /\ Scripts /\ Staged
      /\ row \in [FileIds -> {"none", "live", "deleted"}]
      /\ Said(e) \in Nat
      /\ Said(e) > 0 => Happened(e)
      /\ Happened(e) => Said(e) > 0 \/ e \in silent \/ Telling2(e)
      /\ e.file \in FileIds /\ e.action \in {"uploaded", "deleted"}
  BY SaidStep, EventFacts DEF IInv, TypeOK, Trail
<1>2. ASSUME NEW r \in Requests, \A q \in Requests \ {r} : req'[q] = req[q]
      PROVE  Telling2(e) => Telling2(e)' \/ Telling(r, e)
  BY <1>2 DEF Telling, At, Told
<1> HIDE DEF Telling2
<1>3. ASSUME NEW r \in Requests,
             \/ Refuse(r) \/ BeginUpload(r) \/ Save(r) \/ SaveFails(r)
             \/ \E op \in {"info", "download", "remove"}, f \in FileIds : BeginOn(r, op, f)
             \/ GetOrThrow(r) \/ Read(r) \/ Unlink(r) \/ UnlinkFails(r)
             \/ Reply(r) \/ Fail(r)
      PROVE  Kept(e)
  <2>1. /\ SaidNext(e) = Said(e) /\ silent \subseteq silent'
        /\ Fail(r) /\ At(r, "emit") => Told(r) \in silent'
    BY <1>3, SilentStep DEF SaidSame
  <2>2. \A q \in Requests \ {r} : req'[q] = req[q]
    BY <1>1, <1>3, Effects DEF Moves, Turns
  <2>3. row' = row
    BY <1>3 DEF Refuse, BeginUpload, Save, SaveFails, BeginOn, GetOrThrow, Read, Unlink,
                UnlinkFails, Reply, Fail, stores
  <2>4. Telling(r, e) => e \in silent'
    BY <1>1, <1>3, <2>1, Effects DEF Telling, At
  <2> QED BY <1>1, <1>2, <2>1, <2>2, <2>3, <2>4 DEF Happened
<1>4. ASSUME NEW r \in Requests, CreateRow(r) \/ SoftDelete(r) PROVE Kept(e)
  <2> DEFINE f == req[r].file
             new == IF CreateRow(r) THEN "live" ELSE "deleted"
  <2>1. /\ SaidNext(e) = Said(e) /\ silent' = silent
    BY <1>1, <1>4, SilentStep, Effects DEF SaidSame, CreateRow, SoftDelete, Unlogged
  <2>2. /\ Moves(r, "emit") /\ f \in FileIds /\ row' = [row EXCEPT ![f] = new]
        /\ CreateRow(r) => req[r].op = "upload" /\ row[f] = "none"
        /\ ~CreateRow(r) => req[r].op = "remove" /\ row[f] # "none"
        /\ req[r].pc # "emit"
    BY <1>1, <1>4, Effects, FileOf DEF CreateRow, SoftDelete, At, Staged, Scripts, Scripted
  <2>3. Happened(e) => Happened(e)'
    BY <1>1, <2>2 DEF Happened
  <2>4. Happened(e)' => Happened(e) \/ Telling2(e)'
    <3>1. SUFFICES ASSUME Happened(e)', ~Happened(e) PROVE Telling(r, e)'
      BY DEF Telling2
    <3>2. e.file = f /\ e.action = IF CreateRow(r) THEN "uploaded" ELSE "deleted"
      BY <1>1, <2>2, <3>1 DEF Happened
    <3>3. e = Event(IF req[r].op = "upload" THEN "uploaded" ELSE "deleted", f)
      BY <2>2, <3>2, EventFacts
    <3> QED BY <2>2, <3>3 DEF Telling, Told, At, Moves
  <2>5. Telling2(e) => Telling2(e)'
    BY <1>2, <2>2 DEF Moves, Telling, At
  <2> QED BY <1>1, <2>1, <2>3, <2>4, <2>5
<1>5. ASSUME NEW r \in Requests, Emit(r) PROVE Kept(e)
  <2>1. /\ SaidNext(e) = IF e = Told(r) THEN Said(e) + 1 ELSE Said(e)
        /\ At(r, "emit") /\ Moves(r, "reply") /\ row' = row /\ silent' = silent
    BY <1>1, <1>5, Effects, SaidStep DEF Emit, EmitFor
  <2>2. CASE e = Told(r)
    <3>1. Happened(e)
      <4>1. CASE req[r].op = "upload"
        <5>1. e.action = "uploaded" /\ e.file = req[r].file
          BY <1>1, <2>1, <2>2, <4>1, FileOf, EventFacts DEF Told, At
        <5> QED BY <1>1, <2>1, <5>1 DEF Happened, Staged, At
      <4>2. CASE req[r].op # "upload"
        <5>1. /\ e.action = "deleted" /\ e.file = req[r].file
              /\ req[r].op = "remove"
          BY <1>1, <2>1, <2>2, <4>2, FileOf, EventFacts DEF Told, At, Scripts, Scripted
        <5> QED BY <1>1, <2>1, <5>1 DEF Happened, Staged, At
      <4> QED BY <4>1, <4>2
    <3> QED BY <1>1, <2>1, <2>2, <3>1 DEF Happened
  <2>3. CASE e # Told(r)
    BY <1>1, <1>2, <2>1, <2>3 DEF Happened, Telling, Moves
  <2> QED BY <2>2, <2>3
<1>6. ASSUME NEW d \in Events, Record(d) PROVE Kept(e)
  <2>1. req' = req /\ row' = row /\ silent' = silent /\ SaidNext(e) = Said(e)
    BY <1>1, <1>6, ListenerFrame, SaidStep DEF SaidSame, Record, RecordLeaving
  <2>2. Telling2(e) => Telling2(e)'
    BY <2>1 DEF Telling2, Telling, At, Told
  <2> QED BY <1>1, <2>1, <2>2 DEF Happened
<1>7. ASSUME NEW d \in Events, Lose(d) PROVE Kept(e)
  <2>1. /\ req' = req /\ row' = row /\ silent' = silent \cup {d}
        /\ SaidNext(e) = IF e = d THEN Said(e) - 1 ELSE Said(e)
    BY <1>1, <1>7, ListenerFrame, SaidStep DEF Lose
  <2>2. Telling2(e) => Telling2(e)'
    BY <2>1 DEF Telling2, Telling, At, Told
  <2> QED BY <1>1, <2>1, <2>2 DEF Happened
<1> QED BY <1>3, <1>4, <1>5, <1>6, <1>7 DEF Step

(* The removals under way and told stay within the number of slots.        *)
LEMMA RemovalsStep == IInv /\ Step => RemovalsFit'
<1> DEFINE N == Cardinality(Requests)
           e(f) == Event("deleted", f)
           B(f) == {r \in Requests : req'[r].op = "remove" /\ req'[r].file = f
                                     /\ req'[r].pc \in {"unlink", "mark", "emit"}}
<1> SUFFICES ASSUME IInv, Step, NEW f \in FileIds
             PROVE  SaidNext(e(f)) + Cardinality(B(f)) <= N
  BY DEF RemovalsFit, Said, SaidNext, Removing
<1>1. /\ TypeOK /\ Scripts /\ e(f) \in Events /\ e(f).action = "deleted" /\ e(f).file = f
      /\ Said(e(f)) \in Nat
      /\ Said(e(f)) + Cardinality(Removing(f)) <= N
      /\ row[f] # "deleted" => Said(e(f)) = 0
  BY EventFacts, SaidStep DEF IInv, RemovalsFit, Trail, Happened
<1>2. /\ Removing(f) \in SUBSET Requests /\ B(f) \in SUBSET Requests
      /\ Cardinality(Removing(f)) \in Nat /\ Cardinality(B(f)) \in Nat /\ N \in Nat
      /\ Cardinality(B(f)) <= N
  BY RequestsAssumption, PartType DEF Removing
<1>3. ASSUME NEW r \in Requests, \A q \in Requests \ {r} : req'[q] = req[q]
      PROVE  Cardinality(B(f)) + One(r, Removing(f)) = Cardinality(Removing(f)) + One(r, B(f))
  <2>1. Removing(f) \ {r} = B(f) \ {r}
    BY <1>3 DEF Removing
  <2> HIDE DEF B
  <2> QED BY <1>2, <2>1, RequestsAssumption, PartMove
<1>4. ASSUME NEW r \in Requests, \A q \in Requests \ {r} : req'[q] = req[q],
             r \in B(f) => r \in Removing(f), SaidSame
      PROVE  SaidNext(e(f)) + Cardinality(B(f)) <= N
  <2> HIDE DEF B, N
  <2>1. Cardinality(B(f)) <= Cardinality(Removing(f))
    BY <1>2, <1>3, <1>4 DEF One
  <2> QED BY <1>1, <1>2, <1>4, <2>1 DEF SaidSame
<1>5. ASSUME NEW r \in Requests,
             \/ Refuse(r) \/ BeginUpload(r) \/ Save(r) \/ SaveFails(r) \/ CreateRow(r)
             \/ \E op \in {"info", "download", "remove"}, g \in FileIds : BeginOn(r, op, g)
             \/ Read(r) \/ Unlink(r) \/ UnlinkFails(r) \/ SoftDelete(r)
             \/ Reply(r) \/ Fail(r)
      PROVE  SaidNext(e(f)) + Cardinality(B(f)) <= N
  <2>1. SaidSame
    BY <1>5, SilentStep
  <2>2. \A q \in Requests \ {r} : req'[q] = req[q]
    BY <1>1, <1>5, Effects DEF Moves, Turns
  <2>3. r \in B(f) => r \in Removing(f)
    BY <1>1, <1>5, Effects DEF Moves, Turns, At, Removing, Scripts, Scripted
  <2> QED BY <1>4, <2>1, <2>2, <2>3
<1>6. ASSUME NEW r \in Requests, GetOrThrow(r)
      PROVE  SaidNext(e(f)) + Cardinality(B(f)) <= N
  <2>1. SaidSame /\ \A q \in Requests \ {r} : req'[q] = req[q]
    BY <1>1, <1>6, SilentStep, Effects DEF Moves
  <2>2. CASE row[f] # "deleted"
    BY <1>1, <1>2, <2>1, <2>2 DEF SaidSame
  <2>3. CASE row[f] = "deleted"
    <3>1. r \in B(f) => r \in Removing(f)
      BY <1>1, <1>6, <2>3, Effects DEF Moves, At, Removing
    <3> QED BY <1>4, <2>1, <3>1
  <2> QED BY <2>2, <2>3
<1>7. ASSUME NEW r \in Requests, Emit(r)
      PROVE  SaidNext(e(f)) + Cardinality(B(f)) <= N
  <2>1. /\ SaidNext(e(f)) = IF e(f) = Told(r) THEN Said(e(f)) + 1 ELSE Said(e(f))
        /\ At(r, "emit") /\ Moves(r, "reply")
    BY <1>1, <1>7, Effects, SaidStep
  <2>2. r \notin B(f) /\ \A q \in Requests \ {r} : req'[q] = req[q]
    BY <2>1 DEF Moves
  <2>3. e(f) = Told(r) => r \in Removing(f)
    <3>1. SUFFICES ASSUME e(f) = Told(r) PROVE r \in Removing(f)
      OBVIOUS
    <3>2. req[r].op # "upload" /\ req[r].file = f
      BY <1>1, <2>1, <3>1, FileOf, EventFacts DEF Told, At
    <3> QED BY <1>1, <2>1, <3>2 DEF Removing, At, Scripts, Scripted
  <2> HIDE DEF B, N, e
  <2> QED BY <1>1, <1>2, <1>3, <2>1, <2>2, <2>3 DEF One
<1>8. ASSUME NEW d \in Events, Record(d) \/ Lose(d)
      PROVE  SaidNext(e(f)) + Cardinality(B(f)) <= N
  <2>1. B(f) = Removing(f)
    BY <1>8, ListenerFrame DEF Removing
  <2>2. SaidNext(e(f)) \in {Said(e(f)), Said(e(f)) - 1}
    BY <1>1, <1>8, SaidStep DEF SaidSame
  <2> HIDE DEF B, N, e
  <2> QED BY <1>1, <1>2, <2>1, <2>2
<1> QED BY <1>5, <1>6, <1>7, <1>8 DEF Step

-----------------------------------------------------------------------------
(* Every variable keeps its type; the trail stays within its bounds.       *)
LEMMA TypeStep == IInv /\ Next => TypeOK'
<1> SUFFICES ASSUME IInv, Next PROVE TypeOK'
  OBVIOUS
<1> USE DEF stores, Unlogged
<1>1. /\ TypeOK /\ Scripts /\ UploadsAlone /\ Staged
      /\ row \in [FileIds -> {"none", "live", "deleted"}]
      /\ pending \in [Events -> Nat] /\ recorded \in [Events -> Nat]
      /\ objects \cup broken \cup leaked \subseteq FileIds /\ silent \subseteq Events
      /\ \A e \in Events : Said(e) \in Nat
      /\ \A e \in Events : e.action = "uploaded" => Said(e) <= 1
  BY SaidStep DEF IInv, TypeOK, Said
<1>2. /\ req' \in [Requests -> RequestType] /\ uploads' \in 0..MaxFiles
      /\ calm' \subseteq Requests
  BY <1>1, RequestStep DEF Next
<1>3. \A e \in Events : e.action = "deleted" => SaidNext(e) <= Cardinality(Requests)
  <2>1. ASSUME NEW f \in FileIds PROVE SaidNext(Event("deleted", f)) <= Cardinality(Requests)
    <3> DEFINE R1 == {r \in Requests : req'[r].op = "remove" /\ req'[r].file = f
                                       /\ req'[r].pc \in {"unlink", "mark", "emit"}}
    <3>1. SaidNext(Event("deleted", f)) + Cardinality(R1) <= Cardinality(Requests)
      BY RemovalsStep DEF Next, RemovalsFit, Removing, Said, SaidNext
    <3>2. Cardinality(R1) \in Nat /\ Cardinality(Requests) \in Nat
      BY RequestsAssumption, PartType
    <3>3. SaidNext(Event("deleted", f)) \in Int
      <4>1. Said(Event("deleted", f)) \in Nat /\ Event("deleted", f) \in Events
        BY <1>1, EventFacts
      <4> QED BY <1>1, <4>1, SilentStep, SaidStep DEF Next, Step, SaidSame
    <3> HIDE DEF R1
    <3> QED BY <3>1, <3>2, <3>3
  <2> QED BY <2>1, EventFacts
<1>4. ASSUME /\ objects' \cup broken' \cup leaked' \subseteq FileIds
             /\ row' \in [FileIds -> {"none", "live", "deleted"}]
             /\ pending' \in [Events -> Nat] /\ recorded' \in [Events -> Nat]
             /\ \A e \in Events : e.action = "uploaded" => SaidNext(e) <= 1
             /\ silent' \subseteq Events
      PROVE  TypeOK'
  <2>1. \A e \in Events : e.action # "uploaded" => e.action = "deleted"
    BY EventFacts
  <2> QED BY <1>2, <1>3, <1>4, <2>1 DEF TypeOK, SaidNext
<1>5. ASSUME NEW r \in Requests,
             \/ Refuse(r) \/ BeginUpload(r) \/ Save(r) \/ SaveFails(r) \/ CreateRow(r)
             \/ \E op \in {"info", "download", "remove"}, f \in FileIds : BeginOn(r, op, f)
             \/ GetOrThrow(r) \/ Read(r) \/ Unlink(r) \/ UnlinkFails(r) \/ SoftDelete(r)
             \/ Reply(r) \/ Fail(r)
      PROVE  TypeOK'
  <2>1. /\ UNCHANGED <<pending, recorded>> /\ SaidSame
        /\ \/ silent' = silent
           \/ /\ At(r, "emit")
              /\ silent' = silent \cup {Told(r)}
    BY <1>5, SilentStep
  <2>2. silent' \subseteq Events
    BY <1>1, <2>1, SaidStep
  <2>3. \/ row' = row
        \/ /\ At(r, "create")
           /\ row' = [row EXCEPT ![req[r].file] = "live"]
        \/ /\ At(r, "mark")
           /\ row' = [row EXCEPT ![req[r].file] = "deleted"]
    BY <1>5 DEF Refuse, BeginUpload, Save, SaveFails, CreateRow, BeginOn, GetOrThrow, Read,
                Unlink, UnlinkFails, SoftDelete, Reply, Fail
  <2>4. row' \in [FileIds -> {"none", "live", "deleted"}]
    BY <1>1, <2>3
  <2>5. /\ objects' \cup broken' \cup leaked' \subseteq objects \cup broken \cup leaked
        \/ /\ req[r].pc \notin {"idle", "reply"}
           /\ objects' \cup broken' \cup leaked'
                \subseteq objects \cup broken \cup leaked \cup {req[r].file}
    BY <1>5 DEF Refuse, BeginUpload, Save, SaveFails, CreateRow, BeginOn, GetOrThrow, Read,
                Unlink, UnlinkFails, SoftDelete, Reply, Fail, At
  <2>6. objects' \cup broken' \cup leaked' \subseteq FileIds
    BY <1>1, <2>5, FileOf
  <2> QED BY <1>1, <1>4, <2>1, <2>2, <2>4, <2>6 DEF SaidSame
<1>6. ASSUME NEW r \in Requests, Emit(r) PROVE TypeOK'
  <2>1. /\ UNCHANGED <<objects, row, broken, leaked, silent>>
        /\ pending' \in [Events -> Nat] /\ recorded' \in [Events -> Nat]
        /\ At(r, "emit")
        /\ \A e \in Events : SaidNext(e) = IF e = Told(r) THEN Said(e) + 1 ELSE Said(e)
    BY <1>1, <1>6, SaidStep DEF Emit, EmitFor
  <2>2. \A e \in Events : e.action = "uploaded" /\ e = Told(r) => Said(e) = 0
    BY <1>1, <2>1, FileOf, EventFacts DEF Told, UploadsAlone, Uploading, At
  <2>3. \A e \in Events : e.action = "uploaded" => SaidNext(e) <= 1
    BY <1>1, <2>1, <2>2
  <2> QED BY <1>1, <1>4, <2>1, <2>3
<1>7. ASSUME NEW d \in Events, Record(d) \/ Lose(d) PROVE TypeOK'
  <2>1. /\ pending' \in [Events -> Nat] /\ recorded' \in [Events -> Nat]
        /\ \A e \in Events : SaidNext(e) \in {Said(e), Said(e) - 1}
    BY <1>1, <1>7, SaidStep DEF SaidSame
  <2>2. UNCHANGED <<objects, row, broken, leaked>> /\ silent' \subseteq silent \cup {d}
    BY <1>7, ListenerFrame DEF Record, RecordLeaving, Lose
  <2>3. \A e \in Events : e.action = "uploaded" => SaidNext(e) <= 1
    BY <1>1, <2>1
  <2> QED BY <1>1, <1>4, <2>1, <2>2, <2>3
<1> QED BY <1>5, <1>6, <1>7 DEF Next, Step

(* An undisturbed download finds its object, and is served.                *)
LEMMA ServedStep == IInv /\ Next => StillCalm' /\ DownloadsServed'
<1> SUFFICES ASSUME IInv, Next PROVE StillCalm' /\ DownloadsServed'
  OBVIOUS
<1>1. /\ TypeOK /\ Scripts /\ StoresAgree /\ StillCalm /\ DownloadsServed /\ Step
      /\ calm' = {r \in Requests : (At(r, "idle") \/ r \in calm) /\ Calm(r)'}
  BY DEF IInv, Next
<1>2. StillCalm'
  BY <1>1 DEF StillCalm
<1>3. ASSUME NEW r \in Requests, At(r, "reply")', req'[r].op = "download", r \in calm'
      PROVE  req'[r].status = "ok"
  <2>1. row'[req'[r].file] = "live" /\ (At(r, "idle") \/ r \in calm)
    BY <1>1, <1>3 DEF Calm
  <2>2. CASE req'[r] = req[r]
    BY <1>1, <1>3, <2>1, <2>2 DEF DownloadsServed, At
  <2>3. ASSUME NEW q \in Requests, Read(q) PROVE req'[r].status = "ok"
    <3>1. /\ At(q, "read") /\ Moves(q, "reply") /\ row' = row
          /\ req[q].file \in objects => req'[q].status = "ok"
      BY <1>1, <2>3, Effects DEF Read, stores
    <3>2. CASE q = r
      <4>1. Calm(r)
        BY <1>1, <2>1, <3>1, <3>2 DEF StillCalm, At
      <4>2. req[r].file \in FileIds
        BY <1>1, <3>1, <3>2, FileOf DEF At
      <4>3. req[r].file \in objects
        BY <1>1, <4>1, <4>2 DEF Calm, StoresAgree
      <4> QED BY <3>1, <3>2, <4>3
    <3> QED BY <2>2, <3>1, <3>2 DEF Moves
  <2>4. ASSUME NEW q \in Requests, GetOrThrow(q) PROVE req'[r] = req[r]
    <3>1. row' = row
      BY <2>4 DEF GetOrThrow, stores
    <3> QED BY <1>1, <1>3, <2>1, <2>4, <3>1, Effects DEF Moves, At
  <2>5. ASSUME NEW q \in Requests,
               \/ Refuse(q) \/ BeginUpload(q) \/ Save(q) \/ SaveFails(q) \/ CreateRow(q)
               \/ \E op \in {"info", "download", "remove"}, f \in FileIds : BeginOn(q, op, f)
               \/ Unlink(q) \/ UnlinkFails(q) \/ SoftDelete(q) \/ Emit(q)
               \/ Reply(q) \/ Fail(q)
        PROVE  req'[r] = req[r]
    BY <1>1, <1>3, <2>5, Effects DEF Moves, Turns, At, Scripts, Scripted
  <2>6. ASSUME NEW e \in Events, Record(e) \/ Lose(e) PROVE req'[r] = req[r]
    BY <2>6, ListenerFrame
  <2> QED BY <1>1, <2>2, <2>3, <2>4, <2>5, <2>6 DEF Step
<1> QED BY <1>2, <1>3 DEF DownloadsServed

(* The inductive invariant holds in every reachable state.                 *)
LEMMA Inductive == Spec => []IInv
<1>1. Init => IInv
  <2> SUFFICES ASSUME Init PROVE IInv
    OBVIOUS
  <2>1. /\ \A r \in Requests : req[r] = NoRequest
        /\ \A e \in Events : pending[e] = 0 /\ recorded[e] = 0 /\ Said(e) = 0
    BY DEF Init, Said
  <2>2. Cardinality(Requests) \in Nat
    BY RequestsAssumption, FS_CardinalityType
  <2>3. TypeOK
    BY <2>1, <2>2, BoundsAssumption
    DEF Init, TypeOK, NoRequest, RequestType, Ops, Pcs, Statuses
  <2>4. Scripts /\ UploadsAlone /\ Staged
    BY <2>1 DEF Init, Scripts, Scripted, UploadsAlone, Uploading, Staged, NoRequest
  <2>5. Trail
    BY <2>1, EventFacts DEF Init, Trail, Happened
  <2>6. RemovalsFit
    <3>1. \A f : Removing(f) = {}
      BY <2>1 DEF Removing, NoRequest
    <3> QED BY <2>1, <2>2, <3>1, EventFacts, FS_EmptySet DEF RemovalsFit
  <2>7. StoresAgree /\ StillCalm /\ DownloadsServed
    BY DEF Init, StoresAgree, StillCalm, DownloadsServed
  <2> QED BY <2>3, <2>4, <2>5, <2>6, <2>7 DEF IInv
<1>2. IInv /\ Next => IInv'
  BY TypeStep, RequestStep, AloneStep, StagedStep, TrailStep, RemovalsStep, AgreeStep,
     ServedStep DEF IInv, Next
<1>3. IInv /\ UNCHANGED vars => IInv'
  BY DEF vars, stores, IInv, TypeOK, Scripts, UploadsAlone, Uploading, Said, Staged, Trail,
         Happened, Telling, Told, At, RemovalsFit, Removing, StoresAgree, Handling,
         StillCalm, Calm, DownloadsServed
<1> QED BY <1>1, <1>2, <1>3, PTL DEF Spec

-----------------------------------------------------------------------------
(* Every variable keeps its type, an upload is written to the trail once,  *)
(* and a removal once for each request there is a slot for.                *)
THEOREM TypeCorrect == Spec => []TypeOK
<1>1. IInv => TypeOK
  BY DEF IInv
<1> QED BY <1>1, Inductive, PTL

(* Rows and objects agree but for a removal or an upload that is under way *)
(* or was lost, and for an object that could not be removed.               *)
THEOREM StoresCorrect == Spec => []StoresAgree
<1>1. IInv => StoresAgree
  BY DEF IInv
<1> QED BY <1>1, Inductive, PTL

(* A download that no removal disturbs is served.                          *)
THEOREM DownloadsCorrect == Spec => []DownloadsServed
<1>1. IInv => DownloadsServed
  BY DEF IInv
<1> QED BY <1>1, Inductive, PTL

(* The trail tells of what happened and of nothing else, but for what was  *)
(* lost on the way.                                                        *)
THEOREM TrailCorrect == Spec => []TrailFaithful
<1>1. IInv => TrailFaithful
  <2> SUFFICES ASSUME IInv, NEW f \in FileIds, NEW a \in {"uploaded", "deleted"}
               PROVE  LET e == Event(a, f)
                      IN  /\ Said(e) > 0 => Happened(e)
                          /\ Happened(e) => \/ Said(e) > 0 \/ e \in silent
                                            \/ Handling(f, {"emit"}) # {}
    BY EventFacts DEF TrailFaithful, Happened, Said
  <2> DEFINE e == Event(a, f)
  <2>1. e \in Events /\ TypeOK /\ Scripts /\ Trail
    BY EventFacts DEF IInv
  <2>2. ASSUME NEW r \in Requests, Telling(r, e) PROVE r \in Handling(f, {"emit"})
    <3>1. req[r].file \in FileIds
      BY <2>1, <2>2, FileOf DEF Telling, At
    <3> QED BY <2>2, <3>1, EventFacts DEF Telling, Told, At, Handling
  <2> QED BY <2>1, <2>2 DEF Trail
<1> QED BY <1>1, Inductive, PTL
=============================================================================
