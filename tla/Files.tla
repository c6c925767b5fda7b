------------------------------- MODULE Files -------------------------------
(***************************************************************************)
(* Uploaded files: the object in the storage backend, the row that names   *)
(* it, and the audit trail of both, three stores that no transaction ties. *)
(* One action is one awaited call of FilesService, or of the listener that *)
(* writes the trail; a request may end between any two.                    *)
(*                                                                         *)
(* A file is the number of its upload, and stands for its id and its key,  *)
(* both random.                                                            *)
(***************************************************************************)
EXTENDS Naturals, FiniteSets

CONSTANTS
  Requests,  \* slots for requests in flight
  MaxFiles   \* bound: uploads

ASSUME RequestsAssumption == IsFiniteSet(Requests)
ASSUME BoundsAssumption == MaxFiles \in Nat

VARIABLES
  uploads,   \* how many uploads have arrived
  objects,   \* storage: the files that have an object, whole or not
  row,       \* table files
  pending,   \* audit events emitted and not yet written, by event
  recorded,  \* table audit_logs, by event
  req,       \* the requests in flight
  broken,    \* history: files whose removal ended between object and row
  leaked,    \* history: files whose object nobody may remove any more
  silent,    \* history: events that were lost
  calm       \* history: downloads that no removal has disturbed

stores == <<uploads, objects, row, pending, recorded>>
vars == <<stores, req, broken, leaked, silent, calm>>

FileIds == 1..MaxFiles
Events == [action : {"uploaded", "deleted"}, file : FileIds]
Event(a, f) == [action |-> a, file |-> f]
Ops == {"none", "upload", "info", "download", "remove"}
Pcs == {"idle", "save", "create", "find", "read", "unlink", "mark", "emit", "reply"}
Statuses == {"none", "ok", "badRequest", "notFound", "error"}

NoRequest == [op |-> "none", pc |-> "idle", file |-> 0, status |-> "none"]

Init ==
  /\ uploads = 0
  /\ objects = {}
  /\ row = [f \in FileIds |-> "none"]
  /\ pending = [e \in Events |-> 0]
  /\ recorded = [e \in Events |-> 0]
  /\ req = [r \in Requests |-> NoRequest]
  /\ broken = {}
  /\ leaked = {}
  /\ silent = {}
  /\ calm = {}

At(r, pc) == req[r].pc = pc
Handling(f, pcs) == {r \in Requests : req[r].file = f /\ req[r].pc \in pcs}
Become(r, request) == req' = [req EXCEPT ![r] = request]
Goto(r, pc) == Become(r, [req[r] EXCEPT !.pc = pc])
Answer(r, status) == Become(r, [req[r] EXCEPT !.pc = "reply", !.status = status])
Unlogged == UNCHANGED <<pending, recorded, silent>>

-----------------------------------------------------------------------------
(* Upload: validate, save, create, emit.                                   *)
Refuse(r) ==
  /\ At(r, "idle")
  /\ Become(r, [NoRequest EXCEPT !.op = "upload", !.pc = "reply", !.status = "badRequest"])
  /\ UNCHANGED <<uploads, objects, row, broken, leaked>> /\ Unlogged

BeginUpload(r) ==
  /\ At(r, "idle")
  /\ uploads < MaxFiles
  /\ uploads' = uploads + 1
  /\ Become(r, [NoRequest EXCEPT !.op = "upload", !.pc = "save", !.file = uploads'])
  /\ UNCHANGED <<objects, row, broken, leaked>> /\ Unlogged

(* Mutant: the write is not awaited, and may never come.                   *)
BugSaveNotAwaited(r) ==
  At(r, "save") /\ Goto(r, "create") /\ UNCHANGED <<stores, broken, leaked, silent>>

Save(r) ==
  /\ At(r, "save")
  /\ objects' = objects \cup {req[r].file}
  /\ Goto(r, "create")
  /\ UNCHANGED <<uploads, row, broken, leaked>> /\ Unlogged

(* The write fails part way: what was written stays.                       *)
SaveFails(r) ==
  /\ At(r, "save")
  /\ objects' = objects \cup {req[r].file}
  /\ leaked' = leaked \cup {req[r].file}
  /\ Answer(r, "error")
  /\ UNCHANGED <<uploads, row, broken>> /\ Unlogged

CreateRow(r) ==
  /\ At(r, "create")
  /\ row' = [row EXCEPT ![req[r].file] = "live"]
  /\ Goto(r, "emit")
  /\ UNCHANGED <<uploads, objects, broken, leaked>> /\ Unlogged

-----------------------------------------------------------------------------
(* The requests about one file start with its row.                         *)
BeginOn(r, op, f) ==
  /\ At(r, "idle")
  /\ row[f] # "none"
  /\ Become(r, [NoRequest EXCEPT !.op = op, !.pc = "find", !.file = f])
  /\ UNCHANGED <<stores, broken, leaked, silent>>

GetOrThrow(r) ==
  LET op == req[r].op
  IN /\ At(r, "find")
     /\ \/ row[req[r].file] # "live" /\ Answer(r, "notFound")
        \/ row[req[r].file] = "live"
             /\ \/ op = "info" /\ Answer(r, "ok")
                \/ op = "download" /\ Goto(r, "read")
                \/ op = "remove" /\ Goto(r, "unlink")
     /\ UNCHANGED <<stores, broken, leaked, silent>>

Read(r) ==
  /\ At(r, "read")
  /\ Answer(r, IF req[r].file \in objects THEN "ok" ELSE "error")
  /\ UNCHANGED <<stores, broken, leaked, silent>>

(* Removal: unlink, mark, emit.  An object that is not there is as good as *)
(* removed, and one that cannot be removed is left.                        *)
Unlink(r) ==
  /\ At(r, "unlink")
  /\ objects' = objects \ {req[r].file}
  /\ Goto(r, "mark")
  /\ UNCHANGED <<uploads, row, broken, leaked>> /\ Unlogged

UnlinkFails(r) ==
  /\ At(r, "unlink")
  /\ req[r].file \in objects
  /\ leaked' = leaked \cup {req[r].file}
  /\ Goto(r, "mark")
  /\ UNCHANGED <<uploads, objects, row, broken>> /\ Unlogged

(* Mutant: the object's removal is taken to be the file's.                 *)
BugUnmarked(r) ==
  At(r, "mark") /\ Goto(r, "emit") /\ UNCHANGED <<stores, broken, leaked, silent>>

SoftDelete(r) ==
  /\ At(r, "mark")
  /\ row' = [row EXCEPT ![req[r].file] = "deleted"]
  /\ Goto(r, "emit")
  /\ UNCHANGED <<uploads, objects, broken, leaked>> /\ Unlogged

(* The event is emitted after the write, in the step that ends the request. *)
Told(r) == Event(IF req[r].op = "upload" THEN "uploaded" ELSE "deleted", req[r].file)

EmitFor(r, ops) ==
  /\ At(r, "emit")
  /\ pending' = IF req[r].op \in ops THEN [pending EXCEPT ![Told(r)] = @ + 1] ELSE pending
  /\ Answer(r, "ok")
  /\ UNCHANGED <<uploads, objects, row, recorded, broken, leaked, silent>>

(* Mutant: removals are left out of the trail.                             *)
BugEmitUploads(r) == EmitFor(r, {"upload"})

Emit(r) == EmitFor(r, {"upload", "remove"})

Reply(r) ==
  At(r, "reply") /\ Become(r, NoRequest) /\ UNCHANGED <<stores, broken, leaked, silent>>

(* A statement rejects, the process stops: nothing is undone, and an event *)
(* not yet emitted is lost.                                                *)
Fail(r) ==
  LET f == req[r].file
  IN /\ ~At(r, "idle")
     /\ Become(r, NoRequest)
     /\ broken' = IF At(r, "mark") THEN broken \cup {f} ELSE broken
     /\ leaked' = IF At(r, "create") THEN leaked \cup {f} ELSE leaked
     /\ silent' = IF At(r, "emit") THEN silent \cup {Told(r)} ELSE silent
     /\ UNCHANGED stores

-----------------------------------------------------------------------------
(* The listener writes an event to the trail, once, and logs a failure.    *)
RecordLeaving(e, left) ==
  /\ pending[e] > 0
  /\ pending' = [pending EXCEPT ![e] = left]
  /\ recorded' = [recorded EXCEPT ![e] = @ + 1]
  /\ UNCHANGED <<uploads, objects, row, req, broken, leaked, silent>>

(* Mutant: a failure that comes after the write is retried.                *)
BugRetry(e) == RecordLeaving(e, pending[e])

Record(e) == RecordLeaving(e, pending[e] - 1)

Lose(e) ==
  /\ pending[e] > 0
  /\ pending' = [pending EXCEPT ![e] = @ - 1]
  /\ silent' = silent \cup {e}
  /\ UNCHANGED <<uploads, objects, row, recorded, req, broken, leaked>>

-----------------------------------------------------------------------------
Calm(r) ==
  LET f == req[r].file
  IN req[r].op = "download" /\ row[f] = "live" /\ f \notin broken /\ Handling(f, {"mark"}) = {}

Step ==
  \/ \E r \in Requests :
       \/ Refuse(r) \/ BeginUpload(r) \/ Save(r) \/ SaveFails(r) \/ CreateRow(r)
       \/ \E op \in {"info", "download", "remove"}, f \in FileIds : BeginOn(r, op, f)
       \/ GetOrThrow(r) \/ Read(r)
       \/ Unlink(r) \/ UnlinkFails(r) \/ SoftDelete(r) \/ Emit(r)
       \/ Reply(r) \/ Fail(r)
  \/ \E e \in Events : Record(e) \/ Lose(e)

Next == Step /\ calm' = {r \in Requests : (At(r, "idle") \/ r \in calm) /\ Calm(r)'}

Spec == Init /\ [][Next]_vars

-----------------------------------------------------------------------------
(* Properties.                                                             *)

RequestType == [op : Ops, pc : Pcs, file : 0..MaxFiles, status : Statuses]

(* Every variable has its type; an upload is written to the trail once,    *)
(* and a removal once for each request that found the row before the first *)
(* of them marked it.                                                      *)
TypeOK ==
  /\ uploads \in 0..MaxFiles
  /\ objects \cup broken \cup leaked \subseteq FileIds
  /\ row \in [FileIds -> {"none", "live", "deleted"}]
  /\ req \in [Requests -> RequestType]
  /\ pending \in [Events -> Nat] /\ recorded \in [Events -> Nat]
  /\ \A e \in Events :
       pending[e] + recorded[e] <= IF e.action = "uploaded" THEN 1 ELSE Cardinality(Requests)
  /\ silent \subseteq Events
  /\ calm \subseteq Requests

(* A row that can be found has its object, unless a removal has taken the  *)
(* object and has yet to mark the row, or was lost before it did.  An      *)
(* object has a row that can be found, unless its upload is yet to create  *)
(* the row or was lost before it did, or the object could not be removed.  *)
StoresAgree ==
  \A f \in FileIds :
    /\ row[f] = "live" => f \in objects \cup broken \/ Handling(f, {"mark"}) # {}
    /\ f \in objects => row[f] = "live" \/ f \in leaked \/ Handling(f, {"create"}) # {}

(* docs/TESTING-PHASE-8-FILES.md:31: from its arrival to its answer, as    *)
(* long as no removal has taken the object or marked the row, a download   *)
(* is served.                                                              *)
DownloadsServed ==
  \A r \in Requests :
    At(r, "reply") /\ req[r].op = "download" /\ r \in calm => req[r].status = "ok"

(* audit.service.ts:14-17: the trail tells of nothing that did not happen, *)
(* and leaves nothing out but what was lost on the way: with the process   *)
(* between the write and the event, or with the INSERT of the event.       *)
TrailFaithful ==
  \A f \in FileIds, a \in {"uploaded", "deleted"} :
    LET e == Event(a, f)
        told == pending[e] + recorded[e] > 0
        happened == IF a = "uploaded" THEN row[f] # "none" ELSE row[f] = "deleted"
    IN /\ told => happened
       /\ happened => told \/ e \in silent \/ Handling(f, {"emit"}) # {}
=============================================================================
