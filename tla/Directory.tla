----------------------------- MODULE Directory -----------------------------
(***************************************************************************)
(* The accounts and the roles they hold, as the administration endpoints   *)
(* read and write them: registration, the users and the roles controllers, *)
(* behind the two global guards.  One action is one awaited statement; the *)
(* guards and the handler of a request decide on what theirs returned,     *)
(* while other requests go on.                                             *)
(***************************************************************************)
EXTENDS Naturals, Sequences, FiniteSets

CONSTANTS
  Requests,    \* slots for requests in flight
  Emails,      \* e-mail addresses
  Admin,       \* the address of the seeded administrator
  Assignable,  \* bound: the names of roles that requests assign and remove
  MaxUsers     \* bound: accounts created

ASSUME RequestsAssumption == IsFiniteSet(Requests)
ASSUME EmailsAssumption == Admin \in Emails
ASSUME BoundsAssumption == MaxUsers \in Nat \ {0}

VARIABLES
  users,     \* table users, in order of creation; nothing is ever deleted
  held,      \* table user_roles: the roles of each user
  req,       \* the requests in flight
  inactive,  \* history: requests whose actor's account was unusable as long as the guards ran
  lacking,   \* history: ... whose actor lacked the permission as long as the guards ran
  taken,     \* history: ... whose e-mail was another visible account's as long as the handler ran
  gone       \* history: ... whose account addressed was deleted as long as the handler ran

table == <<users, held>>
history == <<inactive, lacking, taken, gone>>
vars == <<table, req, history>>

(* The seed: the permissions of a role, by the operations they open.       *)
Grants == [admin |-> {"create", "read", "update", "remove", "assign"}, user |-> {"read"}]
Roles == DOMAIN Grants

Ops == {"none", "register", "create", "read", "update", "remove", "assign", "unassign"}
Permission(op) == IF op = "unassign" THEN "assign" ELSE op
Pcs == {"idle", "load", "roles", "find", "check", "insert", "role", "write", "reply"}
Statuses == {"none", "ok", "unauthorized", "forbidden", "notFound", "conflict", "error"}

Users == 1..MaxUsers
None == "none"
ASSUME NoneAssumption == None \notin Emails

Account(email, active) == [email |-> email, active |-> active, deleted |-> FALSE]

(* role: the role looked up.  What a request brings along and only its     *)
(* last statements use (a flag, the name of a role) is chosen there.       *)
NoRequest == [op |-> "none", pc |-> "idle", actor |-> 0, target |-> 0, email |-> None,
              role |-> None, status |-> "none"]

Init ==
  /\ users = <<Account(Admin, TRUE)>>
  /\ held = [u \in Users |-> IF u = 1 THEN {"admin"} ELSE {}]
  /\ req = [r \in Requests |-> NoRequest]
  /\ inactive = {}
  /\ lacking = {}
  /\ taken = {}
  /\ gone = {}

At(r, pc) == req[r].pc = pc
Running(ops) == {r \in Requests : req[r].op \in ops /\ ~At(r, "reply")}
Become(r, request) == req' = [req EXCEPT ![r] = request]
Goto(r, pc) == Become(r, [req[r] EXCEPT !.pc = pc])
Answer(r, status) == Become(r, [NoRequest EXCEPT !.pc = "reply", !.status = status])

(* A row is visible while its deleted_at is null; the unique index on the  *)
(* e-mail knows nothing of that.                                           *)
Visible == {u \in DOMAIN users : ~users[u].deleted}
WithEmail(email) == {u \in DOMAIN users : users[u].email = email}

-----------------------------------------------------------------------------
(* Arrivals.                                                               *)
Begin(r, request) ==
  /\ At(r, "idle")
  /\ Become(r, request)
  /\ UNCHANGED table

Room == Len(users) + Cardinality(Running({"register", "create"})) < MaxUsers

BeginRegister(r, e) ==
  Room /\ Begin(r, [NoRequest EXCEPT !.op = "register", !.pc = "check", !.email = e])

Guarded(op, actor, target) ==
  [NoRequest EXCEPT !.op = op, !.pc = "load", !.actor = actor, !.target = target]

BeginCreate(r, a, e) == Room /\ Begin(r, [Guarded("create", a, 0) EXCEPT !.email = e])

BeginRead(r, a, u) == Begin(r, Guarded("read", a, u))

(* With an e-mail or without.                                              *)
BeginUpdate(r, a, u) ==
  \E e \in Emails \cup {None} : Begin(r, [Guarded("update", a, u) EXCEPT !.email = e])

BeginRemove(r, a, u) == Begin(r, Guarded("remove", a, u))

BeginRole(r, op, a, u) == Begin(r, Guarded(op, a, u))

-----------------------------------------------------------------------------
(* The guards: the account of the token's subject, then its roles and what *)
(* they grant, by two SELECTs.  No handler looks at the actor again.       *)
LoadRefused(r) ==
  /\ At(r, "load")
  /\ req[r].actor \notin Visible \/ ~users[req[r].actor].active
  /\ Answer(r, "unauthorized")
  /\ UNCHANGED table

LoadFrom(r, rows) ==
  /\ At(r, "load")
  /\ req[r].actor \in rows
  /\ users[req[r].actor].active
  /\ Goto(r, "roles")
  /\ UNCHANGED table

(* Mutant: the flag is taken to say it all.                                *)
BugLoadDeleted(r) == LoadFrom(r, DOMAIN users)

LoadActor(r) == LoadFrom(r, Visible)

Granted(u) == UNION {Grants[role] : role \in held[u]}

Decide(r, granted) ==
  LET op == req[r].op
  IN /\ At(r, "roles")
     /\ \/ Permission(op) \notin granted /\ Answer(r, "forbidden")
        \/ Permission(op) \in granted
             /\ Become(r, [req[r] EXCEPT !.pc = IF op = "create" THEN "check" ELSE "find",
                                          !.actor = 0])
     /\ UNCHANGED table

(* Mutant: whoever holds a role is an administrator.                       *)
BugAnyRole(r) == Decide(r, IF held[req[r].actor] = {} THEN {} ELSE Grants.admin)

Authorize(r) == Decide(r, Granted(req[r].actor))

-----------------------------------------------------------------------------
(* The handlers find the account, check the e-mail, and write by id.       *)
FindGone(r) ==
  /\ At(r, "find")
  /\ req[r].target \notin Visible
  /\ Answer(r, "notFound")
  /\ UNCHANGED table

FindAmong(r, rows) ==
  LET u == req[r].target
  IN /\ At(r, "find")
     /\ u \in rows
     /\ \/ req[r].op = "read" /\ Answer(r, "ok")
        \/ req[r].op \in {"assign", "unassign"} /\ Goto(r, "role")
        \/ req[r].email \notin {None, users[u].email} /\ Goto(r, "check")
        \/ /\ req[r].op \in {"update", "remove"} /\ req[r].email \in {None, users[u].email}
           /\ Goto(r, "write")
     /\ UNCHANGED table

(* Mutant: the rows that are marked deleted are found.                     *)
BugFindDeleted(r) == FindAmong(r, DOMAIN users)

FindTarget(r) == FindAmong(r, Visible)

(* The roles are those of the seed: no endpoint makes or deletes one.      *)
FindRole(r) ==
  /\ At(r, "role")
  /\ \E role \in Assignable :
       \/ role \in Roles /\ Become(r, [req[r] EXCEPT !.pc = "write", !.role = role])
       \/ role \notin Roles /\ Answer(r, "notFound")
  /\ UNCHANGED table

EmailTaken(r) ==
  /\ At(r, "check")
  /\ WithEmail(req[r].email) \cap Visible # {}
  /\ Answer(r, "conflict")
  /\ UNCHANGED table

FreeAmong(r, rows) ==
  /\ At(r, "check")
  /\ WithEmail(req[r].email) \cap rows = {}
  /\ Goto(r, IF req[r].op = "update" THEN "write" ELSE "insert")
  /\ UNCHANGED table

(* Mutant: the e-mail of an inactive account is taken to be free.          *)
BugFreeInactive(r) == FreeAmong(r, {u \in Visible : users[u].active})

EmailFree(r) == FreeAmong(r, Visible)

IndexAllows(r) == WithEmail(req[r].email) \subseteq {req[r].target}

InsertRow(r) ==
  /\ At(r, "insert")
  /\ \E active \in IF req[r].op = "register" THEN {TRUE} ELSE BOOLEAN :
       users' = Append(users, Account(req[r].email, active))
  /\ Answer(r, "ok")
  /\ UNCHANGED held

(* Mutant: the check is relied on, the column has no unique index.         *)
BugNoIndex(r) == InsertRow(r)

Insert(r) == IndexAllows(r) /\ InsertRow(r)

IndexRefuses(r) ==
  /\ \/ At(r, "insert")
     \/ At(r, "write") /\ req[r].email # None
  /\ ~IndexAllows(r)
  /\ Answer(r, "error")
  /\ UNCHANGED table

WriteUser(r, row) ==
  /\ At(r, "write")
  /\ users' = [users EXCEPT ![req[r].target] = row]
  /\ Answer(r, "ok")
  /\ UNCHANGED held

(* Mutant: all the fields are written, those not given included.           *)
BugUpdateAll(r) ==
  /\ req[r].op = "update"
  /\ IndexAllows(r)
  /\ WriteUser(r, [users[req[r].target] EXCEPT !.email = req[r].email])

(* One UPDATE of the fields that were given: the e-mail, the flag, both,   *)
(* or neither.  No address is None.                                        *)
Update(r) ==
  /\ req[r].op = "update"
  /\ IndexAllows(r)
  /\ \E active \in BOOLEAN :
       WriteUser(r, [users[req[r].target] EXCEPT
                      !.email = IF req[r].email = None THEN @ ELSE req[r].email,
                      !.active = active])

SoftDelete(r) ==
  /\ req[r].op = "remove"
  /\ WriteUser(r, [users[req[r].target] EXCEPT !.deleted = TRUE, !.active = FALSE])

WriteRoles(r, op, roles) ==
  /\ At(r, "write")
  /\ req[r].op = op
  /\ held' = [held EXCEPT ![req[r].target] = roles]
  /\ Answer(r, "ok")
  /\ UNCHANGED users

AssignRole(r) == WriteRoles(r, "assign", held[req[r].target] \cup {req[r].role})

RemoveRole(r) == WriteRoles(r, "unassign", held[req[r].target] \ {req[r].role})

Reply(r) == At(r, "reply") /\ Become(r, NoRequest) /\ UNCHANGED table

(* A statement rejects, the process stops: nothing is undone.              *)
Fail(r) == ~At(r, "idle") /\ Become(r, NoRequest) /\ UNCHANGED table

(* The seed runs again: the account with the administrator's address, the  *)
(* deleted one included, is made active and given the role.                *)
Reseed ==
  /\ UNCHANGED req
  /\ \E u \in WithEmail(Admin) :
       /\ users' = [users EXCEPT ![u].active = TRUE]
       /\ held' = [held EXCEPT ![u] = @ \cup {"admin"}]

ReseedCreates ==
  /\ WithEmail(Admin) = {}
  /\ Room
  /\ users' = Append(users, Account(Admin, TRUE))
  /\ held' = [held EXCEPT ![Len(users')] = @ \cup {"admin"}]
  /\ UNCHANGED req

-----------------------------------------------------------------------------
(* What has been so as long as the guards, or the handler, of a request    *)
(* have run; what the handler met is kept until it is answered.            *)
Screened(r) == req[r].pc \in {"load", "roles"}
Handled(r) == req[r].pc \in {"find", "check", "insert", "role", "write"}

ActorInactive(r) == req[r].actor \notin Visible \/ ~users[req[r].actor].active
ActorLacks(r) == Permission(req[r].op) \notin Granted(req[r].actor)
Taken(r) == (WithEmail(req[r].email) \cap Visible) \ {req[r].target} # {}
Gone(r) == req[r].target # 0 /\ req[r].target \notin Visible

AsLongAs(past, Runs(_), Now(_)) ==
  {r \in Requests : (~Runs(r) \/ r \in past) /\ Runs(r)' /\ Now(r)'}
Answered(past) == {r \in past : At(r, "reply")'}

Remember ==
  /\ inactive' = AsLongAs(inactive, Screened, ActorInactive)
  /\ lacking' = AsLongAs(lacking, Screened, ActorLacks)
  /\ taken' = AsLongAs(taken, Handled, Taken) \cup Answered(taken)
  /\ gone' = AsLongAs(gone, Handled, Gone) \cup Answered(gone)

Step ==
  \/ \E r \in Requests :
       \/ \E e \in Emails : BeginRegister(r, e)
       \/ \E a \in DOMAIN users :
            \/ \E e \in Emails : BeginCreate(r, a, e)
            \/ \E u \in DOMAIN users :
                 \/ BeginRead(r, a, u) \/ BeginUpdate(r, a, u) \/ BeginRemove(r, a, u)
                 \/ BeginRole(r, "assign", a, u) \/ BeginRole(r, "unassign", a, u)
       \/ LoadRefused(r) \/ LoadActor(r) \/ Authorize(r)
       \/ FindGone(r) \/ FindTarget(r) \/ FindRole(r) \/ EmailTaken(r) \/ EmailFree(r)
       \/ Insert(r) \/ IndexRefuses(r)
       \/ Update(r) \/ SoftDelete(r) \/ AssignRole(r) \/ RemoveRole(r)
       \/ Reply(r) \/ Fail(r)
  \/ Reseed \/ ReseedCreates

Next == Step /\ Remember

Spec == Init /\ [][Next]_vars

-----------------------------------------------------------------------------
(* Properties.                                                             *)

RequestType ==
  [op : Ops, pc : Pcs, actor : 0..MaxUsers, target : 0..MaxUsers, email : Emails \cup {None},
   role : Roles \cup {None}, status : Statuses]

(* Every variable has its type; nobody holds a role without an account.    *)
TypeOK ==
  /\ Len(users) <= MaxUsers
  /\ \A u \in DOMAIN users :
       users[u] \in [email : Emails, active : BOOLEAN, deleted : BOOLEAN]
  /\ held \in [Users -> SUBSET Roles]
  /\ \A u \in Users : held[u] # {} => u \in DOMAIN users
  /\ req \in [Requests -> RequestType]
  /\ inactive \cup lacking \cup taken \cup gone \subseteq Requests

(* An address belongs to one account at most, the deleted ones included,   *)
(* however many registrations and updates check it at the same time.       *)
OneAccountPerEmail == \A e \in Emails : Cardinality(WithEmail(e)) <= 1

(* docs/TESTING-PHASE-2-USERS.md:134: a request for an address that was    *)
(* another visible account's as long as its handler ran is answered 409    *)
(* when it gets that far, never with success and never 500: the unique     *)
(* index only decides what an overlapping request, or an account that was  *)
(* deleted, hides from the check.                                          *)
TakenEmailConflicts ==
  \A r \in taken : req[r].status \notin {"ok", "error"}

(* No update, removal, role or reading of an account succeeds when it was  *)
(* deleted as long as the handler ran, whatever others still write to its  *)
(* row.                                                                    *)
GoneIsNotFound == \A r \in gone : req[r].status # "ok"

(* jwt.strategy.ts:28-30: the guards let no request through whose actor    *)
(* was deleted or deactivated as long as they ran, nor one whose actor     *)
(* never held the permission meanwhile.  They may let one through that was *)
(* entitled at no single moment: the account is read before its roles.     *)
GuardsHold ==
  [][\A r \in Requests :
       At(r, "roles") /\ req'[r].pc \in {"check", "find"} => r \notin inactive \cup lacking]_vars
=============================================================================
