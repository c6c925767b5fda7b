---------------------------- MODULE DirectoryProofs ----------------------------
(***************************************************************************)
(* Theorems about Directory, for every number of requests in flight, of    *)
(* addresses and of accounts; and about the functions of Listing, for      *)
(* every list, every limit and every sort expression.                      *)
(***************************************************************************)
EXTENDS MCDirectory, Counting, SequenceTheorems

-----------------------------------------------------------------------------
(* The inductive invariant.                                                *)

Accounts == [email : Emails, active : BOOLEAN, deleted : BOOLEAN]

(* The table is a sequence of rows, and the index keeps an address to one. *)
Table == users \in Seq(Accounts)
Unique == \A u, v \in DOMAIN users : users[u].email = users[v].email => u = v

Creates == {"register", "create"}
Addressed == {"read", "update", "remove", "assign", "unassign"}

(* The place of a request tells the operation it runs, and the operation   *)
(* what the request brings, in a table of n rows.                          *)
Scripted(q, n) ==
  /\ q.pc # "reply" => q.status = "none"
  /\ q.pc \in {"idle", "reply"} => q.op = "none"
  /\ q.pc \in {"load", "roles"} => q.op \in Addressed \cup {"create"} /\ q.actor \in 1..n
  /\ q.pc = "find" => q.op \in Addressed
  /\ q.pc = "check" => q.op \in Creates \cup {"update"} /\ q.email # None
  /\ q.pc = "insert" => q.op \in Creates
  /\ q.pc = "role" => q.op \in {"assign", "unassign"}
  /\ q.pc = "write" => q.op \in Addressed \ {"read"}
  /\ q.op \in Creates => q.target = 0 /\ q.email # None
  /\ q.op \in Addressed => q.target \in 1..n
  /\ q.op \in Addressed \ {"update"} => q.email = None
  /\ q.pc = "write" /\ q.op \in {"assign", "unassign"} => q.role # None

Scripts == \A r \in Requests : Scripted(req[r], Len(users))

(* Every account that a request may still create has room.                 *)
Rooms == Len(users) + Cardinality(Running(Creates)) <= MaxUsers

(* A request whose actor has been unusable, or without the permission, is  *)
(* at a guard that has yet to find out.                                    *)
Screens ==
  /\ \A r \in inactive : At(r, "load") /\ ActorInactive(r)
  /\ \A r \in lacking : Screened(r) /\ ActorLacks(r)

(* A request whose address has been taken, or whose account has been gone, *)
(* is before the statement that finds it out, or was refused.              *)
Refusals ==
  /\ \A r \in taken : \/ At(r, "reply") /\ req[r].status \notin {"ok", "error"}
                      \/ (At(r, "find") \/ At(r, "check")) /\ Taken(r)
  /\ \A r \in gone : \/ At(r, "reply") /\ req[r].status # "ok"
                     \/ At(r, "find") /\ Gone(r)

IInv == TypeOK /\ Table /\ Unique /\ Scripts /\ Rooms /\ Screens /\ Refusals

-----------------------------------------------------------------------------
(* Only request r changes.                                                 *)
Only(r) == /\ req' \in [Requests -> RequestType]
           /\ \A q \in Requests \ {r} : req'[q] = req[q]

(* What the request brought stays.                                         *)
Keeps(r) == /\ req'[r].op = req[r].op /\ req'[r].target = req[r].target
            /\ req'[r].email = req[r].email /\ req'[r].status = req[r].status

Moves(r, pc) == Only(r) /\ Keeps(r) /\ req'[r].pc = pc
Ends(r, pc, status) ==
  Only(r) /\ req'[r].op = "none" /\ req'[r].pc = pc /\ req'[r].status = status

(* Request r arrives at place pc with operation op.                        *)
Starts(r, ops, pc) ==
  /\ At(r, "idle") /\ Only(r)
  /\ req'[r].op \in ops /\ req'[r].pc = pc /\ Scripted(req'[r], Len(users))

(* A request takes the value it becomes.                                   *)
LEMMA Becoming ==
  ASSUME TypeOK, NEW r \in Requests, NEW h \in RequestType, Become(r, h)
  PROVE  Only(r) /\ req'[r] = h
BY DEF TypeOK, Become, Only

(* No request: its fields.                                                 *)
LEMMA NoRequestType ==
  /\ NoRequest \in RequestType /\ NoRequest.op = "none" /\ NoRequest.pc = "idle"
  /\ NoRequest.target = 0 /\ NoRequest.email = None /\ NoRequest.status = "none"
  /\ NoRequest.role = None
BY BoundsAssumption DEF NoRequest, RequestType, Ops, Pcs, Statuses

(* A step to another place and an answer.                                  *)
LEMMA Moving ==
  ASSUME TypeOK, NEW r \in Requests
  PROVE  /\ \A pc \in Pcs : Goto(r, pc) => Moves(r, pc) /\ req'[r].actor = req[r].actor
         /\ \A pc \in Pcs : Become(r, [req[r] EXCEPT !.pc = pc, !.actor = 0]) => Moves(r, pc)
         /\ \A role \in Roles : Become(r, [req[r] EXCEPT !.pc = "write", !.role = role])
                                  => Moves(r, "write") /\ req'[r].role = role
         /\ \A s \in Statuses : Answer(r, s) => Ends(r, "reply", s)
         /\ Become(r, NoRequest) => Ends(r, "idle", "none")
<1>1. req[r] \in RequestType /\ NoRequest \in RequestType /\ 0 \in 0..MaxUsers
  BY NoRequestType, BoundsAssumption DEF TypeOK
<1>2. ASSUME NEW pc \in Pcs, Goto(r, pc) PROVE Moves(r, pc) /\ req'[r].actor = req[r].actor
  <2> DEFINE h == [req[r] EXCEPT !.pc = pc]
  <2>1. /\ h \in RequestType /\ h.pc = pc /\ h.op = req[r].op /\ h.actor = req[r].actor
        /\ h.target = req[r].target /\ h.email = req[r].email /\ h.status = req[r].status
    BY <1>1 DEF RequestType
  <2>2. Become(r, h)
    BY <1>2 DEF Goto
  <2> HIDE DEF h
  <2> QED BY <2>1, <2>2, Becoming DEF Moves, Keeps
<1>3. ASSUME NEW pc \in Pcs, Become(r, [req[r] EXCEPT !.pc = pc, !.actor = 0])
      PROVE  Moves(r, pc)
  <2> DEFINE h == [req[r] EXCEPT !.pc = pc, !.actor = 0]
  <2>1. /\ h \in RequestType /\ h.pc = pc /\ h.op = req[r].op
        /\ h.target = req[r].target /\ h.email = req[r].email /\ h.status = req[r].status
    BY <1>1 DEF RequestType
  <2>2. Become(r, h)
    BY <1>3
  <2> HIDE DEF h
  <2> QED BY <2>1, <2>2, Becoming DEF Moves, Keeps
<1>4. ASSUME NEW role \in Roles, Become(r, [req[r] EXCEPT !.pc = "write", !.role = role])
      PROVE  Moves(r, "write") /\ req'[r].role = role
  <2> DEFINE h == [req[r] EXCEPT !.pc = "write", !.role = role]
  <2>1. /\ h \in RequestType /\ h.pc = "write" /\ h.op = req[r].op /\ h.role = role
        /\ h.target = req[r].target /\ h.email = req[r].email /\ h.status = req[r].status
    BY <1>1 DEF RequestType, Pcs
  <2>2. Become(r, h)
    BY <1>4
  <2> HIDE DEF h
  <2> QED BY <2>1, <2>2, Becoming DEF Moves, Keeps
<1>5. ASSUME NEW s \in Statuses, Answer(r, s) PROVE Ends(r, "reply", s)
  <2> DEFINE h == [NoRequest EXCEPT !.pc = "reply", !.status = s]
  <2>1. h \in RequestType /\ h.pc = "reply" /\ h.op = "none" /\ h.status = s
    BY <1>1, NoRequestType DEF RequestType, Pcs
  <2>2. Become(r, h)
    BY <1>5 DEF Answer
  <2> HIDE DEF h
  <2> QED BY <2>1, <2>2, Becoming DEF Ends
<1>6. ASSUME Become(r, NoRequest) PROVE Ends(r, "idle", "none")
  BY <1>6, NoRequestType, Becoming DEF Ends
<1> QED BY <1>2, <1>3, <1>5, <1>6, <1>4

(* Arrivals bring what their operation needs.                              *)
LEMMA Starting ==
  ASSUME TypeOK, Table, NEW r \in Requests
  PROVE  /\ \A e \in Emails : BeginRegister(r, e) => Starts(r, {"register"}, "check")
         /\ \A a \in DOMAIN users :
              /\ \A e \in Emails : BeginCreate(r, a, e) => Starts(r, {"create"}, "load")
              /\ \A u \in DOMAIN users :
                   /\ BeginRead(r, a, u) => Starts(r, Addressed, "load")
                   /\ BeginUpdate(r, a, u) => Starts(r, Addressed, "load")
                   /\ BeginRemove(r, a, u) => Starts(r, Addressed, "load")
                   /\ BeginRole(r, "assign", a, u) => Starts(r, Addressed, "load")
                   /\ BeginRole(r, "unassign", a, u) => Starts(r, Addressed, "load")
<1>1. /\ Len(users) \in Nat /\ DOMAIN users = 1..Len(users) /\ DOMAIN users \subseteq 0..MaxUsers
      /\ MaxUsers \in Nat
  BY BoundsAssumption DEF TypeOK, Table
<1>2. ASSUME NEW e \in Emails, BeginRegister(r, e) PROVE Starts(r, {"register"}, "check")
  <2> DEFINE h == [NoRequest EXCEPT !.op = "register", !.pc = "check", !.email = e]
  <2>1. /\ h \in RequestType /\ h.pc = "check" /\ h.op = "register" /\ h.email = e
        /\ h.target = 0 /\ h.status = "none"
    BY NoRequestType DEF RequestType, Pcs, Ops
  <2>2. Become(r, h) /\ At(r, "idle")
    BY <1>2 DEF BeginRegister, Begin
  <2> HIDE DEF h
  <2>3. Scripted(h, Len(users))
    BY <2>1, NoneAssumption DEF Scripted, Creates, Addressed
  <2> QED BY <2>1, <2>2, <2>3, Becoming DEF Starts
<1>3. ASSUME NEW op \in Addressed \cup {"create"}, NEW a \in DOMAIN users,
             NEW u \in DOMAIN users \cup {0}
      PROVE  /\ Guarded(op, a, u) \in RequestType
             /\ Guarded(op, a, u).op = op /\ Guarded(op, a, u).pc = "load"
             /\ Guarded(op, a, u).actor = a /\ Guarded(op, a, u).target = u
             /\ Guarded(op, a, u).email = None /\ Guarded(op, a, u).status = "none"
  BY <1>1, NoRequestType DEF Guarded, RequestType, Ops, Pcs, Addressed
<1>4. ASSUME NEW a \in DOMAIN users, NEW e \in Emails, BeginCreate(r, a, e)
      PROVE  Starts(r, {"create"}, "load")
  <2> DEFINE g == Guarded("create", a, 0)
             h == [g EXCEPT !.email = e]
  <2>1. /\ g \in RequestType /\ g.op = "create" /\ g.pc = "load" /\ g.actor = a /\ g.target = 0
        /\ g.status = "none"
    BY <1>3
  <2>2. Become(r, h) /\ At(r, "idle")
    BY <1>4 DEF BeginCreate, Begin
  <2> HIDE DEF g
  <2>3. /\ h \in RequestType /\ h.op = "create" /\ h.pc = "load" /\ h.actor = a /\ h.target = 0
        /\ h.email = e /\ h.status = "none"
    BY <2>1 DEF RequestType
  <2> HIDE DEF h
  <2>4. Scripted(h, Len(users))
    BY <1>1, <2>3, NoneAssumption DEF Scripted, Creates, Addressed
  <2> QED BY <2>2, <2>3, <2>4, Becoming DEF Starts
<1>5. ASSUME NEW a \in DOMAIN users, NEW u \in DOMAIN users, NEW h \in RequestType,
             Begin(r, h), h.op \in Addressed, h.pc = "load", h.actor = a, h.target = u,
             h.status = "none", h.op # "update" => h.email = None
      PROVE  Starts(r, Addressed, "load")
  <2>1. Scripted(h, Len(users))
    BY <1>1, <1>5 DEF Scripted, Creates, Addressed
  <2>2. Become(r, h) /\ At(r, "idle")
    BY <1>5 DEF Begin
  <2> QED BY <1>5, <2>1, <2>2, Becoming DEF Starts
<1>6. ASSUME NEW a \in DOMAIN users, NEW u \in DOMAIN users,
             \/ BeginRead(r, a, u) \/ BeginRemove(r, a, u)
             \/ BeginRole(r, "assign", a, u) \/ BeginRole(r, "unassign", a, u)
      PROVE  Starts(r, Addressed, "load")
  <2>1. \E op \in {"read", "remove", "assign", "unassign"} : Begin(r, Guarded(op, a, u))
    BY <1>6 DEF BeginRead, BeginRemove, BeginRole
  <2>2. PICK op \in {"read", "remove", "assign", "unassign"} : Begin(r, Guarded(op, a, u))
    BY <2>1
  <2> DEFINE h == Guarded(op, a, u)
  <2>3. /\ h \in RequestType /\ h.op = op /\ h.pc = "load" /\ h.actor = a /\ h.target = u
        /\ h.email = None /\ h.status = "none"
    BY <1>3 DEF Addressed
  <2>4. Begin(r, h)
    BY <2>2
  <2> HIDE DEF h
  <2> QED BY <1>5, <2>3, <2>4 DEF Addressed
<1>7. ASSUME NEW a \in DOMAIN users, NEW u \in DOMAIN users, BeginUpdate(r, a, u)
      PROVE  Starts(r, Addressed, "load")
  <2> DEFINE g == Guarded("update", a, u)
  <2>1. PICK e \in Emails \cup {None} : Begin(r, [g EXCEPT !.email = e])
    BY <1>7 DEF BeginUpdate
  <2>2. /\ g \in RequestType /\ g.op = "update" /\ g.pc = "load" /\ g.actor = a /\ g.target = u
        /\ g.status = "none"
    BY <1>3 DEF Addressed
  <2> HIDE DEF g
  <2> DEFINE h == [g EXCEPT !.email = e]
  <2>3. /\ h \in RequestType /\ h.op = "update" /\ h.pc = "load" /\ h.actor = a
        /\ h.target = u /\ h.status = "none"
    BY <2>2 DEF RequestType
  <2>4. Begin(r, h)
    BY <2>1
  <2> HIDE DEF h
  <2> QED BY <1>5, <2>3, <2>4 DEF Addressed
<1> QED BY <1>2, <1>4, <1>6, <1>7

(* The arrivals.                                                           *)
Arrives(r) ==
  \/ \E e \in Emails : BeginRegister(r, e)
  \/ \E a \in DOMAIN users :
       \/ \E e \in Emails : BeginCreate(r, a, e)
       \/ \E u \in DOMAIN users :
            \/ BeginRead(r, a, u) \/ BeginUpdate(r, a, u) \/ BeginRemove(r, a, u)
            \/ BeginRole(r, "assign", a, u) \/ BeginRole(r, "unassign", a, u)

(* What every arrival does; one that will create an account has room.      *)
LEMMA Arriving ==
  ASSUME TypeOK, Table, NEW r \in Requests, Arrives(r)
  PROVE  /\ At(r, "idle") /\ Only(r) /\ Scripted(req'[r], Len(users)) /\ UNCHANGED table
         /\ req'[r].pc \in {"check", "load"}
         /\ req'[r].pc = "check" => req'[r].op = "register"
         /\ req'[r].op \in Creates => Room
<1>1. CASE \E e \in Emails : BeginRegister(r, e)
  <2>1. Starts(r, {"register"}, "check") /\ Room /\ UNCHANGED table
    BY <1>1, Starting DEF BeginRegister, Begin
  <2> QED BY <2>1 DEF Starts
<1>2. CASE \E a \in DOMAIN users, e \in Emails : BeginCreate(r, a, e)
  <2>1. Starts(r, {"create"}, "load") /\ Room /\ UNCHANGED table
    BY <1>2, Starting DEF BeginCreate, Begin
  <2> QED BY <2>1 DEF Starts
<1>3. ASSUME NEW a \in DOMAIN users, NEW u \in DOMAIN users,
             \/ BeginRead(r, a, u) \/ BeginUpdate(r, a, u) \/ BeginRemove(r, a, u)
             \/ BeginRole(r, "assign", a, u) \/ BeginRole(r, "unassign", a, u)
      PROVE  Starts(r, Addressed, "load") /\ UNCHANGED table
  <2>1. Starts(r, Addressed, "load")
    BY <1>3, Starting
  <2>2. UNCHANGED table
    BY <1>3 DEF BeginRead, BeginUpdate, BeginRemove, BeginRole, Begin
  <2> QED BY <2>1, <2>2
<1>4. CASE Starts(r, Addressed, "load") /\ UNCHANGED table
  <2>1. Addressed \cap Creates = {}
    BY DEF Addressed, Creates
  <2> QED BY <1>4, <2>1 DEF Starts
<1> QED BY <1>1, <1>2, <1>3, <1>4 DEF Arrives

(* What each action of a request does to the requests.                     *)
LEMMA Effects ==
  ASSUME TypeOK, NEW r \in Requests
  PROVE  /\ LoadRefused(r) => At(r, "load") /\ Ends(r, "reply", "unauthorized")
         /\ LoadActor(r) => /\ At(r, "load") /\ Moves(r, "roles") /\ ~ActorInactive(r)
                            /\ req'[r].actor = req[r].actor
         /\ Authorize(r) =>
              /\ At(r, "roles")
              /\ \/ Ends(r, "reply", "forbidden")
                 \/ ~ActorLacks(r) /\ req[r].op = "create" /\ Moves(r, "check")
                 \/ ~ActorLacks(r) /\ req[r].op # "create" /\ Moves(r, "find")
         /\ FindGone(r) => At(r, "find") /\ Ends(r, "reply", "notFound")
         /\ FindTarget(r) =>
              /\ At(r, "find") /\ req[r].target \in Visible
              /\ \/ req[r].op = "read" /\ Ends(r, "reply", "ok")
                 \/ req[r].op \in {"assign", "unassign"} /\ Moves(r, "role")
                 \/ req[r].email # None /\ Moves(r, "check")
                 \/ /\ req[r].op \in {"update", "remove"} /\ Moves(r, "write")
                    /\ req[r].email \in {None, users[req[r].target].email}
         /\ FindRole(r) => /\ At(r, "role")
                           /\ \/ Ends(r, "reply", "notFound")
                              \/ Moves(r, "write") /\ req'[r].role # None
         /\ EmailTaken(r) => At(r, "check") /\ Ends(r, "reply", "conflict")
         /\ EmailFree(r) =>
              /\ At(r, "check") /\ WithEmail(req[r].email) \cap Visible = {}
              /\ \/ req[r].op = "update" /\ Moves(r, "write")
                 \/ req[r].op # "update" /\ Moves(r, "insert")
         /\ Insert(r) => At(r, "insert") /\ Ends(r, "reply", "ok")
         /\ IndexRefuses(r) => /\ At(r, "insert") \/ At(r, "write")
                               /\ Ends(r, "reply", "error")
         /\ (Update(r) \/ SoftDelete(r) \/ AssignRole(r) \/ RemoveRole(r))
              => At(r, "write") /\ Ends(r, "reply", "ok")
         /\ Reply(r) => At(r, "reply") /\ Ends(r, "idle", "none")
         /\ Fail(r) => ~At(r, "idle") /\ Ends(r, "idle", "none")
<1>1. /\ {"idle", "load", "roles", "find", "check", "insert", "role", "write", "reply"}
        = Pcs
      /\ {"none", "ok", "unauthorized", "forbidden", "notFound", "conflict", "error"} = Statuses
  BY DEF Pcs, Statuses
<1>2. /\ LoadRefused(r) => At(r, "load") /\ Ends(r, "reply", "unauthorized")
      /\ FindGone(r) => At(r, "find") /\ Ends(r, "reply", "notFound")
      /\ EmailTaken(r) => At(r, "check") /\ Ends(r, "reply", "conflict")
      /\ Insert(r) => At(r, "insert") /\ Ends(r, "reply", "ok")
      /\ IndexRefuses(r) => (At(r, "insert") \/ At(r, "write")) /\ Ends(r, "reply", "error")
  BY <1>1, Moving DEF LoadRefused, FindGone, EmailTaken, Insert, InsertRow, IndexRefuses
<1>3. ASSUME Update(r) \/ SoftDelete(r) \/ AssignRole(r) \/ RemoveRole(r)
      PROVE  At(r, "write") /\ Ends(r, "reply", "ok")
  <2>1. At(r, "write") /\ Answer(r, "ok")
    BY <1>3 DEF Update, SoftDelete, WriteUser, AssignRole, RemoveRole, WriteRoles
  <2> QED BY <1>1, <2>1, Moving
<1>4. /\ Reply(r) => At(r, "reply") /\ Ends(r, "idle", "none")
      /\ Fail(r) => ~At(r, "idle") /\ Ends(r, "idle", "none")
  BY Moving DEF Reply, Fail
<1>5. ASSUME LoadActor(r)
      PROVE  /\ At(r, "load") /\ Moves(r, "roles") /\ ~ActorInactive(r)
             /\ req'[r].actor = req[r].actor
  BY <1>1, <1>5, Moving DEF LoadActor, LoadFrom, ActorInactive
<1>6. ASSUME Authorize(r)
      PROVE  /\ At(r, "roles")
             /\ \/ Ends(r, "reply", "forbidden")
                \/ ~ActorLacks(r) /\ req[r].op = "create" /\ Moves(r, "check")
                \/ ~ActorLacks(r) /\ req[r].op # "create" /\ Moves(r, "find")
  <2> DEFINE pc == IF req[r].op = "create" THEN "check" ELSE "find"
  <2>1. /\ At(r, "roles")
        /\ \/ Answer(r, "forbidden")
           \/ ~ActorLacks(r) /\ Become(r, [req[r] EXCEPT !.pc = pc, !.actor = 0])
    BY <1>6 DEF Authorize, Decide, ActorLacks
  <2>2. pc \in Pcs
    BY <1>1
  <2>3. /\ req[r].op = "create" => pc = "check"
        /\ req[r].op # "create" => pc = "find"
    OBVIOUS
  <2> HIDE DEF pc
  <2> QED BY <1>1, <2>1, <2>2, <2>3, Moving
<1>7. ASSUME FindTarget(r)
      PROVE  /\ At(r, "find") /\ req[r].target \in Visible
             /\ \/ req[r].op = "read" /\ Ends(r, "reply", "ok")
                \/ req[r].op \in {"assign", "unassign"} /\ Moves(r, "role")
                \/ req[r].email # None /\ Moves(r, "check")
                \/ /\ req[r].op \in {"update", "remove"} /\ Moves(r, "write")
                   /\ req[r].email \in {None, users[req[r].target].email}
  BY <1>1, <1>7, Moving DEF FindTarget, FindAmong
<1>8. ASSUME EmailFree(r)
      PROVE  /\ At(r, "check") /\ WithEmail(req[r].email) \cap Visible = {}
             /\ \/ req[r].op = "update" /\ Moves(r, "write")
                \/ req[r].op # "update" /\ Moves(r, "insert")
  BY <1>1, <1>8, Moving DEF EmailFree, FreeAmong
<1>9. ASSUME FindRole(r)
      PROVE  /\ At(r, "role")
             /\ \/ Ends(r, "reply", "notFound")
                \/ Moves(r, "write") /\ req'[r].role # None
  <2>1. None \notin Roles
    BY DEF Roles, Grants, None
  <2> QED BY <1>1, <1>9, <2>1, Moving DEF FindRole
<1> QED BY <1>2, <1>3, <1>4, <1>5, <1>6, <1>7, <1>8, <1>9

-----------------------------------------------------------------------------
(* The rows: how many there were in the beginning, and the index.          *)

(* A row is added with an address that no row has.                         *)
LEMMA Adding ==
  ASSUME Table, Unique, NEW row \in Accounts, WithEmail(row.email) = {},
         users' = Append(users, row)
  PROVE  Table' /\ Unique' /\ Len(users') = Len(users) + 1
<1>1. /\ Table' /\ Len(users') = Len(users) + 1 /\ Len(users) \in Nat
      /\ DOMAIN users = 1..Len(users) /\ DOMAIN users' = 1..Len(users')
      /\ \A u \in DOMAIN users : users'[u] = users[u]
      /\ users'[Len(users) + 1] = row
  BY DEF Table
<1>2. \A u \in DOMAIN users' : u \in DOMAIN users \/ u = Len(users) + 1
  BY <1>1
<1>3. \A u \in DOMAIN users : users[u].email # row.email
  BY DEF WithEmail
<1>4. Unique'
  BY <1>1, <1>2, <1>3 DEF Unique
<1> QED BY <1>1, <1>4

(* A row is written with its own address, or one that no other row has.    *)
LEMMA Writing ==
  ASSUME Table, Unique, NEW u \in DOMAIN users, NEW row \in Accounts,
         WithEmail(row.email) \subseteq {u}, users' = [users EXCEPT ![u] = row]
  PROVE  Table' /\ Unique' /\ Len(users') = Len(users)
<1>1. /\ Table' /\ Len(users') = Len(users) /\ DOMAIN users' = DOMAIN users
      /\ \A v \in DOMAIN users : v # u => users'[v] = users[v]
      /\ users'[u] = row
  BY DEF Table
<1>2. \A v \in DOMAIN users : v # u => users[v].email # row.email
  BY DEF WithEmail
<1>3. Unique'
  BY <1>1, <1>2 DEF Unique
<1> QED BY <1>1, <1>3

(* Rows are added one at a time, never removed, and none takes the address *)
(* of another.                                                             *)
LEMMA UsersStep ==
  IInv /\ Step =>
    /\ Table' /\ Unique'
    /\ \/ Len(users') = Len(users)
       \/ Len(users') = Len(users) + 1 /\ (ReseedCreates \/ \E r \in Requests : Insert(r))
<1> SUFFICES ASSUME IInv, Step
             PROVE  /\ Table' /\ Unique'
                    /\ \/ Len(users') = Len(users)
                       \/ /\ Len(users') = Len(users) + 1
                          /\ ReseedCreates \/ \E r \in Requests : Insert(r)
  OBVIOUS
<1>1. /\ TypeOK /\ Table /\ Unique /\ Scripts
      /\ DOMAIN users = 1..Len(users) /\ Len(users) \in Nat
      /\ \A u \in DOMAIN users : users[u] \in Accounts
  BY DEF IInv, Table
<1> DEFINE Goal == /\ Table' /\ Unique'
                   /\ \/ Len(users') = Len(users)
                      \/ /\ Len(users') = Len(users) + 1
                         /\ ReseedCreates \/ \E r \in Requests : Insert(r)
<1>2. ASSUME users' = users PROVE Goal
  BY <1>1, <1>2 DEF Table, Unique
<1>3. ASSUME NEW e \in Emails, NEW active \in BOOLEAN
      PROVE  Account(e, active) \in Accounts /\ Account(e, active).email = e
  BY DEF Account, Accounts
<1>4. ASSUME NEW r \in Requests, Insert(r) PROVE Goal
  <2> DEFINE e == req[r].email
  <2>1. PICK active \in BOOLEAN : users' = Append(users, Account(e, active))
    BY <1>4 DEF Insert, InsertRow
  <2>2. req[r].email # None /\ req[r].target = 0 /\ req[r] \in RequestType
    BY <1>1, <1>4 DEF Insert, InsertRow, At, Scripts, Scripted, TypeOK
  <2>3. e \in Emails
    BY <2>2 DEF RequestType
  <2>4. WithEmail(e) = {}
    <3>1. WithEmail(e) \subseteq {0}
      BY <1>4, <2>2 DEF Insert, IndexAllows
    <3>2. 0 \notin WithEmail(e)
      BY <1>1 DEF WithEmail
    <3> QED BY <3>1, <3>2
  <2> HIDE DEF e
  <2> QED BY <1>1, <1>3, <1>4, <2>1, <2>3, <2>4, Adding
<1>5. ASSUME ReseedCreates PROVE Goal
  <2>1. WithEmail(Admin) = {} /\ users' = Append(users, Account(Admin, TRUE))
    BY <1>5 DEF ReseedCreates
  <2> QED BY <1>1, <1>3, <1>5, <2>1, EmailsAssumption, Adding
<1>6. ASSUME NEW u \in DOMAIN users, NEW row \in Accounts, row.email = users[u].email,
             users' = [users EXCEPT ![u] = row]
      PROVE  Goal
  <2>1. WithEmail(row.email) \subseteq {u}
    BY <1>1, <1>6 DEF WithEmail, Unique
  <2> QED BY <1>1, <1>6, <2>1, Writing
<1>7. ASSUME Reseed PROVE Goal
  <2>1. PICK u \in WithEmail(Admin) : users' = [users EXCEPT ![u].active = TRUE]
    BY <1>7 DEF Reseed
  <2>2. u \in DOMAIN users
    BY DEF WithEmail
  <2> DEFINE row == [users[u] EXCEPT !.active = TRUE]
  <2>3. row \in Accounts /\ row.email = users[u].email
    BY <1>1, <2>2 DEF Accounts
  <2>4. users' = [users EXCEPT ![u] = row]
    BY <2>1
  <2> HIDE DEF row
  <2> QED BY <1>6, <2>2, <2>3, <2>4
<1>8. ASSUME NEW r \in Requests, At(r, "write")
      PROVE  req[r].target \in DOMAIN users /\ req[r].email \in Emails \cup {None}
  BY <1>1, <1>8 DEF At, Scripts, Scripted, TypeOK, RequestType
<1>9. ASSUME NEW r \in Requests, SoftDelete(r) PROVE Goal
  <2> DEFINE u == req[r].target
             ended == [users[u] EXCEPT !.deleted = TRUE, !.active = FALSE]
  <2>1. At(r, "write") /\ users' = [users EXCEPT ![u] = ended]
    BY <1>9 DEF SoftDelete, WriteUser
  <2>2. users[u] \in Accounts /\ u \in DOMAIN users
    BY <1>1, <1>8, <2>1
  <2> HIDE DEF u
  <2>3. ended \in Accounts /\ ended.email = users[u].email
    BY <2>2 DEF Accounts
  <2> HIDE DEF ended
  <2> QED BY <1>6, <2>1, <2>2, <2>3
<1>10. ASSUME NEW r \in Requests, Update(r) PROVE Goal
  <2> DEFINE u == req[r].target
             e == IF req[r].email = None THEN users[u].email ELSE req[r].email
  <2>1. At(r, "write") /\ WithEmail(req[r].email) \subseteq {u}
    BY <1>10 DEF Update, WriteUser, IndexAllows
  <2>2. PICK on \in BOOLEAN :
          users' = [users EXCEPT ![u] = [users[u] EXCEPT !.email = e, !.active = on]]
    BY <1>10 DEF Update, WriteUser
  <2> DEFINE row == [users[u] EXCEPT !.email = e, !.active = on]
  <2>3. users[u] \in Accounts /\ u \in DOMAIN users /\ req[r].email \in Emails \cup {None}
    BY <1>1, <1>8, <2>1
  <2>4. e \in Emails
    BY <2>3 DEF Accounts
  <2>5. WithEmail(e) \subseteq {u}
    <3>1. CASE req[r].email = None
      BY <1>1, <2>3, <3>1 DEF WithEmail, Unique
    <3>2. CASE req[r].email # None
      BY <2>1, <3>2
    <3> QED BY <3>1, <3>2
  <2>6. users' = [users EXCEPT ![u] = row]
    BY <2>2
  <2> HIDE DEF e, u
  <2>7. row \in Accounts /\ row.email = e
    BY <2>3, <2>4 DEF Accounts
  <2> HIDE DEF row
  <2> QED BY <1>1, <2>3, <2>5, <2>6, <2>7, Writing
<1> HIDE DEF Goal
<1>11. ASSUME NEW r \in Requests,
              \/ Arrives(r) \/ LoadRefused(r) \/ LoadActor(r) \/ Authorize(r) \/ FindGone(r)
              \/ FindTarget(r) \/ FindRole(r) \/ EmailTaken(r) \/ EmailFree(r)
              \/ IndexRefuses(r) \/ AssignRole(r) \/ RemoveRole(r) \/ Reply(r) \/ Fail(r)
       PROVE  Goal
  <2>1. UNCHANGED users
    BY <1>1, <1>11, Arriving DEF LoadRefused, LoadActor, LoadFrom, Authorize, Decide, FindGone,
         FindTarget, FindAmong, FindRole, EmailTaken, EmailFree, FreeAmong, IndexRefuses, AssignRole,
         RemoveRole, WriteRoles, Reply, Fail, table
  <2> QED BY <1>2, <2>1
<1>12. Goal
  BY <1>4, <1>5, <1>7, <1>9, <1>10, <1>11 DEF Step, Arrives
<1> QED BY <1>12 DEF Goal

(* Every step leaves the requests well typed and at their script.          *)
LEMMA RequestStep == IInv /\ Step => req' \in [Requests -> RequestType] /\ Scripts'
<1> SUFFICES ASSUME IInv, Step PROVE req' \in [Requests -> RequestType] /\ Scripts'
  OBVIOUS
<1>1. /\ TypeOK /\ Table /\ Scripts
      /\ Len(users) \in Nat /\ Len(users') \in Nat /\ Len(users) <= Len(users')
  BY UsersStep DEF IInv, Table
<1>2. ASSUME NEW q, Scripted(q, Len(users)) PROVE Scripted(q, Len(users'))
  BY <1>1, <1>2 DEF Scripted
<1> DEFINE Goal == req' \in [Requests -> RequestType] /\ Scripts'
<1>3. ASSUME NEW r \in Requests, Only(r), Scripted(req'[r], Len(users)) PROVE Goal
  <2>1. \A q \in Requests : Scripted(req'[q], Len(users))
    BY <1>1, <1>3 DEF Only, Scripts
  <2> QED BY <1>2, <1>3, <2>1 DEF Only, Scripts
<1>4. ASSUME NEW r \in Requests, Only(r), req'[r].op = "none",
             req'[r].pc = "reply" \/ (req'[r].pc = "idle" /\ req'[r].status = "none")
      PROVE  Goal
  <2>1. Scripted(req'[r], Len(users))
    BY <1>4 DEF Scripted, Creates, Addressed
  <2> QED BY <1>3, <1>4, <2>1
<1>5. ASSUME NEW r \in Requests,
             \/ LoadActor(r)
             \/ Authorize(r) /\ req'[r].pc \in {"check", "find"}
             \/ FindTarget(r) /\ req'[r].pc \in {"check", "role", "write"}
             \/ FindRole(r) /\ req'[r].pc = "write"
             \/ EmailFree(r)
      PROVE  Goal
  <2>1. /\ Only(r) /\ Keeps(r)
        /\ \/ At(r, "load") /\ req'[r].pc = "roles" /\ req'[r].actor = req[r].actor
           \/ At(r, "roles") /\ req[r].op = "create" /\ req'[r].pc = "check"
           \/ At(r, "roles") /\ req[r].op # "create" /\ req'[r].pc = "find"
           \/ At(r, "find") /\ req[r].email # None /\ req'[r].pc = "check"
           \/ At(r, "find") /\ req[r].op \in {"update", "remove"} /\ req'[r].pc = "write"
           \/ At(r, "find") /\ req[r].op \in {"assign", "unassign"} /\ req'[r].pc = "role"
           \/ At(r, "role") /\ req'[r].pc = "write" /\ req'[r].role # None
           \/ At(r, "check") /\ req[r].op = "update" /\ req'[r].pc = "write"
           \/ At(r, "check") /\ req[r].op # "update" /\ req'[r].pc = "insert"
    BY <1>1, <1>5, Effects DEF Moves, Ends
  <2>2. Scripted(req[r], Len(users))
    BY <1>1 DEF Scripts
  <2>3. Scripted(req'[r], Len(users))
    BY <2>1, <2>2 DEF Scripted, Keeps, Creates, Addressed, At
  <2> QED BY <1>3, <2>1, <2>3
<1>6. ASSUME NEW r \in Requests, Arrives(r) PROVE Goal
  BY <1>1, <1>3, <1>6, Arriving
<1>7. ASSUME UNCHANGED req PROVE Goal
  BY <1>1, <1>2, <1>7 DEF TypeOK, Scripts
<1> HIDE DEF Goal
<1>8. ASSUME NEW r \in Requests,
             \/ LoadRefused(r) \/ Authorize(r) \/ FindGone(r) \/ FindTarget(r) \/ FindRole(r)
             \/ EmailTaken(r) \/ Insert(r) \/ IndexRefuses(r) \/ Update(r) \/ SoftDelete(r)
             \/ AssignRole(r) \/ RemoveRole(r) \/ Reply(r) \/ Fail(r)
      PROVE  Goal
  <2>1. \/ /\ Only(r) /\ req'[r].op = "none"
           /\ req'[r].pc = "reply" \/ (req'[r].pc = "idle" /\ req'[r].status = "none")
        \/ Authorize(r) /\ req'[r].pc \in {"check", "find"}
        \/ FindTarget(r) /\ req'[r].pc \in {"check", "role", "write"}
        \/ FindRole(r) /\ req'[r].pc = "write"
    <3>1. CASE Authorize(r)
      BY <1>1, <3>1, Effects DEF Moves, Ends
    <3>2. CASE FindTarget(r)
      BY <1>1, <3>2, Effects DEF Moves, Ends
    <3>3. CASE FindRole(r)
      BY <1>1, <3>3, Effects DEF Moves, Ends
    <3>4. CASE ~Authorize(r) /\ ~FindTarget(r) /\ ~FindRole(r)
      <4>1. Ends(r, "reply", req'[r].status) \/ Ends(r, "idle", "none")
        BY <1>1, <1>8, <3>4, Effects DEF Ends
      <4> QED BY <4>1 DEF Ends
    <3> QED BY <3>1, <3>2, <3>3, <3>4
  <2> QED BY <1>4, <1>5, <2>1
<1>9. Goal
  BY <1>5, <1>6, <1>7, <1>8 DEF Step, Arrives, Reseed, ReseedCreates
<1> QED BY <1>9 DEF Goal

(* A request that may create an account arrives, ends, or goes on.         *)
LEMMA Counts ==
  ASSUME NEW r \in Requests, Only(r)
  PROVE  LET In == req[r].op \in Creates /\ ~At(r, "reply")
             Stays == req'[r].op \in Creates /\ req'[r].pc # "reply"
             before == Cardinality(Running(Creates))
             after == Cardinality(Running(Creates))'
         IN  /\ before \in Nat /\ after \in Nat /\ after <= before + 1
             /\ (Stays => In) => after <= before
             /\ In /\ ~Stays => after + 1 <= before
<1> DEFINE C == Running(Creates)
           D == Running(Creates)'
<1>1. /\ C \in SUBSET Requests /\ D \in SUBSET Requests /\ C \ {r} = D \ {r}
      /\ r \in C <=> req[r].op \in Creates /\ ~At(r, "reply")
      /\ r \in D <=> req'[r].op \in Creates /\ req'[r].pc # "reply"
  BY DEF Running, Only, At
<1> HIDE DEF C, D
<1>2. /\ Cardinality(C) \in Nat /\ Cardinality(D) \in Nat /\ Cardinality(D) <= Cardinality(C) + 1
      /\ (r \in D => r \in C) => Cardinality(D) <= Cardinality(C)
      /\ r \in C /\ r \notin D => Cardinality(D) + 1 <= Cardinality(C)
  BY <1>1, PartType, PartShift, RequestsAssumption
<1> QED BY <1>1, <1>2 DEF C, D

(* Where a request can join those that may still create, and leave them.   *)
LEMMA RoomsStep == IInv /\ Step => Rooms' /\ Len(users') <= MaxUsers
<1> SUFFICES ASSUME IInv, Step PROVE Rooms' /\ Len(users') <= MaxUsers
  OBVIOUS
<1> DEFINE n == Len(users)
           m == Len(users')
           A == Cardinality(Running(Creates))
           B == Cardinality(Running(Creates))'
           Goal == m + B <= MaxUsers
<1>1. TypeOK /\ Table /\ Scripts /\ Rooms
  BY DEF IInv
<1>2. n \in Nat /\ m \in Nat /\ MaxUsers \in Nat /\ n + A <= MaxUsers
  BY <1>1, UsersStep, BoundsAssumption DEF Table, Rooms
<1>3. A \in Nat /\ B \in Nat
  <2>1. Running(Creates) \in SUBSET Requests /\ Running(Creates)' \in SUBSET Requests
    BY DEF Running
  <2> QED BY <2>1, PartType, RequestsAssumption
<1>4. m = n \/ m = n + 1
  BY UsersStep
<1>5. Room <=> n + A < MaxUsers
  BY DEF Room, Creates
<1>6. ASSUME NEW r \in Requests, Only(r)
      PROVE  /\ B <= A + 1
             /\ (req'[r].op \in Creates /\ req'[r].pc # "reply" =>
                   (req[r].op \in Creates /\ ~At(r, "reply"))) => B <= A
             /\ ((req[r].op \in Creates /\ ~At(r, "reply"))
                   /\ ~(req'[r].op \in Creates /\ req'[r].pc # "reply")) => B + 1 <= A
  BY <1>6, Counts
<1> HIDE DEF n, m, A, B
<1>7. ASSUME NEW r \in Requests, Insert(r) PROVE Goal
  <2>1. B + 1 <= A
    BY <1>1, <1>6, <1>7, Effects DEF Ends, At, Scripts, Scripted, Creates
  <2> QED BY <1>2, <1>3, <1>4, <2>1
<1>8. ASSUME ReseedCreates PROVE Goal
  <2>1. Room /\ B = A
    BY <1>8 DEF ReseedCreates, A, B, Running, At
  <2> QED BY <1>2, <1>3, <1>4, <1>5, <2>1
<1>9. ASSUME m = n, B <= A PROVE Goal
  BY <1>2, <1>3, <1>9
<1>10. ASSUME NEW r \in Requests, Arrives(r) PROVE Goal
  <2>1. Only(r) /\ UNCHANGED users /\ (req'[r].op \in Creates => Room)
    BY <1>1, <1>10, Arriving DEF table
  <2>2. m = n
    BY <2>1 DEF m, n
  <2>3. CASE req'[r].op \in Creates
    <3>1. Room /\ B <= A + 1
      BY <1>6, <2>1, <2>3
    <3> QED BY <1>2, <1>3, <1>5, <2>2, <3>1
  <2>4. CASE req'[r].op \notin Creates
    <3>1. B <= A
      BY <1>6, <2>1, <2>4
    <3> QED BY <1>9, <2>2, <3>1
  <2> QED BY <2>3, <2>4
<1> HIDE DEF Goal
<1>11. ASSUME m = n, NEW r \in Requests,
              \/ LoadRefused(r) \/ LoadActor(r) \/ Authorize(r) \/ FindGone(r) \/ FindTarget(r)
              \/ FindRole(r) \/ EmailTaken(r) \/ EmailFree(r) \/ IndexRefuses(r)
              \/ Update(r) \/ SoftDelete(r) \/ AssignRole(r) \/ RemoveRole(r)
              \/ Reply(r) \/ Fail(r)
       PROVE  Goal
  <2>1. /\ Only(r)
        /\ req'[r].op \in Creates => req[r].op \in Creates /\ ~At(r, "reply")
    <3>1. CASE Authorize(r) \/ FindTarget(r) \/ FindRole(r)
      <4>1. \/ Ends(r, "reply", req'[r].status)
            \/ Only(r) /\ Keeps(r) /\ ~At(r, "reply")
        BY <1>1, <3>1, Effects DEF Moves, Ends, At
      <4> QED BY <4>1 DEF Ends, Keeps, Creates
    <3>2. CASE LoadActor(r) \/ EmailFree(r)
      BY <1>1, <3>2, Effects DEF Moves, Keeps, At
    <3>3. CASE ~(\/ Authorize(r) \/ FindTarget(r) \/ FindRole(r) \/ LoadActor(r)
                 \/ EmailFree(r))
      <4>1. Ends(r, "reply", req'[r].status) \/ Ends(r, "idle", "none")
        BY <1>1, <1>11, <3>3, Effects DEF Ends
      <4> QED BY <4>1 DEF Ends, Creates
    <3> QED BY <3>1, <3>2, <3>3
  <2>2. B <= A
    BY <1>6, <2>1
  <2> QED BY <1>9, <1>11, <2>2
<1>12. ASSUME m = n, Reseed PROVE Goal
  <2>1. B = A
    BY <1>12 DEF Reseed, A, B, Running, At
  <2> QED BY <1>3, <1>9, <1>12, <2>1
<1>13. m = n \/ ReseedCreates \/ \E r \in Requests : Insert(r)
  BY UsersStep DEF m, n
<1>14. Goal
  BY <1>7, <1>8, <1>10, <1>11, <1>12, <1>13 DEF Step, Arrives
<1>15. Rooms'
  BY <1>14 DEF Goal, m, B, Rooms
<1> QED BY <1>2, <1>3, <1>14, <1>15 DEF Goal, m, n

-----------------------------------------------------------------------------
(* The roles.                                                              *)

(* Roles are only ever held by accounts there are.                         *)
LEMMA HeldStep ==
  IInv /\ Step =>
    /\ held' \in [Users -> SUBSET Roles]
    /\ \A u \in Users : held'[u] # {} => u \in DOMAIN users'
<1> SUFFICES ASSUME IInv, Step
             PROVE  /\ held' \in [Users -> SUBSET Roles]
                    /\ \A u \in Users : held'[u] # {} => u \in DOMAIN users'
  OBVIOUS
<1>1. /\ TypeOK /\ Table /\ Scripts /\ Len(users) \in Nat /\ Len(users') \in Nat
      /\ DOMAIN users = 1..Len(users) /\ DOMAIN users' = 1..Len(users')
      /\ Len(users) <= Len(users') /\ Len(users') <= MaxUsers
  BY UsersStep, RoomsStep DEF IInv, Table
<1>2. DOMAIN users \subseteq DOMAIN users' /\ DOMAIN users' \subseteq Users
  BY <1>1, BoundsAssumption DEF Users
<1>3. /\ held \in [Users -> SUBSET Roles]
      /\ \A u \in Users : held[u] # {} => u \in DOMAIN users'
  BY <1>1, <1>2 DEF TypeOK
<1> DEFINE Goal == /\ held' \in [Users -> SUBSET Roles]
                   /\ \A u \in Users : held'[u] # {} => u \in DOMAIN users'
<1>4. ASSUME NEW u \in DOMAIN users', NEW roles \in SUBSET Roles,
             held' = [held EXCEPT ![u] = roles]
      PROVE  Goal
  BY <1>2, <1>3, <1>4
<1>5. ASSUME held' = held PROVE Goal
  BY <1>3, <1>5
<1>6. "admin" \in Roles
  BY DEF Roles, Grants
<1>7. ASSUME NEW r \in Requests, AssignRole(r) \/ RemoveRole(r) PROVE Goal
  <2> DEFINE u == req[r].target
  <2>1. /\ req[r] \in RequestType /\ At(r, "write") /\ req[r].op \in {"assign", "unassign"}
    BY <1>1, <1>7 DEF TypeOK, AssignRole, RemoveRole, WriteRoles
  <2>2. u \in DOMAIN users /\ req[r].role # None
    BY <1>1, <2>1 DEF Scripts, Scripted, Addressed, At
  <2>3. req[r].role \in Roles
    BY <2>1, <2>2 DEF RequestType
  <2>4. \/ held' = [held EXCEPT ![u] = held[u] \cup {req[r].role}]
        \/ held' = [held EXCEPT ![u] = held[u] \ {req[r].role}]
    BY <1>7 DEF AssignRole, RemoveRole, WriteRoles
  <2>5. held[u] \in SUBSET Roles
    BY <1>2, <1>3, <2>2
  <2> HIDE DEF u
  <2> QED BY <1>2, <1>4, <2>2, <2>3, <2>4, <2>5
<1>8. ASSUME Reseed PROVE Goal
  <2>1. PICK u \in WithEmail(Admin) : held' = [held EXCEPT ![u] = @ \cup {"admin"}]
    BY <1>8 DEF Reseed
  <2>2. u \in DOMAIN users'
    BY <1>2 DEF WithEmail
  <2>3. held[u] \cup {"admin"} \in SUBSET Roles
    BY <1>2, <1>3, <1>6, <2>2
  <2>4. held' = [held EXCEPT ![u] = held[u] \cup {"admin"}]
    BY <2>1
  <2> QED BY <1>4, <2>2, <2>3, <2>4
<1>9. ASSUME ReseedCreates PROVE Goal
  <2> DEFINE u == Len(users')
  <2>1. held' = [held EXCEPT ![u] = held[u] \cup {"admin"}]
    BY <1>9 DEF ReseedCreates
  <2>2. u \in DOMAIN users'
    <3>1. Len(users') = Len(users) + 1
      BY <1>1, <1>9 DEF ReseedCreates, Table
    <3> QED BY <1>1, <3>1
  <2> HIDE DEF u
  <2>3. held[u] \cup {"admin"} \in SUBSET Roles
    BY <1>2, <1>3, <1>6, <2>2
  <2> QED BY <1>4, <2>1, <2>2, <2>3
<1> HIDE DEF Goal
<1>10. ASSUME NEW r \in Requests,
              \/ Arrives(r) \/ LoadRefused(r) \/ LoadActor(r) \/ Authorize(r) \/ FindGone(r)
              \/ FindTarget(r) \/ FindRole(r) \/ EmailTaken(r) \/ EmailFree(r) \/ Insert(r)
              \/ IndexRefuses(r) \/ Update(r) \/ SoftDelete(r) \/ Reply(r) \/ Fail(r)
       PROVE  Goal
  <2>1. UNCHANGED held
    BY <1>1, <1>10, Arriving DEF LoadRefused, LoadActor, LoadFrom, Authorize, Decide, FindGone,
         FindTarget, FindAmong, FindRole, EmailTaken, EmailFree, FreeAmong, Insert, InsertRow,
         IndexRefuses, Update, SoftDelete, WriteUser, Reply, Fail, table
  <2> QED BY <1>5, <2>1
<1>11. Goal
  BY <1>7, <1>8, <1>9, <1>10 DEF Step, Arrives
<1> QED BY <1>11 DEF Goal

-----------------------------------------------------------------------------
(* What the requests have met.                                             *)

(* The steps of request r.                                                 *)
Acts(r) ==
  \/ Arrives(r) \/ LoadRefused(r) \/ LoadActor(r) \/ Authorize(r)
  \/ FindGone(r) \/ FindTarget(r) \/ FindRole(r) \/ EmailTaken(r) \/ EmailFree(r)
  \/ Insert(r) \/ IndexRefuses(r)
  \/ Update(r) \/ SoftDelete(r) \/ AssignRole(r) \/ RemoveRole(r)
  \/ Reply(r) \/ Fail(r)

(* A request changes only by a step of its own.                            *)
LEMMA Acting ==
  ASSUME TypeOK, Table, Step, NEW r \in Requests
  PROVE  req'[r] = req[r] \/ Acts(r)
<1>1. ASSUME NEW q \in Requests, Acts(q) PROVE Only(q)
  <2>1. CASE Arrives(q)
    BY <2>1, Arriving
  <2>2. CASE Authorize(q) \/ FindTarget(q) \/ FindRole(q) \/ LoadActor(q) \/ EmailFree(q)
    BY <2>2, Effects DEF Moves, Ends
  <2>3. CASE ~(\/ Arrives(q) \/ Authorize(q) \/ FindTarget(q) \/ FindRole(q) \/ LoadActor(q)
               \/ EmailFree(q))
    <3>1. Ends(q, "reply", req'[q].status) \/ Ends(q, "idle", "none")
      BY <1>1, <2>3, Effects DEF Ends, Acts
    <3> QED BY <3>1 DEF Ends
  <2> QED BY <2>1, <2>2, <2>3
<1>2. UNCHANGED req \/ \E q \in Requests : Acts(q)
  BY DEF Step, Acts, Arrives, Reseed, ReseedCreates
<1> QED BY <1>1, <1>2 DEF Only

(* What a step leaves remembered of each request.                          *)
LEMMA Remembering ==
  ASSUME Remember
  PROVE  /\ \A r \in inactive' : /\ r \in Requests /\ (~Screened(r) \/ r \in inactive)
                                 /\ Screened(r)' /\ ActorInactive(r)'
         /\ \A r \in lacking' : r \in Requests /\ Screened(r)' /\ ActorLacks(r)'
         /\ \A r \in taken' : \/ /\ r \in Requests /\ (~Handled(r) \/ r \in taken)
                                 /\ Handled(r)' /\ Taken(r)'
                              \/ r \in taken /\ At(r, "reply")'
         /\ \A r \in gone' : \/ /\ r \in Requests /\ (~Handled(r) \/ r \in gone)
                                /\ Handled(r)' /\ Gone(r)'
                             \/ r \in gone /\ At(r, "reply")'
<1>1. /\ inactive' = {r \in Requests : (~Screened(r) \/ r \in inactive)
                                         /\ Screened(r)' /\ ActorInactive(r)'}
      /\ lacking' = {r \in Requests : (~Screened(r) \/ r \in lacking)
                                        /\ Screened(r)' /\ ActorLacks(r)'}
      /\ taken' = {r \in Requests : (~Handled(r) \/ r \in taken) /\ Handled(r)' /\ Taken(r)'}
                    \cup {r \in taken : At(r, "reply")'}
      /\ gone' = {r \in Requests : (~Handled(r) \/ r \in gone) /\ Handled(r)' /\ Gone(r)'}
                   \cup {r \in gone : At(r, "reply")'}
  BY DEF Remember, AsLongAs, Answered
<1> QED BY <1>1

(* A request remembered by the guards has yet to reach the one that finds  *)
(* out.                                                                    *)
LEMMA ScreensStep == IInv /\ Next => Screens'
<1> SUFFICES ASSUME IInv, Next PROVE Screens'
  OBVIOUS
<1>1. TypeOK /\ Table /\ Screens /\ Step /\ Remember
  BY DEF IInv, Next
<1>2. ASSUME NEW r \in inactive' PROVE At(r, "load")'
  <2>1. r \in Requests /\ (~Screened(r) \/ r \in inactive) /\ Screened(r)'
    BY <1>1, Remembering
  <2>2. SUFFICES ASSUME req'[r].pc = "roles" PROVE FALSE
    BY <2>1 DEF Screened, At
  <2>3. r \in inactive => At(r, "load") /\ ActorInactive(r)
    BY <1>1 DEF Screens
  <2>4. req'[r] # req[r]
    BY <2>1, <2>2, <2>3 DEF Screened, At
  <2>5. Acts(r)
    BY <1>1, <2>1, <2>4, Acting
  <2>6. At(r, "load") /\ ~ActorInactive(r)
    <3>1. ~Arrives(r)
      BY <1>1, <2>1, <2>2, Arriving
    <3>2. LoadActor(r)
      BY <1>1, <2>1, <2>2, <2>5, <3>1, Effects DEF Acts, Ends, Moves
    <3> QED BY <1>1, <2>1, <3>2, Effects
  <2> QED BY <2>1, <2>3, <2>6 DEF Screened, At
<1>3. \A r \in inactive' : ActorInactive(r)'
  BY <1>1, Remembering
<1>4. \A r \in lacking' : Screened(r)' /\ ActorLacks(r)'
  BY <1>1, Remembering
<1> QED BY <1>2, <1>3, <1>4 DEF Screens

(* An address that another account has, and an account that is gone, are   *)
(* what the next statement of the handler finds.                           *)
LEMMA Finding ==
  ASSUME IInv, NEW r \in Requests
  PROVE  /\ Taken(r) => req[r].email # None
         /\ Taken(r) /\ req[r].target \in Visible => req[r].email # users[req[r].target].email
         /\ Taken(r) => WithEmail(req[r].email) \cap Visible # {}
         /\ Gone(r) => req[r].target \notin Visible
<1>1. \A u \in DOMAIN users : users[u].email # None
  <2>1. \A u \in DOMAIN users : users[u] \in Accounts
    BY DEF IInv, Table
  <2> QED BY <2>1, NoneAssumption DEF Accounts
<1>2. Taken(r) => req[r].email # None
  BY <1>1 DEF Taken, WithEmail
<1>3. Taken(r) /\ req[r].target \in Visible => req[r].email # users[req[r].target].email
  BY DEF Taken, WithEmail, Visible, IInv, Unique
<1> QED BY <1>2, <1>3 DEF Taken, Gone

(* A request whose address is taken is refused by the check, and one whose *)
(* account is gone by the SELECT.                                          *)
LEMMA RefusalsStep == IInv /\ Next => Refusals'
<1> SUFFICES ASSUME IInv, Next PROVE Refusals'
  OBVIOUS
<1>1. TypeOK /\ Table /\ Refusals /\ Step /\ Remember
  BY DEF IInv, Next
<1>2. ASSUME NEW r \in taken'
      PROVE  \/ At(r, "reply")' /\ req'[r].status \notin {"ok", "error"}
             \/ (At(r, "find")' \/ At(r, "check")') /\ Taken(r)'
  <2>1. CASE r \in taken /\ At(r, "reply")'
    <3>1. /\ r \in Requests
          /\ \/ At(r, "reply") /\ req[r].status \notin {"ok", "error"}
             \/ (At(r, "find") \/ At(r, "check")) /\ Taken(r)
      BY <1>1, <2>1 DEF Refusals, TypeOK
    <3>2. CASE req'[r] = req[r]
      BY <2>1, <3>1, <3>2 DEF At
    <3>3. CASE Acts(r)
      <4>1. ~Arrives(r)
        BY <1>1, <2>1, <3>1, Arriving DEF At
      <4>2. FindGone(r) \/ FindTarget(r) \/ EmailTaken(r)
        BY <1>1, <2>1, <3>1, <3>3, <4>1, Effects DEF Acts, Ends, Moves, At
      <4>3. CASE FindGone(r) \/ EmailTaken(r)
        BY <1>1, <2>1, <3>1, <4>3, Effects DEF Ends
      <4>4. CASE FindTarget(r)
        <5>1. req[r].op = "read" /\ At(r, "find") /\ Taken(r)
          BY <1>1, <2>1, <3>1, <4>4, Effects DEF Moves, At
        <5>2. req[r].email = None
          BY <3>1, <5>1 DEF IInv, Scripts, Scripted, Addressed
        <5> QED BY <3>1, <5>1, <5>2, Finding
      <4> QED BY <4>2, <4>3, <4>4
    <3> QED BY <1>1, <3>1, <3>2, <3>3, Acting
  <2>2. CASE /\ r \in Requests /\ (~Handled(r) \/ r \in taken)
             /\ Handled(r)' /\ Taken(r)'
    <3>1. r \in taken => \/ At(r, "reply")
                         \/ (At(r, "find") \/ At(r, "check")) /\ Taken(r)
      BY <1>1 DEF Refusals
    <3>2. SUFFICES ASSUME req'[r].pc \in {"insert", "role", "write"} PROVE FALSE
      BY <2>2 DEF Handled, At
    <3>3. req'[r] # req[r]
      BY <2>2, <3>1, <3>2 DEF Handled, At
    <3>4. Acts(r) /\ ~Arrives(r)
      BY <1>1, <2>2, <3>2, <3>3, Acting, Arriving
    <3>5. FindTarget(r) \/ EmailFree(r)
      <4>1. ~FindRole(r)
        BY <1>1, <2>2, <3>1, Effects DEF Handled, At
      <4> QED BY <1>1, <2>2, <3>2, <3>4, <4>1, Effects DEF Acts, Ends, Moves
    <3>6. At(r, "find") \/ At(r, "check")
      BY <1>1, <2>2, <3>5, Effects
    <3>7. Taken(r)
      BY <2>2, <3>1, <3>6 DEF Handled, At
    <3>8. CASE FindTarget(r)
      <4>1. req[r].op \notin {"assign", "unassign"}
        BY <2>2, <3>7, Finding DEF IInv, Scripts, Scripted, Addressed
      <4> QED BY <1>1, <2>2, <3>2, <3>7, <3>8, <4>1, Finding, Effects DEF Ends, Moves
    <3>9. CASE EmailFree(r)
      BY <1>1, <2>2, <3>7, <3>9, Finding, Effects
    <3> QED BY <3>5, <3>8, <3>9
  <2> QED BY <1>1, <2>1, <2>2, Remembering
<1>3. ASSUME NEW r \in gone'
      PROVE  \/ At(r, "reply")' /\ req'[r].status # "ok"
             \/ At(r, "find")' /\ Gone(r)'
  <2>1. CASE r \in gone /\ At(r, "reply")'
    <3>1. /\ r \in Requests
          /\ \/ At(r, "reply") /\ req[r].status # "ok"
             \/ At(r, "find") /\ Gone(r)
      BY <1>1, <2>1 DEF Refusals, TypeOK
    <3>2. CASE req'[r] = req[r]
      BY <2>1, <3>1, <3>2 DEF At
    <3>3. CASE Acts(r)
      <4>1. ~Arrives(r)
        BY <1>1, <2>1, <3>1, Arriving DEF At
      <4>2. FindGone(r) \/ FindTarget(r)
        BY <1>1, <2>1, <3>1, <3>3, <4>1, Effects DEF Acts, Ends, Moves, At
      <4>3. ~FindTarget(r)
        BY <1>1, <3>1, Effects, Finding DEF At
      <4> QED BY <1>1, <2>1, <3>1, <4>2, <4>3, Effects DEF Ends
    <3> QED BY <1>1, <3>1, <3>2, <3>3, Acting
  <2>2. CASE /\ r \in Requests /\ (~Handled(r) \/ r \in gone)
             /\ Handled(r)' /\ Gone(r)'
    <3>1. r \in gone => At(r, "reply") \/ (At(r, "find") /\ Gone(r))
      BY <1>1 DEF Refusals
    <3>2. SUFFICES ASSUME req'[r].pc # "find" PROVE FALSE
      BY <2>2 DEF At
    <3>3. req'[r] # req[r]
      BY <2>2, <3>1, <3>2 DEF Handled, At
    <3>4. Acts(r)
      BY <1>1, <2>2, <3>3, Acting
    <3>5. Scripted(req'[r], Len(users')) /\ req'[r].target # 0 /\ Handled(r)'
      BY <1>1, <2>2, RequestStep DEF Scripts, Gone
    <3>6. ~Arrives(r)
      BY <1>1, <2>2, <3>5, Arriving DEF Scripted, Creates, Handled
    <3>7. ~Authorize(r)
      BY <1>1, <2>2, <3>2, <3>5, Effects DEF Scripted, Creates, Handled, Ends, Moves, Keeps
    <3>8. FindTarget(r) \/ EmailFree(r) \/ FindRole(r)
      BY <1>1, <2>2, <3>4, <3>5, <3>6, <3>7, Effects DEF Acts, Ends, Moves, Handled
    <3>9. CASE FindTarget(r)
      BY <1>1, <2>2, <3>1, <3>9, Effects, Finding DEF Handled, At
    <3>10. CASE EmailFree(r) \/ FindRole(r)
      BY <1>1, <2>2, <3>1, <3>10, Effects DEF Handled, At
    <3> QED BY <3>8, <3>9, <3>10
  <2> QED BY <1>1, <2>1, <2>2, Remembering
<1> QED BY <1>2, <1>3 DEF Refusals

(* The guards let no request through that they would have refused all the  *)
(* while.                                                                  *)
LEMMA GuardsStep ==
  ASSUME IInv, Next, NEW r \in Requests, At(r, "roles"), req'[r].pc \in {"check", "find"}
  PROVE  r \notin inactive \cup lacking
<1>1. TypeOK /\ Table /\ Step
  BY DEF IInv, Next
<1>2. r \notin inactive
  BY DEF IInv, Screens, At
<1>3. Acts(r) /\ ~Arrives(r)
  BY <1>1, Acting, Arriving DEF At
<1>4. Authorize(r)
  BY <1>1, <1>3, Effects DEF Acts, At, Ends, Moves
<1>5. ~ActorLacks(r)
  BY <1>1, <1>4, Effects DEF Ends
<1>6. r \notin lacking
  BY <1>5 DEF IInv, Screens
<1> QED BY <1>2, <1>6

(* Every variable keeps its type.                                          *)
LEMMA TypeStep == IInv /\ Next => TypeOK'
<1> SUFFICES ASSUME IInv, Next PROVE TypeOK'
  OBVIOUS
<1>1. TypeOK /\ Step /\ Remember
  BY DEF IInv, Next
<1>2. req' \in [Requests -> RequestType] /\ Len(users') <= MaxUsers
  BY <1>1, RequestStep, RoomsStep
<1>3. \A u \in DOMAIN users' :
        users'[u] \in [email : Emails, active : BOOLEAN, deleted : BOOLEAN]
  <2>1. users' \in Seq(Accounts)
    BY <1>1, UsersStep DEF Table
  <2>2. \A u \in DOMAIN users' : users'[u] \in Accounts
    BY <2>1
  <2> QED BY <2>2 DEF Accounts
<1>4. /\ held' \in [Users -> SUBSET Roles]
      /\ \A u \in Users : held'[u] # {} => u \in DOMAIN users'
  BY <1>1, HeldStep
<1>5. inactive' \cup lacking' \cup taken' \cup gone' \subseteq Requests
  BY <1>1, Remembering DEF TypeOK
<1> QED BY <1>2, <1>3, <1>4, <1>5 DEF TypeOK

-----------------------------------------------------------------------------
(* The invariant is inductive.                                             *)
LEMMA Inductive == Spec => []IInv
<1>1. Init => IInv
  <2> SUFFICES ASSUME Init PROVE IInv
    OBVIOUS
  <2> DEFINE row == Account(Admin, TRUE)
  <2>1. /\ users = <<row>> /\ inactive = {} /\ lacking = {} /\ taken = {} /\ gone = {}
        /\ \A r \in Requests : req[r] = NoRequest
        /\ MaxUsers \in Nat /\ 1 <= MaxUsers
    BY BoundsAssumption DEF Init
  <2>2. row \in Accounts
    BY EmailsAssumption DEF Account, Accounts
  <2> HIDE DEF row
  <2>3. /\ Table /\ Len(users) = 1 /\ DOMAIN users = {1} /\ users[1] = row
    BY <2>1, <2>2 DEF Table
  <2>4. TypeOK
    <3>1. req \in [Requests -> RequestType]
      BY NoRequestType DEF Init
    <3>2. /\ held \in [Users -> SUBSET Roles]
          /\ \A u \in Users : held[u] # {} => u \in DOMAIN users
      BY <2>3 DEF Init, Roles, Grants
    <3> QED BY <2>1, <2>2, <2>3, <3>1, <3>2 DEF TypeOK, Accounts
  <2>5. Scripts
    <3>1. Scripted(NoRequest, Len(users))
      BY NoRequestType DEF Scripted, Creates, Addressed
    <3> QED BY <2>1, <3>1 DEF Scripts
  <2>6. Rooms
    <3>1. Running(Creates) = {}
      BY <2>1, NoRequestType DEF Running, Creates
    <3>2. Cardinality(Running(Creates)) = 0
      BY <3>1, FS_EmptySet
    <3> QED BY <2>1, <2>3, <3>2 DEF Rooms
  <2>7. Unique /\ Screens /\ Refusals
    BY <2>1, <2>3 DEF Unique, Screens, Refusals
  <2> QED BY <2>3, <2>4, <2>5, <2>6, <2>7 DEF IInv
<1>2. IInv /\ [Next]_vars => IInv'
  <2>1. IInv /\ Next => IInv'
    BY TypeStep, UsersStep, RequestStep, RoomsStep, ScreensStep, RefusalsStep DEF IInv, Next
  <2>2. ASSUME IInv, UNCHANGED vars PROVE IInv'
    <3>1. UNCHANGED <<users, held, req, inactive, lacking, taken, gone>>
      BY <2>2 DEF vars, table, history
    <3>2. TypeOK' /\ Table' /\ Unique' /\ Scripts'
      BY <2>2, <3>1 DEF IInv, TypeOK, Table, Unique, Scripts
    <3>3. Rooms'
      BY <2>2, <3>1 DEF IInv, Rooms, Running, At
    <3>4. Screens' /\ Refusals'
      BY <2>2, <3>1 DEF IInv, Screens, Refusals, At, Screened, ActorInactive, ActorLacks, Granted,
         Taken, Gone, WithEmail, Visible
    <3> QED BY <3>2, <3>3, <3>4 DEF IInv
  <2> QED BY <2>1, <2>2
<1> QED BY <1>1, <1>2, PTL DEF Spec

(* Every variable keeps its type, no request creates an account beyond the *)
(* room it reserved, and nobody holds a role without an account.           *)
THEOREM TypeCorrect == Spec => []TypeOK
<1>1. IInv => TypeOK
  BY DEF IInv
<1> QED BY <1>1, Inductive, PTL

(* An address belongs to one account at most, however many requests check  *)
(* it at once.                                                             *)
THEOREM EmailsCorrect == Spec => []OneAccountPerEmail
<1>1. ASSUME IInv, NEW e \in Emails PROVE Cardinality(WithEmail(e)) <= 1
  <2>1. \A u, v \in WithEmail(e) : u = v
    BY <1>1 DEF IInv, Unique, WithEmail
  <2>2. WithEmail(e) = {} \/ \E u : WithEmail(e) = {u}
    BY <2>1
  <2>3. CASE WithEmail(e) = {}
    BY <2>3, FS_EmptySet
  <2>4. ASSUME NEW u, WithEmail(e) = {u} PROVE Cardinality(WithEmail(e)) <= 1
    <3>1. Cardinality(WithEmail(e)) = 1
      BY <2>4, FS_Singleton
    <3> QED BY <3>1
  <2> QED BY <2>2, <2>3, <2>4
<1>2. IInv => OneAccountPerEmail
  BY <1>1 DEF OneAccountPerEmail
<1> QED BY <1>2, Inductive, PTL

(* A request for an address that another visible account had all the while *)
(* is never answered with success, nor 500.                                *)
THEOREM ConflictsCorrect == Spec => []TakenEmailConflicts
<1>1. IInv => TakenEmailConflicts
  <2> SUFFICES ASSUME IInv, NEW r \in taken PROVE req[r].status \notin {"ok", "error"}
    BY DEF TakenEmailConflicts
  <2> QED BY DEF IInv, TypeOK, Refusals, Scripts, Scripted, At
<1> QED BY <1>1, Inductive, PTL

(* No request on an account succeeds that was deleted all the while.       *)
THEOREM RemovalsCorrect == Spec => []GoneIsNotFound
<1>1. IInv => GoneIsNotFound
  <2> SUFFICES ASSUME IInv, NEW r \in gone PROVE req[r].status # "ok"
    BY DEF GoneIsNotFound
  <2> QED BY DEF IInv, TypeOK, Refusals, Scripts, Scripted, At
<1> QED BY <1>1, Inductive, PTL

(* The guards let no request through whose actor was unusable, or without  *)
(* the permission, as long as they ran.                                    *)
THEOREM GuardsCorrect == Spec => GuardsHold
<1> DEFINE Held == \A r \in Requests :
                     At(r, "roles") /\ req'[r].pc \in {"check", "find"}
                       => r \notin inactive \cup lacking
<1>1. IInv /\ Next => Held
  BY GuardsStep
<1>2. IInv /\ [Next]_vars => [Held]_vars
  BY <1>1
<1> QED BY <1>2, Inductive, PTL DEF Spec, GuardsHold

-----------------------------------------------------------------------------
(* Pages and sort expressions, for lists and expressions of every length.  *)

(* Multiplying keeps the order.                                            *)
LEMMA Scaled ==
  ASSUME NEW p \in Int, NEW q \in Int, NEW l \in Nat, p <= q
  PROVE  p * l <= q * l
OBVIOUS

(* The pages a list has are those that begin before its end.               *)
LEMMA PageCount ==
  ASSUME NEW n \in Nat, NEW l \in Nat \ {0}, NEW p \in Nat \ {0}
  PROVE  /\ Lists!TotalPages(l, n) \in Nat \ {0}
         /\ p < Lists!TotalPages(l, n) <=> p * l < n
<1>1. CASE n = 0
  <2>1. 0 <= p * l
    BY 0 * l <= p * l, Scaled
  <2> QED BY <1>1, <2>1 DEF Lists!TotalPages
<1>2. CASE n > 0
  <2> DEFINE q == (n + l - 1) \div l
  <2>1. Lists!TotalPages(l, n) = q
    BY <1>2 DEF Lists!TotalPages
  <2>2. q \in Nat /\ q * l <= n + l - 1 /\ n + l - 1 < q * l + l
    OBVIOUS
  <2>3. q # 0
    BY <1>2, <2>2
  <2> HIDE DEF q
  <2>4. ASSUME p < q PROVE p * l < n
    <3>1. (p + 1) * l <= q * l
      BY <2>2, <2>4, Scaled
    <3>2. (p + 1) * l = p * l + l
      OBVIOUS
    <3> QED BY <2>2, <3>1, <3>2
  <2>5. ASSUME q <= p PROVE ~(p * l < n)
    <3>1. q * l <= p * l
      BY <2>2, <2>5, Scaled
    <3> QED BY <2>2, <3>1
  <2> QED BY <2>1, <2>2, <2>3, <2>4, <2>5
<1> QED BY <1>1, <1>2

(* The rows of a page are those of the list from its skip on.              *)
LEMMA PageRows ==
  ASSUME NEW S, NEW list \in Seq(S), NEW l \in Nat \ {0}, NEW p \in Nat \ {0},
         NEW k \in Nat, k = Lists!Skip(p, l)
  PROVE  /\ Lists!Rows(list, p, l) = <<>> <=> Len(list) <= k
         /\ \A i \in 1..Len(list) :
              /\ i - k \in DOMAIN Lists!Rows(list, p, l) <=> k < i /\ i <= k + l
              /\ k < i /\ i <= k + l => Lists!Rows(list, p, l)[i - k] = list[i]
<1> DEFINE m == IF k + l < Len(list) THEN k + l ELSE Len(list)
<1>1. Len(list) \in Nat /\ m \in Nat /\ m <= Len(list) /\ m <= k + l
  OBVIOUS
<1>2. Lists!Rows(list, p, l) = SubSeq(list, k + 1, m)
  BY DEF Lists!Rows
<1>3. \A i \in (k + 1)..m : list[i] \in S
  BY <1>1
<1> DEFINE r == Lists!Rows(list, p, l)
<1>4. k + 1 \in Int /\ m \in Int
  BY <1>1
<1>5. /\ r \in Seq(S)
      /\ Len(r) = IF k + 1 <= m THEN m - (k + 1) + 1 ELSE 0
      /\ \A j \in 1..(m - (k + 1) + 1) : r[j] = list[(k + 1) + j - 1]
  <2> HIDE DEF m
  <2> QED BY <1>2, <1>3, <1>4, SubSeqProperties
<1> HIDE DEF r
<1>6. (r = <<>> <=> Len(r) = 0) /\ DOMAIN r = 1..Len(r)
  BY <1>5, EmptySeq, LenProperties
<1>7. r = <<>> <=> Len(list) <= k
  BY <1>1, <1>5, <1>6
<1>8. ASSUME NEW i \in 1..Len(list)
      PROVE  /\ i - k \in DOMAIN r <=> k < i /\ i <= k + l
             /\ k < i /\ i <= k + l => r[i - k] = list[i]
  <2>1. i - k \in DOMAIN r <=> k < i /\ i <= k + l
    <3>1. i <= m <=> i <= k + l
      BY <1>1
    <3>2. i \in Nat
      BY <1>1
    <3> HIDE DEF m
    <3>3. i - k \in 1..Len(r) <=> k < i /\ i <= m
      BY <1>1, <1>5, <3>2
    <3> QED BY <1>6, <3>1, <3>3
  <2>2. ASSUME k < i, i <= k + l PROVE r[i - k] = list[i]
    <3>1. i - k \in 1..(m - (k + 1) + 1)
      BY <1>1, <2>2
    <3>2. (k + 1) + (i - k) - 1 = i
      OBVIOUS
    <3> QED BY <1>5, <3>1, <3>2
  <2> QED BY <2>1, <2>2
<1> QED BY <1>7, <1>8 DEF r

(* A client that starts at page 1 of a list and goes on as long as hasNext *)
(* says so sees every row on one page, in the order of the list, and no    *)
(* empty page but that of an empty list; nothing is beyond the last page,  *)
(* and hasPrev leads back to rows.                                         *)
THEOREM PagesCorrect ==
  ASSUME NEW S, NEW list \in Seq(S), NEW l \in Nat \ {0}
  PROVE  LET Page(p) == Lists!Paginated(list, p, l)
             Shows(p, i) == i - Lists!Skip(p, l) \in DOMAIN Page(p).items
         IN /\ \A i \in 1..Len(list) :
                 /\ \E p \in 1..Page(1).pages : Shows(p, i)
                 /\ \A p, q \in Nat \ {0} : Shows(p, i) /\ Shows(q, i) => p = q
                 /\ \A p \in Nat \ {0} :
                      Shows(p, i) => Page(p).items[i - Lists!Skip(p, l)] = list[i]
            /\ \A p \in 1..Page(1).pages : Page(p).items # <<>> \/ list = <<>>
            /\ \A p \in 1..(Page(1).pages + 1) :
                 /\ Page(p).hasNext <=> Page(p + 1).items # <<>>
                 /\ Page(p).hasPrev /\ list # <<>> => Page(p - 1).items # <<>>
<1> DEFINE n == Len(list)
           T == Lists!TotalPages(l, n)
           Page(p) == Lists!Paginated(list, p, l)
           Shows(p, i) == i - Lists!Skip(p, l) \in DOMAIN Page(p).items
<1>1. n \in Nat /\ T \in Nat \ {0} /\ (list = <<>> <=> n = 0)
  BY PageCount, LenProperties, EmptySeq
<1>2. ASSUME NEW p \in Nat \ {0}
      PROVE  /\ Lists!Skip(p, l) \in Nat /\ Lists!Skip(p, l) = (p - 1) * l
             /\ Lists!Skip(p + 1, l) = p * l
             /\ Lists!Skip(p, l) + l = p * l
             /\ Page(p).items = Lists!Rows(list, p, l) /\ Page(p).pages = T
             /\ Page(p).hasNext <=> p < T
             /\ Page(p).hasPrev <=> p > 1
  <2>1. Lists!Skip(p, l) = (p - 1) * l /\ Lists!Skip(p + 1, l) = ((p + 1) - 1) * l
    BY DEF Lists!Skip
  <2>2. (p - 1) * l \in Nat /\ (p - 1) * l + l = p * l /\ ((p + 1) - 1) * l = p * l
    OBVIOUS
  <2>3. /\ Page(p).items = Lists!Rows(list, p, l) /\ Page(p).pages = T
        /\ Page(p).hasNext = Lists!HasNext(p, l, n)
        /\ Page(p).hasPrev = Lists!HasPrev(p)
    BY DEF Lists!Paginated
  <2>4. (Lists!HasNext(p, l, n) <=> p < T) /\ (Lists!HasPrev(p) <=> p > 1)
    BY DEF Lists!HasNext, Lists!HasPrev
  <2> HIDE DEF Page, T
  <2> QED BY <2>1, <2>2, <2>3, <2>4
<1> HIDE DEF T
<1>3. ASSUME NEW p \in Nat \ {0}
      PROVE  /\ Page(p).items = <<>> <=> n <= (p - 1) * l
             /\ \A i \in 1..n :
                  /\ Shows(p, i) <=> (p - 1) * l < i /\ i <= p * l
                  /\ Shows(p, i) => Page(p).items[i - Lists!Skip(p, l)] = list[i]
  <2>1. PICK k \in Nat : k = Lists!Skip(p, l)
    BY <1>2
  <2>2. k = (p - 1) * l /\ k + l = p * l /\ Page(p).items = Lists!Rows(list, p, l)
    BY <1>2, <2>1
  <2>3. /\ Lists!Rows(list, p, l) = <<>> <=> n <= k
        /\ \A i \in 1..n :
              /\ i - k \in DOMAIN Lists!Rows(list, p, l) <=> k < i /\ i <= k + l
              /\ k < i /\ i <= k + l => Lists!Rows(list, p, l)[i - k] = list[i]
    BY <2>1, PageRows
  <2> HIDE DEF Page
  <2> QED BY <2>1, <2>2, <2>3
<1> HIDE DEF Page, Shows
<1>4. \A p \in Nat \ {0} : p < T <=> p * l < n
  BY <1>1, PageCount DEF T
<1>5. ASSUME NEW p \in 1..T PROVE Page(p).items # <<>> \/ n = 0
  <2>1. CASE p = 1
    BY <1>1, <1>3, <2>1
  <2>2. CASE p > 1
    <3>1. p - 1 \in Nat \ {0} /\ p - 1 < T
      BY <1>1, <2>2
    <3>2. (p - 1) * l < n
      BY <1>4, <3>1
    <3>3. p \in Nat \ {0} /\ (p - 1) * l \in Nat
      BY <1>1, <3>1
    <3> QED BY <1>1, <1>3, <3>2, <3>3
  <2> QED BY <1>1, <2>1, <2>2
<1>6. ASSUME NEW p \in 1..(T + 1)
      PROVE  /\ Page(p).hasNext <=> Page(p + 1).items # <<>>
             /\ Page(p).hasPrev /\ n # 0 => Page(p - 1).items # <<>>
  <2>1. p \in Nat \ {0} /\ p + 1 \in Nat \ {0} /\ (p + 1) - 1 = p /\ p * l \in Nat
    BY <1>1
  <2>2. Page(p + 1).items = <<>> <=> n <= p * l
    BY <1>3, <2>1
  <2>3. Page(p).hasNext <=> p < T
    BY <1>2, <2>1 DEF Page
  <2>4. p < T <=> p * l < n
    BY <1>4, <2>1
  <2>5. Page(p).hasPrev <=> p > 1
    BY <1>2, <2>1 DEF Page
  <2>6. p > 1 => p - 1 \in 1..T
    BY <1>1
  <2> QED BY <1>1, <1>5, <2>1, <2>2, <2>3, <2>4, <2>5, <2>6
<1>7. ASSUME NEW i \in 1..n PROVE \E p \in 1..T : Shows(p, i)
  <2> DEFINE q == (i - 1) \div l
  <2>1. i - 1 \in Nat /\ q \in Nat /\ q * l <= i - 1 /\ i - 1 < q * l + l /\ q * l \in Nat
    BY <1>1
  <2> HIDE DEF q
  <2>2. q + 1 \in Nat \ {0} /\ (q + 1) - 1 = q /\ (q + 1) * l = q * l + l
    BY <2>1
  <2>3. Shows(q + 1, i)
    <3>1. Shows(q + 1, i) <=> ((q + 1) - 1) * l < i /\ i <= (q + 1) * l
      BY <1>3, <2>2
    <3>2. q * l < i /\ i <= q * l + l
      BY <1>1, <2>1
    <3> QED BY <2>2, <3>1, <3>2
  <2>4. q + 1 <= T
    <3>1. CASE q = 0
      BY <1>1, <3>1
    <3>2. CASE q # 0
      <4>1. q * l < n
        BY <1>1, <2>1
      <4> QED BY <1>1, <1>4, <2>1, <3>2, <4>1
    <3> QED BY <3>1, <3>2
  <2> QED BY <1>1, <2>2, <2>3, <2>4
<1>8. ASSUME NEW i \in 1..n, NEW p \in Nat \ {0}, NEW q \in Nat \ {0}, Shows(p, i), Shows(q, i),
             p < q
      PROVE  FALSE
  <2>1. p * l <= (q - 1) * l
    BY <1>8, Scaled
  <2>2. i <= p * l /\ (q - 1) * l < i
    BY <1>3, <1>8
  <2>3. p * l \in Int /\ (q - 1) * l \in Int
    OBVIOUS
  <2> QED BY <1>1, <2>1, <2>2, <2>3
<1>9. \A i \in 1..n : \A p, q \in Nat \ {0} : Shows(p, i) /\ Shows(q, i) => p = q
  BY <1>8
<1>10. Page(1).pages = T
  BY <1>2 DEF Page
<1>11. \A i \in 1..n : \A p \in Nat \ {0} :
         Shows(p, i) => Page(p).items[i - Lists!Skip(p, l)] = list[i]
  BY <1>3
<1>12. /\ \A i \in 1..n :
            /\ \E p \in 1..Page(1).pages : Shows(p, i)
            /\ \A p, q \in Nat \ {0} : Shows(p, i) /\ Shows(q, i) => p = q
            /\ \A p \in Nat \ {0} :
                 Shows(p, i) => Page(p).items[i - Lists!Skip(p, l)] = list[i]
       /\ \A p \in 1..Page(1).pages : Page(p).items # <<>> \/ list = <<>>
       /\ \A p \in 1..(Page(1).pages + 1) :
            /\ Page(p).hasNext <=> Page(p + 1).items # <<>>
            /\ Page(p).hasPrev /\ list # <<>> => Page(p - 1).items # <<>>
  BY <1>1, <1>5, <1>6, <1>7, <1>9, <1>10, <1>11
<1> QED BY <1>12 DEF Page, Shows

(* Joining sequences is what every step of the join amounts to: g[i] is    *)
(* what the first i of them make.                                          *)
LEMMA Joined ==
  ASSUME NEW S, NEW last \in Nat \ {0}, NEW seqs \in [1..last -> Seq(S)],
         NEW g, g[1] = seqs[1], \A i \in 2..last : g[i] = g[i - 1] \o seqs[i]
  PROVE  Lists!FlattenSeq(seqs) = g[last]
<1> DEFINE Joins(f) == f = [i \in 1..Len(seqs) |-> IF i = 1 THEN seqs[i] ELSE f[i - 1] \o seqs[i]]
           flatten == CHOOSE f : Joins(f)
           h == [i \in 1..last |-> g[i]]
<1>1. Len(seqs) = last
  OBVIOUS
<1>2. Lists!FlattenSeq(seqs) = flatten[last]
  BY <1>1 DEF Lists!FlattenSeq
<1>3. Joins(h)
  <2>1. ASSUME NEW i \in 1..last PROVE h[i] = IF i = 1 THEN seqs[i] ELSE h[i - 1] \o seqs[i]
    <3>1. CASE i = 1
      BY <3>1
    <3>2. CASE i # 1
      <4>1. i \in 2..last /\ i - 1 \in 1..last
        BY <3>2
      <4> QED BY <3>2, <4>1
    <3> QED BY <3>1, <3>2
  <2> HIDE DEF h
  <2>2. h = [i \in 1..last |-> IF i = 1 THEN seqs[i] ELSE h[i - 1] \o seqs[i]]
    <3>1. h = [i \in 1..last |-> h[i]]
      BY DEF h
    <3> QED BY <2>1, <3>1, Zenon
  <2> QED BY <1>1, <2>2
<1>4. Joins(flatten)
  <2> HIDE DEF Joins
  <2> QED BY <1>3
<1>5. ASSUME NEW i \in 1..last
      PROVE  flatten[i] = IF i = 1 THEN seqs[i] ELSE flatten[i - 1] \o seqs[i]
  <2> HIDE DEF flatten
  <2> QED BY <1>1, <1>4
<1> HIDE DEF flatten
<1> DEFINE Holds == {n \in 0..last : n = 0 \/ flatten[n] = g[n]}
<1>6. ASSUME NEW n \in 0..last, n \in Holds, n + 1 <= last PROVE n + 1 \in Holds
  <2>1. CASE n = 0
    BY <1>5, <2>1
  <2>2. CASE n # 0
    <3>1. n + 1 \in 1..last /\ n + 1 \in 2..last /\ n + 1 # 1 /\ (n + 1) - 1 = n
      BY <1>6, <2>2
    <3>2. flatten[n + 1] = flatten[n] \o seqs[n + 1] /\ g[n + 1] = g[n] \o seqs[n + 1]
      BY <1>5, <3>1
    <3>3. flatten[n] = g[n]
      BY <1>6, <2>2
    <3>4. flatten[n + 1] = g[n + 1] /\ n + 1 \in 0..last
      <4> HIDE DEF Holds
      <4> QED BY <3>1, <3>2, <3>3
    <3> QED BY <3>4
  <2> QED BY <2>1, <2>2
<1>7. Holds = 0..last
  <2>1. 0 \in Holds /\ Holds \in SUBSET (0..last)
    OBVIOUS
  <2> HIDE DEF Holds
  <2> QED BY <1>6, <2>1, UpTo
<1>8. last \in Holds /\ last # 0
  BY <1>7
<1> QED BY <1>2, <1>8

(* The pages of a list, joined, are the list.                              *)
LEMMA PagesJoined ==
  ASSUME NEW S, NEW list \in Seq(S), NEW l \in Nat \ {0}
  PROVE  Lists!FlattenSeq([p \in 1..Lists!TotalPages(l, Len(list)) |->
                             Lists!Paginated(list, p, l).items]) = list
<1> DEFINE n == Len(list)
           T == Lists!TotalPages(l, n)
           seqs == [p \in 1..T |-> Lists!Paginated(list, p, l).items]
           upTo(p) == IF p * l < n THEN p * l ELSE n
           g == [p \in 1..T |-> SubSeq(list, 1, upTo(p))]
<1>1. n \in Nat /\ T \in Nat \ {0} /\ \A p \in Nat \ {0} : p < T <=> p * l < n
  BY PageCount, LenProperties
<1>2. ASSUME NEW p \in Nat \ {0}
      PROVE  Lists!Paginated(list, p, l).items = SubSeq(list, (p - 1) * l + 1, upTo(p))
  <2>1. Lists!Skip(p, l) = (p - 1) * l /\ (p - 1) * l + l = p * l
    BY DEF Lists!Skip
  <2> QED BY <2>1 DEF Lists!Paginated, Lists!Rows
<1>3. ASSUME NEW p \in Nat \ {0}
      PROVE  upTo(p) \in 0..n /\ p * l \in Nat
  BY <1>1
<1> HIDE DEF T
<1>4. ASSUME NEW i \in 1..T
      PROVE  /\ i \in Nat \ {0} /\ seqs[i] = SubSeq(list, (i - 1) * l + 1, upTo(i))
             /\ g[i] = SubSeq(list, 1, upTo(i)) /\ seqs[i] \in Seq(S)
  <2>1. i \in Nat \ {0} /\ (i - 1) * l + 1 \in Nat \ {0}
    BY <1>1
  <2>2. seqs[i] = SubSeq(list, (i - 1) * l + 1, upTo(i)) /\ g[i] = SubSeq(list, 1, upTo(i))
    BY <1>2, <2>1
  <2>3. upTo(i) \in 0..n
    BY <1>3, <2>1
  <2> HIDE DEF upTo, seqs, g
  <2>4. SubSeq(list, (i - 1) * l + 1, upTo(i)) \in Seq(S)
    BY <2>1, <2>3
  <2> QED BY <2>1, <2>2, <2>4
<1>5. g[1] = seqs[1]
  <2>1. (1 - 1) * l + 1 = 1 /\ 1 \in 1..T
    BY <1>1
  <2> HIDE DEF g, seqs, upTo
  <2>2. seqs[1] = SubSeq(list, (1 - 1) * l + 1, upTo(1)) /\ g[1] = SubSeq(list, 1, upTo(1))
    BY <1>4, <2>1
  <2> QED BY <2>1, <2>2
<1>6. ASSUME NEW i \in 2..T PROVE g[i] = g[i - 1] \o seqs[i]
  <2>1. i - 1 \in 1..T /\ i \in 1..T /\ i - 1 < T /\ i - 1 \in Nat \ {0} /\ i \in Nat \ {0}
    BY <1>1
  <2>2. upTo(i - 1) = (i - 1) * l
    BY <1>1, <2>1
  <2>3. upTo(i) \in 0..n /\ (i - 1) * l <= upTo(i) /\ (i - 1) * l \in 0..n
    <3>1. (i - 1) * l <= i * l /\ i * l \in Nat /\ (i - 1) * l \in Nat
      BY <2>1, <1>3, Scaled
    <3>2. (i - 1) * l < n
      BY <1>1, <2>1
    <3> QED BY <1>1, <3>1, <3>2
  <2> HIDE DEF g, seqs, upTo
  <2>4. ASSUME NEW j \in 0..n, NEW k \in 0..n, j <= k
        PROVE  SubSeq(list, 1, k) = SubSeq(list, 1, j) \o SubSeq(list, j + 1, k)
    BY <2>4
  <2>5. SubSeq(list, 1, upTo(i))
          = SubSeq(list, 1, (i - 1) * l) \o SubSeq(list, (i - 1) * l + 1, upTo(i))
    BY <2>3, <2>4
  <2>6. /\ g[i] = SubSeq(list, 1, upTo(i)) /\ g[i - 1] = SubSeq(list, 1, upTo(i - 1))
        /\ seqs[i] = SubSeq(list, (i - 1) * l + 1, upTo(i))
    BY <1>4, <2>1
  <2> QED BY <2>2, <2>5, <2>6
<1>7. seqs \in [1..T -> Seq(S)]
  BY <1>4
<1>8. Lists!FlattenSeq(seqs) = g[T]
  <2> HIDE DEF seqs, g
  <2> QED BY <1>1, <1>5, <1>6, <1>7, Joined
<1>9. g[T] = list
  <2>1. upTo(T) = n
    BY <1>1
  <2>2. T \in 1..T
    BY <1>1
  <2> HIDE DEF upTo, g, seqs
  <2>3. g[T] = SubSeq(list, 1, n)
    BY <1>4, <2>1, <2>2
  <2>4. SubSeq(list, 1, n) = list
    OBVIOUS
  <2> QED BY <2>3, <2>4
<1> QED BY <1>8, <1>9 DEF T

(* The pages of every list that is a query of the run are its rows, each   *)
(* once: the property the run checks, for every bound on the queries.      *)
THEOREM PartitionCorrect == MCSpec => []PagesPartition
<1>1. ASSUME NEW n \in Nat, NEW l \in Nat \ {0} PROVE Lists!PagesPartition(n, l)
  <2> DEFINE list == [i \in 1..n |-> i]
             Page(p) == Lists!Paginated(list, p, l)
  <2>1. list \in Seq(Nat) /\ Len(list) = n /\ (list = <<>> <=> n = 0)
    OBVIOUS
  <2> HIDE DEF list
  <2>2. Page(1).pages = Lists!TotalPages(l, n)
    BY <2>1 DEF Lists!Paginated
  <2>3. Lists!FlattenSeq([p \in 1..Page(1).pages |-> Page(p).items]) = list
    BY <2>1, <2>2, PagesJoined
  <2>4. /\ \A p \in 1..Page(1).pages : Page(p).items # <<>> \/ list = <<>>
        /\ \A p \in 1..(Page(1).pages + 1) :
             /\ Page(p).hasNext <=> Page(p + 1).items # <<>>
             /\ Page(p).hasPrev /\ list # <<>> => Page(p - 1).items # <<>>
    BY <2>1, PagesCorrect
  <2> HIDE DEF Page
  <2>5. /\ \A p \in 1..Page(1).pages : Page(p).items # <<>> \/ n = 0
        /\ \A p \in 1..(Page(1).pages + 1) :
             /\ Page(p).hasNext <=> Page(p + 1).items # <<>>
             /\ Page(p).hasPrev /\ n > 0 => Page(p - 1).items # <<>>
    BY <2>1, <2>4
  <2> QED BY <2>3, <2>5 DEF Lists!PagesPartition, Page, list
<1>2. query.items \in Nat /\ query.limit \in Nat \ {0} => PagesPartition
  BY <1>1 DEF PagesPartition
<1>3. MCInit => query.items \in Nat /\ query.limit \in Nat \ {0}
  BY DEF MCInit, Queries
<1>4. /\ query.items \in Nat /\ query.limit \in Nat \ {0}
      /\ [MCNext]_<<vars, query>>
      => (query.items \in Nat /\ query.limit \in Nat \ {0})'
  BY DEF MCNext, NoQuery
<1> QED BY <1>2, <1>3, <1>4, PTL DEF MCSpec

(* Nothing but whitelisted fields, in the order asked for, reaches the      *)
(* database, however long the sort expression is and whatever names and     *)
(* minus signs it has; anything else refuses the expression as a whole.    *)
THEOREM SortCorrect ==
  ASSUME NEW Names, NEW parts \in Seq([minus : Nat, field : Names])
  PROVE  Lists!SortWhitelisted(parts)
<1>1. CASE parts = <<>>
  <2>1. Lists!ParseSort(parts) = <<[field |-> "createdAt", order |-> "desc"]>>
    BY <1>1 DEF Lists!ParseSort, Lists!Fallback
  <2> QED BY <1>1, <2>1 DEF Lists!SortWhitelisted, Lists!Allowed
<1>2. CASE parts # <<>> /\ \A i \in DOMAIN parts : Lists!Known(parts[i])
  <2>1. Lists!ParseSort(parts) = Lists!Parsed(parts)
    BY <1>2 DEF Lists!ParseSort
  <2>2. DOMAIN Lists!Parsed(parts) = DOMAIN parts
    BY DEF Lists!Parsed
  <2>3. ASSUME NEW i \in DOMAIN parts
        PROVE  /\ Lists!Parsed(parts)[i].field = parts[i].field
               /\ Lists!Parsed(parts)[i].order = "asc" <=> parts[i].minus = 0
               /\ Lists!Parsed(parts)[i].field \in Lists!Allowed
    BY <1>2 DEF Lists!Parsed, Lists!Criterion, Lists!Known
  <2> QED BY <2>1, <2>2, <2>3 DEF Lists!SortWhitelisted
<1>3. CASE parts # <<>> /\ ~\A i \in DOMAIN parts : Lists!Known(parts[i])
  <2>1. Lists!ParseSort(parts) = <<>>
    BY <1>3 DEF Lists!ParseSort
  <2> QED BY <2>1 DEF Lists!SortWhitelisted
<1> QED BY <1>1, <1>2, <1>3
=============================================================================
