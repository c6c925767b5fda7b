------------------------ MODULE RefreshTokensProofs ------------------------
(***************************************************************************)
(* Theorems about RefreshTokens, for every set of users and of concurrent  *)
(* requests and every number of rows.                                      *)
(***************************************************************************)
EXTENDS RefreshTokens, FiniteSetTheorems, TLAPS

-----------------------------------------------------------------------------
(* Which request a program counter belongs to, and what it has established. *)
ControlOf(h) ==
  /\ h.pc = "idle" => h.user = NoUser
  /\ h.pc = "credentials" => h.op = "login"
  /\ h.pc \in {"find", "link", "loadUser"} => h.op = "refresh"
  /\ h.pc \in {"issue", "link", "loadUser", "purge"} /\ h.op = "refresh" => h.tok # NoToken
  /\ h.pc = "issue" => h.op \in {"login", "refresh"}
  /\ h.pc = "actor" => h.op = "logoutAll"
  /\ h.pc = "purge" => \/ h.op = "refresh" /\ h.status \in {"reused", "inactive"}
                       \/ h.op = "logoutAll" /\ h.status = "ok"
  /\ h.pc \in {"lookup", "revokeOne"} => h.op = "logout"
  /\ h.pc = "revokeOne" => h.tok # NoToken

Control == \A r \in Requests : ControlOf(req[r])

-----------------------------------------------------------------------------
(* Type correctness.                                                       *)

(* The pcs and statuses that handlers move to are among the declared ones.  *)
LEMMA LiteralTypes ==
  /\ {"issue", "reply", "purge", "link", "loadUser", "revokeOne"} \subseteq Pcs
  /\ {"ok", "rejected", "reused", "inactive", "silent"} \subseteq Statuses
BY DEF Pcs, Statuses

(* The updates a handler makes to its local state keep it well typed.      *)
LEMMA HandlerType ==
  ASSUME NEW h \in RequestType, NEW p \in Pcs, NEW s \in Statuses, NEW n \in 0..MaxTokens
  PROVE  /\ [h EXCEPT !.pc = p] \in RequestType
         /\ [h EXCEPT !.pc = p, !.status = s] \in RequestType
         /\ [h EXCEPT !.pc = p, !.fresh = n] \in RequestType
         /\ [h EXCEPT !.pc = p, !.status = s, !.fresh = n] \in RequestType
         /\ [h EXCEPT !.pc = p, !.status = s, !.horizon = n] \in RequestType
BY DEF RequestType

(* So does an arrival.                                                     *)
LEMMA ArrivalType ==
  /\ NoRequest \in RequestType
  /\ \A op \in Ops, pc \in Pcs, u \in Users \cup {NoUser}, t \in 0..MaxTokens, g \in BOOLEAN :
       [NoRequest EXCEPT !.op = op, !.pc = pc, !.user = u, !.tok = t, !.good = g]
         \in RequestType
<1>1. NoRequest \in RequestType
  BY MaxTokensAssumption DEF NoRequest, RequestType, Ops, Pcs, Statuses, NoToken
<1> QED BY <1>1 DEF RequestType

(* A handler that moves on, answers or goes to revoke everything.          *)
LEMMA MoveType ==
  ASSUME TypeOK, NEW r \in Requests, NEW p \in Pcs, NEW s \in Statuses
  PROVE  /\ Goto(r, p) => req' \in [Requests -> RequestType]
         /\ Answer(r, s) => req' \in [Requests -> RequestType]
         /\ Become(r, [req[r] EXCEPT !.pc = p, !.status = s, !.horizon = last])
              => req' \in [Requests -> RequestType]
<1>1. req \in [Requests -> RequestType] /\ req[r] \in RequestType /\ last \in 0..MaxTokens
  BY DEF TypeOK
<1>2. "reply" \in Pcs
  BY DEF Pcs
<1>3. /\ [req[r] EXCEPT !.pc = p] \in RequestType
      /\ [req[r] EXCEPT !.pc = "reply", !.status = s] \in RequestType
      /\ [req[r] EXCEPT !.pc = p, !.status = s, !.horizon = last] \in RequestType
  BY <1>1, <1>2, HandlerType
<1> QED BY <1>1, <1>3 DEF Goto, Answer, Become

(* Inserting a row keeps the columns well typed.                           *)
LEMMA CreateRowType ==
  ASSUME TypeOK, NEW r \in Requests, NEW t \in 0..MaxTokens, CreateRow(r, t)
  PROVE  /\ last + 1 \in Tokens
         /\ last' \in 0..MaxTokens
         /\ owner' \in [Tokens -> Users \cup {NoUser}]
         /\ root' \in [Tokens -> 0..MaxTokens]
<1>1. last + 1 \in Tokens /\ last' \in 0..MaxTokens
  BY MaxTokensAssumption DEF TypeOK, CreateRow, Tokens
<1>2. req[r].user \in Users \cup {NoUser}
  BY DEF TypeOK, RequestType
<1> QED BY <1>1, <1>2 DEF TypeOK, CreateRow

(* Type correctness is inductive together with Control.                    *)
LEMMA TypeStep == TypeOK /\ Control /\ [Next]_vars => TypeOK'
<1> SUFFICES ASSUME TypeOK, Control, [Next]_vars PROVE TypeOK'
  OBVIOUS
<1> USE DEF columns, history
<1>1. ASSUME NEW r \in Requests, Begin(r) PROVE TypeOK'
  <2>1. \A t \in delivered \cup {NoToken} : t \in 0..MaxTokens /\ OwnerOf(t) \in Users \cup {NoUser}
    BY MaxTokensAssumption DEF OwnerOf, TypeOK, Tokens, NoToken
  <2>2. \E op \in Ops, pc \in Pcs, u \in Users \cup {NoUser}, t \in 0..MaxTokens, g \in BOOLEAN :
          Arrive(r, op, pc, u, t, g)
    <3>1. CASE \E u \in Users : BeginLogin(r, u)
      <4>1. PICK u \in Users : Arrive(r, "login", "credentials", u, 0, FALSE)
        BY <3>1 DEF BeginLogin, NoToken
      <4>2. 0 \in 0..MaxTokens /\ u \in Users \cup {NoUser}
        BY MaxTokensAssumption
      <4> QED BY <4>1, <4>2 DEF Ops, Pcs
    <3>2. CASE \E u \in Users : BeginLogoutAll(r, u)
      <4>1. PICK u \in Users : Arrive(r, "logoutAll", "actor", u, 0, FALSE)
        BY <3>2 DEF BeginLogoutAll, NoToken
      <4>2. 0 \in 0..MaxTokens /\ u \in Users \cup {NoUser}
        BY MaxTokensAssumption
      <4> QED BY <4>1, <4>2 DEF Ops, Pcs
    <3>3. CASE \E t \in delivered \cup {NoToken} : BeginLogout(r, t)
      <4>1. PICK t \in delivered \cup {NoToken} : BeginLogout(r, t)
        BY <3>3
      <4>2. Arrive(r, "logout", "lookup", OwnerOf(t), t, FALSE)
        BY <4>1 DEF BeginLogout
      <4> QED BY <2>1, <4>2 DEF Ops, Pcs
    <3>4. CASE \E t \in delivered \cup {NoToken}, g \in BOOLEAN : BeginRefresh(r, t, g)
      <4>1. PICK t \in delivered \cup {NoToken}, g \in BOOLEAN : BeginRefresh(r, t, g)
        BY <3>4
      <4>2. Arrive(r, "refresh", "find", OwnerOf(t), t, g)
        BY <4>1 DEF BeginRefresh
      <4> QED BY <2>1, <4>2 DEF Ops, Pcs
    <3> QED BY <1>1, <3>1, <3>2, <3>3, <3>4 DEF Begin
  <2>3. PICK op \in Ops, pc \in Pcs, u \in Users \cup {NoUser}, t \in 0..MaxTokens, g \in BOOLEAN :
          Arrive(r, op, pc, u, t, g)
    BY <2>2
  <2>4. [NoRequest EXCEPT !.op = op, !.pc = pc, !.user = u, !.tok = t, !.good = g] \in RequestType
    BY ArrivalType
  <2>5. req' \in [Requests -> RequestType] /\ shut' \in SUBSET Requests
    BY <2>3, <2>4 DEF Arrive, Become, TypeOK
  <2> QED BY <2>3, <2>5 DEF Arrive, TypeOK
<1>2. ASSUME NEW r \in Requests, IssueSession(r) PROVE TypeOK'
  <2>1. CreateRow(r, last + 1) /\ last + 1 \in 0..MaxTokens
    BY <1>2, MaxTokensAssumption DEF IssueSession, CreateRow, TypeOK
  <2>2. req[r] \in RequestType /\ "reply" \in Pcs /\ "ok" \in Statuses
    BY DEF TypeOK, Pcs, Statuses
  <2>3. [req[r] EXCEPT !.pc = "reply", !.status = "ok", !.fresh = last + 1] \in RequestType
    BY <2>1, <2>2, HandlerType
  <2>4. req' \in [Requests -> RequestType]
    BY <1>2, <2>3 DEF IssueSession, Become, TypeOK
  <2> QED BY <2>1, <2>4, CreateRowType DEF CreateRow, TypeOK
<1>3. ASSUME NEW r \in Requests, IssueSuccessor(r) PROVE TypeOK'
  <2>1. req[r] \in RequestType /\ "link" \in Pcs /\ "none" \in Statuses
    BY DEF TypeOK, Pcs, Statuses
  <2>2. CreateRow(r, root[req[r].tok]) /\ root[req[r].tok] \in 0..MaxTokens
    <3>1. req[r].tok \in 0..MaxTokens /\ req[r].tok # NoToken
      BY <1>3 DEF IssueSuccessor, CreateRow, At, Control, ControlOf, TypeOK, RequestType
    <3>2. req[r].tok \in Tokens
      BY <3>1, MaxTokensAssumption DEF Tokens, NoToken
    <3> QED BY <1>3, <3>2 DEF IssueSuccessor, TypeOK
  <2>5. last + 1 \in 0..MaxTokens
    BY <2>2, CreateRowType DEF Tokens
  <2>3. [req[r] EXCEPT !.pc = "link", !.fresh = last + 1] \in RequestType
    BY <2>1, <2>5, HandlerType
  <2>4. req' \in [Requests -> RequestType]
    BY <1>3, <2>3 DEF IssueSuccessor, Become, TypeOK
  <2> QED BY <2>2, <2>4, CreateRowType DEF CreateRow, TypeOK
<1>4. ASSUME NEW r \in Requests, CheckCredentials(r) PROVE TypeOK'
  BY <1>4, LiteralTypes, MoveType DEF CheckCredentials, TypeOK
<1>5. ASSUME NEW r \in Requests, RotateInvalid(r) PROVE TypeOK'
  BY <1>5, LiteralTypes, MoveType DEF RotateInvalid, TypeOK
<1>6. ASSUME NEW r \in Requests, RotateReused(r) PROVE TypeOK'
  BY <1>6, LiteralTypes, MoveType DEF RotateReused, TypeOK
<1>7. ASSUME NEW r \in Requests, RotateValid(r) PROVE TypeOK'
  BY <1>7, LiteralTypes, MoveType DEF RotateValid, TypeOK
<1>8. ASSUME NEW r \in Requests, Link(r) PROVE TypeOK'
  <2>1. req[r].fresh \in 0..MaxTokens /\ req' \in [Requests -> RequestType]
    BY <1>8, LiteralTypes, MoveType DEF Link, TypeOK, RequestType
  <2> QED BY <1>8, <2>1 DEF Link, TypeOK
<1>9. ASSUME NEW r \in Requests, LoadUserActive(r) PROVE TypeOK'
  BY <1>9, LiteralTypes, MoveType DEF LoadUserActive, TypeOK
<1>10. ASSUME NEW r \in Requests, LoadUserInactive(r) PROVE TypeOK'
  BY <1>10, LiteralTypes, MoveType DEF LoadUserInactive, TypeOK
<1>11. ASSUME NEW r \in Requests, Purge(r) PROVE TypeOK'
  BY <1>11, LiteralTypes, MoveType DEF Purge, TypeOK
<1>12. ASSUME NEW r \in Requests, LoadActor(r) PROVE TypeOK'
  BY <1>12, LiteralTypes, MoveType DEF LoadActor, TypeOK
<1>13. ASSUME NEW r \in Requests, LogoutNothing(r) PROVE TypeOK'
  BY <1>13, LiteralTypes, MoveType DEF LogoutNothing, TypeOK
<1>14. ASSUME NEW r \in Requests, LogoutFound(r) PROVE TypeOK'
  BY <1>14, LiteralTypes, MoveType DEF LogoutFound, TypeOK
<1>15. ASSUME NEW r \in Requests, LogoutLookupFails(r) PROVE TypeOK'
  BY <1>15, LiteralTypes, MoveType DEF LogoutLookupFails, TypeOK
<1>16. ASSUME NEW r \in Requests, RevokeOne(r) PROVE TypeOK'
  BY <1>16, LiteralTypes, MoveType DEF RevokeOne, TypeOK
<1>17. ASSUME NEW r \in Requests, Reply(r) PROVE TypeOK'
  BY <1>17, ArrivalType DEF Reply, Become, TypeOK
<1>18. ASSUME NEW r \in Requests, Fail(r) PROVE TypeOK'
  BY <1>18, ArrivalType DEF Fail, Become, TypeOK
<1>19. ASSUME Environment PROVE TypeOK'
  BY <1>19 DEF Environment, Expire, SetActive, TypeOK
<1>20. ASSUME UNCHANGED vars PROVE TypeOK'
  BY <1>20 DEF vars, TypeOK
<1> QED
  BY <1>1, <1>2, <1>3, <1>4, <1>5, <1>6, <1>7, <1>8, <1>9, <1>10, <1>11, <1>12, <1>13,
     <1>14, <1>15, <1>16, <1>17, <1>18, <1>19, <1>20
  DEF Next, ServerStep

(* Control is preserved.                                                   *)
LEMMA ControlStep == TypeOK /\ Control /\ [Next]_vars => Control'
<1> SUFFICES ASSUME TypeOK, Control, [Next]_vars PROVE Control'
  OBVIOUS
<1>1. ASSUME NEW r \in Requests, NEW h, Become(r, h), ControlOf(h) PROVE Control'
  BY <1>1 DEF Become, Control, TypeOK
<1>2. ASSUME NEW r \in Requests, Begin(r) PROVE Control'
  <2>1. PICK op, pc, u, t, g :
          /\ Become(r, [NoRequest EXCEPT !.op = op, !.pc = pc, !.user = u, !.tok = t, !.good = g])
          /\ <<op, pc>> \in {<<"login", "credentials">>, <<"logoutAll", "actor">>,
                             <<"logout", "lookup">>, <<"refresh", "find">>}
    BY <1>2 DEF Begin, BeginLogin, BeginLogoutAll, BeginLogout, BeginRefresh, Arrive, Ops, Pcs
  <2> QED BY <2>1, <1>1 DEF ControlOf, NoRequest
<1>3. ASSUME NEW r \in Requests, ServerStep(r) \/ Fail(r) PROVE Control'
  <2>1. req[r] \in RequestType /\ ControlOf(req[r])
    BY DEF TypeOK, Control
  <2>2. ASSUME CheckCredentials(r) PROVE ControlOf(req'[r]) /\ Become(r, req'[r])
    <3>1. CASE Goto(r, "issue")
      BY <2>1, <2>2, <3>1 DEF CheckCredentials, At, Goto, Become, TypeOK, RequestType, ControlOf
    <3>2. CASE Answer(r, "rejected")
      BY <2>1, <3>2 DEF Answer, Become, TypeOK, RequestType, ControlOf
    <3> QED BY <2>2, <3>1, <3>2 DEF CheckCredentials
  <2>3. ASSUME RotateInvalid(r) PROVE ControlOf(req'[r]) /\ Become(r, req'[r])
    BY <2>1, <2>3 DEF RotateInvalid, At, Goto, Answer, Become, TypeOK, RequestType, ControlOf
  <2>4. ASSUME RotateReused(r) PROVE ControlOf(req'[r]) /\ Become(r, req'[r])
    BY <2>1, <2>4 DEF RotateReused, At, Goto, Answer, Become, TypeOK, RequestType, ControlOf
  <2>5. ASSUME RotateValid(r) PROVE ControlOf(req'[r]) /\ Become(r, req'[r])
    BY <2>1, <2>5 DEF RotateValid, At, Goto, Answer, Become, TypeOK, RequestType, ControlOf
  <2>6. ASSUME Link(r) PROVE ControlOf(req'[r]) /\ Become(r, req'[r])
    BY <2>1, <2>6 DEF Link, At, Goto, Answer, Become, TypeOK, RequestType, ControlOf
  <2>7. ASSUME LoadUserActive(r) PROVE ControlOf(req'[r]) /\ Become(r, req'[r])
    BY <2>1, <2>7 DEF LoadUserActive, At, Goto, Answer, Become, TypeOK, RequestType, ControlOf
  <2>8. ASSUME LoadUserInactive(r) PROVE ControlOf(req'[r]) /\ Become(r, req'[r])
    BY <2>1, <2>8 DEF LoadUserInactive, At, Goto, Answer, Become, TypeOK, RequestType, ControlOf
  <2>9. ASSUME Purge(r) PROVE ControlOf(req'[r]) /\ Become(r, req'[r])
    BY <2>1, <2>9 DEF Purge, At, Goto, Answer, Become, TypeOK, RequestType, ControlOf
  <2>10. ASSUME LoadActor(r) PROVE ControlOf(req'[r]) /\ Become(r, req'[r])
    <3>1. CASE Become(r, [req[r] EXCEPT !.pc = "purge", !.status = "ok", !.horizon = last])
      BY <2>1, <2>10, <3>1 DEF LoadActor, At, Become, TypeOK, RequestType, ControlOf
    <3>2. CASE Answer(r, "rejected")
      BY <2>1, <3>2 DEF Answer, Become, TypeOK, RequestType, ControlOf
    <3> QED BY <2>10, <3>1, <3>2 DEF LoadActor
  <2>11. ASSUME LogoutNothing(r) PROVE ControlOf(req'[r]) /\ Become(r, req'[r])
    BY <2>1, <2>11 DEF LogoutNothing, At, Goto, Answer, Become, TypeOK, RequestType, ControlOf
  <2>12. ASSUME LogoutFound(r) PROVE ControlOf(req'[r]) /\ Become(r, req'[r])
    BY <2>1, <2>12 DEF LogoutFound, At, Goto, Answer, Become, TypeOK, RequestType, ControlOf
  <2>13. ASSUME LogoutLookupFails(r) PROVE ControlOf(req'[r]) /\ Become(r, req'[r])
    BY <2>1, <2>13
    DEF LogoutLookupFails, At, Goto, Answer, Become, TypeOK, RequestType, ControlOf
  <2>14. ASSUME RevokeOne(r) PROVE ControlOf(req'[r]) /\ Become(r, req'[r])
    BY <2>1, <2>14 DEF RevokeOne, At, Goto, Answer, Become, TypeOK, RequestType, ControlOf
  <2>15. ASSUME IssueSession(r) PROVE ControlOf(req'[r]) /\ Become(r, req'[r])
    BY <2>1, <2>15 DEF IssueSession, CreateRow, At, Become, TypeOK, RequestType, ControlOf
  <2>16. ASSUME IssueSuccessor(r) PROVE ControlOf(req'[r]) /\ Become(r, req'[r])
    BY <2>1, <2>16 DEF IssueSuccessor, CreateRow, At, Become, TypeOK, RequestType, ControlOf
  <2>17. ASSUME Reply(r) PROVE ControlOf(req'[r]) /\ Become(r, req'[r])
    BY <2>1, <2>17 DEF Reply, NoRequest, Become, TypeOK, RequestType, ControlOf
  <2>18. ASSUME Fail(r) PROVE ControlOf(req'[r]) /\ Become(r, req'[r])
    BY <2>1, <2>18 DEF Fail, NoRequest, Become, TypeOK, RequestType, ControlOf
  <2>19. ControlOf(req'[r]) /\ Become(r, req'[r])
    BY <1>3, <2>2, <2>3, <2>4, <2>5, <2>6, <2>7, <2>8, <2>9, <2>10, <2>11, <2>12, <2>13,
       <2>14, <2>15, <2>16, <2>17, <2>18
    DEF ServerStep
  <2> QED BY <2>19, <1>1
<1>4. CASE Environment
  BY <1>4 DEF Environment, Expire, SetActive, Control
<1>5. CASE UNCHANGED vars
  BY <1>5 DEF vars, Control
<1> QED BY <1>2, <1>3, <1>4, <1>5 DEF Next

(* The initial state is well typed and every handler is idle.              *)
LEMMA InitTypes == Init => TypeOK /\ Control
<1>1. Init => TypeOK
  <2>1. 0 \in 0..MaxTokens
    BY MaxTokensAssumption
  <2> QED BY <2>1, ArrivalType DEF Init, TypeOK, NoToken
<1>2. Init => Control
  BY DEF Init, Control, ControlOf, NoRequest
<1> QED BY <1>1, <1>2

(* Every reachable state is well typed: in particular no handler, row or   *)
(* link ever refers to a row outside the table.                            *)
THEOREM TypeCorrect == Spec => []TypeOK
<1> QED BY InitTypes, TypeStep, ControlStep, PTL DEF Spec

-----------------------------------------------------------------------------
(* Safety of rotation and revocation.                                      *)

(* What a handler knows about the table: facts that stay true whatever the *)
(* other handlers do, because rows only age.                               *)
FactsOf(h) ==
  /\ h.tok # NoToken => h.tok <= last /\ h.user = owner[h.tok]
  /\ h.op \in {"login", "logoutAll"} => h.user \in Users
  /\ h.fresh # NoToken => h.fresh <= last /\ owner[h.fresh] = h.user
  /\ h.fresh # NoToken /\ h.op = "refresh" =>
       h.tok # NoToken /\ h.tok < h.fresh /\ root[h.fresh] = root[h.tok]
  /\ h.pc \in {"link", "loadUser"} => h.fresh # NoToken
  /\ h.pc = "loadUser" \/ (h.pc = "reply" /\ h.op = "refresh" /\ h.status = "ok") =>
       /\ h.tok # NoToken /\ revoked[h.tok] /\ replacedBy[h.tok] # NoToken
       /\ h.fresh # NoToken
  /\ h.horizon <= last
  /\ h.pc = "reply" /\ (h.status \in {"reused", "inactive"} \/ (h.op = "logoutAll" /\ h.status = "ok")) =>
       \A t \in 1..h.horizon : owner[t] = h.user => revoked[t]
  /\ h.op = "logout" /\ h.pc = "reply" /\ h.status = "ok" /\ h.tok # NoToken => revoked[h.tok]

Facts == \A r \in Requests : FactsOf(req[r])

DeliveredRowsExist == \A t \in delivered : t <= last

IInv == TypeOK /\ Control /\ Facts /\ Lineage /\ DeliveredRowsExist

(* Rows are only added, and keep their user and their login; revocation    *)
(* and links are never undone.                                             *)
Grows ==
  /\ last <= last'
  /\ \A t \in 1..last : /\ owner'[t] = owner[t]
                        /\ root'[t] = root[t]
                        /\ revoked[t] => revoked'[t]
                        /\ expired[t] => expired'[t]
                        /\ replacedBy[t] # NoToken => replacedBy'[t] # NoToken

(* Every step of the system lets the rows that exist age only.             *)
LEMMA StepGrows == IInv /\ [Next]_vars => Grows
<1> SUFFICES ASSUME IInv, [Next]_vars PROVE Grows
  OBVIOUS
<1>1. /\ last \in Nat /\ last <= MaxTokens /\ 1..last \subseteq Tokens
      /\ owner \in [Tokens -> Users \cup {NoUser}] /\ root \in [Tokens -> 0..MaxTokens]
      /\ revoked \in [Tokens -> BOOLEAN] /\ expired \in [Tokens -> BOOLEAN]
      /\ replacedBy \in [Tokens -> 0..MaxTokens]
  BY MaxTokensAssumption DEF IInv, TypeOK, Tokens
<1>2. ASSUME UNCHANGED <<last, columns, root>> PROVE Grows
  BY <1>1, <1>2 DEF Grows, columns
<1>3. ASSUME NEW r \in Requests, Begin(r) PROVE Grows
  BY <1>2, <1>3 DEF Begin, BeginLogin, BeginLogoutAll, BeginLogout, BeginRefresh, Arrive
<1>4. ASSUME NEW r \in Requests, NEW t, CreateRow(r, t) PROVE Grows
  BY <1>1, <1>4 DEF Grows, CreateRow
<1>5. ASSUME NEW r \in Requests, IssueSession(r) \/ IssueSuccessor(r) PROVE Grows
  BY <1>4, <1>5 DEF IssueSession, IssueSuccessor
<1>6. ASSUME NEW r \in Requests, Link(r) PROVE Grows
  <2>1. FactsOf(req[r]) /\ req[r] \in RequestType /\ req[r].pc = "link"
    BY <1>6 DEF IInv, TypeOK, Facts, Link, At
  <2>2. req[r].fresh # NoToken /\ req[r].fresh \in 0..MaxTokens
    BY <2>1 DEF FactsOf, RequestType
  <2>3. \A t \in Tokens : /\ revoked[t] => revoked'[t]
                          /\ replacedBy[t] # NoToken => replacedBy'[t] # NoToken
    BY <1>1, <1>6, <2>2 DEF Link
  <2> QED BY <1>1, <1>6, <2>3 DEF Grows, Link, history
<1>7. ASSUME NEW r \in Requests, Purge(r) \/ RevokeOne(r) PROVE Grows
  BY <1>1, <1>7 DEF Grows, Purge, RevokeOne, history
<1>8. ASSUME NEW r \in Requests, Reply(r) \/ Fail(r) PROVE Grows
  BY <1>2, <1>8 DEF Reply, Fail
<1>9. ASSUME NEW r \in Requests,
             CheckCredentials(r) \/ RotateInvalid(r) \/ RotateReused(r) \/ RotateValid(r)
             \/ LoadUserActive(r) \/ LoadUserInactive(r) \/ LoadActor(r)
             \/ LogoutNothing(r) \/ LogoutFound(r) \/ LogoutLookupFails(r)
      PROVE  Grows
  BY <1>2, <1>9
  DEF CheckCredentials, RotateInvalid, RotateReused, RotateValid, LoadUserActive,
      LoadUserInactive, LoadActor, LogoutNothing, LogoutFound, LogoutLookupFails, history
<1>10. ASSUME NEW t \in Tokens, Expire(t) PROVE Grows
  BY <1>1, <1>10 DEF Expire, Grows, history
<1>11. ASSUME NEW u \in Users, NEW b \in BOOLEAN, SetActive(u, b) PROVE Grows
  BY <1>2, <1>11 DEF SetActive
<1>12. CASE UNCHANGED vars
  BY <1>2, <1>12 DEF vars, columns, history
<1> QED
  BY <1>3, <1>5, <1>6, <1>7, <1>8, <1>9, <1>10, <1>12, <1>11
  DEF Next, ServerStep, Environment

(* What a handler knows survives the steps of the others.                  *)
LEMMA FactsStable ==
  ASSUME TypeOK, TypeOK', Grows, NEW h \in RequestType, FactsOf(h)
  PROVE  FactsOf(h)'
<1>1. last \in Nat /\ last' \in Nat /\ last <= last'
  BY DEF TypeOK, Grows
<1>2. h.tok \in Nat /\ h.fresh \in Nat /\ h.horizon \in Nat
  BY DEF RequestType
<1>3. \A n \in Nat : n # NoToken /\ n <= last => n \in 1..last
  BY <1>1 DEF NoToken
<1>4. h.tok # NoToken => h.tok \in 1..last /\ h.user = owner'[h.tok]
  BY <1>1, <1>2, <1>3 DEF Grows, FactsOf
<1>5. h.fresh # NoToken => h.fresh \in 1..last /\ owner'[h.fresh] = h.user
  BY <1>1, <1>2, <1>3 DEF Grows, FactsOf
<1>6. h.fresh # NoToken /\ h.op = "refresh" =>
       h.tok # NoToken /\ h.tok < h.fresh /\ root'[h.fresh] = root'[h.tok]
  BY <1>1, <1>2, <1>3 DEF Grows, FactsOf
<1>7. \A t \in 1..h.horizon : t \in 1..last
  BY <1>1, <1>2 DEF FactsOf
<1>8. h.pc = "reply" /\ (h.status \in {"reused", "inactive"} \/ (h.op = "logoutAll" /\ h.status = "ok")) =>
       \A t \in 1..h.horizon : owner'[t] = h.user => revoked'[t]
  BY <1>7 DEF Grows, FactsOf
<1>9. h.op = "logout" /\ h.pc = "reply" /\ h.status = "ok" /\ h.tok # NoToken => revoked'[h.tok]
  BY <1>4 DEF Grows, FactsOf
<1>10. h.pc = "loadUser" \/ (h.pc = "reply" /\ h.op = "refresh" /\ h.status = "ok") =>
       /\ h.tok # NoToken /\ revoked'[h.tok] /\ replacedBy'[h.tok] # NoToken
       /\ h.fresh # NoToken
  BY <1>4 DEF Grows, FactsOf
<1>11. /\ h.tok # NoToken => h.tok <= last'
       /\ h.fresh # NoToken => h.fresh <= last'
       /\ h.horizon <= last'
  BY <1>1, <1>2 DEF FactsOf
<1> QED BY <1>4, <1>5, <1>6, <1>8, <1>9, <1>10, <1>11 DEF FactsOf

(* Every step of a handler establishes the facts of its next statement.    *)
LEMMA FactsStep == IInv /\ [Next]_vars => Facts'
<1> SUFFICES ASSUME IInv, [Next]_vars, NEW s \in Requests PROVE FactsOf(req[s])'
  BY DEF Facts
<1>1. TypeOK /\ TypeOK' /\ Grows /\ ControlOf(req[s])
  BY TypeStep, StepGrows DEF IInv, Control
<1>2. req \in [Requests -> RequestType] /\ req[s] \in RequestType /\ FactsOf(req[s])
  BY DEF IInv, TypeOK, Facts
<1>3. last \in Nat /\ last' \in Nat /\ last <= last' /\ last <= MaxTokens
  BY <1>1, MaxTokensAssumption DEF TypeOK, Grows
<1>4. ASSUME req'[s] = req[s] PROVE FactsOf(req[s])'
  BY <1>1, <1>2, <1>4, FactsStable
<1>5. ASSUME Begin(s) PROVE FactsOf(req[s])'
  <2>1. PICK op, pc, u, t, g :
          /\ Arrive(s, op, pc, u, t, g)
          /\ pc \in {"credentials", "actor", "lookup", "find"}
          /\ \/ t = NoToken /\ op \in {"login", "logoutAll"} /\ u \in Users
             \/ op \in {"logout", "refresh"} /\ t \in delivered \cup {NoToken} /\ u = OwnerOf(t)
    BY <1>5 DEF Begin, BeginLogin, BeginLogoutAll, BeginLogout, BeginRefresh
  <2>2. UNCHANGED <<last, owner, revoked, replacedBy, root>>
    BY <2>1 DEF Arrive, columns
  <2>3. req'[s] = [NoRequest EXCEPT !.op = op, !.pc = pc, !.user = u, !.tok = t, !.good = g]
    BY <1>2, <2>1 DEF Arrive, Become
  <2>4. /\ req'[s].op = op /\ req'[s].pc = pc /\ req'[s].user = u /\ req'[s].tok = t
        /\ req'[s].fresh = NoToken /\ req'[s].horizon = NoToken
    BY <2>3 DEF NoRequest
  <2>5. t # NoToken => t <= last /\ u = owner[t]
    BY <2>1 DEF IInv, DeliveredRowsExist, OwnerOf
  <2>6. NoToken <= last
    BY <1>3 DEF NoToken
  <2> QED BY <2>1, <2>2, <2>4, <2>5, <2>6 DEF FactsOf
<1>6. ASSUME IssueSession(s) PROVE FactsOf(req[s])'
  <2>1. /\ req'[s] = [req[s] EXCEPT !.pc = "reply", !.status = "ok", !.fresh = last + 1]
        /\ req[s].op = "login" /\ last' = last + 1 /\ last + 1 \in Tokens
        /\ owner' = [owner EXCEPT ![last + 1] = req[s].user]
    BY <1>1, <1>2, <1>3, <1>6, MaxTokensAssumption DEF IssueSession, CreateRow, Become, Tokens
  <2>2. owner'[last + 1] = req[s].user
    BY <1>1, <2>1 DEF TypeOK
  <2>3. FactsOf(req[s])
    BY <1>2
  <2>4. /\ req'[s].op = "login" /\ req'[s].pc = "reply" /\ req'[s].status = "ok"
        /\ req'[s].fresh = last + 1 /\ req'[s].user = req[s].user /\ req'[s].tok = req[s].tok
        /\ req'[s].horizon = req[s].horizon
    BY <1>2, <2>1 DEF RequestType
  <2>5. /\ req[s].tok \in Nat /\ req[s].horizon \in Nat
    BY <1>2 DEF RequestType
  <2>6. req[s].tok # NoToken => req[s].tok <= last' /\ req[s].user = owner'[req[s].tok]
    BY <1>1, <1>2, <1>3, <2>5 DEF FactsOf, Grows, NoToken
  <2>7. req[s].horizon <= last'
    BY <1>2, <1>3, <2>5 DEF FactsOf
  <2> QED BY <1>2, <1>3, <2>1, <2>2, <2>4, <2>6, <2>7 DEF FactsOf
<1>7. ASSUME IssueSuccessor(s) PROVE FactsOf(req[s])'
  <2>1. /\ req'[s] = [req[s] EXCEPT !.pc = "link", !.fresh = last + 1]
        /\ req[s].op = "refresh" /\ req[s].pc = "issue" /\ last' = last + 1 /\ last + 1 \in Tokens
        /\ owner' = [owner EXCEPT ![last + 1] = req[s].user]
        /\ root' = [root EXCEPT ![last + 1] = root[req[s].tok]]
    BY <1>1, <1>2, <1>3, <1>7, MaxTokensAssumption
    DEF IssueSuccessor, CreateRow, At, Become, Tokens
  <2>2. owner'[last + 1] = req[s].user /\ root'[last + 1] = root[req[s].tok]
    BY <1>1, <2>1 DEF TypeOK
  <2>3. req[s].tok # NoToken /\ req[s].tok \in Nat /\ req[s].tok <= last
    BY <1>1, <1>2, <2>1 DEF ControlOf, FactsOf, RequestType
  <2>4. /\ req'[s].op = "refresh" /\ req'[s].pc = "link"
        /\ req'[s].fresh = last + 1 /\ req'[s].user = req[s].user /\ req'[s].tok = req[s].tok
        /\ req'[s].horizon = req[s].horizon
    BY <1>2, <2>1 DEF RequestType
  <2>5. req[s].tok \in 1..last
    BY <1>3, <2>3 DEF NoToken
  <2>6. /\ req[s].user = owner'[req[s].tok] /\ root'[req[s].tok] = root[req[s].tok]
    BY <1>1, <1>2, <2>3, <2>5 DEF FactsOf, Grows
  <2>7. req[s].horizon <= last' /\ req[s].tok <= last' /\ req[s].tok < last + 1 /\ last + 1 # NoToken
    BY <1>2, <1>3, <2>1, <2>3 DEF FactsOf, RequestType, NoToken
  <2> QED BY <1>3, <2>1, <2>2, <2>3, <2>4, <2>6, <2>7 DEF FactsOf
<1>8. ASSUME UNCHANGED <<last, columns, root>>, Goto(s, "issue") \/ Goto(s, "revokeOne")
      PROVE  FactsOf(req[s])'
  <2>1. PICK p \in {"issue", "revokeOne"} : req'[s] = [req[s] EXCEPT !.pc = p]
    BY <1>2, <1>8 DEF Goto, Become
  <2>2. /\ req'[s].op = req[s].op /\ req'[s].pc = p /\ req'[s].user = req[s].user
        /\ req'[s].tok = req[s].tok /\ req'[s].fresh = req[s].fresh
        /\ req'[s].status = req[s].status /\ req'[s].horizon = req[s].horizon
    BY <1>2, <2>1 DEF RequestType
  <2> QED BY <1>2, <1>8, <2>1, <2>2 DEF FactsOf, columns
<1>9. ASSUME UNCHANGED <<last, columns, root>>, NEW st \in {"ok", "rejected", "silent"}, Answer(s, st),
              (st = "ok") => (\/ req[s].op = "refresh" /\ req[s].pc = "loadUser"
                              \/ req[s].op = "logout" /\ (req[s].tok # NoToken => revoked[req[s].tok]))
       PROVE  FactsOf(req[s])'
  <2>1. /\ req'[s].op = req[s].op /\ req'[s].pc = "reply" /\ req'[s].user = req[s].user
        /\ req'[s].tok = req[s].tok /\ req'[s].fresh = req[s].fresh
        /\ req'[s].status = st /\ req'[s].horizon = req[s].horizon
    BY <1>2, <1>9 DEF Answer, Become, RequestType
  <2> QED BY <1>2, <1>9, <2>1 DEF FactsOf, columns
<1>10. ASSUME UNCHANGED <<last, columns, root>>, NEW st \in {"ok", "reused", "inactive"},
              Become(s, [req[s] EXCEPT !.pc = "purge", !.status = st, !.horizon = last])
       PROVE  FactsOf(req[s])'
  <2>1. /\ req'[s].op = req[s].op /\ req'[s].pc = "purge" /\ req'[s].user = req[s].user
        /\ req'[s].tok = req[s].tok /\ req'[s].fresh = req[s].fresh
        /\ req'[s].status = st /\ req'[s].horizon = last
    BY <1>2, <1>10 DEF Become, RequestType
  <2> QED BY <1>2, <1>3, <1>10, <2>1 DEF FactsOf, columns
<1>11. ASSUME CheckCredentials(s) \/ LoadActor(s) PROVE FactsOf(req[s])'
  BY <1>8, <1>9, <1>10, <1>11 DEF CheckCredentials, LoadActor, history
<1>12. ASSUME RotateInvalid(s) \/ RotateReused(s) \/ RotateValid(s) PROVE FactsOf(req[s])'
  BY <1>8, <1>9, <1>10, <1>12 DEF RotateInvalid, RotateReused, RotateValid, history
<1>13. ASSUME LoadUserActive(s) \/ LoadUserInactive(s) PROVE FactsOf(req[s])'
  <2>1. CASE LoadUserActive(s)
    <3>1. req[s].op = "refresh" /\ req[s].pc = "loadUser"
      BY <1>1, <2>1 DEF LoadUserActive, ControlOf, At
    <3>2. UNCHANGED <<last, columns, root>> /\ Answer(s, "ok")
      BY <2>1 DEF LoadUserActive, history
    <3> QED BY <1>9, <3>1, <3>2
  <2>2. CASE LoadUserInactive(s)
    BY <1>10, <2>2 DEF LoadUserInactive, history
  <2> QED BY <1>13, <2>1, <2>2
<1>14. ASSUME LogoutNothing(s) \/ LogoutFound(s) \/ LogoutLookupFails(s) PROVE FactsOf(req[s])'
  <2>1. CASE LogoutNothing(s)
    <3>1. req[s].op = "logout" /\ (req[s].tok # NoToken => revoked[req[s].tok])
      BY <1>1, <2>1 DEF LogoutNothing, ControlOf, At
    <3> QED BY <1>9, <2>1, <3>1 DEF LogoutNothing, history
  <2>2. CASE LogoutFound(s)
    BY <1>8, <2>2 DEF LogoutFound, history
  <2>3. CASE LogoutLookupFails(s)
    BY <1>9, <2>3 DEF LogoutLookupFails, history
  <2> QED BY <1>14, <2>1, <2>2, <2>3
<1>15. ASSUME Link(s) PROVE FactsOf(req[s])'
  <2>1. /\ req[s].op = "refresh" /\ req[s].tok # NoToken /\ req[s].tok \in 0..MaxTokens
        /\ req[s].fresh # NoToken
    BY <1>1, <1>2, <1>15 DEF Link, At, ControlOf, FactsOf, RequestType
  <2>2. req[s].tok \in Tokens
    BY <2>1, MaxTokensAssumption DEF Tokens, NoToken
  <2>3. revoked'[req[s].tok] /\ replacedBy'[req[s].tok] = req[s].fresh
    BY <1>1, <1>15, <2>2 DEF Link, TypeOK
  <2>4. /\ req'[s].op = "refresh" /\ req'[s].pc = "loadUser" /\ req'[s].user = req[s].user
        /\ req'[s].tok = req[s].tok /\ req'[s].fresh = req[s].fresh
        /\ req'[s].status = req[s].status /\ req'[s].horizon = req[s].horizon
    BY <1>2, <1>15, <2>1 DEF Link, Goto, Become, RequestType
  <2>5. UNCHANGED <<last, owner, root>>
    BY <1>15 DEF Link, history
  <2> QED BY <1>2, <2>1, <2>3, <2>4, <2>5 DEF FactsOf
<1>16. ASSUME Purge(s) PROVE FactsOf(req[s])'
  <2>1. /\ req'[s].op = req[s].op /\ req'[s].pc = "reply" /\ req'[s].user = req[s].user
        /\ req'[s].tok = req[s].tok /\ req'[s].fresh = req[s].fresh
        /\ req'[s].status = req[s].status /\ req'[s].horizon = req[s].horizon
        /\ req[s].pc = "purge" /\ req[s].op \in {"refresh", "logoutAll"}
    BY <1>1, <1>2, <1>16 DEF Purge, At, ControlOf, Goto, Become, RequestType
  <2>2. UNCHANGED <<last, owner, replacedBy, root>>
    BY <1>16 DEF Purge, history
  <2>3. \A t \in Tokens : owner'[t] = req'[s].user => revoked'[t]
    BY <1>16, <2>1, <2>2 DEF Purge
  <2>4. \A t \in 1..req'[s].horizon : t \in Tokens
    BY <1>2, <1>3, <2>1, MaxTokensAssumption DEF FactsOf, RequestType, Tokens
  <2>5. ~(req[s].op = "refresh" /\ req[s].status = "ok")
    BY <1>1, <2>1 DEF ControlOf
  <2> QED BY <1>2, <2>1, <2>2, <2>3, <2>4, <2>5 DEF FactsOf
<1>17. ASSUME RevokeOne(s) PROVE FactsOf(req[s])'
  <2>1. req[s].op = "logout" /\ req[s].tok # NoToken /\ req[s].tok \in 0..MaxTokens
    BY <1>1, <1>2, <1>17 DEF RevokeOne, At, ControlOf, RequestType
  <2>2. req[s].tok \in Tokens
    BY <2>1, MaxTokensAssumption DEF Tokens, NoToken
  <2>3. revoked'[req[s].tok]
    BY <1>1, <1>17, <2>2 DEF RevokeOne, TypeOK
  <2>4. /\ req'[s].op = "logout" /\ req'[s].pc = "reply" /\ req'[s].user = req[s].user
        /\ req'[s].tok = req[s].tok /\ req'[s].fresh = req[s].fresh
        /\ req'[s].status = "ok" /\ req'[s].horizon = req[s].horizon
    BY <1>2, <1>17, <2>1 DEF RevokeOne, Answer, Become, RequestType
  <2>5. UNCHANGED <<last, owner, replacedBy, root>>
    BY <1>17 DEF RevokeOne, history
  <2> QED BY <1>2, <2>1, <2>3, <2>4, <2>5 DEF FactsOf
<1>18. ASSUME Reply(s) \/ Fail(s) PROVE FactsOf(req[s])'
  <2>1. req'[s] = NoRequest /\ last' = last
    BY <1>2, <1>18 DEF Reply, Fail, Become
  <2> QED BY <1>3, <2>1 DEF FactsOf, NoRequest, NoToken
<1>19. ASSUME NEW r \in Requests \ {s}, NEW h, Become(r, h) PROVE req'[s] = req[s]
  BY <1>2, <1>19 DEF Become
<1>20. ASSUME NEW r \in Requests \ {s}, Begin(r) \/ ServerStep(r) \/ Fail(r) PROVE req'[s] = req[s]
  BY <1>19, <1>20
  DEF Begin, BeginLogin, BeginLogoutAll, BeginLogout, BeginRefresh, Arrive, ServerStep,
      CheckCredentials, IssueSession, RotateInvalid, RotateReused, RotateValid,
      IssueSuccessor, Link, LoadUserActive, LoadUserInactive, Purge, LoadActor,
      LogoutNothing, LogoutFound, LogoutLookupFails, RevokeOne, Reply, Fail, Goto, Answer
<1>21. ASSUME Environment \/ UNCHANGED vars PROVE req'[s] = req[s]
  BY <1>21 DEF Environment, Expire, SetActive, vars
<1>22. ASSUME ServerStep(s) PROVE FactsOf(req[s])'
  BY <1>6, <1>7, <1>11, <1>12, <1>13, <1>14, <1>15, <1>16, <1>17, <1>18, <1>22 DEF ServerStep
<1> QED
  BY <1>4, <1>5, <1>18, <1>20, <1>21, <1>22 DEF Next

(* Links are made between rows of one login, older to newer.               *)
LEMMA LineageStep == IInv /\ [Next]_vars => Lineage'
<1> SUFFICES ASSUME IInv, [Next]_vars, NEW t \in Tokens, replacedBy'[t] # NoToken
             PROVE  /\ revoked'[t]
                    /\ t < replacedBy'[t] /\ replacedBy'[t] <= last'
                    /\ owner'[replacedBy'[t]] = owner'[t]
                    /\ root'[replacedBy'[t]] = root'[t]
  BY DEF Lineage
<1>1. TypeOK /\ TypeOK' /\ Grows /\ Lineage /\ Facts
  BY TypeStep, StepGrows DEF IInv
<1>2. /\ last \in Nat /\ last' \in Nat /\ last <= last' /\ t \in Nat /\ 1 <= t
      /\ replacedBy[t] \in Nat
  BY <1>1, MaxTokensAssumption DEF TypeOK, Grows, Tokens
<1>3. CASE replacedBy'[t] = replacedBy[t]
  <2>1. /\ revoked[t] /\ t < replacedBy[t] /\ replacedBy[t] <= last
        /\ owner[replacedBy[t]] = owner[t] /\ root[replacedBy[t]] = root[t]
    BY <1>1, <1>3 DEF Lineage
  <2>2. t \in 1..last /\ replacedBy[t] \in 1..last
    BY <1>2, <2>1
  <2> QED BY <1>1, <1>2, <1>3, <2>1, <2>2 DEF Grows
<1>4. ASSUME NEW r \in Requests, Link(r), replacedBy'[t] # replacedBy[t]
      PROVE  t = req[r].tok /\ replacedBy'[t] = req[r].fresh
  <2>1. replacedBy \in [Tokens -> 0..MaxTokens]
    BY <1>1 DEF TypeOK
  <2> QED BY <1>4, <2>1 DEF Link
<1>5. ASSUME NEW r \in Requests, Link(r), t = req[r].tok, replacedBy'[t] = req[r].fresh
      PROVE  /\ revoked'[t]
             /\ t < replacedBy'[t] /\ replacedBy'[t] <= last'
             /\ owner'[replacedBy'[t]] = owner'[t]
             /\ root'[replacedBy'[t]] = root'[t]
  <2>1. FactsOf(req[r]) /\ req[r].op = "refresh" /\ req[r].fresh # NoToken
    BY <1>1, <1>5 DEF IInv, Facts, FactsOf, Control, ControlOf, Link, At
  <2>2. UNCHANGED <<last, owner, root>> /\ revoked'[t]
    BY <1>1, <1>5 DEF Link, TypeOK, history
  <2> QED BY <1>5, <2>1, <2>2 DEF FactsOf
<1>6. (\E r \in Requests : Link(r)) \/ replacedBy' = replacedBy
  BY DEF Next, Environment, ServerStep, vars, columns, Begin, BeginLogin, BeginLogoutAll,
      BeginLogout, BeginRefresh, Arrive, CheckCredentials, IssueSession, CreateRow,
      RotateInvalid, RotateReused, RotateValid, IssueSuccessor, LoadUserActive,
      LoadUserInactive, Purge, LoadActor, LogoutNothing, LogoutFound, LogoutLookupFails,
      RevokeOne, Reply, Fail, Expire, SetActive
<1> QED BY <1>3, <1>4, <1>5, <1>6

(* A token in the hands of a client names a row of the table: statements    *)
(* only insert rows, and a token is delivered after its insert.             *)
LEMMA DeliveredStep == IInv /\ [Next]_vars => DeliveredRowsExist'
<1> SUFFICES ASSUME IInv, [Next]_vars, NEW t \in delivered' PROVE t <= last'
  BY DEF DeliveredRowsExist
<1>1. TypeOK /\ Grows /\ DeliveredRowsExist /\ last \in Nat /\ last' \in Nat /\ last <= last'
  BY TypeStep, StepGrows DEF IInv, TypeOK, Grows
<1>2. CASE t \in delivered
  BY <1>1, <1>2, MaxTokensAssumption DEF DeliveredRowsExist, TypeOK, Tokens
<1>3. ASSUME NEW r \in Requests, Reply(r), t \notin delivered PROVE t <= last'
  <2>1. t = req[r].fresh /\ t \in Tokens /\ last' = last
    BY <1>3 DEF Reply
  <2>2. FactsOf(req[r])
    BY DEF IInv, Facts
  <2> QED BY <2>1, <2>2, MaxTokensAssumption DEF FactsOf, Tokens, NoToken
<1>4. (\E r \in Requests : Reply(r)) \/ delivered' = delivered
  BY DEF Next, Environment, ServerStep, vars, Begin, BeginLogin, BeginLogoutAll,
      BeginLogout, BeginRefresh, Arrive, CheckCredentials, IssueSession, CreateRow,
      RotateInvalid, RotateReused, RotateValid, IssueSuccessor, Link, LoadUserActive,
      LoadUserInactive, Purge, LoadActor, LogoutNothing, LogoutFound, LogoutLookupFails,
      RevokeOne, Fail, Expire, SetActive
<1> QED BY <1>2, <1>3, <1>4

(* The inductive invariant.                                                *)
LEMMA Inductive == Spec => []IInv
<1>1. Init => IInv
  <2> SUFFICES ASSUME Init PROVE IInv
    OBVIOUS
  <2>1. TypeOK /\ Control
    BY InitTypes
  <2>2. Facts
    BY MaxTokensAssumption DEF Init, Facts, FactsOf, NoRequest, NoToken
  <2>3. Lineage /\ DeliveredRowsExist
    BY DEF Init, Lineage, DeliveredRowsExist
  <2> QED BY <2>1, <2>2, <2>3 DEF IInv
<1>2. IInv /\ [Next]_vars => IInv'
  BY TypeStep, ControlStep, FactsStep, LineageStep, DeliveredStep DEF IInv
<1> QED BY <1>1, <1>2, PTL DEF Spec

(* Successor links form chains within one user and one login, older row to *)
(* newer row, for any number of overlapping refreshes, logouts and crashes. *)
THEOREM LineageCorrect == Spec => []Lineage
<1>1. IInv => Lineage
  BY DEF IInv
<1> QED BY <1>1, Inductive, PTL

(* Whoever is told "already used", "no longer active" or is answered a     *)
(* logout-all finds every row the user had at the decision revoked.        *)
THEOREM PurgeCorrect == Spec => []PurgeIsComplete
<1>1. IInv => PurgeIsComplete
  BY DEF IInv, Facts, FactsOf, PurgeIsComplete, AnsweredPurge, At
<1> QED BY <1>1, Inductive, PTL

(* A successful refresh has retired the token it was given.                *)
THEOREM RotationCorrect == Spec => []RotationRetires
<1>1. IInv => RotationRetires
  <2> SUFFICES ASSUME IInv, NEW r \in Requests,
                      req[r].op = "refresh", At(r, "reply"), req[r].status = "ok"
               PROVE  /\ revoked[req[r].tok]
                      /\ replacedBy[req[r].tok] # NoToken
                      /\ req[r].fresh \in (1..last) \ {req[r].tok}
                      /\ owner[req[r].fresh] = owner[req[r].tok]
                      /\ root[req[r].fresh] = root[req[r].tok]
    BY DEF RotationRetires
  <2>1. FactsOf(req[r]) /\ req[r] \in RequestType /\ last \in Nat
    BY DEF IInv, Facts, TypeOK
  <2> QED BY <2>1 DEF FactsOf, RequestType, At, NoToken
<1> QED BY <1>1, Inductive, PTL

(* An answered logout has revoked the session presented to it.             *)
THEOREM LogoutCorrect == Spec => []LogoutRevokes
<1>1. IInv => LogoutRevokes
  BY DEF IInv, Facts, FactsOf, LogoutRevokes, At
<1> QED BY <1>1, Inductive, PTL

(* No step revives a revoked or expired row, moves a row to another user,  *)
(* or clears a successor link.                                             *)
THEOREM AgingCorrect == Spec => RowsOnlyAge
<1>1. IInv /\ [Next]_vars => [Ages]_vars
  BY StepGrows DEF Grows, Ages
<1> QED BY <1>1, Inductive, PTL DEF Spec, RowsOnlyAge

-----------------------------------------------------------------------------
(* A row is in one pair of hands; users are isolated.                      *)

(* Where the row of a handler comes from: it had it, or it has just        *)
(* inserted it.                                                            *)
LEMMA FreshStep ==
  ASSUME IInv, [Next]_vars, NEW r \in Requests, req'[r].fresh # NoToken
  PROVE  \/ req'[r].fresh = req[r].fresh
         \/ req'[r].fresh = last + 1 /\ delivered' = delivered /\ \A s \in Requests \ {r} : req'[s] = req[s]
<1>1. req \in [Requests -> RequestType] /\ req[r] \in RequestType
  BY DEF IInv, TypeOK
<1>2. ASSUME NEW s \in Requests \ {r}, NEW h, Become(s, h) PROVE req'[r] = req[r]
  BY <1>1, <1>2 DEF Become
<1>3. ASSUME IssueSession(r) \/ IssueSuccessor(r)
      PROVE  req'[r].fresh = last + 1 /\ delivered' = delivered /\ \A s \in Requests \ {r} : req'[s] = req[s]
  <2>1. CreateRow(r, last + 1) \/ CreateRow(r, root[req[r].tok])
    BY <1>3 DEF IssueSession, IssueSuccessor
  <2>2. PICK h : Become(r, h) /\ h.fresh = last + 1
    <3>1. CASE IssueSession(r)
      <4>1. Become(r, [req[r] EXCEPT !.pc = "reply", !.status = "ok", !.fresh = last + 1])
        BY <3>1 DEF IssueSession
      <4>2. [req[r] EXCEPT !.pc = "reply", !.status = "ok", !.fresh = last + 1].fresh = last + 1
        BY <1>1 DEF RequestType
      <4> QED BY <4>1, <4>2
    <3>2. CASE IssueSuccessor(r)
      <4>1. Become(r, [req[r] EXCEPT !.pc = "link", !.fresh = last + 1])
        BY <3>2 DEF IssueSuccessor
      <4>2. [req[r] EXCEPT !.pc = "link", !.fresh = last + 1].fresh = last + 1
        BY <1>1 DEF RequestType
      <4> QED BY <4>1, <4>2
    <3> QED BY <1>3, <3>1, <3>2
  <2> QED BY <1>1, <2>1, <2>2 DEF CreateRow, Become
<1>4. ASSUME Begin(r) \/ Reply(r) \/ Fail(r) PROVE req'[r].fresh = NoToken
  <2>1. CASE Reply(r) \/ Fail(r)
    BY <1>1, <2>1 DEF Reply, Fail, Become, NoRequest
  <2>2. CASE Begin(r)
    <3>1. PICK op, pc, u, t, g : Arrive(r, op, pc, u, t, g)
      BY <2>2 DEF Begin, BeginLogin, BeginLogoutAll, BeginLogout, BeginRefresh
    <3> QED BY <1>1, <3>1 DEF Arrive, Become, NoRequest
  <2> QED BY <1>4, <2>1, <2>2
<1>5. ASSUME NEW p, Goto(r, p) PROVE req'[r].fresh = req[r].fresh
  BY <1>1, <1>5 DEF Goto, Become, RequestType
<1>6. ASSUME NEW st, Answer(r, st) PROVE req'[r].fresh = req[r].fresh
  BY <1>1, <1>6 DEF Answer, Become, RequestType
<1>7. ASSUME NEW st, Become(r, [req[r] EXCEPT !.pc = "purge", !.status = st, !.horizon = last])
      PROVE  req'[r].fresh = req[r].fresh
  BY <1>1, <1>7 DEF Become, RequestType
<1>8. ASSUME ServerStep(r), ~IssueSession(r), ~IssueSuccessor(r), ~Reply(r)
      PROVE req'[r].fresh = req[r].fresh
  BY <1>5, <1>6, <1>7, <1>8
  DEF ServerStep, CheckCredentials, RotateInvalid, RotateReused, RotateValid, Link,
      LoadUserActive, LoadUserInactive, Purge, LoadActor, LogoutNothing, LogoutFound,
      LogoutLookupFails, RevokeOne
<1>9. ASSUME NEW s \in Requests \ {r}, Begin(s) \/ ServerStep(s) \/ Fail(s)
      PROVE req'[r] = req[r]
  BY <1>2, <1>9
  DEF ServerStep, Begin, BeginLogin, BeginLogoutAll,
      BeginLogout, BeginRefresh, Arrive, CheckCredentials, IssueSession,
      RotateInvalid, RotateReused, RotateValid, IssueSuccessor, Link, LoadUserActive,
      LoadUserInactive, Purge, LoadActor, LogoutNothing, LogoutFound, LogoutLookupFails,
      RevokeOne, Reply, Fail, Goto, Answer
<1>10. ASSUME Environment \/ UNCHANGED vars PROVE req'[r] = req[r]
  BY <1>10 DEF Environment, Expire, SetActive, vars
<1> QED BY <1>3, <1>4, <1>8, <1>9, <1>10 DEF Next, ServerStep

(* Delivery empties the handler that delivers.                             *)
LEMMA DeliveryStep ==
  ASSUME IInv, [Next]_vars, NEW t \in delivered', t \notin delivered
  PROVE  \E q \in Requests : /\ t = req[q].fresh /\ t # NoToken
                            /\ req'[q].fresh = NoToken
                            /\ \A s \in Requests \ {q} : req'[s] = req[s]
<1>1. (\E q \in Requests : Reply(q)) \/ delivered' = delivered
  BY DEF Next, Environment, ServerStep, vars, Begin, BeginLogin, BeginLogoutAll,
      BeginLogout, BeginRefresh, Arrive, CheckCredentials, IssueSession, CreateRow,
      RotateInvalid, RotateReused, RotateValid, IssueSuccessor, Link, LoadUserActive,
      LoadUserInactive, Purge, LoadActor, LogoutNothing, LogoutFound, LogoutLookupFails,
      RevokeOne, Fail, Expire, SetActive
<1>2. PICK q \in Requests : Reply(q)
  BY <1>1
<1>3. t = req[q].fresh /\ t \in Tokens
  BY <1>2 DEF Reply
<1>4. req'[q].fresh = NoToken /\ \A s \in Requests \ {q} : req'[s] = req[s]
  BY <1>2 DEF Reply, Become, NoRequest, IInv, TypeOK
<1> QED BY <1>3, <1>4, MaxTokensAssumption DEF Tokens, NoToken

(* No step gives a row to a second holder: an insert takes an unused id and *)
(* a delivery empties the request that delivers.                           *)
LEMMA HolderStep == IInv /\ OneHolder /\ [Next]_vars => OneHolder'
<1> SUFFICES ASSUME IInv, OneHolder, [Next]_vars, NEW r \in Requests, req'[r].fresh # NoToken
             PROVE  /\ req'[r].fresh \notin delivered'
                    /\ \A s \in Requests \ {r} : req'[s].fresh # req'[r].fresh
  BY DEF OneHolder
<1>1. \A s \in Requests : req[s].fresh \in Nat /\ (req[s].fresh # NoToken => req[s].fresh <= last)
  BY DEF IInv, TypeOK, Facts, FactsOf, RequestType
<1>2. last \in Nat /\ \A t \in delivered : t \in Nat /\ t <= last
  BY MaxTokensAssumption DEF IInv, TypeOK, DeliveredRowsExist, Tokens
<1>3. CASE /\ req'[r].fresh = last + 1 /\ delivered' = delivered
           /\ \A s \in Requests \ {r} : req'[s] = req[s]
  BY <1>1, <1>2, <1>3 DEF NoToken
<1>4. CASE req'[r].fresh = req[r].fresh
  <2>1. req[r].fresh \notin delivered /\ \A s \in Requests \ {r} : req[s].fresh # req[r].fresh
    BY <1>4 DEF OneHolder
  <2>2. req'[r].fresh \notin delivered'
    <3>1. SUFFICES ASSUME req[r].fresh \in delivered' PROVE FALSE
      BY <1>4
    <3>2. PICK q \in Requests : req[r].fresh = req[q].fresh /\ req'[q].fresh = NoToken
      BY <2>1, <3>1, DeliveryStep
    <3>3. q = r
      BY <2>1, <3>2
    <3> QED BY <3>2, <3>3
  <2>3. ASSUME NEW s \in Requests \ {r} PROVE req'[s].fresh # req'[r].fresh
    <3>1. CASE req'[s].fresh = NoToken
      BY <3>1
    <3>2. CASE req'[s].fresh # NoToken
      <4>1. req'[s].fresh = req[s].fresh \/ req'[s].fresh = last + 1
        BY <3>2, FreshStep
      <4> QED BY <1>1, <1>2, <1>4, <2>1, <4>1 DEF NoToken
    <3> QED BY <3>1, <3>2
  <2> QED BY <2>2, <2>3
<1> QED BY <1>3, <1>4, FreshStep

(* No row is ever in the hands of two requests, or of a request and of a   *)
(* client: whatever interleaves, each insert is delivered at most once.    *)
THEOREM HolderCorrect == Spec => []OneHolder
<1>1. Init => OneHolder
  BY DEF Init, OneHolder, NoRequest
<1> QED BY <1>1, HolderStep, Inductive, PTL DEF Spec

(* Revocation stays within the account of the request that performs it.    *)
THEOREM IsolationCorrect == Spec => Isolation
<1>1. IInv /\ [Next]_vars => [RevokesOwn]_vars
  <2> SUFFICES ASSUME IInv, [Next]_vars, NEW t \in Tokens, revoked'[t] # revoked[t]
               PROVE  \E r \in Requests : req'[r] # req[r] /\ req[r].user = owner[t]
    BY DEF RevokesOwn
  <2>1. (\E r \in Requests : Link(r) \/ Purge(r) \/ RevokeOne(r)) \/ revoked' = revoked
    BY DEF Next, Environment, ServerStep, vars, columns, Begin, BeginLogin, BeginLogoutAll,
        BeginLogout, BeginRefresh, Arrive, CheckCredentials, IssueSession, CreateRow,
        RotateInvalid, RotateReused, RotateValid, IssueSuccessor, LoadUserActive,
        LoadUserInactive, LoadActor, LogoutNothing, LogoutFound, LogoutLookupFails,
        Reply, Fail, Expire, SetActive
  <2>2. PICK r \in Requests : Link(r) \/ Purge(r) \/ RevokeOne(r)
    BY <2>1
  <2>3. req \in [Requests -> RequestType] /\ req[r] \in RequestType /\ FactsOf(req[r])
        /\ ControlOf(req[r]) /\ revoked \in [Tokens -> BOOLEAN]
    BY DEF IInv, TypeOK, Facts, Control
  <2>4. req'[r] # req[r]
    <3>1. CASE Link(r)
      BY <2>3, <3>1 DEF Link, At, Goto, Become, RequestType
    <3>2. CASE Purge(r)
      BY <2>3, <3>2 DEF Purge, At, Goto, Become, RequestType
    <3>3. CASE RevokeOne(r)
      BY <2>3, <3>3 DEF RevokeOne, At, Answer, Become, RequestType
    <3> QED BY <2>2, <3>1, <3>2, <3>3
  <2>5. req[r].user = owner[t]
    <3>1. CASE Link(r) \/ RevokeOne(r)
      <4>1. t = req[r].tok
        BY <2>3, <3>1 DEF Link, RevokeOne
      <4>2. req[r].tok # NoToken
        BY <2>3, <3>1 DEF Link, RevokeOne, At, ControlOf
      <4> QED BY <2>3, <4>1, <4>2 DEF FactsOf
    <3>2. CASE Purge(r)
      BY <2>3, <3>2 DEF Purge
    <3> QED BY <2>2, <3>1, <3>2
  <2> QED BY <2>4, <2>5
<1> QED BY <1>1, Inductive, PTL DEF Spec, Isolation

-----------------------------------------------------------------------------
(* Inactive accounts.                                                      *)

(* A request in shut is about an account that is inactive now, and has not *)
(* passed the re-reading of the account.                                   *)
Passed(h) ==
  \/ h.op = "login" /\ h.pc = "issue"
  \/ h.pc \in {"purge", "reply"} /\ h.status = "ok" /\ h.op # "logout"

ShutInv ==
  \A r \in shut : /\ req[r].user \in Users /\ ~active[req[r].user]
                  /\ ~Passed(req[r])

(* While its account stays inactive a request never passes the re-check of  *)
(* the account that its handler makes.                                      *)
LEMMA ShutStep == IInv /\ ShutInv /\ [Next]_vars => ShutInv'
<1> SUFFICES ASSUME IInv, ShutInv, [Next]_vars, NEW r \in shut'
             PROVE  /\ req'[r].user \in Users /\ ~active'[req'[r].user]
                    /\ ~Passed(req'[r])
  BY DEF ShutInv, Passed
<1>1. /\ req \in [Requests -> RequestType] /\ shut \subseteq Requests
      /\ active \in [Users -> BOOLEAN]
  BY DEF IInv, TypeOK
<1>2. ASSUME r \in shut
      PROVE  /\ req[r].user \in Users /\ ~active[req[r].user] /\ ~Passed(req[r])
             /\ r \in Requests /\ req[r] \in RequestType /\ ControlOf(req[r])
  BY <1>1, <1>2 DEF ShutInv, IInv, Control
<1>3. ASSUME NEW q \in Requests, Begin(q) PROVE /\ req'[r].user \in Users /\ ~active'[req'[r].user]
                                               /\ ~Passed(req'[r])
  <2>1. PICK op, pc, u, t, g : Arrive(q, op, pc, u, t, g) /\ pc \in {"credentials", "actor", "lookup", "find"}
    BY <1>3 DEF Begin, BeginLogin, BeginLogoutAll, BeginLogout, BeginRefresh
  <2>2. active' = active
    BY <2>1 DEF Arrive
  <2>3. CASE r = q
    <3>1. req'[r].user = u /\ req'[r].pc = pc
      BY <1>1, <2>1, <2>3 DEF Arrive, Become, NoRequest
    <3>2. r \notin shut
      <4>1. SUFFICES ASSUME r \in shut PROVE FALSE
        OBVIOUS
      <4>2. req[r].user = NoUser
        BY <1>2, <4>1, <2>3, <2>1 DEF Arrive, At, ControlOf
      <4> QED BY <1>2, <4>1, <4>2, NoUserAssumption
    <3>3. u \in Users /\ ~active[u]
      BY <2>1, <2>3, <3>2 DEF Arrive
    <3> QED BY <2>1, <2>2, <3>1, <3>3 DEF Passed
  <2>4. CASE r # q
    <3>1. r \in shut /\ req'[r] = req[r]
      BY <1>1, <2>1, <2>4 DEF Arrive, Become
    <3> QED BY <1>2, <2>2, <3>1
  <2> QED BY <2>3, <2>4
<1>4. ASSUME ServerStep(r), ~Reply(r), r \in shut PROVE req'[r].user = req[r].user /\ ~Passed(req'[r])
  <2>1. CASE CheckCredentials(r)
    <3>1. Answer(r, "rejected")
      BY <1>2, <1>4, <2>1 DEF CheckCredentials
    <3> QED BY <1>1, <1>2, <1>4, <3>1 DEF Answer, Become, Passed, RequestType
  <2>2. CASE RotateInvalid(r)
    BY <1>1, <1>2, <1>4, <2>2
    DEF RotateInvalid, At, Answer, Become, ControlOf, Passed, RequestType
  <2>3. CASE RotateReused(r)
    BY <1>1, <1>2, <1>4, <2>3 DEF RotateReused, At, Become, ControlOf, Passed, RequestType
  <2>4. CASE RotateValid(r)
    BY <1>1, <1>2, <1>4, <2>4 DEF RotateValid, At, Goto, Become, ControlOf, Passed, RequestType
  <2>5. CASE IssueSuccessor(r)
    BY <1>1, <1>2, <1>4, <2>5
    DEF IssueSuccessor, CreateRow, At, Become, ControlOf, Passed, RequestType
  <2>6. CASE Link(r)
    BY <1>1, <1>2, <1>4, <2>6 DEF Link, At, Goto, Become, ControlOf, Passed, RequestType
  <2>7. CASE LoadUserInactive(r)
    BY <1>1, <1>2, <1>4, <2>7 DEF LoadUserInactive, At, Become, ControlOf, Passed, RequestType
  <2>8. CASE Purge(r)
    BY <1>1, <1>2, <1>4, <2>8 DEF Purge, At, Goto, Become, ControlOf, Passed, RequestType
  <2>9. CASE LogoutNothing(r)
    BY <1>1, <1>2, <1>4, <2>9
    DEF LogoutNothing, At, Answer, Become, ControlOf, Passed, RequestType
  <2>10. CASE LogoutFound(r)
    BY <1>1, <1>2, <1>4, <2>10 DEF LogoutFound, At, Goto, Become, ControlOf, Passed, RequestType
  <2>11. CASE LogoutLookupFails(r)
    BY <1>1, <1>2, <1>4, <2>11
    DEF LogoutLookupFails, At, Answer, Become, ControlOf, Passed, RequestType
  <2>12. CASE RevokeOne(r)
    BY <1>1, <1>2, <1>4, <2>12 DEF RevokeOne, At, Answer, Become, ControlOf, Passed, RequestType
  <2>13. CASE LoadActor(r)
    <3>1. Answer(r, "rejected")
      BY <1>2, <1>4, <2>13 DEF LoadActor
    <3> QED BY <1>1, <1>2, <1>4, <3>1 DEF Answer, Become, Passed, RequestType
  <2>14. ~IssueSession(r)
    BY <1>2, <1>4 DEF IssueSession, CreateRow, At, Passed
  <2>15. ~LoadUserActive(r)
    BY <1>2, <1>4 DEF LoadUserActive
  <2> QED BY <1>4, <2>1, <2>2, <2>3, <2>4, <2>5, <2>6, <2>7, <2>8, <2>9, <2>10, <2>11,
             <2>12, <2>13, <2>14, <2>15
      DEF ServerStep
<1>5. ASSUME NEW q \in Requests, ServerStep(q) \/ Fail(q)
      PROVE  r \in shut /\ active' = active /\ (Reply(q) \/ Fail(q) => r # q)
  BY <1>5
  DEF ServerStep, CheckCredentials, IssueSession, CreateRow, RotateInvalid, RotateReused,
      RotateValid, IssueSuccessor, Link, LoadUserActive, LoadUserInactive, Purge, LoadActor,
      LogoutNothing, LogoutFound, LogoutLookupFails, RevokeOne, Reply, Fail, history
<1>6. ASSUME NEW q \in Requests, ServerStep(q) \/ Fail(q), r # q PROVE req'[r] = req[r]
  <2>1. ASSUME NEW h, Become(q, h) PROVE req'[r] = req[r]
    BY <1>1, <1>2, <1>5, <1>6, <2>1 DEF Become
  <2> QED BY <1>6, <2>1
    DEF ServerStep, CheckCredentials, IssueSession, RotateInvalid, RotateReused, RotateValid,
        IssueSuccessor, Link, LoadUserActive, LoadUserInactive, Purge, LoadActor,
        LogoutNothing, LogoutFound, LogoutLookupFails, RevokeOne, Reply, Fail, Goto, Answer
<1>7. ASSUME NEW q \in Requests, ServerStep(q) \/ Fail(q)
      PROVE  /\ req'[r].user \in Users /\ ~active'[req'[r].user]
             /\ ~Passed(req'[r])
  <2>1. CASE r # q
    BY <1>2, <1>5, <1>6, <1>7, <2>1
  <2>2. CASE r = q
    BY <1>2, <1>4, <1>5, <1>7, <2>2
  <2> QED BY <2>1, <2>2
<1>8. ASSUME NEW t \in Tokens, Expire(t)
      PROVE  /\ req'[r].user \in Users /\ ~active'[req'[r].user]
             /\ ~Passed(req'[r])
  BY <1>2, <1>8 DEF Expire, history
<1>9. ASSUME NEW u \in Users, NEW b \in BOOLEAN, SetActive(u, b)
      PROVE  /\ req'[r].user \in Users /\ ~active'[req'[r].user]
             /\ ~Passed(req'[r])
  <2>1. r \in shut /\ req' = req /\ (b => req[r].user # u)
    BY <1>9 DEF SetActive
  <2> QED BY <1>1, <1>2, <1>9, <2>1 DEF SetActive
<1>10. ASSUME UNCHANGED vars
       PROVE  /\ req'[r].user \in Users /\ ~active'[req'[r].user]
              /\ ~Passed(req'[r])
  BY <1>2, <1>10 DEF vars, history
<1> QED BY <1>3, <1>7, <1>8, <1>9, <1>10 DEF Next, Environment

(* An account that is inactive from a request's arrival to its answer gets *)
(* no session from it, whatever else runs meanwhile.                       *)
THEOREM InactiveCorrect == Spec => []InactiveNeverServed
<1>1. Init => ShutInv
  BY DEF Init, ShutInv
<1>2. IInv /\ ShutInv => InactiveNeverServed
  BY DEF ShutInv, Passed, InactiveNeverServed, At
<1> QED BY <1>1, <1>2, ShutStep, Inductive, PTL DEF Spec

-----------------------------------------------------------------------------
(* One request at a time: the table implements LoginSession.               *)

(* No two requests are in flight at once.                                  *)
Serial == \A q, r \in Requests : ~At(q, "idle") /\ ~At(r, "idle") => q = r

(* What the table looks like then.  A row has a user and descends from a   *)
(* login no younger than itself, which descends from itself; the rows to   *)
(* come are blank; and a login has one live row among the spent ones.      *)
Rows ==
  /\ \A t \in 1..last : owner[t] \in Users /\ root[t] \in 1..t /\ root[root[t]] = root[t]
  /\ \A t \in Tokens : t > last => ~revoked[t] /\ owner[t] = NoUser

OneLive ==
  \A t, s \in SpentTokens : root[t] = root[s] /\ ~revoked[t] /\ ~revoked[s] => t = s

(* A handler that is answering a completed revocation of all the rows.     *)
Told(h) ==
  /\ h.pc = "reply"
  /\ h.status \in {"reused", "inactive"} \/ (h.op = "logoutAll" /\ h.status = "ok")

(* What a handler knows that is alone: nobody has revoked the row it found  *)
(* live, its successor stays out of sight until it is linked, and no row is *)
(* younger than its decision to revoke them all.                           *)
AloneOf(h) ==
  /\ h.tok # NoToken => h.tok \in SpentTokens
  /\ h.fresh # NoToken /\ h.pc # "link" => h.fresh \in SpentTokens
  /\ h.pc \in {"issue", "link"} /\ h.op = "refresh" => ~revoked[h.tok]
  /\ h.pc = "link" => h.fresh \notin SpentTokens /\ ~revoked[h.fresh]
  /\ h.pc = "purge" \/ Told(h) => h.horizon = last

Alone == \A r \in Requests : AloneOf(req[r])

SerialInv == Rows /\ OneLive /\ delivered \subseteq SpentTokens /\ Alone

-----------------------------------------------------------------------------
(* The ways in which a step touches the table.                             *)

Rests == UNCHANGED <<last, owner, revoked, replacedBy, root>>

(* Rows of the table are revoked, and nothing else.                        *)
Revokes ==
  /\ UNCHANGED <<last, owner, replacedBy, root>>
  /\ \A t \in Tokens : /\ revoked[t] => revoked'[t]
                       /\ t > last => revoked'[t] = revoked[t]

(* Row last + 1 is inserted, for a login (f its own) or a rotation.        *)
Inserts(u, f) ==
  /\ last + 1 \in Tokens /\ last' = last + 1
  /\ UNCHANGED <<revoked, replacedBy>>
  /\ owner' = [owner EXCEPT ![last + 1] = u]
  /\ root' = [root EXCEPT ![last + 1] = f]

(* Row t is retired in favour of row s.                                    *)
Links(t, s) ==
  /\ UNCHANGED <<last, owner, root>>
  /\ revoked' = [revoked EXCEPT ![t] = TRUE]
  /\ replacedBy' = [replacedBy EXCEPT ![t] = s]

(* The types those proofs need.                                            *)
LEMMA TableTypes ==
  ASSUME TypeOK
  PROVE  /\ last \in Nat /\ 1..last \subseteq Tokens /\ Tokens \subseteq Nat \ {0}
         /\ owner \in [Tokens -> Users \cup {NoUser}]
         /\ revoked \in [Tokens -> BOOLEAN]
         /\ replacedBy \in [Tokens -> Nat]
         /\ root \in [Tokens -> Nat]
         /\ SpentTokens \subseteq 1..last
<1>1. last \in Nat /\ last <= MaxTokens /\ MaxTokens \in Nat
  BY MaxTokensAssumption DEF TypeOK
<1>2. 0..MaxTokens \subseteq Nat
  OBVIOUS
<1> QED BY <1>1, <1>2 DEF TypeOK, Tokens, SpentTokens

(* A spent row and its login are rows of the table.                        *)
LEMMA SpentRow ==
  ASSUME TypeOK, Rows, NEW t \in SpentTokens
  PROVE  /\ t \in 1..last /\ t \in Tokens
         /\ root[t] \in 1..last /\ root[root[t]] = root[t] /\ root[t] <= t
         /\ owner[t] \in Users
<1>1. t \in 1..last /\ last \in Nat /\ t \in Tokens
  BY TableTypes
<1>2. root[t] \in 1..t /\ root[root[t]] = root[t] /\ owner[t] \in Users
  BY <1>1 DEF Rows
<1> QED BY <1>1, <1>2

(* Revoking leaves the same rows spent.                                    *)
LEMMA RevokesTable ==
  ASSUME TypeOK, TypeOK', Rows, OneLive, Revokes
  PROVE  Rows' /\ OneLive' /\ SpentTokens' = SpentTokens
<1>1. SpentTokens' = SpentTokens
  BY DEF Revokes, SpentTokens
<1>2. Rows'
  BY TableTypes DEF Revokes, Rows
<1>3. \A t \in SpentTokens : ~revoked'[t] => ~revoked[t]
  BY TableTypes DEF Revokes
<1>4. OneLive'
  BY <1>1, <1>3 DEF OneLive, Revokes
<1> QED BY <1>1, <1>2, <1>4

(* An insert spends the row of a login and hides that of a rotation.       *)
LEMMA InsertsTable ==
  ASSUME TypeOK, TypeOK', Rows, OneLive, Lineage, NEW u \in Users, NEW f \in 1..(last + 1),
         f = last + 1 \/ (f <= last /\ root[f] = f), Inserts(u, f)
  PROVE  /\ Rows' /\ OneLive'
         /\ SpentTokens' = IF f = last + 1 THEN SpentTokens \cup {f} ELSE SpentTokens
         /\ \A t \in Tokens : t <= last => root'[t] = root[t]
         /\ root'[last + 1] = f /\ last + 1 \notin SpentTokens /\ ~revoked[last + 1]
<1>1. /\ last \in Nat /\ last + 1 \in Tokens /\ last' = last + 1
      /\ revoked' = revoked /\ replacedBy' = replacedBy
      /\ 1..last \subseteq Tokens /\ Tokens \subseteq Nat \ {0}
      /\ 1..(last + 1) \subseteq Tokens
  BY TableTypes DEF Inserts, Tokens
<1>2. /\ \A t \in Tokens : t # last + 1 => root'[t] = root[t] /\ owner'[t] = owner[t]
      /\ root'[last + 1] = f /\ owner'[last + 1] = u
  BY TableTypes DEF Inserts
<1>3. \A p \in Tokens : replacedBy[p] # last + 1
  BY <1>1, TableTypes DEF Lineage, NoToken
<1>4. last + 1 \notin SpentTokens /\ SpentTokens \subseteq 1..last /\ ~revoked[last + 1]
  BY <1>1, TableTypes DEF Rows
<1>5. \A t : t \in 1..last' <=> t \in 1..last \/ t = last + 1
  BY <1>1
<1>6. \A t : t \in SpentTokens' <=> t \in SpentTokens \/ (t = last + 1 /\ f = last + 1)
  <2>1. ASSUME NEW t \in 1..last PROVE t \in SpentTokens' <=> t \in SpentTokens
    <3>1. t \in Tokens /\ t # last + 1 /\ t \in 1..last'
      BY <1>1, <1>5
    <3> QED BY <1>1, <1>2, <3>1 DEF SpentTokens
  <2>2. last + 1 \in SpentTokens' <=> f = last + 1
    BY <1>1, <1>2, <1>3, <1>5 DEF SpentTokens
  <2>3. \A t : t \in SpentTokens' => t \in 1..last'
    BY DEF SpentTokens
  <2> QED BY <1>4, <1>5, <2>1, <2>2, <2>3
<1>7. Rows'
  <2>1. ASSUME NEW t \in 1..last
        PROVE  owner'[t] \in Users /\ root'[t] \in 1..t /\ root'[root'[t]] = root'[t]
    <3>1. /\ t \in Tokens /\ t # last + 1 /\ owner[t] \in Users /\ root[t] \in 1..t
          /\ root[root[t]] = root[t]
      BY <1>1 DEF Rows
    <3>2. root[t] \in Tokens /\ root[t] # last + 1
      BY <1>1, <3>1
    <3> QED BY <1>2, <3>1, <3>2
  <2>2. owner'[last + 1] \in Users /\ f \in 1..(last + 1) /\ root'[f] = f
    BY <1>1, <1>2
  <2>3. \A t \in Tokens : t > last + 1 => ~revoked[t] /\ owner'[t] = NoUser
    BY <1>1, <1>2 DEF Rows
  <2> QED BY <1>1, <1>2, <1>5, <2>1, <2>2, <2>3 DEF Rows
<1>8. OneLive'
  <2> SUFFICES ASSUME NEW t \in SpentTokens', NEW s \in SpentTokens',
                      root'[t] = root'[s], ~revoked[t], ~revoked[s]
               PROVE  t = s
    BY <1>1 DEF OneLive
  <2>1. \A x \in SpentTokens : /\ root'[x] = root[x] /\ root[x] # last + 1
    <3> TAKE x \in SpentTokens
    <3>1. x \in 1..last /\ x \in Tokens /\ root[x] \in 1..last
      BY SpentRow
    <3> QED BY <1>1, <1>2, <3>1
  <2> QED BY <1>2, <1>6, <2>1 DEF OneLive
<1>9. \A t \in Tokens : t <= last => root'[t] = root[t]
  BY <1>1, <1>2
<1>10. SpentTokens' = IF f = last + 1 THEN SpentTokens \cup {f} ELSE SpentTokens
  BY <1>6
<1> QED BY <1>2, <1>4, <1>7, <1>8, <1>9, <1>10

(* A link spends the successor.                                            *)
LEMMA LinksTable ==
  ASSUME TypeOK, TypeOK', Rows, OneLive, Lineage,
         NEW t \in SpentTokens, ~revoked[t],
         NEW s \in 1..last, s \notin SpentTokens, root[s] = root[t], Links(t, s)
  PROVE  /\ Rows' /\ OneLive'
         /\ SpentTokens' = SpentTokens \cup {s}
<1>1. /\ last \in Nat /\ 1..last \subseteq Tokens /\ Tokens \subseteq Nat \ {0}
      /\ t \in 1..last /\ last' = last /\ owner' = owner /\ root' = root
      /\ SpentTokens \subseteq 1..last
  BY TableTypes DEF Links
<1>2. /\ revoked'[t] /\ replacedBy'[t] = s
      /\ \A x \in Tokens : x # t => revoked'[x] = revoked[x] /\ replacedBy'[x] = replacedBy[x]
  BY <1>1, TableTypes DEF Links
<1>3. replacedBy[t] = 0
  BY <1>1 DEF Lineage, NoToken
<1>4. \A x : x \in SpentTokens' <=> x \in SpentTokens \/ x = s
  <2>1. ASSUME NEW x \in 1..last PROVE x \in SpentTokens' <=> x \in SpentTokens \/ x = s
    <3>1. x # 0
      BY <1>1
    <3>2. (\E p \in Tokens : replacedBy'[p] = x) <=> (\E p \in Tokens : replacedBy[p] = x) \/ x = s
      BY <1>1, <1>2, <1>3, <3>1
    <3> QED BY <1>1, <3>2 DEF SpentTokens
  <2>2. \A x : x \in SpentTokens' => x \in 1..last
    BY <1>1 DEF SpentTokens
  <2> QED BY <1>1, <2>1, <2>2
<1>5. Rows'
  BY <1>1, <1>2 DEF Rows
<1>6. OneLive'
  <2> SUFFICES ASSUME NEW x \in SpentTokens', NEW y \in SpentTokens',
                      root[x] = root[y], ~revoked'[x], ~revoked'[y]
               PROVE  x = y
    BY <1>1 DEF OneLive
  <2>1. x \in Tokens /\ y \in Tokens /\ x # t /\ y # t
    BY <1>1, <1>2, <1>4
  <2>2. ~revoked[x] /\ ~revoked[y]
    BY <1>2, <2>1
  <2>3. ASSUME NEW z \in SpentTokens, root[z] = root[t], ~revoked[z] PROVE z = t
    BY <2>3 DEF OneLive
  <2> QED BY <1>4, <2>1, <2>2, <2>3 DEF OneLive
<1> QED BY <1>4, <1>5, <1>6

-----------------------------------------------------------------------------
(* Which action touches the table in which way.                            *)

(* A login inserts a row that is a login of its own.                       *)
LEMMA SessionInserts ==
  ASSUME IInv, NEW r \in Requests, IssueSession(r)
  PROVE  Inserts(req[r].user, last + 1) /\ req[r].user \in Users
<1>1. FactsOf(req[r]) /\ last \in Nat /\ last < MaxTokens /\ CreateRow(r, last + 1)
  BY MaxTokensAssumption DEF IInv, TypeOK, Facts, IssueSession, CreateRow
<1> QED BY <1>1, MaxTokensAssumption DEF FactsOf, IssueSession, CreateRow, Inserts, Tokens

(* A refresh inserts a row of the login of the row it found live.          *)
LEMMA SuccessorInserts ==
  ASSUME IInv, SerialInv, NEW r \in Requests, IssueSuccessor(r)
  PROVE  /\ Inserts(req[r].user, root[req[r].tok])
         /\ req[r].user \in Users /\ req[r].tok \in SpentTokens /\ ~revoked[req[r].tok]
         /\ root[req[r].tok] \in 1..last /\ root[root[req[r].tok]] = root[req[r].tok]
<1>1. /\ FactsOf(req[r]) /\ last \in Nat /\ last < MaxTokens /\ TypeOK
      /\ CreateRow(r, root[req[r].tok]) /\ req[r].pc = "issue" /\ req[r].op = "refresh"
  BY MaxTokensAssumption DEF IInv, TypeOK, Facts, IssueSuccessor, CreateRow, At
<1>2. req[r].tok # NoToken /\ AloneOf(req[r])
  BY <1>1 DEF IInv, Control, ControlOf, SerialInv, Alone
<1>3. req[r].tok \in SpentTokens /\ ~revoked[req[r].tok]
  BY <1>1, <1>2 DEF AloneOf
<1>4. /\ root[req[r].tok] \in 1..last /\ root[root[req[r].tok]] = root[req[r].tok]
      /\ owner[req[r].tok] \in Users
  BY <1>1, <1>3, SpentRow DEF SerialInv
<1>5. req[r].user = owner[req[r].tok]
  BY <1>1, <1>2 DEF FactsOf
<1>6. last + 1 \in Tokens
  BY <1>1, MaxTokensAssumption DEF Tokens
<1> QED BY <1>1, <1>3, <1>4, <1>5, <1>6 DEF CreateRow, Inserts

(* It then links that row, still live, to the one it inserted.             *)
LEMMA LinkLinks ==
  ASSUME IInv, SerialInv, NEW r \in Requests, Link(r)
  PROVE  /\ Links(req[r].tok, req[r].fresh)
         /\ req[r].tok \in SpentTokens /\ ~revoked[req[r].tok]
         /\ req[r].fresh \in 1..last /\ req[r].fresh \notin SpentTokens
         /\ ~revoked[req[r].fresh] /\ root[req[r].fresh] = root[req[r].tok]
<1>1. /\ FactsOf(req[r]) /\ ControlOf(req[r]) /\ AloneOf(req[r])
      /\ req[r].pc = "link" /\ req[r] \in RequestType /\ last \in Nat
  BY DEF IInv, TypeOK, Facts, Control, SerialInv, Alone, Link, At
<1>2. req[r].op = "refresh" /\ req[r].tok # NoToken /\ req[r].fresh # NoToken
  BY <1>1 DEF ControlOf, FactsOf
<1>3. /\ req[r].tok \in SpentTokens /\ ~revoked[req[r].tok]
      /\ req[r].fresh \notin SpentTokens /\ ~revoked[req[r].fresh]
  BY <1>1, <1>2 DEF AloneOf
<1>4. req[r].fresh <= last /\ root[req[r].fresh] = root[req[r].tok]
  BY <1>1, <1>2 DEF FactsOf
<1>5. req[r].fresh \in 1..last
  BY <1>1, <1>2, <1>4 DEF RequestType, NoToken
<1>6. Links(req[r].tok, req[r].fresh)
  BY DEF Link, Links, history
<1> QED BY <1>3, <1>4, <1>5, <1>6

(* A purge and a logout revoke rows of the table: blank rows have no user. *)
LEMMA RevokesRevoke ==
  ASSUME IInv, SerialInv, NEW r \in Requests, Purge(r) \/ RevokeOne(r)
  PROVE  Revokes
<1>1. /\ FactsOf(req[r]) /\ ControlOf(req[r]) /\ AloneOf(req[r])
      /\ req[r] \in RequestType /\ last \in Nat /\ revoked \in [Tokens -> BOOLEAN] /\ TypeOK
      /\ Rows
  BY DEF IInv, TypeOK, Facts, Control, SerialInv, Alone
<1>2. CASE Purge(r)
  <2>1. req[r].pc = "purge" /\ req[r].op \in {"refresh", "logoutAll"}
    BY <1>1, <1>2 DEF Purge, At, ControlOf
  <2>2. req[r].user \in Users
    <3>1. CASE req[r].op = "refresh"
      <4>1. req[r].tok # NoToken
        BY <1>1, <2>1, <3>1 DEF ControlOf
      <4>2. req[r].tok \in SpentTokens /\ req[r].user = owner[req[r].tok]
        BY <1>1, <4>1 DEF AloneOf, FactsOf
      <4> QED BY <1>1, <4>2, SpentRow
    <3>2. CASE req[r].op = "logoutAll"
      BY <1>1, <3>2 DEF FactsOf
    <3> QED BY <2>1, <3>1, <3>2
  <2>3. \A t \in Tokens : t > last => owner[t] # req[r].user
    BY <1>1, <2>2, NoUserAssumption DEF Rows
  <2> QED BY <1>1, <1>2, <2>3 DEF Purge, Revokes, history
<1>3. CASE RevokeOne(r)
  <2>1. req[r].tok # NoToken
    BY <1>1, <1>3 DEF RevokeOne, At, ControlOf
  <2>2. req[r].tok \in Nat /\ req[r].tok <= last
    BY <1>1, <2>1 DEF FactsOf, RequestType
  <2>3. \A t \in Tokens : t \in Nat
    BY MaxTokensAssumption DEF Tokens
  <2>4. \A t \in Tokens : t > last => t # req[r].tok
    BY <1>1, <2>2, <2>3
  <2>5. revoked' = [revoked EXCEPT ![req[r].tok] = TRUE]
    BY <1>3 DEF RevokeOne
  <2>6. \A t \in Tokens : /\ revoked[t] => revoked'[t]
                          /\ t > last => revoked'[t] = revoked[t]
    BY <1>1, <2>4, <2>5
  <2> QED BY <1>3, <2>6 DEF RevokeOne, Revokes, history
<1> QED BY <1>2, <1>3

(* The other steps leave the table alone.                                  *)
LEMMA OthersRest ==
  ASSUME [Next]_vars,
         \A r \in Requests : /\ ~IssueSession(r) /\ ~IssueSuccessor(r) /\ ~Link(r)
                             /\ ~Purge(r) /\ ~RevokeOne(r)
  PROVE  Rests
BY DEF Rests, Next, Environment, ServerStep, vars, columns, history, Begin, BeginLogin,
    BeginLogoutAll, BeginLogout, BeginRefresh, Arrive, CheckCredentials, RotateInvalid,
    RotateReused, RotateValid, LoadUserActive, LoadUserInactive, LoadActor, LogoutNothing,
    LogoutFound, LogoutLookupFails, Reply, Fail, Expire, SetActive

(* What becomes of the table in one step.                                  *)
LEMMA TableStep ==
  ASSUME IInv, IInv', SerialInv, [Next]_vars
  PROVE  Rows' /\ OneLive' /\ SpentTokens \subseteq SpentTokens'
<1>1. TypeOK /\ TypeOK' /\ Rows /\ OneLive /\ Lineage /\ last \in Nat
  BY DEF IInv, SerialInv, TypeOK
<1>2. ASSUME NEW r \in Requests, IssueSession(r)
      PROVE  Rows' /\ OneLive' /\ SpentTokens \subseteq SpentTokens'
  <2>1. Inserts(req[r].user, last + 1) /\ req[r].user \in Users /\ last + 1 \in 1..(last + 1)
    BY <1>1, <1>2, SessionInserts
  <2> QED BY <1>1, <2>1, InsertsTable
<1>3. ASSUME NEW r \in Requests, IssueSuccessor(r)
      PROVE  Rows' /\ OneLive' /\ SpentTokens \subseteq SpentTokens'
  <2>1. /\ Inserts(req[r].user, root[req[r].tok]) /\ req[r].user \in Users
        /\ root[req[r].tok] \in 1..last /\ root[root[req[r].tok]] = root[req[r].tok]
    BY <1>3, SuccessorInserts
  <2>2. root[req[r].tok] \in 1..(last + 1) /\ root[req[r].tok] <= last
    BY <1>1, <2>1
  <2> QED BY <1>1, <2>1, <2>2, InsertsTable
<1>4. ASSUME NEW r \in Requests, Link(r)
      PROVE  Rows' /\ OneLive' /\ SpentTokens \subseteq SpentTokens'
  BY <1>1, <1>4, LinkLinks, LinksTable
<1>5. ASSUME NEW r \in Requests, Purge(r) \/ RevokeOne(r)
      PROVE  Rows' /\ OneLive' /\ SpentTokens \subseteq SpentTokens'
  BY <1>1, <1>5, RevokesRevoke, RevokesTable
<1>6. CASE Rests
  BY <1>1, <1>6 DEF Rests, Rows, OneLive, SpentTokens
<1> QED BY <1>2, <1>3, <1>4, <1>5, <1>6, OthersRest
(* What a handler that is alone knows stays true until it uses it.         *)
LEMMA AloneStep == IInv /\ IInv' /\ SerialInv /\ Serial /\ [Next]_vars => Alone'
<1> SUFFICES ASSUME IInv, IInv', SerialInv, Serial, [Next]_vars, NEW s \in Requests
             PROVE  AloneOf(req[s])'
  BY DEF Alone
<1>1. /\ req \in [Requests -> RequestType] /\ req[s] \in RequestType /\ AloneOf(req[s])
      /\ ControlOf(req[s]) /\ SpentTokens \subseteq SpentTokens'
      /\ delivered \subseteq SpentTokens /\ TypeOK /\ TypeOK' /\ last \in Nat
      /\ Rows /\ OneLive /\ Lineage
  BY TableStep DEF IInv, TypeOK, SerialInv, Alone, Control
<1>2. ASSUME Rests, req'[s] = req[s] PROVE AloneOf(req[s])'
  BY <1>1, <1>2 DEF Rests, AloneOf, Told, SpentTokens
<1>3. ASSUME req[s].pc # "link", req'[s].tok = req[s].tok, req'[s].fresh = req[s].fresh,
             req'[s].pc \notin {"issue", "link"},
             req'[s].pc = "purge" \/ Told(req'[s]) => req'[s].horizon = last'
      PROVE  AloneOf(req[s])'
  BY <1>1, <1>3 DEF AloneOf, Told
<1>4. CASE Environment \/ UNCHANGED vars
  <2>1. Rests /\ req' = req
    BY <1>4 DEF Environment, Expire, SetActive, Rests, vars, columns, history
  <2> QED BY <1>2, <2>1
<1>5. ASSUME NEW r \in Requests, Begin(r) PROVE AloneOf(req[s])'
  <2>1. PICK op, pc, u, t, g :
          /\ Arrive(r, op, pc, u, t, g) /\ pc \in {"credentials", "actor", "lookup", "find"}
          /\ t \in delivered \cup {NoToken}
    BY <1>5 DEF Begin, BeginLogin, BeginLogoutAll, BeginLogout, BeginRefresh
  <2>2. Rests
    BY <2>1 DEF Arrive, columns, Rests
  <2>3. CASE r = s
    <3>1. req'[s] = [NoRequest EXCEPT !.op = op, !.pc = pc, !.user = u, !.tok = t, !.good = g]
      BY <1>1, <2>1, <2>3 DEF Arrive, Become
    <3>2. req'[s].tok = t /\ req'[s].fresh = NoToken /\ req'[s].pc = pc
      BY <3>1 DEF NoRequest
    <3> QED BY <1>1, <2>1, <3>2 DEF AloneOf, Told
  <2>4. CASE r # s
    <3>1. req'[s] = req[s]
      BY <1>1, <2>1, <2>4 DEF Arrive, Become
    <3> QED BY <1>2, <2>2, <3>1
  <2> QED BY <2>3, <2>4
<1>6. ASSUME NEW r \in Requests \ {s}, ServerStep(r) \/ Fail(r) PROVE AloneOf(req[s])'
  <2>1. ~At(r, "idle")
    BY <1>6 DEF ServerStep, CheckCredentials, IssueSession, CreateRow, RotateInvalid,
      RotateReused, RotateValid, IssueSuccessor, Link, LoadUserActive, LoadUserInactive, Purge,
      LoadActor, LogoutNothing, LogoutFound, LogoutLookupFails, RevokeOne, Reply, Fail, At
  <2>2. req[s].pc = "idle"
    BY <2>1 DEF Serial, At
  <2>3. ASSUME NEW h, Become(r, h) PROVE req'[s] = req[s]
    BY <1>1, <2>3 DEF Become
  <2>4. req'[s] = req[s]
    BY <1>6, <2>3
    DEF ServerStep, CheckCredentials, IssueSession, RotateInvalid, RotateReused, RotateValid,
        IssueSuccessor, Link, LoadUserActive, LoadUserInactive, Purge, LoadActor,
        LogoutNothing, LogoutFound, LogoutLookupFails, RevokeOne, Reply, Fail, Goto, Answer
  <2> QED BY <1>3, <2>2, <2>4 DEF Told
<1>7. ASSUME Reply(s) \/ Fail(s) PROVE AloneOf(req[s])'
  BY <1>1, <1>7 DEF Reply, Fail, Become, NoRequest, AloneOf, Told
<1>8. ASSUME IssueSession(s) PROVE AloneOf(req[s])'
  <2>1. /\ Inserts(req[s].user, last + 1) /\ req[s].user \in Users
        /\ last + 1 \in 1..(last + 1)
    BY <1>1, <1>8, SessionInserts
  <2>2. last + 1 \in SpentTokens'
    BY <1>1, <2>1, InsertsTable
  <2>3. req'[s] = [req[s] EXCEPT !.pc = "reply", !.status = "ok", !.fresh = last + 1]
    BY <1>1, <1>8 DEF IssueSession, Become
  <2>4. /\ req'[s].tok = req[s].tok /\ req'[s].fresh = last + 1 /\ req'[s].pc = "reply"
        /\ req'[s].status = "ok" /\ req'[s].op = "login"
    BY <1>1, <1>8, <2>3 DEF IssueSession, RequestType
  <2> QED BY <1>1, <2>2, <2>4 DEF AloneOf, Told
<1>9. ASSUME IssueSuccessor(s) PROVE AloneOf(req[s])'
  <2>1. /\ Inserts(req[s].user, root[req[s].tok]) /\ req[s].user \in Users
        /\ root[req[s].tok] \in 1..last /\ root[root[req[s].tok]] = root[req[s].tok]
        /\ req[s].tok \in SpentTokens /\ ~revoked[req[s].tok]
    BY <1>9, SuccessorInserts
  <2>2. /\ root[req[s].tok] \in 1..(last + 1) /\ root[req[s].tok] <= last
        /\ root[req[s].tok] # last + 1
    BY <1>1, <2>1
  <2>3. last + 1 \notin SpentTokens' /\ ~revoked[last + 1]
    BY <1>1, <2>1, <2>2, InsertsTable
  <2>4. req'[s] = [req[s] EXCEPT !.pc = "link", !.fresh = last + 1]
    BY <1>1, <1>9 DEF IssueSuccessor, Become
  <2>5. req'[s].tok = req[s].tok /\ req'[s].fresh = last + 1 /\ req'[s].pc = "link"
    BY <1>1, <2>4 DEF RequestType
  <2>6. revoked' = revoked
    BY <2>1 DEF Inserts
  <2> QED BY <1>1, <2>1, <2>3, <2>5, <2>6 DEF AloneOf, Told
<1>10. ASSUME Link(s) PROVE AloneOf(req[s])'
  <2>1. /\ Links(req[s].tok, req[s].fresh)
        /\ req[s].tok \in SpentTokens /\ ~revoked[req[s].tok]
        /\ req[s].fresh \in 1..last /\ req[s].fresh \notin SpentTokens
        /\ root[req[s].fresh] = root[req[s].tok]
    BY <1>10, LinkLinks
  <2>2. req[s].fresh \in SpentTokens'
    BY <1>1, <2>1, LinksTable
  <2>3. req'[s].tok = req[s].tok /\ req'[s].fresh = req[s].fresh /\ req'[s].pc = "loadUser"
    BY <1>1, <1>10 DEF Link, Goto, Become, RequestType
  <2> QED BY <1>1, <2>1, <2>2, <2>3 DEF AloneOf, Told
<1>11. ASSUME UNCHANGED revoked, Goto(s, "issue"), req[s].pc \in {"credentials", "find"},
              req[s].op = "refresh" => ~revoked[req[s].tok]
       PROVE  AloneOf(req[s])'
  <2>1. /\ req'[s].tok = req[s].tok /\ req'[s].fresh = req[s].fresh
        /\ req'[s].pc = "issue" /\ req'[s].op = req[s].op
    BY <1>1, <1>11 DEF Goto, Become, RequestType
  <2> QED BY <1>1, <1>11, <2>1 DEF AloneOf, Told
<1>12. ASSUME req[s].pc # "link", Goto(s, "revokeOne") PROVE AloneOf(req[s])'
  <2>1. req'[s].tok = req[s].tok /\ req'[s].fresh = req[s].fresh /\ req'[s].pc = "revokeOne"
    BY <1>1, <1>12 DEF Goto, Become, RequestType
  <2> QED BY <1>3, <1>12, <2>1 DEF Told
<1>13. ASSUME NEW st, req[s].pc # "link", Answer(s, st),
              st \in {"rejected", "silent"} \/ (st = "ok" /\ req[s].op # "logoutAll")
       PROVE  AloneOf(req[s])'
  <2>1. /\ req'[s].tok = req[s].tok /\ req'[s].fresh = req[s].fresh /\ req'[s].pc = "reply"
        /\ req'[s].status = st /\ req'[s].op = req[s].op
    BY <1>1, <1>13 DEF Answer, Become, RequestType
  <2> QED BY <1>3, <1>13, <2>1 DEF Told
<1>14. ASSUME NEW st, req[s].pc # "link", UNCHANGED last,
              Become(s, [req[s] EXCEPT !.pc = "purge", !.status = st, !.horizon = last])
       PROVE  AloneOf(req[s])'
  <2>1. /\ req'[s].tok = req[s].tok /\ req'[s].fresh = req[s].fresh /\ req'[s].pc = "purge"
        /\ req'[s].horizon = last
    BY <1>1, <1>14 DEF Become, RequestType
  <2> QED BY <1>3, <1>14, <2>1
<1>15. ASSUME Purge(s) PROVE AloneOf(req[s])'
  <2>1. /\ req'[s].tok = req[s].tok /\ req'[s].fresh = req[s].fresh /\ req'[s].pc = "reply"
        /\ req'[s].horizon = req[s].horizon /\ req[s].pc = "purge" /\ last' = last
    BY <1>1, <1>15 DEF Purge, At, Goto, Become, RequestType
  <2>2. req[s].horizon = last
    BY <1>1, <2>1 DEF AloneOf
  <2> QED BY <1>3, <2>1, <2>2
<1>16. ASSUME CheckCredentials(s) PROVE AloneOf(req[s])'
  <2>1. req[s].pc = "credentials" /\ req[s].op = "login" /\ UNCHANGED revoked
    BY <1>1, <1>16 DEF CheckCredentials, At, ControlOf, columns
  <2> QED BY <1>11, <1>13, <1>16, <2>1 DEF CheckCredentials
<1>17. ASSUME RotateValid(s) PROVE AloneOf(req[s])'
  BY <1>11, <1>17 DEF RotateValid, At, columns
<1>18. ASSUME RotateInvalid(s) \/ RotateReused(s) \/ LoadUserActive(s) \/ LoadUserInactive(s)
              \/ LoadActor(s) \/ LogoutNothing(s) \/ LogoutFound(s) \/ LogoutLookupFails(s)
              \/ RevokeOne(s)
       PROVE  AloneOf(req[s])'
  <2>1. req[s].pc # "link"
    BY <1>18 DEF RotateInvalid, RotateReused, LoadUserActive, LoadUserInactive, LoadActor,
      LogoutNothing, LogoutFound, LogoutLookupFails, RevokeOne, At
  <2>2. LoadUserActive(s) => req[s].op = "refresh"
    BY <1>1 DEF LoadUserActive, At, ControlOf
  <2>3. LogoutNothing(s) \/ RevokeOne(s) => req[s].op = "logout"
    BY <1>1 DEF LogoutNothing, RevokeOne, At, ControlOf
  <2> QED BY <1>12, <1>13, <1>14, <1>18, <2>1, <2>2, <2>3
    DEF RotateInvalid, RotateReused, LoadUserActive, LoadUserInactive, LoadActor,
      LogoutNothing, LogoutFound, LogoutLookupFails, RevokeOne
<1>19. ASSUME ServerStep(s) \/ Fail(s) PROVE AloneOf(req[s])'
  BY <1>7, <1>8, <1>9, <1>10, <1>16, <1>17, <1>18, <1>19, <1>15 DEF ServerStep
<1>20. ASSUME NEW r \in Requests, ServerStep(r) \/ Fail(r) PROVE AloneOf(req[s])'
  BY <1>6, <1>19, <1>20
<1> QED BY <1>4, <1>5, <1>20 DEF Next

(* Every token a client holds has been current once.                       *)
LEMMA SpentStep ==
  IInv /\ IInv' /\ SerialInv /\ [Next]_vars => delivered' \subseteq SpentTokens'
<1> SUFFICES ASSUME IInv, IInv', SerialInv, [Next]_vars PROVE delivered' \subseteq SpentTokens'
  OBVIOUS
<1>1. delivered \subseteq SpentTokens /\ SpentTokens \subseteq SpentTokens'
  BY TableStep DEF SerialInv
<1>2. ASSUME NEW r \in Requests, Reply(r) PROVE delivered' \subseteq SpentTokens'
  <2>1. AloneOf(req[r]) /\ req[r].pc = "reply"
    BY <1>2 DEF SerialInv, Alone, Reply, At
  <2>2. {req[r].fresh} \cap Tokens \subseteq SpentTokens
    BY <2>1, MaxTokensAssumption DEF AloneOf, Tokens, NoToken
  <2> QED BY <1>1, <1>2, <2>2 DEF Reply
<1>3. (\E r \in Requests : Reply(r)) \/ delivered' = delivered
  BY DEF Next, Environment, ServerStep, vars, Begin, BeginLogin, BeginLogoutAll,
      BeginLogout, BeginRefresh, Arrive, CheckCredentials, IssueSession, CreateRow,
      RotateInvalid, RotateReused, RotateValid, IssueSuccessor, Link, LoadUserActive,
      LoadUserInactive, Purge, LoadActor, LogoutNothing, LogoutFound, LogoutLookupFails,
      RevokeOne, Fail, Expire, SetActive
<1> QED BY <1>1, <1>2, <1>3

(* The invariant of serial operation.                                      *)
LEMMA SerialInductive == Spec /\ []Serial => []SerialInv
<1>1. Init => SerialInv
  <2> SUFFICES ASSUME Init PROVE SerialInv
    OBVIOUS
  <2>1. 1..last = {} /\ SpentTokens = {}
    BY DEF Init, SpentTokens
  <2>2. Rows
    BY <2>1 DEF Init, Rows
  <2>3. Alone
    BY DEF Init, Alone, AloneOf, Told, NoRequest, NoToken
  <2> QED BY <2>1, <2>2, <2>3 DEF Init, SerialInv, OneLive
<1>2. IInv /\ IInv' /\ SerialInv /\ Serial /\ [Next]_vars => SerialInv'
  BY TableStep, AloneStep, SpentStep DEF SerialInv
<1> QED BY <1>1, <1>2, Inductive, PTL DEF Spec
-----------------------------------------------------------------------------
(* The refinement.                                                         *)

(* The current token, given the live rows of a login.                      *)
Sole(S) ==
  CASE S = {} -> 0
    [] Cardinality(S) = 1 -> CHOOSE t \in S : TRUE
    [] OTHER -> MaxTokens + 1

(* It is 0 for none, and the one there is.                                 *)
LEMMA SoleOf == Sole({}) = 0 /\ \A x : Sole({x}) = x
<1>1. Sole({}) = 0
  BY DEF Sole
<1>2. ASSUME NEW x PROVE Sole({x}) = x
  <2>1. Cardinality({x}) = 1 /\ {x} # {}
    BY FS_Singleton
  <2>2. (CHOOSE t \in {x} : TRUE) = x
    OBVIOUS
  <2> QED BY <2>1, <2>2 DEF Sole
<1> QED BY <1>1, <1>2

(* A login has one live row or none, and its current token is that.        *)
LEMMA Currents ==
  ASSUME OneLive, NEW f
  PROVE  /\ LiveRows(f) = {} => CurrentOf(f) = 0
         /\ \A x : LiveRows(f) = {x} => CurrentOf(f) = x
         /\ LiveRows(f) = {} \/ \E x \in SpentTokens :
              LiveRows(f) = {x} /\ root[x] = f /\ ~revoked[x]
<1>1. CurrentOf(f) = Sole(LiveRows(f))
  BY DEF CurrentOf, Sole
<1>2. ASSUME NEW x \in LiveRows(f) PROVE LiveRows(f) = {x}
  BY <1>2 DEF LiveRows, OneLive
<1>3. \A x \in LiveRows(f) : x \in SpentTokens /\ root[x] = f /\ ~revoked[x]
  BY DEF LiveRows
<1> QED BY <1>1, <1>2, <1>3, SoleOf

(* The same after a step.                                                  *)
LEMMA CurrentsNext ==
  ASSUME OneLive', NEW f
  PROVE  /\ LiveRows(f)' = {} => CurrentOf(f)' = 0
         /\ \A x : LiveRows(f)' = {x} => CurrentOf(f)' = x
<1>1. CurrentOf(f)' = Sole(LiveRows(f)')
  BY DEF CurrentOf, Sole
<1> QED BY <1>1, SoleOf

(* A session insert opens a session.                                       *)
LEMMA SessionOpens ==
  ASSUME IInv, IInv', SerialInv, NEW r \in Requests, IssueSession(r), NEW f, f = last + 1
  PROVE  f \in Tokens /\ Session!Open(f)
<1>1. /\ TypeOK /\ TypeOK' /\ Rows /\ OneLive /\ Lineage /\ last \in Nat
  BY DEF IInv, SerialInv, TypeOK
<1>2. /\ Inserts(req[r].user, f) /\ req[r].user \in Users /\ f \in 1..(last + 1)
  BY <1>1, SessionInserts
<1>3. /\ Rows' /\ OneLive'
      /\ SpentTokens' = SpentTokens \cup {f}
      /\ \A t \in Tokens : t <= last => root'[t] = root[t]
      /\ root'[f] = f /\ f \notin SpentTokens /\ ~revoked[f]
  BY <1>1, <1>2, InsertsTable
<1>4. f \in Tokens /\ last' = last + 1 /\ revoked' = revoked
  BY <1>2 DEF Inserts
<1>5. \A x \in SpentTokens : x \in Tokens /\ x <= last /\ root'[x] = root[x] /\ root[x] # f
  <2> TAKE x \in SpentTokens
  <2>1. x \in 1..last /\ x \in Tokens /\ root[x] \in 1..last
    BY <1>1, SpentRow
  <2> QED BY <1>1, <1>3, <2>1
<1>6. LiveRows(f)' = {f}
  BY <1>3, <1>4, <1>5 DEF LiveRows
<1>7. ASSUME NEW g \in Tokens, g # f PROVE CurrentOf(g)' = CurrentOf(g)
  <2>1. LiveRows(g)' = LiveRows(g)
    BY <1>3, <1>4, <1>5, <1>7 DEF LiveRows
  <2> QED BY <2>1 DEF CurrentOf
<1>8. CurrentOf(f)' = f
  BY <1>3, <1>6, CurrentsNext
<1>9. [g \in Tokens |-> CurrentOf(g)]' = [[g \in Tokens |-> CurrentOf(g)] EXCEPT ![f] = f]
  BY <1>4, <1>7, <1>8
<1>10. {t \in 1..last : root[t] = t}' = {t \in 1..last : root[t] = t} \cup {f}
  <2>1. \A t \in 1..last : t \in Tokens /\ t <= last
    BY <1>1, TableTypes
  <2>2. \A t : t \in 1..last' <=> t \in 1..last \/ t = f
    BY <1>1, <1>4
  <2> QED BY <1>3, <2>1, <2>2
<1>11. f \notin {t \in 1..last : root[t] = t} \cup SpentTokens
  BY <1>1, <1>3
<1> QED BY <1>3, <1>4, <1>9, <1>10, <1>11 DEF Session!Open

(* The insert of a successor is not seen.                                  *)
LEMMA SuccessorHides ==
  ASSUME IInv, IInv', SerialInv, NEW r \in Requests, IssueSuccessor(r),
         NEW f, f = root[req[r].tok]
  PROVE  UNCHANGED Session!vars
<1>1. /\ TypeOK /\ TypeOK' /\ Rows /\ OneLive /\ Lineage /\ last \in Nat
  BY DEF IInv, SerialInv, TypeOK
<1>2. /\ Inserts(req[r].user, f) /\ req[r].user \in Users /\ f \in 1..last /\ root[f] = f
      /\ f \in 1..(last + 1) /\ f # last + 1 /\ f <= last
  BY <1>1, SuccessorInserts
<1>3. /\ SpentTokens' = SpentTokens
      /\ \A t \in Tokens : t <= last => root'[t] = root[t]
      /\ root'[last + 1] = f
  BY <1>1, <1>2, InsertsTable
<1>4. last' = last + 1 /\ revoked' = revoked
  BY <1>2 DEF Inserts
<1>5. \A t \in 1..last : t \in Tokens /\ t <= last /\ root'[t] = root[t]
  BY <1>1, <1>3, TableTypes
<1>6. \A g : LiveRows(g)' = LiveRows(g)
  <2>1. SpentTokens \subseteq 1..last
    BY <1>1, TableTypes
  <2> QED BY <1>3, <1>4, <1>5, <2>1 DEF LiveRows
<1>7. [g \in Tokens |-> CurrentOf(g)]' = [g \in Tokens |-> CurrentOf(g)]
  <2>1. \A g \in Tokens : CurrentOf(g)' = CurrentOf(g)
    BY <1>6 DEF CurrentOf
  <2> QED BY <2>1
<1>8. {t \in 1..last : root[t] = t}' = {t \in 1..last : root[t] = t}
  <2>1. \A t : t \in 1..last' <=> t \in 1..last \/ t = last + 1
    BY <1>1, <1>4
  <2>2. root'[last + 1] # last + 1
    BY <1>1, <1>2, <1>3
  <2> QED BY <1>5, <2>1, <2>2
<1> QED BY <1>3, <1>7, <1>8 DEF Session!vars

(* A link rotates.                                                         *)
LEMMA LinkRotates ==
  ASSUME IInv, IInv', SerialInv, NEW r \in Requests, Link(r),
         NEW t, t = req[r].tok, NEW s, s = req[r].fresh, NEW f, f = root[t]
  PROVE  f \in Tokens /\ s \in Tokens /\ Session!Rotate(f, s)
<1>1. /\ TypeOK /\ TypeOK' /\ Rows /\ OneLive /\ Lineage /\ last \in Nat
      /\ 1..last \subseteq Tokens /\ Tokens \subseteq Nat \ {0}
      /\ SpentTokens \subseteq 1..last /\ revoked \in [Tokens -> BOOLEAN]
  BY TableTypes DEF IInv, SerialInv, TypeOK
<1>2. /\ Links(t, s) /\ t \in SpentTokens /\ ~revoked[t]
      /\ s \in 1..last /\ s \notin SpentTokens /\ ~revoked[s] /\ root[s] = f
  BY LinkLinks
<1>3. OneLive' /\ SpentTokens' = SpentTokens \cup {s}
  BY <1>1, <1>2, LinksTable
<1>4. /\ last' = last /\ root' = root
      /\ revoked'[t] /\ \A x \in Tokens : x # t => revoked'[x] = revoked[x]
  BY <1>1, <1>2 DEF Links
<1>5. f \in Tokens /\ s \in Tokens
  BY <1>1, <1>2, SpentRow
<1>6. LiveRows(f) = {t}
  BY <1>1, <1>2 DEF LiveRows, OneLive
<1>7. LiveRows(f)' = {s}
  <2>1. \A x : x \in SpentTokens' /\ root'[x] = f /\ ~revoked'[x] <=> x = s
    <3>1. ASSUME NEW x \in SpentTokens, root[x] = f, ~revoked'[x] PROVE FALSE
      <4>1. x \in Tokens /\ x # t
        BY <1>1, <1>4, <3>1
      <4>2. ~revoked[x]
        BY <1>4, <3>1, <4>1
      <4> QED BY <1>1, <1>2, <3>1, <4>1, <4>2 DEF OneLive
    <3>2. s # t /\ ~revoked'[s]
      BY <1>2, <1>4, <1>5
    <3> QED BY <1>2, <1>3, <1>4, <3>1, <3>2
  <2> QED BY <2>1 DEF LiveRows
<1>8. ASSUME NEW g \in Tokens, g # f PROVE CurrentOf(g)' = CurrentOf(g)
  <2>1. \A x : (x \in SpentTokens' /\ root'[x] = g /\ ~revoked'[x])
                 <=> (x \in SpentTokens /\ root[x] = g /\ ~revoked[x])
    <3>1. ASSUME NEW x, root[x] = g PROVE x # s /\ x # t
      BY <1>2, <1>8, <3>1
    <3> QED BY <1>1, <1>3, <1>4, <3>1
  <2>2. LiveRows(g)' = LiveRows(g)
    BY <2>1 DEF LiveRows
  <2> QED BY <2>2 DEF CurrentOf
<1>9. CurrentOf(f) = t /\ CurrentOf(f)' = s /\ t # 0
  BY <1>1, <1>2, <1>3, <1>6, <1>7, Currents, CurrentsNext
<1>10. [g \in Tokens |-> CurrentOf(g)]' = [[g \in Tokens |-> CurrentOf(g)] EXCEPT ![f] = s]
  BY <1>5, <1>8, <1>9
<1>11. {x \in 1..last : root[x] = x}' = {x \in 1..last : root[x] = x}
  BY <1>4
<1>12. [g \in Tokens |-> CurrentOf(g)][f] # 0
  BY <1>5, <1>9
<1> QED BY <1>2, <1>3, <1>5, <1>10, <1>11, <1>12 DEF Session!Rotate

(* Revoking ends the sessions whose live row it revokes.                   *)
LEMMA RevokingEnds ==
  ASSUME IInv, IInv', SerialInv, Revokes
  PROVE  \E F \in SUBSET {t \in 1..last : root[t] = t} : Session!End(F)
<1> DEFINE Opened == {t \in 1..last : root[t] = t}
           F == {f \in Opened : CurrentOf(f) # 0 /\ LiveRows(f)' = {}}
<1>1. /\ TypeOK /\ TypeOK' /\ Rows /\ OneLive /\ last \in Nat
      /\ 1..last \subseteq Tokens /\ Tokens \subseteq Nat \ {0}
      /\ SpentTokens \subseteq 1..last
  BY TableTypes DEF IInv, SerialInv, TypeOK
<1>2. OneLive' /\ SpentTokens' = SpentTokens
  BY <1>1, RevokesTable
<1>3. /\ last' = last /\ root' = root
      /\ \A x \in SpentTokens : revoked[x] => revoked'[x]
  BY <1>1 DEF Revokes
<1>4. \A f : LiveRows(f)' \subseteq LiveRows(f)
  BY <1>2, <1>3 DEF LiveRows
<1>5. ASSUME NEW f \in Tokens PROVE CurrentOf(f)' = IF f \in F THEN 0 ELSE CurrentOf(f)
  <2>1. CASE LiveRows(f) = {}
    <3>1. LiveRows(f)' = {} /\ CurrentOf(f) = 0
      BY <1>1, <1>4, <2>1, Currents
    <3>2. CurrentOf(f)' = 0
      BY <1>2, <3>1, CurrentsNext
    <3> QED BY <3>1, <3>2
  <2>2. CASE LiveRows(f) # {}
    <3>1. PICK x \in SpentTokens : LiveRows(f) = {x} /\ root[x] = f
      BY <1>1, <2>2, Currents
    <3>2. CurrentOf(f) = x /\ x # 0 /\ f \in Opened
      BY <1>1, <3>1, Currents, SpentRow
    <3>3. CASE LiveRows(f)' = {}
      <4>1. CurrentOf(f)' = 0
        BY <1>2, <3>3, CurrentsNext
      <4> QED BY <3>2, <3>3, <4>1
    <3>4. CASE LiveRows(f)' # {}
      <4>1. LiveRows(f)' = {x}
        BY <1>4, <3>1, <3>4
      <4>2. CurrentOf(f)' = x
        BY <1>2, <4>1, CurrentsNext
      <4> QED BY <3>2, <3>4, <4>2
    <3> QED BY <3>3, <3>4
  <2> QED BY <2>1, <2>2
<1>6. [g \in Tokens |-> CurrentOf(g)]'
        = [g \in Tokens |-> IF g \in F THEN 0 ELSE [h \in Tokens |-> CurrentOf(h)][g]]
  BY <1>5
<1>7. F \subseteq {f \in Opened : [h \in Tokens |-> CurrentOf(h)][f] # 0}
  BY <1>1
<1>8. Opened' = Opened
  BY <1>3
<1>9. F \in SUBSET Opened
  OBVIOUS
<1>10. Session!End(F)
  <2> HIDE DEF F
  <2> QED BY <1>2, <1>6, <1>7, <1>8 DEF Session!End, Session!Tokens, Tokens
<1> QED BY <1>9, <1>10

(* Every step of serial requests is a step of a login session, or none.    *)
LEMMA SessionStep ==
  IInv /\ IInv' /\ SerialInv /\ [Next]_vars => [Session!Next]_(Session!vars)
<1> SUFFICES ASSUME IInv, IInv', SerialInv, [Next]_vars
             PROVE  Session!Next \/ UNCHANGED Session!vars
  OBVIOUS
<1>1. ASSUME NEW r \in Requests, IssueSession(r) PROVE Session!Next
  <2>1. PICK f : f = last + 1
    OBVIOUS
  <2>2. f \in Tokens /\ Session!Open(f)
    BY <1>1, <2>1, SessionOpens
  <2> QED BY <2>2 DEF Session!Next, Session!Tokens, Tokens
<1>2. ASSUME NEW r \in Requests, IssueSuccessor(r) PROVE UNCHANGED Session!vars
  BY <1>2, SuccessorHides
<1>3. ASSUME NEW r \in Requests, Link(r) PROVE Session!Next
  <2>1. PICK t, s, f : t = req[r].tok /\ s = req[r].fresh /\ f = root[t]
    OBVIOUS
  <2>2. f \in Tokens /\ s \in Tokens /\ Session!Rotate(f, s)
    BY <1>3, <2>1, LinkRotates
  <2> QED BY <2>2 DEF Session!Next, Session!Tokens, Tokens
<1>4. ASSUME NEW r \in Requests, Purge(r) \/ RevokeOne(r) PROVE Session!Next
  <2>1. PICK F \in SUBSET {t \in 1..last : root[t] = t} : Session!End(F)
    BY <1>4, RevokesRevoke, RevokingEnds
  <2> QED BY <2>1 DEF Session!Next
<1>5. CASE Rests
  <2>1. SpentTokens' = SpentTokens
    BY <1>5 DEF Rests, SpentTokens
  <2>2. \A f : LiveRows(f)' = LiveRows(f)
    BY <1>5, <2>1 DEF Rests, LiveRows
  <2>3. [f \in Tokens |-> CurrentOf(f)]' = [f \in Tokens |-> CurrentOf(f)]
    <3>1. \A f \in Tokens : CurrentOf(f)' = CurrentOf(f)
      BY <2>2 DEF CurrentOf
    <3> QED BY <3>1
  <2> QED BY <1>5, <2>1, <2>3 DEF Rests, Session!vars
<1> QED BY <1>1, <1>2, <1>3, <1>4, <1>5, OthersRest

(* In the beginning no session is open.                                    *)
LEMMA SessionInit == Init => Session!Init
<1> SUFFICES ASSUME Init PROVE Session!Init
  OBVIOUS
<1>1. 1..last = {} /\ SpentTokens = {}
  BY DEF Init, SpentTokens
<1>2. \A f : CurrentOf(f) = 0
  BY <1>1 DEF CurrentOf, LiveRows
<1> QED BY <1>1, <1>2 DEF Session!Init, Session!Tokens, Tokens

(* While requests come one at a time, the table and its handlers implement *)
(* LoginSession: one current token per login, replaced in one step by one  *)
(* never current before, and no session comes back once it has ended.      *)
THEOREM SerialCorrect == Spec /\ []Serial => ImplementsLoginSession
<1>1. Session!Spec <=> Session!Init /\ [][Session!Next]_(Session!vars)
  BY DEF Session!Spec
<1> QED
  BY <1>1, SessionInit, SessionStep, SerialInductive, Inductive, PTL
  DEF Spec, ImplementsLoginSession

(* Serial requests leave a login one session that clients can use, as the   *)
(* documentation promises of any: overlapping ones do not.                  *)
THEOREM SerialOneSession == Spec /\ []Serial => []OneSessionPerLogin
<1>1. SerialInv => OneSessionPerLogin
  BY DEF SerialInv, OneLive, OneSessionPerLogin, Usable
<1> QED BY <1>1, SerialInductive, PTL

(* And a serial reuse hit, deactivation or logout-all leaves no session of  *)
(* an earlier login, as documented too: no row is younger than the decision *)
(* to revoke.                                                               *)
THEOREM SerialPurge == Spec /\ []Serial => []PurgeEndsLogins
<1>1. IInv => PurgeIsComplete
  BY DEF IInv, Facts, FactsOf, PurgeIsComplete, AnsweredPurge, At
<1>2. IInv /\ SerialInv => PurgeEndsLogins
  <2> SUFFICES ASSUME IInv, SerialInv, NEW r \in Requests, AnsweredPurge(r),
                      NEW t \in 1..last, owner[t] = req[r].user
               PROVE  revoked[t]
    BY DEF PurgeEndsLogins
  <2>1. Told(req[r]) /\ AloneOf(req[r])
    BY DEF AnsweredPurge, At, Told, SerialInv, Alone
  <2>2. req[r].horizon = last
    BY <2>1 DEF AloneOf
  <2> QED BY <1>1, <2>2 DEF PurgeIsComplete
<1> QED BY <1>2, SerialInductive, Inductive, PTL
====
