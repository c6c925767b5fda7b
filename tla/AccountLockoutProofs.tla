------------------------ MODULE AccountLockoutProofs ------------------------
(***************************************************************************)
(* Theorems about AccountLockout, for every threshold and every number of  *)
(* concurrent login attempts.                                              *)
(***************************************************************************)
EXTENDS AccountLockout, FiniteSetTheorems, TLAPS

-----------------------------------------------------------------------------
(* Counting attempts by their place.  f is att or its next value.          *)
Slots(f, pcs) == {r \in Requests : f[r].pc \in pcs}
Size(f, pcs) == Cardinality(Slots(f, pcs))
Verifying(f) == Size(f, {"verify"})
Counting(f) == Size(f, {"count"})
Failing(f) == Size(f, {"count", "lock"})
Arriving(f) == Size(f, {"find", "verify", "count"})

(* One if the place p is among pcs.                                        *)
In(p, pcs) == IF p \in pcs THEN 1 ELSE 0

(* The attempts at a set of places are finitely many.                      *)
LEMMA SizeType ==
  ASSUME NEW f, NEW pcs
  PROVE  /\ IsFiniteSet(Slots(f, pcs))
         /\ Size(f, pcs) \in Nat
         /\ Cardinality(Requests) \in Nat
         /\ Size(f, pcs) <= Cardinality(Requests)
<1>1. Slots(f, pcs) \in SUBSET Requests
  BY DEF Slots
<1>2. IsFiniteSet(Slots(f, pcs)) /\ Cardinality(Slots(f, pcs)) <= Cardinality(Requests)
  BY <1>1, RequestsAssumption, FS_Subset
<1> QED BY <1>2, RequestsAssumption, FS_CardinalityType DEF Size

(* One attempt moves: a count changes by what it leaves and what it joins. *)
LEMMA SizeMove ==
  ASSUME NEW f, NEW g, NEW r \in Requests, NEW pcs,
         \A q \in Requests \ {r} : g[q] = f[q]
  PROVE  Size(g, pcs) + In(f[r].pc, pcs) = Size(f, pcs) + In(g[r].pc, pcs)
<1>1. IsFiniteSet(Slots(f, pcs)) /\ Size(f, pcs) \in Nat
  BY SizeType
<1>2. CASE f[r].pc \in pcs /\ g[r].pc \in pcs
  <2>1. Slots(g, pcs) = Slots(f, pcs)
    BY <1>2 DEF Slots
  <2> QED BY <2>1 DEF Size, In, Slots
<1>3. CASE f[r].pc \notin pcs /\ g[r].pc \notin pcs
  <2>1. Slots(g, pcs) = Slots(f, pcs)
    BY <1>3 DEF Slots
  <2>2. In(f[r].pc, pcs) = In(g[r].pc, pcs)
    BY <1>3 DEF In
  <2> QED BY <2>1, <2>2 DEF Size
<1>4. CASE f[r].pc \notin pcs /\ g[r].pc \in pcs
  <2>1. Slots(g, pcs) = Slots(f, pcs) \cup {r} /\ r \notin Slots(f, pcs)
    BY <1>4 DEF Slots
  <2>2. Size(g, pcs) = Size(f, pcs) + 1
    BY <1>1, <2>1, FS_AddElement DEF Size
  <2> QED BY <1>1, <1>4, <2>2 DEF In
<1>5. CASE f[r].pc \in pcs /\ g[r].pc \notin pcs
  <2>1. Slots(g, pcs) = Slots(f, pcs) \ {r} /\ r \in Slots(f, pcs)
    BY <1>5 DEF Slots
  <2>2. Size(g, pcs) = Size(f, pcs) - 1
    BY <1>1, <2>1, FS_RemoveElement DEF Size
  <2> QED BY <1>1, <1>5, <2>2 DEF In
<1> QED BY <1>2, <1>3, <1>4, <1>5

(* An attempt is at one place: those that verify and those that fail are   *)
(* different slots.                                                        *)
LEMMA SizeDisjoint ==
  ASSUME NEW f
  PROVE  /\ Verifying(f) + Failing(f) <= Cardinality(Requests)
         /\ Counting(f) <= Failing(f)
<1> DEFINE V == Slots(f, {"verify"})
           F == Slots(f, {"count", "lock"})
           C == Slots(f, {"count"})
<1>1. IsFiniteSet(V) /\ IsFiniteSet(F) /\ IsFiniteSet(C)
  BY SizeType
<1>2. V \cap F = {} /\ V \cup F \in SUBSET Requests /\ C \in SUBSET F
  BY DEF Slots
<1>3. /\ Cardinality(V \cup F) = Cardinality(V) + Cardinality(F) - Cardinality({})
      /\ IsFiniteSet(V \cup F)
  BY <1>1, <1>2, FS_Union
<1>4. Cardinality(V \cup F) <= Cardinality(Requests)
  BY <1>2, RequestsAssumption, FS_Subset
<1>5. Cardinality(C) <= Cardinality(F)
  BY <1>1, <1>2, FS_Subset
<1>6. Cardinality(V) \in Nat /\ Cardinality(F) \in Nat
  BY <1>1, FS_CardinalityType
<1> HIDE DEF V, F, C
<1>7. Cardinality(V) + Cardinality(F) <= Cardinality(Requests)
  BY <1>3, <1>4, <1>6, FS_EmptySet
<1> QED BY <1>5, <1>7 DEF Verifying, Failing, Counting, Size, V, F, C

(* Attempt r is at place p after the step, and the others have not moved.  *)
Moves(r, p) == att'[r].pc = p /\ \A q \in Requests \ {r} : att'[q] = att[q]

(* The updates of the model move one attempt to the place they name.       *)
LEMMA Movement ==
  ASSUME TypeOK, NEW r \in Requests, NEW p, NEW s, NEW b
  PROVE  /\ Goto(r, p) => Moves(r, p)
         /\ Answer(r, s) => Moves(r, "reply")
         /\ Become(r, [att[r] EXCEPT !.pc = p, !.dirty = b]) => Moves(r, p)
         /\ Become(r, [NoAttempt EXCEPT !.pc = p, !.good = b]) => Moves(r, p)
         /\ Become(r, NoAttempt) => Moves(r, "idle")
<1>1. att[r] \in AttemptType
  BY DEF TypeOK
<1>2. /\ [att[r] EXCEPT !.pc = p].pc = p
      /\ [att[r] EXCEPT !.pc = "reply", !.status = s].pc = "reply"
      /\ [att[r] EXCEPT !.pc = p, !.dirty = b].pc = p
      /\ [NoAttempt EXCEPT !.pc = p, !.good = b].pc = p
      /\ NoAttempt.pc = "idle"
  BY <1>1 DEF AttemptType, NoAttempt
<1>3. \A h : Become(r, h) => att'[r] = h /\ \A q \in Requests \ {r} : att'[q] = att[q]
  BY DEF TypeOK, Become
<1> QED BY <1>2, <1>3 DEF Goto, Answer, Moves

(* The four counts after a step that moves one attempt to place p.         *)
LEMMA CountsMove ==
  ASSUME NEW r \in Requests, NEW p, Moves(r, p)
  PROVE  /\ Verifying(att') + In(att[r].pc, {"verify"}) = Verifying(att) + In(p, {"verify"})
         /\ Counting(att') + In(att[r].pc, {"count"}) = Counting(att) + In(p, {"count"})
         /\ Failing(att') + In(att[r].pc, {"count", "lock"})
              = Failing(att) + In(p, {"count", "lock"})
         /\ Arriving(att') + In(att[r].pc, {"find", "verify", "count"})
              = Arriving(att) + In(p, {"find", "verify", "count"})
<1>1. \A pcs : Size(att', pcs) + In(att[r].pc, pcs) = Size(att, pcs) + In(p, pcs)
  BY SizeMove DEF Moves
<1> QED BY <1>1 DEF Verifying, Counting, Failing, Arriving

(* The counts are natural numbers within the number of slots.              *)
LEMMA CountsType ==
  ASSUME NEW f
  PROVE  /\ Verifying(f) \in Nat /\ Counting(f) \in Nat
         /\ Failing(f) \in Nat /\ Arriving(f) \in Nat
         /\ Cardinality(Requests) \in Nat
         /\ Failing(f) <= Cardinality(Requests)
BY SizeType DEF Verifying, Counting, Failing, Arriving

-----------------------------------------------------------------------------
(* The inductive invariant.                                                *)

(* Attempts in flight find room below the bound on the counter.            *)
Room == failed + Arriving(att) <= MaxCount

(* A wrong password is in the counter, about to be, or lost.               *)
Counted == guesses <= failed + Counting(att) + lost

(* While there is no lock, every wrong password beyond the threshold       *)
(* belongs to an attempt that is about to lock, or was lost.               *)
Unlocked == lock # "future" => guesses + 1 <= MaxAttempts + Failing(att) + lost

(* Behind a lock only the attempts already verifying can add to them.      *)
Locked == lock = "future" =>
            guesses + 1 + Verifying(att) <= MaxAttempts + Cardinality(Requests) + lost

Budget == Room /\ Counted /\ Unlocked /\ Locked

IInv == TypeOK /\ Budget

(* The moves of an attempt keep it well typed.                             *)
LEMMA AttemptMoves ==
  ASSUME TypeOK, NEW r \in Requests, NEW p \in Pcs, NEW s \in Statuses, NEW b \in BOOLEAN
  PROVE  /\ [att[r] EXCEPT !.pc = p] \in AttemptType
         /\ [att[r] EXCEPT !.pc = p, !.status = s] \in AttemptType
         /\ [att[r] EXCEPT !.pc = p, !.dirty = b] \in AttemptType
         /\ [NoAttempt EXCEPT !.pc = p, !.good = b] \in AttemptType
         /\ NoAttempt \in AttemptType
         /\ \A h \in AttemptType : Become(r, h) => att' \in [Requests -> AttemptType]
<1>1. att[r] \in AttemptType
  BY DEF TypeOK
<1>2. NoAttempt \in AttemptType
  BY DEF NoAttempt, AttemptType, Pcs, Statuses
<1>3. \A h \in AttemptType : Become(r, h) => att' \in [Requests -> AttemptType]
  BY DEF TypeOK, Become
<1> QED BY <1>1, <1>2, <1>3 DEF AttemptType

(* Type correctness is preserved where the counter has room.               *)
LEMMA TypeStep == TypeOK /\ Room /\ [Next]_vars => TypeOK'
<1> SUFFICES ASSUME TypeOK, Room, [Next]_vars PROVE TypeOK'
  OBVIOUS
<1> USE DEF history
<1>0. /\ {"idle", "find", "verify", "count", "lock", "clear", "reply"} \subseteq Pcs
      /\ {"none", "ok", "invalid", "locked"} \subseteq Statuses
      /\ {"null", "future", "past"} \subseteq Locks
  BY DEF Pcs, Statuses, Locks
<1>1. ASSUME NEW r \in Requests, NEW g \in BOOLEAN, Begin(r, g) PROVE TypeOK'
  BY <1>0, <1>1, AttemptMoves DEF Begin, TypeOK
<1>2. ASSUME NEW r \in Requests, FindLocked(r) PROVE TypeOK'
  BY <1>0, <1>2, AttemptMoves DEF FindLocked, Answer, TypeOK
<1>3. ASSUME NEW r \in Requests, FindOpen(r) PROVE TypeOK'
  BY <1>0, <1>3, AttemptMoves DEF FindOpen, ReadRow, TypeOK
<1>4. ASSUME NEW r \in Requests, VerifyWrong(r) PROVE TypeOK'
  <2>1. Goto(r, "count")
    BY <1>4 DEF VerifyWrong
  <2>2. att' \in [Requests -> AttemptType]
    BY <1>0, <2>1, AttemptMoves DEF Goto
  <2>3. guesses' \in Nat
    BY <1>4 DEF VerifyWrong, TypeOK
  <2> QED BY <1>4, <2>2, <2>3 DEF VerifyWrong, TypeOK
<1>5. ASSUME NEW r \in Requests, VerifyRight(r) PROVE TypeOK'
  <2>1. Goto(r, "clear") \/ Answer(r, "ok")
    BY <1>5 DEF VerifyRight
  <2>2. att' \in [Requests -> AttemptType]
    BY <1>0, <2>1, AttemptMoves DEF Goto, Answer
  <2> QED BY <1>5, <2>2 DEF VerifyRight, TypeOK
<1>6. ASSUME NEW r \in Requests, Count(r) PROVE TypeOK'
  <2>1. att' \in [Requests -> AttemptType]
    BY <1>0, <1>6, AttemptMoves DEF Count, CountAgainst, Goto, Answer
  <2>2. Size(att, {"find", "verify", "count"}) # 0
    <3>1. r \in Slots(att, {"find", "verify", "count"})
      BY <1>6 DEF Count, CountAgainst, At, Slots
    <3> QED BY <3>1, SizeType, FS_EmptySet DEF Size
  <2>3. failed + 1 <= MaxCount
    BY <2>2, SizeType, BoundsAssumption DEF Room, Arriving, TypeOK
  <2> QED BY <1>6, <2>1, <2>3, BoundsAssumption DEF Count, CountAgainst, TypeOK
<1>7. ASSUME NEW r \in Requests, Lock(r) PROVE TypeOK'
  BY <1>0, <1>7, AttemptMoves DEF Lock, Answer, TypeOK
<1>8. ASSUME NEW r \in Requests, Clear(r) PROVE TypeOK'
  <2>1. att' \in [Requests -> AttemptType]
    BY <1>0, <1>8, AttemptMoves DEF Clear, Answer
  <2> QED BY <1>0, <1>8, <2>1, BoundsAssumption DEF Clear, ClearRow, TypeOK
<1>9. ASSUME NEW r \in Requests, Reply(r) PROVE TypeOK'
  BY <1>0, <1>9, AttemptMoves DEF Reply, Leave, TypeOK
<1>10. ASSUME NEW r \in Requests, Fail(r) PROVE TypeOK'
  <2>1. att' \in [Requests -> AttemptType]
    <3>1. Become(r, NoAttempt)
      BY <1>10 DEF Fail
    <3>2. NoAttempt \in AttemptType
      BY DEF NoAttempt, AttemptType, Pcs, Statuses
    <3> QED BY <3>1, <3>2 DEF Become, TypeOK
  <2>2. lost' = lost \/ (lost < MaxLost /\ lost' = lost + 1)
    BY <1>10 DEF Fail
  <2>3. lost \in 0..MaxLost /\ MaxLost \in Nat
    BY BoundsAssumption DEF TypeOK
  <2>4. lost' \in 0..MaxLost
    BY <2>2, <2>3
  <2> QED BY <1>10, <2>1, <2>4 DEF Fail, Leave, TypeOK
<1>11. CASE SetPassword
  BY <1>0, <1>11, BoundsAssumption DEF SetPassword, ClearRow, TypeOK
<1>12. CASE LockEnds
  BY <1>0, <1>12 DEF LockEnds, TypeOK
<1>13. CASE UNCHANGED vars
  BY <1>13 DEF vars, TypeOK
<1> QED BY <1>1, <1>2, <1>3, <1>4, <1>5, <1>6, <1>7, <1>8, <1>9, <1>10, <1>11, <1>12, <1>13
        DEF Next

(* The counts follow every step of an attempt.                             *)
LEMMA BudgetStep == IInv /\ [Next]_vars => Budget'
<1> SUFFICES ASSUME IInv, [Next]_vars PROVE Budget'
  OBVIOUS
<1> DEFINE V == Verifying(att)
           C == Counting(att)
           F == Failing(att)
           A == Arriving(att)
           N == Cardinality(Requests)
           V1 == Verifying(att')
           C1 == Counting(att')
           F1 == Failing(att')
           A1 == Arriving(att')
<1> USE DEF history
<1>0. TypeOK /\ Budget
  BY DEF IInv
<1>1. /\ V \in Nat /\ C \in Nat /\ F \in Nat /\ A \in Nat /\ N \in Nat
      /\ V1 \in Nat /\ C1 \in Nat /\ F1 \in Nat /\ A1 \in Nat
      /\ V + F <= N /\ C <= F
  BY CountsType, SizeDisjoint
<1>2. /\ failed \in Nat /\ guesses \in Nat /\ lost \in Nat
      /\ MaxAttempts \in Nat \ {0} /\ MaxCount \in Nat /\ lock \in Locks
  BY <1>0, AttemptsAssumption, BoundsAssumption DEF TypeOK
<1>3. /\ failed + A <= MaxCount
      /\ guesses <= failed + C + lost
      /\ lock # "future" => guesses + 1 <= MaxAttempts + F + lost
      /\ lock = "future" => guesses + 1 + V <= MaxAttempts + N + lost
  BY <1>0 DEF Budget, Room, Counted, Unlocked, Locked
<1>4. ASSUME /\ failed' + A1 <= MaxCount
             /\ guesses' <= failed' + C1 + lost'
             /\ lock' # "future" => guesses' + 1 <= MaxAttempts + F1 + lost'
             /\ lock' = "future" => guesses' + 1 + V1 <= MaxAttempts + N + lost'
      PROVE  Budget'
  BY <1>4 DEF Budget, Room, Counted, Unlocked, Locked
<1>5. ASSUME NEW r \in Requests, NEW p, Moves(r, p)
      PROVE  /\ V1 + In(att[r].pc, {"verify"}) = V + In(p, {"verify"})
             /\ C1 + In(att[r].pc, {"count"}) = C + In(p, {"count"})
             /\ F1 + In(att[r].pc, {"count", "lock"}) = F + In(p, {"count", "lock"})
             /\ A1 + In(att[r].pc, {"find", "verify", "count"})
                  = A + In(p, {"find", "verify", "count"})
  BY <1>5, CountsMove
<1> HIDE DEF V, C, F, A, N, V1, C1, F1, A1
<1>7. ASSUME NEW r \in Requests, NEW g \in BOOLEAN, Begin(r, g) PROVE Budget'
  <2>1. Slots(att, {"find", "verify", "count"}) = InFlight({"find", "verify", "count"})
    BY DEF Slots, InFlight
  <2>2. failed + A < MaxCount
    BY <1>7, <2>1 DEF Begin, A, Arriving, Size
  <2>3. V1 = V /\ C1 = C /\ F1 = F /\ A1 = A + 1
    <3>1. att[r].pc = "idle" /\ Moves(r, "find")
      BY <1>0, <1>7, Movement DEF Begin, At
    <3> QED BY <1>1, <1>5, <3>1 DEF In
  <2> QED BY <1>1, <1>2, <1>3, <1>4, <1>7, <2>2, <2>3 DEF Begin
<1>8. ASSUME NEW r \in Requests, FindLocked(r) PROVE Budget'
  <2>1. V1 = V /\ C1 = C /\ F1 = F /\ A1 = A - 1
    <3>1. att[r].pc = "find" /\ Moves(r, "reply")
      BY <1>0, <1>8, Movement DEF FindLocked, At
    <3> QED BY <1>1, <1>5, <3>1 DEF In
  <2> QED BY <1>1, <1>2, <1>3, <1>4, <1>8, <2>1 DEF FindLocked
<1>9. ASSUME NEW r \in Requests, FindOpen(r) PROVE Budget'
  <2>1. V1 = V + 1 /\ C1 = C /\ F1 = F /\ A1 = A
    <3>1. att[r].pc = "find" /\ Moves(r, "verify")
      BY <1>0, <1>9, Movement DEF FindOpen, ReadRow, At
    <3> QED BY <1>1, <1>5, <3>1 DEF In
  <2> QED BY <1>1, <1>2, <1>3, <1>4, <1>9, <2>1 DEF FindOpen, ReadRow
<1>10. ASSUME NEW r \in Requests, VerifyWrong(r) PROVE Budget'
  <2>1. V1 = V - 1 /\ C1 = C + 1 /\ F1 = F + 1 /\ A1 = A
    <3>1. att[r].pc = "verify" /\ Moves(r, "count")
      BY <1>0, <1>10, Movement DEF VerifyWrong, At
    <3> QED BY <1>1, <1>5, <3>1 DEF In
  <2> QED BY <1>1, <1>2, <1>3, <1>4, <1>10, <2>1 DEF VerifyWrong
<1>11. ASSUME NEW r \in Requests, VerifyRight(r) PROVE Budget'
  <2>1. V1 = V - 1 /\ C1 = C /\ F1 = F /\ A1 = A - 1
    <3>1. att[r].pc = "verify" /\ (Moves(r, "clear") \/ Moves(r, "reply"))
      BY <1>0, <1>11, Movement DEF VerifyRight, At
    <3>2. CASE Moves(r, "clear")
      BY <1>1, <1>5, <3>1, <3>2 DEF In
    <3>3. CASE Moves(r, "reply")
      BY <1>1, <1>5, <3>1, <3>3 DEF In
    <3> QED BY <3>1, <3>2, <3>3
  <2> QED BY <1>1, <1>2, <1>3, <1>4, <1>11, <2>1 DEF VerifyRight
<1>12. ASSUME NEW r \in Requests, Count(r) PROVE Budget'
  <2>1. CASE failed + 1 >= MaxAttempts /\ Goto(r, "lock")
    <3>1. V1 = V /\ C1 = C - 1 /\ F1 = F /\ A1 = A - 1
      <4>1. att[r].pc = "count" /\ Moves(r, "lock")
        BY <1>0, <1>12, <2>1, Movement DEF Count, CountAgainst, At
      <4> QED BY <1>1, <1>5, <4>1 DEF In
    <3> QED BY <1>1, <1>2, <1>3, <1>4, <1>12, <3>1 DEF Count, CountAgainst
  <2>2. CASE failed + 1 < MaxAttempts /\ Answer(r, "invalid")
    <3>1. V1 = V /\ C1 = C - 1 /\ F1 = F - 1 /\ A1 = A - 1
      <4>1. att[r].pc = "count" /\ Moves(r, "reply")
        BY <1>0, <1>12, <2>2, Movement DEF Count, CountAgainst, At
      <4> QED BY <1>1, <1>5, <4>1 DEF In
    <3>2. C1 <= F1
      BY <1>1, <3>1
    <3>3. /\ failed' = failed + 1 /\ guesses' = guesses /\ lost' = lost /\ lock' = lock
      BY <1>12 DEF Count, CountAgainst
    <3> QED BY <1>1, <1>2, <1>3, <1>4, <2>2, <3>1, <3>2, <3>3
  <2> QED BY <1>12, <2>1, <2>2 DEF Count, CountAgainst
<1>13. ASSUME NEW r \in Requests, Lock(r) PROVE Budget'
  <2>1. V1 = V /\ C1 = C /\ F1 = F - 1 /\ A1 = A
    <3>1. att[r].pc = "lock" /\ Moves(r, "reply")
      BY <1>0, <1>13, Movement DEF Lock, At
    <3> QED BY <1>1, <1>5, <3>1 DEF In
  <2> QED BY <1>1, <1>2, <1>3, <1>4, <1>13, <2>1 DEF Lock
<1>14. ASSUME NEW r \in Requests, Clear(r) PROVE Budget'
  <2>1. V1 = V /\ C1 = C /\ F1 = F /\ A1 = A
    <3>1. att[r].pc = "clear" /\ Moves(r, "reply")
      BY <1>0, <1>14, Movement DEF Clear, At
    <3> QED BY <1>1, <1>5, <3>1 DEF In
  <2> QED BY <1>1, <1>2, <1>3, <1>4, <1>14, <2>1 DEF Clear, ClearRow
<1>15. ASSUME NEW r \in Requests, Reply(r) PROVE Budget'
  <2>1. V1 = V /\ C1 = C /\ F1 = F /\ A1 = A
    <3>1. att[r].pc = "reply" /\ Moves(r, "idle")
      BY <1>0, <1>15, Movement DEF Reply, At
    <3> QED BY <1>1, <1>5, <3>1 DEF In
  <2> QED BY <1>1, <1>2, <1>3, <1>4, <1>15, <2>1 DEF Reply
<1>16. ASSUME NEW r \in Requests, Fail(r) PROVE Budget'
  <2>1. /\ V1 + In(att[r].pc, {"verify"}) = V /\ C1 + In(att[r].pc, {"count"}) = C
        /\ F1 + In(att[r].pc, {"count", "lock"}) = F
        /\ A1 + In(att[r].pc, {"find", "verify", "count"}) = A
    <3>1. Moves(r, "idle")
      BY <1>0, <1>16, Movement DEF Fail
    <3> QED BY <1>1, <1>5, <3>1 DEF In
  <2>2. failed' = failed /\ guesses' = guesses /\ lock' = lock
    BY <1>16 DEF Fail
  <2>3. CASE att[r].pc \in {"count", "lock"}
    <3>1. lost' = lost + 1 /\ V1 = V /\ C1 + 1 >= C /\ F1 = F - 1 /\ A1 <= A
      BY <1>1, <1>16, <2>1, <2>3 DEF Fail, In
    <3> QED BY <1>1, <1>2, <1>3, <1>4, <2>2, <3>1
  <2>4. CASE att[r].pc \notin {"count", "lock"}
    <3>1. lost' = lost /\ V1 <= V /\ C1 = C /\ F1 = F /\ A1 <= A
      BY <1>1, <1>16, <2>1, <2>4 DEF Fail, In
    <3> QED BY <1>1, <1>2, <1>3, <1>4, <2>2, <3>1
  <2> QED BY <2>3, <2>4
<1>17. CASE SetPassword
  <2>1. V1 = V /\ C1 = C /\ F1 = F /\ A1 = A
    BY <1>17 DEF SetPassword, V, V1, C, C1, F, F1, A, A1
  <2> QED BY <1>1, <1>2, <1>3, <1>4, <1>17, <2>1 DEF SetPassword, ClearRow
<1>18. CASE LockEnds
  <2>1. V1 = V /\ C1 = C /\ F1 = F /\ A1 = A
    BY <1>18 DEF LockEnds, V, V1, C, C1, F, F1, A, A1
  <2> QED BY <1>1, <1>2, <1>3, <1>4, <1>18, <2>1 DEF LockEnds
<1>19. CASE UNCHANGED vars
  <2>1. V1 = V /\ C1 = C /\ F1 = F /\ A1 = A
    BY <1>19 DEF vars, V, V1, C, C1, F, F1, A, A1
  <2> QED BY <1>1, <1>2, <1>3, <1>4, <1>19, <2>1 DEF vars
<1> QED BY <1>7, <1>8, <1>9, <1>10, <1>11, <1>12, <1>13, <1>14, <1>15, <1>16, <1>17,
           <1>18, <1>19 DEF Next

(* In the initial state no slot is taken.                                  *)
LEMMA InitBudget == Init => IInv
<1> SUFFICES ASSUME Init PROVE IInv
  OBVIOUS
<1>1. TypeOK
  BY BoundsAssumption
  DEF Init, TypeOK, Locks, NoAttempt, AttemptType, Pcs, Statuses
<1>2. \A pcs : "idle" \notin pcs => Size(att, pcs) = 0
  BY FS_EmptySet DEF Init, NoAttempt, Size, Slots
<1>3. Arriving(att) = 0 /\ Counting(att) = 0 /\ Failing(att) = 0
  BY <1>2 DEF Arriving, Counting, Failing
<1>4. Budget
  BY <1>3, AttemptsAssumption, BoundsAssumption
  DEF Init, Budget, Room, Counted, Unlocked, Locked
<1> QED BY <1>1, <1>4 DEF IInv

(* The inductive invariant holds in every reachable state.                 *)
LEMMA Inductive == Spec => []IInv
<1>1. IInv /\ [Next]_vars => IInv'
  BY TypeStep, BudgetStep DEF IInv, Budget
<1> QED BY <1>1, InitBudget, PTL DEF Spec

-----------------------------------------------------------------------------
(* The counter stays a natural number within the bound, and every attempt  *)
(* is well typed.                                                          *)
THEOREM TypeCorrect == Spec => []TypeOK
<1>1. IInv => TypeOK
  BY DEF IInv
<1> QED BY <1>1, Inductive, PTL

(* However many attempts overlap, at most MaxAttempts - 1 + |Requests|     *)
(* wrong passwords, plus the attempts lost before their lock, are tried    *)
(* between two unlocks.                                                    *)
THEOREM BudgetCorrect == Spec => []GuessBudget
<1>1. IInv => GuessBudget
  <2> SUFFICES ASSUME IInv PROVE GuessBudget
    OBVIOUS
  <2>1. /\ Verifying(att) \in Nat /\ Failing(att) \in Nat /\ Cardinality(Requests) \in Nat
        /\ Failing(att) <= Cardinality(Requests)
    BY CountsType
  <2> QED BY <2>1, AttemptsAssumption
          DEF IInv, TypeOK, Locks, Budget, Unlocked, Locked, GuessBudget
<1> QED BY <1>1, Inductive, PTL

-----------------------------------------------------------------------------
(* Where an attempt may be that read something no one has cleared since.   *)
Owing(r) == \/ att[r].pc = "verify" /\ (att[r].good => att[r].dirty)
            \/ att[r].pc \in {"count", "lock", "clear"}
            \/ att[r].pc = "reply" /\ att[r].status # "ok"

Debts == \A r \in oldFailures \cup oldLock : Owing(r)

(* Every step keeps an attempt that read a dirty row on its way to clear   *)
(* it, to fail, or to end.                                                 *)
LEMMA DebtsStep == TypeOK /\ Debts /\ [Next]_vars => Debts'
<1> SUFFICES ASSUME TypeOK, Debts, [Next]_vars, NEW r \in (oldFailures \cup oldLock)'
             PROVE  Owing(r)'
  BY DEF Debts
<1> USE DEF history
<1>1. /\ oldFailures \in SUBSET Requests /\ oldLock \in SUBSET Requests
      /\ att \in [Requests -> AttemptType] /\ failed \in Nat
  BY BoundsAssumption DEF TypeOK
<1>2. ASSUME r \in oldFailures \cup oldLock, att'[r] = att[r] PROVE Owing(r)'
  BY <1>2 DEF Debts, Owing
<1>3. ASSUME NEW q \in Requests, NEW h, Become(q, h)
      PROVE  att'[q] = h /\ \A s \in Requests \ {q} : att'[s] = att[s]
  BY <1>1, <1>3 DEF Become
<1>4. ASSUME NEW q \in Requests, NEW g \in BOOLEAN, Begin(q, g) PROVE Owing(r)'
  <2>1. r \in oldFailures \cup oldLock /\ r # q
    BY <1>4 DEF Begin, At, Debts, Owing
  <2> QED BY <1>1, <1>2, <1>3, <1>4, <2>1 DEF Begin
<1>5. ASSUME NEW q \in Requests, FindLocked(q) PROVE Owing(r)'
  <2>1. r \in oldFailures \cup oldLock /\ r # q
    BY <1>5 DEF FindLocked, At, Debts, Owing
  <2> QED BY <1>1, <1>2, <1>3, <1>5, <2>1 DEF FindLocked, Answer
<1>6. ASSUME NEW q \in Requests, FindOpen(q) PROVE Owing(r)'
  <2>1. CASE r = q
    <3>1. failed > 0 \/ lock # "null"
      <4>1. r \notin oldFailures \cup oldLock
        BY <1>6, <2>1 DEF FindOpen, ReadRow, At, Debts, Owing
      <4> QED BY <1>6, <4>1 DEF FindOpen, ReadRow
    <3>2. att'[r] = [att[r] EXCEPT !.pc = "verify", !.dirty = failed > 0 \/ lock # "null"]
      BY <1>3, <1>6, <2>1 DEF FindOpen, ReadRow
    <3>3. att'[r].pc = "verify" /\ att'[r].dirty = (failed > 0 \/ lock # "null")
      BY <1>1, <1>6, <2>1, <3>2 DEF AttemptType
    <3> QED BY <3>1, <3>3 DEF Owing
  <2>2. CASE r # q
    <3>1. r \in oldFailures \cup oldLock
      BY <1>6, <2>2 DEF FindOpen, ReadRow
    <3> QED BY <1>1, <1>2, <1>3, <1>6, <2>2, <3>1 DEF FindOpen, ReadRow
  <2> QED BY <2>1, <2>2
<1>7. ASSUME NEW q \in Requests, VerifyWrong(q) PROVE Owing(r)'
  <2>1. r \in oldFailures \cup oldLock
    BY <1>7 DEF VerifyWrong
  <2>2. CASE r = q
    <3>1. att'[r] = [att[r] EXCEPT !.pc = "count"]
      BY <1>3, <1>7, <2>2 DEF VerifyWrong, Goto
    <3> QED BY <1>1, <2>1, <3>1 DEF AttemptType, Owing
  <2> QED BY <1>1, <1>2, <1>3, <1>7, <2>1, <2>2 DEF VerifyWrong, Goto
<1>8. ASSUME NEW q \in Requests, VerifyRight(q) PROVE Owing(r)'
  <2>1. r \in oldFailures \cup oldLock
    BY <1>8 DEF VerifyRight
  <2>2. CASE r = q
    <3>1. att[r].dirty
      BY <1>8, <2>1, <2>2 DEF VerifyRight, At, Debts, Owing
    <3>2. att'[r] = [att[r] EXCEPT !.pc = "clear"]
      BY <1>3, <1>8, <2>2, <3>1 DEF VerifyRight, Goto
    <3> QED BY <1>1, <2>1, <3>2 DEF AttemptType, Owing
  <2>3. CASE r # q
    <3>1. att'[r] = att[r]
      BY <1>1, <1>3, <1>8, <2>1, <2>3 DEF VerifyRight, Goto, Answer
    <3> QED BY <1>2, <2>1, <3>1
  <2> QED BY <2>2, <2>3
<1>9. ASSUME NEW q \in Requests, Count(q) PROVE Owing(r)'
  <2>1. r \in oldFailures \cup oldLock
    BY <1>9 DEF Count, CountAgainst
  <2>2. Goto(q, "lock") \/ Answer(q, "invalid")
    BY <1>9 DEF Count, CountAgainst
  <2>3. CASE r = q
    <3>1. \/ att'[r] = [att[r] EXCEPT !.pc = "lock"]
          \/ att'[r] = [att[r] EXCEPT !.pc = "reply", !.status = "invalid"]
      BY <1>3, <2>2, <2>3 DEF Goto, Answer
    <3> QED BY <1>1, <2>1, <3>1 DEF AttemptType, Owing
  <2>4. CASE r # q
    <3>1. att'[r] = att[r]
      BY <1>1, <1>3, <2>1, <2>2, <2>4 DEF Goto, Answer
    <3> QED BY <1>2, <2>1, <3>1
  <2> QED BY <2>3, <2>4
<1>10. ASSUME NEW q \in Requests, Lock(q) PROVE Owing(r)'
  <2>1. r \in oldFailures \cup oldLock
    BY <1>10 DEF Lock
  <2>2. CASE r = q
    <3>1. att'[r] = [att[r] EXCEPT !.pc = "reply", !.status = "invalid"]
      BY <1>3, <1>10, <2>2 DEF Lock, Answer
    <3> QED BY <1>1, <2>1, <3>1 DEF AttemptType, Owing
  <2> QED BY <1>1, <1>2, <1>3, <1>10, <2>1, <2>2 DEF Lock, Answer
<1>11. ASSUME NEW q \in Requests, Reply(q) \/ Fail(q) PROVE Owing(r)'
  <2>1. r \in oldFailures \cup oldLock /\ r # q
    BY <1>11 DEF Reply, Fail, Leave
  <2> QED BY <1>1, <1>2, <1>3, <1>11, <2>1 DEF Reply, Fail
<1>12. ASSUME NEW q \in Requests, Clear(q) PROVE FALSE
  BY <1>12 DEF Clear, ClearRow
<1>13. ~SetPassword
  BY DEF SetPassword, ClearRow
<1>14. ASSUME LockEnds \/ UNCHANGED vars PROVE Owing(r)'
  BY <1>2, <1>14 DEF LockEnds, vars
<1> QED BY <1>4, <1>5, <1>6, <1>7, <1>8, <1>9, <1>10, <1>11, <1>12, <1>13, <1>14 DEF Next

(* A login answered with success has left nothing of what it read: neither *)
(* failures nor a lock, for any number of attempts around it.              *)
THEOREM ForgetsCorrect == Spec => []SuccessForgets
<1>1. Init => Debts
  BY DEF Init, Debts
<1>2. Debts => SuccessForgets
  BY DEF Debts, Owing, SuccessForgets, At
<1>3. IInv => TypeOK
  BY DEF IInv
<1> QED BY <1>1, <1>2, <1>3, DebtsStep, Inductive, PTL DEF Spec

-----------------------------------------------------------------------------
(* An account whose counter has met the threshold stays locked, about to   *)
(* be locked, or has lost an attempt.                                      *)
LEMMA ThresholdStep == TypeOK /\ ThresholdLocks /\ [Next]_vars => ThresholdLocks'
<1> SUFFICES ASSUME TypeOK, ThresholdLocks, [Next]_vars,
                    failed' >= MaxAttempts, lock' = "null", ~(lost' > 0)
             PROVE  \E s \in Requests : att'[s].pc = "lock"
  BY DEF ThresholdLocks, InFlight
<1> USE DEF history
<1>1. /\ att \in [Requests -> AttemptType] /\ failed \in Nat /\ lost \in Nat
      /\ MaxAttempts \in Nat \ {0}
  BY AttemptsAssumption, BoundsAssumption DEF TypeOK
<1>2. ASSUME NEW q \in Requests, NEW p, Moves(q, p), att[q].pc # "lock",
             failed' = failed, lock' = lock, lost' = lost
      PROVE  \E s \in Requests : att'[s].pc = "lock"
  <2>1. PICK s \in Requests : att[s].pc = "lock"
    BY <1>2 DEF ThresholdLocks, InFlight
  <2> QED BY <1>2, <2>1 DEF Moves
<1>3. ASSUME NEW q \in Requests, NEW g \in BOOLEAN, Begin(q, g)
      PROVE  \E s \in Requests : att'[s].pc = "lock"
  BY <1>2, <1>3, Movement DEF Begin, At
<1>4. ASSUME NEW q \in Requests, FindLocked(q) \/ FindOpen(q) \/ VerifyWrong(q) \/ Reply(q)
      PROVE  \E s \in Requests : att'[s].pc = "lock"
  <2>1. att[q].pc # "lock" /\ failed' = failed /\ lock' = lock /\ lost' = lost
    BY <1>4 DEF FindLocked, FindOpen, ReadRow, VerifyWrong, Reply, At
  <2>2. \E p : Moves(q, p)
    BY <1>4, Movement DEF FindLocked, FindOpen, ReadRow, VerifyWrong, Reply
  <2> QED BY <1>2, <2>1, <2>2
<1>5. ASSUME NEW q \in Requests, VerifyRight(q)
      PROVE  \E s \in Requests : att'[s].pc = "lock"
  <2>1. Moves(q, "clear") \/ Moves(q, "reply")
    BY <1>5, Movement DEF VerifyRight
  <2>2. att[q].pc # "lock" /\ failed' = failed /\ lock' = lock /\ lost' = lost
    BY <1>5 DEF VerifyRight, At
  <2> QED BY <1>2, <2>1, <2>2
<1>6. ASSUME NEW q \in Requests, Count(q)
      PROVE  \E s \in Requests : att'[s].pc = "lock"
  <2>1. Goto(q, "lock")
    BY <1>1, <1>6 DEF Count, CountAgainst
  <2> QED BY <2>1, Movement DEF Moves
<1>7. ASSUME NEW q \in Requests, Lock(q) PROVE FALSE
  BY <1>7 DEF Lock
<1>8. ASSUME NEW q \in Requests, Clear(q) PROVE FALSE
  BY <1>1, <1>8 DEF Clear, ClearRow
<1>9. ASSUME NEW q \in Requests, Fail(q)
      PROVE  \E s \in Requests : att'[s].pc = "lock"
  <2>1. att[q].pc \notin {"count", "lock"} /\ lost' = lost
    BY <1>1, <1>9 DEF Fail
  <2>2. Moves(q, "idle") /\ failed' = failed /\ lock' = lock
    BY <1>9, Movement DEF Fail
  <2> QED BY <1>2, <2>1, <2>2
<1>10. ~LockEnds
  BY DEF LockEnds
<1>11. ~SetPassword
  BY <1>1 DEF SetPassword, ClearRow
<1>12. CASE UNCHANGED vars
  BY <1>12 DEF vars, ThresholdLocks, InFlight
<1> QED BY <1>3, <1>4, <1>5, <1>6, <1>7, <1>8, <1>9, <1>10, <1>11, <1>12 DEF Next

(* Meeting the threshold leads to the lock, unless the attempt that should *)
(* have locked the account was lost.                                       *)
THEOREM ThresholdCorrect == Spec => []ThresholdLocks
<1>1. Init => ThresholdLocks
  BY AttemptsAssumption DEF Init, ThresholdLocks
<1>2. IInv => TypeOK
  BY DEF IInv
<1> QED BY <1>1, <1>2, ThresholdStep, Inductive, PTL DEF Spec

-----------------------------------------------------------------------------
(* Attempts do not overlap between the argon2 verification of a password   *)
(* and the lock that a wrong one may lead to.                              *)
Apart == \A q, r \in InFlight({"verify", "count", "lock"}) : q = r

(* What the configured threshold says, but for the attempts lost before    *)
(* their lock.                                                             *)
Threshold == guesses <= MaxAttempts + lost

(* Nobody verifies a password while there is a lock.                       *)
Closed == lock = "future" => \A r \in Requests : ~At(r, "verify")

(* An attempt on its own finds no lock, and nobody about to set one.       *)
LEMMA AloneStep ==
  IInv /\ Closed /\ Threshold /\ Apart /\ Apart' /\ [Next]_vars => Closed' /\ Threshold'
<1> SUFFICES ASSUME IInv, Closed, Threshold, Apart, Apart', [Next]_vars
             PROVE  Closed' /\ Threshold'
  OBVIOUS
<1> USE DEF history
<1>1. /\ TypeOK /\ guesses \in Nat /\ lost \in Nat /\ MaxAttempts \in Nat \ {0}
      /\ guesses <= MaxAttempts + lost
  BY AttemptsAssumption, BoundsAssumption DEF IInv, TypeOK, Threshold
<1>2. ASSUME NEW r \in Requests, NEW p, Moves(r, p), p # "verify", UNCHANGED lock
      PROVE  Closed'
  BY <1>2 DEF Closed, Moves, At
<1>3. ASSUME guesses' = guesses \/ guesses' = 0, lost' = lost \/ lost' = lost + 1
      PROVE  Threshold'
  BY <1>1, <1>3 DEF Threshold
<1>4. ASSUME NEW r \in Requests, NEW g \in BOOLEAN, Begin(r, g) PROVE Closed' /\ Threshold'
  <2>1. Moves(r, "find") /\ UNCHANGED <<lock, guesses, lost>>
    BY <1>1, <1>4, Movement DEF Begin
  <2> QED BY <1>2, <1>3, <2>1
<1>5. ASSUME NEW r \in Requests, FindLocked(r) \/ Count(r) \/ VerifyRight(r) \/ Reply(r)
      PROVE  Closed' /\ Threshold'
  <2>1. UNCHANGED <<lock, guesses, lost>>
    BY <1>5 DEF FindLocked, Count, CountAgainst, VerifyRight, Reply
  <2>2. Moves(r, "reply") \/ Moves(r, "lock") \/ Moves(r, "clear") \/ Moves(r, "idle")
    BY <1>1, <1>5, Movement DEF FindLocked, Count, CountAgainst, VerifyRight, Reply
  <2> QED BY <1>2, <1>3, <2>1, <2>2
<1>6. ASSUME NEW r \in Requests, FindOpen(r) PROVE Closed' /\ Threshold'
  <2>1. lock' # "future" /\ UNCHANGED <<guesses, lost>>
    BY <1>6 DEF FindOpen, ReadRow
  <2> QED BY <1>3, <2>1 DEF Closed
<1>7. ASSUME NEW r \in Requests, VerifyWrong(r) PROVE Closed' /\ Threshold'
  <2>1. /\ At(r, "verify") /\ Moves(r, "count") /\ UNCHANGED <<lock, lost>>
        /\ guesses' = guesses + 1
    BY <1>1, <1>7, Movement DEF VerifyWrong
  <2>2. Slots(att, {"count", "lock"}) = {}
    BY <2>1 DEF Apart, InFlight, At, Slots
  <2>3. Failing(att) = 0
    BY <2>2, FS_EmptySet DEF Failing, Size
  <2>4. lock # "future"
    BY <2>1 DEF Closed
  <2>5. guesses + 1 <= MaxAttempts + Failing(att) + lost
    BY <2>4 DEF IInv, Budget, Unlocked
  <2>6. Threshold'
    BY <1>1, <2>1, <2>3, <2>5 DEF Threshold
  <2> QED BY <1>2, <2>1, <2>6
<1>8. ASSUME NEW r \in Requests, Lock(r) PROVE Closed' /\ Threshold'
  <2>1. At(r, "lock") /\ Moves(r, "reply") /\ UNCHANGED <<guesses, lost>>
    BY <1>1, <1>8, Movement DEF Lock
  <2>2. Closed'
    BY <2>1 DEF Apart, InFlight, Closed, At, Moves
  <2> QED BY <1>3, <2>1, <2>2
<1>9. ASSUME NEW r \in Requests, Clear(r) PROVE Closed' /\ Threshold'
  BY <1>3, <1>9 DEF Clear, ClearRow, Closed
<1>10. ASSUME NEW r \in Requests, Fail(r) PROVE Closed' /\ Threshold'
  <2>1. Moves(r, "idle") /\ UNCHANGED <<lock, guesses>> /\ (lost' = lost \/ lost' = lost + 1)
    BY <1>1, <1>10, Movement DEF Fail
  <2> QED BY <1>2, <1>3, <2>1
<1>11. CASE SetPassword
  BY <1>3, <1>11 DEF SetPassword, ClearRow, Closed
<1>12. CASE LockEnds
  BY <1>3, <1>12 DEF LockEnds, Closed
<1>13. CASE UNCHANGED vars
  BY <1>3, <1>13 DEF vars, Closed, At
<1> QED BY <1>4, <1>5, <1>6, <1>7, <1>8, <1>9, <1>10, <1>11, <1>12, <1>13 DEF Next

(* README.md:145: while attempts do not overlap, the threshold is the      *)
(* number of wrong passwords that are tried between two unlocks, but for   *)
(* the attempts lost before their lock.                                    *)
THEOREM ApartThreshold == Spec /\ []Apart => []Threshold
<1>1. Init => Closed /\ Threshold
  BY AttemptsAssumption DEF Init, Closed, Threshold
<1> QED BY <1>1, AloneStep, Inductive, PTL DEF Spec
=============================================================================
