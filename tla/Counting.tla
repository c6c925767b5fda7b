------------------------------- MODULE Counting -------------------------------
(***************************************************************************)
(* How many requests are in flight at a place, before and after a step     *)
(* that moves one of them: the lemmas that the counting invariants of      *)
(* several components rest on; and, at the end, induction over the numbers *)
(* up to a last one, for what a loop of the program has computed so far.   *)
(***************************************************************************)
EXTENDS Integers, FiniteSets, FiniteSetTheorems, TLAPS

(* One if r is among the elements of S.                                    *)
One(r, S) == IF r \in S THEN 1 ELSE 0

(* A part of a finite set is finite, and no larger.                        *)
LEMMA PartType ==
  ASSUME NEW R, IsFiniteSet(R), NEW A \in SUBSET R
  PROVE  /\ IsFiniteSet(A) /\ Cardinality(A) \in Nat /\ Cardinality(R) \in Nat
         /\ Cardinality(A) <= Cardinality(R)
BY FS_Subset, FS_CardinalityType

(* A part that leaves an element out is smaller than the whole.            *)
LEMMA PartWithout ==
  ASSUME NEW R, IsFiniteSet(R), NEW r \in R, NEW A \in SUBSET R, r \notin A
  PROVE  Cardinality(A) + 1 <= Cardinality(R)
<1>1. A \in SUBSET (R \ {r})
  OBVIOUS
<1>2. IsFiniteSet(R \ {r}) /\ Cardinality(R \ {r}) = Cardinality(R) - 1
  BY FS_RemoveElement
<1>3. Cardinality(A) <= Cardinality(R \ {r})
  BY <1>1, <1>2, FS_Subset
<1> QED BY <1>2, <1>3, PartType

(* One element moves: a count changes by whether it leaves and joins.      *)
LEMMA PartMove ==
  ASSUME NEW R, IsFiniteSet(R), NEW A \in SUBSET R, NEW B \in SUBSET R, NEW r,
         A \ {r} = B \ {r}
  PROVE  Cardinality(B) + One(r, A) = Cardinality(A) + One(r, B)
<1>1. IsFiniteSet(A) /\ Cardinality(A) \in Nat /\ IsFiniteSet(B) /\ Cardinality(B) \in Nat
  BY PartType
<1>2. CASE r \in A <=> r \in B
  <2>1. A = B
    BY <1>2
  <2> QED BY <1>1, <2>1
<1>3. CASE r \notin A /\ r \in B
  <2>1. B = A \cup {r}
    BY <1>3
  <2>2. Cardinality(B) = Cardinality(A) + 1
    BY <1>1, <1>3, <2>1, FS_AddElement
  <2> QED BY <1>1, <1>3, <2>2 DEF One
<1>4. CASE r \in A /\ r \notin B
  <2>1. A = B \cup {r}
    BY <1>4
  <2>2. Cardinality(A) = Cardinality(B) + 1
    BY <1>1, <1>4, <2>1, FS_AddElement
  <2> QED BY <1>1, <1>4, <2>2 DEF One
<1> QED BY <1>2, <1>3, <1>4

(* A part with an element is not empty.                                    *)
LEMMA PartMember ==
  ASSUME NEW R, IsFiniteSet(R), NEW A \in SUBSET R, NEW r \in A
  PROVE  1 <= Cardinality(A)
<1>1. Cardinality(A \ {r}) + One(r, A) = Cardinality(A) + One(r, A \ {r})
  <2>1. A \ {r} \in SUBSET R /\ A \ {r} = (A \ {r}) \ {r}
    OBVIOUS
  <2> QED BY <2>1, PartMove
<1>2. Cardinality(A \ {r}) \in Nat /\ Cardinality(A) \in Nat
  <2>1. A \ {r} \in SUBSET R
    OBVIOUS
  <2> QED BY <2>1, PartType
<1> QED BY <1>1, <1>2 DEF One

(* Two parts with nothing in common fit side by side.                      *)
LEMMA PartsApart ==
  ASSUME NEW R, IsFiniteSet(R), NEW A \in SUBSET R, NEW B \in SUBSET R, A \cap B = {}
  PROVE  Cardinality(A) + Cardinality(B) <= Cardinality(R)
<1>1. IsFiniteSet(A) /\ IsFiniteSet(B)
  BY PartType
<1>2. Cardinality(A \cup B) = Cardinality(A) + Cardinality(B)
  <2>1. Cardinality(A \cup B) = Cardinality(A) + Cardinality(B) - Cardinality(A \cap B)
    BY <1>1, FS_Union
  <2>2. Cardinality(A \cap B) = 0
    BY FS_EmptySet
  <2> QED BY <2>1, <2>2, PartType
<1>3. A \cup B \in SUBSET R
  OBVIOUS
<1>4. Cardinality(A \cup B) <= Cardinality(R)
  BY <1>3, PartType
<1> QED BY <1>2, <1>4

(* The same for every way of leaving, joining and staying.                 *)
LEMMA PartShift ==
  ASSUME NEW R, IsFiniteSet(R), NEW A \in SUBSET R, NEW B \in SUBSET R, NEW r,
         A \ {r} = B \ {r}
  PROVE  /\ Cardinality(A) \in Nat /\ Cardinality(B) \in Nat
         /\ Cardinality(B) <= Cardinality(A) + 1 /\ Cardinality(A) <= Cardinality(B) + 1
         /\ (r \in B => r \in A) => Cardinality(B) <= Cardinality(A)
         /\ (r \in A => r \in B) => Cardinality(A) <= Cardinality(B)
         /\ r \in A /\ r \notin B => Cardinality(B) + 1 <= Cardinality(A)
         /\ r \in B /\ r \notin A => Cardinality(A) + 1 <= Cardinality(B)
<1>1. Cardinality(B) + One(r, A) = Cardinality(A) + One(r, B)
  BY PartMove
<1>2. Cardinality(A) \in Nat /\ Cardinality(B) \in Nat
  BY PartType
<1> QED BY <1>1, <1>2 DEF One

-----------------------------------------------------------------------------
(* A set of numbers that is not empty has a least element.                 *)
LEMMA Least ==
  ASSUME NEW S \in SUBSET Nat, S # {}
  PROVE  \E n \in S : \A m \in S : n <= m
<1>1. PICK n \in S : \A m \in S : <<m, n>> \notin OpToRel(<, Nat)
  BY NatLessThanWellFounded, WFMin
<1>2. ASSUME NEW m \in S PROVE n <= m
  <2>1. ~(m < n)
    BY <1>1, <1>2 DEF OpToRel
  <2> QED BY <2>1
<1> QED BY <1>1, <1>2

(* Induction, on the numbers up to a last one: what holds of 0, and of the *)
(* successor of a number it holds of, holds of all.                        *)
LEMMA UpTo ==
  ASSUME NEW last \in Nat, NEW Holds \in SUBSET (0..last), 0 \in Holds,
         \A n \in 0..last : n \in Holds /\ n + 1 <= last => n + 1 \in Holds
  PROVE  Holds = 0..last
<1> SUFFICES ASSUME (0..last) \ Holds # {} PROVE FALSE
  OBVIOUS
<1>1. PICK n \in (0..last) \ Holds : \A m \in (0..last) \ Holds : n <= m
  <2>1. (0..last) \ Holds \in SUBSET Nat
    OBVIOUS
  <2> QED BY <2>1, Least
<1>2. n # 0 /\ n - 1 \in 0..last /\ n - 1 \in Holds
  BY <1>1
<1>3. (n - 1) + 1 = n
  OBVIOUS
<1> QED BY <1>1, <1>2, <1>3
=============================================================================
