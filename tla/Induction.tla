------------------------------ MODULE Induction ------------------------------
(***************************************************************************)
(* Induction over the natural numbers and over sequences, stated of a set. *)
(* What a recursive function computes is proved with it: first that there  *)
(* is a function as its definition describes, then what that function is.  *)
(***************************************************************************)
EXTENDS Integers, WellFoundedInduction, SequenceTheorems, TLAPS

Less == { p \in Nat \X Nat : p[1] < p[2] }

LEMMA LessIsWellFounded == IsWellFoundedOn(Less, Nat)
  <1>1. Less = OpToRel(<, Nat)
    BY DEF Less, OpToRel
  <1> QED
    BY <1>1, NatLessThanWellFounded

\* A set with 0 in it, and the successor of each of its numbers, has them all.
LEMMA SetInduction ==
    ASSUME NEW S, 0 \in S, \A n \in Nat : n \in S => n + 1 \in S
    PROVE  Nat \subseteq S
  <1> SUFFICES ASSUME NEW k \in Nat, k \notin S PROVE FALSE
    OBVIOUS
  <1> DEFINE rest == Nat \ S
  <1>1. k \in rest /\ rest \subseteq Nat
    OBVIOUS
  <1>2. PICK x \in rest : \A y \in rest : ~(<<y, x>> \in Less)
    <2> HIDE DEF rest
    <2> QED
      BY <1>1, LessIsWellFounded, WFMin
  <1>3. x \in Nat /\ x # 0
    OBVIOUS
  <1>4. x - 1 \in Nat /\ x - 1 < x /\ (x - 1) + 1 = x
    BY <1>3
  <1>5. <<x - 1, x>> \in Less
    BY <1>3, <1>4 DEF Less
  <1>6. x - 1 \in S
    BY <1>2, <1>4, <1>5
  <1> QED
    BY <1>4, <1>6

\* From the end to the beginning of a stretch.
LEMMA BackwardInduction ==
    ASSUME NEW n \in Nat, NEW S, n + 1 \in S,
           \A i \in 1 .. n : i + 1 .. n + 1 \subseteq S => i \in S
    PROVE  1 .. n + 1 \subseteq S
  <1> DEFINE D == { k \in Nat : \A i \in 1 .. n + 1 : i + k >= n + 1 => i \in S }
  <1>1. 0 \in D
    OBVIOUS
  <1>2. ASSUME NEW k \in Nat, k \in D PROVE k + 1 \in D
    <2> SUFFICES ASSUME NEW i \in 1 .. n + 1, i + (k + 1) >= n + 1, i # n + 1 PROVE i \in S
      OBVIOUS
    <2>1. \A j \in i + 1 .. n + 1 : j \in 1 .. n + 1 /\ j + k >= n + 1
      OBVIOUS
    <2> QED
      BY <1>2, <2>1
  <1> HIDE DEF D
  <1>3. n \in D
    BY <1>1, <1>2, SetInduction
  <1> QED
    BY <1>3 DEF D

\* Induction over sequences.
LEMMA SeqInduction ==
    ASSUME NEW T, NEW S, << >> \in S,
           \A s \in Seq(T), e \in T : s \in S => Append(s, e) \in S
    PROVE  Seq(T) \subseteq S
  <1> DEFINE N == { n \in Nat : \A s \in Seq(T) : Len(s) = n => s \in S }
  <1>1. 0 \in N
    <2> SUFFICES ASSUME NEW s \in Seq(T), Len(s) = 0 PROVE s \in S
      OBVIOUS
    <2>1. s = << >>
      OBVIOUS
    <2> QED
      BY <2>1
  <1>2. ASSUME NEW n \in Nat, n \in N PROVE n + 1 \in N
    <2> SUFFICES ASSUME NEW s \in Seq(T), Len(s) = n + 1 PROVE s \in S
      OBVIOUS
    <2>1. s # << >>
      BY EmptySeq
    <2>2. PICK front \in Seq(T), e \in T : s = Append(front, e)
      BY <2>1, SequenceEmptyOrAppend
    <2>3. Len(front) = n
      BY <2>2, AppendProperties
    <2> QED
      BY <1>2, <2>2, <2>3
  <1> HIDE DEF N
  <1>3. Nat \subseteq N
    BY <1>1, <1>2, SetInduction
  <1> SUFFICES ASSUME NEW s \in Seq(T) PROVE s \in S
    OBVIOUS
  <1>4. Len(s) \in N
    BY <1>3
  <1> QED
    BY <1>4 DEF N
=============================================================================
