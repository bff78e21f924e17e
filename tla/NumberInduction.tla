-------------------------- MODULE NumberInduction --------------------------
(***************************************************************************)
(* Induction over the natural numbers.  The library's induction theorems   *)
(* take an operator, so the principle is stated here of sets of numbers,   *)
(* and rests on the theorem that a non-empty set has a least element.      *)
(***************************************************************************)
EXTENDS Integers, WellFoundedInduction, TLAPS

\* A set of numbers that is not empty has a least one.
LEMMA LeastNumber ==
  ASSUME NEW T, T \subseteq Nat, T # {}
  PROVE  \E n \in T : \A m \in T : n <= m
<1>1. IsWellFoundedOn(OpToRel(<, Nat), Nat)
  BY NatLessThanWellFounded
<1>2. PICK n \in T : \A m \in T : ~(<<m, n>> \in OpToRel(<, Nat))
  BY <1>1, WFMin
<1>3. ASSUME NEW m \in T PROVE n <= m
  <2>1. ~(m < n)
    <3>1. m < n => <<m, n>> \in OpToRel(<, Nat)
      BY DEF OpToRel
    <3>. QED
      BY <1>2, <3>1, Zenon
  <2>. QED
    BY <2>1
<1>. QED
  BY <1>3

\* A set with 0, and with every number's successor, has them all.
LEMMA Induction ==
  ASSUME NEW T, 0 \in T, \A n \in Nat : n \in T => n + 1 \in T
  PROVE  \A n \in Nat : n \in T
<1> SUFFICES ASSUME Nat \ T # {} PROVE FALSE
  OBVIOUS
<1>1. PICK n \in Nat \ T : \A m \in Nat \ T : n <= m
  BY LeastNumber
<1>2. n # 0 /\ n - 1 \in Nat /\ ~(n <= n - 1) /\ n = (n - 1) + 1
  OBVIOUS
<1>3. n - 1 \in T
  BY <1>1, <1>2
<1>. QED
  BY <1>2, <1>3
=============================================================================
