--------------------------- MODULE InductionFacts ---------------------------
(* Induction over the naturals, stated for sets so that a proof can use it   *)
(* without an operator parameter.                                            *)
EXTENDS Naturals, TLAPS, WellFoundedInduction

\* A set of naturals that is not empty has a least element.
LEMMA LeastNatural ==
    ASSUME NEW T, T \subseteq Nat, T # {}
    PROVE  \E x \in T : \A y \in T : x <= y
<1>. DEFINE R == {ss \in Nat \X Nat : ss[1] < ss[2]}
<1>1. IsWellFoundedOn(R, Nat)
    BY NatLessThanWellFounded DEF OpToRel
<1>2. PICK x \in T : \A y \in T : ~ (<<y, x>> \in R)
  <2>. HIDE DEF R
  <2>. QED BY <1>1, WFMin
<1>3. \A y \in T : ~(y < x)
    BY <1>2
<1>. QED BY <1>3

\* A set that holds 0 and, with every number, the next one, holds them all.
LEMMA SetInduction ==
    ASSUME NEW S, 0 \in S, \A n \in Nat : n \in S => n + 1 \in S
    PROVE  Nat \subseteq S
<1>. SUFFICES ASSUME Nat \ S # {} PROVE FALSE
    OBVIOUS
<1>1. PICK x \in Nat \ S : \A y \in Nat \ S : x <= y
  <2>. DEFINE T == Nat \ S
  <2>1. T \subseteq Nat /\ T # {}
      OBVIOUS
  <2>. HIDE DEF T
  <2>2. \E x \in T : \A y \in T : x <= y
      BY <2>1, LeastNatural
  <2>. QED BY <2>2 DEF T
<1>2. x # 0 /\ x - 1 \in Nat /\ x - 1 < x /\ (x - 1) + 1 = x
    OBVIOUS
<1>3. x - 1 \in S
    BY <1>1, <1>2
<1>. QED BY <1>2, <1>3
=============================================================================
