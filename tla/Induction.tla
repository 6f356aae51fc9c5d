----------------------------- MODULE Induction -----------------------------
(***************************************************************************)
(* Induction over the naturals, stated for a set instead of a predicate,   *)
(* so that the provers can use it: the set is {n \in Nat : P(n)}.          *)
(***************************************************************************)
EXTENDS Integers, WellFoundedInduction, TLAPS

(* A set that holds 0 and the successor of each of its naturals holds all  *)
(* naturals: else it would lack a least one.                               *)
LEMMA SetInduction ==
  ASSUME NEW S, 0 \in S, \A n \in Nat : n \in S => n + 1 \in S
  PROVE  Nat \subseteq S
  <1> DEFINE Lacking == Nat \ S
             Less == OpToRel(<, Nat)
  <1>1. IsWellFoundedOn(Less, Nat)
    BY NatLessThanWellFounded, Zenon
  <1>2. ASSUME Lacking # {}
        PROVE  FALSE
    <2>1. Lacking \subseteq Nat
      OBVIOUS
    <2> HIDE DEF Less, Lacking
    <2>2. PICK x \in Lacking : \A y \in Lacking : ~ (<<y, x>> \in Less)
      BY <1>1, <1>2, <2>1, WFMin
    <2> USE DEF Lacking
    <2>3. x # 0 /\ x - 1 \in Nat
      OBVIOUS
    <2>4. <<x - 1, x>> \in Less
      BY <2>3 DEF Less, OpToRel
    <2>5. x - 1 \in S
      BY <2>2, <2>3, <2>4
    <2>6. x \in S
      BY <2>3, <2>5
    <2>7. QED  BY <2>6
  <1>3. QED  BY <1>2

(* The same from 0 to n.                                                   *)
LEMMA IntervalInduction ==
  ASSUME NEW n \in Nat, NEW S, 0 \in S,
         \A k \in 0 .. n - 1 : k \in S => k + 1 \in S
  PROVE  0 .. n \subseteq S
  <1> DEFINE T == {k \in Nat : k <= n => k \in S}
  <1>1. 0 \in T
    OBVIOUS
  <1>2. \A k \in Nat : k \in T => k + 1 \in T
    OBVIOUS
  <1> HIDE DEF T
  <1>3. Nat \subseteq T
    BY <1>1, <1>2, SetInduction
  <1>4. QED  BY <1>3 DEF T

=============================================================================
