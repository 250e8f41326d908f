--------------------------- MODULE InductionFacts ---------------------------
(***************************************************************************)
(* Induction over the natural numbers, in the form that the other proofs   *)
(* can use: of sets, where the library's theorems take an operator.  What  *)
(* a recursive function of a model computes for every input is proved with *)
(* them.                                                                   *)
(***************************************************************************)
EXTENDS Naturals, WellFoundedInduction, TLAPS

LessNat == {ss \in Nat \X Nat : ss[1] < ss[2]}

LEMMA LessNatWellFounded == IsWellFoundedOn(LessNat, Nat)
<1>1. OpToRel(<, Nat) = LessNat
  BY Zenon DEF OpToRel, LessNat
<1> QED  BY <1>1, NatLessThanWellFounded, Zenon

(* A set of numbers has a least one. *)
LEMMA Least ==
  ASSUME NEW T, T \subseteq Nat, T # {}
  PROVE  \E x \in T : \A y \in T : x <= y
<1>1. PICK x \in T : \A y \in T : ~(<<y, x>> \in LessNat)
  BY WFMin, LessNatWellFounded, Zenon
<1>2. ASSUME NEW y \in T PROVE x <= y
  <2>1. y \in Nat /\ x \in Nat /\ ~(<<y, x>> \in LessNat)
    BY <1>1
  <2>2. y < x => <<y, x>> \in LessNat
    <3>1. <<y, x>> \in Nat \X Nat /\ <<y, x>>[1] = y /\ <<y, x>>[2] = x
      BY <2>1
    <3> QED  BY <3>1, Zenon DEF LessNat
  <2> QED  BY <2>1, <2>2
<1> QED  BY <1>2

(* Induction upwards: what holds of 0, and of x + 1 when it holds of x,    *)
(* holds from 0 to m.                                                      *)
LEMMA Upwards ==
  ASSUME NEW m \in Nat, NEW S, 0 \in S,
         \A x \in 0..m : x # m /\ x \in S => x + 1 \in S
  PROVE  0..m \subseteq S
<1> DEFINE T == {k \in 0..m : k \notin S}
<1>1. CASE T = {}
  BY <1>1
<1>2. CASE T # {}
  <2>1. PICK k \in T : \A j \in T : k <= j
    <3>1. T \subseteq Nat
      OBVIOUS
    <3> HIDE DEF T
    <3> QED  BY <1>2, <3>1, Least
  <2>2. k \in 0..m /\ k \notin S /\ k # 0
    BY <2>1
  <2>3. k - 1 \in 0..m /\ k - 1 # m /\ (k - 1) + 1 = k /\ ~(k <= k - 1)
    BY <2>2
  <2>4. k - 1 \in S
    BY <2>1, <2>3
  <2> QED  BY <2>2, <2>3, <2>4
<1> QED  BY <1>1, <1>2

(* Induction downwards: what holds of x when it holds of all above it, up  *)
(* to m, holds from 0 to m.                                                *)
LEMMA Downwards ==
  ASSUME NEW m \in Nat, NEW S,
         \A x \in 0..m : (\A y \in x + 1 .. m : y \in S) => x \in S
  PROVE  0..m \subseteq S
<1> DEFINE T == {k \in 0..m : m - k \notin S}
<1>1. CASE T = {}
  <2> SUFFICES ASSUME NEW x \in 0..m PROVE x \in S
    OBVIOUS
  <2>1. m - x \in 0..m /\ m - (m - x) = x
    OBVIOUS
  <2> QED  BY <1>1, <2>1
<1>2. CASE T # {}
  <2>1. PICK k \in T : \A j \in T : k <= j
    <3>1. T \subseteq Nat
      OBVIOUS
    <3> HIDE DEF T
    <3> QED  BY <1>2, <3>1, Least
  <2>2. m - k \in 0..m /\ m - k \notin S /\ k \in 0..m
    BY <2>1
  <2>3. ASSUME NEW y \in (m - k) + 1 .. m PROVE y \in S
    <3>1. m - y \in 0..m /\ m - (m - y) = y /\ ~(k <= m - y)
      BY <2>2
    <3> QED  BY <2>1, <3>1
  <2> QED  BY <2>2, <2>3
<1> QED  BY <1>1, <1>2
=============================================================================
