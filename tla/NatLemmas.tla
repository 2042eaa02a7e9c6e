------------------------------- MODULE NatLemmas -------------------------------
(***************************************************************************)
(* Least and greatest elements of sets of naturals: Min and Max of the      *)
(* community modules are choices, and these say that there is something to   *)
(* choose.                                                                   *)
(***************************************************************************)
EXTENDS Integers, FiniteSets, FiniteSetsExt, FiniteSetTheorems, WellFoundedInduction, TLAPS

\* Every non-empty set of naturals has a least element: Min is well defined.
LEMMA MinOfNats ==
    ASSUME NEW I, I \subseteq Nat, I # {}
    PROVE  /\ Min(I) \in I
           /\ \A k \in I : Min(I) <= k
<1>1. \E x \in I : \A y \in I : ~ (<<y, x>> \in OpToRel(<, Nat))
  BY NatLessThanWellFounded, WFMin
<1>2. \E x \in I : \A y \in I : x <= y
  <2>1. PICK x \in I : \A y \in I : ~ (<<y, x>> \in OpToRel(<, Nat))
    BY <1>1
  <2>2. ASSUME NEW y \in I
        PROVE  x <= y
    <3>1. x \in Nat /\ y \in Nat /\ <<y, x>> \in Nat \X Nat
      OBVIOUS
    <3>2. ~ (y < x)
      BY <2>1, <3>1, Zenon DEF OpToRel
    <3> QED
      BY <3>1, <3>2
  <2> QED
    BY <2>2
<1> QED
  BY <1>2 DEF Min

\* A bounded, non-empty set of naturals has a greatest element.
LEMMA MaxOfNats ==
    ASSUME NEW I, I \subseteq Nat, I # {}, NEW n \in Nat, \A k \in I : k <= n
    PROVE  /\ Max(I) \in I
           /\ \A k \in I : k <= Max(I)
<1> DEFINE Bounds == {m \in Nat : \A k \in I : k <= m}
           b == Min(Bounds)
<1>1. /\ b \in Nat
      /\ \A k \in I : k <= b
      /\ \A m \in Bounds : b <= m
  <2>1. Bounds \subseteq Nat /\ Bounds # {}
    OBVIOUS
  <2>2. b \in Bounds /\ \A m \in Bounds : b <= m
    BY <2>1, MinOfNats
  <2> QED
    BY <2>2
<1> HIDE DEF b
<1>2. b \in I
  <2>1. SUFFICES ASSUME b \notin I
                 PROVE  FALSE
    OBVIOUS
  <2>2. PICK k \in I : TRUE
    OBVIOUS
  <2>3. \A m \in I : m <= b - 1
    BY <1>1, <2>1
  <2>4. b - 1 \in Nat /\ b - 1 \in Bounds
    BY <1>1, <2>2, <2>3
  <2> QED
    BY <1>1, <2>4
<1>3. \E x \in I : \A y \in I : x >= y
  BY <1>1, <1>2
<1>4. Max(I) \in I /\ \A y \in I : Max(I) >= y
  BY <1>3 DEF Max
<1> QED
  BY <1>4

\* Membership, counted.
LEMMA CountOne ==
    ASSUME NEW S, NEW i
    PROVE  Cardinality(S \cap {i}) = IF i \in S THEN 1 ELSE 0
<1>1. CASE i \in S
  <2>1. S \cap {i} = {i}
    BY <1>1
  <2> QED
    BY <1>1, <2>1, FS_Singleton
<1>2. CASE i \notin S
  <2>1. S \cap {i} = {}
    BY <1>2
  <2> QED
    BY <1>2, <2>1, FS_EmptySet
<1> QED
  BY <1>1, <1>2
=============================================================================
