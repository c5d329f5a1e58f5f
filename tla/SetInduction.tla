---------------------------- MODULE SetInduction ----------------------------
(***************************************************************************)
(* Induction over the natural numbers and over finite sets, as statements  *)
(* about sets: a set of numbers that has 0 and successors has them all.    *)
(* They rest on the well-foundedness of the naturals.                      *)
(***************************************************************************)
EXTENDS Naturals, FiniteSets, FiniteSetTheorems, WellFoundedInduction, TLAPS

\* A set of natural numbers has a least element.
LEMMA LeastNat ==
    ASSUME NEW T \in SUBSET Nat, T # {}
    PROVE  \E x \in T : \A y \in T : x <= y
  <1> DEFINE R == OpToRel(<, Nat)
  <1>1. IsWellFoundedOn(R, Nat)
    BY NatLessThanWellFounded
  <1>2. \A x, y \in Nat : x < y => <<x, y>> \in R
    BY DEF OpToRel
  <1> HIDE DEF R
  <1>3. PICK x \in T : \A y \in T : ~ (<<y, x>> \in R)
    BY <1>1, WFMin
  <1>4. ASSUME NEW y \in T PROVE x <= y
    <2>1. x \in Nat /\ y \in Nat
      OBVIOUS
    <2>2. ~ (y < x)
      BY <1>2, <1>3, <2>1
    <2>3. QED
      BY <2>1, <2>2
  <1>5. QED
    BY <1>4

\* Induction over the natural numbers, for a set of numbers.
LEMMA Induction ==
    ASSUME NEW S, 0 \in S, \A n \in Nat : n \in S => n + 1 \in S
    PROVE  Nat \subseteq S
  <1> SUFFICES ASSUME Nat \ S # {} PROVE FALSE
    OBVIOUS
  <1>1. PICK n \in Nat \ S : \A m \in Nat \ S : n <= m
    BY LeastNat
  <1>2. n - 1 \in Nat /\ ~ (n <= n - 1) /\ (n - 1) + 1 = n
    OBVIOUS
  <1>3. n - 1 \in S
    BY <1>1, <1>2
  <1>4. QED
    BY <1>2, <1>3

\* Induction over the subsets of a finite set, by their size.
LEMMA SubsetInduction ==
    ASSUME NEW S, IsFiniteSet(S), NEW P \in SUBSET (SUBSET S),
           \A s \in SUBSET S : (\A x \in s : s \ {x} \in P) => s \in P
    PROVE  P = SUBSET S
  <1> DEFINE Sizes == {n \in Nat : \A s \in SUBSET S : Cardinality(s) = n => s \in P}
  <1>1. \A s \in SUBSET S : IsFiniteSet(s) /\ Cardinality(s) \in Nat
    BY FS_Subset, FS_CardinalityType
  <1>2. 0 \in Sizes
    BY <1>1, FS_EmptySet
  <1>3. ASSUME NEW n \in Nat, n \in Sizes PROVE n + 1 \in Sizes
    <2>1. ASSUME NEW s \in SUBSET S, Cardinality(s) = n + 1 PROVE s \in P
      <3>1. ASSUME NEW x \in s PROVE s \ {x} \in P
        <4>1. IsFiniteSet(s) /\ s \ {x} \in SUBSET S
          BY <1>1
        <4>2. Cardinality(s \ {x}) = Cardinality(s) - 1
          BY <4>1, FS_RemoveElement, Zenon
        <4>3. Cardinality(s \ {x}) = n
          BY <2>1, <4>2
        <4>4. QED
          BY <1>3, <4>1, <4>3
      <3>2. QED
        BY <3>1
    <2>2. QED
      BY <2>1
  <1>4. Nat \subseteq Sizes
    <2> HIDE DEF Sizes
    <2>1. QED
      BY <1>2, <1>3, Induction
  <1>5. QED
    BY <1>1, <1>4
=============================================================================
