--------------------------- MODULE PaymentProofs ---------------------------
(***************************************************************************)
(* The sums of Payment, over finite sets, and what follows from them:      *)
(* Total is a fold over an arbitrary choice of elements, and is shown to   *)
(* be the sum that it is meant to be.                                      *)
(*                                                                         *)
(* Nothing assigned to a spent output is left behind, for every stock,     *)
(* wallet and invoice.  The argument is about what the later steps read    *)
(* again: the main and the extra transitions are computed from the         *)
(* selected outputs at different times, and together they cover the stock  *)
(* only because neither the selection nor the stock changes in between and *)
(* the transaction spends the selected outputs and no others.              *)
(***************************************************************************)
EXTENDS Payment, SetInduction

-----------------------------------------------------------------------------
(* The fold of Total.                                                      *)

First(s) == CHOOSE x \in s : TRUE

\* iter adds up f over the subsets of S, an arbitrary element first.
Unfolds(iter, f, S) ==
    iter = [s \in SUBSET S |-> IF s = {} THEN 0 ELSE f[First(s)] + iter[s \ {First(s)}]]

LEMMA FirstIn == \A s : s # {} => First(s) \in s
  BY DEF First

LEMMA TotalIsFold ==
    ASSUME NEW f, NEW S
    PROVE  Total(f, S) = (CHOOSE iter : Unfolds(iter, f, S))[S]
  BY DEF Total, MapThenSumSet, MapThenFoldSet, Unfolds, First

\* There is such a function: it is built for larger and larger subsets.
LEMMA FoldExists ==
    ASSUME NEW f, NEW S, IsFiniteSet(S)
    PROVE  \E iter : Unfolds(iter, f, S)
  <1> DEFINE Upto(n) == {s \in SUBSET S : Cardinality(s) <= n}
             Added(g, s) == IF s = {} THEN 0 ELSE f[First(s)] + g[s \ {First(s)}]
             Built == {n \in Nat : \E g : g = [s \in Upto(n) |-> Added(g, s)]}
  <1>1. \A s \in SUBSET S : IsFiniteSet(s) /\ Cardinality(s) \in Nat
    BY FS_Subset, FS_CardinalityType
  <1>2. \A n \in Nat : \A s \in Upto(n + 1) : s # {} => s \ {First(s)} \in Upto(n)
    BY <1>1, FirstIn, FS_RemoveElement
  <1>3. 0 \in Built
    <2>1. Upto(0) = {{}}
      BY <1>1, FS_EmptySet
    <2> DEFINE g == [s \in Upto(0) |-> 0]
    <2>2. g = [s \in Upto(0) |-> Added(g, s)]
      BY <2>1
    <2>3. QED
      BY <2>2
  <1>4. ASSUME NEW n \in Nat, n \in Built PROVE n + 1 \in Built
    <2>1. PICK g : g = [s \in Upto(n) |-> Added(g, s)]
      BY <1>4
    <2> DEFINE h == [s \in Upto(n + 1) |-> Added(g, s)]
    <2>2. Upto(n) \subseteq Upto(n + 1)
      BY <1>1
    <2>3. \A s \in Upto(n) : h[s] = g[s]
      <3> HIDE DEF Added, Upto
      <3>1. QED
        BY <2>1, <2>2
    <2>4. \A s \in Upto(n + 1) : Added(g, s) = Added(h, s)
      <3> HIDE DEF Upto, h
      <3>1. QED
        BY <1>2, <2>3
    <2>5. h = [s \in Upto(n + 1) |-> Added(h, s)]
      <3>1. h = [s \in Upto(n + 1) |-> Added(g, s)]
        OBVIOUS
      <3> HIDE DEF Upto, h, Added
      <3>2. QED
        BY <2>4, <3>1
    <2>6. QED
      <3> HIDE DEF Upto, h, Added
      <3>1. QED
        BY <2>5
  <1>5. Nat \subseteq Built
    <2> HIDE DEF Built
    <2>1. QED
      BY <1>3, <1>4, Induction
  <1>6. Cardinality(S) \in Nat /\ Upto(Cardinality(S)) = SUBSET S
    BY <1>1, FS_CardinalityType, FS_Subset
  <1>7. PICK g : g = [s \in SUBSET S |-> Added(g, s)]
    <2> HIDE DEF Upto, Added
    <2>1. QED
      BY <1>5, <1>6
  <1>8. QED
    BY <1>7 DEF Unfolds

\* Two such functions agree where both are defined.
LEMMA FoldUnique ==
    ASSUME NEW f, NEW S, IsFiniteSet(S), NEW T \in SUBSET S,
           NEW g, Unfolds(g, f, S), NEW h, Unfolds(h, f, T)
    PROVE  \A s \in SUBSET T : g[s] = h[s]
  <1> DEFINE P == {s \in SUBSET T : g[s] = h[s]}
  <1>1. IsFiniteSet(T)
    BY FS_Subset
  <1>2. ASSUME NEW s \in SUBSET T, \A x \in s : s \ {x} \in P PROVE s \in P
    <2>1. CASE s = {}
      BY <2>1 DEF Unfolds
    <2>2. CASE s # {}
      <3>1. g[s \ {First(s)}] = h[s \ {First(s)}]
        BY <1>2, <2>2, FirstIn
      <3>2. g[s] = f[First(s)] + g[s \ {First(s)}]
        BY <2>2 DEF Unfolds
      <3>3. h[s] = f[First(s)] + h[s \ {First(s)}]
        BY <2>2 DEF Unfolds
      <3>4. QED
        BY <3>1, <3>2, <3>3
    <2>3. QED
      BY <2>1, <2>2
  <1>3. P = SUBSET T
    <2>1. P \in SUBSET (SUBSET T)
      OBVIOUS
    <2> HIDE DEF P
    <2>2. QED
      BY <1>1, <1>2, <2>1, SubsetInduction
  <1>4. QED
    BY <1>3

\* Nothing adds up to zero; else the element chosen first is added.
LEMMA TotalUnfolds ==
    ASSUME NEW f, NEW S, IsFiniteSet(S)
    PROVE  /\ Total(f, {}) = 0
           /\ S # {} => Total(f, S) = f[First(S)] + Total(f, S \ {First(S)})
  <1> DEFINE iter(T) == CHOOSE i : Unfolds(i, f, T)
  <1>1. ASSUME NEW T \in SUBSET S PROVE Unfolds(iter(T), f, T)
    BY FS_Subset, FoldExists
  <1>2. \A T : Total(f, T) = iter(T)[T]
    BY TotalIsFold
  <1> HIDE DEF iter
  <1>3. Total(f, {}) = 0
    <2>1. Unfolds(iter({}), f, {})
      BY <1>1
    <2>2. QED
      BY <1>2, <2>1 DEF Unfolds
  <1>4. ASSUME S # {} PROVE Total(f, S) = f[First(S)] + Total(f, S \ {First(S)})
    <2> DEFINE T == S \ {First(S)}
    <2>1. iter(S)[S] = f[First(S)] + iter(S)[T]
      BY <1>1, <1>4 DEF Unfolds
    <2>2. iter(S)[T] = iter(T)[T]
      BY <1>1, FoldUnique
    <2>3. QED
      BY <1>2, <2>1, <2>2
  <1>5. QED
    BY <1>3, <1>4

\* The sum of natural numbers is one.
LEMMA TotalNat ==
    ASSUME NEW D, NEW f \in [D -> Nat], NEW S \in SUBSET D, IsFiniteSet(S)
    PROVE  Total(f, S) \in Nat
  <1> DEFINE P == {s \in SUBSET S : Total(f, s) \in Nat}
  <1>1. ASSUME NEW s \in SUBSET S, \A x \in s : s \ {x} \in P PROVE s \in P
    <2>1. IsFiniteSet(s)
      BY FS_Subset
    <2>2. CASE s = {}
      <3>1. Total(f, {}) = 0
        BY <2>1, TotalUnfolds
      <3>2. QED
        BY <2>2, <3>1
    <2>3. CASE s # {}
      <3>1. First(s) \in s /\ Total(f, s \ {First(s)}) \in Nat
        BY <1>1, <2>3, FirstIn
      <3>2. f[First(s)] \in Nat
        BY <3>1
      <3>3. QED
        BY <2>1, <2>3, <3>1, <3>2, TotalUnfolds
    <2>4. QED
      BY <2>2, <2>3
  <1>2. P \in SUBSET (SUBSET S)
    OBVIOUS
  <1> HIDE DEF P
  <1>3. P = SUBSET S
    BY <1>1, <1>2, SubsetInduction
  <1>4. QED
    BY <1>3 DEF P

\* Any element may be added last, not only the one the fold chooses.
LEMMA TotalRemove ==
    ASSUME NEW D, NEW f \in [D -> Nat], NEW S \in SUBSET D, IsFiniteSet(S), NEW y \in S
    PROVE  Total(f, S) = f[y] + Total(f, S \ {y})
  <1> DEFINE P == {s \in SUBSET S : \A z \in s : Total(f, s) = f[z] + Total(f, s \ {z})}
  <1>1. \A s \in SUBSET S : IsFiniteSet(s) /\ Total(f, s) \in Nat
    BY FS_Subset, TotalNat
  <1>2. ASSUME NEW s \in SUBSET S, \A x \in s : s \ {x} \in P PROVE s \in P
    <2> SUFFICES ASSUME NEW z \in s PROVE Total(f, s) = f[z] + Total(f, s \ {z})
      OBVIOUS
    <2> DEFINE x == First(s)
    <2>1. x \in s /\ Total(f, s) = f[x] + Total(f, s \ {x})
      BY <1>1, FirstIn, TotalUnfolds
    <2> HIDE DEF x
    <2>2. CASE z = x
      BY <2>1, <2>2
    <2>3. CASE z # x
      <3>1. Total(f, s \ {x}) = f[z] + Total(f, (s \ {x}) \ {z})
        BY <1>2, <2>1, <2>3
      <3>2. Total(f, s \ {z}) = f[x] + Total(f, (s \ {z}) \ {x})
        BY <1>2, <2>1, <2>3
      <3> DEFINE others == Total(f, (s \ {x}) \ {z})
      <3>3. (s \ {x}) \ {z} = (s \ {z}) \ {x}
        OBVIOUS
      <3>4. f[x] \in Nat /\ f[z] \in Nat /\ others \in Nat
        BY <1>1, <2>1
      <3>5. f[x] + (f[z] + others) = f[z] + (f[x] + others)
        <4> HIDE DEF others
        <4>1. QED
          BY <3>4
      <3>6. QED
        BY <2>1, <3>1, <3>2, <3>3, <3>5
    <2>4. QED
      BY <2>2, <2>3
  <1>3. P \in SUBSET (SUBSET S)
    OBVIOUS
  <1>4. P = SUBSET S
    <2> HIDE DEF P
    <2>1. QED
      BY <1>2, <1>3, SubsetInduction
  <1>5. QED
    BY <1>4

\* What is added to the set is added to the sum.
LEMMA TotalAdd ==
    ASSUME NEW D, NEW f \in [D -> Nat], NEW S \in SUBSET D, IsFiniteSet(S),
           NEW y \in D, y \notin S
    PROVE  Total(f, S \cup {y}) = f[y] + Total(f, S)
  <1>1. IsFiniteSet(S \cup {y}) /\ (S \cup {y}) \ {y} = S /\ S \cup {y} \in SUBSET D
    BY FS_AddElement
  <1>2. Total(f, S \cup {y}) = f[y] + Total(f, (S \cup {y}) \ {y})
    BY <1>1, TotalRemove
  <1>3. QED
    BY <1>1, <1>2

\* Disjoint sets add up.
LEMMA TotalUnion ==
    ASSUME NEW D, IsFiniteSet(D), NEW f \in [D -> Nat], NEW S \in SUBSET D,
           NEW T \in SUBSET D, S \cap T = {}
    PROVE  Total(f, S \cup T) = Total(f, S) + Total(f, T)
  <1> DEFINE P == {s \in SUBSET S : Total(f, s \cup T) = Total(f, s) + Total(f, T)}
  <1>1. \A s \in SUBSET D : IsFiniteSet(s) /\ Total(f, s) \in Nat
    BY FS_Subset, TotalNat
  <1>2. ASSUME NEW s \in SUBSET S, \A x \in s : s \ {x} \in P PROVE s \in P
    <2>1. CASE s = {}
      <3>1. Total(f, {}) = 0 /\ s \cup T = T
        BY <1>1, <2>1, TotalUnfolds
      <3>2. QED
        BY <1>1, <2>1, <3>1
    <2>2. CASE s # {}
      <3> DEFINE x == First(s)
                 u == s \ {x}
      <3>1. x \in s /\ x \in D /\ u \in SUBSET D /\ s \cup T \in SUBSET D
        BY <2>2, FirstIn
      <3> HIDE DEF x
      <3>2. Total(f, s) = f[x] + Total(f, u)
        BY <1>1, <3>1, TotalRemove
      <3>3. (s \cup T) \ {x} = u \cup T
        BY <3>1
      <3>4. Total(f, s \cup T) = f[x] + Total(f, u \cup T)
        BY <1>1, <3>1, <3>3, TotalRemove
      <3>5. Total(f, u \cup T) = Total(f, u) + Total(f, T)
        BY <1>2, <3>1
      <3>6. f[x] \in Nat /\ Total(f, u) \in Nat /\ Total(f, T) \in Nat
        BY <1>1, <3>1
      <3>7. f[x] + (Total(f, u) + Total(f, T)) = (f[x] + Total(f, u)) + Total(f, T)
        BY <3>6
      <3>8. QED
        BY <3>2, <3>4, <3>5, <3>7
    <2>3. QED
      BY <2>1, <2>2
  <1>3. P \in SUBSET (SUBSET S) /\ IsFiniteSet(S)
    BY <1>1
  <1>4. P = SUBSET S
    <2> HIDE DEF P
    <2>1. QED
      BY <1>2, <1>3, SubsetInduction
  <1>5. QED
    BY <1>4

\* The sum by outputs is the sum of all the candidates on the outputs.
LEMMA HoldsByAllocation ==
    ASSUME seal_of \in [Opouts -> Outpoints], value_of \in [Opouts -> Nat],
           NEW G \in SUBSET Outpoints
    PROVE  Holds(G) = Total(value_of, {o \in Candidates : seal_of[o] \in G})
  <1> DEFINE group(s) == {o \in Candidates : seal_of[o] = s}
             members(S) == {o \in Candidates : seal_of[o] \in S}
             sums == [s \in Outpoints |-> SealSum(s)]
             P == {S \in SUBSET G : Total(sums, S) = Total(value_of, members(S))}
  <1>1. IsFiniteSet(Opouts) /\ IsFiniteSet(Outpoints) /\ Candidates \in SUBSET Opouts
    BY PaymentAssumption DEF Candidates, OfContract
  <1>2. \A S \in SUBSET Opouts : IsFiniteSet(S) /\ Total(value_of, S) \in Nat
    BY <1>1, FS_Subset, TotalNat
  <1>3. /\ \A s \in Outpoints : sums[s] = Total(value_of, group(s))
        /\ sums \in [Outpoints -> Nat]
    <2>1. \A s \in Outpoints : SealSum(s) = Total(value_of, group(s)) /\ group(s) \in SUBSET Opouts
      BY <1>1 DEF SealSum
    <2>2. QED
      BY <1>2, <2>1
  <1> HIDE DEF sums
  <1>4. ASSUME NEW S \in SUBSET G, \A x \in S : S \ {x} \in P PROVE S \in P
    <2>1. CASE S = {}
      <3>1. members(S) = {}
        BY <2>1
      <3>2. Total(sums, {}) = 0 /\ Total(value_of, {}) = 0
        BY FS_EmptySet, TotalUnfolds
      <3>3. QED
        BY <2>1, <3>1, <3>2
    <2>2. CASE S # {}
      <3> DEFINE x == First(S)
                 u == S \ {x}
      <3>1. x \in S /\ x \in Outpoints /\ S \in SUBSET Outpoints /\ IsFiniteSet(S)
        BY <1>1, <2>2, FirstIn, FS_Subset
      <3> HIDE DEF x
      <3>2. Total(sums, S) = sums[x] + Total(sums, u)
        BY <1>3, <3>1, TotalRemove
      <3>3. Total(sums, u) = Total(value_of, members(u))
        BY <1>4, <3>1
      <3>4. /\ group(x) \cap members(u) = {} /\ members(S) = group(x) \cup members(u)
            /\ group(x) \in SUBSET Opouts /\ members(u) \in SUBSET Opouts
        BY <1>1, <3>1
      <3>5. Total(value_of, members(S)) = Total(value_of, group(x)) + Total(value_of, members(u))
        <4> HIDE DEF members, group, u
        <4>1. QED
          BY <1>1, <3>4, TotalUnion
      <3>6. Total(sums, S) = Total(value_of, members(S))
        <4> HIDE DEF members, group, u
        <4>1. QED
          BY <1>3, <3>1, <3>2, <3>3, <3>5
      <3>7. QED
        BY <3>6
    <2>3. QED
      BY <2>1, <2>2
  <1>5. P = SUBSET G
    <2>1. P \in SUBSET (SUBSET G) /\ IsFiniteSet(G)
      BY <1>1, FS_Subset
    <2> HIDE DEF P
    <2>2. QED
      BY <1>4, <2>1, SubsetInduction
  <1>6. Total(sums, G) = Total(value_of, members(G))
    <2> HIDE DEF members
    <2>1. QED
      BY <1>5
  <1>7. QED
    BY <1>6 DEF Holds, sums

\* No set of at most as many elements has a larger sum than the elements that
\* are largest.
LEMMA LargestSum ==
    ASSUME NEW D, IsFiniteSet(D), NEW f \in [D -> Nat], NEW A \in SUBSET D,
           NEW B \in SUBSET D, Cardinality(B) <= Cardinality(A),
           \A a \in A : \A b \in B \ A : f[b] <= f[a]
    PROVE  Total(f, B) <= Total(f, A)
  <1> DEFINE Below(s, t) == /\ Cardinality(t) <= Cardinality(s)
                            /\ \A a \in s : \A b \in t \ s : f[b] <= f[a]
             P == {s \in SUBSET D : \A t \in SUBSET D : Below(s, t) => Total(f, t) <= Total(f, s)}
  <1>1. \A s \in SUBSET D : IsFiniteSet(s) /\ Cardinality(s) \in Nat /\ Total(f, s) \in Nat
    BY FS_Subset, FS_CardinalityType, TotalNat
  <1>2. \A s \in SUBSET D : \A x \in s : /\ Cardinality(s \ {x}) = Cardinality(s) - 1
                                         /\ Total(f, s) = f[x] + Total(f, s \ {x})
                                         /\ f[x] \in Nat
    <2> SUFFICES ASSUME NEW s \in SUBSET D, NEW x \in s
                 PROVE  /\ Cardinality(s \ {x}) = Cardinality(s) - 1
                        /\ Total(f, s) = f[x] + Total(f, s \ {x})
                        /\ f[x] \in Nat
      OBVIOUS
    <2>1. Cardinality(s \ {x}) = Cardinality(s) - 1
      BY <1>1, FS_RemoveElement
    <2>2. Total(f, s) = f[x] + Total(f, s \ {x})
      BY <1>1, TotalRemove
    <2>3. QED
      BY <2>1, <2>2
  <1>3. ASSUME NEW s \in SUBSET D, \A x \in s : s \ {x} \in P PROVE s \in P
    <2> SUFFICES ASSUME NEW t \in SUBSET D, Below(s, t) PROVE Total(f, t) <= Total(f, s)
      OBVIOUS
    <2>1. CASE t = {}
      <3>1. Total(f, {}) = 0
        BY <1>1, TotalUnfolds
      <3>2. QED
        BY <1>1, <2>1, <3>1
    <2>2. ASSUME NEW x \in s, NEW y \in t, x = y \/ s \cap t = {}, f[y] <= f[x]
          PROVE  Total(f, t) <= Total(f, s)
      <3>1. Below(s \ {x}, t \ {y})
        <4>1. Cardinality(t \ {y}) <= Cardinality(s \ {x})
          BY <1>1, <1>2
        <4>2. \A a \in s \ {x} : \A b \in (t \ {y}) \ (s \ {x}) : f[b] <= f[a]
          BY <2>2
        <4>3. QED
          BY <4>1, <4>2
      <3>2. Total(f, t \ {y}) <= Total(f, s \ {x})
        BY <1>3, <3>1
      <3> DEFINE ss == Total(f, s \ {x})
                 tt == Total(f, t \ {y})
      <3>3. /\ Total(f, s) = f[x] + ss /\ Total(f, t) = f[y] + tt
            /\ f[x] \in Nat /\ f[y] \in Nat /\ ss \in Nat /\ tt \in Nat
        BY <1>1, <1>2
      <3>4. tt <= ss
        BY <3>2
      <3> HIDE DEF ss, tt
      <3>5. f[y] + tt <= f[x] + ss
        BY <2>2, <3>3, <3>4
      <3>6. QED
        BY <3>3, <3>5
    <2>3. CASE s \cap t # {}
      <3>1. PICK x : x \in s /\ x \in t
        BY <2>3
      <3>2. f[x] <= f[x]
        BY <1>2, <3>1
      <3>3. QED
        BY <2>2, <3>1, <3>2
    <2>4. CASE t # {} /\ s \cap t = {}
      <3>1. PICK y : y \in t
        BY <2>4
      <3>2. s # {}
        BY <1>1, <3>1, FS_EmptySet
      <3>3. PICK x : x \in s
        BY <3>2
      <3>4. f[y] <= f[x]
        BY <2>4, <3>1, <3>3
      <3>5. QED
        BY <2>2, <2>4, <3>1, <3>3, <3>4
    <2>5. QED
      BY <2>1, <2>3, <2>4
  <1>4. P = SUBSET D
    <2>1. P \in SUBSET (SUBSET D)
      OBVIOUS
    <2> HIDE DEF P
    <2>2. QED
      BY <1>3, <2>1, SubsetInduction
  <1>5. A \in P /\ Below(A, B)
    BY <1>4
  <1>6. QED
    BY <1>5
-----------------------------------------------------------------------------
(* The payment.                                                            *)

Composed == {"extras", "embed", "done"}

\* The inductive invariant.
Coverage ==
    /\ pc \in {"main"} \cup Composed => (AddsCoins = FALSE => inputs = prev_outputs)
    /\ pc \in Composed =>
          /\ main.inputs = MainInputs /\ main.moved = OtherTypes
          /\ OtherTypes # {} => change_vout # None
    /\ pc \in {"embed", "done"} =>
          /\ extras = ExtraState
          /\ ExtraState # {} => change_vout # None
    /\ pc = "done" => consumed = main.inputs \cup extras

\* The derived sets read only variables that these steps leave alone.
LEMMA SameSets ==
    ASSUME UNCHANGED <<stock_vars, assignment_type, prev_outputs>>
    PROVE  MainInputs' = MainInputs /\ OtherTypes' = OtherTypes /\ ExtraState' = ExtraState
  BY DEF stock_vars, MainInputs, OtherTypes, SameType, ExtraState, OfContract

LEMMA InitCoverage == Init => Coverage
  BY DEF Init, Coverage, Composed

\* Before create_psbt returns there is nothing to cover.
LEMMA EarlySteps ==
    ASSUME validate_contract_and_invoice \/ select_fungible \/ select_largest
             \/ select_fungible_end \/ select_other \/ create_psbt_fails
    PROVE  Coverage'
  <1>1. pc' \in {"filter", "greedy", "create", "failed"}
    BY DEF validate_contract_and_invoice, select_fungible, select_largest,
           select_fungible_end, select_other, create_psbt_fails, Selected, Fail
  <1>2. QED
    BY <1>1 DEF Coverage, Composed

LEMMA CreateStep ==
    ASSUME create_psbt
    PROVE  Coverage'
  <1>1. pc' = "main" /\ prev_outputs' = prev_outputs
    BY DEF create_psbt
  <1>2. AddsCoins = FALSE => inputs' = prev_outputs
    BY DEF create_psbt
  <1>3. QED
    BY <1>1, <1>2 DEF Coverage, Composed

LEMMA MainStep ==
    ASSUME Coverage, main_fungible \/ main_other
    PROVE  Coverage'
  <1>1. /\ pc = "main" /\ pc' = "extras"
        /\ UNCHANGED <<stock_vars, assignment_type, prev_outputs, inputs, change_vout>>
    BY DEF main_fungible, main_other, MainPays
  <1>2. /\ main'.inputs = MainInputs /\ main'.moved = OtherTypes
        /\ OtherTypes # {} => change_vout # None
    BY DEF main_fungible, main_other, MainPays, Moved, ChangeMissing
  <1>3. QED
    BY <1>1, <1>2, SameSets DEF Coverage, Composed

LEMMA ExtrasStep ==
    ASSUME Coverage, build_extra_transitions
    PROVE  Coverage'
  <1>1. /\ pc = "extras" /\ pc' = "embed"
        /\ UNCHANGED <<stock_vars, assignment_type, prev_outputs, inputs, change_vout, main>>
    BY DEF build_extra_transitions
  <1>2. extras' = ExtraState /\ (ExtraState # {} => change_vout # None)
    BY DEF build_extra_transitions, ChangeMissing
  <1>3. QED
    BY <1>1, <1>2, SameSets DEF Coverage, Composed

LEMMA EmbedStep ==
    ASSUME Coverage, rgb_embed
    PROVE  Coverage'
  <1>1. /\ pc = "embed"
        /\ UNCHANGED <<stock_vars, assignment_type, prev_outputs, inputs, change_vout, main, extras>>
    BY DEF rgb_embed
  <1>2. pc' = "failed" \/ (pc' = "done" /\ consumed' = main.inputs \cup extras)
    BY DEF rgb_embed, Fail
  <1>3. QED
    BY <1>1, <1>2, SameSets DEF Coverage, Composed

\* An error leaves no PSBT.
LEMMA FailStep ==
    ASSUME main_no_change \/ extras_fail
    PROVE  Coverage'
  <1>1. pc' = "failed"
    BY DEF main_no_change, extras_fail, Fail
  <1>2. QED
    BY <1>1 DEF Coverage, Composed

LEMMA NextCoverage == Coverage /\ [Next]_vars => Coverage'
  <1> SUFFICES ASSUME Coverage, [Next]_vars PROVE Coverage'
    OBVIOUS
  <1>1. CASE UNCHANGED vars
    <2>1. UNCHANGED <<pc, stock_vars, assignment_type, prev_outputs, inputs,
                      change_vout, main, extras, consumed>>
      BY <1>1 DEF vars, stock_vars
    <2>2. QED
      BY <2>1, SameSets DEF Coverage, Composed
  <1>2. QED
    BY <1>1, EarlySteps, CreateStep, MainStep, ExtrasStep, EmbedStep, FailStep
       DEF Next, construct_psbt_rgb, Finished

\* When create_psbt spends the selected outputs only, every allocation of a
\* spent output is claimed by a transition of the PSBT that
\* construct_psbt_rgb returns, whatever the stock, the wallet and the invoice.
THEOREM NothingLeftBehind == Spec => [](AddsCoins = FALSE => NoStateLeftBehind)
  <1>1. Coverage => (AddsCoins = FALSE => NoStateLeftBehind)
    BY DEF Coverage, Composed, NoStateLeftBehind, MainInputs, ExtraState
  <1>2. QED
    BY <1>1, InitCoverage, NextCoverage, PTL DEF Spec

\* With any wallet: the state that the PSBT claims beyond the invoiced type
\* returns to a change output that exists.
THEOREM OtherStateComesBack == Spec => []OtherStateReturned
  <1>1. Coverage => OtherStateReturned
    <2> SUFFICES ASSUME Coverage, pc = "done", NEW o \in consumed
                 PROVE  \/ contract_of[o] = invoice.contract /\ type_of[o] = assignment_type
                        \/ o \in main.moved \cup extras /\ change_vout # None
      BY DEF OtherStateReturned
    <2>1. /\ o \in MainInputs \cup ExtraState /\ main.moved = OtherTypes /\ extras = ExtraState
          /\ OtherTypes # {} => change_vout # None
          /\ ExtraState # {} => change_vout # None
      BY DEF Coverage, Composed
    <2>2. QED
      BY <2>1 DEF MainInputs, OtherTypes, SameType, OfContract
  <1>2. QED
    BY <1>1, InitCoverage, NextCoverage, PTL DEF Spec
-----------------------------------------------------------------------------
(* Types.                                                                  *)

\* The sums of the stock are natural numbers.
LEMMA SumTypes ==
    ASSUME seal_of \in [Opouts -> Outpoints], value_of \in [Opouts -> Nat]
    PROVE  /\ \A s : SealSum(s) \in Nat
           /\ SumInputs \in Nat
           /\ [s \in Outpoints |-> SealSum(s)] \in [Outpoints -> Nat]
  <1>1. \A S \in SUBSET Opouts : Total(value_of, S) \in Nat
    BY PaymentAssumption, FS_Subset, TotalNat
  <1>2. ASSUME NEW s PROVE SealSum(s) \in Nat
    BY <1>1 DEF SealSum, Candidates, OfContract
  <1>3. SumInputs \in Nat
    BY <1>1 DEF SumInputs, SameType, MainInputs, OfContract
  <1>4. QED
    BY <1>2, <1>3

\* The first check that fails answers with an error, not with that of an
\* empty selection.
LEMMA CheckError ==
    ASSUME NEW failing \in SUBSET (DOMAIN InvoiceChecks), failing # {}
    PROVE  InvoiceChecks[Min(failing)].err \in Errors \ {"InsufficientState"}
  <1>1. DOMAIN InvoiceChecks = 1 .. 7
    BY DEF InvoiceChecks
  <1>2. \E x \in failing : \A y \in failing : x <= y
    BY <1>1, LeastNat
  <1>3. Min(failing) \in 1 .. 7
    BY <1>1, <1>2 DEF Min
  <1>4. \A k \in 1 .. 7 : InvoiceChecks[k].err \in Errors \ {"InsufficientState"}
    BY DEF InvoiceChecks, Errors
  <1>5. QED
    BY <1>3, <1>4

\* The amount of an invoice for an amount.
Typed == TypeOK /\ (invoice.state = "amount" => invoice.amount \in Nat)
                /\ (invoice.name # None => invoice.name \in AssignmentTypes)

LEMMA InitTyped == Init => Typed
  <1> SUFFICES ASSUME Init PROVE Typed
    OBVIOUS
  <1>1. PICK s \in Situations : /\ invoice \in s.invoices /\ unspent \in s.wallets
                                /\ seal_of \in s.seals /\ value_of \in s.values
    BY DEF Init
  <1>2. /\ seal_of \in [Opouts -> Outpoints] /\ value_of \in [Opouts -> Nat]
        /\ unspent \subseteq Outpoints
    BY <1>1, PaymentAssumption
  <1>3. /\ invoice.state = "amount" => invoice.amount \in Nat
        /\ invoice.name # None => invoice.name \in AssignmentTypes
    BY <1>1, InvoiceAssumption
  <1>4. TypeOK
    BY <1>2 DEF Init, TypeOK, NoMain
  <1>5. QED
    BY <1>3, <1>4 DEF Typed

LEMMA NextTyped == Typed /\ [Next]_vars => Typed'
  <1> SUFFICES ASSUME Typed, [Next]_vars PROVE Typed'
    OBVIOUS
  <1>1. UNCHANGED stock_vars
    BY DEF Next, construct_psbt_rgb, Finished, vars, stock_vars, validate_contract_and_invoice,
       select_fungible, select_largest, select_fungible_end, select_other, create_psbt_fails,
       create_psbt, main_no_change, main_fungible, main_other, extras_fail,
       build_extra_transitions, rgb_embed
  <1>2. TypeOK => TypeOK'
    <2> SUFFICES ASSUME TypeOK PROVE TypeOK'
      OBVIOUS
    <2> USE <1>1 DEF TypeOK, stock_vars
    <2>1. CASE validate_contract_and_invoice
      <3> DEFINE failing == {k \in DOMAIN InvoiceChecks : InvoiceChecks[k].fails}
      <3>1. InvoiceType \in AssignmentTypes \cup {None}
        <4>1. ASSUME Cardinality(TypesForState) = 1
              PROVE  (CHOOSE ty \in TypesForState : TRUE) \in TypesForState
          <5>1. TypesForState # {}
            BY <4>1, FS_EmptySet
          <5>2. QED
            BY <5>1
        <4>2. QED
          BY <4>1 DEF Typed, InvoiceType, TypesForState
      <3>2. CASE failing # {}
        <4>1. InvoiceChecks[Min(failing)].err \in Errors
          BY <3>2, CheckError
        <4> HIDE DEF failing
        <4>2. QED
          BY <2>1, <3>2, <4>1, ErrorsAssumption DEF validate_contract_and_invoice, Fail, failing
      <3>3. CASE failing = {}
        BY <2>1, <3>1, <3>3 DEF validate_contract_and_invoice
      <3>4. QED
        BY <3>2, <3>3
    <2>2. CASE select_fungible
      BY <2>2 DEF select_fungible, Candidates, OfContract
    <2>3. CASE select_largest
      BY <2>3, SumTypes DEF select_largest, take_output
    <2>4. CASE select_fungible_end
      BY <2>4, ErrorsAssumption DEF select_fungible_end, Selected, Fail, Errors
    <2>5. CASE select_other
      BY <2>5, ErrorsAssumption DEF select_other, Selected, Fail, Candidates, OfContract, Errors
    <2>6. CASE create_psbt_fails \/ main_no_change \/ extras_fail
      BY <2>6, ErrorsAssumption DEF create_psbt_fails, main_no_change, extras_fail, Fail, Errors
    <2>7. CASE create_psbt
      BY <2>7 DEF create_psbt
    <2>8. CASE main_fungible
      <3>1. ChangeAmount \in Nat
        BY <2>8, SumTypes DEF main_fungible, ChangeAmount, Typed
      <3>2. QED
        BY <2>8, <3>1 DEF main_fungible, MainPays, Moved, OtherTypes, MainInputs, OfContract
    <2>9. CASE main_other
      BY <2>9 DEF main_other, MainPays, Moved, OtherTypes, MainInputs, OfContract
    <2>10. CASE build_extra_transitions
      BY <2>10 DEF build_extra_transitions, ExtraState
    <2>11. CASE rgb_embed
      BY <2>11, ErrorsAssumption DEF rgb_embed, Fail, Errors
    <2>12. CASE UNCHANGED vars
      BY <2>12 DEF vars
    <2>13. QED
      BY <2>1, <2>2, <2>3, <2>4, <2>5, <2>6, <2>7, <2>8, <2>9, <2>10, <2>11, <2>12
         DEF Next, construct_psbt_rgb, Finished
  <1>3. QED
    BY <1>1, <1>2 DEF Typed, stock_vars

\* The variables of the composition have their types, sums are natural numbers,
\* and there is an error exactly if construct_psbt_rgb failed.
THEOREM TypeCorrect == Spec => []TypeOK
  <1>1. Typed => TypeOK
    BY DEF Typed
  <1>2. QED
    BY <1>1, InitTyped, NextTyped, PTL DEF Spec
-----------------------------------------------------------------------------
(* The selection of outputs for an amount.                                 *)

Paying == {"create", "main", "extras", "embed", "done"}

\* Each output taken holds at least as much as each that is left.
Ordered == \A p \in prev_outputs : \A r \in rest : SealSum(r) <= SealSum(p)

\* Without the output that was taken last the amount was not reached, and the
\* others are the largest there are.
LastNeeded ==
    \E last \in prev_outputs :
        /\ Holds(prev_outputs \ {last}) < invoice.amount
        /\ \A p \in prev_outputs \ {last} :
              \A q \in CandidateOutputs \ (prev_outputs \ {last}) : SealSum(q) <= SealSum(p)

\* Some output is selected, and each holds a candidate with the invoiced state.
Picked ==
    /\ prev_outputs # {}
    /\ \A p \in prev_outputs : \E o \in Candidates :
          seal_of[o] = p /\ (invoice.state = "data" => value_of[o] = invoice.amount)

\* The inductive invariant of the loop and of what it leaves.
Greedy ==
    /\ pc \in {"validate", "filter"} => sum = 0 /\ prev_outputs = {}
    /\ pc = "greedy" =>
          /\ invoice.state = "amount"
          /\ prev_outputs \cup rest = CandidateOutputs /\ prev_outputs \cap rest = {}
          /\ sum = Holds(prev_outputs)
          /\ Ordered
          /\ prev_outputs # {} => LastNeeded
    /\ pc \in Paying /\ invoice.state = "amount" =>
          /\ prev_outputs \subseteq CandidateOutputs
          /\ Holds(prev_outputs) >= invoice.amount
          /\ LastNeeded
    /\ pc \in Paying => Picked
    /\ RefusesOnlyIfPoor

\* The sums read only variables that the loop leaves alone.
LEMMA SameSums ==
    ASSUME UNCHANGED <<stock_vars, assignment_type>>
    PROVE  /\ Candidates' = Candidates /\ CandidateOutputs' = CandidateOutputs
           /\ \A s : SealSum(s)' = SealSum(s)
           /\ \A S : Holds(S)' = Holds(S)
  BY DEF stock_vars, Candidates, CandidateOutputs, OfContract, SealSum, Holds

\* What the sums of outputs are, and how one more output adds to them.
LEMMA HoldsAdds ==
    ASSUME Typed, NEW S \in SUBSET Outpoints
    PROVE  /\ Holds(S) \in Nat /\ Holds({}) = 0
           /\ \A s \in Outpoints \ S : Holds(S \cup {s}) = SealSum(s) + Holds(S)
  <1> DEFINE sums == [s \in Outpoints |-> SealSum(s)]
  <1>1. sums \in [Outpoints -> Nat] /\ IsFiniteSet(S) /\ IsFiniteSet(Outpoints)
    BY SumTypes, PaymentAssumption, FS_Subset DEF Typed, TypeOK
  <1>2. Total(sums, S) \in Nat /\ Total(sums, {}) = 0
    <2> HIDE DEF sums
    <2>1. Total(sums, S) \in Nat
      BY <1>1, TotalNat
    <2>2. Total(sums, {}) = 0
      BY <1>1, TotalUnfolds
    <2>3. QED
      BY <2>1, <2>2
  <1>3. ASSUME NEW s \in Outpoints, s \notin S
        PROVE  Total(sums, S \cup {s}) = SealSum(s) + Total(sums, S)
    <2>1. sums[s] = SealSum(s)
      OBVIOUS
    <2> HIDE DEF sums
    <2>2. Total(sums, S \cup {s}) = sums[s] + Total(sums, S)
      BY <1>1, <1>3, TotalAdd
    <2>3. QED
      BY <2>1, <2>2
  <1>4. QED
    BY <1>2, <1>3 DEF Holds

\* Candidates are on outputs.
LEMMA CandidateTypes ==
    ASSUME Typed
    PROVE  CandidateOutputs \subseteq Outpoints /\ CandidateOutputs \subseteq unspent
  BY DEF Typed, TypeOK, CandidateOutputs, Candidates, OfContract

LEMMA InitGreedy == Init => Greedy
  BY ErrorsAssumption DEF Init, Greedy, Paying, RefusesOnlyIfPoor, Errors

\* One more output is taken.
LEMMA GreedyLoop ==
    ASSUME Typed, Greedy, select_largest
    PROVE  Greedy'
  <1>1. /\ pc = "greedy" /\ sum < invoice.amount
        /\ UNCHANGED <<pc, stock_vars, assignment_type, err>>
        /\ invoice.amount \in Nat /\ sum \in Nat
    BY DEF select_largest, Enough, Typed, TypeOK, Greedy
  <1>2. PICK s \in rest : Largest(s) /\ take_output(s)
    BY DEF select_largest
  <1>3. /\ sum' = sum + SealSum(s) /\ prev_outputs' = prev_outputs \cup {s} /\ rest' = rest \ {s}
    BY <1>2 DEF take_output
  <1>4. /\ invoice.state = "amount" /\ invoice'.state = "amount" /\ invoice' = invoice
        /\ prev_outputs \cup rest = CandidateOutputs /\ prev_outputs \cap rest = {}
        /\ sum = Holds(prev_outputs) /\ Ordered
    BY <1>1 DEF Greedy, stock_vars
  <1>5. s \in Outpoints \ prev_outputs /\ prev_outputs \in SUBSET Outpoints
    BY <1>4, CandidateTypes
  <1>6. \A r \in rest : SealSum(r) <= SealSum(s)
    <2>1. \A r \in rest : SealSum(r) \in Nat /\ SealSum(s) \in Nat
      BY SumTypes DEF Typed, TypeOK
    <2>2. QED
      BY <1>2, <2>1 DEF Largest
  <1>7. sum' = Holds(prev_outputs')
    <2>1. Holds(prev_outputs \cup {s}) = SealSum(s) + Holds(prev_outputs)
      BY <1>5, HoldsAdds
    <2>2. SealSum(s) \in Nat
      BY SumTypes DEF Typed, TypeOK
    <2>3. QED
      BY <1>1, <1>3, <1>4, <2>1, <2>2
  <1>8. (sum = Holds(prev_outputs))'
    BY <1>1, <1>7, SameSums
  <1>9. Ordered'
    BY <1>1, <1>3, <1>4, <1>6, SameSums DEF Ordered
  <1>10. LastNeeded'
    <2>1. (prev_outputs \cup {s}) \ {s} = prev_outputs
      BY <1>5
    <2>2. Holds(prev_outputs) < invoice.amount
      BY <1>1, <1>4
    <2>3. \A p \in prev_outputs : \A q \in CandidateOutputs \ prev_outputs : SealSum(q) <= SealSum(p)
      BY <1>4 DEF Ordered
    <2>4. Holds(prev_outputs \ {s})' = Holds(prev_outputs)
      BY <1>1, <1>3, <2>1 DEF Holds, SealSum, Candidates, OfContract, stock_vars
    <2>5. s \in prev_outputs' /\ prev_outputs' \ {s} = prev_outputs
      BY <1>3, <2>1
    <2>6. CandidateOutputs' = CandidateOutputs /\ \A q : SealSum(q)' = SealSum(q)
      BY <1>1, SameSums
    <2>7. QED
      BY <1>4, <2>2, <2>3, <2>4, <2>5, <2>6 DEF LastNeeded
  <1>11. /\ (prev_outputs \cup rest)' = CandidateOutputs' /\ (prev_outputs \cap rest)' = {}
    BY <1>1, <1>3, <1>4, SameSums
  <1>12. RefusesOnlyIfPoor'
    BY <1>1, ErrorsAssumption DEF Typed, TypeOK, RefusesOnlyIfPoor, Errors
  <1>13. QED
    BY <1>1, <1>4, <1>8, <1>9, <1>10, <1>11, <1>12 DEF Greedy, Paying

\* The loop ends with enough or with nothing left.
LEMMA GreedyEnd ==
    ASSUME Typed, Greedy, select_fungible_end
    PROVE  Greedy'
  <1>1. /\ pc = "greedy" /\ (sum >= invoice.amount \/ rest = {})
        /\ UNCHANGED <<stock_vars, assignment_type>> /\ invoice' = invoice
        /\ Selected(IF sum < invoice.amount THEN {} ELSE prev_outputs)
        /\ invoice.amount \in Nat /\ sum \in Nat /\ invoice.state = "amount"
        /\ prev_outputs \cup rest = CandidateOutputs
        /\ sum = Holds(prev_outputs) /\ (prev_outputs # {} => LastNeeded)
    BY DEF select_fungible_end, Enough, Typed, TypeOK, Greedy, stock_vars
  <1>2. CASE sum >= invoice.amount /\ prev_outputs # {}
    <2>1. pc' = "create" /\ prev_outputs' = prev_outputs /\ err' = err /\ err = None
      BY <1>1, <1>2 DEF Selected, Fail, Typed, TypeOK
    <2>2. LastNeeded'
      BY <1>1, <1>2, <2>1, SameSums DEF LastNeeded
    <2>3. RefusesOnlyIfPoor'
      BY <2>1, ErrorsAssumption DEF RefusesOnlyIfPoor, Errors
    <2>4. /\ prev_outputs' \subseteq CandidateOutputs'
          /\ (Holds(prev_outputs) >= invoice.amount)'
      BY <1>1, <1>2, <2>1, SameSums
    <2>5. Picked'
      <3>1. prev_outputs' # {} /\ prev_outputs' \subseteq CandidateOutputs
        BY <1>1, <1>2, <2>1
      <3>2. seal_of' = seal_of /\ Candidates' = Candidates
        BY <1>1, SameSums DEF stock_vars
      <3>3. QED
        BY <1>1, <3>1, <3>2 DEF Picked, CandidateOutputs
    <2>6. QED
      BY <1>1, <2>1, <2>2, <2>3, <2>4, <2>5 DEF Greedy, Paying
  <1>3. CASE ~ (sum >= invoice.amount /\ prev_outputs # {})
    <2>1. pc' = "failed" /\ err' = "InsufficientState"
      BY <1>1, <1>3 DEF Selected, Fail
    <2>2. invoice.amount > 0 => Holds(CandidateOutputs) < invoice.amount
      <3> SUFFICES ASSUME invoice.amount > 0 PROVE Holds(CandidateOutputs) < invoice.amount
        OBVIOUS
      <3>1. sum < invoice.amount
        <4>1. prev_outputs = {} => sum = 0
          BY <1>1, HoldsAdds
        <4>2. QED
          BY <1>1, <1>3, <4>1
      <3>2. rest = {} /\ prev_outputs = CandidateOutputs
        BY <1>1, <3>1
      <3>3. QED
        BY <1>1, <3>1, <3>2
    <2>3. RefusesOnlyIfPoor'
      BY <1>1, <2>1, <2>2, SameSums DEF RefusesOnlyIfPoor
    <2>4. QED
      BY <2>1, <2>3 DEF Greedy, Paying
  <1>4. QED
    BY <1>2, <1>3

\* The other steps.
LEMMA NextGreedy == Typed /\ Typed' /\ Greedy /\ [Next]_vars => Greedy'
  <1> SUFFICES ASSUME Typed, Typed', Greedy, [Next]_vars PROVE Greedy'
    OBVIOUS
  <1>1. CASE validate_contract_and_invoice
    <2> DEFINE failing == {k \in DOMAIN InvoiceChecks : InvoiceChecks[k].fails}
    <2>1. /\ pc = "validate" /\ UNCHANGED <<sum, prev_outputs>>
          /\ pc' \in {"filter", "failed"} /\ err = None
      BY <1>1 DEF validate_contract_and_invoice, Fail, Typed, TypeOK
    <2>2. err' # "InsufficientState"
      <3>1. CASE failing # {}
        <4>1. InvoiceChecks[Min(failing)].err # "InsufficientState"
          BY <3>1, CheckError
        <4>2. QED
          BY <1>1, <3>1, <4>1 DEF validate_contract_and_invoice, Fail
      <3>2. CASE failing = {}
        BY <1>1, <2>1, <3>2, ErrorsAssumption DEF validate_contract_and_invoice, Errors
      <3>3. QED
        BY <3>1, <3>2
    <2>3. QED
      BY <2>1, <2>2 DEF Greedy, Paying, RefusesOnlyIfPoor
  <1>2. CASE select_fungible
    <2>1. /\ pc = "filter" /\ pc' = "greedy" /\ invoice' = invoice /\ invoice.state = "amount"
          /\ rest' = CandidateOutputs /\ prev_outputs = {} /\ prev_outputs' = {}
          /\ sum = 0 /\ sum' = 0 /\ err' = err /\ err = None
          /\ UNCHANGED <<stock_vars, assignment_type>>
      BY <1>2 DEF select_fungible, CandidateOutputs, Greedy, Typed, TypeOK, stock_vars
    <2>2. Holds({}) = 0
      BY HoldsAdds
    <2>3. RefusesOnlyIfPoor'
      BY <2>1, ErrorsAssumption DEF RefusesOnlyIfPoor, Errors
    <2>4. /\ (prev_outputs \cup rest)' = CandidateOutputs' /\ (prev_outputs \cap rest)' = {}
          /\ (sum = Holds(prev_outputs))' /\ Ordered'
      BY <2>1, <2>2, SameSums DEF Ordered
    <2>5. QED
      BY <2>1, <2>3, <2>4 DEF Greedy, Paying
  <1>3. CASE select_largest
    BY <1>3, GreedyLoop
  <1>4. CASE select_fungible_end
    BY <1>4, GreedyEnd
  <1>5. CASE select_other
    <2> DEFINE outputs == {seal_of[o] : o \in {c \in Candidates :
                              invoice.state = "data" => value_of[c] = invoice.amount}}
    <2>1. /\ pc = "filter" /\ pc' \in {"create", "failed"} /\ err = None
          /\ invoice.state \in {"data", "void"} /\ invoice' = invoice
          /\ UNCHANGED <<stock_vars, assignment_type>>
          /\ err' \in {None, "InsufficientState"}
          /\ err' = "InsufficientState" => outputs = {}
      BY <1>5, ErrorsAssumption
         DEF select_other, Selected, Fail, Typed, TypeOK, stock_vars, Errors
    <2>2. RefusesOnlyIfPoor'
      BY <2>1, SameSums DEF RefusesOnlyIfPoor, stock_vars
    <2>3. ASSUME pc' = "create"
          PROVE  Picked'
      <3>1. prev_outputs' = outputs /\ outputs # {}
        BY <1>5, <2>3 DEF select_other, Selected, Fail
      <3>2. UNCHANGED <<seal_of, value_of, invoice>> /\ Candidates' = Candidates
        BY <2>1, SameSums DEF stock_vars
      <3>3. QED
        BY <3>1, <3>2 DEF Picked
    <2>4. QED
      BY <2>1, <2>2, <2>3 DEF Greedy, Paying
  <1>6. CASE \/ create_psbt_fails \/ create_psbt \/ main_no_change \/ main_fungible \/ main_other
             \/ extras_fail \/ build_extra_transitions \/ rgb_embed \/ UNCHANGED vars
    <2>1. /\ UNCHANGED <<stock_vars, assignment_type, rest, sum, prev_outputs>>
          /\ invoice' = invoice /\ value_of' = value_of
          /\ pc' = "failed" \/ (pc \in Paying /\ pc' \in Paying) \/ pc' = pc
          /\ err' = err \/ err' \in {"Construction", "NoExtraOrChange", "TooManyExtras", "Embed"}
      <3>1. CASE create_psbt_fails \/ create_psbt \/ main_no_change
        BY <3>1 DEF create_psbt_fails, create_psbt, main_no_change, Fail, stock_vars, Paying
      <3>2. CASE main_fungible \/ main_other
        BY <3>2 DEF main_fungible, main_other, MainPays, stock_vars, Paying
      <3>3. CASE extras_fail \/ build_extra_transitions \/ rgb_embed
        BY <3>3 DEF extras_fail, build_extra_transitions, rgb_embed, Fail, stock_vars, Paying
      <3>4. CASE UNCHANGED vars
        BY <3>4 DEF vars, stock_vars
      <3>5. QED
        BY <1>6, <3>1, <3>2, <3>3, <3>4
    <2>2. RefusesOnlyIfPoor'
      BY <2>1, SameSums DEF Greedy, RefusesOnlyIfPoor
    <2>3. (LastNeeded <=> LastNeeded') /\ (Ordered <=> Ordered') /\ (Picked <=> Picked')
      <3>1. /\ Candidates' = Candidates /\ CandidateOutputs' = CandidateOutputs
            /\ UNCHANGED <<prev_outputs, rest, invoice, seal_of, value_of>>
        BY <2>1, SameSums DEF stock_vars
      <3>2. LastNeeded <=> LastNeeded'
        BY <2>1, <3>1, SameSums DEF LastNeeded
      <3>3. Ordered <=> Ordered'
        BY <2>1, <3>1, SameSums DEF Ordered
      <3>4. Picked <=> Picked'
        BY <3>1 DEF Picked
      <3>5. QED
        BY <3>2, <3>3, <3>4
    <2>4. CandidateOutputs' = CandidateOutputs /\ Holds(prev_outputs)' = Holds(prev_outputs)
      BY <2>1, SameSums
    <2>5. QED
      BY <2>1, <2>2, <2>3, <2>4 DEF Greedy, Paying
  <1>7. QED
    BY <1>1, <1>2, <1>3, <1>4, <1>5, <1>6 DEF Next, construct_psbt_rgb, Finished

LEMMA GreedyInvariant == Spec => [](Typed /\ Greedy)
  BY InitTyped, NextTyped, InitGreedy, NextGreedy, PTL DEF Spec

\* The greedy selection covers the amount, and no choice of fewer outputs does,
\* for every stock, wallet and invoice.
THEOREM SelectsFewest == Spec => []SelectionFewest
  <1>1. Typed /\ Greedy => SelectionFewest
    <2> SUFFICES ASSUME Typed, Greedy, pc = "create", invoice.state = "amount"
                 PROVE  /\ prev_outputs \subseteq CandidateOutputs
                        /\ Holds(prev_outputs) >= invoice.amount
                        /\ \A other \in SUBSET CandidateOutputs :
                              Holds(other) >= invoice.amount =>
                                  Cardinality(other) >= Cardinality(prev_outputs)
      BY DEF SelectionFewest
    <2>1. /\ prev_outputs \subseteq CandidateOutputs /\ Holds(prev_outputs) >= invoice.amount
          /\ LastNeeded /\ invoice.amount \in Nat
      BY DEF Greedy, Paying, Typed
    <2>2. ASSUME NEW other \in SUBSET CandidateOutputs,
                 ~ (Cardinality(other) >= Cardinality(prev_outputs))
          PROVE  ~ (Holds(other) >= invoice.amount)
      <3>1. PICK last \in prev_outputs :
                /\ Holds(prev_outputs \ {last}) < invoice.amount
                /\ \A p \in prev_outputs \ {last} :
                      \A q \in CandidateOutputs \ (prev_outputs \ {last}) : SealSum(q) <= SealSum(p)
        BY <2>1 DEF LastNeeded
      <3> DEFINE most == prev_outputs \ {last}
                 sums == [s \in Outpoints |-> SealSum(s)]
      <3>2. /\ CandidateOutputs \subseteq Outpoints /\ IsFiniteSet(Outpoints)
            /\ sums \in [Outpoints -> Nat]
        BY CandidateTypes, PaymentAssumption, SumTypes DEF Typed, TypeOK
      <3>3. Cardinality(other) <= Cardinality(most)
        <4>1. /\ IsFiniteSet(other) /\ Cardinality(other) \in Nat
              /\ IsFiniteSet(prev_outputs) /\ Cardinality(prev_outputs) \in Nat
          BY <2>1, <3>2, FS_Subset, FS_CardinalityType
        <4>2. Cardinality(most) = Cardinality(prev_outputs) - 1
          BY <4>1, FS_RemoveElement
        <4>3. QED
          BY <2>2, <4>1, <4>2
      <3>4. \A a \in most : \A b \in other \ most : sums[b] <= sums[a]
        BY <2>1, <3>1, <3>2
      <3>5. Total(sums, other) <= Total(sums, most)
        <4>1. most \in SUBSET Outpoints /\ other \in SUBSET Outpoints
          BY <2>1, <3>2
        <4> HIDE DEF sums, most
        <4>2. QED
          BY <3>2, <3>3, <3>4, <4>1, LargestSum
      <3>6. Holds(other) <= Holds(most)
        BY <3>5 DEF Holds
      <3>7. Holds(other) \in Nat /\ Holds(most) \in Nat
        <4>1. most \in SUBSET Outpoints /\ other \in SUBSET Outpoints
          BY <2>1, <3>2
        <4>2. QED
          BY <4>1, HoldsAdds
      <3>8. QED
        BY <2>1, <3>1, <3>6, <3>7
    <2>3. QED
      BY <2>1, <2>2
  <1>2. QED
    BY <1>1, GreedyInvariant, PTL

\* A payment is refused for InsufficientState only if the wallet does not hold
\* what is asked for, or if zero is asked for.
THEOREM RefusesOnlyThePoor == Spec => []RefusesOnlyIfPoor
  <1>1. Greedy => RefusesOnlyIfPoor
    BY DEF Greedy
  <1>2. QED
    BY <1>1, GreedyInvariant, PTL

\* What build_main_transition reads again is what was selected: the sum by
\* outputs is the sum by allocations, and what made an output a choice is
\* still assigned to it.
THEOREM MainIsNeverShort == Spec => []MainNeverShort
  <1>1. Typed /\ Greedy => MainNeverShort
    <2> SUFFICES ASSUME Typed, Greedy, pc = "main"
                 PROVE  /\ MainInputs # {}
                        /\ invoice.state = "amount" => SumInputs >= invoice.amount
                        /\ invoice.state = "data" =>
                              \E o \in SameType : value_of[o] = invoice.amount
      BY DEF MainNeverShort
    <2>1. Picked
      BY DEF Greedy, Paying
    <2>2. PICK o \in Candidates : /\ seal_of[o] \in prev_outputs
                                  /\ invoice.state = "data" => value_of[o] = invoice.amount
      BY <2>1 DEF Picked
    <2>3. SameType = {c \in Candidates : seal_of[c] \in prev_outputs}
      <3>1. prev_outputs \subseteq unspent
        BY <2>1 DEF Picked, Candidates
      <3>2. QED
        BY <3>1 DEF SameType, MainInputs, Candidates
    <2>4. o \in SameType /\ SameType \subseteq MainInputs
      BY <2>2, <2>3 DEF SameType
    <2>5. ASSUME invoice.state = "amount"
          PROVE  SumInputs >= invoice.amount
      <3>1. Holds(prev_outputs) >= invoice.amount
        BY <2>5 DEF Greedy, Paying
      <3>2. Holds(prev_outputs) = Total(value_of, {c \in Candidates : seal_of[c] \in prev_outputs})
        BY HoldsByAllocation DEF Typed, TypeOK
      <3>3. QED
        BY <2>3, <3>1, <3>2 DEF SumInputs
    <2>6. QED
      BY <2>2, <2>4, <2>5
  <1>2. QED
    BY <1>1, GreedyInvariant, PTL
-----------------------------------------------------------------------------
(* The amounts of the main transition.                                     *)

\* The main transition, if there is one, spends what is assigned to the
\* selected outputs and assigns all of it.
Conserved ==
    main # NoMain =>
        /\ pc \in Composed \cup {"failed"}
        /\ main.inputs = MainInputs
        /\ invoice.state = "amount" =>
              /\ main.paid = invoice.amount /\ main.change \in Nat
              /\ main.paid + main.change = SumInputs

LEMMA InitConserved == Init => Conserved
  BY DEF Init, Conserved

LEMMA NextConserved == Typed /\ Conserved /\ [Next]_vars => Conserved'
  <1> SUFFICES ASSUME Typed, Conserved, [Next]_vars PROVE Conserved'
    OBVIOUS
  <1>1. CASE \/ validate_contract_and_invoice \/ select_fungible \/ select_largest
             \/ select_fungible_end \/ select_other \/ create_psbt_fails \/ create_psbt
             \/ main_no_change
    <2>1. pc \notin Composed \cup {"failed"} /\ main' = main
      BY <1>1 DEF validate_contract_and_invoice, select_fungible, select_largest,
         select_fungible_end, select_other, create_psbt_fails, create_psbt, main_no_change, Composed
    <2>2. QED
      BY <2>1 DEF Conserved
  <1>2. CASE main_fungible \/ main_other
    <2>1. /\ pc' = "extras" /\ UNCHANGED <<stock_vars, assignment_type, prev_outputs>>
          /\ invoice' = invoice /\ main'.inputs = MainInputs
      BY <1>2 DEF main_fungible, main_other, MainPays, stock_vars
    <2>2. MainInputs' = MainInputs /\ SumInputs' = SumInputs
      BY <2>1 DEF stock_vars, MainInputs, SumInputs, SameType, OfContract
    <2>3. ASSUME invoice.state = "amount"
          PROVE  /\ main'.paid = invoice.amount /\ main'.change \in Nat
                 /\ main'.paid + main'.change = SumInputs
      <3>1. main'.paid = invoice.amount /\ main'.change = SumInputs - invoice.amount
        BY <1>2, <2>3 DEF main_fungible, main_other, MainPays, ChangeAmount
      <3>2. SumInputs \in Nat /\ invoice.amount \in Nat /\ SumInputs >= invoice.amount
        BY <1>2, <2>3, SumTypes DEF Typed, TypeOK, main_fungible, main_other
      <3>3. QED
        BY <3>1, <3>2
    <2>4. QED
      BY <2>1, <2>2, <2>3 DEF Conserved, Composed
  <1>3. CASE extras_fail \/ build_extra_transitions \/ rgb_embed \/ UNCHANGED vars
    <2>1. /\ UNCHANGED <<stock_vars, assignment_type, prev_outputs, main>> /\ invoice' = invoice
          /\ pc' \in Composed \cup {"failed"} \/ pc' = pc
      BY <1>3 DEF extras_fail, build_extra_transitions, rgb_embed, Fail, vars, stock_vars, Composed
    <2>2. MainInputs' = MainInputs /\ SumInputs' = SumInputs
      BY <2>1 DEF stock_vars, MainInputs, SumInputs, SameType, OfContract
    <2>3. QED
      BY <2>1, <2>2 DEF Conserved
  <1>4. QED
    BY <1>1, <1>2, <1>3 DEF Next, construct_psbt_rgb, Finished

\* The main transition of a fungible payment assigns exactly the amounts that
\* it spends: the invoiced amount to the beneficiary, the rest as change.
THEOREM AmountsAreConserved == Spec => []AmountConserved
  <1>1. Conserved => AmountConserved
    <2> SUFFICES ASSUME Conserved, main # NoMain, invoice.state = "amount"
                 PROVE  /\ main.paid = invoice.amount /\ main.change >= 0
                        /\ main.paid + main.change =
                              Total(value_of, {o \in main.inputs : type_of[o] = assignment_type})
      BY DEF AmountConserved
    <2>1. /\ main.paid = invoice.amount /\ main.change \in Nat /\ main.inputs = MainInputs
          /\ main.paid + main.change = SumInputs
      BY DEF Conserved
    <2>2. SameType = {o \in main.inputs : type_of[o] = assignment_type}
      BY <2>1 DEF SameType
    <2>3. main.change >= 0
      BY <2>1
    <2>4. QED
      BY <2>1, <2>2, <2>3 DEF SumInputs
  <1>2. QED
    BY <1>1, InitTyped, NextTyped, InitConserved, NextConserved, PTL DEF Spec
=============================================================================
