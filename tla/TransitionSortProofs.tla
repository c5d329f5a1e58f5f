------------------------ MODULE TransitionSortProofs ------------------------
(***************************************************************************)
(* The depth-first search of TransitionSort implements TransitionOrder for *)
(* every set of operations and every dependency relation.                  *)
(* The invariant says what the recursion relies on: the active calls are a *)
(* path of distinct transitions, each depending on the next, and a call    *)
(* has listed every dependency its loop has passed, except the one it is   *)
(* visiting.                                                               *)
(***************************************************************************)
EXTENDS TransitionSort, SequenceTheorems, FiniteSetTheorems, TLAPS

Depth == Len(stack)
Path ==
    /\ \A i, j \in 1 .. Depth : stack[i] = stack[j] => i = j
    /\ \A i \in 1 .. Depth : todo[stack[i]] \subseteq deps[stack[i]]
    /\ \A i, j \in 1 .. Depth : j = i + 1 => stack[j] \in deps[stack[i]]

Passed ==
    \A i \in 1 .. Depth : \A x \in ops \cap deps[stack[i]] :
        \/ x \in todo[stack[i]] \cup visited
        \/ \E j \in 1 .. Depth : j = i + 1 /\ stack[j] = x

\* What the search has done and has before it, unless the list was full.
Search ==
    /\ TypeOK
    /\ status # "InvalidTransitionsNumber"
    /\ MarksMatch
    /\ Len(known) = Cardinality(visited)
    /\ visited \subseteq ops /\ visiting \subseteq ops
    /\ \A x \in visited : deps[x] \cap ops \subseteq visited
    /\ Path
    /\ status = "running" => Passed
    /\ ops \subseteq roots \cup visited \cup visiting

\* The inductive invariant.
Inv ==
    /\ TypeOK
    /\ RecursionBounded
    /\ Search \/ status = "InvalidTransitionsNumber"

-----------------------------------------------------------------------------
(* The inductive step, by the ways a step can go.                          *)

\* The stack is empty exactly when no transition is being visited, and its
\* top is one that is.
LEMMA Stack ==
    ASSUME Search
    PROVE  /\ Depth \in Nat
           /\ stack = <<>> => Depth = 0 /\ visiting = {}
           /\ stack # <<>> => Depth >= 1 /\ Top \in OpIds /\ Top \in visiting
           /\ \A i \in 1 .. Depth : stack[i] \in visiting /\ stack[i] \in OpIds
  BY DEF Search, TypeOK, MarksMatch, Depth, Top

\* visit_and_insert starts its loop for op, called from the outer loop or
\* from the loop of the innermost call.
LEMMA CallStarts ==
    ASSUME Search, status = "running", NEW op \in OpIds, NEW n,
           op \in ops, op \notin visited, op \notin visiting, n = Depth,
           n # 0 => op \in todo[stack[n]],
           stack' \in Seq(OpIds), Depth' = n + 1, stack'[n + 1] = op,
           \A i \in 1 .. n : stack'[i] = stack[i],
           todo' \in [OpIds -> SUBSET OpIds], todo'[op] = deps[op],
           n # 0 => todo'[stack[n]] = todo[stack[n]] \ {op},
           \A y \in OpIds : y # op /\ (n # 0 => y # stack[n]) => todo'[y] = todo[y],
           visiting' = visiting \cup {op},
           roots' \in SUBSET ops, roots \ {op} \subseteq roots',
           UNCHANGED <<ops, deps, capacity, visited, known, status>>
    PROVE  Search'
  <1>1. n \in Nat /\ \A i \in 1 .. n : stack[i] \in visiting /\ stack[i] \in OpIds /\ stack[i] # op
    BY Stack
  <1>2. TypeOK'
    BY DEF Search, TypeOK
  <1>3. MarksMatch'
    <2>1. visiting = {stack[i] : i \in 1 .. n}
      BY DEF Search, MarksMatch, Depth
    <2>2. \A i : i \in 1 .. n + 1 <=> i \in 1 .. n \/ i = n + 1
      BY <1>1
    <2>3. \A y : y \in visiting' <=> \E i \in 1 .. n + 1 : y = stack'[i]
      BY <2>1, <2>2
    <2>4. visiting' = {stack'[i] : i \in 1 .. n + 1}
      BY <2>3
    <2>5. visited = {known[i] : i \in 1 .. Len(known)}
      BY DEF Search, MarksMatch
    <2>6. visited \cap visiting = {}
      BY DEF Search, MarksMatch
    <2>7. visited' = visited /\ known' = known
      OBVIOUS
    <2>8. visited' = {known'[i] : i \in 1 .. Len(known')}
      BY <2>5, <2>7
    <2>9. visited' \cap visiting' = {}
      BY <2>6, <2>7
    <2>10. QED
      BY <2>4, <2>8, <2>9 DEF MarksMatch, Depth
  <1>4. \A i \in 1 .. n : i # n => todo'[stack[i]] = todo[stack[i]]
    BY <1>1 DEF Search, Path
  <1>5. Path'
    <2>1. \A i, j \in 1 .. n + 1 : stack'[i] = stack'[j] => i = j
      <3>1. \A i, j \in 1 .. n : stack[i] = stack[j] => i = j
        BY DEF Search, Path
      <3>2. \A i \in 1 .. n + 1 : i \in 1 .. n \/ i = n + 1
        BY <1>1
      <3>3. QED
        BY <1>1, <3>1, <3>2
    <2>2. ASSUME NEW i \in 1 .. n + 1
          PROVE  todo'[stack'[i]] \subseteq deps[stack'[i]]
      <3>1. CASE i = n + 1
        BY <3>1
      <3>2. CASE i \in 1 .. n
        <4>1. stack'[i] = stack[i] /\ todo[stack[i]] \subseteq deps[stack[i]]
          BY <3>2 DEF Search, Path
        <4>2. todo'[stack[i]] \subseteq todo[stack[i]]
          BY <1>1, <1>4, <3>2
        <4>3. QED
          BY <4>1, <4>2
      <3>3. QED
        BY <1>1, <3>1, <3>2
    <2>3. ASSUME NEW i \in 1 .. n + 1, NEW j \in 1 .. n + 1, j = i + 1
          PROVE  stack'[j] \in deps[stack'[i]]
      <3>1. i \in 1 .. n /\ n # 0 /\ n \in 1 .. n
        BY <1>1, <2>3
      <3>2. CASE j = n + 1
        <4>1. i = n
          BY <1>1, <2>3, <3>2
        <4>2. todo[stack[n]] \subseteq deps[stack[n]]
          BY <3>1 DEF Search, Path
        <4>3. QED
          BY <3>1, <3>2, <4>1, <4>2
      <3>3. CASE j \in 1 .. n
        BY <2>3, <3>1, <3>3 DEF Search, Path
      <3>4. QED
        BY <1>1, <3>2, <3>3
    <2>4. QED
      BY <2>1, <2>2, <2>3 DEF Path
  <1>6. Passed'
    <2> SUFFICES ASSUME NEW i \in 1 .. n + 1, NEW x \in ops \cap deps[stack'[i]]
                 PROVE  \/ x \in todo'[stack'[i]] \cup visited
                        \/ \E j \in 1 .. n + 1 : j = i + 1 /\ stack'[j] = x
      BY DEF Passed
    <2>1. CASE i = n + 1
      BY <2>1
    <2>2. CASE i \in 1 .. n /\ i = n
      BY <1>1, <2>2 DEF Search, Passed
    <2>3. CASE i \in 1 .. n /\ i # n
      BY <1>1, <1>4, <2>3 DEF Search, Passed
    <2>4. QED
      BY <1>1, <2>1, <2>2, <2>3
  <1>7. QED
    BY <1>2, <1>3, <1>5, <1>6 DEF Search

\* The loop of the innermost call moves past an input that is listed or that
\* is not in the map, or the search stops there with an error.
LEMMA InputPassed ==
    ASSUME Search, status = "running", stack # <<>>, NEW x \in todo[Top],
           x \notin ops \/ x \in visited \/ status' = "KnownTransitionsInconsistency",
           status' \in {"running", "KnownTransitionsInconsistency"}, todo' = Advanced(x),
           UNCHANGED <<ops, deps, capacity, roots, stack, visited, visiting, known>>
    PROVE  Search'
  <1>1. /\ todo' \in [OpIds -> SUBSET OpIds] /\ todo'[Top] = todo[Top] \ {x}
        /\ \A y \in OpIds : y # Top => todo'[y] = todo[y]
    BY Stack DEF Advanced, Search, TypeOK
  <1>2. \A i \in 1 .. Depth : stack[i] \in OpIds
    BY Stack
  <1>3. TypeOK' /\ MarksMatch' /\ Depth' = Depth
    <2>1. TypeOK'
      BY <1>1 DEF Search, TypeOK
    <2>2. MarksMatch' /\ Depth' = Depth
      BY DEF Search, MarksMatch, Depth
    <2>3. QED
      BY <2>1, <2>2
  <1>4. Path'
    BY <1>1, <1>2, <1>3 DEF Search, Path
  <1>5. status' = "running" => Passed'
    BY <1>1, <1>2, <1>3 DEF Search, Passed
  <1>6. QED
    BY <1>3, <1>4, <1>5 DEF Search

\* visit_and_insert returns from the innermost call.
LEMMA CallReturns ==
    ASSUME Search, leave, ~ Full
    PROVE  /\ Search'
           /\ Top \in ops /\ Top \notin visited /\ deps[Top] \cap ops \subseteq visited
  <1> DEFINE n == Depth - 1
             t == Top
  <1>1. /\ Depth \in Nat /\ Depth >= 1 /\ n \in Nat /\ stack[Depth] = t
        /\ t \in visiting /\ t \in OpIds /\ todo[t] = {} /\ status = "running"
        /\ UNCHANGED <<ops, deps, capacity, roots, todo, status>>
    BY Stack DEF leave, Depth, Top
  <1>2. t \in ops /\ t \notin visited
    BY <1>1 DEF Search, MarksMatch
  <1>3. deps[t] \cap ops \subseteq visited
    BY <1>1 DEF Search, Passed
  <1>4. stack' \in Seq(OpIds) /\ Depth' = n /\ \A i \in 1 .. n : stack'[i] = stack[i]
    <2>1. n \in Int /\ 1 \in Int /\ \A i \in 1 .. n : stack[i] \in OpIds
      BY <1>1, Stack
    <2>2. /\ SubSeq(stack, 1, n) \in Seq(OpIds)
          /\ Len(SubSeq(stack, 1, n)) = IF 1 <= n THEN n - 1 + 1 ELSE 0
          /\ \A i \in 1 .. n - 1 + 1 : SubSeq(stack, 1, n)[i] = stack[1 + i - 1]
      BY <2>1, SubSeqProperties
    <2>3. stack' = SubSeq(stack, 1, n)
      BY DEF leave, Depth
    <2>4. Len(SubSeq(stack, 1, n)) = n
      BY <1>1, <2>2
    <2>5. \A i \in 1 .. n : i \in 1 .. n - 1 + 1 /\ 1 + i - 1 = i
      BY <1>1
    <2>6. QED
      BY <2>2, <2>3, <2>4, <2>5 DEF Depth
  <1>5. /\ known' = Append(known, t) /\ known \in Seq(OpIds)
        /\ visited' = visited \cup {t} /\ visiting' = visiting \ {t}
    BY DEF leave, insert, Search, TypeOK
  <1>6. known' \in Seq(OpIds) /\ visited' = {known'[i] : i \in 1 .. Len(known')}
    <2>1. /\ known' \in Seq(OpIds) /\ Len(known') = Len(known) + 1 /\ Len(known) \in Nat
          /\ known'[Len(known) + 1] = t /\ \A i \in 1 .. Len(known) : known'[i] = known[i]
      BY <1>1, <1>5
    <2>2. visited = {known[i] : i \in 1 .. Len(known)}
      BY DEF Search, MarksMatch
    <2>3. QED
      BY <1>5, <2>1, <2>2
  <1> HIDE DEF t
  <1>7. visiting' = {stack'[i] : i \in 1 .. n}
    <2>1. visiting = {stack[i] : i \in 1 .. Depth} /\ \A i \in 1 .. n : stack[i] # t
      BY <1>1 DEF Search, MarksMatch, Depth, Path
    <2>2. \A i : i \in 1 .. Depth <=> i \in 1 .. n \/ i = Depth
      BY <1>1
    <2>3. \A y : y \in visiting' <=> \E i \in 1 .. n : y = stack[i]
      BY <1>1, <1>5, <2>1, <2>2
    <2>4. QED
      BY <1>4, <2>3
  <1>8. MarksMatch' /\ TypeOK'
    BY <1>1, <1>2, <1>4, <1>5, <1>6, <1>7 DEF Search, MarksMatch, TypeOK, Depth
  <1>9. \A i \in 1 .. n : i \in 1 .. Depth /\ stack'[i] = stack[i]
    BY <1>1, <1>4
  <1>10. Path'
    <2>1. \A i, j \in 1 .. n : stack'[i] = stack'[j] => i = j
      BY <1>9 DEF Search, Path
    <2>2. \A i \in 1 .. n : todo'[stack'[i]] \subseteq deps'[stack'[i]]
      BY <1>1, <1>9 DEF Search, Path
    <2>3. \A i, j \in 1 .. n : j = i + 1 => stack'[j] \in deps'[stack'[i]]
      BY <1>1, <1>9 DEF Search, Path
    <2>4. QED
      BY <1>4, <2>1, <2>2, <2>3 DEF Path
  <1>11. Passed'
    <2> SUFFICES ASSUME NEW i \in 1 .. n, NEW x \in ops \cap deps[stack[i]]
                 PROVE  \/ x \in todo[stack[i]] \cup visited'
                        \/ \E j \in 1 .. n : j = i + 1 /\ stack[j] = x
      BY <1>1, <1>4, <1>9 DEF Passed
    <2>1. \/ x \in todo[stack[i]] \cup visited
          \/ \E j \in 1 .. Depth : j = i + 1 /\ stack[j] = x
      BY <1>1, <1>9 DEF Search, Passed
    <2>2. QED
      BY <1>1, <1>5, <2>1
  <1>12. (Len(known) = Cardinality(visited))'
    <2>1. IsFiniteSet(visited)
      BY FiniteAssumption, FS_Subset DEF Search, TypeOK
    <2>2. Cardinality(visited \cup {t}) = Cardinality(visited) + 1
      BY <1>2, <2>1, FS_AddElement
    <2>3. Len(known') = Len(known) + 1
      BY <1>1, <1>5
    <2>4. QED
      BY <1>5, <2>2, <2>3 DEF Search
  <1>13. QED
    BY <1>1, <1>2, <1>3, <1>5, <1>8, <1>10, <1>11, <1>12 DEF Search, t

\* visit_and_insert fails on a full list: the listed transitions and the one
\* that does not fit are more than the list can hold.
LEMMA CallOverflows ==
    ASSUME Search, leave, Full
    PROVE  /\ TypeOK' /\ status = "running" /\ status' = "InvalidTransitionsNumber"
           /\ UNCHANGED <<ops, deps, capacity, known, stack>>
           /\ Cardinality(ops) > capacity
  <1>1. /\ status = "running" /\ status' = "InvalidTransitionsNumber"
        /\ UNCHANGED <<ops, deps, capacity, roots, known, stack, todo>>
        /\ visiting' = visiting \ {Top} /\ visited' = visited \cup {Top}
        /\ stack # <<>>
    BY DEF leave
  <1>2. Top \in visiting /\ Top \in OpIds
    BY <1>1, Stack
  <1>3. Top \in ops /\ Top \notin visited /\ visited \subseteq ops /\ ops \subseteq OpIds
    BY <1>1, <1>2 DEF Search, MarksMatch, TypeOK
  <1>4. TypeOK'
    BY <1>1, <1>2 DEF Search, TypeOK
  <1>5. IsFiniteSet(ops) /\ IsFiniteSet(visited)
    BY <1>3, FiniteAssumption, FS_Subset
  <1>6. Cardinality(visited \cup {Top}) = Cardinality(visited) + 1
    BY <1>3, <1>5, FS_AddElement
  <1>7. visited \cup {Top} \subseteq ops
    BY <1>3
  <1>8. Cardinality(visited \cup {Top}) <= Cardinality(ops) /\ Cardinality(ops) \in Nat
    BY <1>5, <1>7, FS_Subset, FS_CardinalityType
  <1>9. Cardinality(visited) >= capacity /\ Cardinality(visited) \in Nat /\ capacity \in Nat
    BY DEF Full, Search, TypeOK
  <1>10. QED
    BY <1>1, <1>4, <1>6, <1>8, <1>9

\* The outer loop: a root is listed already or starts a call.
LEMMA RootStep ==
    ASSUME Search, NEW r \in OpIds, visit_root(r)
    PROVE  Search' /\ UNCHANGED <<ops, deps, capacity, known, status>>
  <1>1. /\ status = "running" /\ stack = <<>> /\ visiting = {} /\ Depth = 0
        /\ r \in ops /\ roots' = roots \ {r} /\ roots \in SUBSET ops
        /\ UNCHANGED <<ops, deps, capacity, visited, known>>
    BY Stack DEF visit_root, Search, TypeOK
  <1>2. CASE r \in visited
    <2>1. UNCHANGED <<stack, todo, visiting, status>>
      BY <1>1, <1>2 DEF visit_root, enter
    <2>2. TypeOK'
      BY <1>1, <2>1 DEF Search, TypeOK
    <2>3. MarksMatch' /\ Path' /\ (status' = "running" => Passed')
      BY <1>1, <2>1 DEF Search, MarksMatch, Path, Passed, Depth
    <2>4. QED
      BY <1>1, <1>2, <2>1, <2>2, <2>3 DEF Search
  <1>3. CASE r \notin visited
    <2>1. /\ stack' = Append(stack, r) /\ todo' = [todo EXCEPT ![r] = deps[r]]
          /\ visiting' = visiting \cup {r} /\ status' = status
      BY <1>1, <1>3 DEF visit_root, enter
    <2>2. stack' \in Seq(OpIds) /\ Depth' = 1 /\ stack'[1] = r
      BY <1>1, <2>1 DEF Depth
    <2>3. /\ todo' \in [OpIds -> SUBSET OpIds] /\ todo'[r] = deps[r]
          /\ \A y \in OpIds : y # r => todo'[y] = todo[y]
      BY <2>1 DEF Search, TypeOK
    <2>4. Search'
      BY <1>1, <1>3, <2>1, <2>2, <2>3, CallStarts
    <2>5. QED
      BY <1>1, <2>1, <2>4
  <1>4. QED
    BY <1>2, <1>3

\* The loop over inputs(): nothing is listed, and an error means that the
\* active calls from the input on are a circle.
LEMMA InputStep ==
    ASSUME Search, NEW x \in OpIds, visit_input(x)
    PROVE  /\ Search' /\ UNCHANGED <<ops, deps, capacity, known>>
           /\ status' # status => status = "running" /\ status' = "KnownTransitionsInconsistency" /\ Order!Circular
  <1>1. /\ status = "running" /\ stack # <<>> /\ x \in todo[Top] /\ Top \in OpIds
        /\ Depth \in Nat /\ Depth >= 1 /\ Top = stack[Depth]
        /\ UNCHANGED <<ops, deps, capacity, roots, visited, known>>
    BY Stack DEF visit_input, Depth, Top
  <1>2. CASE x \notin ops \/ x \in visited
    <2>1. todo' = Advanced(x) /\ UNCHANGED <<stack, visiting, status>>
      BY <1>2 DEF visit_input, enter, Followed, Search
    <2>2. Search'
      BY <1>1, <1>2, <2>1, InputPassed
    <2>3. QED
      BY <1>1, <2>1, <2>2
  <1>3. CASE x \in ops /\ x \notin visited /\ x \in visiting
    <2>1. todo' = Advanced(x) /\ status' = "KnownTransitionsInconsistency" /\ UNCHANGED <<stack, visiting>>
      BY <1>3 DEF visit_input, enter, Followed
    <2>2. Search'
      BY <1>1, <2>1, InputPassed
    <2>3. PICK k \in 1 .. Depth : stack[k] = x
      BY <1>3 DEF Search, MarksMatch, Depth
    <2> DEFINE S == {stack[i] : i \in k .. Depth}
    <2>4. S \in SUBSET ops /\ S # {}
      BY <1>1, <2>3 DEF Search, MarksMatch, Depth
    <2>5. ASSUME NEW i \in k .. Depth
          PROVE  deps[stack[i]] \cap S # {}
      <3>1. CASE i = Depth
        <4>1. x \in deps[Top] /\ x \in S
          BY <1>1, <2>3 DEF Search, Path
        <4>2. QED
          BY <1>1, <3>1, <4>1
      <3>2. CASE i # Depth
        <4>1. i + 1 \in k .. Depth /\ i \in 1 .. Depth /\ i + 1 \in 1 .. Depth
          BY <1>1, <2>3, <3>2
        <4>2. stack[i + 1] \in deps[stack[i]] /\ stack[i + 1] \in S
          BY <4>1 DEF Search, Path
        <4>3. QED
          BY <4>2
      <3>3. QED
        BY <3>1, <3>2
    <2>6. Order!Circular
      <3>1. \A y \in S : deps[y] \cap S # {}
        BY <2>5
      <3> HIDE DEF S
      <3>2. QED
        BY <2>4, <3>1 DEF Order!Circular
    <2>7. QED
      BY <1>1, <2>1, <2>2, <2>6
  <1>4. CASE x \in ops /\ x \notin visited /\ x \notin visiting
    <2>1. /\ stack' = Append(stack, x) /\ todo' = [Advanced(x) EXCEPT ![x] = deps[x]]
          /\ visiting' = visiting \cup {x} /\ status' = status
      BY <1>4 DEF visit_input, enter, Followed
    <2>2. /\ stack' \in Seq(OpIds) /\ Depth' = Depth + 1 /\ stack'[Depth + 1] = x
          /\ \A i \in 1 .. Depth : stack'[i] = stack[i]
      BY <2>1 DEF Depth, Search, TypeOK
    <2>3. Top # x
      BY <1>1, <1>4, Stack
    <2>4. /\ todo' \in [OpIds -> SUBSET OpIds] /\ todo'[x] = deps[x]
          /\ todo'[Top] = todo[Top] \ {x}
          /\ \A y \in OpIds : y # x /\ y # Top => todo'[y] = todo[y]
      BY <1>1, <2>1, <2>3 DEF Advanced, Search, TypeOK
    <2>5. roots' \in SUBSET ops /\ roots \ {x} \subseteq roots'
      BY <1>1 DEF Search, TypeOK
    <2>6. Search'
      <3>1. x \in todo[stack[Depth]] /\ todo'[stack[Depth]] = todo[stack[Depth]] \ {x}
        BY <1>1, <2>4
      <3>2. \A y \in OpIds : y # x /\ (Depth # 0 => y # stack[Depth]) => todo'[y] = todo[y]
        BY <1>1, <2>4
      <3>3. UNCHANGED <<ops, deps, capacity, visited, known, status>>
        BY <1>1, <2>1
      <3>4. /\ stack' \in Seq(OpIds) /\ Depth' = Depth + 1 /\ stack'[Depth + 1] = x
            /\ \A i \in 1 .. Depth : stack'[i] = stack[i]
        BY <2>2
      <3>5. /\ visiting' = visiting \cup {x}
            /\ todo' \in [OpIds -> SUBSET OpIds] /\ todo'[x] = deps[x]
        BY <2>1, <2>4
      <3>6. QED
        BY <1>1, <1>4, <2>5, <3>1, <3>2, <3>3, <3>4, <3>5, CallStarts, SMTT(60)
    <2>7. QED
      BY <1>1, <2>1, <2>6
  <1>5. QED
    BY <1>2, <1>3, <1>4

\* The list is complete when the search ends.
LEMMA FinishStep ==
    ASSUME Search, finish
    PROVE  Search' /\ ops \subseteq visited
  <1>1. visiting = {} /\ roots = {} /\ status = "running" /\ status' = "ok"
    BY Stack DEF finish
  <1>2. UNCHANGED <<ops, deps, capacity, roots, stack, todo, visited, visiting, known>>
    BY DEF finish
  <1>3. TypeOK'
    BY <1>1, <1>2 DEF Search, TypeOK
  <1>4. MarksMatch'
    BY <1>2 DEF Search, MarksMatch
  <1>5. Path'
    BY <1>2 DEF Search, Path, Depth
  <1>6. QED
    BY <1>1, <1>2, <1>3, <1>4, <1>5 DEF Search

\* The invariant holds initially and is preserved by every step.
LEMMA InitSearch == Init => Search
  BY FS_EmptySet, CapacityAssumption DEF Init, Search, TypeOK, MarksMatch, Path, Passed, Depth

LEMMA NextSearch ==
    ASSUME Search, [Next]_vars
    PROVE  \/ Search'
           \/ /\ TypeOK' /\ status' = "InvalidTransitionsNumber"
              /\ UNCHANGED <<ops, stack>>
  <1>1. CASE UNCHANGED vars
    <2>1. UNCHANGED <<ops, deps, capacity, roots, stack, todo, visited, visiting, known, status>>
      BY <1>1 DEF vars
    <2>2. TypeOK'
      BY <2>1 DEF Search, TypeOK
    <2>3. MarksMatch'
      BY <2>1 DEF Search, MarksMatch
    <2>4. Path'
      BY <2>1 DEF Search, Path, Depth
    <2>5. status' = "running" => Passed'
      BY <2>1 DEF Search, Passed, Depth
    <2>6. QED
      BY <2>1, <2>2, <2>3, <2>4, <2>5 DEF Search
  <1>2. QED
    BY <1>1, RootStep, InputStep, CallReturns, CallOverflows, FinishStep
       DEF Next, insert_transitions_sorted, Returned

\* The active calls are distinct transitions of the map.
LEMMA DepthBounded == Search => RecursionBounded
  <1> SUFFICES ASSUME Search PROVE RecursionBounded
    OBVIOUS
  <1>1. Depth \in Nat /\ \A i \in 1 .. Depth : stack[i] \in ops
    BY Stack DEF Search
  <1>2. IsFiniteSet(ops)
    <2>1. ops \subseteq OpIds
      BY DEF Search, TypeOK
    <2>2. QED
      BY <2>1, FiniteAssumption, FS_Subset
  <1> DEFINE call == [i \in 1 .. Depth |-> stack[i]]
  <1>3. call \in Injection(1 .. Depth, ops)
    <2>1. call \in [1 .. Depth -> ops]
      BY <1>1
    <2>2. \A i, j \in 1 .. Depth : call[i] = call[j] => i = j
      BY DEF Search, Path
    <2> HIDE DEF call
    <2>3. QED
      BY <2>1, <2>2 DEF Injection, IsInjective
  <1>4. IsFiniteSet(1 .. Depth) /\ Cardinality(1 .. Depth) = Depth
    <2>1. Cardinality(1 .. Depth) = IF 1 > Depth THEN 0 ELSE Depth - 1 + 1
      BY <1>1, FS_Interval
    <2>2. QED
      BY <1>1, <2>1, FS_Interval
  <1>5. Cardinality(1 .. Depth) <= Cardinality(ops)
    BY <1>2, <1>3, FS_Injection
  <1>6. QED
    BY <1>4, <1>5 DEF RecursionBounded, Depth

\* After the return there is no step.
LEMMA Stops ==
    ASSUME [Next]_vars, status # "running"
    PROVE  UNCHANGED vars
  BY DEF Next, insert_transitions_sorted, visit_root, visit_input, leave, finish, Returned

LEMMA InitInv == Init => Inv
  BY InitSearch, DepthBounded DEF Inv, Search

LEMMA NextInv == Inv /\ [Next]_vars => Inv'
  <1> SUFFICES ASSUME Inv, [Next]_vars PROVE Inv'
    OBVIOUS
  <1>1. CASE Search
    <2>1. CASE Search'
      <3>1. RecursionBounded'
        BY <2>1, DepthBounded, PTL
      <3>2. QED
        BY <2>1, <3>1 DEF Inv, Search
    <2>2. CASE /\ TypeOK' /\ status' = "InvalidTransitionsNumber"
               /\ UNCHANGED <<ops, stack>>
      BY <2>2 DEF Inv, RecursionBounded
    <2>3. QED
      BY <1>1, <2>1, <2>2, NextSearch
  <1>2. CASE status = "InvalidTransitionsNumber"
    <2>1. UNCHANGED vars
      BY <1>2, Stops
    <2>2. QED
      BY <1>2, <2>1 DEF Inv, vars, TypeOK, RecursionBounded
  <1>3. QED
    BY <1>1, <1>2 DEF Inv

\* The variables of visit_and_insert and of its caller keep their types, and
\* the outer loop only ever has keys of the map before it.
THEOREM TypeCorrect == Spec => []TypeOK
  BY InitInv, NextInv, PTL DEF Spec, Inv

\* The marks of the search mean what their names say: `visited` is what is
\* listed, `visiting` the active calls, and no transition is both.
THEOREM MarksCorrect == Spec => []MarksMatch
  <1>1. Inv => MarksMatch
    BY DEF Inv, Search, MarksMatch
  <1>2. QED
    BY <1>1, InitInv, NextInv, PTL DEF Spec

\* visit_and_insert never recurses deeper than the bundle has known
\* transitions, for every number of them and every circle they form.
THEOREM RecursionIsBounded == Spec => []RecursionBounded
  BY InitInv, NextInv, PTL DEF Spec, Inv

\* The search implements TransitionOrder: every step lists one transition
\* after its dependencies, accepts a complete list, refuses a circle or is
\* invisible.
THEOREM SearchRefinesOrder == Spec => SortsTransitions
  <1>1. Init => Order!Init
    BY DEF Init, Order!Init
  <1>2. Inv /\ [Next]_vars => [Order!Next]_(Order!vars)
    <2> SUFFICES ASSUME Search, [Next]_vars PROVE [Order!Next]_(Order!vars)
      BY Stops DEF Inv, vars, Order!vars
    <2>1. visited = Order!Listed
      BY DEF Search, MarksMatch, Order!Listed
    <2>2. CASE \E r \in OpIds : visit_root(r)
      BY <2>2, RootStep DEF Order!vars
    <2>3. CASE \E x \in OpIds : visit_input(x)
      BY <2>3, InputStep DEF Order!vars, Order!Next, Order!Refuse
    <2>4. CASE leave
      <3>1. CASE ~ Full
        <4>1. Top \in ops /\ Top \notin visited /\ deps[Top] \cap ops \subseteq visited
          BY <2>4, <3>1, CallReturns
        <4>2. Order!List(Top)
          BY <2>1, <2>4, <3>1, <4>1 DEF leave, insert, Order!List
        <4>3. QED
          BY <4>1, <4>2 DEF Order!Next
      <3>2. CASE Full
        <4>1. Order!Cardinality(ops) = Cardinality(ops)
          BY DEF Order!Cardinality, Cardinality
        <4>2. Order!Refuse
          BY <2>4, <3>2, <4>1, CallOverflows DEF Order!Refuse
        <4>3. QED
          BY <4>2 DEF Order!Next
      <3>3. QED
        BY <3>1, <3>2
    <2>5. CASE finish
      <3>1. Order!Accept
        BY <2>1, <2>5, FinishStep DEF finish, Order!Accept
      <3>2. QED
        BY <3>1 DEF Order!Next
    <2>6. CASE UNCHANGED vars
      BY <2>6 DEF vars, Order!vars
    <2>7. QED
      BY <2>2, <2>3, <2>4, <2>5, <2>6 DEF Next, insert_transitions_sorted, Returned
  <1>3. QED
    BY <1>1, <1>2, InitInv, NextInv, PTL DEF Spec, SortsTransitions, Order!Spec

-----------------------------------------------------------------------------
(* Termination without fairness: no step repeats work.                     *)

\* What is left of an input list only shrinks, the roots and the transitions
\* to list only go: when one of the three changes, a step has made progress.
LEMMA RootProgress ==
    ASSUME Search, NEW r \in OpIds, visit_root(r)
    PROVE  /\ status = "running" /\ roots' \subseteq roots /\ roots' # roots
           /\ Unlisted' = Unlisted /\ InputsLeft' = InputsLeft
  <1>1. /\ status = "running" /\ stack = <<>> /\ r \in roots /\ roots' = roots \ {r}
        /\ UNCHANGED <<ops, deps, visited>>
    BY DEF visit_root
  <1>2. Unlisted' = Unlisted
    BY <1>1 DEF Unlisted
  <1>3. CASE r \in visited
    <2>1. UNCHANGED <<todo, visiting>>
      BY <1>3 DEF visit_root, enter, Search
    <2>2. QED
      BY <1>1, <1>2, <2>1 DEF InputsLeft
  <1>4. CASE r \notin visited
    <2>1. visiting = {}
      BY <1>1, Stack
    <2>2. todo' = [todo EXCEPT ![r] = deps[r]] /\ visiting' = {r}
      BY <1>4, <2>1 DEF visit_root, enter
    <2>3. todo'[r] = deps[r]
      BY <2>2 DEF Search, TypeOK
    <2>4. InputsLeft' = InputsLeft
      BY <1>1, <2>1, <2>2, <2>3 DEF InputsLeft
    <2>5. QED
      BY <1>1, <1>2, <2>4
  <1>5. QED
    BY <1>3, <1>4

LEMMA InputProgress ==
    ASSUME Search, NEW x \in OpIds, visit_input(x)
    PROVE  /\ status = "running" /\ roots' = roots /\ Unlisted' = Unlisted /\ ops' = ops
           /\ Top \in ops /\ x \in InputsLeft[Top] /\ x \notin InputsLeft'[Top]
           /\ \A op \in ops : InputsLeft'[op] \subseteq InputsLeft[op]
  <1>1. /\ status = "running" /\ x \in todo[Top] /\ Top \in OpIds /\ Top \in visiting
        /\ Top \in ops /\ Top \notin visited
        /\ UNCHANGED <<ops, deps, capacity, roots, visited>>
    BY Stack DEF visit_input, Search, MarksMatch
  <1>2. Unlisted' = Unlisted
    BY <1>1 DEF Unlisted
  <1>3. /\ Advanced(x) \in [OpIds -> SUBSET OpIds] /\ Advanced(x)[Top] = todo[Top] \ {x}
        /\ \A y \in OpIds : y # Top => Advanced(x)[y] = todo[y]
    BY <1>1 DEF Advanced, Search, TypeOK
  <1>4. /\ visiting \subseteq visiting' /\ ops \subseteq OpIds
        /\ \A y \in ops : IF y \in visiting THEN todo'[y] = Advanced(x)[y]
                          ELSE y \in visiting' => todo'[y] = deps[y]
    <2>1. ops \subseteq OpIds
      BY DEF Search, TypeOK
    <2>2. CASE todo' = Advanced(x) /\ visiting' = visiting
      BY <2>1, <2>2
    <2>3. CASE /\ x \notin visiting /\ visiting' = visiting \cup {x}
               /\ todo' = [Advanced(x) EXCEPT ![x] = deps[x]]
      BY <1>3, <2>1, <2>3
    <2>4. QED
      BY <2>2, <2>3 DEF visit_input, enter
  <1>5. \A y \in ops :
          /\ InputsLeft[y] = IF y \in visited THEN {} ELSE IF y \in visiting THEN todo[y] ELSE deps[y]
          /\ InputsLeft'[y] = IF y \in visited THEN {} ELSE IF y \in visiting' THEN todo'[y] ELSE deps[y]
    BY <1>1 DEF InputsLeft
  <1>6. x \in InputsLeft[Top] /\ x \notin InputsLeft'[Top]
    BY <1>1, <1>3, <1>4, <1>5
  <1>7. ASSUME NEW y \in ops
        PROVE  InputsLeft'[y] \subseteq InputsLeft[y]
    <2>1. CASE y = Top
      BY <1>1, <1>3, <1>4, <1>5, <2>1
    <2>2. CASE y # Top
      BY <1>3, <1>4, <1>5, <2>2
    <2>3. QED
      BY <2>1, <2>2
  <1>8. QED
    BY <1>1, <1>2, <1>6, <1>7

LEMMA LeaveProgress ==
    ASSUME Search, leave
    PROVE  /\ status = "running" /\ roots' = roots
           /\ Unlisted' \subseteq Unlisted /\ Unlisted' # Unlisted
           /\ \A op \in ops : InputsLeft'[op] \subseteq InputsLeft[op]
  <1>1. /\ status = "running" /\ visited' = visited \cup {Top} /\ visiting' = visiting \ {Top}
        /\ UNCHANGED <<ops, deps, capacity, roots, todo>>
    BY DEF leave
  <1>2. Top \in ops /\ Top \notin visited
    BY CallReturns, CallOverflows, Stack DEF leave, Search, MarksMatch
  <1>3. Unlisted' \subseteq Unlisted /\ Unlisted' # Unlisted
    BY <1>1, <1>2 DEF Unlisted
  <1>4. \A op \in ops : InputsLeft'[op] \subseteq InputsLeft[op]
    BY <1>1 DEF InputsLeft
  <1>5. QED
    BY <1>1, <1>3, <1>4

\* The search makes progress with every step it takes, for every bundle: it
\* cannot come back to a root, a transition or an input that it has dealt
\* with.  With finitely many of them it can only run on for finitely many
\* steps.
THEOREM SearchProgresses == Spec => Progresses
  <1> DEFINE Step == /\ status = "running"
                     /\ roots' \subseteq roots
                     /\ Unlisted' \subseteq Unlisted
                     /\ \A op \in ops : InputsLeft'[op] \subseteq InputsLeft[op]
                     /\ status' = "running" =>
                          <<roots, Unlisted, InputsLeft>>' # <<roots, Unlisted, InputsLeft>>
  <1>1. Inv /\ [Next]_vars => [Step]_vars
    <2> SUFFICES ASSUME Search, Next PROVE Step \/ UNCHANGED vars
      BY Stops DEF Inv
    <2>1. CASE \E r \in OpIds : visit_root(r)
      <3>1. /\ status = "running" /\ roots' \subseteq roots /\ roots' # roots
            /\ Unlisted' = Unlisted /\ InputsLeft' = InputsLeft
        BY <2>1, RootProgress
      <3>2. QED
        BY <3>1
    <2>2. CASE \E x \in OpIds : visit_input(x)
      <3>1. /\ status = "running" /\ roots' = roots /\ Unlisted' = Unlisted
            /\ InputsLeft' # InputsLeft
            /\ \A op \in ops : InputsLeft'[op] \subseteq InputsLeft[op]
        BY <2>2, InputProgress
      <3>2. QED
        BY <3>1
    <2>3. CASE leave
      BY <2>3, LeaveProgress
    <2>4. CASE finish
      <3>1. /\ status = "running" /\ status' = "ok"
            /\ UNCHANGED <<ops, deps, capacity, roots, todo, visited, visiting>>
        BY <2>4 DEF finish
      <3>2. QED
        BY <3>1 DEF Unlisted, InputsLeft
    <2>5. QED
      BY <2>1, <2>2, <2>3, <2>4 DEF Next, insert_transitions_sorted, Returned
  <1>2. QED
    BY <1>1, InitInv, NextInv, PTL DEF Spec, Progresses
=============================================================================
