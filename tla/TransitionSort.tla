--------------------------- MODULE TransitionSort ---------------------------
(***************************************************************************)
(* insert_transitions_sorted of psbt/src/lib.rs: the depth-first search    *)
(* that orders the known transitions of a bundle.  The recursion of        *)
(* visit_and_insert is a stack of active calls, each with the inputs its   *)
(* loop has not looked at.  The roots are the keys of a HashMap, in no     *)
(* particular order; inputs() of a transition is ordered.                  *)
(***************************************************************************)
EXTENDS Naturals, Sequences, FiniteSets

CONSTANTS
    OpIds,       \* operations, as numbers: the order of inputs()
    Capacities   \* what a SmallVec can hold (2^16 - 1 in the code)

ASSUME OpIdsAssumption == OpIds \subseteq Nat
ASSUME FiniteAssumption == IsFiniteSet(OpIds)   \* a HashMap and an input list are finite
ASSUME CapacityAssumption == Capacities \subseteq Nat

VARIABLES
    ops,        \* the keys of `transitions`
    deps,       \* the operations whose outputs each transition spends
    capacity,   \* of known_transitions
    roots,      \* keys the outer loop has not visited
    stack,      \* the transitions of the active calls of visit_and_insert
    todo,       \* for each active call, the inputs its loop has still to look at
    visited, visiting,
    known,      \* known_transitions
    status      \* "running", then "ok" or the error

vars == <<ops, deps, capacity, roots, stack, todo, visited, visiting, known, status>>

Init ==
    /\ ops \in SUBSET OpIds
    /\ deps \in [OpIds -> SUBSET OpIds]
    /\ capacity \in Capacities
    /\ roots = ops
    /\ stack = <<>>
    /\ todo = [op \in OpIds |-> {}]
    /\ visited = {} /\ visiting = {}
    /\ known = <<>>
    /\ status = "running"

Top == stack[Len(stack)]

\* Mutant: the loop stays at the input.
Mut_Advanced(x) == todo

\* The loop of the innermost call moves past its input x.
Advanced(x) == [todo EXCEPT ![Top] = @ \ {x}]

\* Mutant: a visited transition is entered again.
Mut_enter(op, td) ==
    \/ /\ op \in visiting
       /\ status' = "KnownTransitionsInconsistency"
       /\ todo' = td
       /\ UNCHANGED <<stack, visiting>>
    \/ /\ op \notin visiting
       /\ stack' = Append(stack, op)
       /\ todo' = [td EXCEPT ![op] = deps[op]]
       /\ visiting' = visiting \cup {op}
       /\ UNCHANGED status

\* Mutant: a transition that is being visited is entered again.
Mut_enter_circle(op, td) ==
    \/ /\ op \in visited
       /\ todo' = td
       /\ UNCHANGED <<stack, visiting, status>>
    \/ /\ op \notin visited
       /\ stack' = Append(stack, op)
       /\ todo' = [td EXCEPT ![op] = deps[op]]
       /\ visiting' = visiting \cup {op}
       /\ UNCHANGED status

\* The call visit_and_insert(op), with td the loops of its callers: it returns
\* at once, fails on a transition that is being visited, or starts its loop.
enter(op, td) ==
    \/ /\ op \in visited
       /\ todo' = td
       /\ UNCHANGED <<stack, visiting, status>>
    \/ /\ op \notin visited /\ op \in visiting
       /\ status' = "KnownTransitionsInconsistency"
       /\ todo' = td
       /\ UNCHANGED <<stack, visiting>>
    \/ /\ op \notin visited /\ op \notin visiting
       /\ stack' = Append(stack, op)
       /\ todo' = [td EXCEPT ![op] = deps[op]]
       /\ visiting' = visiting \cup {op}
       /\ UNCHANGED status

\* The outer loop over transitions.keys().
visit_root(r) ==
    /\ status = "running" /\ stack = <<>>
    /\ r \in roots
    /\ roots' = roots \ {r}
    /\ enter(r, todo)
    /\ UNCHANGED <<ops, deps, capacity, visited, known>>

\* Mutant: only inputs the outer loop has still to visit are followed.
Mut_Followed(x) == x \in roots

\* transitions.contains_key(&input.op)
Followed(x) == x \in ops

\* The loop over inputs(): an input from outside the map is skipped.
visit_input(x) ==
    /\ status = "running" /\ stack # <<>>
    /\ x \in todo[Top] /\ \A y \in todo[Top] : x <= y
    /\ \/ /\ Followed(x)
          /\ enter(x, Advanced(x))
       \/ /\ ~ Followed(x)
          /\ todo' = Advanced(x)
          /\ UNCHANGED <<stack, visiting, status>>
    /\ UNCHANGED <<ops, deps, capacity, roots, visited, known>>

\* Mutant: the position is listed in place of the transition.
Mut_insert(op) == known' = Append(known, Len(known))

insert(op) == known' = Append(known, op)

\* push fails on a full list.
Full == Len(known) >= capacity

\* The end of visit_and_insert: the transition is listed after its inputs, or
\* the list is full when it is already marked.
leave ==
    /\ status = "running" /\ stack # <<>>
    /\ todo[Top] = {}
    /\ visiting' = visiting \ {Top}
    /\ visited' = visited \cup {Top}
    /\ \/ /\ ~ Full
          /\ insert(Top)
          /\ stack' = SubSeq(stack, 1, Len(stack) - 1)
          /\ UNCHANGED status
       \/ /\ Full
          /\ status' = "InvalidTransitionsNumber"
          /\ UNCHANGED <<known, stack>>
    /\ UNCHANGED <<ops, deps, capacity, roots, todo>>

finish ==
    /\ status = "running" /\ stack = <<>> /\ roots = {}
    /\ status' = "ok"
    /\ UNCHANGED <<ops, deps, capacity, roots, stack, todo, visited, visiting, known>>

Returned == status # "running" /\ UNCHANGED vars

insert_transitions_sorted ==
    \/ \E r \in OpIds : visit_root(r) \/ visit_input(r)
    \/ leave
    \/ finish

Next == insert_transitions_sorted \/ Returned

Spec == Init /\ [][Next]_vars

\* Sequential code, run to its end by the caller.
FairSpec == Spec /\ WF_vars(insert_transitions_sorted)
-----------------------------------------------------------------------------
(* Properties.                                                             *)

TypeOK ==
    /\ ops \in SUBSET OpIds
    /\ deps \in [OpIds -> SUBSET OpIds]
    /\ capacity \in Nat
    /\ roots \in SUBSET ops
    /\ stack \in Seq(OpIds)
    /\ todo \in [OpIds -> SUBSET OpIds]
    /\ visited \in SUBSET OpIds /\ visiting \in SUBSET OpIds
    /\ known \in Seq(OpIds)
    /\ status \in {"running", "ok", "KnownTransitionsInconsistency", "InvalidTransitionsNumber"}

\* The search implements the listing of TransitionOrder: each transition is
\* listed once and after those it depends on, all of them are listed when the
\* call succeeds, and it fails only on a circle or on more transitions than the
\* list can hold, with the error for it, for every order in which the HashMap
\* yields its keys.
Order == INSTANCE TransitionOrder
SortsTransitions == Order!Spec

\* The sets visited and visiting are what their names say: the listed
\* transitions and those with an active call, never both.  (A transition that
\* does not fit into the list is marked before the call fails.)
MarksMatch ==
    status # "InvalidTransitionsNumber" =>
        /\ visited = {known[i] : i \in 1 .. Len(known)}
        /\ visiting = {stack[i] : i \in 1 .. Len(stack)}
        /\ visited \cap visiting = {}

\* The recursion of visit_and_insert is never deeper than the bundle has known
\* transitions, whatever circles their inputs form.
RecursionBounded == Len(stack) <= Cardinality(ops)

\* What the search has before it: the transitions it has not listed, and for
\* each of them the inputs that its loop has not looked at.
Unlisted == ops \ visited
InputsLeft ==
    [op \in ops |-> IF op \in visited THEN {}
                   ELSE IF op \in visiting THEN todo[op] ELSE deps[op]]

\* Every step gets closer to the end, on a circle too: no root, transition or
\* input comes back once it is dealt with, a step that does not return deals
\* with one more, and after the return there is no step.
Progresses ==
    [][/\ status = "running"
       /\ roots' \subseteq roots
       /\ Unlisted' \subseteq Unlisted
       /\ \A op \in ops : InputsLeft'[op] \subseteq InputsLeft[op]
       /\ status' = "running" => <<roots, Unlisted, InputsLeft>>' # <<roots, Unlisted, InputsLeft>>]_vars

\* The call returns for every set of transitions, circular or not.
Terminates == <>(status # "running")
=============================================================================
