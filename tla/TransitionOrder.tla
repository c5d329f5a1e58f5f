--------------------------- MODULE TransitionOrder ---------------------------
(***************************************************************************)
(* What insert_transitions_sorted (psbt/src/lib.rs) promises: the known    *)
(* transitions of a bundle are listed one by one, each once and each after *)
(* the transitions of the bundle whose outputs it spends; the listing is   *)
(* accepted when it is complete, and refused with the error that names the *)
(* reason: the transitions depend on each other in a circle, or there are  *)
(* more of them than the list can hold.                                    *)
(***************************************************************************)
EXTENDS Naturals, Sequences, FiniteSets

VARIABLES
    ops,      \* the keys of the transition map
    deps,     \* the operations whose outputs an operation spends
    capacity, \* how many transitions the list can hold
    known,    \* the list built so far
    status    \* "running", then "ok" or the error

vars == <<ops, deps, capacity, known, status>>

Listed == {known[i] : i \in 1 .. Len(known)}

\* Some transitions of the bundle each spend an output of another of them.
Circular == \E S \in SUBSET ops : S # {} /\ \A x \in S : deps[x] \cap S # {}

Init == known = <<>> /\ status = "running"

List(op) ==
    /\ status = "running"
    /\ op \in ops \ Listed
    /\ deps[op] \cap ops \subseteq Listed
    /\ known' = Append(known, op)
    /\ UNCHANGED <<ops, deps, capacity, status>>

Accept ==
    /\ status = "running"
    /\ ops \subseteq Listed
    /\ status' = "ok"
    /\ UNCHANGED <<ops, deps, capacity, known>>

Refuse ==
    /\ status = "running"
    /\ \/ Circular /\ status' = "KnownTransitionsInconsistency"
       \/ Cardinality(ops) > capacity /\ status' = "InvalidTransitionsNumber"
    /\ UNCHANGED <<ops, deps, capacity, known>>

Next == (\E op \in ops : List(op)) \/ Accept \/ Refuse

Spec == Init /\ [][Next]_vars
=============================================================================
