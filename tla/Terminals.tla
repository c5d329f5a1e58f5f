----------------------------- MODULE Terminals -----------------------------
(***************************************************************************)
(* The terminal of a taproot output, under which transfer saves the tweak  *)
(* of its commitment: RgbOutExt::terminal_derivation (psbt/src/lib.rs) on  *)
(* the key origins of the output, for a BP PSBT (psbt/src/bp.rs) and for a *)
(* rust-bitcoin one (psbt/src/rb.rs).  A wallet puts the path from the     *)
(* master key or from the account key.  A path is a sequence of numbers;   *)
(* the hardened ones start at Hardened.                                    *)
(***************************************************************************)
EXTENDS Naturals, Sequences, FiniteSets

CONSTANTS
    Hardened,    \* 2^31 in the code
    U8,          \* 2^8 in the code: the range of u8
    Accounts,    \* hardened prefixes of paths
    MaxIndex,    \* bound on derivation indexes
    MaxKeys,     \* bound on the keys of an output
    None

Terminal(keychain, index) == [keychain |-> keychain, index |-> index]

\* The path of a key is an account path, possibly empty, then keychain and index.
Paths == {a \o <<k, i>> : a \in Accounts, k \in {0, 1}, i \in 0 .. MaxIndex}

VARIABLES
    origins,     \* the derivation paths of the keys of the output
    derived      \* what terminal_derivation answered for each backend

vars == <<origins, derived>>

Init == origins = {} /\ derived = [bp |-> None, rb |-> None]

\* External: DerivationPath::terminal of the BP library, the last two numbers.
bp_terminal(path) ==
    IF Len(path) < 2 \/ path[Len(path) - 1] >= U8 THEN None
    ELSE Terminal(path[Len(path) - 1], path[Len(path)])

\* Terminal::from_derivation_path: reverse, then pop twice, so that the index
\* is the first number of the path and the keychain the second.
from_derivation_path(path) ==
    IF Len(path) < 2 \/ path[2] >= U8 THEN None
    ELSE Terminal(path[2], path[1])

\* terminal_derivation: the terminal, if the origins name exactly one.
terminal_derivation(terminals) ==
    LET some == terminals \ {None}
    IN  IF Cardinality(some) = 1 THEN CHOOSE t \in some : TRUE ELSE None

\* A key is added to the output and its terminal is asked for.
AddKey(path) ==
    /\ Cardinality(origins) < MaxKeys
    /\ origins' = origins \cup {path}
    /\ derived' = [bp |-> terminal_derivation({bp_terminal(q) : q \in origins'}),
                   rb |-> terminal_derivation({from_derivation_path(q) : q \in origins'})]

Next == \E path \in Paths : AddKey(path)

Spec == Init /\ [][Next]_vars
-----------------------------------------------------------------------------
(* Properties.                                                             *)

\* A terminal path starts with the keychain, and the index comes second
\* ("terminal derivation path must start with keychain index"): both kinds of
\* PSBT report the terminal the output was derived at.
SameTerminal == derived.rb = derived.bp
=============================================================================
