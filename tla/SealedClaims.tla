---------------------------- MODULE SealedClaims ----------------------------
(***************************************************************************)
(* What the RGB data of a PSBT is for, without keys, outputs and errors:   *)
(* transitions claim inputs, a claim is never taken over by another        *)
(* transition, and the transaction is sealed once, with all the claims     *)
(* made so far.                                                            *)
(***************************************************************************)
CONSTANTS ContractIds, Opouts, OpIds, None

VARIABLES
    claims,   \* the transition that claims an input in a contract, or None
    sealed    \* the claims the transaction commits to: none or one record

vars == <<claims, sealed>>

Unclaimed == [c \in ContractIds |-> [o \in Opouts |-> None]]

Init == claims = Unclaimed /\ sealed = {}

Claim(c, t, os) ==
    /\ \A o \in os : claims[c][o] = None
    /\ claims' = [claims EXCEPT ![c] = [o \in Opouts |-> IF o \in os THEN t ELSE @[o]]]
    /\ UNCHANGED sealed

Seal ==
    /\ sealed = {} /\ claims # Unclaimed
    /\ sealed' = {claims}
    /\ UNCHANGED claims

Next ==
    \/ \E c \in ContractIds, t \in OpIds, os \in SUBSET Opouts : Claim(c, t, os)
    \/ Seal

Spec == Init /\ [][Next]_vars
=============================================================================
