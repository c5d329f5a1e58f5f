----------------------------- MODULE WriteAhead -----------------------------
(***************************************************************************)
(* What a wallet promises about its own records: before anything that      *)
(* commits it leaves the wallet (a PSBT for signing, an invoice), all that *)
(* is needed to make use of it later is recorded, and what is saved stays  *)
(* saved.  Records are saved as they are made (eager) or some time later;  *)
(* only in between can a kill lose them, and what was handed out with      *)
(* them.                                                                   *)
(***************************************************************************)
CONSTANT Items

VARIABLES
    eager,      \* records are saved as they are made
    recorded,   \* items recorded, in memory or on disk
    saved,      \* those that are on disk
    published,  \* items that were handed out
    lost        \* of these, the ones that a kill took off the record

vars == <<eager, recorded, saved, published, lost>>

Init == eager \in BOOLEAN /\ recorded = {} /\ saved = {} /\ published = {} /\ lost = {}

Record ==
    /\ recorded' \in SUBSET Items
    /\ recorded \subseteq recorded'
    /\ saved' = IF eager THEN recorded' ELSE saved
    /\ UNCHANGED <<eager, published, lost>>

Save ==
    /\ saved' = recorded
    /\ UNCHANGED <<eager, recorded, published, lost>>

Publish(i) ==
    /\ i \in recorded
    /\ published' = published \cup {i}
    /\ UNCHANGED <<eager, recorded, saved, lost>>

\* Some of what was not saved yet may just have been.
Kill ==
    /\ saved \subseteq recorded' /\ recorded' \subseteq recorded
    /\ saved' = recorded'
    /\ lost' = lost \cup (published \cap (recorded \ recorded'))
    /\ UNCHANGED <<eager, published>>

Next == Record \/ Save \/ Kill \/ \E i \in Items : Publish(i)

Spec == Init /\ [][Next]_vars
=============================================================================
