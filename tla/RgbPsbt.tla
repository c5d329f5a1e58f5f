------------------------------ MODULE RgbPsbt ------------------------------
(***************************************************************************)
(* The RGB extension of a PSBT (psbt/src/lib.rs with its two backends      *)
(* psbt/src/rb.rs and psbt/src/bp.rs): state transitions are pushed into   *)
(* the global proprietary keys, other protocols add multi-protocol         *)
(* commitment (MPC) messages to the outputs, and rgb_commit turns the      *)
(* whole into a deterministic bitcoin commitment (DBC) in the script of    *)
(* one output plus the Fascia handed to the RGB stock.  Every call may     *)
(* fail, a failing call leaves what it wrote before the failure, and the   *)
(* caller may call again: the module keeps exactly those partial writes.   *)
(*                                                                         *)
(* Abstractions.  A transition is its OpId with a constant contract and    *)
(* constant inputs; the part that may differ between two copies of the     *)
(* same transition, the revealed seals, is a set.  Hashes are injective:   *)
(* a BundleId is the input map it commits to and an MPC commitment is the  *)
(* message map it commits to.  The entropy key, written in the same step   *)
(* as the MPC commitment, and the proofs stored next to the commitments    *)
(* carry no further information and are left out.  The order of the known  *)
(* transitions inside a bundle is the subject of TransitionSort.           *)
(***************************************************************************)
EXTENDS Naturals

CONSTANTS
    ContractIds,   \* contracts, as numbers: BTreeMap iterates in this order
    OpIds,         \* state transitions
    Opouts,        \* contract state allocations, as numbers: inputs() is ordered
    Seals,         \* seals a copy of a transition may reveal
    Foreign,       \* MPC protocols other than RGB contracts
    ForeignMsgs,   \* their messages
    TooBig,        \* the transitions that do not fit 2^24 bytes
    NOut,          \* number of outputs of the transaction
    contract_of,   \* the contract of a transition
    inputs_of,     \* the allocations a transition spends
    None           \* an absent key, or Option::None

Outputs == 1 .. NOut
Protocols == ContractIds \cup Foreign
Methods == {"opret", "tapret"}
Consumers == [Opouts -> OpIds \cup {None}]
NoConsumers == [o \in Opouts |-> None]
Messages == Consumers \cup ForeignMsgs
MessageMaps == [Protocols -> Messages \cup {None}]
NoMessages == [p \in Protocols |-> None]

ASSUME OrderedAssumption == ContractIds \subseteq Nat /\ Opouts \subseteq Nat
ASSUME NOutAssumption == NOut \in Nat \ {0}
ASSUME TransitionAssumption ==
    /\ contract_of \in [OpIds -> ContractIds]
    /\ inputs_of \in [OpIds -> (SUBSET Opouts) \ {{}}]
    /\ TooBig \subseteq OpIds
ASSUME ProtocolAssumption == ContractIds \cap Foreign = {}
ASSUME NoneAssumption ==
    /\ None \notin OpIds \cup ForeignMsgs \cup Methods
    /\ None \notin Consumers /\ None \notin MessageMaps
    /\ \A r \in SUBSET Seals : r # None

VARIABLES
    transitions,   \* PSBT_GLOBAL_RGB_TRANSITION: revealed seals of each stored transition
    consumed_by,   \* PSBT_GLOBAL_RGB_CONSUMED_BY of each contract
    close_method,  \* PSBT_GLOBAL_RGB_CLOSE_METHOD
    modifiable,    \* the OUTPUTS_MODIFIABLE flag
    outs,          \* the outputs, in transaction order
    fascia,        \* what rgb_commit returned to the caller
    failed_push,   \* a push_rgb_transition has returned an error
    result         \* the last call and what it returned

vars == <<transitions, consumed_by, close_method, modifiable, outs, fascia,
          failed_push, result>>

(***************************************************************************)
(* An output: its kind of script, its host flag (PSBT_OUT_OPRET_HOST on an *)
(* op_return output, PSBT_OUT_TAPRET_HOST on a p2tr one), the taproot      *)
(* fields, the MPC messages and commitment, the DBC commitment key, and    *)
(* the commitment its script carries in the unsigned transaction.          *)
(***************************************************************************)
Output ==
    [kind : {"op_return", "p2tr", "other"}, host : BOOLEAN,
     internal_key : BOOLEAN, tap_tree : BOOLEAN,
     mpc_message : MessageMaps, mpc_commitment : MessageMaps \cup {None},
     dbc_commitment : MessageMaps \cup {None}, script : MessageMaps \cup {None}]

Fascia == [bundles : [ContractIds -> Consumers], known : SUBSET OpIds,
           anchor : MessageMaps, vout : Outputs]
ASSUME FasciaAssumption == None \notin Fascia

\* The errors of the three fallible calls, by the name of the enum variant.
Outcomes ==
    {"ok", "refused", "TransitionTooBig", "DoubleSpend", "NoCloseMethod",
     "NoHostOutput", "NoContracts", "TxOutputsModifiable", "Mpc", "Prohibited",
     "TapTreeNonEmpty", "NoInternalKey"}

Result == [call : {"new", "push", "message", "set", "commit"}, out : Outcomes,
           opid : OpIds \cup {None}, reveals : SUBSET Seals]

Returns(call, out) ==
    result' = [call |-> call, out |-> out, opid |-> None, reveals |-> {}]

\* What find() over an ordered collection returns.
IsFirst(x, S) == x \in S /\ \A y \in S : x <= y

(***************************************************************************)
(* The states create_psbt leaves: no RGB data, host flags only on outputs  *)
(* whose script fits the method (set_opret_host looks for an op_return     *)
(* script, the wallet flags an output that is_p2tr), though not            *)
(* necessarily on the first such output.                                   *)
(***************************************************************************)
FreshOutput(o) ==
    /\ o.host => o.kind # "other"
    /\ o.internal_key \/ o.tap_tree => o.kind = "p2tr"
    /\ o.mpc_message = NoMessages
    /\ o.mpc_commitment = None /\ o.dbc_commitment = None /\ o.script = None

FreshOutputs ==
    {[kind |-> k, host |-> h, internal_key |-> ik, tap_tree |-> tt,
      mpc_message |-> NoMessages, mpc_commitment |-> None,
      dbc_commitment |-> None, script |-> None] :
        k \in {"op_return", "p2tr", "other"}, h, ik, tt \in BOOLEAN}

Init ==
    /\ transitions = [t \in OpIds |-> None]
    /\ consumed_by = [c \in ContractIds |-> NoConsumers]
    /\ close_method = None
    /\ modifiable \in BOOLEAN
    /\ outs \in [Outputs -> {o \in FreshOutputs : FreshOutput(o)}]
    /\ fascia = None
    /\ failed_push = FALSE
    /\ result = [call |-> "new", out |-> "ok", opid |-> None, reveals |-> {}]
-----------------------------------------------------------------------------
(* Global keys.                                                            *)

\* set_rgb_close_method: proprietary_push refuses a present key and the
\* refusal is ignored, so that the first caller wins.
set_rgb_close_method(m) ==
    /\ close_method' = IF close_method = None THEN m ELSE close_method
    /\ Returns("set", "ok")
    /\ UNCHANGED <<transitions, consumed_by, modifiable, outs, fascia, failed_push>>

set_as_unmodifiable ==
    /\ modifiable' = FALSE
    /\ Returns("set", "ok")
    /\ UNCHANGED <<transitions, consumed_by, close_method, outs, fascia, failed_push>>

\* Mutant: set_rgb_contract_consumer overwrites the consumer it finds.
Mut_DoubleSpent(t) == {}

\* set_rgb_contract_consumer answers DoubleSpend for these inputs of t.
DoubleSpent(t) ==
    {o \in inputs_of[t] : consumed_by[contract_of[t]][o] \notin {None, t}}

\* The consumers after set_rgb_contract_consumer succeeded for each of os.
WithConsumer(t, os) ==
    [consumed_by EXCEPT ![contract_of[t]] =
        [o \in Opouts |-> IF o \in os THEN t ELSE @[o]]]

\* proprietary_push of the serialized transition, its refusal ignored.
StoreTransition(t, r) ==
    transitions' = IF transitions[t] = None THEN [transitions EXCEPT ![t] = r]
                                            ELSE transitions

PushReturns(t, r, out) ==
    result' = [call |-> "push", out |-> out, opid |-> t, reveals |-> r]

(***************************************************************************)
(* push_rgb_transition of a copy of t revealing r.  The transition is      *)
(* stored before its inputs are claimed one by one in the order of         *)
(* inputs(): on DoubleSpend the earlier inputs stay claimed.               *)
(***************************************************************************)
push_too_big(t, r) ==
    /\ t \in TooBig
    /\ PushReturns(t, r, "TransitionTooBig")
    /\ failed_push' = TRUE
    /\ UNCHANGED <<transitions, consumed_by, close_method, modifiable, outs, fascia>>

\* Mutant: the transition is stored after the loop over its inputs.
Mut_push_double_spend(t, r) ==
    /\ t \notin TooBig
    /\ \E o \in inputs_of[t] :
          /\ IsFirst(o, DoubleSpent(t))
          /\ consumed_by' = WithConsumer(t, {i \in inputs_of[t] : i < o})
    /\ PushReturns(t, r, "DoubleSpend")
    /\ failed_push' = TRUE
    /\ UNCHANGED <<transitions, close_method, modifiable, outs, fascia>>

push_double_spend(t, r) ==
    /\ t \notin TooBig
    /\ \E o \in inputs_of[t] :
          /\ IsFirst(o, DoubleSpent(t))
          /\ consumed_by' = WithConsumer(t, {i \in inputs_of[t] : i < o})
    /\ StoreTransition(t, r)
    /\ PushReturns(t, r, "DoubleSpend")
    /\ failed_push' = TRUE
    /\ UNCHANGED <<close_method, modifiable, outs, fascia>>

push_ok(t, r) ==
    /\ t \notin TooBig
    /\ DoubleSpent(t) = {}
    /\ consumed_by' = WithConsumer(t, inputs_of[t])
    /\ StoreTransition(t, r)
    /\ PushReturns(t, r, "ok")
    /\ UNCHANGED <<close_method, modifiable, outs, fascia, failed_push>>

push_rgb_transition(t, r) ==
    push_too_big(t, r) \/ push_double_spend(t, r) \/ push_ok(t, r)
-----------------------------------------------------------------------------
(* MPC messages of an output.                                              *)

\* Mutants: set_mpc_message without its Finalized check, and without the
\* comparison with the message that is present.
Mut_NotFinalized(o, p, m) == o.mpc_message[p] \notin {None, m}
Mut_AnyValue(o, p, m) == o.mpc_commitment # None

\* set_mpc_message answers Finalized or InvalidKeyValue.
MessageRefused(o, p, m) ==
    o.mpc_commitment # None \/ o.mpc_message[p] \notin {None, m}

\* Mutant: the value stored under a protocol is not its message.
Mut_WithMessages(o, ps, msg) ==
    [o EXCEPT !.mpc_message =
        [p \in Protocols |-> IF p \in ps /\ @[p] = None THEN msg ELSE @[p]]]

\* The messages after set_mpc_message succeeded for every p in ps: a
\* message that is present already is not written again.
WithMessages(o, ps, msg) ==
    [o EXCEPT !.mpc_message =
        [p \in Protocols |-> IF p \in ps /\ @[p] = None THEN msg[p] ELSE @[p]]]

\* Another protocol adds its message to the output.
set_mpc_message(i, p, m) ==
    /\ IF MessageRefused(outs[i], p, m)
         THEN outs' = outs /\ Returns("message", "refused")
         ELSE /\ outs' = [outs EXCEPT ![i] = WithMessages(@, {p}, [q \in {p} |-> m])]
              /\ Returns("message", "ok")
    /\ UNCHANGED <<transitions, consumed_by, close_method, modifiable, fascia, failed_push>>
-----------------------------------------------------------------------------
(* rgb_commit, one action for each way it returns.                         *)

\* rgb_contract_ids: a contract has its key once an input was claimed.
Contracts == {c \in ContractIds : consumed_by[c] # NoConsumers}

\* rgb_bundles: the input map of each contract, and the stored transitions
\* that it names.
KnownTransitions ==
    {t \in OpIds : /\ transitions[t] # None
                   /\ \E c \in Contracts, o \in Opouts : consumed_by[c][o] = t}

HostKind(m) == IF m = "opret" THEN "op_return" ELSE "p2tr"

\* dbc_output_mut: the outputs whose script fits the close method.
ProperOutputs == {i \in Outputs : outs[i].kind = HostKind(close_method)}

\* rgb_bundles_to_mpc: the outputs flagged as host for the close method.
Hosts == {i \in ProperOutputs : outs[i].host}

Refusals(j) == {c \in Contracts : MessageRefused(outs[j], c, consumed_by[c])}

\* The outputs after rgb_bundles_to_mpc set the messages of cs on host j.
Embedded(j, cs) == [outs EXCEPT ![j] = WithMessages(@, cs, consumed_by)]

\* Mutant: the script is recomputed before the host flag is checked.
Mut_MpcCommitted(o) ==
    [o EXCEPT !.mpc_commitment = o.mpc_message, !.script = o.mpc_message]

\* mpc_commit, tapret_commit and opret_commit on an output.
MpcCommitted(o) == [o EXCEPT !.mpc_commitment = o.mpc_message]
DbcCommitted(o) ==
    [o EXCEPT !.dbc_commitment = o.mpc_message, !.host = FALSE,
              !.tap_tree = (@ \/ o.kind = "p2tr")]

\* set_opret_commitment, set_tapret_commitment: the script of the output
\* is recomputed from the stored commitment.
ScriptCommitted(o) == [o EXCEPT !.script = o.dbc_commitment]

CommitReturns(out) ==
    /\ Returns("commit", out)
    /\ UNCHANGED <<transitions, consumed_by, close_method, modifiable, failed_push>>

commit_no_method ==
    /\ close_method = None
    /\ CommitReturns("NoCloseMethod")
    /\ UNCHANGED <<outs, fascia>>

commit_no_host ==
    /\ close_method # None
    /\ Hosts = {}
    /\ CommitReturns("NoHostOutput")
    /\ UNCHANGED <<outs, fascia>>

\* The message of the first refused contract: those before it were set.
commit_message_refused ==
    /\ close_method # None
    /\ \E j \in Outputs, c \in ContractIds :
          /\ IsFirst(j, Hosts)
          /\ IsFirst(c, Refusals(j))
          /\ outs' = Embedded(j, {d \in Contracts : d < c})
    /\ CommitReturns("Mpc")
    /\ UNCHANGED fascia

commit_no_contracts ==
    /\ close_method # None
    /\ Hosts # {}
    /\ Contracts = {}
    /\ CommitReturns("NoContracts")
    /\ UNCHANGED <<outs, fascia>>

\* rgb_bundles_to_mpc succeeds with host j.
BundlesToMpc(j) ==
    /\ close_method # None
    /\ IsFirst(j, Hosts)
    /\ Contracts # {}
    /\ Refusals(j) = {}

commit_modifiable ==
    /\ modifiable
    /\ \E j \in Outputs : BundlesToMpc(j) /\ outs' = Embedded(j, Contracts)
    /\ CommitReturns("TxOutputsModifiable")
    /\ UNCHANGED fascia

\* dbc_commit reaches mpc_commit on the first proper output i.
DbcCommit(j, i) ==
    /\ ~modifiable
    /\ BundlesToMpc(j)
    /\ IsFirst(i, ProperOutputs)

\* mpc_commit fails: an empty message map, or a finalized output.
MpcFails(o) == o.mpc_message = NoMessages \/ o.mpc_commitment # None

commit_mpc_fails ==
    /\ \E j, i \in Outputs :
          /\ DbcCommit(j, i)
          /\ MpcFails(Embedded(j, Contracts)[i])
          /\ outs' = Embedded(j, Contracts)
    /\ CommitReturns("Mpc")
    /\ UNCHANGED fascia

\* opret_commit and tapret_commit refuse an output that is no host; the MPC
\* commitment is in place by then.
commit_prohibited ==
    /\ \E j, i \in Outputs :
          /\ DbcCommit(j, i)
          /\ ~ MpcFails(Embedded(j, Contracts)[i])
          /\ ~ outs[i].host
          /\ outs' = [Embedded(j, Contracts) EXCEPT ![i] = MpcCommitted(@)]
    /\ CommitReturns("Prohibited")
    /\ UNCHANGED fascia

\* tapret_commit refuses a non-empty tap tree.
commit_tap_tree ==
    /\ close_method = "tapret"
    /\ \E j, i \in Outputs :
          /\ DbcCommit(j, i)
          /\ ~ MpcFails(Embedded(j, Contracts)[i])
          /\ outs[i].host /\ outs[i].tap_tree
          /\ outs' = [Embedded(j, Contracts) EXCEPT ![i] = MpcCommitted(@)]
    /\ CommitReturns("TapTreeNonEmpty")
    /\ UNCHANGED fascia

\* tapret_commit has set the tap tree before it misses the internal key.
commit_no_internal_key ==
    /\ close_method = "tapret"
    /\ \E j, i \in Outputs :
          /\ DbcCommit(j, i)
          /\ ~ MpcFails(Embedded(j, Contracts)[i])
          /\ outs[i].host /\ ~ outs[i].tap_tree /\ ~ outs[i].internal_key
          /\ outs' = [Embedded(j, Contracts) EXCEPT
                        ![i] = [MpcCommitted(@) EXCEPT !.tap_tree = TRUE]]
    /\ CommitReturns("NoInternalKey")
    /\ UNCHANGED fascia

commit_ok ==
    /\ \E j, i \in Outputs :
          /\ DbcCommit(j, i)
          /\ ~ MpcFails(Embedded(j, Contracts)[i])
          /\ outs[i].host
          /\ close_method = "tapret" => ~ outs[i].tap_tree /\ outs[i].internal_key
          /\ outs' = [Embedded(j, Contracts) EXCEPT
                        ![i] = ScriptCommitted(DbcCommitted(MpcCommitted(@)))]
          /\ fascia' = [bundles |-> consumed_by, known |-> KnownTransitions,
                        anchor |-> Embedded(j, Contracts)[i].mpc_message, vout |-> i]
    /\ CommitReturns("ok")

rgb_commit ==
    \/ commit_no_method \/ commit_no_host \/ commit_message_refused
    \/ commit_no_contracts \/ commit_modifiable \/ commit_mpc_fails
    \/ commit_prohibited \/ commit_tap_tree \/ commit_no_internal_key
    \/ commit_ok
-----------------------------------------------------------------------------
Next ==
    \/ \E m \in Methods : set_rgb_close_method(m)
    \/ set_as_unmodifiable
    \/ \E t \in OpIds, r \in SUBSET Seals : push_rgb_transition(t, r)
    \/ \E i \in Outputs, p \in Foreign, m \in ForeignMsgs : set_mpc_message(i, p, m)
    \/ rgb_commit

Spec == Init /\ [][Next]_vars
-----------------------------------------------------------------------------
(* Properties.                                                             *)

\* Every key holds a value of its type.
TypeOK ==
    /\ transitions \in [OpIds -> (SUBSET Seals) \cup {None}]
    /\ consumed_by \in [ContractIds -> Consumers]
    /\ close_method \in Methods \cup {None}
    /\ modifiable \in BOOLEAN
    /\ outs \in [Outputs -> Output]
    /\ fascia \in Fascia \cup {None}
    /\ failed_push \in BOOLEAN
    /\ result \in Result

\* The MPC commitment of an output commits to the messages the output holds:
\* once mpc_commit ran, neither RGB nor another protocol gets a message in,
\* whichever of the later steps of rgb_commit failed.
CommitmentCoversMessages ==
    \A i \in Outputs : outs[i].mpc_commitment # None =>
        outs[i].mpc_commitment = outs[i].mpc_message

\* The fascia that rgb_commit hands to the stock is anchored: the script of
\* its output commits to exactly the bundles of the fascia, one per contract,
\* and still does after any later call, whatever failed commits, pushes and
\* foreign messages came before.
FasciaAnchored ==
    fascia # None =>
        /\ outs[fascia.vout].script = fascia.anchor
        /\ \A c \in ContractIds :
              fascia.anchor[c] = IF fascia.bundles[c] = NoConsumers
                                   THEN None ELSE fascia.bundles[c]

\* The scripts of the transaction, and with them its txid, change only in the
\* call of rgb_commit that returns the fascia: a commit that fails half-way
\* leaves the transaction as it was, and after the fascia nothing moves it.
TxidFixed ==
    [][(\E i \in Outputs : outs'[i].script # outs[i].script)
          => fascia = None /\ fascia' # None]_vars

\* Unless a push failed, a stored transition owns all of its inputs, so that
\* no bundle of the fascia names a transition it only spends in part, and no
\* input is claimed by two transitions.
ConsumersComplete ==
    ~ failed_push =>
        \A t \in OpIds : transitions[t] # None =>
            \A o \in inputs_of[t] : consumed_by[contract_of[t]][o] = t

\* Even after failed pushes: an allocation is claimed for a contract only by
\* a stored transition of that contract that spends it, so that rgb_bundles
\* never meets an input whose transition is unknown.
ClaimsBacked ==
    \A c \in ContractIds, o \in Opouts :
        consumed_by[c][o] # None =>
            LET t == consumed_by[c][o] IN
            contract_of[t] = c /\ o \in inputs_of[t] /\ transitions[t] # None

\* The RGB messages that the script of an output commits to.
CommittedClaims(o) ==
    [c \in ContractIds |-> IF o.script[c] = None THEN NoConsumers ELSE o.script[c]]

Sealed == {CommittedClaims(outs[i]) : i \in {j \in Outputs : outs[j].script # None}}

Abstract == INSTANCE SealedClaims WITH claims <- consumed_by, sealed <- Sealed

\* The PSBT implements SealedClaims, whatever fails or is retried: no push
\* takes an input from another transition, and the transaction comes to
\* commit once, in one output, to exactly the inputs claimed by then.
SealsClaims == Abstract!Spec

\* What the comment in push_rgb_transition promises: the stored transition is
\* updated with the merge of the old and the new copy, so that after a
\* successful push the PSBT knows every seal this copy revealed.
PushKeepsReveals ==
    result.call = "push" /\ result.out = "ok" =>
        result.reveals \subseteq transitions[result.opid]
=============================================================================
