------------------------------ MODULE Payment ------------------------------
(***************************************************************************)
(* The composition of a payment, WalletProvider::construct_psbt_rgb of     *)
(* src/pay.rs: the invoice is validated, outputs that hold the invoiced    *)
(* contract's state are selected, the wallet builds a PSBT that spends     *)
(* them, and everything the stock knows to be assigned to the spent        *)
(* outputs is re-assigned by a main transition (the invoiced contract) and *)
(* extra transitions (one for each allocation of any other contract).      *)
(* Spending a bitcoin output closes its seals, so that an allocation which *)
(* no transition re-assigns is lost.                                       *)
(*                                                                         *)
(* Abstractions.  An allocation (Opout) has a constant contract and type;  *)
(* its seal and value are arbitrary.  The builder calls of the RGB         *)
(* library are their effect on a transition; wallet and stock are read     *)
(* through the sets they answer with.  With AddsCoins the wallet's         *)
(* create_psbt may spend further outputs of its own choice, as the BDK     *)
(* transaction builder does, which the BP wallet does not.                 *)
(***************************************************************************)
EXTENDS Integers, Sequences, FiniteSets, FiniteSetsExt

CONSTANTS
    Outpoints,     \* outputs that may hold state, as numbers (their BTreeMap order)
    Opouts,        \* allocations known to the stock
    contract_of,   \* the contract of an allocation
    type_of,       \* its assignment type
    AssignmentTypes,
    kind_of,       \* the state of a type: "amount", "data" or "void"
    default_assignment, \* the schema's default assignment type, or None
    Situations,    \* what construct_psbt_rgb may meet: sets of invoices, of seals
                   \* and values of the allocations, and of unspent outputs
    AddsCoins,     \* does create_psbt spend outputs beyond the selected ones?
    MaxExtras,     \* capacity of the extra transitions (2^24 - 1 in the code)
    None

\* An invoice that names an assignment type asks for state of its kind.
ASSUME InvoiceAssumption ==
    \A s \in Situations : \A inv \in s.invoices :
        /\ inv.name # None => inv.name \in AssignmentTypes /\ kind_of[inv.name] = inv.state
        /\ inv.state = "amount" => inv.amount \in Nat
ASSUME PaymentAssumption ==
    /\ Outpoints \subseteq Nat /\ IsFiniteSet(Outpoints) /\ IsFiniteSet(Opouts)
    /\ type_of \in [Opouts -> AssignmentTypes]
    /\ kind_of \in [AssignmentTypes -> {"amount", "data", "void"}]
    /\ \A s \in Situations :
          /\ s.seals \subseteq [Opouts -> Outpoints]
          /\ s.values \subseteq [Opouts -> Nat]
          /\ s.wallets \subseteq SUBSET Outpoints
    /\ AddsCoins \in BOOLEAN /\ MaxExtras \in Nat

VARIABLES
    pc,            \* the next step of construct_psbt_rgb
    invoice,
    seal_of,       \* the output each allocation is assigned to
    value_of,      \* the amount, or the data, of each allocation
    unspent,       \* the outputs the wallet answers is_unspent for
    assignment_type, \* PaymentContext
    rest,          \* outputs select_state_for_invoice has not taken yet
    sum,           \* the amount taken so far
    prev_outputs,  \* the selected outputs
    inputs,        \* the outputs the PSBT spends
    change_vout,   \* PsbtMeta::change_vout
    main,          \* the main transition
    extras,        \* allocations moved by an extra transition each
    consumed,      \* the inputs claimed in the PSBT
    err            \* the CompositionError returned, or None

vars == <<pc, invoice, seal_of, value_of, unspent, assignment_type, rest, sum,
          prev_outputs, inputs, change_vout, main, extras, consumed, err>>
stock_vars == <<invoice, seal_of, value_of, unspent>>

\* A transition of the invoiced contract: what it spends, what it moves to
\* the change output unaltered, what it pays and the amount it returns.
NoMain == [inputs |-> {}, moved |-> {}, paid |-> None, change |-> 0]

Init ==
    /\ pc = "validate"
    /\ \E s \in Situations :
          /\ invoice \in s.invoices /\ unspent \in s.wallets
          /\ seal_of \in s.seals /\ value_of \in s.values
    /\ assignment_type = None
    /\ rest = {} /\ sum = 0
    /\ prev_outputs = {} /\ inputs = {} /\ change_vout = None
    /\ main = NoMain /\ extras = {} /\ consumed = {} /\ err = None

Errors ==
    {"NoContract", "Stock", "InvalidSchema", "WrongChainNet", "InvoiceExpired",
     "NoAssignmentState", "NoAssignmentType", "InsufficientState", "Construction",
     "NoExtraOrChange", "TooManyExtras", "Embed"}

ASSUME ErrorsAssumption == None \notin Errors

\* Mutant: the error is recorded but the function does not return.
Mut_Fail(e) == err' = e /\ UNCHANGED pc

Fail(e) == err' = e /\ pc' = "failed"
-----------------------------------------------------------------------------
(* 1. validate_contract_and_invoice                                        *)

\* The type named by the invoice; else the only type with the invoiced kind
\* of state; else the schema's default type if it has that kind.
TypesForState == {ty \in AssignmentTypes : kind_of[ty] = invoice.state}
InvoiceType ==
    IF invoice.name # None THEN invoice.name
    ELSE IF Cardinality(TypesForState) = 1 THEN CHOOSE ty \in TypesForState : TRUE
    ELSE IF default_assignment \in TypesForState THEN default_assignment
    ELSE None

\* The early returns, in the order of the code.  A contract of which the
\* stock has contract_data has a genesis in the stash.
InvoiceChecks ==
    << [err |-> "NoContract",        fails |-> invoice.contract = None],
       [err |-> "Stock",             fails |-> ~ invoice.known],
       [err |-> "InvalidSchema",     fails |-> ~ invoice.schema_ok],
       [err |-> "WrongChainNet",     fails |-> ~ invoice.chain_ok],
       [err |-> "InvoiceExpired",    fails |-> invoice.expired],
       [err |-> "NoAssignmentState", fails |-> invoice.state = None],
       [err |-> "NoAssignmentType",  fails |-> InvoiceType = None] >>

validate_contract_and_invoice ==
    LET failing == {k \in DOMAIN InvoiceChecks : InvoiceChecks[k].fails} IN
    /\ pc = "validate"
    /\ \/ /\ failing # {}
          /\ Fail(InvoiceChecks[Min(failing)].err)
          /\ UNCHANGED assignment_type
       \/ /\ failing = {}
          /\ assignment_type' = InvoiceType
          /\ pc' = "filter"
          /\ UNCHANGED err
    /\ UNCHANGED <<stock_vars, rest, sum, prev_outputs, inputs, change_vout, main, extras, consumed>>
-----------------------------------------------------------------------------
(* 2. select_state_for_invoice                                             *)

\* Allocations of the invoiced contract; those of the invoiced type that
\* pass ContractOutpointsFilter, which asks for an unspent output.
OfContract == {o \in Opouts : contract_of[o] = invoice.contract}
Candidates == {o \in OfContract : type_of[o] = assignment_type /\ seal_of[o] \in unspent}

\* The sum of the values that f has on S.
Total(f, S) == MapThenSumSet(LAMBDA x : f[x], S)

\* Mutant: state of any type of the contract is added up.
Mut_SealSum(s) == Total(value_of, {o \in OfContract : seal_of[o] = s})

\* The sum of the candidates assigned to one output.
SealSum(s) == Total(value_of, {o \in Candidates : seal_of[o] = s})

\* The entry for fungible state: group by output and start the greedy loop.
select_fungible ==
    /\ pc = "filter" /\ invoice.state = "amount"
    /\ rest' = {seal_of[o] : o \in Candidates}
    /\ pc' = "greedy"
    /\ UNCHANGED <<stock_vars, assignment_type, sum, prev_outputs, inputs, change_vout, main, extras, consumed, err>>

\* Mutant: the outputs are taken in ascending order.
Mut_Largest(s) ==
    \A r \in rest : SealSum(r) > SealSum(s) \/ (SealSum(r) = SealSum(s) /\ r <= s)

\* The last output of the vector sorted by sum: ties are in seal order.
Largest(s) ==
    \A r \in rest : SealSum(r) < SealSum(s) \/ (SealSum(r) = SealSum(s) /\ r <= s)

\* Mutant: the loop stops one unit short.
Mut_Enough == sum + 1 >= invoice.amount

Enough == sum >= invoice.amount

take_output(s) ==
    /\ sum' = sum + SealSum(s)
    /\ prev_outputs' = prev_outputs \cup {s}
    /\ rest' = rest \ {s}

\* One step of take_while.
select_largest ==
    /\ pc = "greedy" /\ ~ Enough
    /\ \E s \in rest : Largest(s) /\ take_output(s)
    /\ UNCHANGED <<pc, stock_vars, assignment_type, inputs, change_vout, main, extras, consumed, err>>

\* construct_psbt_rgb refuses an empty selection.
Selected(outputs) ==
    /\ prev_outputs' = outputs
    /\ \/ outputs # {} /\ pc' = "create" /\ UNCHANGED err
       \/ outputs = {} /\ Fail("InsufficientState")

\* The loop ends: short of the amount the whole selection is dropped.
select_fungible_end ==
    /\ pc = "greedy" /\ (Enough \/ rest = {})
    /\ Selected(IF sum < invoice.amount THEN {} ELSE prev_outputs)
    /\ UNCHANGED <<stock_vars, assignment_type, rest, sum, inputs, change_vout, main, extras, consumed>>

\* Data: every output with the invoiced value.  Void: every output with the right.
select_other ==
    /\ pc = "filter" /\ invoice.state \in {"data", "void"}
    /\ Selected({seal_of[o] : o \in {c \in Candidates :
            invoice.state = "data" => value_of[c] = invoice.amount}})
    /\ UNCHANGED <<stock_vars, assignment_type, rest, sum, inputs, change_vout, main, extras, consumed>>
-----------------------------------------------------------------------------
(* create_psbt of the wallet, by what it promises here: it fails, or       *)
(* spends the selected outputs, with a change output or without one.  It   *)
(* answers with a beneficiary_vout exactly for a WitnessVout beneficiary,  *)
(* so that the seal of the payment can always be built.                    *)

create_psbt_fails ==
    /\ pc = "create"
    /\ Fail("Construction")
    /\ UNCHANGED <<stock_vars, assignment_type, rest, sum, prev_outputs, inputs, change_vout, main, extras, consumed>>

create_psbt ==
    /\ pc = "create"
    /\ inputs' \in {prev_outputs \cup x : x \in IF AddsCoins THEN SUBSET unspent ELSE {{}}}
    /\ change_vout' \in {None, 1}
    /\ pc' = "main"
    /\ UNCHANGED <<stock_vars, assignment_type, rest, sum, prev_outputs, main, extras, consumed, err>>
-----------------------------------------------------------------------------
(* 3. build_main_transition                                                *)

\* contract_assignments_for the selected outputs.
MainInputs == {o \in OfContract : seal_of[o] \in prev_outputs}
SameType == {o \in MainInputs : type_of[o] = assignment_type}
OtherTypes == MainInputs \ SameType
SumInputs == Total(value_of, SameType)

\* create_change_output_seal is needed and there is no change output.
ChangeMissing(needed) == needed /\ change_vout = None

\* Mutant: state of the other types is spent and not passed on.
Mut_Moved == {}

\* State of another type goes to the change output as it is.
Moved == OtherTypes

MainPays(paid, change) ==
    /\ main' = [inputs |-> MainInputs, moved |-> Moved, paid |-> paid, change |-> change]
    /\ pc' = "extras"
    /\ UNCHANGED err

main_no_change ==
    /\ pc = "main"
    /\ \/ ChangeMissing(OtherTypes # {})
       \/ invoice.state = "amount" /\ ChangeMissing(SumInputs > invoice.amount)
    /\ Fail("NoExtraOrChange")
    /\ UNCHANGED <<stock_vars, assignment_type, rest, sum, prev_outputs, inputs, change_vout, main, extras, consumed>>

\* Mutant: the change is off by one.
Mut_ChangeAmount == sum + 1 - invoice.amount

ChangeAmount == SumInputs - invoice.amount

\* The stock cannot change between the selection and this step: the code's
\* InsufficientState here would leave the model without a next step.
main_fungible ==
    /\ pc = "main" /\ invoice.state = "amount"
    /\ MainInputs # {} /\ SumInputs >= invoice.amount
    /\ ~ ChangeMissing(OtherTypes # {} \/ SumInputs > invoice.amount)
    /\ MainPays(invoice.amount, ChangeAmount)
    /\ UNCHANGED <<stock_vars, assignment_type, rest, sum, prev_outputs, inputs, change_vout, extras, consumed>>

\* The invoiced data, or the right, is paid; nothing is returned.
main_other ==
    /\ pc = "main" /\ invoice.state \in {"data", "void"}
    /\ MainInputs # {}
    /\ invoice.state = "data" => \E o \in SameType : value_of[o] = invoice.amount
    /\ ~ ChangeMissing(OtherTypes # {})
    /\ MainPays(invoice.amount, 0)
    /\ UNCHANGED <<stock_vars, assignment_type, rest, sum, prev_outputs, inputs, change_vout, extras, consumed>>
-----------------------------------------------------------------------------
(* 4. build_extra_transitions                                              *)

\* Mutant: only extra state of the invoiced type is looked up.
Mut_ExtraState == {o \in Opouts \ OfContract :
                      seal_of[o] \in prev_outputs /\ type_of[o] = assignment_type}

\* contracts_assigning and contract_assignments_for, without the main contract.
ExtraState == {o \in Opouts \ OfContract : seal_of[o] \in prev_outputs}

extras_fail ==
    /\ pc = "extras"
    /\ \/ ChangeMissing(ExtraState # {}) /\ Fail("NoExtraOrChange")
       \/ /\ ~ ChangeMissing(ExtraState # {})
          /\ Cardinality(ExtraState) > MaxExtras
          /\ Fail("TooManyExtras")
    /\ UNCHANGED <<stock_vars, assignment_type, rest, sum, prev_outputs, inputs, change_vout, main, extras, consumed>>

build_extra_transitions ==
    /\ pc = "extras"
    /\ ~ ChangeMissing(ExtraState # {})
    /\ Cardinality(ExtraState) <= MaxExtras
    /\ extras' = ExtraState
    /\ pc' = "embed"
    /\ UNCHANGED <<stock_vars, assignment_type, rest, sum, prev_outputs, inputs, change_vout, main, consumed, err>>
-----------------------------------------------------------------------------
(* rgb_embed: the transitions of the batch are pushed into the PSBT and    *)
(* claim their inputs there, each input once (RgbPsbt has the calls).  The *)
(* PSBT is dropped with the error if a transition is too big.              *)

rgb_embed ==
    /\ pc = "embed"
    /\ main.inputs \cap extras = {}
    /\ \/ consumed' = main.inputs \cup extras /\ pc' = "done" /\ UNCHANGED err
       \/ Fail("Embed") /\ UNCHANGED consumed
    /\ UNCHANGED <<stock_vars, assignment_type, rest, sum, prev_outputs, inputs, change_vout, main, extras>>
-----------------------------------------------------------------------------
Finished == pc \in {"done", "failed"} /\ UNCHANGED vars

construct_psbt_rgb ==
    \/ validate_contract_and_invoice
    \/ select_fungible \/ select_largest \/ select_fungible_end \/ select_other
    \/ create_psbt_fails \/ create_psbt
    \/ main_no_change \/ main_fungible \/ main_other
    \/ extras_fail \/ build_extra_transitions
    \/ rgb_embed

Next == construct_psbt_rgb \/ Finished

Spec == Init /\ [][Next]_vars
-----------------------------------------------------------------------------
(* Properties.                                                             *)

TypeOK ==
    /\ pc \in {"validate", "filter", "greedy", "create", "main", "extras", "embed", "done", "failed"}
    /\ seal_of \in [Opouts -> Outpoints] /\ value_of \in [Opouts -> Nat]
    /\ unspent \subseteq Outpoints
    /\ assignment_type \in AssignmentTypes \cup {None}
    /\ rest \subseteq Outpoints /\ sum \in Nat
    /\ prev_outputs \subseteq Outpoints /\ inputs \subseteq Outpoints
    /\ change_vout \in {None, 1}
    /\ main.inputs \subseteq Opouts /\ main.moved \subseteq main.inputs /\ main.change \in Nat
    /\ extras \subseteq Opouts /\ consumed \subseteq Opouts
    /\ err \in Errors \cup {None} /\ (err # None) = (pc = "failed")

\* What a set of outputs holds of the invoiced type.
Holds(outputs) == Total([s \in Outpoints |-> SealSum(s)], outputs)
CandidateOutputs == {seal_of[o] : o \in Candidates}

\* The greedy selection for a fungible invoice covers the amount with unspent
\* outputs of the contract, and no other choice covers it with fewer: the
\* loop over the reversed sorted vector stops exactly when it should.
SelectionFewest ==
    pc = "create" /\ invoice.state = "amount" =>
        /\ prev_outputs \subseteq CandidateOutputs
        /\ Holds(prev_outputs) >= invoice.amount
        /\ \A other \in SUBSET CandidateOutputs :
              Holds(other) >= invoice.amount =>
                  Cardinality(other) >= Cardinality(prev_outputs)

\* A payment of a positive amount, of data or of a right is refused for
\* InsufficientState only when the wallet really does not hold it.  (A zero
\* amount is always refused: the greedy loop takes no output for it.)
RefusesOnlyIfPoor ==
    err = "InsufficientState" =>
        /\ invoice.state = "amount" /\ invoice.amount > 0 =>
              Holds(CandidateOutputs) < invoice.amount
        /\ invoice.state = "data" => \A o \in Candidates : value_of[o] # invoice.amount
        /\ invoice.state = "void" => Candidates = {}

\* What build_main_transition finds on the selected outputs when it reads the
\* stock again suffices: none of its three InsufficientState returns (the sum
\* is too small, the data is not there, no input at all) is ever met.
MainNeverShort ==
    pc = "main" =>
        /\ MainInputs # {}
        /\ invoice.state = "amount" => SumInputs >= invoice.amount
        /\ invoice.state = "data" => \E o \in SameType : value_of[o] = invoice.amount

\* The main transition pays what the invoice asks for and returns the rest:
\* the amounts it spends, which it reads again from the stock after the
\* selection, are the amounts it assigns.
AmountConserved ==
    main # NoMain /\ invoice.state = "amount" =>
        /\ main.paid = invoice.amount /\ main.change >= 0
        /\ main.paid + main.change =
              Total(value_of, {o \in main.inputs : type_of[o] = assignment_type})

\* Nothing that the stock knows to be assigned to an output the transaction
\* spends is left behind: some transition of the PSBT claims it.
NoStateLeftBehind ==
    pc = "done" => \A o \in Opouts : seal_of[o] \in inputs => o \in consumed

\* State of the invoiced contract that is not of the invoiced type comes back
\* to the wallet, and there is a change output for it to come back to.
OtherStateReturned ==
    pc = "done" =>
        \A o \in consumed :
            \/ contract_of[o] = invoice.contract /\ type_of[o] = assignment_type
            \/ o \in main.moved \cup extras /\ change_vout # None

\* "Add payments to beneficiary and change": data and rights of the invoiced
\* type that are spent and not paid are returned, as amounts are.
RestReturned ==
    pc = "done" /\ invoice.state \in {"data", "void"} =>
        Cardinality({o \in main.inputs : type_of[o] = assignment_type}) = 1 + main.change
=============================================================================
