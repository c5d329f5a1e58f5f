-------------------------- MODULE InvoicingProofs --------------------------
(***************************************************************************)
(* Proofs about Invoicing, for every set of assignment types.              *)
(***************************************************************************)
EXTENDS Invoicing, FiniteSetTheorems, TLAPS

\* The inductive invariant: a contract that is known is of the network of the
\* wallet that knows it, and the invoice and the payer's answer are still what
\* Command_Invoice and validate_contract_and_invoice make of it.
Understood ==
    /\ kind_of \in [AssignmentTypes -> Kinds]
    /\ network \in Networks
    /\ contract_net \in ChainNets \cup {None}
    /\ knows => contract_net = chain_net(network)
    /\ invoice # None =>
          /\ contract_net # None
          /\ invoice.net = chain_net(network)
          /\ invoice.name \in Names
          /\ invoice.informed =>
                /\ contract_net = chain_net(network)
                /\ invoice.name \in AssignmentTypes
                /\ kind_of[invoice.name] = invoice.state
    /\ payer # None =>
          /\ invoice # None
          /\ payer = IF contract_net # invoice.net THEN "InvoiceBeneficiaryWrongChainNet"
                     ELSE assignment_type

\* The three tables of network names agree: what an invoice says of its
\* network is what a genesis issued there says.
LEMMA TablesAgree ==
    \A n \in Networks : chain_network(network_bp_to_bitcoin(n)) = chain_net(n)
  BY DEF Networks, chain_network, network_bp_to_bitcoin, chain_net

\* The only type of a kind of state is a type of that kind.
LEMMA SingleType ==
    ASSUME NEW S, Cardinality(S) = 1
    PROVE  (CHOOSE x \in S : TRUE) \in S
  <1>1. S # {}
    BY FS_EmptySet
  <1>2. QED
    BY <1>1

\* `invoice`, where the contract is known, answers with an error or with a
\* type of the kind that is asked for.
LEMMA NameHasKind ==
    ASSUME NEW state, NEW name \in Names, AssignmentName(state, name) \notin Errors
    PROVE  /\ AssignmentName(state, name) \in AssignmentTypes
           /\ kind_of[AssignmentName(state, name)] = state
  <1>1. CASE name # None
    BY <1>1 DEF AssignmentName, Names, Errors
  <1>2. CASE name = None
    <2>1. Cardinality(TypesFor(state)) = 1
      BY <1>2 DEF AssignmentName, Errors
    <2>2. AssignmentName(state, name) \in TypesFor(state)
      BY <1>2, <2>1, SingleType DEF AssignmentName
    <2>3. QED
      BY <2>2 DEF TypesFor
  <1>3. QED
    BY <1>1, <1>2

\* The payer's choice is a type, the error that there is none, or a panic.
LEMMA PayerType ==
    ASSUME Understood, invoice # None
    PROVE  assignment_type \in AssignmentTypes \cup {"NoAssignmentType", "panic"}
  <1>1. invoice.name \in AssignmentTypes \cup {Foreign, None}
    BY DEF Understood, Names
  <1>2. ASSUME NEW ty \in TypesFor(invoice.state) PROVE ty \in AssignmentTypes
    BY DEF TypesFor
  <1>3. Cardinality(TypesFor(invoice.state)) = 1 =>
            (CHOOSE ty \in TypesFor(invoice.state) : TRUE) \in TypesFor(invoice.state)
    BY SingleType
  <1>4. QED
    BY <1>1, <1>2, <1>3 DEF assignment_type

\* Nothing is known, invoiced or answered at first.
LEMMA InitUnderstood == Init => Understood
  BY DEF Init, Understood

\* The inductive step, command by command.
LEMMA NextUnderstood == Understood /\ [Next]_vars => Understood'
  <1> SUFFICES ASSUME Understood, [Next]_vars PROVE Understood'
    OBVIOUS
  <1> USE DEF Understood
  <1>1. ASSUME NEW n \in Networks, issue_contract(n) PROVE Understood'
    <2>1. ~ knows /\ invoice = None /\ payer = None
      <3>1. \A m \in Networks : chain_net(m) # None
        BY ChainNetsAssumption DEF ChainNets
      <3>2. QED
        BY <1>1, <3>1 DEF issue_contract
    <2>2. QED
      BY <1>1, <2>1 DEF issue_contract, ChainNets
  <1>2. CASE import_contract
    BY <1>2 DEF import_contract, assignment_type, TypesFor
  <1>3. ASSUME NEW state \in {"Fungible", "Structured"},
               NEW name \in Names, Command_Invoice(state, name)
        PROVE  Understood'
    <2> DEFINE ass_name == IF knows THEN AssignmentName(state, name) ELSE name
    <2>1. /\ contract_net # None /\ invoice = None /\ ass_name \notin Errors
          /\ invoice' = [state |-> state, name |-> ass_name, informed |-> knows,
                         net |-> chain_network(network_bp_to_bitcoin(network))]
          /\ UNCHANGED <<kind_of, default_assignment, contract_net, knows, network, payer>>
      BY <1>3 DEF Command_Invoice
    <2>2. ass_name \in Names
      BY <2>1, NameHasKind DEF Names
    <2>3. knows => ass_name \in AssignmentTypes /\ kind_of[ass_name] = state
      BY <2>1, NameHasKind
    <2>4. chain_network(network_bp_to_bitcoin(network)) = chain_net(network)
      BY TablesAgree
    <2> HIDE DEF ass_name
    <2>5. QED
      BY <2>1, <2>2, <2>3, <2>4
  <1>4. CASE validate_contract_and_invoice
    BY <1>4 DEF validate_contract_and_invoice, assignment_type, TypesFor
  <1>5. CASE UNCHANGED vars
    BY <1>5 DEF vars, assignment_type, TypesFor
  <1>6. QED
    BY <1>1, <1>2, <1>3, <1>4, <1>5 DEF Next

\* The inductive invariant holds in every reachable state.
LEMMA UnderstoodInvariant == Spec => []Understood
  BY InitUnderstood, NextUnderstood, PTL DEF Spec

\* Whatever the types of the schema, an invoice that `invoice` prints where the
\* contract is known is paid in the type and on the network it was meant for.
THEOREM InformedInvoicesArePayable == Spec => []InformedInvoicePayable
  <1>1. Understood => InformedInvoicePayable
    <2> SUFFICES ASSUME Understood, invoice # None, invoice.informed, payer # None
                 PROVE  payer \in AssignmentTypes /\ kind_of[payer] = invoice.state
      BY DEF InformedInvoicePayable
    <2>1. contract_net = invoice.net /\ invoice.name \in AssignmentTypes
      BY DEF Understood
    <2>2. payer = invoice.name
      BY <2>1, InvoicingAssumption DEF Understood, assignment_type
    <2>3. QED
      BY <2>2 DEF Understood
  <1>2. QED
    BY <1>1, UnderstoodInvariant, PTL

\* The payer refuses the network of an invoice exactly if the wallet that
\* printed it is on another network than the contract.
THEOREM WrongNetworksAreRefused == Spec => []WrongNetworkRefused
  <1>1. Understood => WrongNetworkRefused
    <2> SUFFICES ASSUME Understood, invoice # None, payer # None
                 PROVE  payer = "InvoiceBeneficiaryWrongChainNet"
                          <=> contract_net # chain_net(network)
      BY DEF WrongNetworkRefused
    <2>1. assignment_type # "InvoiceBeneficiaryWrongChainNet"
      BY PayerType, InvoicingAssumption DEF Errors
    <2>2. QED
      BY <2>1 DEF Understood
  <1>2. QED
    BY <1>1, UnderstoodInvariant, PTL
=============================================================================
