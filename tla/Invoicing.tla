----------------------------- MODULE Invoicing -----------------------------
(***************************************************************************)
(* A contract from its issue to a payment, over two wallets: `issue`       *)
(* fixes the network of the contract, `invoice` (cli/src/command.rs) finds *)
(* the type of state that is asked for and prints an invoice, and the      *)
(* payer's validate_contract_and_invoice (src/pay.rs) finds it again from  *)
(* what the invoice says.  Payment assumes that a type named by an invoice *)
(* has the invoiced kind of state; here is which invoices do.              *)
(***************************************************************************)
EXTENDS Naturals, FiniteSets

CONSTANTS
    AssignmentTypes,   \* the assignment types of a schema
    None

\* The errors of the two sides, next to which a type is answered.
Errors == {"Invoicing", "NoAssignmentType", "InvoiceBeneficiaryWrongChainNet", "panic"}

\* A name that the schema does not have.
Foreign == "foreign"

ASSUME InvoicingAssumption ==
    /\ None \notin AssignmentTypes
    /\ AssignmentTypes \cap (Errors \cup {Foreign}) = {}

\* What the user may say about the type.
Names == AssignmentTypes \cup {Foreign, None}

Kinds == {"Fungible", "Structured", "Void"}
Networks == {"Mainnet", "Regtest", "Signet", "Testnet3", "Testnet4"}

VARIABLES
    kind_of,      \* the schema: the state of each of its types
    default_assignment, \* its default assignment type, or None
    contract_net, \* the chain_net of the genesis, or None if not issued yet
    knows,        \* the beneficiary's stock has the contract
    network,      \* the network of the beneficiary's wallet
    invoice,      \* the invoice that was printed, or None
    payer         \* what the payer made of it: None, an error or a type

vars == <<kind_of, default_assignment, contract_net, knows, network, invoice, payer>>

Init ==
    /\ kind_of \in [AssignmentTypes -> Kinds]
    /\ default_assignment \in AssignmentTypes \cup {None}
    /\ contract_net = None /\ knows = FALSE
    /\ network \in Networks
    /\ invoice = None /\ payer = None

\* assignment_types_for_state
TypesFor(state) == {ty \in AssignmentTypes : kind_of[ty] = state}
-----------------------------------------------------------------------------
(* The names of the networks.                                              *)

\* RgbArgs::chain_net
chain_net(n) ==
    CASE n = "Mainnet" -> "BitcoinMainnet"
      [] n = "Regtest" -> "BitcoinRegtest"
      [] n = "Signet" -> "BitcoinSignet"
      [] n = "Testnet3" -> "BitcoinTestnet3"
      [] n = "Testnet4" -> "BitcoinTestnet4"

\* The networks of a contract, as the genesis has them.
ChainNets == {chain_net(n) : n \in Networks}

ASSUME ChainNetsAssumption == None \notin ChainNets

\* Mutant: both test networks become the older one.
Mut_network_bp_to_bitcoin(n) ==
    CASE n = "Mainnet" -> "Bitcoin"
      [] n \in {"Testnet3", "Testnet4"} -> "Testnet"
      [] OTHER -> n

network_bp_to_bitcoin(n) ==
    CASE n = "Mainnet" -> "Bitcoin"
      [] n = "Signet" -> "Signet"
      [] n = "Testnet3" -> "Testnet"
      [] n = "Testnet4" -> "Testnet4"
      [] n = "Regtest" -> "Regtest"

\* External: RgbInvoice::chain_network of XChainNet::bitcoin(network, ..).
chain_network(n) ==
    CASE n = "Bitcoin" -> "BitcoinMainnet"
      [] n = "Signet" -> "BitcoinSignet"
      [] n = "Testnet" -> "BitcoinTestnet3"
      [] n = "Testnet4" -> "BitcoinTestnet4"
      [] n = "Regtest" -> "BitcoinRegtest"
-----------------------------------------------------------------------------
\* The contract is issued by a wallet on network n.
issue_contract(n) ==
    /\ contract_net = None
    /\ contract_net' = chain_net(n)
    /\ UNCHANGED <<kind_of, default_assignment, knows, network, invoice, payer>>

\* The beneficiary imports the contract, which is validated against its own
\* chain_net, or accepts a transfer of it.
import_contract ==
    /\ contract_net = chain_net(network)
    /\ knows' = TRUE
    /\ UNCHANGED <<kind_of, default_assignment, contract_net, network, invoice, payer>>

\* Mutant: a name is taken as it is given.
Mut_AssignmentName(state, name) ==
    IF name # None THEN name
    ELSE IF Cardinality(TypesFor(state)) = 1 THEN CHOOSE ty \in TypesFor(state) : TRUE
    ELSE "Invoicing"

\* The assignment name of an invoice by a wallet that knows the contract, or
\* the error.  Schema::assignment, which answers with a type and not with an
\* Option, is taken to panic for a foreign name; no invoice is printed either.
AssignmentName(state, name) ==
    IF name # None
    THEN IF name = Foreign THEN "panic" ELSE IF kind_of[name] = state THEN name ELSE "Invoicing"
    ELSE IF Cardinality(TypesFor(state)) = 1 THEN CHOOSE ty \in TypesFor(state) : TRUE
    ELSE "Invoicing"

\* `invoice` with an amount (Fungible) or a token index (Structured) and with
\* or without a name; with both or neither of them it fails.  The name is not
\* looked at if the contract is not known.
Command_Invoice(state, name) ==
    LET ass_name == IF knows THEN AssignmentName(state, name) ELSE name IN
    /\ contract_net # None
    /\ invoice = None
    /\ ass_name \notin Errors
    /\ invoice' = [state |-> state, name |-> ass_name, informed |-> knows,
                   net |-> chain_network(network_bp_to_bitcoin(network))]
    /\ UNCHANGED <<kind_of, default_assignment, contract_net, knows, network, payer>>

\* The type that validate_contract_and_invoice settles on.
\* Schema::assignment_type too is taken to panic for a foreign name.
assignment_type ==
    LET types == TypesFor(invoice.state) IN
    IF invoice.name # None THEN IF invoice.name = Foreign THEN "panic" ELSE invoice.name
    ELSE IF Cardinality(types) = 1 THEN CHOOSE ty \in types : TRUE
    ELSE IF default_assignment \in types THEN default_assignment
    ELSE "NoAssignmentType"

validate_contract_and_invoice ==
    /\ invoice # None
    /\ payer = None
    /\ payer' = IF contract_net # invoice.net THEN "InvoiceBeneficiaryWrongChainNet"
                ELSE assignment_type
    /\ UNCHANGED <<kind_of, default_assignment, contract_net, knows, network, invoice>>

Next ==
    \/ \E n \in Networks : issue_contract(n)
    \/ import_contract
    \/ \E state \in {"Fungible", "Structured"}, name \in Names :
          Command_Invoice(state, name)
    \/ validate_contract_and_invoice

Spec == Init /\ [][Next]_vars
-----------------------------------------------------------------------------
(* Properties.                                                             *)

\* An invoice of a wallet that knew the contract is payable: the payer takes
\* neither its network nor its type for wrong, and pays with state of the
\* kind that is asked for.
InformedInvoicePayable ==
    invoice # None /\ invoice.informed /\ payer # None =>
        payer \in AssignmentTypes /\ kind_of[payer] = invoice.state

\* The invoice of a wallet that did not know the contract is refused if the
\* wallet is on another network than the contract, however the three tables
\* of network names are combined, and only then.
WrongNetworkRefused ==
    invoice # None /\ payer # None =>
        (payer = "InvoiceBeneficiaryWrongChainNet" <=> contract_net # chain_net(network))
=============================================================================
