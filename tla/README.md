# A TLA+ verification of the RGB wallet API

The repository is the RGB wallet integration library and its command line: it
composes bitcoin transactions (PSBTs) that move RGB contract state, commits to
that state in an output script, and keeps the wallet able to find its coins
afterwards. This directory holds TLA+ modules of its core logic, TLC
configurations, and TLAPS proofs.

## 1. Inventory of the system

| Component | Source | State | Operations | Correct if |
|---|---|---|---|---|
| RGB data in a PSBT | `psbt/src/lib.rs`, backends `rb.rs` (rust-bitcoin) and `bp.rs` | proprietary keys: stored transitions, consumers of each contract's inputs, close method; per output: host flag, MPC messages, MPC and DBC commitments, tap tree; the unsigned transaction | `push_rgb_transition`, `set_mpc_message`, `set_rgb_close_method`, `set_as_unmodifiable`, `rgb_commit` | the `Fascia` returned is what the transaction commits to, and it stays so; a failed call leaves nothing that a later call turns into a wrong commitment |
| Order of known transitions | `psbt/src/lib.rs` `insert_transitions_sorted` | visited and visiting sets, the list | recursive search | dependencies come first, every transition once, an error only for a circle, always returns |
| Composition of a payment | `src/pay.rs` `construct_psbt_rgb`, `src/filters.rs`, `src/errors.rs` | selection, main and extra transitions | validate, select, build main, build extras, embed | pays the invoice, conserves amounts, loses no state on a spent output |
| Completion of a payment | `src/pay.rs` `transfer`, `pay`; `src/wallet.rs` | PSBT, descriptor tweaks, stock | commit, save tweak, consume fascia, consign | the tweak is saved whenever the change output's script changed; ends with a consignment or an error |
| BP and BDK providers | `src/bp_provider.rs`, `src/bdk_provider.rs` | wallet indexes, PSBT layout | `create_psbt`, `try_add_tapret_tweak` | the flagged host is the output `rgb_commit` finds; the positions given to RGB seals are right |
| RGB descriptor | `src/descriptor.rs` | tweaks per terminal | `add_tapret_tweak`, `derive` | derives every script the wallet owns |
| Terminals | `psbt/src/lib.rs`, `rb.rs`, `bp.rs` | none | `terminal_derivation`, `from_derivation_path` | both backends name the same terminal for an output |
| Type conversions | `psbt/src/bp_conversion_utils.rs`, `cli/src/args.rs` | none | conversions between the type families | values survive; the network names agree |
| Wallet runtime | `src/wallet.rs` | a stock and a wallet in memory and on disk, autosave | load, forward to the provider | what was changed is saved |
| Command line | `cli/src/*.rs` | stock, wallet, PSBT and consignment files | `prepare`, `consign`, `transfer`, `invoice`, `issue`, `accept`, queries | what leaves the wallet (a PSBT, an invoice) is recorded first; a failed command loses no coin, a killed one at most what it did itself |

**How they interact.** `RgbWallet` (`src/wallet.rs`) owns a stock and a wallet
and forwards `pay`, `construct_psbt` and `transfer` to the `WalletProvider`
trait. `construct_psbt_rgb` reads the stock, asks the wallet to `create_psbt`,
and pushes the transitions into the PSBT. Between composition and completion
the PSBT is in the caller's hands (it may be saved, passed to other protocols
that add MPC messages, abandoned, or completed by another process, as with
`prepare` and `consign`). `transfer` calls `rgb_commit`, then changes the
descriptor, then the stock. All of it is synchronous code: what is hard is not
threads but *sequences*: fallible calls that write before they fail, retries,
values looked up at two times or in two ways, and state of several contracts on
one output. The command line adds crashes: every command is a process that reads
files, changes several of them one after the other, and may stop in between.

The hazards, each at its line with the properties that cover it, are listed in
`PROJECT.json`.

## 2. Modules

| Module | Models | Abstract specification | Proofs |
|---|---|---|---|
| `RgbPsbt` | the RGB data of a PSBT up to the fascia | `SealedClaims` | `RgbPsbtProofs` |
| `ContractConsumers` | the byte form of a contract's claims in the PSBT | the map itself (a variable of the module) | `ContractConsumersProofs` |
| `TransitionSort` | `insert_transitions_sorted` | `TransitionOrder` | `TransitionSortProofs` |
| `Payment` | `construct_psbt_rgb` | | `PaymentProofs` |
| `TransferFlow` | `create_psbt` of both providers, `transfer`, tweaks | | `TransferFlowProofs` |
| `CommandLine` | the commands as processes over the files of one wallet, with the chain and the payers | `WriteAhead` | `CommandLineProofs` |
| `Invoicing` | networks and assignment types from `issue` over `invoice` to the payer | | `InvoicingProofs` |
| `Terminals` | the terminal of an output in both backends | | |

The modules `MC...` give the constants their values for TLC; `TransitionSort`,
`TransferFlow` and `Invoicing` have plain constants and need none. The modules
meet where one assumes what another shows: `CommandLine` takes a PSBT to be
committed at most once and to keep its txid (`RgbPsbt`) and a saved tweak to make
the change derivable (`TransferFlow`); `RgbPsbt` takes the claims of a contract to
be a map (`ContractConsumers`); `Payment` assumes that the type an invoice names
has the invoiced kind of state (`InformedInvoicePayable` of `Invoicing`, for
invoices of wallets that know the contract).

### RgbPsbt

One action per call and, for the fallible calls, one per way to return, because
what a call has written when it fails is the point: `push_double_spend` leaves
the transition stored and the earlier inputs claimed; `commit_message_refused`
leaves the messages of the contracts before the refused one;
`commit_prohibited`, `commit_tap_tree` and `commit_no_internal_key` leave the
MPC commitment (and the last one the tap tree) without a script. The host is
searched twice, by flag (`Hosts`, `rgb_bundles_to_mpc`) and by script
(`ProperOutputs`, `dbc_output_mut`), as in the code. Init is any layout of
outputs with flags on fitting scripts, not only those of the two providers,
since other users of the library flag hosts themselves.

Hashes are injective: a bundle id is the input map, an MPC commitment is the
message map. Of a transition the model keeps the identity, the contract, the
inputs and the revealed seals. Errors that only damaged or foreign key values
can cause (`InvalidCloseMethod`, `InvalidTransition`, ...) and capacity limits
of the containers other than the size of a transition are left out.
`UnrelatedTransitions` cannot occur for two copies with the same id. The MPC
entropy is written together with the commitment and never without it.

`SealedClaims` says what all this is for without keys, outputs and errors:
transitions claim free inputs, and the transaction is sealed once, with all claims
made so far. The refinement mapping takes `claims` to be `consumed_by` and `sealed`
to be what the scripts of the outputs commit to (`Sealed`). A claim after the seal
is allowed: the code lets the caller push into a committed PSBT, and what it pushes
is in no fascia.

### ContractConsumers

`rgb_contract_consumers` and `set_rgb_contract_consumer` (with `OpoutAndOpids`)
decode and encode a whole map at each claim. The module keeps the value under the
key as a sequence of bytes, two-byte numbers in little-endian order, next to the
map that was meant, and lets another program cut the value short between two
calls.

### TransitionSort and TransitionOrder

The recursion of `visit_and_insert` is a machine with a stack of calls and, for
each transition, the inputs its loop has still to look at. The outer loop takes
the keys in any order, as a `HashMap` gives them. `TransitionOrder` is what the
caller relies on: list one more transition whose dependencies are listed, accept
a complete list, refuse a circle or more transitions than the list can hold, each
with its error. `SortsTransitions` says that the machine implements it (the
refinement mapping is the identity on the five shared variables). The capacity of
`known_transitions`, a `SmallVec`, is taken from the constant `Capacities`; the call
that finds it full has already moved its transition from `visiting` to `visited`.
`RecursionBounded` bounds the depth of the recursion, and `Progresses` says that a
step never brings back a root, a transition or an input.

### Payment

The steps of `construct_psbt_rgb`; the greedy selection takes one output per
step. `Init` is any placement of the stock's allocations on outputs, any values
and any wallet from the given sets. `create_psbt` is its promise: it fails or
spends the selected outputs, with or without change. `Situations` are the sets
from which invoice, stock and wallet are taken. The constant `AddsCoins`
lets it spend more, as BDK's `TxBuilder` does: `add_utxo` requires inputs but
`manually_selected_only` is not called. `build_main_transition` repeats checks
of the selection (three returns of `InsufficientState`: the sum, the data, no
input); they are guards here and cannot fail (`MainNeverShort`), or TLC would
report a deadlock. An invoice that names an assignment type names one of its kind
of state (assumption `InvoiceAssumption`).

### TransferFlow

A wallet that is a BP wallet with a wpkh or a tapret descriptor or a BDK wallet
pays, and is paid, several times. Outputs are sequences, so that insertion,
sorting and positions are modelled. The caller may abandon a PSBT, complete it
with the position that `create_psbt` gave (`pay`) or without one (`consign`),
complete it twice, and broadcast it also after an error of the stock. Scripts of
different outputs are assumed to differ.

The positions in `PsbtMeta` are taken where the code takes them: in a BP wallet
among the sorted outputs (`bp_meta`), in a BDK wallet among the outputs that the
builder has made (`bdk_meta`), before `set_opret_host`, which would insert an
op_return output at the front if the builder had not. Between the commitment and
the tweak `transfer` may give up (`Inconclusive`), with the script committed and no
tweak saved; the PSBTs that `create_psbt` makes never get there, because their host
is the change whenever they say so (`HostPlaced`). The search for the key of a
received tweak goes over the indexes cut to 16 bits (`Searched`): beyond 65535 the
tweak of a terminal in use is refused, in the code as in the model, and no property
says otherwise.

### CommandLine and WriteAhead

A command is a program: a sequence of steps, each of which changes or hands out
something (`Prepare`, `Consign`, `Transfer`, ... list them in the order of
`command.rs`). A process runs its steps on the stock and the wallet it has loaded;
it fails or is killed before any of them. Around it are the files, the chain (a
published transaction may be mined if its input is unspent), and payers who pay
printed invoices. `--sync` rescans the chain for the scripts the wallet can derive.
Where a step of the code can fail for many reasons, `Fail` is possible at any time.

The libraries save by themselves (`autosave = true`). When is theirs to choose, so
both are modelled: `eager`, at each change, and otherwise when the values are
dropped, which also happens after errors and panics. A kill (`Crash`) may come at any
step of either. With eager saves it loses nothing. With saves at the drop it loses
what the command did, or what it did to the wallet only, as `RgbWallet` drops its
stock first; and since `transfer` and `consign` write the PSBT before they drop
anything, a kill right after the PSBT is written leaves a transaction whose tweak and
fascia are on no disk. The history variable `forgotten` collects such transactions
and seals. No document of the repository promises otherwise; a user of a stock that
saves when dropped has to know it.

Simplifications: one process at a time (the tool locks nothing, see the hazards);
atomic saves of the stock and wallet files, while PSBT and consignment files can be
torn; a tapret wallet, since an opret one has no tweaks to lose; every commit is a
new transaction, because its entropy is random; the user does not name a PSBT file
that is ready for signing as the output of another payment; the ordering of
witnesses in `update_witnesses` is the stock's.

`WriteAhead` is the promise: an item (a transaction, the seal of an invoice) is
handed out only if it is recorded, with eager saves on disk; what is on disk is
never taken off it; a kill loses only records that were not on disk yet, and names
those that were handed out. The mapping takes a transaction to be recorded if the
stock has its fascia and, if it has a change output, the wallet has its tweak:
`Held` is what the process has in memory, `OnDisk` what the files have.

### Invoicing

The contract's network is fixed by `issue`, the invoice gets the network of the
beneficiary's wallet through `network_bp_to_bitcoin` and the invoice library, and
the payer compares the two; the assignment type is chosen once by `invoice`
(`AssignmentName`) and again by `validate_contract_and_invoice`, by different rules.
A name that is not in the schema (`Foreign`) goes into the invoice unseen where the
contract is not known; the lookups of the RGB library, which answer with a type and
not with an `Option`, are taken to panic on it.

### Terminals

`Terminal::from_derivation_path` on the path that a rust-bitcoin PSBT stores with a
key, and the BP backend's reading of the same origin, for paths from the account key
and from the master key.

## 3. Runs

| Run | Shows | Result |
|---|---|---|
| `psbt` | `CommitmentCoversMessages`, `FasciaAnchored`, `TxidFixed`, `ConsumersComplete`, `ClaimsBacked` over all sequences of calls, and `SealsClaims` (it implements `SealedClaims`) | holds, 374,525 states |
| `psbt_reveals` | `PushKeepsReveals`: the merge of two copies is stored | violated |
| `consumers` | `ClaimsDecoded`, `TruncationDetected`, `ClaimsKept`: the bytes are the map, a shortened value is refused, no claim is lost by encoding it again | holds, 2,217 states |
| `sort` | `MarksMatch`, `RecursionBounded`, `SortsTransitions` (it implements `TransitionOrder`), `Progresses`, `Terminates` | holds, 53,823 states |
| `payment` | `SelectionFewest`, `RefusesOnlyIfPoor`, `MainNeverShort`, `AmountConserved`, `NoStateLeftBehind`, `OtherStateReturned` for amounts, data, rights and invoices to be refused | holds, 755,788 states |
| `payment_rest` | `RestReturned` | violated |
| `transfer` | `HostPlaced`, `VoutsPointRight`, `OutputsDerivable` | holds, 124,928 states |
| `transfer_consign` | `TransferReturns`: `consign` ends with a result | violated |
| `cli` | `RecordedFirst` (it implements `WriteAhead`), `ChangeSpendable`, `OneTxPerPayment`, `ConsignedFirst`, with failures and kills at every step, for both times of saving | holds, 1,417,266 states |
| `cli_accept` | `AcceptsMined`: without `--force` only mined witnesses are accepted | violated |
| `invoicing` | `InformedInvoicePayable`, `WrongNetworkRefused` | holds, 70,740 states |
| `terminals` | `SameTerminal`: both backends name the same terminal | violated |

Each violated property states what a comment or the command's help says;
`findings` in `PROJECT.json` quotes it. In short: revealed seals of a second copy of
a transition are merged and then dropped; several tokens or rights on the selected
outputs are spent and one is assigned; `consign` panics for address invoices;
`accept` ignores `--force`; `from_derivation_path` takes keychain and index from the
wrong end of the path.

Three limits of properties that hold: with `AddsCoins = TRUE` (BDK's builder may add
inputs) `NoStateLeftBehind` fails, because the state on the added inputs is in no
transition; an invoice for zero is refused for insufficient state whatever the wallet
holds, so `RefusesOnlyIfPoor` is about positive amounts; with saves at the drop,
`ChangeSpendable` excepts the transactions in `forgotten`.

### Bounds

* `psbt`: two outputs, because every question about hosts is about two
  candidates; two contracts, since bundles meet only in the message map; two
  transitions of one contract that overlap in one input and have one input of
  their own, so that a double spend can fail before or after the first claim;
  one transition too big; one foreign protocol with one message. Seals are
  left out of this run, and are what `psbt_reveals` is about.
* `sort`: all relations on three operations, and all subsets as the map: paths,
  diamonds' halves, self-loops, circles of two and three, inputs outside; lists for
  three and, in place of 2^16 - 1, for two, so that one is too short.
* `payment`, `payment_rest`: three outputs, enough for two selected and one left
  (a fourth is not the wallet's, and holds the allocations a situation is not
  about); three amounts from 1 to 3 with invoices of 1, 3, 4 and 6 give exact, short
  and tied sums; one or two allocations of another type and of another contract on
  any output; `MaxExtras` is 1 in place of 2^24 - 1, so that the limit is reached.
* `transfer`: three commitments and indexes 0 to 2, so that a terminal can
  collect several tweaks and several terminals one each; `IndexModulus` is 2 in
  place of 2^16, so that the cut of an index occurs.
* `cli`: two transactions (`MaxTx`) and two file names: two payments can compete for
  the first coin, the second can spend the change of the first, one can be retried
  over the other's file. Blinded invoices are on the change of either payment
  (`Invoiced`), not on the first coin. The file names are interchangeable (`SYMMETRY`; all
  properties of the run are safety properties, and the mapping to `WriteAhead` does
  not mention them).
* `consumers`: operation ids of two bytes, four allocations that differ in one field
  each and whose numbers have different bytes, so that a swapped or shifted byte
  shows; any truncation.
* `invoicing`: all schemas with three types of three kinds (no, one or several types
  of the invoiced kind, and a default of the right or the wrong kind), all five
  networks.
* `terminals`: small values for the first hardened index and for the width of a
  keychain, so that all cases of a path are reached.

Deadlock is checked in every run but `terminals` and `invoicing`, whose behaviours
end. `Payment` and `TransitionSort` stutter explicitly when the function has
returned; the others never stop, as a caller may always call again.

### Fairness

`Terminates` of `TransitionSort` assumes weak fairness of the function's own steps:
sequential code without waiting, run to its end by its caller. No other property needs fairness, and nothing is assumed about callers.

## 4. Proofs

TLC checks small instances; the theorems hold for every value of the constants.

* `RgbPsbtProofs` - `TypeCorrect`; `ClaimsComplete` and `ClaimsAreBacked`
  (`ConsumersComplete`, `ClaimsBacked`); `Anchored` (`FasciaAnchored`),
  `CommitmentsCoverMessages` (`CommitmentCoversMessages`), `TxidIsFixed`.
  `FasciaAnchored` is not inductive: it must be known that a script is written
  only by the commit that finalizes the output, that a finalized output accepts
  no message, and that the host, once committed, has no flag. The inductive
  invariant `Anchoring` adds these facts per output; the relation `OutStep` says
  what any call may do to one output, every action is shown to be an `OutStep` on
  each output, and the invariant is shown for `OutStep` once.
  `RefinesSealedClaims` is the refinement: a push maps to a claim of those of its
  inputs that are free, the `rgb_commit` that succeeds maps to the seal
  (`Anchoring` says that it is the first and what it commits to; `Scripted`, that
  no script committed to anything before), every other call to a stutter.
* `TransitionSortProofs` - `TypeCorrect`, `MarksCorrect`, `RecursionIsBounded`,
  `SearchRefinesOrder` and `SearchProgresses`. The invariant `Search` says that the active calls are a path of distinct
  transitions, each depending on the next (`Path`), and that every dependency a
  loop has passed is listed, except the one being visited (`Passed`). With it, a
  return lists a transition after its dependencies, and an input that is being
  visited closes a circle: the calls from it to the top of the stack. The path maps
  the stack injectively into the transitions, which bounds the recursion. The list is
  as long as the set `visited` is large, so that a full list and one more transition
  are more than the capacity. `Inv` adds the state after that failure, in which the
  marks no longer match. For `Progresses` each action is shown to take a root, a
  transition or an input away and to bring none back.
* `SetInduction` - induction over sets of numbers and over the subsets of a finite
  set (`Induction`, `SubsetInduction`), from the well-foundedness of the naturals:
  no theorem of the library with an operator as a parameter is used.
* `ContractConsumersProofs` - `BytesAreTheClaims` (`ClaimsDecoded`),
  `TruncatedValuesAreRefused` (`TruncationDetected`) and `ClaimsAreKept`
  (`ClaimsKept`), for identifiers of any length and any finite set of allocations.
  The order of the keys is total (`PrecedesTotal`, at the first position that
  differs), so a set of allocations has one ascending list (`ListExists`,
  `ListUnique`); items of one size can be cut out of the bytes again
  (`JoinedChunks`, `ChunksJoined`, quotient and remainder) and decode to what they
  were (`ItemDecoded`). Hence `deserialize` undoes `serialize` (`SerializeDecoded`),
  and a value cut at a multiple of `item_size` is the encoding of the map without
  its last keys (`TruncationIsPart`). The inductive invariant `Held` says that the
  value is absent, has a bad length after a loss, or is the encoding of a part of
  the claims, of all of them if nothing was lost.
* `PaymentProofs` - first the sums of `Payment`: a sum over a set is defined by
  folding, and does not depend on the order of the folding, splits over a disjoint
  union (`TotalUnion`), and the sum by outputs is the sum by allocations
  (`HoldsByAllocation`). `LargestSum` is the exchange argument: no set of at most
  as many outputs has a larger sum than one whose members are at least as large as
  all others. Then `TypeCorrect`; `SelectsFewest` (`SelectionFewest`) and
  `RefusesOnlyThePoor` from the invariant `Greedy`: every output taken is at least
  as large as every one left (`Ordered`), and without the last one the sum of the
  others, which are the largest, falls short (`LastNeeded`), so that no choice of
  fewer outputs covers the amount;
  `MainIsNeverShort` (the selection counted output by output what
  `build_main_transition` counts allocation by allocation, and what made an output a
  choice, `Picked`, is found on it again); `AmountsAreConserved`
  from `Conserved`; `NothingLeftBehind` and `OtherStateComesBack` from `Coverage`,
  which ties main and extra transitions, computed at different times, to the same
  selection, and the inputs of the transaction to the selection unless the wallet
  adds coins.
* `TransferFlowProofs` - `TypeCorrect`, `HostIsPlaced`, `VoutsAreRight`,
  `OutputsAreDerivable`.
  The lemmas about the layout say what flagging, inserting and the stable sort do
  to outputs of different roles (`FlaggedLaid`, `JoinedUnflagged`,
  `HostsFirstLaid`); together they give `OutputsLaid`, for both providers, and `MetaPoints`: what BDK looked
up before `set_opret_host` still holds after it, as nothing is inserted. The
  inductive invariant `Wallet` adds that the change of a PSBT in the caller's
  hands is derivable (`PsbtKnown`): `transfer` tweaks a change only if `HostPlaced`
  says that it is the host, and then `host_on_change` makes it save the tweak.
* `CommandLineProofs` - `TypeCorrect`, `ChangeIsSpendable`,
  `OneTransactionPerPayment`, `ConsignmentsComeFirst`, and the refinement
  `RefinesWriteAhead`, for any number of transactions and file names. The inductive
  invariant `WroteAhead` says, besides the types, that nothing on disk is missing in
  memory and that with eager saves the two are the same (`Loaded`), that published
  transactions and printed seals are recorded unless a kill took them off
  (`RecordsKept`), that the PSBT file of a published transaction still holds it and
  has its consignment (`FilesCurrent`), and what a process has done by the step it is
  at (`OnTrack`). The last part carries the proof: each command is checked step by
  step, with both times at which the libraries may save. A kill maps to the kill of
  `WriteAhead`: by `Loaded`, what is left is between the files and the memory.
* `InvoicingProofs` - `InformedInvoicesArePayable` and `WrongNetworksAreRefused`,
  for any set of types. The invariant `Understood` says that a known contract is of
  the wallet's network and that the invoice and the payer's answer are still what
  the two sides made of schema and network.

Assumptions are those named in the modules: ordered identifiers are numbers,
contracts and foreign protocols are disjoint, a transition has inputs, a bundle has
finitely many transitions (`FiniteAssumption`), a PSBT names finitely many allocations, whose identifiers have one length, `None` is no value and
an error no result (`NoneAssumption`, `ErrAssumption`, `ErrorsAssumption`,
`ChainNetsAssumption`), a type is not named like an error. TLC evaluates them in the passing runs. Each inductive
invariant was checked by TLC on the instance of its run before it was proved.

Only model-checked: `Terminates` (liveness under fairness and ENABLED are out of
the prover's reach; the theorem `SearchProgresses` is the part that needs no
fairness). The properties that are violated have no theorem.

## 5. Not modelled

* The RGB library (stock, validation, builders), the bitcoin wallets and the
  proof formats: external, modelled by what this code sees of them.
* The text form of a terminal (`Display`, `FromStr`, serde) and the conversions other
  than those of networks: pure data of external types, without control.
* Of the command line: argument parsing, printing, `inspect`, `reconstruct`, `armor`
  and `dump`, which only read or write files of their own, and the commands of the BP
  wallet it forwards to.
* Two commands at once on one data directory: nothing locks it, and the later save
  drops what the earlier one recorded. The tool is written for one at a time.
* PSBT contents written by other programs, except a shortened value of the claims
  and foreign MPC messages.

## 6. Plan

1. Done: `RgbPsbt` and its refinement of `SealedClaims`, `ContractConsumers`,
   `TransitionSort`, `Payment`, `TransferFlow`, `CommandLine` and its refinement of
   `WriteAhead`, `Invoicing`, `Terminals`, and the proofs above.
2. Left: the two commands at once on one data directory, if the tool ever locks it,
   and the liveness half of termination, which stays with TLC.
