---------------------------- MODULE CommandLine ----------------------------
(***************************************************************************)
(* The `rgb` command-line tool (cli/src/command.rs, cli/src/args.rs) on    *)
(* one data directory.  A command loads the stock and the wallet, changes  *)
(* them in memory and on disk, writes PSBT and consignment files, and      *)
(* exits; it may fail or be killed between any two of its steps, and the   *)
(* next command starts from what the files hold.                           *)
(*                                                                         *)
(* One process runs at a time.  The files are saved by the libraries,      *)
(* which the tool opens with autosave = true: right after each change      *)
(* (eager), or when the values are dropped, which error returns and panics *)
(* do as well and a kill does not; the source does not say which of the    *)
(* two.  A save of one file is atomic.  A coin is an outpoint of the       *)
(* wallet that bears RGB state: 0, named by the genesis of the contract,   *)
(* or the change of transaction t, written t.  A commit makes a new        *)
(* transaction, because the entropy of its commitment is random.  The      *)
(* wallet's descriptor is a tapret one.                                    *)
(***************************************************************************)
EXTENDS Naturals, Sequences

CONSTANTS
    MaxTx,      \* bound on the transactions the wallet commits to
    Invoiced,   \* bound on the coins that a blinded invoice is on
    Paths,      \* names the user gives to PSBT and consignment files
    None

ASSUME CommandLineAssumption == MaxTx \in Nat /\ None \notin Nat

Txs == 1 .. MaxTx
Coins == {0} \cup Txs

VARIABLES
    eager,         \* autosave at each change, rather than when dropped
    stock_disk,    \* the stock file: "absent", "readable" or "damaged"
    stock_file,    \* its content
    wallet_file,   \* the wallet directory: tapret tweaks and cached UTXOs
    psbt_file,     \* PSBT files: None (absent or torn) or a PSBT
    consignment,   \* consignment files: None or the witness transaction
    txs,           \* what each transaction spends, and the command it is from
    published,     \* transactions whose PSBT was written for the signers
    mined,         \* transactions in the chain
    printed,       \* coins for which a blinded invoice was printed
    incoming,      \* payments to those invoices: "none", "unmined" or "mined"
    proc,          \* the running command, or None
    forgotten      \* history: what was handed out and lost from the records

disk == <<eager, stock_disk, stock_file, wallet_file, psbt_file, consignment>>
world == <<published, mined, printed, incoming>>
vars == <<disk, world, txs, proc, forgotten>>

NewStock == [contract |-> FALSE, fasciae |-> {}, seals |-> {}, accepted |-> {}]

Init ==
    /\ eager \in BOOLEAN
    /\ stock_disk = "absent" /\ stock_file = NewStock
    /\ wallet_file = [tweaks |-> {}, utxos |-> {0}]
    /\ psbt_file = [f \in Paths |-> None]
    /\ consignment = [f \in Paths |-> None]
    /\ txs = [t \in Txs |-> None]
    /\ published = {} /\ mined = {} /\ printed = {}
    /\ incoming = [c \in Coins |-> "none"]
    /\ proc = None
    /\ forgotten = {}
-----------------------------------------------------------------------------
(* The commands, as the steps that change or hand out something.           *)

Prepare == <<"construct", "create", "encode">>

\* Mutant: the PSBT is written before the transfer is completed.
Mut_Consign == <<"decode", "commit", "create", "encode", "consume", "compose", "save_file">>

Consign == <<"decode", "commit", "consume", "compose", "create", "encode", "save_file">>

\* Mutant: the order of `consign`.
Mut_Transfer == <<"construct", "commit", "consume", "compose", "create", "encode", "save_file">>

\* pay, then the consignment, then the PSBT.
Transfer == <<"construct", "commit", "consume", "compose", "save_file", "create", "encode">>

Invoice == <<"store_secret_seal", "print">>
Issue == <<"import_contract">>
Accept == <<"accept_transfer">>

\* validate, export, history, state, dump and the like only load the stock.
Query == <<>>

Program ==
    [prepare |-> Prepare, consign |-> Consign, transfer |-> Transfer,
     invoice |-> Invoice, issue |-> Issue, accept |-> Accept, query |-> Query]

Commands == DOMAIN Program

\* A PSBT, a transaction of the wallet, what a command holds in memory.
Psbts == [coin : Coins, change : BOOLEAN, tx : Txs \cup {None}]
Payments == [coin : Coins, change : BOOLEAN, on : Paths, cmd : {"consign", "transfer"}]
Stocks == [contract : BOOLEAN, fasciae : SUBSET Txs,
           seals : SUBSET Coins, accepted : SUBSET Coins]
Wallets == [tweaks : SUBSET Txs, utxos : SUBSET Coins]
Processes ==
    [cmd : Commands, on : Paths \cup Coins \cup {None}, flag : BOOLEAN, pc : Nat,
     psbt : Psbts \cup [coin : Coins] \cup {None}, stock : Stocks, wallet : Wallets]

ASSUME NoneAssumption == None \notin Psbts \cup Payments \cup Processes

Running(step) ==
    /\ proc # None
    /\ proc.pc <= Len(Program[proc.cmd])
    /\ Program[proc.cmd][proc.pc] = step
-----------------------------------------------------------------------------
(* Loading.                                                                *)

Spent == {txs[t].coin : t \in mined}

\* Derive for RgbDescr: the change outputs whose tweak the wallet knows.
Derivable(wallet) == wallet.tweaks

\* The wallet after a scan of the chain for the scripts it can derive.
Synced(wallet) ==
    [wallet EXCEPT !.utxos =
        ({0} \cup {t \in mined : txs[t].change /\ t \in Derivable(wallet)}) \ Spent]

\* The stock a command works on; None if it fails with "stock file is
\* damaged".
load_stock ==
    CASE stock_disk = "readable" -> stock_file
      [] stock_disk = "absent" -> NewStock
      [] stock_disk = "damaged" -> None

\* A file with a committed PSBT.
Signable(file) == file # None /\ file.tx # None

\* A command starts.  flag is whether the invoice has an address (consign and
\* invoice), or --force (accept).  A new stock is stored at once; --sync also saves the
\* wallet.  The user names no PSBT file that is ready for signing as the
\* output of another payment.
Start(cmd, on, flag, sync) ==
    /\ proc = None
    /\ load_stock # None
    /\ cmd \in {"prepare", "transfer"} => ~ Signable(psbt_file[on])
    /\ stock_disk' = "readable"
    /\ stock_file' = load_stock
    /\ wallet_file' = IF sync THEN Synced(wallet_file) ELSE wallet_file
    /\ proc' = [cmd |-> cmd, on |-> on, flag |-> flag, pc |-> 1,
                psbt |-> None, stock |-> load_stock, wallet |-> wallet_file']
    /\ UNCHANGED <<eager, forgotten, psbt_file, consignment, world, txs>>
-----------------------------------------------------------------------------
(* Steps.                                                                  *)

\* The process goes on with a changed PSBT, stock and wallet.
Continue(psbt, stock, wallet) ==
    /\ proc' = [proc EXCEPT !.pc = @ + 1, !.psbt = psbt, !.stock = stock, !.wallet = wallet]
    /\ stock_file' = IF eager THEN stock ELSE stock_file
    /\ wallet_file' = IF eager THEN wallet ELSE wallet_file
    /\ UNCHANGED stock_disk

\* Coins with RGB state that the stock knows of: the filter of construct_psbt.
StateKnown(stock) ==
    (IF stock.contract THEN {0} ELSE {}) \cup stock.fasciae
      \cup (stock.accepted \cap stock.seals)

\* construct_psbt_rgb: a transaction that spends a coin with state.
Construct(coin, change) ==
    /\ Running("construct")
    /\ coin \in proc.wallet.utxos \cap StateKnown(proc.stock)
    /\ Continue([coin |-> coin, change |-> change, tx |-> None], proc.stock, proc.wallet)
    /\ UNCHANGED <<eager, forgotten, psbt_file, consignment, world, txs>>

Decode ==
    /\ Running("decode")
    /\ psbt_file[proc.on] # None
    /\ Continue(psbt_file[proc.on], proc.stock, proc.wallet)
    /\ UNCHANGED <<eager, forgotten, psbt_file, consignment, world, txs>>

\* Mutant: a PSBT that is committed already is committed again.
Mut_Committable(psbt) == TRUE

\* rgb_commit refuses a PSBT whose host flag is gone.
Committable(psbt) == psbt.tx = None

\* Mutant: the tweak is not saved.
Mut_WithTweak(wallet, t, change) == wallet

\* add_tapret_tweak, if the commitment is on the change.
WithTweak(wallet, t, change) ==
    IF change THEN [wallet EXCEPT !.tweaks = @ \cup {t}] ELSE wallet

\* rgb_commit and the tweak of the wallet.
Commit(t) ==
    /\ Running("commit")
    /\ Committable(proc.psbt)
    /\ txs[t] = None /\ \A u \in Txs : u < t => txs[u] # None
    /\ txs' = [txs EXCEPT ![t] = [coin |-> proc.psbt.coin, change |-> proc.psbt.change,
                                  on |-> proc.on, cmd |-> proc.cmd]]
    /\ Continue([proc.psbt EXCEPT !.tx = t], proc.stock,
                WithTweak(proc.wallet, t, proc.psbt.change))
    /\ UNCHANGED <<eager, forgotten, psbt_file, consignment, world>>

\* beneficiary_vout.unwrap() panics in `consign`, which passes None, if the
\* invoice has an address.
Panics == proc.cmd = "consign" /\ proc.flag

Consume ==
    /\ Running("consume")
    /\ ~ Panics
    /\ Continue(proc.psbt, [proc.stock EXCEPT !.fasciae = @ \cup {proc.psbt.tx}], proc.wallet)
    /\ UNCHANGED <<eager, forgotten, psbt_file, consignment, world, txs>>

\* Stock::transfer, which only reads.
Compose ==
    /\ Running("compose")
    /\ Continue(proc.psbt, proc.stock, proc.wallet)
    /\ UNCHANGED <<eager, forgotten, psbt_file, consignment, world, txs>>

SaveFile ==
    /\ Running("save_file")
    /\ consignment' = [consignment EXCEPT ![proc.on] = proc.psbt.tx]
    /\ Continue(proc.psbt, proc.stock, proc.wallet)
    /\ UNCHANGED <<eager, forgotten, psbt_file, world, txs>>

\* File::create truncates the file.  If no file is given, the PSBT goes to
\* the standard output and nothing is lost before it is printed.
Create(named) ==
    /\ Running("create")
    /\ proc.cmd = "consign" => named
    /\ psbt_file' = IF named THEN [psbt_file EXCEPT ![proc.on] = None] ELSE psbt_file
    /\ Continue(proc.psbt, proc.stock, proc.wallet)
    /\ UNCHANGED <<eager, forgotten, consignment, world, txs>>

\* Mutant: a PSBT that is only prepared is taken for one to sign.
Mut_Encode ==
    /\ Running("encode")
    /\ psbt_file' = [psbt_file EXCEPT ![proc.on] = proc.psbt]
    /\ published' = published \cup {proc.psbt.tx}
    /\ Continue(proc.psbt, proc.stock, proc.wallet)
    /\ UNCHANGED <<eager, forgotten, consignment, mined, printed, incoming, txs>>

\* From here the signers have the PSBT.
Encode ==
    /\ Running("encode")
    /\ psbt_file' = [psbt_file EXCEPT ![proc.on] = proc.psbt]
    /\ published' = IF proc.psbt.tx = None THEN published ELSE published \cup {proc.psbt.tx}
    /\ Continue(proc.psbt, proc.stock, proc.wallet)
    /\ UNCHANGED <<eager, forgotten, consignment, mined, printed, incoming, txs>>

\* A blinded invoice is on the first coin of the wallet; an address-based one
\* stores nothing.
StoreSecretSeal(coin) ==
    /\ Running("store_secret_seal")
    /\ proc.flag \/ coin \in proc.wallet.utxos \cap Invoiced
    /\ proc' = [proc EXCEPT !.pc = @ + 1, !.on = coin,
                            !.stock.seals = IF proc.flag THEN @ ELSE @ \cup {coin}]
    /\ stock_file' = IF eager THEN proc'.stock ELSE stock_file
    /\ UNCHANGED <<eager, forgotten, stock_disk, wallet_file, psbt_file, consignment, world, txs>>

PrintInvoice ==
    /\ Running("print")
    /\ printed' = IF proc.flag THEN printed ELSE printed \cup {proc.on}
    /\ Continue(proc.psbt, proc.stock, proc.wallet)
    /\ UNCHANGED <<eager, forgotten, psbt_file, consignment, published, mined, incoming, txs>>

ImportContract ==
    /\ Running("import_contract")
    /\ Continue(proc.psbt, [proc.stock EXCEPT !.contract = TRUE], proc.wallet)
    /\ UNCHANGED <<eager, forgotten, psbt_file, consignment, world, txs>>

\* A consignment brings its contract along.  `force: _` is not looked at.
AcceptTransfer(coin) ==
    /\ Running("accept_transfer")
    /\ incoming[coin] # "none"
    /\ Continue([coin |-> coin], [proc.stock EXCEPT !.contract = TRUE,
                                                    !.accepted = @ \cup {coin}], proc.wallet)
    /\ UNCHANGED <<eager, forgotten, psbt_file, consignment, world, txs>>
-----------------------------------------------------------------------------
(* The records.                                                            *)

\* What the running command holds in memory; without one, the files.
LiveStock == IF proc = None THEN stock_file ELSE proc.stock
LiveWallet == IF proc = None THEN wallet_file ELSE proc.wallet

\* A stock and a wallet have a record of a transaction if they hold its fascia
\* and the tweak of its change, of an invoice if they hold its seal.
Records(stock, wallet) ==
    {<<"tx", t>> : t \in {u \in stock.fasciae : txs[u].change => u \in wallet.tweaks}}
      \cup {<<"seal", c>> : c \in stock.seals}

Held == Records(LiveStock, LiveWallet)
OnDisk == Records(stock_file, wallet_file)

HandedOut == {<<"tx", t>> : t \in published} \cup {<<"seal", c>> : c \in printed}
-----------------------------------------------------------------------------
(* Ends of a process.                                                      *)

\* Values are dropped, and saved.
Drop ==
    /\ proc' = None
    /\ stock_file' = proc.stock
    /\ wallet_file' = proc.wallet
    /\ UNCHANGED stock_disk

Exit ==
    /\ proc # None
    /\ proc.pc > Len(Program[proc.cmd])
    /\ Drop
    /\ UNCHANGED <<eager, forgotten, psbt_file, consignment, world, txs>>

\* A consignment may be torn when its writing stops.
MayTear ==
    \/ UNCHANGED consignment
    \/ /\ Running("save_file")
       /\ consignment' = [consignment EXCEPT ![proc.on] = None]

\* The next step returns an error, or panics.
Fail ==
    /\ proc # None
    /\ proc.pc <= Len(Program[proc.cmd])
    /\ Drop
    /\ MayTear
    /\ UNCHANGED <<eager, forgotten, psbt_file, world, txs>>

\* The process is killed.  What was not saved is gone: nothing, with eager
\* saves; else what the command did, or only what it did to the wallet, as
\* RgbWallet drops its stock first.
Crash ==
    /\ proc # None
    /\ proc' = None
    /\ stock_file' \in {stock_file, proc.stock}
    /\ MayTear
    /\ UNCHANGED <<eager, stock_disk, wallet_file, psbt_file, world, txs>>
    /\ forgotten' = forgotten \cup (HandedOut \cap (Held \ OnDisk'))
-----------------------------------------------------------------------------
(* External: the chain, the payers, and the disk.                          *)

Mine(t) ==
    /\ t \in published \ mined
    /\ txs[t].coin \notin Spent
    /\ txs[t].coin \in {0} \cup mined
    /\ mined' = mined \cup {t}
    /\ UNCHANGED <<disk, forgotten, published, printed, incoming, txs, proc>>

Paid(coin) ==
    /\ coin \in printed
    /\ incoming[coin] # "mined"
    /\ incoming' = [incoming EXCEPT ![coin] = IF @ = "none" THEN "unmined" ELSE "mined"]
    /\ UNCHANGED <<disk, forgotten, published, mined, printed, txs, proc>>

\* The stock cannot be read for a while.
Damage ==
    /\ proc = None
    /\ stock_disk # "absent"
    /\ stock_disk' = IF stock_disk = "damaged" THEN "readable" ELSE "damaged"
    /\ UNCHANGED <<eager, forgotten, stock_file, wallet_file, psbt_file, consignment, world, txs, proc>>
-----------------------------------------------------------------------------
Next ==
    \/ \E f \in Paths, sync, flag \in BOOLEAN :
          \/ Start("prepare", f, FALSE, sync)
          \/ Start("consign", f, flag, sync)
          \/ Start("transfer", f, FALSE, sync)
          \/ Start("invoice", None, flag, sync)
          \/ Start("query", None, FALSE, sync)
          \/ Start("issue", None, FALSE, FALSE)
          \/ Start("accept", None, flag, FALSE)
    \/ \E c \in Coins, ch \in BOOLEAN : Construct(c, ch)
    \/ Decode
    \/ \E t \in Txs : Commit(t)
    \/ Consume \/ Compose \/ SaveFile
    \/ \E n \in BOOLEAN : Create(n)
    \/ Encode
    \/ \E c \in Coins : StoreSecretSeal(c)
    \/ PrintInvoice
    \/ ImportContract
    \/ \E c \in Coins : AcceptTransfer(c)
    \/ Exit \/ Fail \/ Crash
    \/ \E t \in Txs : Mine(t)
    \/ \E c \in Coins : Paid(c)
    \/ Damage

Spec == Init /\ [][Next]_vars
-----------------------------------------------------------------------------
(* Properties.                                                             *)

TypeOK ==
    /\ eager \in BOOLEAN
    /\ stock_disk \in {"absent", "readable", "damaged"}
    /\ stock_file \in Stocks /\ wallet_file \in Wallets
    /\ psbt_file \in [Paths -> Psbts \cup {None}]
    /\ consignment \in [Paths -> Txs \cup {None}]
    /\ txs \in [Txs -> Payments \cup {None}]
    /\ published \subseteq {t \in Txs : txs[t] # None} /\ mined \subseteq published
    /\ printed \subseteq Coins
    /\ incoming \in [Coins -> {"none", "unmined", "mined"}]
    /\ proc \in Processes \cup {None}
    /\ forgotten \subseteq HandedOut /\ (eager => forgotten = {})
    /\ proc # None => proc.pc \in 1 .. Len(Program[proc.cmd]) + 1

Ahead == INSTANCE WriteAhead
    WITH Items <- {"tx", "seal"} \X Coins, recorded <- Held, saved <- OnDisk,
         published <- HandedOut, lost <- forgotten

\* A PSBT reaches the signers only when the process holds the fascia and the
\* tweak of its transaction, a blinded invoice is printed only when it holds
\* the seal; with eager saves these are on disk by then.  Nothing is ever
\* taken off the disk again, also not by a command that fails, is killed, or
\* is started on a stock that cannot be read.  With saves at the drop, a kill
\* loses at most what the killed command did itself.
RecordedFirst == Ahead!Spec

\* Whatever was run, failed or killed before, a synchronised wallet finds
\* each unspent change of its mined transactions, also if payments that
\* compete for the same coin were prepared, and the state on it can be spent;
\* except that a transaction is forgotten if the command that wrote its PSBT
\* was killed before a save at the drop.
ChangeSpendable ==
    \A t \in mined : txs[t].change /\ t \notin Spent /\ <<"tx", t>> \notin forgotten =>
        t \in Synced(LiveWallet).utxos \cap StateKnown(LiveStock)

\* However often `consign` is repeated on a PSBT, the signers never get two
\* transactions for one payment: the consignment of one would not be about
\* the transaction that is mined.
OneTxPerPayment ==
    \A t, u \in published : txs[t].on = txs[u].on => t = u

\* A PSBT written by `transfer` has its consignment next to it, so the
\* beneficiary of a transaction that can be broadcast can be sent the proof.
ConsignedFirst ==
    \A f \in Paths : Signable(psbt_file[f]) =>
        LET t == psbt_file[f].tx
        IN  txs[t].cmd = "transfer" => consignment[f] = t

\* Without --force, "Force accepting consignments with non-mined terminal
\* witness", no such consignment is accepted.
AcceptsMined ==
    proc # None /\ proc.cmd = "accept" /\ ~ proc.flag /\ proc.psbt # None =>
        incoming[proc.psbt.coin] = "mined"
=============================================================================
