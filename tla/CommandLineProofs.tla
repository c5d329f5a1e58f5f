------------------------- MODULE CommandLineProofs -------------------------
(***************************************************************************)
(* Proofs about CommandLine, for any number of transactions and any set of *)
(* file names, and for both ways in which the files may be saved.          *)
(***************************************************************************)
EXTENDS CommandLine, TLAPS

\* The files agree with the process: a stock that was never stored is new,
\* nothing on disk is missing in memory, and with eager saves the files are
\* what the process holds.
Loaded ==
    /\ stock_disk = "absent" => stock_file = NewStock /\ proc = None
    /\ proc # None =>
          /\ stock_file.fasciae \subseteq proc.stock.fasciae
          /\ stock_file.seals \subseteq proc.stock.seals
          /\ wallet_file.tweaks \subseteq proc.wallet.tweaks
          /\ eager => proc.stock = stock_file /\ proc.wallet = wallet_file

\* What was handed out is on record, unless a kill took it off.
RecordsKept ==
    /\ LiveStock.fasciae \subseteq {t \in Txs : txs[t] # None}
    /\ \A t \in published : <<"tx", t>> \notin forgotten =>
          /\ t \in LiveStock.fasciae
          /\ txs[t].change => t \in LiveWallet.tweaks
    /\ \A c \in printed : <<"seal", c>> \notin forgotten => c \in LiveStock.seals

\* The PSBT file of a published transaction still holds it.
FilesCurrent ==
    /\ \A f \in Paths : Signable(psbt_file[f]) => txs[psbt_file[f].tx] # None
    /\ \A t \in published : Signable(psbt_file[txs[t].on]) /\ psbt_file[txs[t].on].tx = t
    /\ ConsignedFirst

\* What the running command has done, by the step it is at: commit is step 2
\* and consume step 3 of `consign` and `transfer`, encode step 3 of `prepare`,
\* step 6 of `consign` and step 7 of `transfer`, which saves its consignment
\* in step 5.
OnTrack ==
    proc # None =>
        /\ proc.cmd \in {"prepare", "consign", "transfer"} =>
              proc.on \in Paths /\ (proc.pc > 1 => proc.psbt \in Psbts)
        /\ proc.cmd = "prepare" =>
              /\ proc.pc > 1 => proc.psbt.tx = None
              /\ proc.pc <= 3 => ~ Signable(psbt_file[proc.on])
        /\ proc.cmd = "consign" =>
              /\ proc.pc = 2 => proc.psbt = psbt_file[proc.on]
              /\ proc.pc \in 3 .. 6 => ~ Signable(psbt_file[proc.on])
              /\ proc.pc > 6 => psbt_file[proc.on] = proc.psbt
        /\ proc.cmd = "transfer" =>
              /\ proc.pc <= 7 => ~ Signable(psbt_file[proc.on])
              /\ proc.pc > 5 => consignment[proc.on] = proc.psbt.tx
        /\ proc.cmd \in {"consign", "transfer"} /\ proc.pc > 2 =>
              /\ proc.psbt.tx \in Txs
              /\ txs[proc.psbt.tx] = [coin |-> proc.psbt.coin, change |-> proc.psbt.change,
                                      on |-> proc.on, cmd |-> proc.cmd]
              /\ proc.psbt.change => proc.psbt.tx \in proc.wallet.tweaks
              /\ proc.pc > 3 => proc.psbt.tx \in proc.stock.fasciae
        /\ proc.cmd = "invoice" /\ proc.pc = 2 /\ ~ proc.flag => proc.on \in proc.stock.seals

\* The inductive invariant.
WroteAhead == TypeOK /\ Loaded /\ RecordsKept /\ FilesCurrent /\ OnTrack
-----------------------------------------------------------------------------
(* Where a command is.                                                     *)

\* The programs, one by one.
LEMMA Programs ==
    /\ Commands = {"prepare", "consign", "transfer", "invoice", "issue", "accept", "query"}
    /\ Program["prepare"] = Prepare /\ Program["consign"] = Consign
    /\ Program["transfer"] = Transfer /\ Program["invoice"] = Invoice
    /\ Program["issue"] = Issue /\ Program["accept"] = Accept /\ Program["query"] = Query
  BY DEF Commands, Program

\* The lengths of the programs.
LEMMA Lengths ==
    /\ Len(Prepare) = 3 /\ Len(Consign) = 7 /\ Len(Transfer) = 7
    /\ Len(Invoice) = 2 /\ Len(Issue) = 1 /\ Len(Accept) = 1 /\ Len(Query) = 0
  BY DEF Prepare, Consign, Transfer, Invoice, Issue, Accept, Query

\* A step of one of the commands is one of these.
Steps ==
    [construct |-> {<<"prepare", 1>>, <<"transfer", 1>>},
     create |-> {<<"prepare", 2>>, <<"consign", 5>>, <<"transfer", 6>>},
     encode |-> {<<"prepare", 3>>, <<"consign", 6>>, <<"transfer", 7>>},
     decode |-> {<<"consign", 1>>},
     commit |-> {<<"consign", 2>>, <<"transfer", 2>>},
     consume |-> {<<"consign", 3>>, <<"transfer", 3>>},
     compose |-> {<<"consign", 4>>, <<"transfer", 4>>},
     save_file |-> {<<"consign", 7>>, <<"transfer", 5>>},
     store_secret_seal |-> {<<"invoice", 1>>},
     print |-> {<<"invoice", 2>>},
     import_contract |-> {<<"issue", 1>>},
     accept_transfer |-> {<<"accept", 1>>}]

LEMMA StepAt ==
    ASSUME NEW cmd \in Commands, NEW pc \in 1 .. Len(Program[cmd])
    PROVE  \A step \in DOMAIN Steps : Program[cmd][pc] = step => <<cmd, pc>> \in Steps[step]
  <1> USE Programs, Lengths DEF Steps
  <1>1. CASE cmd = "prepare"
    BY <1>1 DEF Prepare
  <1>2. CASE cmd = "consign"
    <2>1. pc \in 1 .. 7
      BY <1>2
    <2>2. QED
      BY <1>2, <2>1 DEF Consign
  <1>3. CASE cmd = "transfer"
    <2>1. pc \in 1 .. 7
      BY <1>3
    <2>2. QED
      BY <1>3, <2>1 DEF Transfer
  <1>4. CASE cmd = "invoice"
    BY <1>4 DEF Invoice
  <1>5. CASE cmd \in {"issue", "accept", "query"}
    BY <1>5 DEF Issue, Accept, Query
  <1>6. QED
    BY <1>1, <1>2, <1>3, <1>4, <1>5

\* A command that is at a step is one of those that have it.
LEMMA RunningAt ==
    ASSUME TypeOK, NEW step \in DOMAIN Steps, Running(step)
    PROVE  /\ proc # None /\ proc \in Processes
           /\ <<proc.cmd, proc.pc>> \in Steps[step]
           /\ proc.pc + 1 \in 1 .. Len(Program[proc.cmd]) + 1
  <1>1. proc # None /\ proc \in Processes /\ proc.cmd \in Commands
    BY DEF Running, TypeOK, Processes
  <1>2. Len(Program[proc.cmd]) \in Nat
    BY <1>1, Programs, Lengths
  <1>3. proc.pc \in 1 .. Len(Program[proc.cmd])
    BY <1>1, <1>2 DEF Running, TypeOK
  <1>4. QED
    BY <1>1, <1>2, <1>3, StepAt DEF Running
-----------------------------------------------------------------------------
(* Loading, going on, and ending.                                          *)

\* A step of a command leaves it where it was, one step further.
LEMMA Continues ==
    ASSUME TypeOK, Loaded, NEW step \in DOMAIN Steps, Running(step), UNCHANGED eager,
           NEW psbt \in Psbts \cup [coin : Coins] \cup {None},
           NEW stock \in Stocks, NEW wallet \in Wallets, Continue(psbt, stock, wallet),
           proc.stock.fasciae \subseteq stock.fasciae, proc.stock.seals \subseteq stock.seals,
           proc.wallet.tweaks \subseteq wallet.tweaks
    PROVE  /\ proc' # None /\ proc' \in Processes
           /\ proc' = [cmd |-> proc.cmd, on |-> proc.on, flag |-> proc.flag,
                       pc |-> proc.pc + 1, psbt |-> psbt, stock |-> stock, wallet |-> wallet]
           /\ proc'.pc \in 1 .. Len(Program[proc'.cmd]) + 1
           /\ stock_file' \in Stocks /\ wallet_file' \in Wallets
           /\ Loaded'
           /\ LiveStock' = stock /\ LiveWallet' = wallet
  <1>1. /\ proc # None /\ proc \in Processes
        /\ proc.pc + 1 \in 1 .. Len(Program[proc.cmd]) + 1
    BY RunningAt
  <1>2. proc' = [proc EXCEPT !.pc = proc.pc + 1, !.psbt = psbt, !.stock = stock, !.wallet = wallet]
    BY DEF Continue
  <1>3. proc' = [cmd |-> proc.cmd, on |-> proc.on, flag |-> proc.flag, pc |-> proc.pc + 1,
                 psbt |-> psbt, stock |-> stock, wallet |-> wallet]
    BY <1>1, <1>2 DEF Processes
  <1>4. proc' \in Processes /\ proc'.stock = stock /\ proc'.wallet = wallet
    <2>1. proc.pc + 1 \in Nat
      BY <1>1 DEF Processes
    <2>2. proc.cmd \in Commands /\ proc.on \in Paths \cup Coins \cup {None} /\ proc.flag \in BOOLEAN
      BY <1>1 DEF Processes
    <2>3. QED
      BY <1>3, <2>1, <2>2 DEF Processes
  <1>5. proc' # None
    BY <1>4, NoneAssumption
  <1>6. proc'.pc \in 1 .. Len(Program[proc'.cmd]) + 1
    BY <1>1, <1>2 DEF Processes
  <1>7. stock_file' \in Stocks /\ wallet_file' \in Wallets
    BY DEF Continue, TypeOK
  <1>8. Loaded'
    <2>1. stock_disk # "absent"
      BY <1>1 DEF TypeOK, Loaded
    <2>2. /\ proc # None => stock_file.fasciae \subseteq stock.fasciae
          /\ proc # None => stock_file.seals \subseteq stock.seals
          /\ proc # None => wallet_file.tweaks \subseteq wallet.tweaks
      BY DEF Loaded
    <2>3. QED
      BY <1>1, <1>4, <2>1, <2>2 DEF Continue, Loaded
  <1>9. LiveStock' = stock /\ LiveWallet' = wallet
    BY <1>4, <1>5 DEF LiveStock, LiveWallet
  <1>10. QED
    BY <1>3, <1>4, <1>5, <1>6, <1>7, <1>8, <1>9

\* Nothing is taken off the records.
Grown ==
    /\ LiveStock.fasciae \subseteq LiveStock'.fasciae
    /\ LiveStock.seals \subseteq LiveStock'.seals
    /\ LiveWallet.tweaks \subseteq LiveWallet'.tweaks

\* What is on record may grow.
LEMMA RecordsGrow ==
    ASSUME RecordsKept, UNCHANGED <<txs, published, printed, forgotten>>, Grown,
           LiveStock'.fasciae \subseteq {t \in Txs : txs[t] # None}
    PROVE  RecordsKept'
  BY DEF RecordsKept, Grown

\* Files that are not written stay current.
LEMMA FilesKept ==
    ASSUME FilesCurrent, UNCHANGED <<txs, published, psbt_file, consignment>>
    PROVE  FilesCurrent'
  BY DEF FilesCurrent, ConsignedFirst, Signable
-----------------------------------------------------------------------------
(* The inductive invariant, action by action.                              *)

\* Nothing was stored, written or handed out at first.
LEMMA InitWroteAhead == Init => WroteAhead
  <1> SUFFICES ASSUME Init PROVE WroteAhead
    OBVIOUS
  <1> USE DEF Init
  <1>1. TypeOK
    BY DEF TypeOK, NewStock, Stocks, Wallets, Coins
  <1>2. Loaded
    BY DEF Loaded
  <1>3. RecordsKept
    BY DEF RecordsKept, NewStock, LiveStock
  <1>4. FilesCurrent
    BY DEF FilesCurrent, ConsignedFirst, Signable
  <1>5. OnTrack
    BY DEF OnTrack
  <1>6. QED
    BY <1>1, <1>2, <1>3, <1>4, <1>5 DEF WroteAhead

\* A command starts from what the files hold.
LEMMA StartKeeps ==
    ASSUME WroteAhead, NEW cmd \in Commands, NEW on \in Paths \cup {None},
           cmd \in {"prepare", "consign", "transfer"} => on \in Paths,
           NEW flag \in BOOLEAN, NEW sync \in BOOLEAN, Start(cmd, on, flag, sync)
    PROVE  WroteAhead' /\ Grown
  <1> USE DEF WroteAhead
  <1>1. /\ proc = None /\ load_stock # None
        /\ cmd \in {"prepare", "transfer"} => ~ Signable(psbt_file[on])
        /\ stock_disk' = "readable" /\ stock_file' = load_stock
        /\ wallet_file' = IF sync THEN Synced(wallet_file) ELSE wallet_file
        /\ proc' = [cmd |-> cmd, on |-> on, flag |-> flag, pc |-> 1,
                    psbt |-> None, stock |-> stock_file', wallet |-> wallet_file']
        /\ UNCHANGED <<eager, forgotten, psbt_file, consignment, txs, published, mined, printed, incoming>>
    BY DEF Start, world
  <1>2. load_stock = stock_file
    BY <1>1 DEF load_stock, Loaded, TypeOK
  <1>3. wallet_file' \in Wallets /\ wallet_file'.tweaks = wallet_file.tweaks
    <2>1. Synced(wallet_file) \in Wallets /\ Synced(wallet_file).tweaks = wallet_file.tweaks
      BY DEF Synced, TypeOK, Wallets, Coins
    <2>2. QED
      BY <1>1, <2>1 DEF TypeOK
  <1>4. proc' \in Processes /\ proc' # None
    <2>1. proc' \in Processes
      BY <1>1, <1>2, <1>3 DEF Processes, TypeOK
    <2>2. QED
      BY <2>1, NoneAssumption
  <1>5. TypeOK'
    <2>1. Len(Program[cmd]) \in Nat
      BY Programs, Lengths
    <2>2. proc'.pc \in 1 .. Len(Program[proc'.cmd]) + 1
      BY <1>1, <2>1
    <2>3. QED
      BY <1>1, <1>2, <1>3, <1>4, <2>2 DEF TypeOK, HandedOut
  <1>6. Loaded'
    BY <1>1, <1>4 DEF Loaded
  <1>7. /\ LiveStock = stock_file /\ LiveWallet = wallet_file
        /\ LiveStock' = stock_file' /\ LiveWallet' = wallet_file'
    BY <1>1, <1>4 DEF LiveStock, LiveWallet
  <1>8. RecordsKept'
    BY <1>1, <1>2, <1>3, <1>7, RecordsGrow DEF RecordsKept, Grown
  <1>9. FilesCurrent'
    BY <1>1, FilesKept
  <1>10. OnTrack'
    BY <1>1 DEF OnTrack, Signable
  <1>11. QED
    BY <1>1, <1>2, <1>3, <1>5, <1>6, <1>7, <1>8, <1>9, <1>10 DEF Grown

\* A step that adds to the stock at most keeps what it does not write.
LEMMA StepKeeps ==
    ASSUME WroteAhead, NEW step \in DOMAIN Steps, Running(step),
           NEW psbt \in Psbts \cup [coin : Coins] \cup {None}, NEW stock \in Stocks,
           Continue(psbt, stock, proc.wallet), UNCHANGED <<eager, forgotten, txs, mined, incoming>>,
           proc.stock.fasciae \subseteq stock.fasciae, proc.stock.seals \subseteq stock.seals,
           stock.fasciae \subseteq {t \in Txs : txs[t] # None}
    PROVE  /\ proc' # None
           /\ proc' = [cmd |-> proc.cmd, on |-> proc.on, flag |-> proc.flag,
                       pc |-> proc.pc + 1, psbt |-> psbt, stock |-> stock,
                       wallet |-> proc.wallet]
           /\ Loaded' /\ Grown /\ LiveStock' = stock /\ LiveWallet' = proc.wallet
           /\ UNCHANGED <<published, printed>> => RecordsKept'
           /\ UNCHANGED <<psbt_file, consignment, published>> => FilesCurrent'
           /\ /\ psbt_file' \in [Paths -> Psbts \cup {None}]
              /\ consignment' \in [Paths -> Txs \cup {None}]
              /\ published \subseteq published' /\ printed \subseteq printed'
              /\ printed' \subseteq Coins
              /\ published' \subseteq {t \in Txs : txs[t] # None}
              => TypeOK'
  <1> USE DEF WroteAhead
  <1>1. proc # None /\ proc \in Processes /\ proc.wallet \in Wallets
    BY RunningAt DEF Processes
  <1>2. /\ proc' # None /\ proc' \in Processes
        /\ proc' = [cmd |-> proc.cmd, on |-> proc.on, flag |-> proc.flag, pc |-> proc.pc + 1,
                    psbt |-> psbt, stock |-> stock, wallet |-> proc.wallet]
        /\ proc'.pc \in 1 .. Len(Program[proc'.cmd]) + 1
        /\ stock_file' \in Stocks /\ wallet_file' \in Wallets
        /\ Loaded' /\ LiveStock' = stock /\ LiveWallet' = proc.wallet
    BY <1>1, Continues
  <1>3. Grown
    BY <1>1, <1>2 DEF Grown, LiveStock, LiveWallet
  <1>4. UNCHANGED <<published, printed>> => RecordsKept'
    BY <1>2, <1>3, RecordsGrow
  <1>5. UNCHANGED <<psbt_file, consignment, published>> => FilesCurrent'
    BY FilesKept
  <1>6. published \subseteq published' /\ printed \subseteq printed' =>
            forgotten' \subseteq HandedOut' /\ (eager' => forgotten' = {})
    BY DEF TypeOK, HandedOut
  <1>7. QED
    BY <1>2, <1>3, <1>4, <1>5, <1>6 DEF TypeOK, Continue

\* The stock of the running command knows transactions that were made.
LEMMA CommandHolds ==
    ASSUME WroteAhead, NEW step \in DOMAIN Steps, Running(step)
    PROVE  /\ proc # None /\ proc.stock \in Stocks /\ proc.wallet \in Wallets
           /\ proc.stock.fasciae \subseteq {t \in Txs : txs[t] # None}
           /\ LiveStock = proc.stock /\ LiveWallet = proc.wallet
           /\ proc.flag \in BOOLEAN
           /\ proc.cmd \in Commands /\ proc.pc \in Nat
           /\ <<proc.cmd, proc.pc>> \in Steps[step]
  <1>1. proc # None /\ proc \in Processes /\ <<proc.cmd, proc.pc>> \in Steps[step]
    BY RunningAt DEF WroteAhead
  <1>2. LiveStock = proc.stock /\ LiveWallet = proc.wallet
    BY <1>1 DEF LiveStock, LiveWallet
  <1>3. QED
    BY <1>1, <1>2 DEF WroteAhead, RecordsKept, Processes

\* construct_psbt_rgb makes a PSBT without transaction.
LEMMA ConstructKeeps ==
    ASSUME WroteAhead, NEW coin \in Coins, NEW change \in BOOLEAN, Construct(coin, change)
    PROVE  WroteAhead' /\ Grown
  <1> DEFINE psbt == [coin |-> coin, change |-> change, tx |-> None]
  <1>1. /\ Running("construct") /\ Continue(psbt, proc.stock, proc.wallet)
        /\ UNCHANGED <<eager, forgotten, psbt_file, consignment, txs, published, mined, printed, incoming>>
    BY DEF Construct, world
  <1>2. psbt \in Psbts
    BY DEF Psbts
  <1>3. /\ <<proc.cmd, proc.pc>> \in Steps["construct"] /\ proc.pc \in Nat /\ proc # None
        /\ proc.stock \in Stocks /\ proc.stock.fasciae \subseteq {t \in Txs : txs[t] # None}
    BY <1>1, CommandHolds DEF Steps
  <1>4. /\ proc' = [cmd |-> proc.cmd, on |-> proc.on, flag |-> proc.flag, pc |-> proc.pc + 1,
                    psbt |-> psbt, stock |-> proc.stock, wallet |-> proc.wallet]
        /\ TypeOK' /\ Loaded' /\ RecordsKept' /\ FilesCurrent' /\ Grown
    BY <1>1, <1>2, <1>3, StepKeeps DEF Steps, WroteAhead, TypeOK
  <1>5. OnTrack'
    BY <1>1, <1>2, <1>3, <1>4 DEF Steps, WroteAhead, OnTrack, Signable
  <1>6. QED
    BY <1>4, <1>5 DEF WroteAhead

\* consign works on the PSBT in the file.
LEMMA DecodeKeeps ==
    ASSUME WroteAhead, Decode
    PROVE  WroteAhead' /\ Grown
  <1> DEFINE psbt == psbt_file[proc.on]
  <1>1. /\ Running("decode") /\ Continue(psbt, proc.stock, proc.wallet) /\ psbt # None
        /\ UNCHANGED <<eager, forgotten, psbt_file, consignment, txs, published, mined, printed, incoming>>
    BY DEF Decode, world
  <1>2. psbt \in Psbts
    BY <1>1, CommandHolds DEF WroteAhead, OnTrack, TypeOK, Steps
  <1>3. /\ <<proc.cmd, proc.pc>> \in Steps["decode"] /\ proc.pc \in Nat /\ proc # None
        /\ proc.stock \in Stocks /\ proc.stock.fasciae \subseteq {t \in Txs : txs[t] # None}
    BY <1>1, CommandHolds DEF Steps
  <1>4. /\ proc' = [cmd |-> proc.cmd, on |-> proc.on, flag |-> proc.flag, pc |-> proc.pc + 1,
                    psbt |-> psbt, stock |-> proc.stock, wallet |-> proc.wallet]
        /\ TypeOK' /\ Loaded' /\ RecordsKept' /\ FilesCurrent' /\ Grown
    BY <1>1, <1>2, <1>3, StepKeeps DEF Steps, WroteAhead, TypeOK
  <1>5. OnTrack'
    BY <1>1, <1>2, <1>3, <1>4 DEF Steps, WroteAhead, OnTrack, Signable
  <1>6. QED
    BY <1>4, <1>5 DEF WroteAhead

\* rgb_commit makes a new transaction, and the tweak of its change is kept.
LEMMA CommitKeeps ==
    ASSUME WroteAhead, NEW t \in Txs, Commit(t)
    PROVE  WroteAhead' /\ Grown
  <1> USE DEF WroteAhead
  <1> DEFINE psbt == [proc.psbt EXCEPT !.tx = t]
             wallet == WithTweak(proc.wallet, t, proc.psbt.change)
             paid == [coin |-> proc.psbt.coin, change |-> proc.psbt.change,
                      on |-> proc.on, cmd |-> proc.cmd]
  <1>1. /\ Running("commit") /\ Continue(psbt, proc.stock, wallet)
        /\ proc.psbt.tx = None /\ txs[t] = None /\ txs' = [txs EXCEPT ![t] = paid]
        /\ UNCHANGED <<eager, forgotten, psbt_file, consignment, published, mined, printed, incoming>>
    BY DEF Commit, Committable, world
  <1>2. /\ proc # None /\ proc \in Processes /\ <<proc.cmd, proc.pc>> \in Steps["commit"]
    BY <1>1, RunningAt DEF Steps
  <1>3. /\ proc.psbt \in Psbts /\ proc.on \in Paths /\ proc.cmd \in {"consign", "transfer"}
        /\ proc.pc = 2
    BY <1>2 DEF OnTrack, Steps
  <1>4. /\ psbt \in Psbts /\ proc.stock \in Stocks /\ wallet \in Wallets
        /\ proc.wallet.tweaks \subseteq wallet.tweaks
        /\ proc.psbt.change => t \in wallet.tweaks
    BY <1>2, <1>3 DEF Psbts, Processes, Wallets, WithTweak
  <1>5. psbt.tx = t /\ psbt.coin = proc.psbt.coin /\ psbt.change = proc.psbt.change
    BY <1>3 DEF Psbts
  <1>6. paid \in Payments /\ paid # None
    <2>1. paid \in Payments
      BY <1>3 DEF Payments, Psbts
    <2>2. QED
      BY <2>1, NoneAssumption
  <1> HIDE DEF psbt, wallet
  <1>7. /\ proc' # None /\ proc' \in Processes
        /\ proc' = [cmd |-> proc.cmd, on |-> proc.on, flag |-> proc.flag, pc |-> proc.pc + 1,
                    psbt |-> psbt, stock |-> proc.stock, wallet |-> wallet]
        /\ proc'.pc \in 1 .. Len(Program[proc'.cmd]) + 1
        /\ stock_file' \in Stocks /\ wallet_file' \in Wallets
        /\ Loaded' /\ LiveStock' = proc.stock /\ LiveWallet' = wallet
    BY <1>1, <1>2, <1>4, Continues DEF Steps
  <1>8. txs' \in [Txs -> Payments \cup {None}] /\ \A u \in Txs : u # t => txs'[u] = txs[u]
    BY <1>1, <1>6 DEF TypeOK
  <1>9. txs'[t] = paid
    BY <1>1 DEF TypeOK
  <1> HIDE DEF paid
  <1>10. TypeOK'
    <2>1. published \subseteq {u \in Txs : txs'[u] # None}
      BY <1>1, <1>8 DEF TypeOK
    <2>2. QED
      BY <1>1, <1>7, <1>8, <2>1 DEF TypeOK, Continue, HandedOut
  <1>11. Grown /\ RecordsKept'
    <2>1. LiveStock = proc.stock /\ LiveWallet = proc.wallet
      BY <1>2 DEF LiveStock, LiveWallet
    <2>2. Grown
      BY <1>4, <1>7, <2>1 DEF Grown
    <2>3. t \notin published /\ t \notin LiveStock.fasciae
      BY <1>1 DEF TypeOK, RecordsKept
    <2>4. QED
      BY <1>1, <1>7, <1>8, <2>1, <2>2, <2>3 DEF RecordsKept, Grown, TypeOK
  <1>12. FilesCurrent'
    <2>1. t \notin published /\ \A f \in Paths : Signable(psbt_file[f]) => psbt_file[f].tx # t
      BY <1>1 DEF TypeOK, FilesCurrent
    <2>2. \A f \in Paths : Signable(psbt_file[f]) => psbt_file[f].tx \in Txs
      BY DEF TypeOK, Signable, Psbts
    <2>3. QED
      BY <1>1, <1>8, <2>1, <2>2 DEF TypeOK, FilesCurrent, ConsignedFirst, Signable
  <1>13. OnTrack'
    <2>1. ~ Signable(psbt_file[proc.on])
      BY <1>1, <1>3, <1>2 DEF OnTrack, Signable
    <2>2. QED
      BY <1>1, <1>3, <1>4, <1>5, <1>7, <1>9, <2>1 DEF OnTrack, Signable, paid
  <1>14. QED
    BY <1>7, <1>10, <1>11, <1>12, <1>13

\* The fascia goes to the stock.
LEMMA ConsumeKeeps ==
    ASSUME WroteAhead, Consume
    PROVE  WroteAhead' /\ Grown
  <1> DEFINE stock == [proc.stock EXCEPT !.fasciae = @ \cup {proc.psbt.tx}]
  <1>1. /\ Running("consume") /\ Continue(proc.psbt, stock, proc.wallet)
        /\ UNCHANGED <<eager, forgotten, psbt_file, consignment, txs, published, mined, printed, incoming>>
    BY DEF Consume, world
  <1>2. /\ proc # None /\ proc.pc = 3 /\ proc.cmd \in {"consign", "transfer"}
        /\ proc.psbt \in Psbts /\ proc.psbt.tx \in Txs /\ txs[proc.psbt.tx] # None
    <2>1. proc # None /\ proc.pc = 3 /\ proc.cmd \in {"consign", "transfer"}
      BY <1>1, CommandHolds DEF Steps
    <2>2. /\ proc.psbt \in Psbts /\ proc.psbt.tx \in Txs /\ proc.on \in Paths
          /\ txs[proc.psbt.tx] = [coin |-> proc.psbt.coin, change |-> proc.psbt.change,
                                  on |-> proc.on, cmd |-> proc.cmd]
      BY <2>1 DEF WroteAhead, OnTrack
    <2>3. txs[proc.psbt.tx] \in Payments
      BY <2>1, <2>2 DEF Payments, Psbts
    <2>4. QED
      BY <2>1, <2>2, <2>3, NoneAssumption
  <1>3. /\ stock \in Stocks /\ stock.fasciae = proc.stock.fasciae \cup {proc.psbt.tx}
        /\ stock.seals = proc.stock.seals
    BY <1>1, <1>2, CommandHolds DEF Stocks, Steps
  <1> HIDE DEF stock
  <1>4. proc.stock.fasciae \cup {proc.psbt.tx} \subseteq {t \in Txs : txs[t] # None}
    BY <1>1, <1>2, CommandHolds DEF Steps
  <1>5. /\ <<proc.cmd, proc.pc>> \in Steps["consume"] /\ proc.pc \in Nat /\ proc # None
        /\ proc.stock \in Stocks /\ proc.stock.fasciae \subseteq {t \in Txs : txs[t] # None}
    BY <1>1, CommandHolds DEF Steps
  <1>6. /\ proc' = [cmd |-> proc.cmd, on |-> proc.on, flag |-> proc.flag, pc |-> proc.pc + 1,
                    psbt |-> proc.psbt, stock |-> stock, wallet |-> proc.wallet]
        /\ TypeOK' /\ Loaded' /\ RecordsKept' /\ FilesCurrent' /\ Grown
    BY <1>1, <1>2, <1>3, <1>4, <1>5, StepKeeps DEF Steps, WroteAhead, TypeOK
  <1>7. OnTrack'
    BY <1>1, <1>2, <1>3, <1>4, <1>5, <1>6 DEF Steps, WroteAhead, OnTrack, Signable
  <1>8. QED
    BY <1>6, <1>7 DEF WroteAhead

\* Stock::transfer changes nothing.
LEMMA ComposeKeeps ==
    ASSUME WroteAhead, Compose
    PROVE  WroteAhead' /\ Grown
  <1>1. /\ Running("compose") /\ Continue(proc.psbt, proc.stock, proc.wallet)
        /\ UNCHANGED <<eager, forgotten, psbt_file, consignment, txs, published, mined, printed, incoming>>
    BY DEF Compose, world
  <1>2. proc.psbt \in Psbts
    BY <1>1, CommandHolds DEF WroteAhead, OnTrack, Steps
  <1>3. /\ <<proc.cmd, proc.pc>> \in Steps["compose"] /\ proc.pc \in Nat /\ proc # None
        /\ proc.stock \in Stocks /\ proc.stock.fasciae \subseteq {t \in Txs : txs[t] # None}
    BY <1>1, CommandHolds DEF Steps
  <1>4. /\ proc' = [cmd |-> proc.cmd, on |-> proc.on, flag |-> proc.flag, pc |-> proc.pc + 1,
                    psbt |-> proc.psbt, stock |-> proc.stock, wallet |-> proc.wallet]
        /\ TypeOK' /\ Loaded' /\ RecordsKept' /\ FilesCurrent' /\ Grown
    BY <1>1, <1>2, <1>3, StepKeeps DEF Steps, WroteAhead, TypeOK
  <1>5. OnTrack'
    BY <1>1, <1>2, <1>3, <1>4 DEF Steps, WroteAhead, OnTrack, Signable
  <1>6. QED
    BY <1>4, <1>5 DEF WroteAhead

\* The PSBT of `consign` or `transfer` once it is committed.
LEMMA CommittedPsbt ==
    ASSUME WroteAhead, proc # None, proc.cmd \in {"consign", "transfer"}, proc.pc > 2
    PROVE  /\ proc.on \in Paths /\ proc.psbt \in Psbts /\ proc.psbt.tx \in Txs
           /\ proc.psbt.tx # None /\ txs[proc.psbt.tx] # None
           /\ txs[proc.psbt.tx].on = proc.on /\ txs[proc.psbt.tx].cmd = proc.cmd
           /\ txs[proc.psbt.tx].change = proc.psbt.change
  <1>1. /\ proc.psbt \in Psbts /\ proc.psbt.tx \in Txs /\ proc.on \in Paths
        /\ txs[proc.psbt.tx] = [coin |-> proc.psbt.coin, change |-> proc.psbt.change,
                                on |-> proc.on, cmd |-> proc.cmd]
    BY DEF WroteAhead, OnTrack, TypeOK, Processes
  <1>2. txs[proc.psbt.tx] \in Payments
    BY <1>1 DEF Payments, Psbts
  <1>3. proc.psbt.tx # None
    BY <1>1, CommandLineAssumption DEF Txs
  <1>4. QED
    BY <1>1, <1>2, <1>3, NoneAssumption

\* The consignment is written: before the PSBT in `transfer`, after it in
\* `consign`.
LEMMA SaveFileKeeps ==
    ASSUME WroteAhead, SaveFile
    PROVE  WroteAhead' /\ Grown
  <1>1. /\ Running("save_file") /\ Continue(proc.psbt, proc.stock, proc.wallet)
        /\ consignment' = [consignment EXCEPT ![proc.on] = proc.psbt.tx]
        /\ UNCHANGED <<eager, forgotten, psbt_file, txs, published, mined, printed, incoming>>
    BY DEF SaveFile, world
  <1>2. /\ <<proc.cmd, proc.pc>> \in Steps["save_file"] /\ proc.pc \in Nat /\ proc # None
        /\ proc.stock \in Stocks /\ proc.stock.fasciae \subseteq {t \in Txs : txs[t] # None}
    BY <1>1, CommandHolds DEF Steps
  <1>3. /\ proc.on \in Paths /\ proc.psbt \in Psbts /\ proc.psbt.tx \in Txs
        /\ txs[proc.psbt.tx].cmd = proc.cmd
    BY <1>2, CommittedPsbt DEF Steps
  <1>4. /\ consignment' \in [Paths -> Txs \cup {None}] /\ consignment'[proc.on] = proc.psbt.tx
        /\ \A f \in Paths : f # proc.on => consignment'[f] = consignment[f]
    BY <1>1, <1>3 DEF WroteAhead, TypeOK
  <1>5. /\ proc' = [cmd |-> proc.cmd, on |-> proc.on, flag |-> proc.flag, pc |-> proc.pc + 1,
                    psbt |-> proc.psbt, stock |-> proc.stock, wallet |-> proc.wallet]
        /\ TypeOK' /\ Loaded' /\ RecordsKept' /\ Grown
    BY <1>1, <1>2, <1>3, <1>4, StepKeeps DEF Steps, WroteAhead, TypeOK
  <1>6. FilesCurrent'
    <2>1. CASE proc.cmd = "transfer"
      <3>1. ~ Signable(psbt_file[proc.on])
        BY <1>2, <2>1 DEF Steps, WroteAhead, OnTrack
      <3>2. QED
        BY <1>1, <1>4, <3>1 DEF WroteAhead, FilesCurrent, ConsignedFirst, Signable
    <2>2. CASE proc.cmd = "consign"
      <3>1. psbt_file[proc.on] = proc.psbt
        BY <1>2, <2>2 DEF Steps, WroteAhead, OnTrack
      <3>2. QED
        BY <1>1, <1>3, <1>4, <2>2, <3>1 DEF WroteAhead, FilesCurrent, ConsignedFirst, Signable
    <2>3. QED
      BY <1>2, <2>1, <2>2 DEF Steps
  <1>7. OnTrack'
    BY <1>1, <1>2, <1>3, <1>4, <1>5 DEF Steps, WroteAhead, OnTrack, Signable
  <1>8. QED
    BY <1>5, <1>6, <1>7 DEF WroteAhead

\* The PSBT file is truncated, which was not ready for signing.
LEMMA CreateKeeps ==
    ASSUME WroteAhead, NEW named \in BOOLEAN, Create(named)
    PROVE  WroteAhead' /\ Grown
  <1>1. /\ Running("create") /\ Continue(proc.psbt, proc.stock, proc.wallet)
        /\ psbt_file' = IF named THEN [psbt_file EXCEPT ![proc.on] = None] ELSE psbt_file
        /\ UNCHANGED <<eager, forgotten, consignment, txs, published, mined, printed, incoming>>
    BY DEF Create, world
  <1>2. /\ <<proc.cmd, proc.pc>> \in Steps["create"] /\ proc.pc \in Nat /\ proc # None
        /\ proc.stock \in Stocks /\ proc.stock.fasciae \subseteq {t \in Txs : txs[t] # None}
    BY <1>1, CommandHolds DEF Steps
  <1>3. proc.on \in Paths /\ proc.psbt \in Psbts /\ ~ Signable(psbt_file[proc.on])
    BY <1>2 DEF Steps, WroteAhead, OnTrack
  <1>4. /\ psbt_file' \in [Paths -> Psbts \cup {None}] /\ ~ Signable(psbt_file'[proc.on])
        /\ \A f \in Paths : f # proc.on => psbt_file'[f] = psbt_file[f]
    BY <1>1, <1>3 DEF WroteAhead, TypeOK, Signable
  <1>5. /\ proc' = [cmd |-> proc.cmd, on |-> proc.on, flag |-> proc.flag, pc |-> proc.pc + 1,
                    psbt |-> proc.psbt, stock |-> proc.stock, wallet |-> proc.wallet]
        /\ TypeOK' /\ Loaded' /\ RecordsKept' /\ Grown
    BY <1>1, <1>2, <1>3, <1>4, StepKeeps DEF Steps, WroteAhead, TypeOK
  <1>6. FilesCurrent'
    <2>1. \A t \in published : txs[t].on \in Paths /\ txs[t].on # proc.on
      BY <1>3, NoneAssumption DEF WroteAhead, TypeOK, FilesCurrent, Payments
    <2>2. QED
      BY <1>1, <1>3, <1>4, <2>1 DEF WroteAhead, FilesCurrent, ConsignedFirst, Signable
  <1>7. OnTrack'
    BY <1>1, <1>2, <1>3, <1>4, <1>5 DEF Steps, WroteAhead, OnTrack, Signable
  <1>8. QED
    BY <1>5, <1>6, <1>7 DEF WroteAhead

\* The PSBT is written; a committed one is on record by then.
LEMMA EncodeKeeps ==
    ASSUME WroteAhead, Encode
    PROVE  WroteAhead' /\ Grown
  <1>1. /\ Running("encode") /\ Continue(proc.psbt, proc.stock, proc.wallet)
        /\ psbt_file' = [psbt_file EXCEPT ![proc.on] = proc.psbt]
        /\ published' = IF proc.psbt.tx = None THEN published ELSE published \cup {proc.psbt.tx}
        /\ UNCHANGED <<eager, forgotten, consignment, txs, mined, printed, incoming>>
    BY DEF Encode
  <1>2. /\ <<proc.cmd, proc.pc>> \in Steps["encode"] /\ proc.pc \in Nat /\ proc # None
        /\ proc.stock \in Stocks /\ proc.stock.fasciae \subseteq {t \in Txs : txs[t] # None}
    BY <1>1, CommandHolds DEF Steps
  <1>3. proc.on \in Paths /\ proc.psbt \in Psbts /\ ~ Signable(psbt_file[proc.on])
    BY <1>2 DEF Steps, WroteAhead, OnTrack
  <1>4. /\ psbt_file' \in [Paths -> Psbts \cup {None}] /\ psbt_file'[proc.on] = proc.psbt
        /\ \A f \in Paths : f # proc.on => psbt_file'[f] = psbt_file[f]
    BY <1>1, <1>3 DEF WroteAhead, TypeOK
  <1>5. proc.psbt.tx # None =>
            /\ proc.cmd \in {"consign", "transfer"} /\ proc.pc > 5
            /\ proc.psbt.tx \in Txs /\ txs[proc.psbt.tx] # None
            /\ txs[proc.psbt.tx].on = proc.on /\ txs[proc.psbt.tx].cmd = proc.cmd
            /\ proc.psbt.tx \in proc.stock.fasciae
            /\ txs[proc.psbt.tx].change => proc.psbt.tx \in proc.wallet.tweaks
            /\ proc.cmd = "transfer" => consignment[proc.on] = proc.psbt.tx
    <2> SUFFICES ASSUME proc.psbt.tx # None
                 PROVE  /\ proc.cmd \in {"consign", "transfer"} /\ proc.pc > 5
                        /\ proc.psbt.tx \in Txs /\ txs[proc.psbt.tx] # None
                        /\ txs[proc.psbt.tx].on = proc.on /\ txs[proc.psbt.tx].cmd = proc.cmd
                        /\ proc.psbt.tx \in proc.stock.fasciae
                        /\ txs[proc.psbt.tx].change => proc.psbt.tx \in proc.wallet.tweaks
                        /\ proc.cmd = "transfer" => consignment[proc.on] = proc.psbt.tx
      OBVIOUS
    <2>1. proc.cmd \in {"consign", "transfer"} /\ proc.pc > 5 /\ (proc.cmd = "transfer" => proc.pc = 7)
      BY <1>2 DEF Steps, WroteAhead, OnTrack
    <2>2. QED
      BY <1>2, <2>1, CommittedPsbt DEF WroteAhead, OnTrack
  <1>6. published \subseteq published' /\ published' \subseteq {t \in Txs : txs[t] # None}
    BY <1>1, <1>5 DEF WroteAhead, TypeOK
  <1>7. /\ proc' = [cmd |-> proc.cmd, on |-> proc.on, flag |-> proc.flag, pc |-> proc.pc + 1,
                    psbt |-> proc.psbt, stock |-> proc.stock, wallet |-> proc.wallet]
        /\ Loaded' /\ Grown /\ LiveStock' = proc.stock /\ LiveWallet' = proc.wallet
    BY <1>1, <1>2, <1>3, StepKeeps DEF Steps
  <1>8. TypeOK'
    <2>1. printed' \subseteq Coins /\ consignment' \in [Paths -> Txs \cup {None}]
      BY <1>1 DEF WroteAhead, TypeOK
    <2>2. QED
      BY <1>1, <1>2, <1>3, <1>4, <1>6, <2>1, StepKeeps DEF Steps
  <1>9. RecordsKept'
    <2>1. LiveStock = proc.stock /\ LiveWallet = proc.wallet
      BY <1>2 DEF LiveStock, LiveWallet
    <2>2. QED
      BY <1>1, <1>5, <1>7, <2>1 DEF WroteAhead, RecordsKept
  <1>10. FilesCurrent'
    <2>1. \A t \in published : txs[t].on \in Paths /\ txs[t].on # proc.on
      BY <1>3, NoneAssumption DEF WroteAhead, TypeOK, FilesCurrent, Payments
    <2>2. \A f \in Paths : Signable(psbt_file'[f]) => txs[psbt_file'[f].tx] # None
      BY <1>1, <1>3, <1>4, <1>5 DEF WroteAhead, FilesCurrent, Signable
    <2>3. \A t \in published' : Signable(psbt_file'[txs[t].on]) /\ psbt_file'[txs[t].on].tx = t
      BY <1>1, <1>3, <1>4, <1>5, <2>1, NoneAssumption DEF WroteAhead, FilesCurrent, Signable
    <2>4. ConsignedFirst'
      BY <1>1, <1>3, <1>4, <1>5 DEF WroteAhead, FilesCurrent, ConsignedFirst, Signable
    <2>5. QED
      BY <1>1, <2>2, <2>3, <2>4 DEF FilesCurrent, Signable
  <1>11. OnTrack'
    BY <1>1, <1>2, <1>3, <1>4, <1>7 DEF Steps, WroteAhead, OnTrack, Signable
  <1>12. QED
    BY <1>7, <1>8, <1>9, <1>10, <1>11 DEF WroteAhead

\* The seal of a blinded invoice goes to the stock.
LEMMA StoreSecretSealKeeps ==
    ASSUME WroteAhead, NEW coin \in Coins, StoreSecretSeal(coin)
    PROVE  WroteAhead' /\ Grown
  <1> DEFINE stock == [proc.stock EXCEPT !.seals = IF proc.flag THEN @ ELSE @ \cup {coin}]
  <1>1. /\ Running("store_secret_seal")
        /\ stock_file' = IF eager THEN proc'.stock ELSE stock_file
        /\ UNCHANGED <<eager, forgotten, stock_disk, wallet_file, psbt_file, consignment, txs,
                       published, mined, printed, incoming>>
    BY DEF StoreSecretSeal, world
  <1>2. /\ <<proc.cmd, proc.pc>> \in Steps["store_secret_seal"] /\ proc \in Processes
        /\ proc # None /\ proc.pc + 1 \in 1 .. Len(Program[proc.cmd]) + 1
    BY <1>1, RunningAt DEF Steps, WroteAhead
  <1>3. /\ stock \in Stocks /\ stock.fasciae = proc.stock.fasciae
        /\ proc.stock.seals \subseteq stock.seals /\ (~ proc.flag => coin \in stock.seals)
    BY <1>2 DEF Processes, Stocks
  <1>4. proc' = [cmd |-> proc.cmd, on |-> coin, flag |-> proc.flag, pc |-> proc.pc + 1,
                 psbt |-> proc.psbt, stock |-> stock, wallet |-> proc.wallet]
    BY <1>2 DEF StoreSecretSeal, Processes, Stocks
  <1> HIDE DEF stock
  <1>5. /\ proc' \in Processes /\ proc' # None
        /\ proc'.stock = stock /\ proc'.wallet = proc.wallet
        /\ stock_file' \in Stocks
    <2>1. proc' \in Processes
      BY <1>2, <1>3, <1>4 DEF Processes
    <2>2. QED
      BY <1>1, <1>3, <1>4, <2>1, NoneAssumption DEF WroteAhead, TypeOK
  <1>6. TypeOK'
    <2>1. proc'.pc \in 1 .. Len(Program[proc'.cmd]) + 1
      BY <1>2, <1>4
    <2>2. QED
      BY <1>1, <1>5, <2>1 DEF WroteAhead, TypeOK, HandedOut
  <1>7. Loaded'
    BY <1>1, <1>2, <1>3, <1>4, <1>5 DEF WroteAhead, Loaded
  <1>8. /\ LiveStock' = stock /\ LiveWallet' = proc.wallet
        /\ LiveStock = proc.stock /\ LiveWallet = proc.wallet
    <2>1. LiveStock' = stock /\ LiveWallet' = proc.wallet
      BY <1>5 DEF LiveStock, LiveWallet
    <2>2. QED
      BY <1>2, <2>1 DEF LiveStock, LiveWallet
  <1>9. Grown /\ RecordsKept'
    BY <1>1, <1>3, <1>8, RecordsGrow DEF WroteAhead, RecordsKept, Grown
  <1>10. FilesCurrent'
    BY <1>1, FilesKept DEF WroteAhead
  <1>11. OnTrack'
    BY <1>2, <1>3, <1>4 DEF Steps, OnTrack
  <1>12. QED
    BY <1>6, <1>7, <1>9, <1>10, <1>11 DEF WroteAhead

\* The invoice is printed once its seal is on record.
LEMMA PrintInvoiceKeeps ==
    ASSUME WroteAhead, PrintInvoice
    PROVE  WroteAhead' /\ Grown
  <1>1. /\ Running("print") /\ Continue(proc.psbt, proc.stock, proc.wallet)
        /\ printed' = IF proc.flag THEN printed ELSE printed \cup {proc.on}
        /\ UNCHANGED <<eager, forgotten, psbt_file, consignment, txs, published, mined, incoming>>
    BY DEF PrintInvoice
  <1>2. /\ <<proc.cmd, proc.pc>> \in Steps["print"] /\ proc.pc \in Nat /\ proc # None
        /\ proc.stock \in Stocks /\ proc.stock.fasciae \subseteq {t \in Txs : txs[t] # None}
    BY <1>1, CommandHolds DEF Steps
  <1>3. proc.psbt \in Psbts \cup [coin : Coins] \cup {None}
    BY <1>2 DEF WroteAhead, TypeOK, Processes
  <1>4. printed \subseteq printed' /\ \A c \in printed' \ printed : c \in proc.stock.seals
    BY <1>1, <1>2 DEF WroteAhead, OnTrack, Steps
  <1>5. printed' \subseteq Coins
    BY <1>2, <1>4 DEF Stocks, WroteAhead, TypeOK
  <1>6. /\ proc' = [cmd |-> proc.cmd, on |-> proc.on, flag |-> proc.flag, pc |-> proc.pc + 1,
                    psbt |-> proc.psbt, stock |-> proc.stock, wallet |-> proc.wallet]
        /\ Loaded' /\ FilesCurrent' /\ Grown
        /\ LiveStock' = proc.stock /\ LiveWallet' = proc.wallet
    BY <1>1, <1>2, <1>3, StepKeeps DEF Steps
  <1>7. TypeOK'
    BY <1>1, <1>2, <1>3, <1>5, StepKeeps DEF Steps, WroteAhead, TypeOK
  <1>8. RecordsKept'
    BY <1>1, <1>2, <1>4, <1>6 DEF WroteAhead, RecordsKept, LiveStock, LiveWallet
  <1>9. OnTrack'
    BY <1>2, <1>6 DEF Steps, OnTrack
  <1>10. QED
    BY <1>6, <1>7, <1>8, <1>9 DEF WroteAhead

\* The contract goes to the stock.
LEMMA ImportContractKeeps ==
    ASSUME WroteAhead, ImportContract
    PROVE  WroteAhead' /\ Grown
  <1> DEFINE stock == [proc.stock EXCEPT !.contract = TRUE]
  <1>1. /\ Running("import_contract") /\ Continue(proc.psbt, stock, proc.wallet)
        /\ UNCHANGED <<eager, forgotten, psbt_file, consignment, txs, published, mined, printed, incoming>>
    BY DEF ImportContract, world
  <1>2. /\ <<proc.cmd, proc.pc>> \in Steps["import_contract"] /\ proc.pc \in Nat /\ proc # None
        /\ proc.stock \in Stocks /\ proc.stock.fasciae \subseteq {t \in Txs : txs[t] # None}
    BY <1>1, CommandHolds DEF Steps
  <1>3. /\ stock \in Stocks /\ stock.fasciae = proc.stock.fasciae
        /\ stock.seals = proc.stock.seals
        /\ proc.psbt \in Psbts \cup [coin : Coins] \cup {None}
    BY <1>2 DEF Stocks, WroteAhead, TypeOK, Processes
  <1> HIDE DEF stock
  <1>4. /\ proc' = [cmd |-> proc.cmd, on |-> proc.on, flag |-> proc.flag, pc |-> proc.pc + 1,
                    psbt |-> proc.psbt, stock |-> stock, wallet |-> proc.wallet]
        /\ TypeOK' /\ Loaded' /\ RecordsKept' /\ FilesCurrent' /\ Grown
    BY <1>1, <1>2, <1>3, StepKeeps DEF Steps, WroteAhead, TypeOK
  <1>5. OnTrack'
    BY <1>2, <1>4 DEF Steps, OnTrack
  <1>6. QED
    BY <1>4, <1>5 DEF WroteAhead

\* The transfer and its contract go to the stock.
LEMMA AcceptTransferKeeps ==
    ASSUME WroteAhead, NEW coin \in Coins, AcceptTransfer(coin)
    PROVE  WroteAhead' /\ Grown
  <1> DEFINE stock == [proc.stock EXCEPT !.contract = TRUE, !.accepted = @ \cup {coin}]
             psbt == [coin |-> coin]
  <1>1. /\ Running("accept_transfer") /\ Continue(psbt, stock, proc.wallet)
        /\ UNCHANGED <<eager, forgotten, psbt_file, consignment, txs, published, mined, printed, incoming>>
    BY DEF AcceptTransfer, world
  <1>2. /\ <<proc.cmd, proc.pc>> \in Steps["accept_transfer"] /\ proc.pc \in Nat /\ proc # None
        /\ proc.stock \in Stocks /\ proc.stock.fasciae \subseteq {t \in Txs : txs[t] # None}
    BY <1>1, CommandHolds DEF Steps
  <1>3. /\ stock \in Stocks /\ stock.fasciae = proc.stock.fasciae
        /\ stock.seals = proc.stock.seals
        /\ psbt \in Psbts \cup [coin : Coins] \cup {None}
    BY <1>2 DEF Stocks
  <1> HIDE DEF stock, psbt
  <1>4. /\ proc' = [cmd |-> proc.cmd, on |-> proc.on, flag |-> proc.flag, pc |-> proc.pc + 1,
                    psbt |-> psbt, stock |-> stock, wallet |-> proc.wallet]
        /\ TypeOK' /\ Loaded' /\ RecordsKept' /\ FilesCurrent' /\ Grown
    BY <1>1, <1>2, <1>3, StepKeeps DEF Steps, WroteAhead, TypeOK
  <1>5. OnTrack'
    BY <1>2, <1>4 DEF Steps, OnTrack
  <1>6. QED
    BY <1>4, <1>5 DEF WroteAhead

\* At most a consignment is torn that no signable PSBT is about.
LEMMA TearKeeps ==
    ASSUME WroteAhead, proc # None, MayTear, UNCHANGED <<psbt_file, txs, published>>
    PROVE  FilesCurrent' /\ consignment' \in [Paths -> Txs \cup {None}]
  <1>1. CASE UNCHANGED consignment
    BY <1>1, FilesKept DEF WroteAhead, TypeOK
  <1>2. CASE Running("save_file") /\ consignment' = [consignment EXCEPT ![proc.on] = None]
    <2>1. <<proc.cmd, proc.pc>> \in Steps["save_file"]
      BY <1>2, RunningAt DEF Steps, WroteAhead
    <2>2. proc.on \in Paths
      BY <2>1 DEF Steps, WroteAhead, OnTrack
    <2>3. \A f \in Paths : f # proc.on => consignment'[f] = consignment[f]
      BY <1>2 DEF WroteAhead, TypeOK
    <2>4. Signable(psbt_file[proc.on]) => txs[psbt_file[proc.on].tx].cmd = "consign"
      BY <2>1, CommittedPsbt DEF Steps, WroteAhead, OnTrack
    <2>5. FilesCurrent'
      BY <2>2, <2>3, <2>4 DEF WroteAhead, FilesCurrent, ConsignedFirst, Signable
    <2>6. QED
      BY <1>2, <2>2, <2>5 DEF WroteAhead, TypeOK
  <1>3. QED
    BY <1>1, <1>2 DEF MayTear

\* A process that ends, also when it fails, leaves on disk what it held.
LEMMA EndKeeps ==
    ASSUME WroteAhead, Exit \/ Fail
    PROVE  WroteAhead' /\ Grown
  <1>1. /\ proc # None /\ proc' = None /\ MayTear
        /\ stock_file' = proc.stock /\ wallet_file' = proc.wallet
        /\ UNCHANGED <<eager, forgotten, stock_disk, psbt_file, txs, published, mined,
                       printed, incoming>>
    BY DEF Exit, Fail, Drop, MayTear, world
  <1>2. stock_file' \in Stocks /\ wallet_file' \in Wallets
    BY <1>1 DEF WroteAhead, TypeOK, Processes
  <1>3. FilesCurrent' /\ consignment' \in [Paths -> Txs \cup {None}]
    BY <1>1, TearKeeps
  <1>4. TypeOK'
    BY <1>1, <1>2, <1>3 DEF WroteAhead, TypeOK, HandedOut
  <1>5. Loaded'
    BY <1>1 DEF WroteAhead, Loaded
  <1>6. LiveStock' = LiveStock /\ LiveWallet' = LiveWallet
    BY <1>1 DEF LiveStock, LiveWallet
  <1>7. Grown /\ RecordsKept'
    BY <1>1, <1>6, RecordsGrow DEF WroteAhead, RecordsKept, Grown
  <1>8. OnTrack'
    BY <1>1 DEF OnTrack
  <1>9. QED
    BY <1>3, <1>4, <1>5, <1>7, <1>8 DEF WroteAhead

\* A stock and a wallet that hold more have more on record.
LEMMA RecordsMonotone ==
    ASSUME NEW stock, NEW wallet, NEW stock2, NEW wallet2,
           stock.fasciae \subseteq stock2.fasciae, stock.seals \subseteq stock2.seals,
           wallet.tweaks \subseteq wallet2.tweaks
    PROVE  Records(stock, wallet) \subseteq Records(stock2, wallet2)
  BY DEF Records

\* A kill leaves at least what was on disk on record, at most what was held,
\* and remembers what was handed out and is not on record any more.
LEMMA KillLoses ==
    ASSUME WroteAhead, Crash
    PROVE  /\ Held' = OnDisk' /\ OnDisk \subseteq OnDisk' /\ OnDisk' \subseteq Held
           /\ forgotten' = forgotten \cup (HandedOut \cap (Held \ Held'))
           /\ UNCHANGED HandedOut /\ (eager => Held \subseteq Held')
  <1>1. /\ proc # None /\ proc' = None /\ stock_file' \in {stock_file, proc.stock}
        /\ UNCHANGED <<eager, wallet_file, txs, published, printed>>
        /\ forgotten' = forgotten \cup (HandedOut \cap (Held \ OnDisk'))
    BY DEF Crash, world
  <1>2. Held' = OnDisk' /\ OnDisk' = Records(stock_file', wallet_file)
    BY <1>1 DEF Held, OnDisk, LiveStock, LiveWallet, Records
  <1>3. Held = Records(proc.stock, proc.wallet) /\ OnDisk = Records(stock_file, wallet_file)
    BY <1>1 DEF Held, OnDisk, LiveStock, LiveWallet
  <1>4. /\ stock_file.fasciae \subseteq stock_file'.fasciae
        /\ stock_file'.fasciae \subseteq proc.stock.fasciae
        /\ stock_file.seals \subseteq stock_file'.seals
        /\ stock_file'.seals \subseteq proc.stock.seals
        /\ wallet_file.tweaks \subseteq proc.wallet.tweaks
    BY <1>1 DEF WroteAhead, Loaded
  <1>5. OnDisk \subseteq OnDisk'
    BY <1>2, <1>3, <1>4, RecordsMonotone
  <1>6. OnDisk' \subseteq Held
    BY <1>2, <1>3, <1>4, RecordsMonotone
  <1>7. eager => Held = OnDisk
    BY <1>1, <1>3 DEF WroteAhead, Loaded
  <1>8. QED
    BY <1>1, <1>2, <1>5, <1>6, <1>7 DEF HandedOut

\* A killed process leaves the files as they are, or with its stock.
LEMMA CrashKeeps ==
    ASSUME WroteAhead, Crash
    PROVE  WroteAhead'
  <1>1. /\ proc # None /\ proc' = None /\ stock_file' \in {stock_file, proc.stock} /\ MayTear
        /\ UNCHANGED <<eager, stock_disk, wallet_file, psbt_file, txs, published, mined,
                       printed, incoming>>
    BY DEF Crash, world
  <1>2. stock_file' \in Stocks
    BY <1>1 DEF WroteAhead, TypeOK, Processes
  <1>3. FilesCurrent' /\ consignment' \in [Paths -> Txs \cup {None}]
    BY <1>1, TearKeeps
  <1>4. TypeOK'
    <2>1. forgotten' \subseteq HandedOut' /\ (eager' => forgotten' = {})
      BY <1>1, KillLoses DEF WroteAhead, TypeOK
    <2>2. QED
      BY <1>1, <1>2, <1>3, <2>1 DEF WroteAhead, TypeOK
  <1>5. Loaded'
    BY <1>1 DEF WroteAhead, Loaded
  <1>6. RecordsKept'
    <2>1. LiveStock' = stock_file' /\ LiveWallet' = wallet_file
      BY <1>1 DEF LiveStock, LiveWallet
    <2>2. stock_file'.fasciae \subseteq {t \in Txs : txs[t] # None}
      BY <1>1 DEF WroteAhead, RecordsKept, Loaded, LiveStock
    <2>3. ASSUME NEW t \in published, <<"tx", t>> \notin forgotten'
          PROVE  t \in stock_file'.fasciae /\ (txs[t].change => t \in wallet_file.tweaks)
      <3>1. <<"tx", t>> \in Held /\ <<"tx", t>> \in HandedOut
        BY <2>3, KillLoses DEF WroteAhead, RecordsKept, Held, Records, HandedOut
      <3>2. <<"tx", t>> \in OnDisk'
        BY <2>3, <3>1, KillLoses
      <3>3. QED
        BY <1>1, <3>2 DEF OnDisk, Records
    <2>4. ASSUME NEW c \in printed, <<"seal", c>> \notin forgotten'
          PROVE  c \in stock_file'.seals
      <3>1. <<"seal", c>> \in Held /\ <<"seal", c>> \in HandedOut
        BY <2>4, KillLoses DEF WroteAhead, RecordsKept, Held, Records, HandedOut
      <3>2. <<"seal", c>> \in OnDisk'
        BY <2>4, <3>1, KillLoses
      <3>3. QED
        BY <1>1, <3>2 DEF OnDisk, Records
    <2>5. QED
      BY <1>1, <2>1, <2>2, <2>3, <2>4 DEF RecordsKept
  <1>7. OnTrack'
    BY <1>1 DEF OnTrack
  <1>8. QED
    BY <1>3, <1>4, <1>5, <1>6, <1>7 DEF WroteAhead

\* The world outside touches neither records nor files, unless the stock
\* cannot be read for a while.
LEMMA OutsideKeeps ==
    ASSUME WroteAhead,
           \/ \E t \in Txs : Mine(t)
           \/ \E c \in Coins : Paid(c)
           \/ Damage
           \/ UNCHANGED vars
    PROVE  WroteAhead' /\ Grown
  <1>1. /\ UNCHANGED <<eager, forgotten, stock_file, wallet_file, psbt_file, consignment, txs,
                       published, printed, proc>>
        /\ stock_disk' \in {"absent", "readable", "damaged"}
        /\ stock_disk' = "absent" => stock_disk = "absent"
    BY DEF Mine, Paid, Damage, vars, disk, world, WroteAhead, TypeOK
  <1>2. mined' \subseteq published /\ incoming' \in [Coins -> {"none", "unmined", "mined"}]
    BY DEF Mine, Paid, Damage, vars, disk, world, WroteAhead, TypeOK
  <1>3. TypeOK'
    BY <1>1, <1>2 DEF WroteAhead, TypeOK, HandedOut
  <1>4. Loaded'
    BY <1>1 DEF WroteAhead, Loaded
  <1>5. LiveStock' = LiveStock /\ LiveWallet' = LiveWallet
    BY <1>1 DEF LiveStock, LiveWallet
  <1>6. Grown /\ RecordsKept'
    BY <1>1, <1>5, RecordsGrow DEF WroteAhead, RecordsKept, Grown
  <1>7. FilesCurrent'
    BY <1>1, FilesKept DEF WroteAhead
  <1>8. OnTrack'
    BY <1>1 DEF WroteAhead, OnTrack, Signable
  <1>9. QED
    BY <1>3, <1>4, <1>6, <1>7, <1>8 DEF WroteAhead

\* The inductive step: the records only grow, but for a kill.
LEMMA NextWroteAhead ==
    ASSUME WroteAhead, [Next]_vars
    PROVE  WroteAhead' /\ (Grown \/ Crash)
  <1>1. ASSUME NEW f \in Paths, NEW sync \in BOOLEAN, NEW flag \in BOOLEAN,
               \/ Start("prepare", f, FALSE, sync)
               \/ Start("consign", f, flag, sync)
               \/ Start("transfer", f, FALSE, sync)
               \/ Start("invoice", None, flag, sync)
               \/ Start("query", None, FALSE, sync)
               \/ Start("issue", None, FALSE, FALSE)
               \/ Start("accept", None, flag, FALSE)
        PROVE  WroteAhead' /\ Grown
    <2>1. CASE Start("prepare", f, FALSE, sync)
      BY <2>1, Programs, StartKeeps
    <2>2. CASE Start("consign", f, flag, sync)
      BY <2>2, Programs, StartKeeps
    <2>3. CASE Start("transfer", f, FALSE, sync)
      BY <2>3, Programs, StartKeeps
    <2>4. CASE Start("invoice", None, flag, sync)
      BY <2>4, Programs, StartKeeps
    <2>5. CASE Start("query", None, FALSE, sync)
      BY <2>5, Programs, StartKeeps
    <2>6. CASE Start("issue", None, FALSE, FALSE)
      BY <2>6, Programs, StartKeeps
    <2>7. CASE Start("accept", None, flag, FALSE)
      BY <2>7, Programs, StartKeeps
    <2>8. QED
      BY <1>1, <2>1, <2>2, <2>3, <2>4, <2>5, <2>6, <2>7
  <1>2. CASE \/ \E c \in Coins, ch \in BOOLEAN : Construct(c, ch)
             \/ Decode
             \/ \E t \in Txs : Commit(t)
             \/ Consume \/ Compose \/ SaveFile
             \/ \E n \in BOOLEAN : Create(n)
             \/ Encode
    BY <1>2, ConstructKeeps, DecodeKeeps, CommitKeeps, ConsumeKeeps, ComposeKeeps,
       SaveFileKeeps, CreateKeeps, EncodeKeeps
  <1>3. CASE \/ \E c \in Coins : StoreSecretSeal(c)
             \/ PrintInvoice
             \/ ImportContract
             \/ \E c \in Coins : AcceptTransfer(c)
    BY <1>3, StoreSecretSealKeeps, PrintInvoiceKeeps, ImportContractKeeps, AcceptTransferKeeps
  <1>4. CASE Exit \/ Fail \/ Crash
    BY <1>4, EndKeeps, CrashKeeps
  <1>5. CASE \/ \E t \in Txs : Mine(t)
             \/ \E c \in Coins : Paid(c)
             \/ Damage
             \/ UNCHANGED vars
    BY <1>5, OutsideKeeps
  <1>6. QED
    BY <1>1, <1>2, <1>3, <1>4, <1>5 DEF Next

\* The inductive invariant holds in every reachable state.
LEMMA WroteAheadInvariant == Spec => []WroteAhead
  BY InitWroteAhead, NextWroteAhead, PTL DEF Spec
-----------------------------------------------------------------------------
(* The theorems.                                                           *)

\* Files, transactions and the running command have their types, and a command
\* never runs past the end of its program.
THEOREM TypeCorrect == Spec => []TypeOK
  <1>1. WroteAhead => TypeOK
    BY DEF WroteAhead
  <1>2. QED
    BY <1>1, WroteAheadInvariant, PTL

\* After any commands, failed or killed anywhere, the wallet finds each unspent
\* change of its mined transactions and can spend the state on it, unless the
\* command that wrote the PSBT was killed before a save at the drop.
THEOREM ChangeIsSpendable == Spec => []ChangeSpendable
  <1>1. WroteAhead => ChangeSpendable
    <2> SUFFICES ASSUME WroteAhead, NEW t \in mined, txs[t].change, t \notin Spent,
                        <<"tx", t>> \notin forgotten
                 PROVE  t \in Synced(LiveWallet).utxos \cap StateKnown(LiveStock)
      BY DEF ChangeSpendable
    <2>1. t \in LiveStock.fasciae /\ t \in LiveWallet.tweaks
      BY DEF WroteAhead, TypeOK, RecordsKept
    <2>2. LiveWallet \in Wallets
      BY DEF LiveWallet, WroteAhead, TypeOK, Processes
    <2>3. t \in Synced(LiveWallet).utxos
      BY <2>1, <2>2 DEF Synced, Derivable, Wallets
    <2>4. QED
      BY <2>1, <2>3 DEF StateKnown
  <1>2. QED
    BY <1>1, WroteAheadInvariant, PTL

\* However often `consign` is repeated, one PSBT file gives the signers one
\* transaction.
THEOREM OneTransactionPerPayment == Spec => []OneTxPerPayment
  <1>1. WroteAhead => OneTxPerPayment
    BY DEF WroteAhead, FilesCurrent, OneTxPerPayment
  <1>2. QED
    BY <1>1, WroteAheadInvariant, PTL

\* A PSBT that `transfer` wrote for signing has its consignment next to it.
THEOREM ConsignmentsComeFirst == Spec => []ConsignedFirst
  <1>1. WroteAhead => ConsignedFirst
    BY DEF WroteAhead, FilesCurrent
  <1>2. QED
    BY <1>1, WroteAheadInvariant, PTL

\* Nothing is on record or handed out at first.
LEMMA InitAhead == Init => Ahead!Init
  BY DEF Init, Ahead!Init, Held, OnDisk, Records, HandedOut, LiveStock, NewStock

\* The records are about transactions and coins there can be.
LEMMA HeldItems ==
    ASSUME WroteAhead
    PROVE  Held \subseteq {"tx", "seal"} \X Coins
  <1>1. LiveStock \in Stocks
    BY DEF LiveStock, WroteAhead, TypeOK, Processes
  <1>2. QED
    BY <1>1 DEF Held, Records, Stocks, Coins

\* A transaction that is in a stock keeps its spent coin and its change, as a
\* commit makes a new one.
LEMMA MadeOnce ==
    ASSUME WroteAhead, [Next]_vars
    PROVE  \A t \in LiveStock.fasciae \cup stock_file.fasciae : txs'[t] = txs[t]
  <1>1. CASE UNCHANGED txs
    BY <1>1
  <1>2. ASSUME NEW t \in Txs, Commit(t)
        PROVE  \A u \in LiveStock.fasciae \cup stock_file.fasciae : txs'[u] = txs[u]
    <2>1. stock_file.fasciae \subseteq LiveStock.fasciae
      BY DEF LiveStock, WroteAhead, Loaded
    <2>2. QED
      BY <1>2, <2>1 DEF Commit, WroteAhead, TypeOK, RecordsKept
  <1>3. QED
    BY <1>1, <1>2 DEF Next, vars, disk, world, Start, Construct, Decode, Consume, Compose,
       SaveFile, Create, Encode, StoreSecretSeal, PrintInvoice, ImportContract,
       AcceptTransfer, Exit, Fail, Crash, Mine, Paid, Damage

\* Only a kill takes anything off the records.
LEMMA HeldGrows ==
    ASSUME WroteAhead, [Next]_vars, ~ Crash
    PROVE  Held \subseteq Held'
  <1>1. Grown
    BY NextWroteAhead
  <1>2. ASSUME NEW t \in LiveStock.fasciae, txs[t].change => t \in LiveWallet.tweaks
        PROVE  t \in LiveStock'.fasciae /\ (txs'[t].change => t \in LiveWallet'.tweaks)
    BY <1>1, <1>2, MadeOnce DEF Grown
  <1>3. LiveStock.seals \subseteq LiveStock'.seals
    BY <1>1 DEF Grown
  <1>4. QED
    BY <1>2, <1>3 DEF Held, Records

\* The items on disk stay the same, if they are not saved at each change and no
\* process ends.
LEMMA DiskKept ==
    ASSUME WroteAhead, [Next]_vars, ~ eager, ~ Exit, ~ Fail, ~ Crash
    PROVE  UNCHANGED OnDisk
  <1>1. /\ stock_file' = stock_file
        /\ wallet_file'.tweaks = wallet_file.tweaks
    <2>1. ASSUME NEW cmd, NEW on, NEW flag, NEW sync, Start(cmd, on, flag, sync)
          PROVE  stock_file' = stock_file /\ wallet_file'.tweaks = wallet_file.tweaks
      <3>1. load_stock = stock_file
        BY <2>1 DEF Start, load_stock, WroteAhead, Loaded, TypeOK
      <3>2. Synced(wallet_file).tweaks = wallet_file.tweaks
        BY DEF Synced, WroteAhead, TypeOK, Wallets
      <3>3. QED
        BY <2>1, <3>1, <3>2 DEF Start
    <2>2. QED
      BY <2>1 DEF Next, vars, disk, Continue, Construct, Decode, Commit, Consume, Compose,
         SaveFile, Create, Encode, StoreSecretSeal, PrintInvoice, ImportContract,
         AcceptTransfer, Mine, Paid, Damage
  <1>2. \A t \in stock_file.fasciae : txs'[t] = txs[t]
    BY MadeOnce
  <1>3. QED
    BY <1>1, <1>2 DEF OnDisk, Records

\* With eager saves the disk has what is held.
LEMMA EagerOnDisk ==
    ASSUME WroteAhead, eager
    PROVE  OnDisk = Held
  BY DEF WroteAhead, Loaded, OnDisk, Held, LiveStock, LiveWallet

\* A process that ends leaves what it held on disk.
LEMMA EndSaves ==
    ASSUME WroteAhead, Exit \/ Fail
    PROVE  OnDisk' = Held /\ UNCHANGED Held
  <1>1. /\ proc # None /\ proc' = None /\ stock_file' = proc.stock
        /\ wallet_file' = proc.wallet /\ UNCHANGED txs
    BY DEF Exit, Fail, Drop
  <1>2. QED
    BY <1>1 DEF OnDisk, Held, LiveStock, LiveWallet, Records

\* Only the writing of a committed PSBT and the printing of a blinded invoice
\* hand something out, and it is on record by then.
LEMMA HandsOutRecorded ==
    ASSUME WroteAhead, [Next]_vars
    PROVE  \/ UNCHANGED HandedOut
           \/ /\ UNCHANGED <<Held, OnDisk>>
              /\ \E i \in Held : HandedOut' = HandedOut \cup {i}
  <1>1. CASE UNCHANGED <<published, printed>>
    BY <1>1 DEF HandedOut
  <1>2. CASE Encode
    <2>1. /\ Running("encode") /\ Continue(proc.psbt, proc.stock, proc.wallet)
          /\ published' = IF proc.psbt.tx = None THEN published ELSE published \cup {proc.psbt.tx}
          /\ UNCHANGED <<eager, forgotten, forgotten, txs, mined, printed, incoming>>
      BY <1>2 DEF Encode
    <2>2. CASE proc.psbt.tx = None
      BY <2>1, <2>2 DEF HandedOut
    <2>3. CASE proc.psbt.tx # None
      <3>1. /\ <<proc.cmd, proc.pc>> \in Steps["encode"] /\ proc # None /\ proc.pc \in Nat
            /\ proc.stock \in Stocks /\ proc.wallet \in Wallets
            /\ LiveStock = proc.stock /\ LiveWallet = proc.wallet
        BY <2>1, CommandHolds DEF Steps
      <3>2. proc.cmd \in {"consign", "transfer"} /\ proc.pc > 5
        BY <2>3, <3>1 DEF Steps, WroteAhead, OnTrack
      <3>3. <<"tx", proc.psbt.tx>> \in Held
        BY <3>1, <3>2, CommittedPsbt DEF WroteAhead, OnTrack, Held, Records
      <3>4. LiveStock' = LiveStock /\ LiveWallet' = LiveWallet
        BY <2>1, <3>1, <3>2, CommittedPsbt, Continues DEF Steps, WroteAhead
      <3>5. Held' = Held /\ OnDisk' = OnDisk
        BY <2>1, <3>1, <3>4 DEF Held, OnDisk, Records, Continue, WroteAhead, Loaded
      <3>6. HandedOut' = HandedOut \cup {<<"tx", proc.psbt.tx>>}
        BY <2>1, <2>3 DEF HandedOut
      <3>7. QED
        BY <3>3, <3>5, <3>6
    <2>4. QED
      BY <2>2, <2>3
  <1>3. CASE PrintInvoice
    <2>1. /\ Running("print") /\ Continue(proc.psbt, proc.stock, proc.wallet)
          /\ printed' = IF proc.flag THEN printed ELSE printed \cup {proc.on}
          /\ UNCHANGED <<eager, forgotten, forgotten, txs, published, mined, incoming>>
      BY <1>3 DEF PrintInvoice
    <2>2. CASE proc.flag
      BY <2>1, <2>2 DEF HandedOut
    <2>3. CASE ~ proc.flag
      <3>1. /\ <<proc.cmd, proc.pc>> \in Steps["print"] /\ proc # None
            /\ proc.stock \in Stocks /\ proc.wallet \in Wallets
            /\ LiveStock = proc.stock /\ LiveWallet = proc.wallet
        BY <2>1, CommandHolds DEF Steps
      <3>2. proc.psbt \in Psbts \cup [coin : Coins] \cup {None}
        BY <3>1 DEF WroteAhead, TypeOK, Processes
      <3>3. <<"seal", proc.on>> \in Held
        BY <2>3, <3>1 DEF Steps, WroteAhead, OnTrack, Held, Records
      <3>4. LiveStock' = LiveStock /\ LiveWallet' = LiveWallet
        BY <2>1, <3>1, <3>2, Continues DEF Steps, WroteAhead
      <3>5. Held' = Held /\ OnDisk' = OnDisk
        BY <2>1, <3>1, <3>4 DEF Held, OnDisk, Records, Continue, WroteAhead, Loaded
      <3>6. HandedOut' = HandedOut \cup {<<"seal", proc.on>>}
        BY <2>1, <2>3 DEF HandedOut
      <3>7. QED
        BY <3>3, <3>5, <3>6
    <2>4. QED
      BY <2>2, <2>3
  <1>4. QED
    BY <1>1, <1>2, <1>3 DEF Next, vars, disk, world, Start, Construct, Decode, Commit, Consume,
       Compose, SaveFile, Create, StoreSecretSeal, ImportContract, AcceptTransfer,
       Exit, Fail, Crash, Mine, Paid, Damage

\* Only a kill makes the wallet forget what was handed out.
LEMMA Remembers ==
    ASSUME [Next]_vars, ~ Crash
    PROVE  UNCHANGED <<eager, forgotten>>
  BY DEF Next, vars, disk, Start, Construct, Decode, Commit, Consume, Compose, SaveFile, Create,
     Encode, StoreSecretSeal, PrintInvoice, ImportContract, AcceptTransfer, Exit, Fail, Mine,
     Paid, Damage

\* The command-line tool implements WriteAhead: what it hands out is on record
\* by then, with eager saves on disk; what is on disk stays there, whichever
\* commands fail or are killed later; and with saves at the drop a kill loses
\* only what was not on disk yet.
THEOREM RefinesWriteAhead == Spec => RecordedFirst
  <1>1. WroteAhead /\ WroteAhead' /\ [Next]_vars => [Ahead!Next]_(Ahead!vars)
    <2> SUFFICES ASSUME WroteAhead, WroteAhead', [Next]_vars
                 PROVE  [Ahead!Next]_(Ahead!vars)
      OBVIOUS
    <2>1. CASE Crash
      <3>1. UNCHANGED eager
        BY <2>1 DEF Crash
      <3>2. Ahead!Kill
        BY <2>1, <3>1, KillLoses DEF Ahead!Kill
      <3>3. QED
        BY <3>2 DEF Ahead!Next
    <2>2. CASE Exit \/ Fail
      <3>1. UNCHANGED <<eager, HandedOut, forgotten>>
        BY <2>2 DEF Exit, Fail, world, HandedOut
      <3>2. Ahead!Save
        BY <2>2, <3>1, EndSaves DEF Ahead!Save
      <3>3. QED
        BY <3>2 DEF Ahead!Next
    <2>3. CASE ~ Crash /\ ~ Exit /\ ~ Fail /\ UNCHANGED HandedOut
      <3>1. Held \subseteq Held' /\ Held' \in SUBSET ({"tx", "seal"} \X Coins)
        <4>1. (Held \subseteq {"tx", "seal"} \X Coins)'
          BY HeldItems, PTL
        <4>2. QED
          BY <2>3, <4>1, HeldGrows
      <3>2. UNCHANGED <<eager, forgotten>>
        BY <2>3, Remembers
      <3>3. eager => OnDisk' = Held'
        <4>1. (eager => OnDisk = Held)'
          BY EagerOnDisk, PTL
        <4>2. QED
          BY <3>2, <4>1
      <3>4. ~ eager => OnDisk' = OnDisk
        BY <2>3, DiskKept
      <3>5. Ahead!Record
        BY <2>3, <3>1, <3>2, <3>3, <3>4 DEF Ahead!Record
      <3>6. QED
        BY <3>5 DEF Ahead!Next
    <2>4. CASE /\ ~ Crash /\ UNCHANGED <<Held, OnDisk>>
               /\ \E i \in Held : HandedOut' = HandedOut \cup {i}
      <3>1. PICK i \in Held : HandedOut' = HandedOut \cup {i}
        BY <2>4
      <3>2. i \in {"tx", "seal"} \X Coins
        BY HeldItems
      <3>3. UNCHANGED <<eager, forgotten>>
        BY <2>4, Remembers
      <3>4. Ahead!Publish(i)
        BY <2>4, <3>1, <3>3 DEF Ahead!Publish
      <3>5. QED
        BY <3>2, <3>4 DEF Ahead!Next
    <2>5. QED
      BY <2>1, <2>2, <2>3, <2>4, HandsOutRecorded
  <1>2. QED
    BY <1>1, InitAhead, WroteAheadInvariant, PTL DEF Spec, RecordedFirst, Ahead!Spec
=============================================================================
