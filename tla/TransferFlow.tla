---------------------------- MODULE TransferFlow ----------------------------
(***************************************************************************)
(* The bitcoin side of a wallet that pays and is paid: create_psbt of the  *)
(* BP and the BDK provider lays out the outputs and picks the commitment   *)
(* host, WalletProvider::transfer (src/pay.rs) commits, saves the tapret   *)
(* tweak in the descriptor and hands the fascia to the stock, and          *)
(* try_add_tapret_tweak saves the tweak of a payment that was received.    *)
(* A tapret commitment changes the script of the output that hosts it; the *)
(* wallet finds the output again only if its descriptor has the tweak.     *)
(*                                                                         *)
(* Abstractions.  A script is the role of its output, as scripts of        *)
(* different outputs differ; an internal key is the terminal it is derived *)
(* from; a commitment is a number, fresh for each commit.  The MPC and RGB *)
(* side of rgb_commit is RgbPsbt.  Positions count from 1.                 *)
(***************************************************************************)
EXTENDS Naturals, Sequences, FiniteSets, FiniteSetsExt

CONSTANTS
    MaxIndex,      \* bound on derivation indexes
    MaxCommits,    \* bound on commitments
    IndexModulus,  \* 2^16 in the code: the range of `as u16`
    None

ASSUME FlowAssumption ==
    /\ MaxIndex \in Nat /\ MaxCommits \in Nat
    /\ IndexModulus \in Nat \ {0}
    /\ None \notin Nat

\* Keychain 0 receives, keychain 1 is TxParams::change_keychain.
Keychains == {0, 1}
Terminals == Keychains \X (0 .. MaxIndex)
Commitments == 1 .. MaxCommits

\* A beneficiary: a blinded seal, or an address with or without internal key.
Invoices ==
    {[seal |-> "blinded", p2tr |-> FALSE, ikey |-> FALSE]} \cup
    {[seal |-> "witness", p2tr |-> p, ikey |-> k] : p, k \in BOOLEAN}

VARIABLES
    provider,      \* "bp_wpkh", "bp_tapret" or "bdk"
    next_index,    \* the next derivation index of each keychain
    tweaks,        \* TapretKey::tweaks
    psbt,          \* the PSBT in the caller's hands with its PsbtMeta, or None
    commits,       \* commitments made so far
    owned,         \* outputs of the wallet in broadcast transactions
    received,      \* tapret payments to the wallet it has no tweak for yet
    result         \* what the last call returned

vars == <<provider, next_index, tweaks, psbt, commits, owned, received, result>>

Init ==
    /\ provider \in {"bp_wpkh", "bp_tapret", "bdk"}
    /\ next_index = [k \in Keychains |-> 0]
    /\ tweaks = [t \in Terminals |-> {}]
    /\ psbt = None /\ commits = 0
    /\ owned = {} /\ received = {}
    /\ result = "ok"

Returns(out) == result' = out

Tapret == provider = "bp_tapret"
-----------------------------------------------------------------------------
(* create_psbt                                                             *)

Out(role, p2tr, ikey) ==
    [role |-> role, p2tr |-> p2tr, ikey |-> ikey, host |-> FALSE, tweak |-> None]

\* construct_psbt of the BP wallet: the beneficiary, then the change if any.
Constructed(inv, change) ==
    (IF inv.seal = "witness" THEN <<Out("beneficiary", inv.p2tr, FALSE)>> ELSE <<>>)
      \o (IF change THEN <<Out("change", Tapret, Tapret)>> ELSE <<>>)

\* The output that is to host the tapret commitment.
TapOut(inv, change) ==
    IF change THEN "change"
    ELSE IF inv.seal = "witness" /\ inv.ikey THEN "beneficiary"
    ELSE None

\* set_tapret_host and set_opret_host on the output with the role; the
\* beneficiary also gets the internal key of the invoice.
Flagged(s, role) ==
    [i \in DOMAIN s |->
        IF s[i].role # role THEN s[i]
        ELSE [s[i] EXCEPT !.host = (role = "op_return" \/ s[i].p2tr),
                         !.ikey = (@ \/ role = "beneficiary")]]

\* Mutant: the outputs keep their order.
Mut_HostsFirst(s) == s

\* The order of sort_outputs_by(!is_host), which is stable.
SortsBefore(s, i, j) ==
    \/ s[i].host /\ ~ s[j].host
    \/ (s[i].host <=> s[j].host) /\ i < j

HostsFirst(s) ==
    LET order == CHOOSE p \in [DOMAIN s -> DOMAIN s] :
                     \A i, j \in DOMAIN s : i < j => SortsBefore(s, p[i], p[j])
    IN  [i \in DOMAIN s |-> s[order[i]]]

\* Mutant: the position after the output.
Mut_Vout(s, role) ==
    IF \E i \in DOMAIN s : s[i].role = role
    THEN 1 + CHOOSE i \in DOMAIN s : s[i].role = role ELSE None

\* The position of the output with the role's script.
Vout(s, role) ==
    IF \E i \in DOMAIN s : s[i].role = role
    THEN CHOOSE i \in DOMAIN s : s[i].role = role ELSE None

\* set_opret_host of the two backends: a missing op_return output goes to
\* the end of a BP PSBT and to the front of a rust-bitcoin one.
OpReturn == <<Out("op_return", FALSE, FALSE)>>
HasOpReturn(s) == \E i \in DOMAIN s : s[i].role = "op_return"
bp_set_opret_host(s) == Flagged(IF HasOpReturn(s) THEN s ELSE s \o OpReturn, "op_return")
rb_set_opret_host(s) == Flagged(IF HasOpReturn(s) THEN s ELSE OpReturn \o s, "op_return")

BpOutputs(inv, change) ==
    IF Tapret THEN Flagged(Constructed(inv, change), TapOut(inv, change))
    ELSE bp_set_opret_host(Constructed(inv, change))

\* The outputs of a BP PSBT once they are sorted.
BpSorted(inv, change) == HostsFirst(BpOutputs(inv, change))

\* Mutant: the builder is given no data output.
Mut_BdkBuilt(inv, change) == Constructed(inv, change)

\* The outputs the BDK builder makes: add_data comes first, and the order is
\* left untouched.
BdkBuilt(inv, change) == OpReturn \o Constructed(inv, change)

BdkOutputs(inv, change) == rb_set_opret_host(BdkBuilt(inv, change))

Outputs(inv, change) ==
    IF provider = "bdk" THEN BdkOutputs(inv, change) ELSE BpSorted(inv, change)

Positions(s) == [change_vout |-> Vout(s, "change"),
                 beneficiary_vout |-> Vout(s, "beneficiary")]

\* PsbtMeta.  The BP provider looks the positions up when all is done, the
\* BDK provider before set_opret_host, which may yet insert an output.
bp_meta(inv, change) == Positions(BpSorted(inv, change))
bdk_meta(inv, change) == Positions(BdkBuilt(inv, change))

Meta(inv, change) ==
    IF provider = "bdk" THEN bdk_meta(inv, change) ELSE bp_meta(inv, change)

create_psbt(inv, change, shift) ==
    /\ change => next_index[1] < MaxIndex
    /\ Tapret => TapOut(inv, change) # None
    /\ psbt' = [outs |-> Outputs(inv, change),
                change_vout |-> Meta(inv, change).change_vout,
                beneficiary_vout |-> Meta(inv, change).beneficiary_vout,
                host_on_change |-> Tapret /\ change,
                terminal |-> <<1, next_index[1]>>,
                committed |-> FALSE]
    /\ next_index' = [next_index EXCEPT ![1] = IF change /\ shift THEN @ + 1 ELSE @]
    /\ Returns("ok")
    /\ UNCHANGED <<provider, tweaks, commits, owned, received>>

create_psbt_fails(inv, change) ==
    /\ Tapret /\ TapOut(inv, change) = None
    /\ Returns("NoOutputForTapretCommitment")
    /\ UNCHANGED <<provider, next_index, tweaks, psbt, commits, owned, received>>
-----------------------------------------------------------------------------
(* transfer                                                                *)

\* dbc_output: the first output whose script fits the method.
Proper(s) == {i \in DOMAIN s : IF Tapret THEN s[i].p2tr ELSE s[i].role = "op_return"}
HostOutput(s) == Min(Proper(s))

CommitOk(s) ==
    /\ Proper(s) # {}
    /\ s[HostOutput(s)].host
    /\ Tapret => s[HostOutput(s)].ikey

\* rgb_commit fails, also on a PSBT that is committed already, whose host
\* flag is gone.
transfer_commit_fails ==
    /\ psbt # None
    /\ ~ CommitOk(psbt.outs)
    /\ Returns("Commit")
    /\ UNCHANGED <<provider, next_index, tweaks, psbt, commits, owned, received>>

\* Mutant: a new tweak replaces those the terminal had.
Mut_add_tapret_tweak(t, c) == tweaks' = [tweaks EXCEPT ![t] = {c}]

add_tapret_tweak(t, c) == tweaks' = [tweaks EXCEPT ![t] = @ \cup {c}]

\* Tapret, and the PSBT says that the host is the change: a tweak is to be saved.
SavesTweak == Tapret /\ psbt.host_on_change

\* transfer gives up between the commitment and the tweak: the host has no
\* terminal_derivation, as the wallet knows the keys of the change only.  (The
\* other error there, NotTaprootOutput, needs the host that rgb_commit has just
\* found to be gone.)
Inconclusive == SavesTweak /\ psbt.outs[HostOutput(psbt.outs)].role # "change"

\* rgb_commit succeeds, and the tweak is saved if the host is the change.
Commits(c) ==
    /\ psbt # None
    /\ CommitOk(psbt.outs)
    /\ c \in Commitments
    /\ commits' = c
    /\ IF SavesTweak /\ ~ Inconclusive
         THEN add_tapret_tweak(psbt.terminal, c) ELSE UNCHANGED tweaks

\* The PSBT with the commitment in the script of its host.
Committed(c) ==
    [psbt EXCEPT !.committed = TRUE,
                 !.outs[HostOutput(psbt.outs)].host = FALSE,
                 !.outs[HostOutput(psbt.outs)].tweak = c]

\* The transfer is returned, or the stock refuses the fascia or the
\* consignment; either way the tweak is saved and the caller has the PSBT.
\* On an inconclusive derivation the caller has the PSBT too, without a tweak.
\* vout is what the caller passes for the position of the beneficiary.
transfer_completes(vout) ==
    /\ Commits(commits + 1)
    /\ psbt.beneficiary_vout # None /\ vout = None => Inconclusive
    /\ psbt' = Committed(commits + 1)
    /\ result' \in IF Inconclusive THEN {"InconclusiveDerivation"} ELSE {"ok", "Stock"}
    /\ UNCHANGED <<provider, next_index, owned, received>>

\* beneficiary_vout.unwrap() on None: the tweak is saved, the PSBT is gone.
transfer_panics(vout) ==
    /\ Commits(commits + 1)
    /\ psbt.beneficiary_vout # None /\ vout = None /\ ~ Inconclusive
    /\ psbt' = None
    /\ Returns("panic")
    /\ UNCHANGED <<provider, next_index, owned, received>>

\* pay passes the position it got; consign, a process of its own, has none.
transfer ==
    \/ transfer_commit_fails
    \/ /\ psbt # None
       /\ \E vout \in {psbt.beneficiary_vout, None} :
             transfer_completes(vout) \/ transfer_panics(vout)

\* External: the transaction is signed and broadcast, its change is ours.
broadcast ==
    /\ psbt # None /\ psbt.committed
    /\ owned' = owned \cup {[terminal |-> psbt.terminal, tweak |-> psbt.outs[i].tweak] :
                              i \in {j \in DOMAIN psbt.outs : psbt.outs[j].role = "change"}}
    /\ psbt' = None
    /\ UNCHANGED <<provider, next_index, tweaks, commits, received, result>>
-----------------------------------------------------------------------------
(* Being paid.                                                             *)

\* External: an address of keychain 0 is taken into use.
new_address ==
    /\ next_index[0] < MaxIndex
    /\ next_index' = [next_index EXCEPT ![0] = @ + 1]
    /\ Returns("ok")
    /\ UNCHANGED <<provider, tweaks, psbt, commits, owned, received>>

\* External: a payer without change puts its tapret commitment on our output.
receive(i) ==
    /\ Tapret
    /\ commits < MaxCommits
    /\ commits' = commits + 1
    /\ received' = received \cup {[terminal |-> <<0, i>>, tweak |-> commits + 1]}
    /\ UNCHANGED <<provider, next_index, tweaks, psbt, owned, result>>

\* (0..last_index), with the next index cut to 16 bits: beyond them, a
\* terminal in use may not be found.
Searched(k) == {i \in 0 .. MaxIndex : i < next_index[k] % IndexModulus}

Found(t) == t[2] \in Searched(t[1])

try_add_tapret_tweak(r) ==
    /\ r \in received
    /\ \/ /\ Found(r.terminal)
          /\ add_tapret_tweak(r.terminal, r.tweak)
          /\ owned' = owned \cup {r}
          /\ received' = received \ {r}
          /\ Returns("ok")
       \/ /\ ~ Found(r.terminal)
          /\ Returns("NoTweakTerminal")
          /\ UNCHANGED <<tweaks, owned, received>>
    /\ UNCHANGED <<provider, next_index, psbt, commits>>
-----------------------------------------------------------------------------
Next ==
    \/ \E inv \in Invoices, change, shift \in BOOLEAN : create_psbt(inv, change, shift)
    \/ \E inv \in Invoices, change \in BOOLEAN : create_psbt_fails(inv, change)
    \/ transfer
    \/ broadcast
    \/ new_address
    \/ \E i \in 0 .. MaxIndex : receive(i)
    \/ \E r \in received : try_add_tapret_tweak(r)

Spec == Init /\ [][Next]_vars
-----------------------------------------------------------------------------
(* Properties.                                                             *)

TypeOK ==
    /\ next_index \in [Keychains -> 0 .. MaxIndex]
    /\ tweaks \in [Terminals -> SUBSET Commitments]
    /\ psbt # None =>
          /\ psbt.change_vout \in DOMAIN psbt.outs \cup {None}
          /\ psbt.beneficiary_vout \in DOMAIN psbt.outs \cup {None}
          /\ psbt.terminal \in Terminals
    /\ commits \in 0 .. MaxCommits
    /\ \A o \in owned : o.terminal \in Terminals /\ o.tweak \in Commitments \cup {None}
    /\ \A r \in received : r.terminal \in Terminals /\ r.tweak \in Commitments

\* The host that create_psbt flags is the output that rgb_commit will find by
\* its script, whatever other outputs could host the commitment; and the PSBT
\* says that the host is the change exactly when it is.
HostPlaced ==
    psbt # None =>
        \A i \in DOMAIN psbt.outs : psbt.outs[i].host =>
            /\ i = HostOutput(psbt.outs)
            /\ Tapret => (psbt.host_on_change <=> psbt.outs[i].role = "change")

\* The positions that RGB seals are built on name the change and the
\* beneficiary output of the PSBT that is handed out: in a BP wallet although
\* the host was added and the outputs sorted, in a BDK wallet although they
\* are taken before set_opret_host, which may insert an output at the front.
VoutsPointRight ==
    psbt # None =>
        \A i \in DOMAIN psbt.outs :
            /\ psbt.outs[i].role = "change" <=> i = psbt.change_vout
            /\ psbt.outs[i].role = "beneficiary" <=> i = psbt.beneficiary_vout

\* Derive for RgbDescr: the plain script, and one script for each tweak.
Derivable(o) == o.tweak = None \/ o.tweak \in tweaks[o.terminal]

\* The wallet recognises each of its outputs in a broadcast transaction, also
\* if terminals are used again and whichever calls failed in between: no
\* bitcoin, and no state on it, is lost to a forgotten tweak.
OutputsDerivable == \A o \in owned : Derivable(o)

\* Every subcommand that completes a transfer, `transfer` or `consign`, ends
\* with a consignment or an error.
TransferReturns == result # "panic"
=============================================================================
