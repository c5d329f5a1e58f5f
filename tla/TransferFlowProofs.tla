------------------------- MODULE TransferFlowProofs -------------------------
(***************************************************************************)
(* The invariants of TransferFlow, for every number of derivation indexes  *)
(* and commitments.  create_psbt establishes the layout of the PSBT: its   *)
(* outputs have different roles, one of them at most is flagged, and that  *)
(* one is the first that fits the method, by its role or because the sort  *)
(* moved it to the front.  The calls that follow change neither the roles  *)
(* nor the scripts the search looks at.                                    *)
(***************************************************************************)
EXTENDS TransferFlow, SequenceTheorems, TLAPS

Roles == {"change", "beneficiary", "op_return"}
TxOut == [role : Roles, p2tr : BOOLEAN, ikey : BOOLEAN, host : BOOLEAN,
          tweak : Commitments \cup {None}]
PsbtRecord == [outs : Seq(TxOut), change_vout : Nat \cup {None},
               beneficiary_vout : Nat \cup {None}, host_on_change : BOOLEAN,
               terminal : Terminals, committed : BOOLEAN]

\* A PSBT of this wallet has a beneficiary, a change and an op_return output
\* at most, and its change is recognised if its script was tweaked.
PsbtKnown ==
    psbt # None =>
        /\ psbt \in PsbtRecord /\ Len(psbt.outs) <= 3
        /\ \A i \in DOMAIN psbt.outs : psbt.outs[i].role = "change" =>
              \/ psbt.outs[i].tweak = None
              \/ psbt.outs[i].tweak \in tweaks[psbt.terminal]

\* The inductive invariant.
Wallet == TypeOK /\ PsbtKnown /\ HostPlaced /\ VoutsPointRight /\ OutputsDerivable
-----------------------------------------------------------------------------
(* The layout create_psbt makes.                                           *)

\* Outputs with different roles and no commitment.
Laid(s) ==
    /\ s \in Seq(TxOut) /\ Len(s) <= 3
    /\ \A i, j \in 1 .. Len(s) : s[i].role = s[j].role => i = j
    /\ \A i \in 1 .. Len(s) : s[i].tweak = None

\* A host is an output with the role that was flagged, and fits the method.
HostOnly(s, role) ==
    \A i \in 1 .. Len(s) : s[i].host =>
        s[i].role = role /\ (role = "op_return" \/ s[i].p2tr)

\* The outputs of a sequence are those of another.
From(s, t) == \A i \in 1 .. Len(s) : \E j \in 1 .. Len(t) : s[i] = t[j]

\* Out makes an output without host flag and commitment.
LEMMA OutType ==
    ASSUME NEW role \in Roles, NEW p2tr \in BOOLEAN, NEW ikey \in BOOLEAN
    PROVE  /\ Out(role, p2tr, ikey) \in TxOut
           /\ Out(role, p2tr, ikey).role = role /\ Out(role, p2tr, ikey).p2tr = p2tr
           /\ ~ Out(role, p2tr, ikey).host /\ Out(role, p2tr, ikey).tweak = None
  BY DEF Out, TxOut

\* No output, or a single one.
LEMMA SingleLaid ==
    ASSUME NEW o \in TxOut, o.tweak = None, NEW s, s = <<o>> \/ s = <<>>
    PROVE  Laid(s) /\ Len(s) <= 1 /\ \A i \in 1 .. Len(s) : s[i] = o
  <1>1. CASE s = <<o>>
    <2>1. s \in Seq(TxOut) /\ Len(s) = 1 /\ s[1] = o
      BY <1>1
    <2>2. \A i \in 1 .. Len(s) : i = 1
      BY <2>1
    <2>3. QED
      BY <2>1, <2>2 DEF Laid
  <1>2. CASE s = <<>>
    <2>1. s \in Seq(TxOut) /\ Len(s) = 0 /\ \A i \in 1 .. Len(s) : FALSE
      BY <1>2
    <2>2. QED
      BY <2>1 DEF Laid
  <1>3. QED
    BY <1>1, <1>2

\* Outputs one after the other.
LEMMA Joined ==
    ASSUME NEW s, NEW t, Laid(s), Laid(t), Len(s) + Len(t) <= 3,
           \A i \in 1 .. Len(s), j \in 1 .. Len(t) : s[i].role # t[j].role
    PROVE  /\ Laid(s \o t) /\ Len(s \o t) = Len(s) + Len(t)
           /\ \A k \in 1 .. Len(s \o t) :
                 \/ \E i \in 1 .. Len(s) : (s \o t)[k] = s[i]
                 \/ \E j \in 1 .. Len(t) : (s \o t)[k] = t[j]
  <1> DEFINE c == s \o t
  <1>1. c \in Seq(TxOut) /\ Len(c) = Len(s) + Len(t)
    BY DEF Laid
  <1>2. \A k \in 1 .. Len(c) : c[k] = IF k <= Len(s) THEN s[k] ELSE t[k - Len(s)]
    BY DEF Laid
  <1>3. Len(s) \in Nat /\ Len(t) \in Nat
    BY DEF Laid
  <1> HIDE DEF c
  <1>4. \A k \in 1 .. Len(c) : /\ k <= Len(s) => k \in 1 .. Len(s)
                              /\ ~ (k <= Len(s)) => k - Len(s) \in 1 .. Len(t)
    BY <1>1, <1>3
  <1>5. ASSUME NEW i \in 1 .. Len(c), NEW j \in 1 .. Len(c), c[i].role = c[j].role
        PROVE  i = j
    <2>1. CASE i <= Len(s) /\ j <= Len(s)
      BY <1>2, <1>4, <1>5, <2>1 DEF Laid
    <2>2. CASE ~ (i <= Len(s)) /\ ~ (j <= Len(s))
      <3>1. i - Len(s) = j - Len(s)
        <4> DEFINE k == i - Len(s)
                   l == j - Len(s)
        <4>1. k \in 1 .. Len(t) /\ l \in 1 .. Len(t) /\ c[i] = t[k] /\ c[j] = t[l]
          BY <1>2, <1>4, <2>2
        <4> HIDE DEF k, l
        <4>2. k = l
          BY <1>5, <4>1 DEF Laid
        <4>3. QED
          BY <4>2 DEF k, l
      <3>2. i \in Nat /\ j \in Nat /\ Len(s) \in Nat
        BY <1>1, <1>3
      <3>3. QED
        BY <3>1, <3>2
    <2>3. CASE i <= Len(s) /\ ~ (j <= Len(s))
      <3>1. c[i] = s[i] /\ i \in 1 .. Len(s) /\ c[j] = t[j - Len(s)] /\ j - Len(s) \in 1 .. Len(t)
        BY <1>2, <1>4, <2>3
      <3>2. QED
        BY <1>5, <3>1
    <2>4. CASE ~ (i <= Len(s)) /\ j <= Len(s)
      <3>1. c[j] = s[j] /\ j \in 1 .. Len(s) /\ c[i] = t[i - Len(s)] /\ i - Len(s) \in 1 .. Len(t)
        BY <1>2, <1>4, <2>4
      <3>2. QED
        BY <1>5, <3>1
    <2>5. QED
      BY <2>1, <2>2, <2>3, <2>4
  <1>6. \A k \in 1 .. Len(c) : c[k].tweak = None
    BY <1>2, <1>4 DEF Laid
  <1>7. QED
    BY <1>1, <1>2, <1>4, <1>5, <1>6 DEF Laid, c

\* construct_psbt: the two outputs differ in role, and a change of a tapret
\* wallet is taproot.
LEMMA ConstructedLaid ==
    ASSUME NEW inv \in Invoices, NEW change \in BOOLEAN
    PROVE  /\ Laid(Constructed(inv, change)) /\ Len(Constructed(inv, change)) <= 2
           /\ \A i \in 1 .. Len(Constructed(inv, change)) :
                 /\ Constructed(inv, change)[i].role \in {"beneficiary", "change"}
                 /\ ~ Constructed(inv, change)[i].host
  <1> DEFINE a == IF inv.seal = "witness" THEN <<Out("beneficiary", inv.p2tr, FALSE)>> ELSE <<>>
             b == IF change THEN <<Out("change", Tapret, Tapret)>> ELSE <<>>
  <1>1. inv.p2tr \in BOOLEAN
    <2>1. CASE inv = [seal |-> "blinded", p2tr |-> FALSE, ikey |-> FALSE]
      BY <2>1
    <2>2. CASE inv \in {[seal |-> "witness", p2tr |-> p, ikey |-> k] : p, k \in BOOLEAN}
      <3>1. PICK p \in BOOLEAN, k \in BOOLEAN :
                inv = [seal |-> "witness", p2tr |-> p, ikey |-> k]
        BY <2>2
      <3>2. QED
        BY <3>1
    <2>3. QED
      BY <2>1, <2>2 DEF Invoices
  <1>2. Laid(a) /\ Len(a) <= 1 /\ \A i \in 1 .. Len(a) : a[i].role = "beneficiary" /\ ~ a[i].host
    <2> DEFINE o == Out("beneficiary", inv.p2tr, FALSE)
    <2>1. o \in TxOut /\ o.role = "beneficiary" /\ ~ o.host /\ o.tweak = None
      BY <1>1, OutType DEF Roles
    <2>2. a = <<o>> \/ a = <<>>
      OBVIOUS
    <2> HIDE DEF a, o
    <2>3. QED
      BY <2>1, <2>2, SingleLaid
  <1>3. Laid(b) /\ Len(b) <= 1 /\ \A i \in 1 .. Len(b) : b[i].role = "change" /\ ~ b[i].host
    <2> DEFINE o == Out("change", Tapret, Tapret)
    <2>1. o \in TxOut /\ o.role = "change" /\ ~ o.host /\ o.tweak = None
      BY OutType DEF Roles, Tapret
    <2>2. b = <<o>> \/ b = <<>>
      OBVIOUS
    <2> HIDE DEF b, o
    <2>3. QED
      BY <2>1, <2>2, SingleLaid
  <1>4. Constructed(inv, change) = a \o b
    BY DEF Constructed
  <1> HIDE DEF a, b
  <1>5. Len(a) \in Nat /\ Len(b) \in Nat
    BY <1>2, <1>3 DEF Laid
  <1>6. QED
    BY <1>2, <1>3, <1>4, <1>5, Joined

\* Flagging changes no role and no script, and makes a host of that role only.
LEMMA FlaggedLaid ==
    ASSUME NEW s, Laid(s), NEW role, \A i \in 1 .. Len(s) : ~ s[i].host
    PROVE  /\ Laid(Flagged(s, role)) /\ Len(Flagged(s, role)) = Len(s)
           /\ \A i \in 1 .. Len(s) : Flagged(s, role)[i].role = s[i].role
           /\ HostOnly(Flagged(s, role), role)
  <1> DEFINE f == Flagged(s, role)
  <1>1. DOMAIN s = 1 .. Len(s) /\ Len(s) \in Nat /\ \A i \in 1 .. Len(s) : s[i] \in TxOut
    BY DEF Laid
  <1>2. DOMAIN f = 1 .. Len(s)
    BY <1>1 DEF Flagged
  <1>3. ASSUME NEW i \in 1 .. Len(s)
        PROVE  /\ f[i] \in TxOut /\ f[i].role = s[i].role
               /\ f[i].p2tr = s[i].p2tr /\ f[i].tweak = s[i].tweak
               /\ f[i].host => s[i].role = role /\ (role = "op_return" \/ s[i].p2tr)
    <2>1. s[i] \in TxOut /\ ~ s[i].host
      BY <1>1
    <2>2. f[i] = IF s[i].role # role THEN s[i]
                 ELSE [s[i] EXCEPT !.host = (role = "op_return" \/ s[i].p2tr),
                                   !.ikey = (@ \/ role = "beneficiary")]
      BY <1>1 DEF Flagged
    <2>3. QED
      BY <2>1, <2>2 DEF TxOut
  <1>4. f = [i \in 1 .. Len(s) |-> f[i]]
    BY <1>1 DEF Flagged
  <1> HIDE DEF f
  <1>5. f \in Seq(TxOut) /\ Len(f) = Len(s)
    BY <1>1, <1>2, <1>3, <1>4
  <1>6. QED
    BY <1>2, <1>3, <1>5 DEF Laid, HostOnly, f

\* sort_outputs_by(!is_host) rearranges the outputs; a single host comes first.
LEMMA HostsFirstLaid ==
    ASSUME NEW s, Laid(s), \A i, j \in 1 .. Len(s) : s[i].host /\ s[j].host => i = j
    PROVE  /\ Laid(HostsFirst(s)) /\ From(HostsFirst(s), s)
           /\ \A i \in 1 .. Len(HostsFirst(s)) : HostsFirst(s)[i].host => i = 1
  <1> DEFINE n == Len(s)
             Sorts(p) == \A i, j \in 1 .. n : i < j => SortsBefore(s, p[i], p[j])
             order == CHOOSE p \in [1 .. n -> 1 .. n] : Sorts(p)
             f == HostsFirst(s)
  <1>1. DOMAIN s = 1 .. n /\ n \in Nat /\ \A i \in 1 .. n : s[i] \in TxOut
    BY DEF Laid
  <1>2. \E p \in [1 .. n -> 1 .. n] : Sorts(p)
    <2>1. CASE \A i \in 1 .. n : ~ s[i].host
      <3> DEFINE p == [i \in 1 .. n |-> i]
      <3>1. Sorts(p)
        BY <2>1 DEF SortsBefore
      <3>2. p \in [1 .. n -> 1 .. n]
        OBVIOUS
      <3>3. QED
        BY <3>1, <3>2
    <2>2. ASSUME NEW h \in 1 .. n, s[h].host PROVE \E p \in [1 .. n -> 1 .. n] : Sorts(p)
      <3> DEFINE p == [i \in 1 .. n |-> IF i = 1 THEN h ELSE IF i <= h THEN i - 1 ELSE i]
      <3>1. \A i \in 1 .. n : i # h => ~ s[i].host
        BY <2>2
      <3>2. p \in [1 .. n -> 1 .. n]
        BY <1>1
      <3>3. \A i \in 1 .. n : p[i] = IF i = 1 THEN h ELSE IF i <= h THEN i - 1 ELSE i
        OBVIOUS
      <3> HIDE DEF p, n
      <3>4. ASSUME NEW i \in 1 .. n, NEW j \in 1 .. n, i < j
            PROVE  SortsBefore(s, p[i], p[j])
        <4>1. p[i] \in 1 .. n /\ p[j] \in 1 .. n
          BY <3>2
        <4>2. p[j] # h /\ ~ s[p[j]].host
          BY <3>1, <3>3, <3>4, <4>1, <1>1
        <4>3. CASE i = 1
          BY <2>2, <3>3, <4>2, <4>3 DEF SortsBefore
        <4>4. CASE i # 1
          <5>1. p[i] # h /\ p[i] < p[j]
            BY <3>3, <3>4, <4>4, <1>1
          <5>2. ~ s[p[i]].host
            BY <3>1, <4>1, <5>1
          <5>3. QED
            BY <4>2, <5>1, <5>2 DEF SortsBefore
        <4>5. QED
          BY <4>3, <4>4
      <3>5. QED
        BY <3>2, <3>4
    <2>3. QED
      BY <2>1, <2>2
  <1>3. order \in [1 .. n -> 1 .. n] /\ Sorts(order)
    BY <1>2
  <1>4. f = [i \in 1 .. n |-> s[order[i]]]
    BY <1>1 DEF HostsFirst
  <1> HIDE DEF order, f, n
  <1>5. \A i \in 1 .. n : order[i] \in 1 .. n /\ f[i] = s[order[i]]
    BY <1>3, <1>4
  <1>6. f \in Seq(TxOut) /\ Len(f) = n
    BY <1>1, <1>4, <1>5
  <1>7. ASSUME NEW i \in 1 .. n, NEW j \in 1 .. n, i < j PROVE order[i] # order[j]
    BY <1>1, <1>3, <1>5, <1>7 DEF SortsBefore
  <1>8. \A i, j \in 1 .. n : f[i].role = f[j].role => i = j
    <2> SUFFICES ASSUME NEW i \in 1 .. n, NEW j \in 1 .. n, f[i].role = f[j].role
                 PROVE  i = j
      OBVIOUS
    <2>1. order[i] = order[j]
      BY <1>5 DEF Laid, n
    <2>2. ~ (i < j) /\ ~ (j < i)
      BY <1>7, <2>1
    <2>3. QED
      BY <1>1, <2>2
  <1>9. ASSUME NEW i \in 1 .. n, f[i].host PROVE i = 1
    <2> SUFFICES ASSUME 1 < i PROVE FALSE
      BY <1>1
    <2>1. 1 \in 1 .. n
      BY <1>1
    <2>2. SortsBefore(s, order[1], order[i])
      BY <1>3, <2>1
    <2>3. s[order[1]].host /\ order[1] < order[i]
      BY <1>5, <1>9, <2>2 DEF SortsBefore
    <2>4. order[1] = order[i]
      BY <1>5, <1>9, <2>1, <2>3 DEF n
    <2>5. QED
      BY <1>1, <1>5, <2>1, <2>3, <2>4
  <1>10. \A i \in 1 .. n : f[i].tweak = None
    BY <1>5 DEF Laid, n
  <1>11. Laid(f)
    BY <1>6, <1>8, <1>10 DEF Laid, n
  <1>12. From(f, s)
    BY <1>5, <1>6 DEF From, n
  <1>13. QED
    BY <1>6, <1>9, <1>11, <1>12 DEF f

\* dbc_output finds the first output that fits.
LEMMA HostOutputLeast ==
    ASSUME NEW s \in Seq(TxOut), NEW i \in Proper(s), \A j \in Proper(s) : i <= j
    PROVE  HostOutput(s) = i
  <1>1. Proper(s) \in SUBSET Nat
    BY DEF Proper
  <1>2. ASSUME NEW x \in Proper(s), \A y \in Proper(s) : x <= y PROVE x = i
    <2>1. x <= i /\ i <= x /\ x \in Nat /\ i \in Nat
      BY <1>1, <1>2
    <2>2. QED
      BY <2>1
  <1>3. QED
    BY <1>2 DEF HostOutput, Min

\* It finds one if there is one.
LEMMA HostOutputFound ==
    ASSUME NEW s \in Seq(TxOut), Len(s) <= 3, Proper(s) # {}
    PROVE  HostOutput(s) \in Proper(s)
  <1>1. Proper(s) \in SUBSET {1, 2, 3}
    BY DEF Proper
  <1>2. PICK i \in Proper(s) : \A j \in Proper(s) : i <= j
    <2>1. CASE 1 \in Proper(s)
      BY <1>1, <2>1
    <2>2. CASE 1 \notin Proper(s) /\ 2 \in Proper(s)
      BY <1>1, <2>2
    <2>3. CASE 1 \notin Proper(s) /\ 2 \notin Proper(s)
      BY <1>1, <2>3
    <2>4. QED
      BY <2>1, <2>2, <2>3
  <1>3. QED
    BY <1>2, HostOutputLeast

\* A single host first: what a BP wallet does with the outputs it flagged.
LEMMA FlaggedAndSorted ==
    ASSUME NEW s, Laid(s), NEW role, \A i \in 1 .. Len(s) : ~ s[i].host
    PROVE  LET f == HostsFirst(Flagged(s, role))
           IN  /\ Laid(f) /\ HostOnly(f, role)
               /\ \A i \in 1 .. Len(f) : f[i].host => i = 1
               /\ \A i \in 1 .. Len(f) : \E j \in 1 .. Len(s) : f[i].role = s[j].role
  <1> DEFINE g == Flagged(s, role)
             f == HostsFirst(g)
  <1>1. Laid(g) /\ Len(g) = Len(s) /\ HostOnly(g, role)
        /\ \A i \in 1 .. Len(s) : g[i].role = s[i].role
    BY FlaggedLaid
  <1> HIDE DEF g
  <1>2. \A i, j \in 1 .. Len(g) : g[i].host /\ g[j].host => i = j
    BY <1>1 DEF HostOnly, Laid
  <1>3. Laid(f) /\ From(f, g) /\ \A i \in 1 .. Len(f) : f[i].host => i = 1
    BY <1>1, <1>2, HostsFirstLaid
  <1> HIDE DEF f
  <1>4. HostOnly(f, role)
    BY <1>1, <1>3 DEF From, HostOnly
  <1>5. \A i \in 1 .. Len(f) : \E j \in 1 .. Len(s) : f[i].role = s[j].role
    BY <1>1, <1>3 DEF From
  <1>6. QED
    BY <1>3, <1>4, <1>5 DEF f, g

\* Outputs of different roles, none a host, one after the other.
LEMMA JoinedUnflagged ==
    ASSUME NEW s, NEW t, Laid(s), Laid(t), Len(s) + Len(t) <= 3,
           \A i \in 1 .. Len(s), j \in 1 .. Len(t) : s[i].role # t[j].role,
           \A i \in 1 .. Len(s) : ~ s[i].host, \A j \in 1 .. Len(t) : ~ t[j].host
    PROVE  Laid(s \o t) /\ \A k \in 1 .. Len(s \o t) : ~ (s \o t)[k].host
  BY Joined

\* The op_return output next to those of the wallet, at either end.
LEMMA WithOpReturn ==
    ASSUME NEW c, Laid(c), Len(c) <= 2, NEW r, r = OpReturn,
           \A i \in 1 .. Len(c) : c[i].role \in {"beneficiary", "change"} /\ ~ c[i].host
    PROVE  /\ Laid(c \o r) /\ \A i \in 1 .. Len(c \o r) : ~ (c \o r)[i].host
           /\ Laid(r \o c) /\ \A i \in 1 .. Len(r \o c) : ~ (r \o c)[i].host
           /\ ~ HasOpReturn(c) /\ HasOpReturn(r \o c)
  <1> DEFINE o == Out("op_return", FALSE, FALSE)
  <1>1. o \in TxOut /\ o.role = "op_return" /\ ~ o.host /\ o.tweak = None
    BY OutType DEF Roles
  <1>2. r = <<o>> /\ Len(r) = 1
    BY DEF OpReturn
  <1> HIDE DEF o
  <1>3. Laid(r) /\ \A i \in 1 .. Len(r) : r[i].role = "op_return" /\ ~ r[i].host
    BY <1>1, <1>2, SingleLaid
  <1>4. Len(c) \in Nat /\ DOMAIN c = 1 .. Len(c) /\ c \in Seq(TxOut) /\ r \in Seq(TxOut)
    BY <1>3 DEF Laid
  <1>5. \A i \in 1 .. Len(c), j \in 1 .. Len(r) : c[i].role # r[j].role
    BY <1>3
  <1>6. Len(c) + Len(r) <= 3 /\ Len(r) + Len(c) <= 3
    BY <1>2, <1>4
  <1>7. Laid(c \o r) /\ \A i \in 1 .. Len(c \o r) : ~ (c \o r)[i].host
    BY <1>3, <1>5, <1>6, JoinedUnflagged
  <1>8. Laid(r \o c) /\ \A i \in 1 .. Len(r \o c) : ~ (r \o c)[i].host
    BY <1>3, <1>5, <1>6, JoinedUnflagged
  <1>9. ~ HasOpReturn(c)
    BY <1>4 DEF HasOpReturn
  <1>10. HasOpReturn(r \o c)
    <2>1. 1 \in DOMAIN (r \o c) /\ (r \o c)[1] = r[1]
      BY <1>2, <1>4
    <2>2. QED
      BY <1>2, <1>3, <2>1 DEF HasOpReturn
  <1>11. QED
    BY <1>7, <1>8, <1>9, <1>10

\* create_psbt: the host is the output that rgb_commit will look for.
LEMMA OutputsLaid ==
    ASSUME NEW inv \in Invoices, NEW change \in BOOLEAN, Tapret => TapOut(inv, change) # None
    PROVE  /\ Laid(Outputs(inv, change))
           /\ \A i \in 1 .. Len(Outputs(inv, change)) : Outputs(inv, change)[i].host =>
                 /\ i = HostOutput(Outputs(inv, change))
                 /\ Tapret => (change <=> Outputs(inv, change)[i].role = "change")
  <1> DEFINE c == Constructed(inv, change)
             r == TapOut(inv, change)
             f == Outputs(inv, change)
  <1>1. /\ Laid(c) /\ Len(c) <= 2
        /\ \A i \in 1 .. Len(c) : c[i].role \in {"beneficiary", "change"} /\ ~ c[i].host
    BY ConstructedLaid
  <1>2. CASE Tapret
    <2>1. f = HostsFirst(Flagged(c, r))
      BY <1>2 DEF Outputs, BpSorted, BpOutputs, Tapret
    <2>2. r \in {"change", "beneficiary"} /\ (r = "change" <=> change)
      BY <1>2 DEF TapOut
    <2> HIDE DEF c, r, f
    <2>3. /\ Laid(f) /\ HostOnly(f, r)
          /\ \A i \in 1 .. Len(f) : f[i].host => i = 1
      BY <1>1, <2>1, FlaggedAndSorted
    <2>4. ASSUME NEW i \in 1 .. Len(f), f[i].host
          PROVE  i = HostOutput(f) /\ (change <=> f[i].role = "change")
      <3>1. i = 1 /\ f[i].role = r /\ f[i].p2tr
        BY <2>2, <2>3, <2>4 DEF HostOnly
      <3>2. f \in Seq(TxOut) /\ DOMAIN f = 1 .. Len(f)
        BY <2>3 DEF Laid
      <3>3. i \in Proper(f) /\ \A j \in Proper(f) : i <= j
        BY <1>2, <3>1, <3>2 DEF Proper
      <3>4. QED
        BY <2>2, <3>1, <3>2, <3>3, HostOutputLeast
    <2>5. QED
      BY <2>3, <2>4 DEF f
  <1>3. CASE ~ Tapret
    <2>1. Laid(f) /\ HostOnly(f, "op_return")
      <3>0. PICK o : o = OpReturn
        OBVIOUS
      <3>1. CASE provider = "bdk"
        <4>1. f = rb_set_opret_host(o \o c)
          BY <3>0, <3>1 DEF Outputs, BdkOutputs, BdkBuilt
        <4> HIDE DEF f, c
        <4>2. /\ Laid(o \o c) /\ \A i \in 1 .. Len(o \o c) : ~ (o \o c)[i].host
              /\ HasOpReturn(o \o c)
          BY <1>1, <3>0, WithOpReturn
        <4>3. f = Flagged(o \o c, "op_return")
          BY <4>1, <4>2 DEF rb_set_opret_host
        <4>4. QED
          BY <4>2, <4>3, FlaggedLaid
      <3>2. CASE provider # "bdk"
        <4>1. f = HostsFirst(bp_set_opret_host(c))
          BY <1>3, <3>2 DEF Outputs, BpSorted, BpOutputs
        <4> HIDE DEF f, c
        <4>2. /\ Laid(c \o o) /\ \A i \in 1 .. Len(c \o o) : ~ (c \o o)[i].host
              /\ ~ HasOpReturn(c)
          BY <1>1, <3>0, WithOpReturn
        <4>3. f = HostsFirst(Flagged(c \o o, "op_return"))
          BY <3>0, <4>1, <4>2 DEF bp_set_opret_host
        <4>4. QED
          BY <4>2, <4>3, FlaggedAndSorted
      <3>3. QED
        BY <3>1, <3>2
    <2> HIDE DEF f
    <2>2. f \in Seq(TxOut) /\ DOMAIN f = 1 .. Len(f)
      BY <2>1 DEF Laid
    <2>3. ASSUME NEW i \in 1 .. Len(f), f[i].host PROVE i = HostOutput(f)
      <3>1. f[i].role = "op_return"
        BY <2>1, <2>3 DEF HostOnly
      <3>2. i \in Proper(f) /\ \A j \in Proper(f) : j = i
        BY <1>3, <2>1, <2>2, <3>1 DEF Proper, Laid
      <3>3. QED
        BY <2>2, <3>2, HostOutputLeast
    <2>4. QED
      BY <1>3, <2>1, <2>3 DEF f
  <1>4. QED
    BY <1>2, <1>3

\* The position that is looked up by a script is the one with that role.
LEMMA VoutPoints ==
    ASSUME NEW s, Laid(s), NEW role
    PROVE  /\ Vout(s, role) \in 1 .. Len(s) \cup {None}
           /\ \A i \in 1 .. Len(s) : s[i].role = role <=> i = Vout(s, role)
  <1>1. DOMAIN s = 1 .. Len(s) /\ None \notin 1 .. Len(s)
    BY FlowAssumption DEF Laid
  <1>2. CASE \E i \in 1 .. Len(s) : s[i].role = role
    <2>1. Vout(s, role) \in 1 .. Len(s) /\ s[Vout(s, role)].role = role
      BY <1>1, <1>2 DEF Vout
    <2>2. QED
      BY <2>1 DEF Laid
  <1>3. CASE ~ \E i \in 1 .. Len(s) : s[i].role = role
    <2>1. Vout(s, role) = None
      BY <1>1, <1>3 DEF Vout
    <2>2. QED
      BY <1>1, <1>3, <2>1
  <1>4. QED
    BY <1>2, <1>3

\* The positions in meta are those of the outputs that are handed out: a BDK
\* PSBT has its op_return output before set_opret_host, which then inserts
\* none, and a BP PSBT is sorted before the positions are looked up.
LEMMA MetaPoints ==
    ASSUME NEW inv \in Invoices, NEW change \in BOOLEAN, Tapret => TapOut(inv, change) # None,
           NEW s, s = Outputs(inv, change), NEW m, m = Meta(inv, change)
    PROVE  /\ m.change_vout \in 1 .. Len(s) \cup {None}
           /\ \A i \in 1 .. Len(s) : s[i].role = "change" <=> i = m.change_vout
           /\ m.beneficiary_vout \in 1 .. Len(s) \cup {None}
           /\ \A i \in 1 .. Len(s) : s[i].role = "beneficiary" <=> i = m.beneficiary_vout
  <1>1. CASE provider = "bdk"
    <2> DEFINE c == Constructed(inv, change)
    <2>1. PICK b : b = BdkBuilt(inv, change)
      OBVIOUS
    <2>2. /\ m.change_vout = Vout(b, "change") /\ m.beneficiary_vout = Vout(b, "beneficiary")
          /\ s = rb_set_opret_host(b)
      BY <1>1, <2>1 DEF Meta, bdk_meta, Positions, Outputs, BdkOutputs
    <2>3. /\ Laid(c) /\ Len(c) <= 2
          /\ \A i \in 1 .. Len(c) : c[i].role \in {"beneficiary", "change"} /\ ~ c[i].host
      BY ConstructedLaid
    <2>4. Laid(b) /\ HasOpReturn(b) /\ \A i \in 1 .. Len(b) : ~ b[i].host
      <3>1. PICK o : o = OpReturn
        OBVIOUS
      <3>2. b = o \o c
        BY <2>1, <3>1 DEF BdkBuilt
      <3> HIDE DEF c
      <3>3. QED
        BY <2>3, <3>1, <3>2, WithOpReturn
    <2>5. s = Flagged(b, "op_return")
      BY <2>2, <2>4 DEF rb_set_opret_host
    <2>6. Len(s) = Len(b) /\ \A i \in 1 .. Len(b) : s[i].role = b[i].role
      BY <2>4, <2>5, FlaggedLaid
    <2>7. /\ Vout(b, "change") \in 1 .. Len(b) \cup {None}
          /\ \A i \in 1 .. Len(b) : b[i].role = "change" <=> i = Vout(b, "change")
      BY <2>4, VoutPoints
    <2>8. /\ Vout(b, "beneficiary") \in 1 .. Len(b) \cup {None}
          /\ \A i \in 1 .. Len(b) : b[i].role = "beneficiary" <=> i = Vout(b, "beneficiary")
      BY <2>4, VoutPoints
    <2>9. QED
      BY <2>2, <2>6, <2>7, <2>8
  <1>2. CASE provider # "bdk"
    <2>1. /\ m.change_vout = Vout(s, "change") /\ m.beneficiary_vout = Vout(s, "beneficiary")
      BY <1>2 DEF Meta, bp_meta, Positions, Outputs
    <2>2. Laid(s)
      BY OutputsLaid
    <2>3. /\ Vout(s, "change") \in 1 .. Len(s) \cup {None}
          /\ \A i \in 1 .. Len(s) : s[i].role = "change" <=> i = Vout(s, "change")
      BY <2>2, VoutPoints
    <2>4. /\ Vout(s, "beneficiary") \in 1 .. Len(s) \cup {None}
          /\ \A i \in 1 .. Len(s) : s[i].role = "beneficiary" <=> i = Vout(s, "beneficiary")
      BY <2>2, VoutPoints
    <2>5. QED
      BY <2>1, <2>3, <2>4
  <1>3. QED
    BY <1>1, <1>2
-----------------------------------------------------------------------------
(* The inductive step, by the calls.                                       *)

\* A call that leaves the PSBT, the tweaks and the outputs as they are.
LEMMA OthersKept ==
    ASSUME Wallet, TypeOK', UNCHANGED <<provider, tweaks, psbt, owned>>
    PROVE  Wallet'
  <1>1. PsbtKnown' /\ HostPlaced'
    BY DEF Wallet, PsbtKnown, HostPlaced, HostOutput, Proper, Tapret
  <1>2. VoutsPointRight' /\ OutputsDerivable'
    BY DEF Wallet, VoutsPointRight, OutputsDerivable, Derivable
  <1>3. QED
    BY <1>1, <1>2 DEF Wallet

\* create_psbt
LEMMA CreateStep ==
    ASSUME Wallet, NEW inv \in Invoices, NEW change \in BOOLEAN, NEW shift \in BOOLEAN,
           create_psbt(inv, change, shift)
    PROVE  Wallet'
  <1> DEFINE s == Outputs(inv, change)
             m == Meta(inv, change)
             cv == m.change_vout
             bv == m.beneficiary_vout
             t == <<1, next_index[1]>>
  <1>1. psbt' = [outs |-> s, change_vout |-> cv, beneficiary_vout |-> bv,
                 host_on_change |-> Tapret /\ change, terminal |-> t, committed |-> FALSE]
    BY DEF create_psbt
  <1>2. /\ Laid(s)
        /\ \A i \in 1 .. Len(s) : s[i].host =>
              i = HostOutput(s) /\ (Tapret => (change <=> s[i].role = "change"))
    BY OutputsLaid DEF create_psbt
  <1>3. t \in Terminals
    BY FlowAssumption DEF Wallet, TypeOK, Terminals, Keychains
  <1> HIDE DEF s
  <1>4. /\ cv \in 1 .. Len(s) \cup {None}
        /\ \A i \in 1 .. Len(s) : s[i].role = "change" <=> i = cv
    BY MetaPoints DEF create_psbt, s
  <1>5. /\ bv \in 1 .. Len(s) \cup {None}
        /\ \A i \in 1 .. Len(s) : s[i].role = "beneficiary" <=> i = bv
    BY MetaPoints DEF create_psbt, s
  <1> HIDE DEF cv, bv, t
  <1>6. s \in Seq(TxOut) /\ Len(s) <= 3 /\ DOMAIN s = 1 .. Len(s) /\ 1 .. Len(s) \subseteq Nat
        /\ \A i \in 1 .. Len(s) : s[i].tweak = None
    BY <1>2 DEF Laid
  <1>7. /\ psbt'.outs = s /\ psbt'.change_vout = cv /\ psbt'.beneficiary_vout = bv
        /\ psbt'.host_on_change = (Tapret /\ change) /\ psbt'.terminal = t
    BY <1>1
  <1>8. psbt' \in PsbtRecord
    <2>1. (Tapret /\ change) \in BOOLEAN
      BY DEF Tapret
    <2>2. QED
      BY <1>1, <1>3, <1>4, <1>5, <1>6, <2>1 DEF PsbtRecord
  <1>9. TypeOK'
    <2>1. next_index' \in [Keychains -> 0 .. MaxIndex]
      BY FlowAssumption DEF create_psbt, Wallet, TypeOK, Keychains
    <2>2. QED
      BY <1>3, <1>4, <1>5, <1>6, <1>7, <2>1 DEF create_psbt, Wallet, TypeOK
  <1>10. PsbtKnown'
    BY <1>6, <1>7, <1>8 DEF PsbtKnown
  <1>11. HostPlaced'
    <2>1. provider' = provider
      BY DEF create_psbt
    <2>2. HostOutput(psbt.outs)' = HostOutput(s) /\ Tapret' = Tapret
      BY <1>7, <2>1 DEF HostOutput, Proper, Tapret
    <2>3. QED
      BY <1>2, <1>6, <1>7, <2>2 DEF HostPlaced
  <1>12. VoutsPointRight'
    BY <1>4, <1>5, <1>6, <1>7 DEF VoutsPointRight
  <1>13. OutputsDerivable'
    BY DEF create_psbt, Wallet, OutputsDerivable, Derivable
  <1>14. QED
    BY <1>9, <1>10, <1>11, <1>12, <1>13 DEF Wallet

\* rgb_commit changes the host flag and the script of its host, and neither
\* the roles nor what dbc_output looks at.
LEMMA CommittedPsbt ==
    ASSUME Wallet, psbt # None, CommitOk(psbt.outs), NEW c \in Commitments,
           NEW q, q = Committed(c), NEW h, h = HostOutput(psbt.outs)
    PROVE  /\ q \in PsbtRecord /\ Len(q.outs) = Len(psbt.outs)
           /\ h \in 1 .. Len(psbt.outs) /\ h \in Proper(psbt.outs) /\ psbt.outs[h].host
           /\ \A i \in 1 .. Len(psbt.outs) :
                 /\ q.outs[i].role = psbt.outs[i].role /\ q.outs[i].p2tr = psbt.outs[i].p2tr
                 /\ ~ q.outs[i].host
                 /\ q.outs[i].tweak = IF i = h THEN c ELSE psbt.outs[i].tweak
           /\ q.change_vout = psbt.change_vout /\ q.beneficiary_vout = psbt.beneficiary_vout
           /\ q.terminal = psbt.terminal
  <1> DEFINE s == psbt.outs
             o == [s[h] EXCEPT !.host = FALSE, !.tweak = c]
  <1>1. psbt \in PsbtRecord /\ s \in Seq(TxOut) /\ Len(s) <= 3
    BY DEF Wallet, PsbtKnown, PsbtRecord
  <1>2. h \in Proper(s) /\ s[h].host
    BY <1>1, HostOutputFound DEF CommitOk
  <1>3. DOMAIN s = 1 .. Len(s) /\ Len(s) \in Nat /\ h \in 1 .. Len(s) /\ s[h] \in TxOut
    BY <1>1, <1>2 DEF Proper
  <1>4. /\ o \in TxOut /\ o.role = s[h].role /\ o.p2tr = s[h].p2tr /\ ~ o.host /\ o.tweak = c
    BY <1>3 DEF TxOut
  <1>5. q = [psbt EXCEPT !.committed = TRUE, !.outs = [s EXCEPT ![h] = o]]
    BY <1>1, <1>3 DEF Committed, PsbtRecord, TxOut
  <1> HIDE DEF o
  <1> DEFINE u == [s EXCEPT ![h] = o]
  <1>6. u \in Seq(TxOut) /\ Len(u) = Len(s) /\ \A i \in 1 .. Len(s) : u[i] = IF i = h THEN o ELSE s[i]
    BY <1>1, <1>3, <1>4
  <1> HIDE DEF u
  <1>7. q \in PsbtRecord /\ q.outs = u /\ q.change_vout = psbt.change_vout
        /\ q.beneficiary_vout = psbt.beneficiary_vout /\ q.terminal = psbt.terminal
    BY <1>1, <1>5, <1>6 DEF PsbtRecord, u
  <1>8. \A i \in 1 .. Len(s) : i # h => ~ s[i].host
    BY <1>3 DEF Wallet, HostPlaced
  <1>9. QED
    BY <1>2, <1>3, <1>4, <1>6, <1>7, <1>8

\* add_tapret_tweak keeps the tweaks there are, so that what was derivable is.
LEMMA TweakAdded ==
    ASSUME TypeOK, NEW t \in Terminals, NEW c \in Commitments, add_tapret_tweak(t, c)
    PROVE  /\ tweaks' \in [Terminals -> SUBSET Commitments] /\ c \in tweaks'[t]
           /\ \A u \in Terminals : tweaks[u] \subseteq tweaks'[u]
  BY DEF add_tapret_tweak, TypeOK

\* transfer after rgb_commit succeeded, whether it returns or panics: the
\* tweak is saved if the output that got the commitment is ours.
LEMMA CommitStep ==
    ASSUME Wallet, Commits(commits + 1), psbt' \in {Committed(commits + 1), None},
           UNCHANGED <<provider, next_index, owned, received>>
    PROVE  Wallet'
  <1> DEFINE s == psbt.outs
             c == commits + 1
             h == HostOutput(s)
             q == Committed(c)
  <1>1. psbt # None /\ CommitOk(s) /\ c \in Commitments /\ commits' = c
    BY DEF Commits
  <1>2. psbt \in PsbtRecord /\ psbt.terminal \in Terminals
    BY <1>1 DEF Wallet, PsbtKnown, PsbtRecord
  <1>2a. Tapret /\ psbt.host_on_change => ~ Inconclusive
    <2> SUFFICES ASSUME Tapret, psbt.host_on_change
                 PROVE  ~ Inconclusive
      OBVIOUS
    <2>1. s \in Seq(TxOut) /\ Len(s) <= 3
      BY <1>1, <1>2 DEF Wallet, PsbtKnown, PsbtRecord
    <2>2. h \in Proper(s) /\ s[h].host
      BY <1>1, <2>1, HostOutputFound DEF CommitOk
    <2>3. s[h].role = "change"
      BY <1>1, <2>2 DEF Wallet, HostPlaced, Proper
    <2>4. QED
      BY <2>3 DEF Inconclusive
  <1>3. /\ tweaks' \in [Terminals -> SUBSET Commitments]
        /\ Tapret /\ psbt.host_on_change => c \in tweaks'[psbt.terminal]
        /\ \A u \in Terminals : tweaks[u] \subseteq tweaks'[u]
    <2>1. CASE Tapret /\ psbt.host_on_change
      <3>1. add_tapret_tweak(psbt.terminal, c)
        BY <1>2a, <2>1 DEF Commits, SavesTweak
      <3>2. QED
        BY <1>1, <1>2, <3>1, TweakAdded DEF Wallet
    <2>2. CASE ~ (Tapret /\ psbt.host_on_change)
      BY <2>2 DEF Commits, SavesTweak, Wallet, TypeOK
    <2>3. QED
      BY <2>1, <2>2
  <1>4. OutputsDerivable'
    BY <1>3 DEF Wallet, OutputsDerivable, Derivable, TypeOK
  <1>6. commits' \in 0 .. MaxCommits
    BY <1>1, FlowAssumption DEF Commitments
  <1>7. CASE psbt' = None
    <2>1. TypeOK'
      BY <1>3, <1>6, <1>7 DEF Wallet, TypeOK
    <2>2. PsbtKnown' /\ HostPlaced' /\ VoutsPointRight'
      BY <1>7 DEF PsbtKnown, HostPlaced, VoutsPointRight
    <2>3. QED
      BY <1>4, <2>1, <2>2 DEF Wallet
  <1>8. CASE psbt' = q
    <2>1. /\ q \in PsbtRecord /\ Len(q.outs) = Len(s)
          /\ h \in 1 .. Len(s) /\ h \in Proper(s) /\ s[h].host
          /\ \A i \in 1 .. Len(s) :
                /\ q.outs[i].role = s[i].role /\ q.outs[i].p2tr = s[i].p2tr
                /\ ~ q.outs[i].host
                /\ q.outs[i].tweak = IF i = h THEN c ELSE s[i].tweak
          /\ q.change_vout = psbt.change_vout /\ q.beneficiary_vout = psbt.beneficiary_vout
          /\ q.terminal = psbt.terminal
      BY <1>1, CommittedPsbt
    <2> HIDE DEF q, h, c
    <2>2. q.outs \in Seq(TxOut) /\ DOMAIN q.outs = 1 .. Len(s) /\ DOMAIN s = 1 .. Len(s)
          /\ Len(s) <= 3
      BY <1>1, <1>2, <2>1 DEF PsbtRecord, Wallet, PsbtKnown
    <2>3. TypeOK'
      BY <1>1, <1>2, <1>3, <1>6, <1>8, <2>1, <2>2 DEF Wallet, TypeOK
    <2>4. HostPlaced'
      BY <1>8, <2>1, <2>2 DEF HostPlaced
    <2>5. VoutsPointRight'
      BY <1>1, <1>8, <2>1, <2>2 DEF Wallet, VoutsPointRight
    <2>6. ASSUME NEW i \in 1 .. Len(s), s[i].role = "change"
          PROVE  q.outs[i].tweak = None \/ q.outs[i].tweak \in tweaks'[psbt.terminal]
      <3>1. CASE i = h
        <4>1. Tapret
          BY <2>1, <2>6, <3>1 DEF Proper
        <4>2. psbt.host_on_change
          BY <1>1, <2>1, <2>2, <2>6, <3>1, <4>1 DEF Wallet, HostPlaced
        <4>3. QED
          BY <1>3, <2>1, <3>1, <4>1, <4>2
      <3>2. CASE i # h
        BY <1>1, <1>2, <1>3, <2>1, <2>2, <2>6, <3>2 DEF Wallet, PsbtKnown
      <3>3. QED
        BY <3>1, <3>2
    <2>7. PsbtKnown'
      BY <1>8, <2>1, <2>2, <2>6 DEF PsbtKnown
    <2>8. QED
      BY <1>4, <2>3, <2>4, <2>5, <2>7 DEF Wallet
  <1>9. QED
    BY <1>7, <1>8

\* The transaction leaves with the change in the form the wallet knows.
LEMMA BroadcastStep ==
    ASSUME Wallet, broadcast
    PROVE  Wallet'
  <1>1. /\ psbt # None /\ psbt' = None /\ psbt \in PsbtRecord
        /\ UNCHANGED <<provider, next_index, tweaks, commits, received, result>>
    BY DEF broadcast, Wallet, PsbtKnown
  <1>2. ASSUME NEW o \in owned', o \notin owned
        PROVE  /\ o.terminal \in Terminals /\ o.tweak \in Commitments \cup {None}
               /\ o.tweak = None \/ o.tweak \in tweaks[o.terminal]
    <2>1. PICK i \in DOMAIN psbt.outs :
             /\ psbt.outs[i].role = "change"
             /\ o = [terminal |-> psbt.terminal, tweak |-> psbt.outs[i].tweak]
      BY <1>2 DEF broadcast
    <2>2. o.terminal = psbt.terminal /\ o.tweak = psbt.outs[i].tweak
      BY <2>1
    <2>3. psbt.terminal \in Terminals /\ psbt.outs[i] \in TxOut
      BY <1>1 DEF PsbtRecord
    <2>4. psbt.outs[i].tweak \in Commitments \cup {None}
      BY <2>3 DEF TxOut
    <2>5. QED
      BY <1>1, <2>1, <2>2, <2>3, <2>4 DEF Wallet, PsbtKnown
  <1>3. TypeOK'
    BY <1>1, <1>2 DEF Wallet, TypeOK
  <1>4. OutputsDerivable'
    BY <1>1, <1>2 DEF Wallet, OutputsDerivable, Derivable
  <1>5. PsbtKnown' /\ HostPlaced' /\ VoutsPointRight'
    BY <1>1 DEF Wallet, PsbtKnown, HostPlaced, VoutsPointRight
  <1>6. QED
    BY <1>3, <1>4, <1>5 DEF Wallet

\* try_add_tapret_tweak: an output that becomes ours is derivable at once.
LEMMA TweakStep ==
    ASSUME Wallet, NEW r \in received, try_add_tapret_tweak(r)
    PROVE  Wallet'
  <1>1. /\ r.terminal \in Terminals /\ r.tweak \in Commitments
        /\ UNCHANGED <<provider, next_index, psbt, commits>>
    BY DEF Wallet, TypeOK, try_add_tapret_tweak
  <1>2. CASE ~ Found(r.terminal)
    <2>1. UNCHANGED <<tweaks, owned, received>>
      BY <1>2 DEF try_add_tapret_tweak
    <2>2. TypeOK'
      BY <1>1, <2>1 DEF Wallet, TypeOK
    <2>3. QED
      BY <1>1, <2>1, <2>2, OthersKept
  <1>3. CASE Found(r.terminal)
    <2>1. /\ tweaks' = [tweaks EXCEPT ![r.terminal] = @ \cup {r.tweak}]
          /\ owned' = owned \cup {r} /\ received' = received \ {r}
      BY <1>3 DEF try_add_tapret_tweak, add_tapret_tweak
    <2>2. /\ \A t \in Terminals : tweaks[t] \subseteq tweaks'[t]
          /\ r.tweak \in tweaks'[r.terminal]
      BY <1>1, <2>1 DEF Wallet, TypeOK
    <2>3. TypeOK'
      BY <1>1, <2>1 DEF Wallet, TypeOK
    <2>4. OutputsDerivable'
      BY <1>1, <2>1, <2>2 DEF Wallet, OutputsDerivable, Derivable, TypeOK
    <2>5. PsbtKnown'
      BY <1>1, <2>2 DEF Wallet, PsbtKnown, PsbtRecord
    <2>6. HostPlaced' /\ VoutsPointRight'
      BY <1>1 DEF Wallet, HostPlaced, VoutsPointRight, HostOutput, Proper, Tapret
    <2>7. QED
      BY <2>3, <2>4, <2>5, <2>6 DEF Wallet
  <1>4. QED
    BY <1>2, <1>3

LEMMA InitWallet == Init => Wallet
  <1> SUFFICES ASSUME Init PROVE Wallet
    OBVIOUS
  <1>1. TypeOK
    BY FlowAssumption DEF Init, TypeOK
  <1>2. PsbtKnown /\ HostPlaced /\ VoutsPointRight
    BY DEF Init, PsbtKnown, HostPlaced, VoutsPointRight
  <1>3. OutputsDerivable
    BY DEF Init, OutputsDerivable
  <1>4. QED
    BY <1>1, <1>2, <1>3 DEF Wallet

LEMMA NextWallet == Wallet /\ [Next]_vars => Wallet'
  <1> SUFFICES ASSUME Wallet, [Next]_vars PROVE Wallet'
    OBVIOUS
  <1>1. CASE UNCHANGED vars
    <2>1. TypeOK'
      BY <1>1 DEF vars, Wallet, TypeOK
    <2>2. QED
      BY <1>1, <2>1, OthersKept DEF vars
  <1>2. ASSUME NEW inv \in Invoices, NEW change \in BOOLEAN, create_psbt_fails(inv, change)
        PROVE  Wallet'
    <2>1. TypeOK'
      BY <1>2 DEF create_psbt_fails, Wallet, TypeOK
    <2>2. QED
      BY <1>2, <2>1, OthersKept DEF create_psbt_fails
  <1>3. CASE transfer
    <2>1. CASE transfer_commit_fails
      <3>1. TypeOK'
        BY <2>1 DEF transfer_commit_fails, Wallet, TypeOK
      <3>2. QED
        BY <2>1, <3>1, OthersKept DEF transfer_commit_fails
    <2>2. ASSUME NEW vout, transfer_completes(vout) PROVE Wallet'
      BY <2>2, CommitStep DEF transfer_completes
    <2>3. ASSUME NEW vout, transfer_panics(vout) PROVE Wallet'
      BY <2>3, CommitStep DEF transfer_panics
    <2>4. QED
      BY <1>3, <2>1, <2>2, <2>3 DEF transfer
  <1>4. CASE new_address
    <2>1. next_index' \in [Keychains -> 0 .. MaxIndex]
      BY <1>4, FlowAssumption DEF new_address, Wallet, TypeOK, Keychains
    <2>2. TypeOK'
      BY <1>4, <2>1 DEF new_address, Wallet, TypeOK
    <2>3. QED
      BY <1>4, <2>2, OthersKept DEF new_address
  <1>5. ASSUME NEW i \in 0 .. MaxIndex, receive(i) PROVE Wallet'
    <2>1. <<0, i>> \in Terminals /\ commits + 1 \in Commitments /\ commits' \in 0 .. MaxCommits
      BY <1>5, FlowAssumption DEF receive, Wallet, TypeOK, Terminals, Keychains, Commitments
    <2>2. TypeOK'
      BY <1>5, <2>1 DEF receive, Wallet, TypeOK
    <2>3. QED
      BY <1>5, <2>2, OthersKept DEF receive
  <1>6. QED
    BY <1>1, <1>2, <1>3, <1>4, <1>5, CreateStep, BroadcastStep, TweakStep DEF Next

\* The invariant holds in every reachable state.
LEMMA WalletInvariant == Spec => []Wallet
  BY InitWallet, NextWallet, PTL DEF Spec
-----------------------------------------------------------------------------
(* What follows.                                                           *)

\* The wallet, its descriptor and the PSBT keep their types.
THEOREM TypeCorrect == Spec => []TypeOK
  BY WalletInvariant, PTL DEF Wallet

\* The output that create_psbt flags as host, in a BP or a BDK wallet, is the
\* one that dbc_output finds by its script, and meta says whether it is the
\* change.
THEOREM HostIsPlaced == Spec => []HostPlaced
  BY WalletInvariant, PTL DEF Wallet

\* change_vout and beneficiary_vout name the outputs they are about in the PSBT
\* that is handed out: the BDK provider takes them before set_opret_host, which
\* inserts no output as the builder has made one, and the BP provider after the
\* host was added and the outputs were sorted.
THEOREM VoutsAreRight == Spec => []VoutsPointRight
  BY WalletInvariant, PTL DEF Wallet

\* The descriptor has the tweak of every output of the wallet that carries a
\* commitment: of its own change since transfer, of what it was paid since
\* try_add_tapret_tweak.
THEOREM OutputsAreDerivable == Spec => []OutputsDerivable
  BY WalletInvariant, PTL DEF Wallet
=============================================================================
