------------------------- MODULE ContractConsumers -------------------------
(***************************************************************************)
(* The value of PSBT_GLOBAL_RGB_CONSUMED_BY for one contract, as bytes:    *)
(* OpoutAndOpids::serialize and ::deserialize (psbt/src/lib.rs), and       *)
(* set_rgb_contract_consumer, which decodes the value, adds a claim and    *)
(* encodes it again.  RgbPsbt takes the value as a map; this module checks *)
(* that the bytes behave as one.  A PSBT passes through other programs and *)
(* files, where a value may lose its tail.                                 *)
(***************************************************************************)
EXTENDS Naturals, Sequences, FiniteSets

CONSTANTS
    IdLen,    \* size of an OpId in bytes (32 in the code)
    Opouts,   \* allocations: op (an OpId), ty and no (both u16)
    OpIds,    \* operations, as sequences of bytes
    None, Err

Byte == 0 .. 255
U16 == {n \in Nat : n \div 256 \in Byte}   \* below 2^16
Ids == [1 .. IdLen -> Byte]
item_size == IdLen + 2 + 2 + IdLen
MaxLen == Cardinality(Opouts) * item_size

\* The maps from allocations to the operations that consume them.
Maps == UNION {[D -> OpIds] : D \in SUBSET Opouts}
NoItems == [o \in {} |-> None]

ASSUME ConsumersAssumption ==
    /\ IdLen \in Nat \ {0}
    /\ OpIds \subseteq Ids
    /\ Opouts \subseteq [op : Ids, ty : U16, no : U16] /\ IsFiniteSet(Opouts)
ASSUME NoneAssumption == None \notin Seq(Byte)
ASSUME ErrAssumption == Err \notin Maps

VARIABLES
    value,     \* the bytes under the key, or None
    claimed,   \* the claims that were answered with Ok
    cut        \* the value has lost bytes

vars == <<value, claimed, cut>>

Init == value = None /\ claimed = NoItems /\ cut = FALSE
-----------------------------------------------------------------------------
(* The byte form.                                                          *)

to_le_bytes(n) == <<n % 256, n \div 256>>

\* Mutant: the bytes are taken in the opposite order.
Mut_from_le_bytes(b) == b[2] + 256 * b[1]

from_le_bytes(b) == b[1] + 256 * b[2]

\* The order of a BTreeMap with Opout keys, whose fields are compared in turn.
Key(o) == o.op \o <<o.ty, o.no>>
Precedes(a, b) ==
    \E i \in DOMAIN Key(a) :
        Key(a)[i] < Key(b)[i] /\ \A j \in 1 .. i - 1 : Key(a)[j] = Key(b)[j]

\* The keys of the map, in its order.
Ascending(S) ==
    CHOOSE keys \in [1 .. Cardinality(S) -> S] :
        \A i, j \in 1 .. Cardinality(S) : i < j => Precedes(keys[i], keys[j])

Item(o, t) == o.op \o to_le_bytes(o.ty) \o to_le_bytes(o.no) \o t

\* Chunks of item_size bytes one after the other.
Joined(chunks) ==
    [n \in 1 .. Len(chunks) * item_size |->
        chunks[1 + ((n - 1) \div item_size)][1 + ((n - 1) % item_size)]]

serialize(items) ==
    LET keys == Ascending(DOMAIN items)
    IN  Joined([i \in 1 .. Len(keys) |-> Item(keys[i], items[keys[i]])])

\* The opout and the consumer in a chunk of item_size bytes.
Decode(c) ==
    [opout |-> [op |-> SubSeq(c, 1, IdLen),
                ty |-> from_le_bytes(SubSeq(c, IdLen + 1, IdLen + 2)),
                no |-> from_le_bytes(SubSeq(c, IdLen + 3, IdLen + 4))],
     opid |-> SubSeq(c, IdLen + 5, item_size)]

\* Mutant: the length is not checked and the remainder is left out.
Mut_BadLength(bytes) == FALSE

BadLength(bytes) == Len(bytes) % item_size # 0

\* chunks_exact
Chunk(bytes, k) == SubSeq(bytes, (k - 1) * item_size + 1, k * item_size)

\* Err, or the map; of chunks with the same opout the last one counts.
deserialize(bytes) ==
    LET ks == 1 .. Len(bytes) \div item_size
        item == [k \in ks |-> Decode(Chunk(bytes, k))]
        LastOf(o) == CHOOSE k \in ks : /\ item[k].opout = o
                                     /\ \A j \in ks : item[j].opout = o => j <= k
    IN  IF BadLength(bytes) THEN Err
        ELSE [o \in {item[k].opout : k \in ks} |-> item[LastOf(o)].opid]
-----------------------------------------------------------------------------
\* The map under the key, empty if it is absent.
Items == IF value = None THEN NoItems ELSE deserialize(value)

\* Mutant: a new map is made instead of an insertion.
Mut_WithItem(items, o, t) == [x \in {o} |-> t]

\* The map with the claim of t on o.
WithItem(items, o, t) ==
    [x \in DOMAIN items \cup {o} |-> IF x = o THEN t ELSE items[x]]

\* The input has another consumer.
Conflict(items, o, t) == o \in DOMAIN items /\ items[o] # t

\* Returns Ok(true), or Ok(false) if the claim is there.
set_rgb_contract_consumer(o, t) ==
    /\ Items # Err
    /\ ~ Conflict(Items, o, t)
    /\ value' = IF o \in DOMAIN Items THEN value ELSE serialize(WithItem(Items, o, t))
    /\ claimed' = WithItem(claimed, o, t)
    /\ UNCHANGED cut

\* InvalidOpoutAndOpidsData or DoubleSpend.
set_rgb_contract_consumer_fails(o, t) ==
    /\ Items # Err => Conflict(Items, o, t)
    /\ UNCHANGED vars

\* External: the value loses its last n bytes.
Truncate(n) ==
    /\ value # None /\ ~ cut
    /\ n \in 1 .. Len(value)
    /\ value' = SubSeq(value, 1, Len(value) - n)
    /\ cut' = TRUE
    /\ UNCHANGED claimed

Next ==
    \/ \E o \in Opouts, t \in OpIds : set_rgb_contract_consumer(o, t)
    \/ \E o \in Opouts, t \in OpIds : set_rgb_contract_consumer_fails(o, t)
    \/ \E n \in 1 .. MaxLen : Truncate(n)

Spec == Init /\ [][Next]_vars
-----------------------------------------------------------------------------
(* Properties.                                                             *)

\* The bytes hold exactly the claims that were accepted, in whatever order
\* they came, so that what rgb_bundles reads is what push_rgb_transition
\* promised.
ClaimsDecoded == ~ cut => Items = claimed

\* A value that lost its tail is refused, unless whole claims are missing: it
\* is never read as other claims, and no bytes of it are passed over.
TruncationDetected ==
    cut /\ Items # Err =>
        /\ \A o \in DOMAIN Items : o \in DOMAIN claimed /\ Items[o] = claimed[o]
        /\ serialize(Items) = value

\* An input that has a consumer in the value keeps it: encoding the value
\* again never changes or drops an earlier claim.
ClaimsKept ==
    [][Items # Err /\ cut' = cut =>
         \A o \in DOMAIN Items : o \in DOMAIN Items' /\ Items'[o] = Items[o]]_vars
=============================================================================
