---------------------- MODULE ContractConsumersProofs ----------------------
(***************************************************************************)
(* The bytes of ContractConsumers are a map, for identifiers of any length *)
(* and any number of allocations.  Encoding and decoding are inverse to    *)
(* each other because the items have one size and their keys differ; a     *)
(* value that loses whole items is the encoding of a smaller map because   *)
(* the order of the keys does not depend on what comes after them.         *)
(***************************************************************************)
EXTENDS ContractConsumers, SetInduction, SequenceTheorems

(* Positions.                                                              *)

LEMMA SizeType == item_size \in Nat /\ item_size >= 1 /\ item_size = IdLen + 4 + IdLen
                  /\ IdLen \in Nat /\ IdLen >= 1
  BY ConsumersAssumption DEF item_size

\* A number of whole chunks more is at least one chunk more.
LEMMA WholeChunks ==
    ASSUME NEW z \in Nat, NEW d \in Nat, d >= 1
    PROVE  d * z >= z
  OBVIOUS

\* Quotient and remainder.
LEMMA Division ==
    ASSUME NEW z \in Nat, z >= 1, NEW a \in Nat
    PROVE  /\ a \div z \in Nat /\ a % z \in 0 .. z - 1
           /\ a = z * (a \div z) + (a % z)
  OBVIOUS

\* Quotient and remainder are unique.
LEMMA Position ==
    ASSUME NEW z \in Nat, z >= 1, NEW q \in Nat, NEW r \in 0 .. z - 1
    PROVE  (q * z + r) \div z = q /\ (q * z + r) % z = r
  <1> DEFINE a == q * z + r
             d == a \div z
             m == a % z
  <1>1. a \in Nat /\ d \in Nat /\ m \in 0 .. z - 1 /\ a = z * d + m
    OBVIOUS
  <1>2. QED
    BY <1>1

-----------------------------------------------------------------------------
(* One item.                                                               *)

\* A two-byte number survives.
LEMMA NumberDecoded ==
    ASSUME NEW n \in U16
    PROVE  /\ n % 256 \in Byte /\ n \div 256 \in Byte
           /\ (n % 256) + 256 * (n \div 256) = n
  <1>1. n \in Nat /\ n \div 256 \in Byte
    BY DEF U16
  <1> DEFINE d == n \div 256
             r == n % 256
  <1>2. 256 \in Nat /\ 256 >= 1
    OBVIOUS
  <1>3. d \in Nat /\ r \in 0 .. 256 - 1 /\ n = 256 * d + r
    BY <1>1, <1>2, Division
  <1> HIDE DEF d, r
  <1>4. r \in 0 .. 255 /\ r + 256 * d = n
    BY <1>1, <1>3
  <1>5. QED
    BY <1>1, <1>4 DEF Byte, d, r

\* Two sequences one after the other, by their elements.
LEMMA ConcatElements ==
    ASSUME NEW S, NEW s \in Seq(S), NEW t \in Seq(S)
    PROVE  /\ s \o t \in Seq(S) /\ Len(s \o t) = Len(s) + Len(t)
           /\ \A i \in 1 .. Len(s) : (s \o t)[i] = s[i]
           /\ \A i \in 1 .. Len(t) : (s \o t)[Len(s) + i] = t[i]
  OBVIOUS

\* Where the fields of an item are.
LEMMA ItemBytes ==
    ASSUME NEW o \in Opouts, NEW t \in OpIds
    PROVE  /\ Item(o, t) \in Seq(Byte) /\ Len(Item(o, t)) = item_size
           /\ \A i \in 1 .. IdLen : Item(o, t)[i] = o.op[i] /\ Item(o, t)[IdLen + 4 + i] = t[i]
           /\ Item(o, t)[IdLen + 1] = o.ty % 256 /\ Item(o, t)[IdLen + 2] = o.ty \div 256
           /\ Item(o, t)[IdLen + 3] = o.no % 256 /\ Item(o, t)[IdLen + 4] = o.no \div 256
  <1> DEFINE op == o.op
             ty == to_le_bytes(o.ty)
             no == to_le_bytes(o.no)
             a == op \o ty
             b == a \o no
             c == b \o t
  <1>0. IdLen \in Nat /\ IdLen >= 1 /\ item_size = IdLen + 4 + IdLen
    BY SizeType
  <1>1. o.op \in Ids /\ o.ty \in U16 /\ o.no \in U16 /\ t \in Ids
    BY ConsumersAssumption
  <1>2. op \in Seq(Byte) /\ t \in Seq(Byte) /\ Len(op) = IdLen /\ Len(t) = IdLen
    BY <1>0, <1>1 DEF Ids
  <1>3. ty \in Seq(Byte) /\ Len(ty) = 2 /\ ty[1] = o.ty % 256 /\ ty[2] = o.ty \div 256
    BY <1>1, NumberDecoded DEF to_le_bytes
  <1>4. no \in Seq(Byte) /\ Len(no) = 2 /\ no[1] = o.no % 256 /\ no[2] = o.no \div 256
    BY <1>1, NumberDecoded DEF to_le_bytes
  <1>5. Item(o, t) = c
    BY DEF Item
  <1> HIDE DEF op, ty, no
  <1>6. /\ a \in Seq(Byte) /\ Len(a) = IdLen + 2 /\ \A i \in 1 .. IdLen : a[i] = op[i]
        /\ a[IdLen + 1] = ty[1] /\ a[IdLen + 2] = ty[2]
    <2>1. 1 \in 1 .. 2 /\ 2 \in 1 .. 2
      OBVIOUS
    <2>2. /\ a \in Seq(Byte) /\ Len(a) = Len(op) + Len(ty)
          /\ \A i \in 1 .. Len(op) : a[i] = op[i]
          /\ \A i \in 1 .. Len(ty) : a[Len(op) + i] = ty[i]
      <3>1. op \in Seq(Byte) /\ ty \in Seq(Byte)
        BY <1>2, <1>3
      <3>2. QED
        BY <3>1
    <2> HIDE DEF a
    <2>3. QED
      BY <1>0, <1>2, <1>3, <2>1, <2>2
  <1> HIDE DEF a
  <1>7. /\ b \in Seq(Byte) /\ Len(b) = IdLen + 4 /\ \A i \in 1 .. IdLen + 2 : b[i] = a[i]
        /\ b[IdLen + 3] = no[1] /\ b[IdLen + 4] = no[2]
    <2>1. 1 \in 1 .. 2 /\ 2 \in 1 .. 2 /\ IdLen + 2 + 1 = IdLen + 3 /\ IdLen + 2 + 2 = IdLen + 4
      BY <1>0
    <2>2. /\ b \in Seq(Byte) /\ Len(b) = Len(a) + Len(no)
          /\ \A i \in 1 .. Len(a) : b[i] = a[i]
          /\ \A i \in 1 .. Len(no) : b[Len(a) + i] = no[i]
      <3>1. a \in Seq(Byte) /\ no \in Seq(Byte)
        BY <1>4, <1>6
      <3>2. QED
        BY <3>1
    <2> HIDE DEF b
    <2>3. QED
      BY <1>0, <1>4, <1>6, <2>1, <2>2
  <1> HIDE DEF b
  <1>8. /\ c \in Seq(Byte) /\ Len(c) = IdLen + 4 + IdLen /\ \A i \in 1 .. IdLen + 4 : c[i] = b[i]
        /\ \A i \in 1 .. IdLen : c[IdLen + 4 + i] = t[i]
    <2>1. /\ c \in Seq(Byte) /\ Len(c) = Len(b) + Len(t)
          /\ \A i \in 1 .. Len(b) : c[i] = b[i]
          /\ \A i \in 1 .. Len(t) : c[Len(b) + i] = t[i]
      <3>1. b \in Seq(Byte) /\ t \in Seq(Byte)
        BY <1>2, <1>7
      <3>2. QED
        BY <3>1
    <2> HIDE DEF c
    <2>2. QED
      BY <1>0, <1>2, <1>7, <2>1
  <1> HIDE DEF c
  <1>9. /\ \A i \in 1 .. IdLen : c[i] = op[i]
        /\ c[IdLen + 1] = ty[1] /\ c[IdLen + 2] = ty[2]
        /\ c[IdLen + 3] = no[1] /\ c[IdLen + 4] = no[2]
    BY <1>0, <1>6, <1>7, <1>8
  <1>10. QED
    BY <1>0, <1>3, <1>4, <1>5, <1>8, <1>9 DEF op

\* SubSeq, by its elements.
LEMMA SubSeqElements ==
    ASSUME NEW S, NEW s \in Seq(S), NEW m \in Nat, NEW n \in Nat,
           1 <= m, m <= n + 1, n <= Len(s)
    PROVE  /\ SubSeq(s, m, n) \in Seq(S) /\ Len(SubSeq(s, m, n)) = n - m + 1
           /\ \A i \in 1 .. n - m + 1 : SubSeq(s, m, n)[i] = s[m + i - 1]
           /\ SubSeq(s, m, n) = [i \in 1 .. n - m + 1 |-> s[m + i - 1]]
  OBVIOUS

\* Decoding an item gives back the allocation and the operation.
LEMMA ItemDecoded ==
    ASSUME NEW o \in Opouts, NEW t \in OpIds
    PROVE  Decode(Item(o, t)) = [opout |-> o, opid |-> t]
  <1> DEFINE c == Item(o, t)
             e == SubSeq(c, 1, IdLen)
             ty == SubSeq(c, IdLen + 1, IdLen + 2)
             no == SubSeq(c, IdLen + 3, IdLen + 4)
             u == SubSeq(c, IdLen + 5, item_size)
  <1>0. IdLen \in Nat /\ IdLen >= 1 /\ item_size = IdLen + 4 + IdLen
    BY SizeType
  <1>1. o \in [op : Ids, ty : U16, no : U16] /\ t \in Ids
    BY ConsumersAssumption
  <1>2. /\ c \in Seq(Byte) /\ Len(c) = item_size
        /\ \A i \in 1 .. IdLen : c[i] = o.op[i] /\ c[IdLen + 4 + i] = t[i]
        /\ c[IdLen + 1] = o.ty % 256 /\ c[IdLen + 2] = o.ty \div 256
        /\ c[IdLen + 3] = o.no % 256 /\ c[IdLen + 4] = o.no \div 256
    BY ItemBytes
  <1>3. Decode(c) = [opout |-> [op |-> e, ty |-> from_le_bytes(ty), no |-> from_le_bytes(no)],
                     opid |-> u]
    BY DEF Decode
  <1> HIDE DEF c
  <1>4. e = o.op
    <2>1. e = [i \in 1 .. IdLen |-> c[i]]
      BY <1>0, <1>2, SubSeqElements
    <2>2. o.op = [i \in 1 .. IdLen |-> o.op[i]]
      BY <1>1 DEF Ids
    <2>3. QED
      BY <1>2, <2>1, <2>2
  <1>5. u = t
    <2>1. u \in Seq(Byte) /\ Len(u) = IdLen /\ \A i \in 1 .. IdLen : u[i] = c[IdLen + 5 + i - 1]
      BY <1>0, <1>2, SubSeqElements
    <2> HIDE DEF u
    <2>2. \A i \in 1 .. IdLen : u[i] = t[i]
      <3> SUFFICES ASSUME NEW i \in 1 .. IdLen PROVE u[i] = t[i]
        OBVIOUS
      <3>1. IdLen + 5 + i - 1 = IdLen + 4 + i
        BY <1>0
      <3>2. u[i] = c[IdLen + 5 + i - 1] /\ c[IdLen + 4 + i] = t[i]
        BY <1>2, <2>1
      <3>3. QED
        BY <3>1, <3>2
    <2>3. t = [i \in 1 .. IdLen |-> t[i]]
      BY <1>1 DEF Ids
    <2>4. u = [i \in 1 .. IdLen |-> u[i]]
      BY <2>1
    <2>5. QED
      BY <2>2, <2>3, <2>4
  <1>6. from_le_bytes(ty) = o.ty
    <2>1. ty[1] = c[IdLen + 1] /\ ty[2] = c[IdLen + 2]
      <3>1. \A i \in 1 .. 2 : ty[i] = c[IdLen + 1 + i - 1]
        BY <1>0, <1>2, SubSeqElements
      <3>2. IdLen + 1 + 1 - 1 = IdLen + 1 /\ IdLen + 1 + 2 - 1 = IdLen + 2
        BY <1>0
      <3>3. 1 \in 1 .. 2 /\ 2 \in 1 .. 2
        OBVIOUS
      <3>4. QED
        BY <3>1, <3>2, <3>3
    <2> HIDE DEF ty
    <2>2. o.ty \in U16
      BY <1>1
    <2>3. (o.ty % 256) + 256 * (o.ty \div 256) = o.ty
      BY <2>2, NumberDecoded
    <2>4. from_le_bytes(ty) = ty[1] + 256 * ty[2]
      BY DEF from_le_bytes
    <2>5. QED
      BY <1>2, <2>1, <2>3, <2>4
  <1>7. from_le_bytes(no) = o.no
    <2>1. no[1] = c[IdLen + 3] /\ no[2] = c[IdLen + 4]
      <3>1. \A i \in 1 .. 2 : no[i] = c[IdLen + 3 + i - 1]
        BY <1>0, <1>2, SubSeqElements
      <3>2. IdLen + 3 + 1 - 1 = IdLen + 3 /\ IdLen + 3 + 2 - 1 = IdLen + 4
        BY <1>0
      <3>3. 1 \in 1 .. 2 /\ 2 \in 1 .. 2
        OBVIOUS
      <3>4. QED
        BY <3>1, <3>2, <3>3
    <2> HIDE DEF no
    <2>2. o.no \in U16
      BY <1>1
    <2>3. (o.no % 256) + 256 * (o.no \div 256) = o.no
      BY <2>2, NumberDecoded
    <2>4. from_le_bytes(no) = no[1] + 256 * no[2]
      BY DEF from_le_bytes
    <2>5. QED
      BY <1>2, <2>1, <2>3, <2>4
  <1> HIDE DEF e, u
  <1>8. o = [op |-> o.op, ty |-> o.ty, no |-> o.no]
    BY <1>1
  <1>9. QED
    BY <1>3, <1>4, <1>5, <1>6, <1>7, <1>8 DEF c
-----------------------------------------------------------------------------
(* The order of the keys.                                                  *)

KeyLen == IdLen + 2

LEMMA NumbersAreNatural == (\A n \in U16 : n \in Nat) /\ (\A n \in Byte : n \in Nat)
  BY DEF U16, Byte

LEMMA KeyType ==
    ASSUME NEW a \in Opouts
    PROVE  /\ Key(a) \in Seq(Nat) /\ Len(Key(a)) = KeyLen /\ DOMAIN Key(a) = 1 .. KeyLen
           /\ \A i \in 1 .. KeyLen : Key(a)[i] \in Nat
           /\ \A i \in 1 .. IdLen : Key(a)[i] = a.op[i]
           /\ Key(a)[IdLen + 1] = a.ty /\ Key(a)[IdLen + 2] = a.no
  <1> DEFINE op == a.op
             rest == <<a.ty, a.no>>
             k == op \o rest
  <1>0. IdLen \in Nat /\ IdLen >= 1
    BY SizeType
  <1>1. a.op \in Ids /\ a.ty \in Nat /\ a.no \in Nat
    <2>1. a.op \in Ids /\ a.ty \in U16 /\ a.no \in U16
      BY ConsumersAssumption
    <2>2. QED
      BY <2>1, NumbersAreNatural
  <1>2. op \in Seq(Nat) /\ Len(op) = IdLen
    <2>1. a.op \in [1 .. IdLen -> Nat]
      BY <1>1, NumbersAreNatural DEF Ids
    <2>2. QED
      BY <1>0, <2>1
  <1>3. rest \in Seq(Nat) /\ Len(rest) = 2 /\ rest[1] = a.ty /\ rest[2] = a.no
    BY <1>1
  <1>4. Key(a) = k
    BY DEF Key
  <1> HIDE DEF op, rest
  <1>5. /\ k \in Seq(Nat) /\ Len(k) = IdLen + 2
        /\ \A i \in 1 .. IdLen : k[i] = op[i]
        /\ \A i \in 1 .. 2 : k[IdLen + i] = rest[i]
    <2>1. op \in Seq(Nat) /\ rest \in Seq(Nat)
      BY <1>2, <1>3
    <2>2. /\ k \in Seq(Nat) /\ Len(k) = Len(op) + Len(rest)
          /\ \A i \in 1 .. Len(op) : k[i] = op[i]
          /\ \A i \in 1 .. Len(rest) : k[Len(op) + i] = rest[i]
      BY <2>1
    <2>3. QED
      BY <1>2, <1>3, <2>2, Zenon
  <1> HIDE DEF k
  <1>6. 1 \in 1 .. 2 /\ 2 \in 1 .. 2
    OBVIOUS
  <1>7. k[IdLen + 1] = a.ty /\ k[IdLen + 2] = a.no
    BY <1>3, <1>5, <1>6
  <1>8. DOMAIN k = 1 .. KeyLen /\ \A i \in 1 .. KeyLen : k[i] \in Nat
    BY <1>0, <1>5 DEF KeyLen
  <1>9. QED
    BY <1>4, <1>5, <1>7, <1>8 DEF KeyLen, op

LEMMA KeyLenType == KeyLen \in Nat /\ KeyLen = IdLen + 2 /\ IdLen \in Nat
  BY SizeType DEF KeyLen

\* Allocations that agree in every position of the key are the same.
LEMMA KeyInjective ==
    ASSUME NEW a \in Opouts, NEW b \in Opouts,
           \A i \in 1 .. KeyLen : Key(a)[i] = Key(b)[i]
    PROVE  a = b
  <1>1. IdLen + 1 \in 1 .. KeyLen /\ IdLen + 2 \in 1 .. KeyLen /\ 1 .. IdLen \subseteq 1 .. KeyLen
    BY KeyLenType
  <1>2. a.ty = b.ty /\ a.no = b.no /\ \A i \in 1 .. IdLen : a.op[i] = b.op[i]
    BY <1>1, KeyType
  <1>3. /\ a \in [op : Ids, ty : U16, no : U16] /\ b \in [op : Ids, ty : U16, no : U16]
    BY ConsumersAssumption
  <1>4. a.op = b.op
    <2>1. a.op \in [1 .. IdLen -> Byte] /\ b.op \in [1 .. IdLen -> Byte]
      BY <1>3 DEF Ids
    <2>2. a.op = [i \in 1 .. IdLen |-> a.op[i]] /\ b.op = [i \in 1 .. IdLen |-> b.op[i]]
      BY <2>1
    <2>3. QED
      BY <1>2, <2>2
  <1>5. /\ a = [op |-> a.op, ty |-> a.ty, no |-> a.no]
        /\ b = [op |-> b.op, ty |-> b.ty, no |-> b.no]
    BY <1>3
  <1>6. QED
    BY <1>2, <1>4, <1>5

\* Different allocations are ordered, at the first position that differs.
LEMMA PrecedesTotal ==
    ASSUME NEW a \in Opouts, NEW b \in Opouts, a # b
    PROVE  Precedes(a, b) \/ Precedes(b, a)
  <1> DEFINE D == {i \in 1 .. KeyLen : Key(a)[i] # Key(b)[i]}
  <1>0. KeyLen \in Nat
    BY KeyLenType
  <1>1. D # {}
    BY KeyInjective
  <1>2. D \in SUBSET Nat
    BY <1>0
  <1>3. PICK i \in D : \A j \in D : i <= j
    <2> HIDE DEF D
    <2>1. QED
      BY <1>1, <1>2, LeastNat
  <1>4. \A j \in 1 .. i - 1 : Key(a)[j] = Key(b)[j]
    <2> SUFFICES ASSUME NEW j \in 1 .. i - 1, j \in D PROVE FALSE
      BY <1>0
    <2>1. i <= j
      BY <1>3
    <2>2. QED
      BY <1>0, <2>1
  <1>5. /\ i \in 1 .. KeyLen /\ Key(a)[i] \in Nat /\ Key(b)[i] \in Nat /\ Key(a)[i] # Key(b)[i]
        /\ DOMAIN Key(a) = 1 .. KeyLen /\ DOMAIN Key(b) = 1 .. KeyLen
    BY KeyType
  <1>6. Key(a)[i] < Key(b)[i] \/ Key(b)[i] < Key(a)[i]
    BY <1>5
  <1>7. QED
    BY <1>4, <1>5, <1>6 DEF Precedes

\* The order, with positions in place of domains.
LEMMA PrecedesAt ==
    ASSUME NEW a \in Opouts, NEW b \in Opouts, Precedes(a, b)
    PROVE  \E i \in 1 .. KeyLen : /\ Key(a)[i] < Key(b)[i]
                                  /\ \A j \in 1 .. i - 1 : Key(a)[j] = Key(b)[j]
  BY KeyType DEF Precedes

LEMMA PrecedesTransitive ==
    ASSUME NEW a \in Opouts, NEW b \in Opouts, NEW c \in Opouts, Precedes(a, b), Precedes(b, c)
    PROVE  Precedes(a, c)
  <1>0. KeyLen \in Nat
    BY KeyLenType
  <1>1. PICK i \in 1 .. KeyLen : Key(a)[i] < Key(b)[i] /\ \A j \in 1 .. i - 1 : Key(a)[j] = Key(b)[j]
    BY PrecedesAt
  <1>2. PICK k \in 1 .. KeyLen : Key(b)[k] < Key(c)[k] /\ \A j \in 1 .. k - 1 : Key(b)[j] = Key(c)[j]
    BY PrecedesAt
  <1> DEFINE l == IF i <= k THEN i ELSE k
  <1>3. \A j \in 1 .. KeyLen : Key(a)[j] \in Nat /\ Key(b)[j] \in Nat /\ Key(c)[j] \in Nat
    BY KeyType
  <1>4. \A j \in 1 .. l - 1 : Key(a)[j] = Key(c)[j]
    BY <1>0, <1>1, <1>2
  <1>5. Key(a)[l] < Key(c)[l]
    <2>1. CASE i < k
      BY <1>0, <1>1, <1>2, <1>3, <2>1
    <2>2. CASE i = k
      BY <1>0, <1>1, <1>2, <1>3, <2>2
    <2>3. CASE k < i
      BY <1>0, <1>1, <1>2, <1>3, <2>3
    <2>4. QED
      BY <1>0, <2>1, <2>2, <2>3
  <1>6. l \in DOMAIN Key(a)
    BY KeyType
  <1>7. QED
    BY <1>4, <1>5, <1>6 DEF Precedes

LEMMA PrecedesIrreflexive ==
    ASSUME NEW a \in Opouts
    PROVE  ~ Precedes(a, a)
  BY PrecedesAt, KeyType

LEMMA PrecedesAsymmetric ==
    ASSUME NEW a \in Opouts, NEW b \in Opouts
    PROVE  ~ (Precedes(a, b) /\ Precedes(b, a))
  BY PrecedesTransitive, PrecedesIrreflexive
-----------------------------------------------------------------------------
(* The keys of a map in their order.                                       *)

\* keys lists S in its order.
Lists(keys, S) ==
    /\ keys \in [1 .. Cardinality(S) -> S]
    /\ \A i, j \in 1 .. Cardinality(S) : i < j => Precedes(keys[i], keys[j])

LEMMA FiniteSubset ==
    ASSUME NEW S \in SUBSET Opouts
    PROVE  IsFiniteSet(S) /\ Cardinality(S) \in Nat
  BY ConsumersAssumption, FS_Subset, FS_CardinalityType

\* A set of allocations has a last one.
LEMMA LastExists ==
    ASSUME NEW S \in SUBSET Opouts, S # {}
    PROVE  \E x \in S : \A y \in S \ {x} : Precedes(y, x)
  <1> DEFINE P == {s \in SUBSET Opouts : s # {} => \E x \in s : \A y \in s \ {x} : Precedes(y, x)}
  <1>1. IsFiniteSet(Opouts)
    BY ConsumersAssumption
  <1>2. ASSUME NEW s \in SUBSET Opouts, \A x \in s : s \ {x} \in P
        PROVE  s \in P
    <2> SUFFICES ASSUME NEW z \in s PROVE \E x \in s : \A y \in s \ {x} : Precedes(y, x)
      OBVIOUS
    <2>1. CASE s \ {z} = {}
      BY <2>1
    <2>2. CASE s \ {z} # {}
      <3>1. PICK x \in s \ {z} : \A y \in (s \ {z}) \ {x} : Precedes(y, x)
        BY <1>2, <2>2
      <3>2. x \in Opouts /\ z \in Opouts /\ x # z /\ x \in s
        OBVIOUS
      <3>3. CASE Precedes(z, x)
        <4>1. \A y \in s \ {x} : Precedes(y, x)
          BY <3>1, <3>3
        <4>2. QED
          BY <3>2, <4>1
      <3>4. CASE Precedes(x, z)
        <4>1. ASSUME NEW y \in s \ {z} PROVE Precedes(y, z)
          <5>1. CASE y = x
            BY <3>4, <5>1
          <5>2. CASE y # x
            <6>1. Precedes(y, x) /\ y \in Opouts
              BY <3>1, <5>2
            <6>2. QED
              BY <3>2, <3>4, <6>1, PrecedesTransitive
          <5>3. QED
            BY <5>1, <5>2
        <4>2. QED
          BY <4>1
      <3>5. QED
        BY <3>2, <3>3, <3>4, PrecedesTotal
    <2>3. QED
      BY <2>1, <2>2
  <1>3. P \in SUBSET (SUBSET Opouts)
    OBVIOUS
  <1>4. P = SUBSET Opouts
    <2> HIDE DEF P
    <2>1. QED
      BY <1>1, <1>2, <1>3, SubsetInduction
  <1>5. QED
    BY <1>4

\* A set of allocations can be listed in its order: its last one at the end.
LEMMA ListExists ==
    ASSUME NEW S \in SUBSET Opouts
    PROVE  \E keys : Lists(keys, S)
  <1> DEFINE P == {s \in SUBSET Opouts : \E keys : Lists(keys, s)}
  <1>1. IsFiniteSet(Opouts)
    BY ConsumersAssumption
  <1>2. ASSUME NEW s \in SUBSET Opouts, \A x \in s : s \ {x} \in P
        PROVE  s \in P
    <2>0. IsFiniteSet(s) /\ Cardinality(s) \in Nat
      BY FiniteSubset
    <2>1. CASE s = {}
      <3>1. Cardinality(s) = 0
        BY <2>1, FS_EmptySet
      <3>2. 1 .. Cardinality(s) = {}
        BY <3>1
      <3>3. Lists([i \in {} |-> 0], s)
        BY <3>2 DEF Lists
      <3>4. QED
        BY <3>3
    <2>2. CASE s # {}
      <3>1. PICK x \in s : \A y \in s \ {x} : Precedes(y, x)
        BY <2>2, LastExists
      <3>2. PICK f : Lists(f, s \ {x})
        BY <1>2
      <3> DEFINE n == Cardinality(s)
                 g == [i \in 1 .. n |-> IF i = n THEN x ELSE f[i]]
      <3>3. n \in Nat /\ Cardinality(s \ {x}) = n - 1
        BY <2>0, FS_RemoveElement
      <3> HIDE DEF n
      <3>4. /\ f \in [1 .. n - 1 -> s \ {x}]
            /\ \A i, j \in 1 .. n - 1 : i < j => Precedes(f[i], f[j])
        BY <3>2, <3>3 DEF Lists
      <3>5. g \in [1 .. n -> s]
        BY <3>3, <3>4
      <3>6. ASSUME NEW i \in 1 .. n, NEW j \in 1 .. n, i < j PROVE Precedes(g[i], g[j])
        <4>1. i \in 1 .. n - 1 /\ g[i] = f[i] /\ f[i] \in s \ {x}
          BY <3>3, <3>4, <3>6
        <4>2. CASE j = n
          BY <3>1, <4>1, <4>2
        <4>3. CASE j # n
          <5>1. j \in 1 .. n - 1 /\ g[j] = f[j]
            BY <3>3, <4>3
          <5>2. QED
            BY <3>4, <3>6, <4>1, <5>1
        <4>4. QED
          BY <4>2, <4>3
      <3> HIDE DEF g
      <3>7. Lists(g, s)
        BY <3>5, <3>6 DEF Lists, n
      <3>8. QED
        BY <3>7
    <2>3. QED
      BY <2>1, <2>2
  <1>3. P \in SUBSET (SUBSET Opouts)
    OBVIOUS
  <1>4. P = SUBSET Opouts
    <2> HIDE DEF P
    <2>1. QED
      BY <1>1, <1>2, <1>3, SubsetInduction
  <1>5. QED
    BY <1>4

LEMMA AscendingLists ==
    ASSUME NEW S \in SUBSET Opouts
    PROVE  Lists(Ascending(S), S)
  <1>1. PICK keys : Lists(keys, S)
    BY ListExists
  <1>2. QED
    BY <1>1 DEF Lists, Ascending

\* A list has every element once.
LEMMA ListsAll ==
    ASSUME NEW S \in SUBSET Opouts, NEW f, Lists(f, S)
    PROVE  /\ \A i, j \in 1 .. Cardinality(S) : f[i] = f[j] => i = j
           /\ \A x \in S : \E i \in 1 .. Cardinality(S) : f[i] = x
  <1> DEFINE n == Cardinality(S)
  <1>1. IsFiniteSet(S) /\ n \in Nat
    BY FiniteSubset
  <1> HIDE DEF n
  <1>2. f \in [1 .. n -> S] /\ \A i, j \in 1 .. n : i < j => Precedes(f[i], f[j])
    BY DEF Lists, n
  <1>3. ASSUME NEW i \in 1 .. n, NEW j \in 1 .. n, f[i] = f[j] PROVE i = j
    <2>1. f[i] \in Opouts
      BY <1>2
    <2>2. ~ (i < j) /\ ~ (j < i)
      BY <1>2, <1>3, <2>1, PrecedesIrreflexive
    <2>3. QED
      BY <1>1, <2>2
  <1>4. f \in Injection(1 .. n, S)
    BY <1>2, <1>3 DEF Injection, IsInjective
  <1>5. Cardinality(1 .. n) = n
    BY <1>1, FS_Interval
  <1>6. f \in Surjection(1 .. n, S)
    BY <1>1, <1>4, <1>5, FS_Injection DEF n
  <1>7. QED
    BY <1>3, <1>6 DEF Surjection, n

\* There is one list.
LEMMA ListUnique ==
    ASSUME NEW S \in SUBSET Opouts, NEW f, NEW g, Lists(f, S), Lists(g, S)
    PROVE  f = g
  <1> DEFINE n == Cardinality(S)
             D == {i \in 1 .. n : f[i] # g[i]}
  <1>1. n \in Nat
    BY FiniteSubset
  <1>2. /\ f \in [1 .. n -> S] /\ \A i, j \in 1 .. n : i < j => Precedes(f[i], f[j])
        /\ g \in [1 .. n -> S] /\ \A i, j \in 1 .. n : i < j => Precedes(g[i], g[j])
    BY DEF Lists
  <1>3. /\ \A i, j \in 1 .. n : f[i] = f[j] => i = j
        /\ \A x \in S : \E i \in 1 .. n : f[i] = x
        /\ \A i, j \in 1 .. n : g[i] = g[j] => i = j
        /\ \A x \in S : \E i \in 1 .. n : g[i] = x
    BY ListsAll
  <1> HIDE DEF n
  <1>4. SUFFICES ASSUME D # {} PROVE FALSE
    <2>1. f = [i \in 1 .. n |-> f[i]] /\ g = [i \in 1 .. n |-> g[i]]
      BY <1>2
    <2>2. D = {} => \A i \in 1 .. n : f[i] = g[i]
      OBVIOUS
    <2> HIDE DEF D
    <2>3. QED
      BY <2>1, <2>2
  <1>5. D \in SUBSET Nat
    BY <1>1
  <1>6. PICK i \in D : \A j \in D : i <= j
    <2> HIDE DEF D
    <2>1. QED
      BY <1>4, <1>5, LeastNat
  <1>7. i \in 1 .. n /\ f[i] # g[i] /\ \A j \in 1 .. n : j < i => f[j] = g[j]
    BY <1>1, <1>6
  <1>8. PICK j \in 1 .. n : g[j] = f[i]
    BY <1>2, <1>3, <1>7
  <1>9. PICK k \in 1 .. n : f[k] = g[i]
    BY <1>2, <1>3, <1>7
  <1>10. i < j /\ i < k
    BY <1>1, <1>3, <1>7, <1>8, <1>9
  <1>11. Precedes(g[i], f[i]) /\ Precedes(f[i], g[i])
    BY <1>2, <1>7, <1>8, <1>9, <1>10
  <1>12. f[i] \in Opouts /\ g[i] \in Opouts
    BY <1>2, <1>7
  <1>13. QED
    BY <1>11, <1>12, PrecedesAsymmetric
-----------------------------------------------------------------------------
(* Chunks.                                                                 *)

\* Positions in n chunks of z.
LEMMA Within ==
    ASSUME NEW z \in Nat, z >= 1, NEW n \in Nat, NEW k \in 1 .. n
    PROVE  /\ (k - 1) * z \in Nat /\ k * z \in Nat /\ n * z \in Nat
           /\ k * z = (k - 1) * z + z /\ k * z <= n * z
  <1>1. (k - 1) * z \in Nat /\ k * z \in Nat /\ n * z \in Nat /\ (n - k) * z \in Nat
    OBVIOUS
  <1>2. k * z = (k - 1) * z + z /\ n * z = k * z + (n - k) * z
    OBVIOUS
  <1>3. QED
    BY <1>1, <1>2

LEMMA ChunkOf ==
    ASSUME NEW z \in Nat, z >= 1, NEW n \in Nat, NEW a \in Nat, a < n * z
    PROVE  /\ a \div z \in 0 .. n - 1 /\ a % z \in 0 .. z - 1
           /\ a = (a \div z) * z + (a % z)
  <1> DEFINE d == a \div z
             m == a % z
  <1>1. d \in Nat /\ m \in 0 .. z - 1 /\ a = d * z + m
    OBVIOUS
  <1>2. d < n
    <2> HIDE DEF d, m
    <2> SUFFICES ASSUME n <= d PROVE FALSE
      BY <1>1
    <2>1. d - n \in Nat /\ (d - n) * z \in Nat /\ n * z \in Nat
      BY <1>1
    <2>2. d * z = n * z + (d - n) * z
      BY <1>1
    <2>3. QED
      BY <1>1, <2>1, <2>2
  <1>3. QED
    BY <1>1, <1>2

\* A chunk of bytes, by its elements.
LEMMA ChunkElements ==
    ASSUME NEW b \in Seq(Byte), NEW n \in Nat, n * item_size <= Len(b), NEW k \in 1 .. n
    PROVE  /\ Chunk(b, k) \in Seq(Byte) /\ Len(Chunk(b, k)) = item_size
           /\ \A i \in 1 .. item_size : Chunk(b, k)[i] = b[(k - 1) * item_size + i]
           /\ Chunk(b, k) = [i \in 1 .. item_size |-> b[(k - 1) * item_size + i]]
  <1> DEFINE z == item_size
             p == (k - 1) * z
             q == k * z
             nz == n * z
  <1>0. z \in Nat /\ z >= 1
    BY SizeType
  <1> HIDE DEF z
  <1>1. p \in Nat /\ q \in Nat /\ nz \in Nat /\ q = p + z /\ q <= nz
    BY <1>0, Within
  <1>2. Chunk(b, k) = SubSeq(b, p + 1, q) /\ nz <= Len(b)
    BY DEF Chunk, z
  <1> HIDE DEF p, q, nz
  <1>3. Len(b) \in Nat
    OBVIOUS
  <1>4. /\ SubSeq(b, p + 1, q) \in Seq(Byte) /\ Len(SubSeq(b, p + 1, q)) = q - (p + 1) + 1
        /\ \A i \in 1 .. q - (p + 1) + 1 : SubSeq(b, p + 1, q)[i] = b[(p + 1) + i - 1]
    BY <1>0, <1>1, <1>2, <1>3, SubSeqElements
  <1> DEFINE s == SubSeq(b, p + 1, q)
  <1> HIDE DEF s
  <1>5. q - (p + 1) + 1 = z
    BY <1>0, <1>1
  <1>6. s \in Seq(Byte) /\ Len(s) = z /\ \A i \in 1 .. z : s[i] = b[(p + 1) + i - 1]
    BY <1>4, <1>5 DEF s
  <1>7. \A i \in 1 .. z : s[i] = b[p + i]
    <2> SUFFICES ASSUME NEW i \in 1 .. z PROVE s[i] = b[p + i]
      OBVIOUS
    <2>1. (p + 1) + i - 1 = p + i
      BY <1>0, <1>1
    <2>2. QED
      BY <1>6, <2>1
  <1>8. s = [i \in 1 .. z |-> s[i]]
    BY <1>6
  <1>9. s = [i \in 1 .. z |-> b[p + i]]
    BY <1>7, <1>8
  <1>10. QED
    BY <1>2, <1>6, <1>7, <1>9 DEF s, p, z

\* Whole chunks joined have their length and are read back one by one.
LEMMA JoinedChunks ==
    ASSUME NEW n \in Nat, NEW cs \in [1 .. n -> Seq(Byte)],
           \A k \in 1 .. n : Len(cs[k]) = item_size
    PROVE  /\ Joined(cs) \in Seq(Byte) /\ Len(Joined(cs)) = n * item_size
           /\ \A k \in 1 .. n : Chunk(Joined(cs), k) = cs[k]
  <1> DEFINE z == item_size
             b == Joined(cs)
             at(x) == cs[1 + ((x - 1) \div z)][1 + ((x - 1) % z)]
  <1>0. z \in Nat /\ z >= 1 /\ n * z \in Nat
    BY SizeType
  <1>1. Len(cs) = n
    OBVIOUS
  <1>2. b = [i \in 1 .. n * z |-> at(i)]
    BY <1>1 DEF Joined
  <1>3. \A k \in 1 .. n : cs[k] \in Seq(Byte) /\ Len(cs[k]) = z
    OBVIOUS
  <1> HIDE DEF z
  <1>4. ASSUME NEW i \in 1 .. n * z PROVE at(i) \in Byte
    <2> DEFINE d == 1 + ((i - 1) \div z)
               m == 1 + ((i - 1) % z)
    <2>1. i - 1 \in Nat /\ i - 1 < n * z
      BY <1>0
    <2>2. d \in 1 .. n /\ m \in 1 .. z
      <3>1. (i - 1) \div z \in 0 .. n - 1 /\ (i - 1) % z \in 0 .. z - 1
        BY <1>0, <2>1, ChunkOf
      <3>2. QED
        BY <1>0, <3>1
    <2> HIDE DEF d, m
    <2>3. cs[d][m] \in Byte
      BY <1>3, <2>2
    <2>4. QED
      BY <2>3 DEF d, m
  <1> HIDE DEF at
  <1>5. b \in Seq(Byte) /\ Len(b) = n * z
    <2> DEFINE l == n * z
    <2>1. l \in Nat /\ b = [i \in 1 .. l |-> at(i)] /\ \A i \in 1 .. l : at(i) \in Byte
      BY <1>0, <1>2, <1>4
    <2> HIDE DEF l, b
    <2>2. b \in [1 .. l -> Byte]
      BY <2>1
    <2>3. b \in Seq(Byte) /\ Len(b) = l
      BY <2>1, <2>2
    <2>4. QED
      BY <2>3 DEF l
  <1>6. ASSUME NEW k \in 1 .. n PROVE Chunk(b, k) = cs[k]
    <2> DEFINE p == (k - 1) * z
    <2>1. p \in Nat /\ k * z = p + z /\ k * z <= n * z /\ k * z \in Nat
      BY <1>0, Within
    <2>2. Chunk(b, k) = [i \in 1 .. z |-> b[p + i]]
      <3>1. n * item_size <= Len(b)
        BY <1>0, <1>5 DEF z
      <3> HIDE DEF b
      <3>2. QED
        BY <1>5, <3>1, ChunkElements DEF z
    <2>3. ASSUME NEW i \in 1 .. z PROVE b[p + i] = cs[k][i]
      <3> DEFINE w == p + i
      <3>1. w \in 1 .. n * z /\ w - 1 = p + (i - 1)
        <4> DEFINE kz == k * z
                   nz == n * z
        <4>1. p \in Nat /\ kz = p + z /\ kz <= nz /\ kz \in Nat /\ nz \in Nat
          BY <1>0, <2>1
        <4> HIDE DEF p, kz, nz
        <4>2. p + i \in 1 .. nz /\ (p + i) - 1 = p + (i - 1)
          BY <1>0, <4>1
        <4>3. QED
          BY <4>2 DEF nz
      <3> HIDE DEF w
      <3>2. b[w] = at(w)
        <4> HIDE DEF p, b
        <4>1. QED
          BY <1>2, <3>1
      <3>3. k - 1 \in Nat /\ i - 1 \in 0 .. z - 1
        BY <1>0
      <3>4. ((k - 1) * z + (i - 1)) \div z = k - 1 /\ ((k - 1) * z + (i - 1)) % z = i - 1
        BY <1>0, <3>3, Position
      <3>5. (w - 1) \div z = k - 1 /\ (w - 1) % z = i - 1
        BY <3>1, <3>4
      <3>6. 1 + (k - 1) = k /\ 1 + (i - 1) = i
        BY <1>0
      <3>7. at(w) = cs[1 + ((w - 1) \div z)][1 + ((w - 1) % z)]
        BY DEF at
      <3>8. b[w] = cs[k][i]
        BY <3>2, <3>5, <3>6, <3>7
      <3>9. QED
        BY <3>8 DEF w
    <2>4. cs[k] = [i \in 1 .. z |-> cs[k][i]]
      BY <1>3
    <2> HIDE DEF p, b
    <2>5. QED
      BY <2>2, <2>3, <2>4
  <1>7. QED
    BY <1>5, <1>6 DEF z

\* Whole chunks are the join of their chunks.
LEMMA ChunksJoined ==
    ASSUME NEW n \in Nat, NEW b \in Seq(Byte), Len(b) = n * item_size
    PROVE  b = Joined([k \in 1 .. n |-> Chunk(b, k)])
  <1> DEFINE z == item_size
             cs == [k \in 1 .. n |-> Chunk(b, k)]
             at(x) == cs[1 + ((x - 1) \div z)][1 + ((x - 1) % z)]
  <1>0. z \in Nat /\ z >= 1 /\ n * z \in Nat /\ Len(b) = n * z
    BY SizeType
  <1>1. Len(cs) = n
    OBVIOUS
  <1>2. Joined(cs) = [i \in 1 .. n * z |-> at(i)]
    BY <1>1 DEF Joined
  <1>3. \A k \in 1 .. n : \A i \in 1 .. z : cs[k][i] = b[(k - 1) * z + i]
    <2>1. n * item_size <= Len(b)
      BY <1>0
    <2>2. QED
      BY <2>1, ChunkElements
  <1> HIDE DEF z, cs
  <1>4. ASSUME NEW i \in 1 .. n * z PROVE at(i) = b[i]
    <2> DEFINE d == (i - 1) \div z
               m == (i - 1) % z
    <2>1. i - 1 \in Nat /\ i - 1 < n * z
      BY <1>0
    <2>2. d \in 0 .. n - 1 /\ m \in 0 .. z - 1 /\ i - 1 = d * z + m
      BY <1>0, <2>1, ChunkOf
    <2>3. at(i) = cs[1 + d][1 + m]
      OBVIOUS
    <2> HIDE DEF d, m
    <2>4. 1 + d \in 1 .. n /\ 1 + m \in 1 .. z /\ (1 + d) - 1 = d
      BY <1>0, <2>2
    <2>5. cs[1 + d][1 + m] = b[d * z + (1 + m)]
      BY <1>3, <2>4
    <2>6. d * z \in Nat
      BY <1>0, <2>2
    <2>7. d * z + (1 + m) = i
      BY <1>0, <2>2, <2>6
    <2>8. QED
      BY <2>3, <2>5, <2>7
  <1>5. b = [i \in 1 .. n * z |-> b[i]]
    BY <1>0
  <1> HIDE DEF at
  <1>6. QED
    BY <1>2, <1>4, <1>5 DEF cs
-----------------------------------------------------------------------------
(* The codec.                                                              *)

\* b is the items of m for the keys of f, one after the other.
Encodes(b, f, m, n) ==
    /\ b \in Seq(Byte) /\ Len(b) = n * item_size
    /\ \A k \in 1 .. n : Chunk(b, k) = Item(f[k], m[f[k]])

LEMMA MapType ==
    ASSUME NEW m \in Maps
    PROVE  /\ DOMAIN m \in SUBSET Opouts /\ m \in [DOMAIN m -> OpIds]
           /\ Cardinality(DOMAIN m) \in Nat
  <1>1. PICK D \in SUBSET Opouts : m \in [D -> OpIds]
    BY DEF Maps
  <1>2. DOMAIN m = D
    BY <1>1
  <1>3. QED
    BY <1>1, <1>2, FiniteSubset

\* Whole chunks have no remainder, and their number is known.
LEMMA WholeLength ==
    ASSUME NEW b, NEW n \in Nat, Len(b) = n * item_size
    PROVE  ~ BadLength(b) /\ Len(b) \div item_size = n
  <1>1. item_size \in Nat /\ item_size >= 1 /\ 0 \in 0 .. item_size - 1
    BY SizeType
  <1>2. (n * item_size + 0) \div item_size = n /\ (n * item_size + 0) % item_size = 0
    BY <1>1, Position
  <1>3. n * item_size + 0 = n * item_size
    BY <1>1
  <1>4. QED
    BY <1>2, <1>3 DEF BadLength

\* What serialize writes.
LEMMA SerializeEncodes ==
    ASSUME NEW m \in Maps
    PROVE  Encodes(serialize(m), Ascending(DOMAIN m), m, Cardinality(DOMAIN m))
  <1> DEFINE f == Ascending(DOMAIN m)
             n == Cardinality(DOMAIN m)
             cs == [i \in 1 .. n |-> Item(f[i], m[f[i]])]
  <1>1. /\ DOMAIN m \in SUBSET Opouts /\ m \in [DOMAIN m -> OpIds] /\ n \in Nat
        /\ f \in [1 .. n -> DOMAIN m]
    BY MapType, AscendingLists DEF Lists
  <1>2. Len(f) = n
    <2> HIDE DEF f, n
    <2>1. QED
      BY <1>1
  <1>3. serialize(m) = Joined(cs)
    BY <1>2 DEF serialize
  <1> HIDE DEF f, n
  <1>4. ASSUME NEW i \in 1 .. n
        PROVE  Item(f[i], m[f[i]]) \in Seq(Byte) /\ Len(Item(f[i], m[f[i]])) = item_size
    <2>1. f[i] \in Opouts /\ m[f[i]] \in OpIds
      BY <1>1
    <2>2. QED
      BY <2>1, ItemBytes
  <1>5. cs \in [1 .. n -> Seq(Byte)] /\ \A k \in 1 .. n : Len(cs[k]) = item_size
    BY <1>4
  <1>6. \A k \in 1 .. n : cs[k] = Item(f[k], m[f[k]])
    OBVIOUS
  <1> HIDE DEF cs
  <1>7. /\ Joined(cs) \in Seq(Byte) /\ Len(Joined(cs)) = n * item_size
        /\ \A k \in 1 .. n : Chunk(Joined(cs), k) = cs[k]
    BY <1>1, <1>5, JoinedChunks
  <1>8. QED
    BY <1>3, <1>6, <1>7 DEF Encodes, f, n

\* Bytes that hold the items of a map in order are what serialize writes.
LEMMA EncodingUnique ==
    ASSUME NEW m \in Maps, NEW b, NEW f, Lists(f, DOMAIN m),
           Encodes(b, f, m, Cardinality(DOMAIN m))
    PROVE  b = serialize(m)
  <1> DEFINE n == Cardinality(DOMAIN m)
             s == serialize(m)
  <1>1. DOMAIN m \in SUBSET Opouts /\ n \in Nat
    BY MapType
  <1>2. f = Ascending(DOMAIN m)
    BY <1>1, AscendingLists, ListUnique
  <1>3. Encodes(s, f, m, n)
    BY <1>2, SerializeEncodes
  <1>4. Encodes(b, f, m, n)
    OBVIOUS
  <1> HIDE DEF n, s
  <1>5. [k \in 1 .. n |-> Chunk(b, k)] = [k \in 1 .. n |-> Chunk(s, k)]
    BY <1>3, <1>4 DEF Encodes
  <1>6. b = Joined([k \in 1 .. n |-> Chunk(b, k)]) /\ s = Joined([k \in 1 .. n |-> Chunk(s, k)])
    BY <1>1, <1>3, <1>4, ChunksJoined DEF Encodes
  <1>7. b = s
    BY <1>5, <1>6
  <1>8. QED
    BY <1>7 DEF s

\* Decoding gives back the map: the items have one size and their keys differ.
LEMMA EncodingDecoded ==
    ASSUME NEW m \in Maps, NEW b, NEW f, Lists(f, DOMAIN m),
           Encodes(b, f, m, Cardinality(DOMAIN m))
    PROVE  deserialize(b) = m /\ ~ BadLength(b)
  <1> DEFINE S == DOMAIN m
             n == Cardinality(S)
             ks == 1 .. Len(b) \div item_size
             item == [k \in ks |-> Decode(Chunk(b, k))]
             Is(o, k) == /\ item[k].opout = o
                         /\ \A j \in ks : item[j].opout = o => j <= k
             LastOf(o) == CHOOSE k \in ks : Is(o, k)
  <1>1. S \in SUBSET Opouts /\ m \in [S -> OpIds] /\ n \in Nat
    BY MapType
  <1>2. f \in [1 .. n -> S]
    BY DEF Lists
  <1>3. /\ \A i, j \in 1 .. n : f[i] = f[j] => i = j
        /\ \A x \in S : \E i \in 1 .. n : f[i] = x
    BY <1>1, ListsAll
  <1>4. Len(b) = n * item_size /\ \A k \in 1 .. n : Chunk(b, k) = Item(f[k], m[f[k]])
    BY DEF Encodes
  <1>5. ~ BadLength(b) /\ Len(b) \div item_size = n
    BY <1>1, <1>4, WholeLength
  <1>6. deserialize(b) = [o \in {item[k].opout : k \in ks} |-> item[LastOf(o)].opid]
    BY <1>5 DEF deserialize
  <1>7. ks = 1 .. n
    BY <1>5
  <1> HIDE DEF S, n, ks
  <1>8. ASSUME NEW k \in ks PROVE item[k].opout = f[k] /\ item[k].opid = m[f[k]]
    <2>1. f[k] \in Opouts /\ m[f[k]] \in OpIds
      BY <1>1, <1>2, <1>7
    <2>2. item[k] = [opout |-> f[k], opid |-> m[f[k]]]
      BY <1>4, <1>7, <2>1, ItemDecoded
    <2> HIDE DEF item
    <2>3. QED
      BY <2>2
  <1> HIDE DEF item
  <1>9. {item[k].opout : k \in ks} = S
    BY <1>2, <1>3, <1>7, <1>8
  <1>10. ASSUME NEW o \in S PROVE item[LastOf(o)].opid = m[o]
    <2>1. PICK k \in ks : f[k] = o
      BY <1>3, <1>7
    <2>2. Is(o, k)
      <3>1. \A j \in ks : item[j].opout = o => j = k
        BY <1>3, <1>7, <1>8, <2>1
      <3>2. k <= k
        BY <1>1, <1>7
      <3>3. QED
        BY <1>8, <2>1, <3>1, <3>2
    <2>3. LastOf(o) \in ks /\ Is(o, LastOf(o))
      <3> HIDE DEF Is
      <3>1. QED
        BY <2>2
    <2> HIDE DEF LastOf
    <2>4. f[LastOf(o)] = o
      BY <1>8, <2>3
    <2>5. QED
      BY <1>8, <2>3, <2>4
  <1> HIDE DEF LastOf
  <1>11. deserialize(b) = [o \in S |-> m[o]]
    BY <1>6, <1>9, <1>10
  <1>12. QED
    BY <1>1, <1>5, <1>11

LEMMA SerializeDecoded ==
    ASSUME NEW m \in Maps
    PROVE  /\ deserialize(serialize(m)) = m /\ ~ BadLength(serialize(m))
           /\ serialize(m) \in Seq(Byte)
           /\ Len(serialize(m)) = Cardinality(DOMAIN m) * item_size
  <1>1. Lists(Ascending(DOMAIN m), DOMAIN m)
    BY MapType, AscendingLists
  <1>2. QED
    BY <1>1, SerializeEncodes, EncodingDecoded DEF Encodes

\* m has some of the claims of c, and no other.
Part(m, c) == DOMAIN m \subseteq DOMAIN c /\ \A o \in DOMAIN m : m[o] = c[o]

\* The first items of a map are the encoding of a part of it.
LEMMA PrefixEncodes ==
    ASSUME NEW m \in Maps, NEW n \in 0 .. Cardinality(DOMAIN m),
           NEW b \in Seq(Byte), Len(b) = n * item_size,
           \A k \in 1 .. n : Chunk(b, k) = Chunk(serialize(m), k)
    PROVE  \E p \in Maps : b = serialize(p) /\ Part(p, m)
  <1> DEFINE S == DOMAIN m
             c == Cardinality(S)
             f == Ascending(S)
             g == [i \in 1 .. n |-> f[i]]
             T == {f[i] : i \in 1 .. n}
             p == [o \in T |-> m[o]]
  <1>1. S \in SUBSET Opouts /\ m \in [S -> OpIds] /\ c \in Nat
    BY MapType
  <1>2. Lists(f, S)
    BY <1>1, AscendingLists
  <1>3. \A i, j \in 1 .. c : f[i] = f[j] => i = j
    BY <1>1, <1>2, ListsAll
  <1>4. \A k \in 1 .. c : Chunk(serialize(m), k) = Item(f[k], m[f[k]])
    BY SerializeEncodes DEF Encodes
  <1>5. f \in [1 .. c -> S] /\ \A i, j \in 1 .. c : i < j => Precedes(f[i], f[j])
    BY <1>2 DEF Lists
  <1>6. n \in Nat /\ n \in 0 .. c
    BY <1>1
  <1> HIDE DEF S, c, f
  <1>7. 1 .. n \subseteq 1 .. c
    BY <1>1, <1>6
  <1>8. T \in SUBSET Opouts /\ T \subseteq S
    BY <1>1, <1>5, <1>7
  <1>9. Cardinality(T) = n
    <2>1. g \in Bijection(1 .. n, T)
      BY <1>3, <1>7 DEF Bijection, Injection, Surjection, IsInjective
    <2>2. QED
      BY <1>6, <2>1, FS_CountingElements DEF ExistsBijection
  <1>10. p \in Maps /\ DOMAIN p = T
    <2>1. p \in [T -> OpIds]
      BY <1>1, <1>8
    <2>2. QED
      BY <1>8, <2>1 DEF Maps
  <1>11. g \in [1 .. n -> T] /\ \A i, j \in 1 .. n : i < j => Precedes(g[i], g[j])
    BY <1>5, <1>7
  <1>12. Lists(g, T)
    BY <1>9, <1>11 DEF Lists
  <1>13. \A k \in 1 .. n : Chunk(b, k) = Item(g[k], p[g[k]])
    BY <1>4, <1>7
  <1>14. Encodes(b, g, p, n)
    BY <1>13 DEF Encodes
  <1>15. Part(p, m)
    BY <1>8 DEF Part, S
  <1> HIDE DEF g, T, p
  <1>16. b = serialize(p)
    BY <1>9, <1>10, <1>12, <1>14, EncodingUnique
  <1>17. QED
    BY <1>10, <1>15, <1>16

\* A value that loses its tail is refused or is the encoding of a part.
LEMMA TruncationIsPart ==
    ASSUME NEW m \in Maps, NEW l \in 0 .. Len(serialize(m)),
           ~ BadLength(SubSeq(serialize(m), 1, l))
    PROVE  \E p \in Maps : SubSeq(serialize(m), 1, l) = serialize(p) /\ Part(p, m)
  <1> DEFINE s == serialize(m)
             b == SubSeq(s, 1, l)
             z == item_size
             c == Cardinality(DOMAIN m)
             n == l \div z
  <1>0. z \in Nat /\ z >= 1
    BY SizeType
  <1>1. s \in Seq(Byte) /\ Len(s) = c * z /\ c \in Nat /\ c * z \in Nat
    BY <1>0, SerializeDecoded, MapType
  <1>2. l \in Nat /\ l <= c * z
    BY <1>1
  <1>3. b \in Seq(Byte) /\ Len(b) = l /\ \A i \in 1 .. l : b[i] = s[i]
    <2> DEFINE cz == c * z
    <2>1. s \in Seq(Byte) /\ l \in Nat /\ l <= Len(s)
      BY <1>1, <1>2
    <2> HIDE DEF s
    <2>2. /\ b \in Seq(Byte) /\ Len(b) = l - 1 + 1
          /\ \A i \in 1 .. l - 1 + 1 : b[i] = s[1 + i - 1]
      BY <2>1, SubSeqElements
    <2>3. l - 1 + 1 = l /\ \A i \in 1 .. l : 1 + i - 1 = i
      BY <2>1
    <2> HIDE DEF b
    <2>4. QED
      BY <2>2, <2>3
  <1>4. l % z = 0
    BY <1>3 DEF BadLength
  <1> HIDE DEF s, b, z, c
  <1>5. n \in Nat /\ l = n * z
    BY <1>0, <1>2, <1>4
  <1> HIDE DEF n
  <1>6. n <= c
    <2> SUFFICES ASSUME c + 1 <= n PROVE FALSE
      BY <1>1, <1>5
    <2>1. n - c \in Nat /\ n - c >= 1 /\ (n - c) * z \in Nat
      BY <1>0, <1>1, <1>5
    <2>2. (n - c) * z >= z
      BY <1>0, <2>1, WholeChunks
    <2>3. n * z = c * z + (n - c) * z
      BY <1>0, <1>1, <1>5
    <2>4. QED
      BY <1>0, <1>1, <1>2, <1>5, <2>1, <2>2, <2>3
  <1>7. n \in 0 .. c
    BY <1>1, <1>5, <1>6
  <1>8. ASSUME NEW k \in 1 .. n PROVE Chunk(b, k) = Chunk(s, k)
    <2> DEFINE q == (k - 1) * z
               nz == n * z
               kz == k * z
    <2>1. q \in Nat /\ kz = q + z /\ kz <= nz /\ kz \in Nat /\ nz \in Nat /\ l = nz
      BY <1>0, <1>5, Within
    <2>2. nz <= Len(b) /\ nz <= Len(s) /\ nz = n * item_size
      BY <1>1, <1>2, <1>3, <2>1 DEF z
    <2>3. /\ Chunk(b, k) = [i \in 1 .. z |-> b[q + i]]
          /\ Chunk(s, k) = [i \in 1 .. z |-> s[q + i]]
      <3>1. b \in Seq(Byte) /\ s \in Seq(Byte) /\ n \in Nat
        BY <1>1, <1>3, <1>5
      <3>2. n * item_size <= Len(b) /\ n * item_size <= Len(s)
        BY <2>2
      <3>3. Chunk(b, k) = [i \in 1 .. z |-> b[q + i]]
        BY <3>1, <3>2, ChunkElements, Zenon DEF z
      <3>4. Chunk(s, k) = [i \in 1 .. z |-> s[q + i]]
        BY <3>1, <3>2, ChunkElements, Zenon DEF z
      <3>5. QED
        BY <3>3, <3>4
    <2> HIDE DEF q, nz, kz
    <2>4. \A i \in 1 .. z : q + i \in 1 .. l
      BY <1>0, <2>1
    <2>5. \A i \in 1 .. z : b[q + i] = s[q + i]
      BY <1>3, <2>4
    <2>6. QED
      BY <2>3, <2>5
  <1>9. Len(b) = n * item_size
    BY <1>3, <1>5 DEF z
  <1>10. \E p \in Maps : b = serialize(p) /\ Part(p, m)
    BY <1>3, <1>7, <1>8, <1>9, PrefixEncodes DEF s, c
  <1>11. QED
    BY <1>10 DEF b, s
-----------------------------------------------------------------------------
(* The claims.                                                             *)

\* What the value is: absent, bytes of a bad length, or the encoding of a
\* part of the claims, of all of them before anything is lost.
Whole(m) == value = serialize(m) /\ Part(m, claimed) /\ (~ cut => m = claimed)

Held ==
    /\ claimed \in Maps /\ cut \in BOOLEAN
    /\ value = None => claimed = NoItems /\ ~ cut
    /\ value # None => (cut /\ BadLength(value)) \/ \E m \in Maps : Whole(m)

LEMMA NoItemsType == NoItems \in Maps /\ DOMAIN NoItems = {}
  <1>1. NoItems \in [{} -> OpIds] /\ DOMAIN NoItems = {}
    BY DEF NoItems
  <1>2. QED
    BY <1>1 DEF Maps

LEMMA WithItemType ==
    ASSUME NEW m \in Maps, NEW o \in Opouts, NEW t \in OpIds
    PROVE  /\ WithItem(m, o, t) \in Maps /\ DOMAIN WithItem(m, o, t) = DOMAIN m \cup {o}
           /\ WithItem(m, o, t)[o] = t
           /\ \A x \in DOMAIN m : x # o => WithItem(m, o, t)[x] = m[x]
  <1> DEFINE D == DOMAIN m \cup {o}
  <1>1. D \in SUBSET Opouts /\ m \in [DOMAIN m -> OpIds]
    BY MapType
  <1>2. WithItem(m, o, t) \in [D -> OpIds]
    BY <1>1 DEF WithItem
  <1>3. QED
    BY <1>1, <1>2 DEF Maps, WithItem

\* What the code reads.
LEMMA ItemsRead ==
    ASSUME Held
    PROVE  \/ cut /\ Items = Err
           \/ value = None /\ Items = NoItems /\ claimed = NoItems /\ ~ cut
           \/ value # None /\ Items \in Maps /\ Whole(Items)
  <1>1. CASE value = None
    BY <1>1 DEF Held, Items
  <1>2. CASE value # None /\ cut /\ BadLength(value)
    BY <1>2 DEF Items, deserialize
  <1>3. CASE value # None /\ \E m \in Maps : Whole(m)
    <2>1. PICK m \in Maps : Whole(m)
      BY <1>3
    <2>2. Items = m
      BY <1>3, <2>1, SerializeDecoded DEF Items, Whole
    <2>3. QED
      BY <1>3, <2>1, <2>2
  <1>4. QED
    BY <1>1, <1>2, <1>3 DEF Held

LEMMA SetHolds ==
    ASSUME Held, NEW o \in Opouts, NEW t \in OpIds, set_rgb_contract_consumer(o, t)
    PROVE  /\ Held'
           /\ \A x \in DOMAIN Items : x \in DOMAIN Items' /\ Items'[x] = Items[x]
  <1> DEFINE m == Items
             w == IF o \in DOMAIN m THEN m ELSE WithItem(m, o, t)
             c == WithItem(claimed, o, t)
  <1>1. /\ m # Err /\ ~ Conflict(m, o, t) /\ claimed' = c /\ cut' = cut
        /\ value' = IF o \in DOMAIN m THEN value ELSE serialize(WithItem(m, o, t))
    BY DEF set_rgb_contract_consumer
  <1>2. claimed \in Maps /\ cut \in BOOLEAN
    BY DEF Held
  <1>3. m \in Maps /\ Part(m, claimed) /\ (~ cut => m = claimed)
    BY <1>1, ItemsRead, NoItemsType DEF Whole, Part
  <1>4. o \in DOMAIN m => value # None /\ value = serialize(m) /\ m[o] = t
    BY <1>1, ItemsRead, NoItemsType DEF Whole, Conflict
  <1> HIDE DEF m
  <1>5. /\ c \in Maps /\ DOMAIN c = DOMAIN claimed \cup {o}
        /\ c[o] = t /\ \A x \in DOMAIN claimed : x # o => c[x] = claimed[x]
    BY <1>2, WithItemType
  <1>6. /\ w \in Maps /\ DOMAIN w = DOMAIN m \cup {o}
        /\ w[o] = t /\ \A x \in DOMAIN m : x # o => w[x] = m[x]
    <2>1. CASE o \in DOMAIN m
      BY <1>3, <1>4, <2>1
    <2>2. CASE o \notin DOMAIN m
      <3>1. w = WithItem(m, o, t)
        BY <2>2
      <3> HIDE DEF w
      <3>2. /\ WithItem(m, o, t) \in Maps /\ DOMAIN WithItem(m, o, t) = DOMAIN m \cup {o}
            /\ WithItem(m, o, t)[o] = t
            /\ \A x \in DOMAIN m : x # o => WithItem(m, o, t)[x] = m[x]
        BY <1>3, WithItemType
      <3>3. QED
        BY <3>1, <3>2, Zenon
    <2>3. QED
      BY <2>1, <2>2
  <1>7. value' = serialize(w)
    BY <1>1, <1>4
  <1> HIDE DEF w, c
  <1>8. value' # None /\ Items' = w
    <2>1. serialize(w) # None /\ deserialize(serialize(w)) = w
      BY <1>6, SerializeDecoded, NoneAssumption
    <2>2. QED
      BY <1>7, <2>1 DEF Items
  <1>9. Part(w, c)
    BY <1>3, <1>5, <1>6 DEF Part
  <1>10. ~ cut => w = c
    <2> SUFFICES ASSUME ~ cut PROVE w = c
      OBVIOUS
    <2>1. DOMAIN w = DOMAIN c /\ \A x \in DOMAIN c : w[x] = c[x]
      BY <1>3, <1>5, <1>6
    <2>2. w = [x \in DOMAIN w |-> w[x]] /\ c = [x \in DOMAIN c |-> c[x]]
      BY <1>5, <1>6, MapType
    <2>3. QED
      BY <2>1, <2>2
  <1>11. PICK v \in Maps : v = w
    BY <1>6
  <1>12. Held'
    <2>1. value' = serialize(v) /\ Part(v, claimed') /\ (~ cut' => v = claimed')
      BY <1>1, <1>7, <1>9, <1>10, <1>11
    <2>2. Whole(v)'
      BY <2>1 DEF Whole
    <2>3. claimed' \in Maps /\ cut' \in BOOLEAN /\ value' # None
      BY <1>1, <1>2, <1>5, <1>8
    <2>4. QED
      BY <2>2, <2>3 DEF Held
  <1>13. \A x \in DOMAIN m : x \in DOMAIN w /\ w[x] = m[x]
    BY <1>4, <1>6
  <1>14. QED
    BY <1>8, <1>12, <1>13 DEF m

LEMMA TruncateHolds ==
    ASSUME Held, NEW n \in 1 .. MaxLen, Truncate(n)
    PROVE  Held'
  <1>1. /\ value # None /\ cut = FALSE /\ n \in 1 .. Len(value)
        /\ value' = SubSeq(value, 1, Len(value) - n) /\ cut' = TRUE /\ claimed' = claimed
    BY DEF Truncate, Held
  <1>2. claimed \in Maps /\ value = serialize(claimed)
    BY <1>1 DEF Held, Whole
  <1> DEFINE l == Len(value) - n
  <1>3. value \in Seq(Byte) /\ Len(value) \in Nat
    <2>1. value \in Seq(Byte)
      BY <1>2, SerializeDecoded
    <2>2. QED
      BY <2>1
  <1>4. l \in 0 .. Len(value) /\ l \in Nat
    BY <1>1, <1>3
  <1>5. value' \in Seq(Byte)
    <2> HIDE DEF l
    <2>1. SubSeq(value, 1, l) \in Seq(Byte)
      BY <1>3, <1>4
    <2>2. QED
      BY <1>1, <2>1 DEF l
  <1>6. CASE BadLength(value')
    BY <1>1, <1>2, <1>5, <1>6, NoneAssumption DEF Held, BadLength
  <1>7. CASE ~ BadLength(value')
    <2>1. PICK p \in Maps : value' = serialize(p) /\ Part(p, claimed)
      <3>1. value' = SubSeq(serialize(claimed), 1, l)
        BY <1>1, <1>2
      <3>2. l \in 0 .. Len(serialize(claimed))
        BY <1>2, <1>4
      <3> HIDE DEF l
      <3>3. QED
        BY <1>2, <1>7, <3>1, <3>2, TruncationIsPart
    <2>2. Whole(p)'
      BY <1>1, <2>1 DEF Whole
    <2>3. QED
      BY <1>1, <1>2, <1>5, <2>2, NoneAssumption DEF Held
  <1>8. QED
    BY <1>6, <1>7

LEMMA UnchangedHolds ==
    ASSUME Held, UNCHANGED vars
    PROVE  Held' /\ Items' = Items
  BY DEF Held, vars, Whole, Items, BadLength

LEMMA HeldInvariant == Spec => []Held
  <1>1. Init => Held
    BY NoItemsType DEF Init, Held
  <1>2. ASSUME Held, [Next]_vars PROVE Held'
    <2>1. ASSUME NEW o \in Opouts, NEW t \in OpIds, set_rgb_contract_consumer(o, t) PROVE Held'
      BY <1>2, <2>1, SetHolds
    <2>2. ASSUME NEW o \in Opouts, NEW t \in OpIds, set_rgb_contract_consumer_fails(o, t)
          PROVE  Held'
      BY <1>2, <2>2, UnchangedHolds DEF set_rgb_contract_consumer_fails
    <2>3. ASSUME NEW n \in 1 .. MaxLen, Truncate(n) PROVE Held'
      BY <1>2, <2>3, TruncateHolds
    <2>4. CASE UNCHANGED vars
      BY <1>2, <2>4, UnchangedHolds
    <2>5. QED
      BY <1>2, <2>1, <2>2, <2>3, <2>4 DEF Next
  <1>3. QED
    BY <1>1, <1>2, PTL DEF Spec

\* As long as nothing is lost, the bytes under the consumed-by key decode to
\* exactly the claims that set_rgb_contract_consumer accepted.
THEOREM BytesAreTheClaims == Spec => []ClaimsDecoded
  <1>1. Held => ClaimsDecoded
    BY ItemsRead DEF ClaimsDecoded, Whole
  <1>2. QED
    BY <1>1, HeldInvariant, PTL

\* A value that lost its tail is refused by deserialize, or the loss is of
\* whole claims and what is left is read right, byte for byte.
THEOREM TruncatedValuesAreRefused == Spec => []TruncationDetected
  <1>1. Held => TruncationDetected
    BY ItemsRead DEF TruncationDetected, Whole, Part, Held
  <1>2. QED
    BY <1>1, HeldInvariant, PTL

\* Adding a claim to the value never changes or drops one that is there.
THEOREM ClaimsAreKept == Spec => ClaimsKept
  <1> DEFINE Kept == Items # Err /\ cut' = cut =>
                       \A o \in DOMAIN Items : o \in DOMAIN Items' /\ Items'[o] = Items[o]
  <1>1. ASSUME Held, [Next]_vars PROVE [Kept]_vars
    <2>1. ASSUME NEW o \in Opouts, NEW t \in OpIds, set_rgb_contract_consumer(o, t) PROVE Kept
      BY <1>1, <2>1, SetHolds
    <2>2. ASSUME NEW o \in Opouts, NEW t \in OpIds, set_rgb_contract_consumer_fails(o, t)
          PROVE  Kept
      BY <1>1, <2>2, UnchangedHolds DEF set_rgb_contract_consumer_fails
    <2>3. ASSUME NEW n \in 1 .. MaxLen, Truncate(n) PROVE Kept
      BY <2>3 DEF Truncate
    <2>4. QED
      BY <1>1, <2>1, <2>2, <2>3 DEF Next
  <1>2. QED
    BY <1>1, HeldInvariant, PTL DEF Spec, ClaimsKept
=============================================================================
