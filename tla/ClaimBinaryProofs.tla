------------------------- MODULE ClaimBinaryProofs --------------------------
(***************************************************************************)
(* Proofs about the binary form of claims, for every TxID size, every     *)
(* minimum members size and every set of well-formed claims: the integer  *)
(* codec and the Claim codec round-trip, and the comparator of            *)
(* Claims.Sort is a strict total order on claims.                          *)
(***************************************************************************)
EXTENDS ClaimBinary, SequenceTheorems, NatLemmas, TLAPS

\* utils.MarshalUint32 writes four bytes that UnmarshalUint32 reads back as
\* the same number, for every uint32 (the size fields of a batch).
LEMMA Uint32RoundTrip ==
    ASSUME NEW n \in Nat, n < 4294967296
    PROVE  /\ MarshalUint32(n) \in [1 .. 4 -> Nat]
           /\ \A i \in 1 .. 4 : MarshalUint32(n)[i] < 256
           /\ UnmarshalUint32(MarshalUint32(n)) = n
<1>1. MarshalUint32(n) \in [1 .. 4 -> Nat] /\ \A i \in 1 .. 4 : MarshalUint32(n)[i] < 256
  BY DEF MarshalUint32
<1>2. UnmarshalUint32(MarshalUint32(n)) = n
  BY DEF MarshalUint32, UnmarshalUint32
<1>. QED
  BY <1>1, <1>2

\* utils.MarshalUint16 writes two bytes that UnmarshalUint16 reads back as
\* the same number, for every uint16 (the count of a batch).
LEMMA Uint16RoundTrip ==
    ASSUME NEW n \in Nat, n < 65536
    PROVE  /\ MarshalUint16(n) \in [1 .. 2 -> Nat]
           /\ \A i \in 1 .. 2 : MarshalUint16(n)[i] < 256
           /\ UnmarshalUint16(MarshalUint16(n)) = n
  BY DEF MarshalUint16, UnmarshalUint16
-----------------------------------------------------------------------------
(* The Claim codec.                                                        *)

\* The two halves of a concatenation are its prefix of the first length and
\* the rest, the split Claim.UnmarshalBinary makes.
LEMMA ConcatSplit ==
    ASSUME NEW t \in Seq(Int), NEW mb \in Seq(Int)
    PROVE  /\ SubSeq(t \o mb, 1, Len(t)) = t
           /\ SubSeq(t \o mb, Len(t) + 1, Len(t) + Len(mb)) = mb
<1> DEFINE d == t \o mb
<1>1. /\ Len(t) \in Nat /\ Len(mb) \in Nat
      /\ t \in [1 .. Len(t) -> Int] /\ mb \in [1 .. Len(mb) -> Int]
  BY LenProperties
<1>2. /\ Len(d) = Len(t) + Len(mb)
      /\ \A i \in 1 .. Len(t) + Len(mb) :
            d[i] = IF i <= Len(t) THEN t[i] ELSE mb[i - Len(t)]
  BY ConcatProperties
<1>3. SubSeq(d, 1, Len(t)) = [i \in 1 .. Len(t) |-> d[i]]
  BY <1>1
<1>4. SubSeq(d, Len(t) + 1, Len(t) + Len(mb)) = [i \in 1 .. Len(mb) |-> d[i + Len(t)]]
  BY <1>1
<1>5. \A i \in 1 .. Len(t) : d[i] = t[i]
  BY <1>1, <1>2
<1>6. \A i \in 1 .. Len(mb) : d[i + Len(t)] = mb[i]
  BY <1>1, <1>2
<1>. QED
  BY <1>1, <1>3, <1>4, <1>5, <1>6

\* A well-formed claim marshals without error into its TxID bytes followed
\* by its members bytes, at least ClaimMinBinarySize of them.
LEMMA ClaimBinaryForm ==
    ASSUME NEW c \in Claims
    PROVE  /\ ClaimMarshalBinary(c).err = "nil"
           /\ ClaimMarshalBinary(c).data = c.TxUUID \o c.Members
           /\ ClaimMarshalBinary(c).data \in Seq(Byte)
           /\ Len(ClaimMarshalBinary(c).data) = TxIDBinarySize + Len(c.Members)
           /\ Len(ClaimMarshalBinary(c).data) >= ClaimMinBinarySize
<1>1. /\ c # Broken /\ c \in Decoded
      /\ Len(c.TxUUID) = TxIDBinarySize
      /\ Len(c.Members) >= ClaimMembersMinBinarySize
  BY ClaimAssumption
<1>2. c.TxUUID \in Seq(Byte) /\ c.Members \in Seq(Byte)
  BY <1>1 DEF Decoded
<1>3. /\ c.TxUUID \o c.Members \in Seq(Byte)
      /\ Len(c.TxUUID \o c.Members) = Len(c.TxUUID) + Len(c.Members)
  BY <1>2, ConcatProperties
<1>5. ClaimMarshalBinary(c).err = "nil" /\ ClaimMarshalBinary(c).data = c.TxUUID \o c.Members
  BY <1>1 DEF ClaimMarshalBinary
<1>6. Len(c.TxUUID \o c.Members) = TxIDBinarySize + Len(c.Members)
  BY <1>1, <1>3
<1>7. TxIDBinarySize + Len(c.Members) >= ClaimMinBinarySize
  <2>1. Len(c.Members) \in Nat /\ ClaimMembersMinBinarySize \in Nat /\ TxIDBinarySize \in Nat
    BY <1>2, LenProperties, ClaimAssumption
  <2>. QED
    BY <1>1, <2>1 DEF ClaimMinBinarySize
<1>. QED
  BY <1>3, <1>5, <1>6, <1>7

\* Claim.UnmarshalBinary reads back every claim Claim.MarshalBinary writes
\* (spec 8.1 for one claim): the first TxIDBinarySize bytes are its TxID
\* and the rest its members.
THEOREM ClaimRoundTrip ==
    ASSUME NEW c \in Claims
    PROVE  ClaimUnmarshalBinary(ClaimMarshalBinary(c).data)
               = [err |-> "nil", claim |-> c]
<1> DEFINE t == c.TxUUID
           mb == c.Members
           d == t \o mb
<1>1. /\ t \in Seq(Byte) /\ mb \in Seq(Byte)
      /\ Len(t) = TxIDBinarySize
      /\ c = [TxUUID |-> t, Members |-> mb]
  BY ClaimAssumption DEF Decoded
<1>2. /\ ClaimMarshalBinary(c).data = d
      /\ Len(d) = Len(t) + Len(mb)
      /\ ~(Len(d) < ClaimMinBinarySize)
  <2>1. ClaimMarshalBinary(c).data = d /\ Len(d) = TxIDBinarySize + Len(mb)
         /\ Len(d) >= ClaimMinBinarySize
    BY ClaimBinaryForm
  <2>2. Len(d) \in Nat /\ ClaimMinBinarySize \in Nat
    BY <2>1, ClaimAssumption, LenProperties DEF ClaimMinBinarySize
  <2>. QED
    BY <1>1, <2>1, <2>2
<1>3. t \in Seq(Int) /\ mb \in Seq(Int)
  <2>1. Byte \subseteq Int
    BY DEF Byte
  <2>. QED
    BY <1>1, <2>1, SeqMonotonic
<1>4. SubSeq(d, 1, TxIDBinarySize) = t /\ SubSeq(d, TxIDBinarySize + 1, Len(d)) = mb
  BY <1>1, <1>2, <1>3, ConcatSplit
<1>5. ClaimUnmarshalBinary(d)
         = [err |-> "nil", claim |-> [TxUUID |-> SubSeq(d, 1, TxIDBinarySize),
                                      Members |-> SubSeq(d, TxIDBinarySize + 1, Len(d))]]
  BY <1>2 DEF ClaimUnmarshalBinary
<1>. QED
  BY <1>1, <1>2, <1>4, <1>5

\* Two claims are equal iff their binary forms are (spec section 3): the
\* codec loses nothing, so Sort's comparator tells distinct claims apart.
LEMMA ClaimBinaryInjective ==
    ASSUME NEW a \in Claims, NEW b \in Claims,
           ClaimMarshalBinary(a).data = ClaimMarshalBinary(b).data
    PROVE  a = b
<1>1. ClaimUnmarshalBinary(ClaimMarshalBinary(a).data) = [err |-> "nil", claim |-> a]
  BY ClaimRoundTrip
<1>2. ClaimUnmarshalBinary(ClaimMarshalBinary(b).data) = [err |-> "nil", claim |-> b]
  BY ClaimRoundTrip
<1>. QED
  BY <1>1, <1>2

-----------------------------------------------------------------------------
(* The comparator of Claims.Sort.                                          *)

\* No byte string is bytes.Compare-less than itself.
LEMMA BytesLessIrreflexive ==
    ASSUME NEW x \in Seq(Int)
    PROVE  ~BytesLess(x, x)
  BY DEF BytesLess

\* bytes.Compare-less is transitive: the first difference of x and z is
\* the earlier of the first differences of x, y and of y, z, or one is a
\* prefix of the other.
LEMMA BytesLessTransitive ==
    ASSUME NEW x \in Seq(Int), NEW y \in Seq(Int), NEW z \in Seq(Int),
           BytesLess(x, y), BytesLess(y, z)
    PROVE  BytesLess(x, z)
<1>1. /\ Len(x) \in Nat /\ x \in [1 .. Len(x) -> Int]
      /\ Len(y) \in Nat /\ y \in [1 .. Len(y) -> Int]
      /\ Len(z) \in Nat /\ z \in [1 .. Len(z) -> Int]
  BY LenProperties
<1>2. CASE \E k \in 1 .. Len(x) : /\ k <= Len(y) /\ x[k] < y[k]
                                 /\ \A m \in 1 .. k - 1 : x[m] = y[m]
  <2>1. PICK k1 \in 1 .. Len(x) : /\ k1 <= Len(y) /\ x[k1] < y[k1]
                                 /\ \A m \in 1 .. k1 - 1 : x[m] = y[m]
    BY <1>2
  <2>2. CASE \E k \in 1 .. Len(y) : /\ k <= Len(z) /\ y[k] < z[k]
                                   /\ \A m \in 1 .. k - 1 : y[m] = z[m]
    <3>1. PICK k2 \in 1 .. Len(y) : /\ k2 <= Len(z) /\ y[k2] < z[k2]
                                   /\ \A m \in 1 .. k2 - 1 : y[m] = z[m]
      BY <2>2
    <3>2. CASE k1 <= k2
      <4>2. k1 <= Len(z) /\ k1 \in 1 .. Len(y)
        BY <1>1, <2>1, <3>1, <3>2
      <4>6. y[k1] \in Int /\ z[k1] \in Int /\ x[k1] \in Int
        BY <1>1, <2>1, <4>2
      <4>7. k1 < k2 => y[k1] = z[k1]
        <5> HAVE k1 < k2
        <5>1. k1 \in 1 .. k2 - 1
          BY <1>1, <2>1
        <5>. QED
          BY <3>1, <5>1
      <4>8. k1 = k2 => y[k1] < z[k1]
        BY <3>1
      <4>3. y[k1] <= z[k1] /\ y[k1] \in Int /\ z[k1] \in Int /\ x[k1] \in Int
        BY <1>1, <2>1, <3>1, <3>2, <4>6, <4>7, <4>8
      <4>9. x[k1] < y[k1]
        BY <2>1
      <4>4. x[k1] < z[k1]
        BY <4>3, <4>9
      <4>5. \A m \in 1 .. k1 - 1 : x[m] = z[m]
        BY <1>1, <2>1, <3>1, <3>2
      <4>1. /\ k1 <= Len(z) /\ x[k1] < z[k1]
            /\ \A m \in 1 .. k1 - 1 : x[m] = z[m]
        BY <4>2, <4>4, <4>5
      <4>. QED
        BY <4>1 DEF BytesLess
    <3>3. CASE k2 < k1
      <4>1. /\ k2 \in 1 .. Len(x) /\ k2 <= Len(z) /\ x[k2] < z[k2]
            /\ \A m \in 1 .. k2 - 1 : x[m] = z[m]
        BY <1>1, <2>1, <3>1, <3>3
      <4>. QED
        BY <4>1 DEF BytesLess
    <3>. QED
      BY <1>1, <2>1, <3>1, <3>2, <3>3
  <2>3. CASE Len(y) < Len(z) /\ \A m \in 1 .. Len(y) : y[m] = z[m]
    <3>1. /\ k1 <= Len(z) /\ x[k1] < z[k1]
          /\ \A m \in 1 .. k1 - 1 : x[m] = z[m]
      BY <1>1, <2>1, <2>3
    <3>. QED
      BY <3>1 DEF BytesLess
  <2>. QED
    BY <2>2, <2>3 DEF BytesLess
<1>3. CASE Len(x) < Len(y) /\ \A m \in 1 .. Len(x) : x[m] = y[m]
  <2>2. CASE \E k \in 1 .. Len(y) : /\ k <= Len(z) /\ y[k] < z[k]
                                   /\ \A m \in 1 .. k - 1 : y[m] = z[m]
    <3>1. PICK k2 \in 1 .. Len(y) : /\ k2 <= Len(z) /\ y[k2] < z[k2]
                                   /\ \A m \in 1 .. k2 - 1 : y[m] = z[m]
      BY <2>2
    <3>2. CASE k2 <= Len(x)
      <4>1. /\ k2 \in 1 .. Len(x) /\ k2 <= Len(z) /\ x[k2] < z[k2]
            /\ \A m \in 1 .. k2 - 1 : x[m] = z[m]
        BY <1>1, <1>3, <3>1, <3>2
      <4>. QED
        BY <4>1 DEF BytesLess
    <3>3. CASE Len(x) < k2
      <4>2. Len(x) < Len(z)
        BY <1>1, <3>1, <3>3
      <4>3. \A m \in 1 .. Len(x) : x[m] = z[m]
        BY <1>1, <1>3, <3>1, <3>3
      <4>1. Len(x) < Len(z) /\ \A m \in 1 .. Len(x) : x[m] = z[m]
        BY <4>2, <4>3
      <4>. QED
        BY <4>1 DEF BytesLess
    <3>. QED
      BY <1>1, <3>1, <3>2, <3>3
  <2>3. CASE Len(y) < Len(z) /\ \A m \in 1 .. Len(y) : y[m] = z[m]
    <3>1. Len(x) < Len(z) /\ \A m \in 1 .. Len(x) : x[m] = z[m]
      BY <1>1, <1>3, <2>3
    <3>. QED
      BY <3>1 DEF BytesLess
  <2>. QED
    BY <2>2, <2>3 DEF BytesLess
<1>. QED
  BY <1>2, <1>3 DEF BytesLess


\* Of two different byte strings one is bytes.Compare-less than the other:
\* they differ at a first common position, or one is a prefix of the other.
LEMMA BytesLessTotal ==
    ASSUME NEW x \in Seq(Int), NEW y \in Seq(Int), x # y
    PROVE  BytesLess(x, y) \/ BytesLess(y, x)
<1>1. /\ Len(x) \in Nat /\ x \in [1 .. Len(x) -> Int]
      /\ Len(y) \in Nat /\ y \in [1 .. Len(y) -> Int]
  BY LenProperties
<1> DEFINE D == {k \in 1 .. Len(x) : k <= Len(y) /\ x[k] # y[k]}
<1>2. CASE D # {}
  <2>1. D \subseteq Nat
    OBVIOUS
  <2>2. PICK k \in D : \A j \in D : k <= j
    BY <1>2, <2>1, NatLeast
  <2>3. \A m \in 1 .. k - 1 : x[m] = y[m]
    <3> SUFFICES ASSUME NEW m \in 1 .. k - 1, x[m] # y[m] PROVE FALSE
      OBVIOUS
    <3>1. m \in D
      BY <1>1, <2>2
    <3>. QED
      BY <2>2, <3>1
  <2>4. /\ k \in 1 .. Len(x) /\ k \in 1 .. Len(y)
        /\ x[k] \in Int /\ y[k] \in Int /\ x[k] # y[k]
    BY <1>1, <2>2
  <2>5. CASE x[k] < y[k]
    BY <2>3, <2>4, <2>5 DEF BytesLess
  <2>6. CASE y[k] < x[k]
    <3>1. \A m \in 1 .. k - 1 : y[m] = x[m]
      BY <2>3
    <3>. QED
      BY <2>4, <2>6, <3>1 DEF BytesLess
  <2>. QED
    BY <2>4, <2>5, <2>6
<1>3. CASE D = {}
  <2>1. \A m \in 1 .. Len(x) : m <= Len(y) => x[m] = y[m]
    BY <1>3
  <2>2. CASE Len(x) = Len(y)
    <3>1. x = y
      BY <1>1, <2>1, <2>2, SeqEqual
    <3>. QED
      BY <3>1
  <2>3. CASE Len(x) < Len(y)
    BY <1>1, <2>1, <2>3 DEF BytesLess
  <2>4. CASE Len(y) < Len(x)
    <3>1. \A m \in 1 .. Len(y) : y[m] = x[m]
      BY <1>1, <2>1, <2>4
    <3>. QED
      BY <2>4, <3>1 DEF BytesLess
  <2>5. Len(x) = Len(y) \/ Len(x) < Len(y) \/ Len(y) < Len(x)
    <3>1. Len(x) \in Nat /\ Len(y) \in Nat
      BY <1>1
    <3>. QED
      BY <3>1
  <2>. QED
    BY <2>2, <2>3, <2>4, <2>5, Zenon
<1>. QED
  BY <1>2, <1>3

\* The comparator sort.Slice is given in Claims.Sort is a strict total
\* order on well-formed claims (spec 8.2): it never ranks a claim below
\* itself, it is transitive, and of two different claims one ranks below
\* the other, since their binary forms differ.  So the sorted order of a
\* set of claims is unique, and two nodes that sort the same claims
\* marshal the same batch.
THEOREM ComparatorTotalOrder ==
    /\ \A a \in Claims : ~Less(a, a)
    /\ \A a, b, c \in Claims : Less(a, b) /\ Less(b, c) => Less(a, c)
    /\ \A a, b \in Claims : a # b => Less(a, b) \/ Less(b, a)
<1>1. \A a \in Claims : ClaimMarshalBinary(a).data \in Seq(Int)
  <2> SUFFICES ASSUME NEW a \in Claims PROVE ClaimMarshalBinary(a).data \in Seq(Int)
    OBVIOUS
  <2>1. ClaimMarshalBinary(a).data \in Seq(Byte)
    BY ClaimBinaryForm
  <2>2. Byte \subseteq Int
    BY DEF Byte
  <2>. QED
    BY <2>1, <2>2, SeqMonotonic
<1>2. \A a \in Claims : ~Less(a, a)
  BY <1>1, BytesLessIrreflexive DEF Less
<1>3. \A a, b, c \in Claims : Less(a, b) /\ Less(b, c) => Less(a, c)
  BY <1>1, BytesLessTransitive DEF Less
<1>4. ASSUME NEW a \in Claims, NEW b \in Claims, a # b
      PROVE  Less(a, b) \/ Less(b, a)
  <2>1. ClaimMarshalBinary(a).data # ClaimMarshalBinary(b).data
    BY <1>4, ClaimBinaryInjective
  <2>. QED
    BY <1>1, <2>1, BytesLessTotal DEF Less
<1>. QED
  BY <1>2, <1>3, <1>4

=============================================================================
