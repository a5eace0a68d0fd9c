---------------------------- MODULE ClaimBinary -----------------------------
(***************************************************************************)
(* The binary form of one claim and the byte order Claims.Sort uses: the  *)
(* integer codec the batch format is built from, Claim.MarshalBinary and  *)
(* Claim.UnmarshalBinary, and the comparator bytes.Compare(a, b) == -1    *)
(* over two claims' binary forms.  The source is the Claim part of        *)
(* src/tests/network/geo/communicator_tsl_is_present_test.go; the batch   *)
(* built from it is ClaimsCodec.                                          *)
(*                                                                         *)
(* Bytes are numbers in 0..255; a claim is its TxID bytes and its members  *)
(* bytes.  utils.MarshalUint16/32 are not under src/: they are modelled    *)
(* from the spec (4.1) as little-endian.                                   *)
(***************************************************************************)
EXTENDS Integers, Sequences

CONSTANTS
    Claims,                     \* the well-formed claims a node may hold
    Broken,                     \* a *Claim whose TxUUID or Members is nil
    TxIDBinarySize,             \* transactions.TxIDBinarySize
    ClaimMembersMinBinarySize

Byte == 0 .. 255

\* The claims UnmarshalBinary may build: a decoded TxID and members.
Decoded == [TxUUID : Seq(Byte), Members : Seq(Byte)]

ASSUME ClaimAssumption ==
    /\ TxIDBinarySize \in Nat \ {0}
    /\ ClaimMembersMinBinarySize \in Nat \ {0}
    /\ Broken \notin Claims
    /\ \A c \in Claims :
          /\ c \in Decoded
          /\ Len(c.TxUUID) = TxIDBinarySize
          /\ Len(c.Members) >= ClaimMembersMinBinarySize

ClaimMinBinarySize == TxIDBinarySize + ClaimMembersMinBinarySize

MarshalUint16(n) == <<n % 256, (n \div 256) % 256>>
\* Mutant: the size fields written big-endian.
MarshalUint32BigEndian(n) ==
    <<(n \div 16777216) % 256, (n \div 65536) % 256, (n \div 256) % 256, n % 256>>
MarshalUint32(n) ==
    <<n % 256, (n \div 256) % 256, (n \div 65536) % 256, (n \div 16777216) % 256>>
UnmarshalUint16(d) == d[1] + 256 * d[2]
UnmarshalUint32(d) == d[1] + 256 * d[2] + 65536 * d[3] + 16777216 * d[4]

-----------------------------------------------------------------------------
(* The Claim codec.                                                        *)

\* Claim.MarshalBinary: NilInternalDataStructure for a nil field, else the
\* TxID bytes followed by the members bytes.
ClaimMarshalBinary(claim) ==
    IF claim = Broken THEN [err |-> "NilInternalDataStructure", data |-> <<>>]
    ELSE [err |-> "nil", data |-> claim.TxUUID \o claim.Members]

\* Claim.UnmarshalBinary: InvalidDataFormat below ClaimMinBinarySize, else
\* the first TxIDBinarySize bytes are the TxID and the rest the members.
ClaimUnmarshalBinary(d) ==
    IF Len(d) < ClaimMinBinarySize THEN [err |-> "InvalidDataFormat"]
    ELSE [err |-> "nil",
          claim |-> [TxUUID |-> SubSeq(d, 1, TxIDBinarySize),
                     Members |-> SubSeq(d, TxIDBinarySize + 1, Len(d))]]

-----------------------------------------------------------------------------
(* The comparator of Claims.Sort.                                          *)

\* bytes.Compare(x, y) == -1: at the first position where x and y differ
\* the byte of x is smaller, or x is a proper prefix of y.
BytesLess(x, y) ==
    \/ \E k \in 1 .. Len(x) :
          /\ k <= Len(y) /\ x[k] < y[k]
          /\ \A m \in 1 .. k - 1 : x[m] = y[m]
    \/ /\ Len(x) < Len(y)
       /\ \A m \in 1 .. Len(x) : x[m] = y[m]

\* The comparator sort.Slice is given: both claims marshalled, then
\* bytes.Compare(aBinaryData, bBinaryData) == -1.
Less(a, b) == BytesLess(ClaimMarshalBinary(a).data, ClaimMarshalBinary(b).data)
=============================================================================
