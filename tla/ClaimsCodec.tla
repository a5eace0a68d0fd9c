---------------------------- MODULE ClaimsCodec -----------------------------
(***************************************************************************)
(* A batch of claims (type Claims with Add, Count, Sort, MarshalBinary and *)
(* UnmarshalBinary, and the Claim codec under it) as one node builds,      *)
(* sorts and marshals it, and as another node unmarshals what arrives.     *)
(* The source is the Claim/Claims part of                                  *)
(* src/tests/network/geo/communicator_tsl_is_present_test.go.              *)
(*                                                                         *)
(* The Claim codec and the comparator are ClaimBinary.  The slice given   *)
(* to UnmarshalBinary is taken to have no capacity beyond its length (the  *)
(* transport reads the N payload bytes into a fresh buffer), so a slice    *)
(* expression past its end panics.                                         *)
(***************************************************************************)
EXTENDS ClaimBinary, SequencesExt

CONSTANTS
    Nil,                        \* the nil *Claim
    Blank,                      \* NewClaim(): empty TxID, no members
    ClaimsMaxCount

\* 1024 * 16 in the code: Count() = uint16(len(c.At)) never wraps.
ASSUME BatchAssumption == ClaimsMaxCount \in 1 .. 65535

\* Claims.Count: uint16(len(c.At)).
Count(at) == Len(at) % 65536

-----------------------------------------------------------------------------
(* Sort: sort.Slice with the comparator Less of ClaimBinary, which       *)
(* panics on a marshalling error.                                          *)

Swap(s, i, j) == [s EXCEPT ![i] = s[j], ![j] = s[i]]

\* insertionSortLessFunc(data, a, n): for each i, swap data[j] down while
\* j > a and less(data[j], data[j-1]).  The comparator marshals data[j]
\* and data[j-1]; a Broken claim panics there, leaving the slice as the
\* swaps so far have made it.  Each of the at most n * n iterations is a
\* swap, an advance of i, or the panic.
InsertionSort(at, a) ==
    LET n == Len(at)
        run[k \in 0 .. n * n] ==
          IF k = 0 THEN [s |-> at, i |-> a + 1, j |-> a + 1, panicked |-> FALSE]
          ELSE LET st == run[k - 1]
               IN  IF st.panicked \/ st.i > n THEN st
                   ELSE IF st.j <= a THEN [st EXCEPT !.i = @ + 1, !.j = st.i + 1]
                   ELSE IF Broken \in {st.s[st.j], st.s[st.j - 1]}
                     THEN [st EXCEPT !.panicked = TRUE]
                   ELSE IF Less(st.s[st.j], st.s[st.j - 1])
                     THEN [st EXCEPT !.s = Swap(@, st.j, st.j - 1), !.j = @ - 1]
                   ELSE [st EXCEPT !.i = @ + 1, !.j = st.i + 1]
    IN  run[n * n]

\* Mutant: the inner loop stops one position early, so the first element
\* is never compared.
SortSliceOffByOne(at) == InsertionSort(at, 2)

\* sort.Slice on at most 12 elements is insertionSortLessFunc over the
\* whole slice (a = 0 in Go, the first index here).
SortSlice(at) == InsertionSort(at, 1)

-----------------------------------------------------------------------------
(* The batch codec.  Format: the count (2 B), the sizes (4 B each), then   *)
(* the claim bodies.                                                       *)

\* Claims.MarshalBinary: the count, then for each claim its size, with the
\* bodies chained after the sizes.  The first claim whose MarshalBinary
\* fails fails the whole; an empty body is skipped (and the count, written
\* first, still includes it).
ClaimsMarshalBinary(at) ==
    LET bins == [i \in 1 .. Len(at) |-> ClaimMarshalBinary(at[i])]
        kept == SelectSeq([i \in 1 .. Len(at) |-> bins[i].data], LAMBDA b : b # <<>>)
    IN  IF \E i \in 1 .. Len(at) : bins[i].err # "nil"
          THEN [err |-> "NilInternalDataStructure", data |-> <<>>]
        ELSE [err |-> "nil",
              data |-> MarshalUint16(Count(at))
                       \o FlattenSeq([i \in 1 .. Len(kept) |-> MarshalUint32(Len(kept[i]))])
                       \o FlattenSeq(kept)]

\* Claims.UnmarshalBinary into a batch holding prev.  It reads the count
\* (a panic on fewer than 2 bytes), replaces c.At by count blank claims,
\* reads count sizes (a panic past the end; the zero-size check assigns
\* an err that the := of the loop shadows, so it is lost), then decodes
\* each body, returning at the first claim error with c.At as filled so
\* far.  offset + claimSize is uint32 arithmetic: a wrap makes the slice
\* bounds inverted, which panics like a bound past the end.
ClaimsUnmarshalBinary(d, prev) ==
    IF Len(d) < 2 THEN [status |-> "panic", at |-> prev]
    ELSE
    LET count == UnmarshalUint16(SubSeq(d, 1, 2))
        headerEnd == 2 + 4 * count
        size(i) == UnmarshalUint32(SubSeq(d, 2 + 4 * (i - 1) + 1, 2 + 4 * i))
        body[i \in 0 .. count] ==
          IF i = 0
            THEN [status |-> "ok", at |-> [k \in 1 .. count |-> Blank], off |-> headerEnd]
          ELSE LET st == body[i - 1]
                   hi == st.off + size(i)
                   claim == ClaimUnmarshalBinary(SubSeq(d, st.off + 1, hi))
               IN  IF st.status # "ok" THEN st
                   ELSE IF hi > Len(d) THEN [st EXCEPT !.status = "panic"]
                   ELSE IF claim.err # "nil" THEN [st EXCEPT !.status = "error"]
                   ELSE [st EXCEPT !.at[i] = claim.claim, !.off = hi]
    IN  IF count = 0 THEN [status |-> "ok", at |-> <<>>]
        ELSE IF headerEnd > Len(d)
          THEN [status |-> "panic", at |-> [k \in 1 .. count |-> Blank]]
        ELSE [status |-> body[count].status, at |-> body[count].at]

-----------------------------------------------------------------------------
(* A sending node's batch, the wire, and a receiving node's batch.  The    *)
(* wire holds one payload at a time and may cut it short; a foreign peer   *)
(* may put on it a well-formed batch of more than ClaimsMaxCount claims.   *)

Origins == {"sender", "truncated", "peer"}

VARIABLES
    At,        \* the sender's Claims.At
    result,    \* the method the sender last called and the error it returned
    wire,      \* the payload in transit, with where it comes from
    sentAt,    \* the sender's At when it marshalled the payload in transit
    rAt,       \* the receiver's Claims.At
    rStatus    \* how the receiver's last UnmarshalBinary ended

vars == <<At, result, wire, sentAt, rAt, rStatus>>

TypeOK ==
    /\ At \in Seq(Claims \cup {Broken}) /\ Len(At) <= ClaimsMaxCount
    /\ result \in [op : {"none", "Add", "Sort", "MarshalBinary"},
                   err : {"nil", "NilParameter", "MaxCountReached",
                          "NilInternalDataStructure"}]
    /\ wire \in Seq([origin : Origins, data : Seq(Byte)]) /\ Len(wire) <= 1
    /\ sentAt \in Seq(Claims)
    /\ rAt \in Seq(Decoded \cup {Blank})
    /\ rStatus \in {"none", "ok", "error", "panic"}

Init ==
    /\ At = <<>>
    /\ result = [op |-> "none", err |-> "nil"]
    /\ wire = <<>>
    /\ sentAt = <<>>
    /\ rAt = <<>>
    /\ rStatus = "none"

\* Mutant: Add without the ClaimsMaxCount check.
AddUnbounded(claim) ==
    /\ \/ claim = Nil
          /\ result' = [op |-> "Add", err |-> "NilParameter"]
          /\ UNCHANGED At
       \/ claim # Nil
          /\ At' = Append(At, claim)
          /\ result' = [op |-> "Add", err |-> "nil"]
    /\ UNCHANGED <<wire, sentAt, rAt, rStatus>>

\* Claims.Add: NilParameter for nil, MaxCountReached at ClaimsMaxCount.
Add(claim) ==
    /\ \/ claim = Nil
          /\ result' = [op |-> "Add", err |-> "NilParameter"]
          /\ UNCHANGED At
       \/ claim # Nil /\ Count(At) < ClaimsMaxCount
          /\ At' = Append(At, claim)
          /\ result' = [op |-> "Add", err |-> "nil"]
       \/ claim # Nil /\ Count(At) >= ClaimsMaxCount
          /\ result' = [op |-> "Add", err |-> "MaxCountReached"]
          /\ UNCHANGED At
    /\ UNCHANGED <<wire, sentAt, rAt, rStatus>>

\* Claims.Sort: the deferred recover turns the comparator's panic into the
\* returned error.
Sort ==
    LET r == SortSlice(At)
    IN  /\ At' = r.s
        /\ result' = [op |-> "Sort",
                      err |-> IF r.panicked THEN "NilInternalDataStructure" ELSE "nil"]
        /\ UNCHANGED <<wire, sentAt, rAt, rStatus>>

\* Claims.MarshalBinary; a payload is handed to the transport on success.
MarshalBinary ==
    LET m == ClaimsMarshalBinary(At)
    IN  /\ wire = <<>>
        /\ result' = [op |-> "MarshalBinary", err |-> m.err]
        /\ \/ m.err = "nil"
              /\ wire' = <<[origin |-> "sender", data |-> m.data]>>
              /\ sentAt' = At
           \/ m.err # "nil" /\ UNCHANGED <<wire, sentAt>>
        /\ UNCHANGED <<At, rAt, rStatus>>

\* The connection drops the tail of a payload.
Truncate ==
    /\ wire # <<>> /\ wire[1].origin = "sender"
    /\ \E n \in 0 .. Len(wire[1].data) - 1 :
          wire' = <<[origin |-> "truncated", data |-> SubSeq(wire[1].data, 1, n)]>>
    /\ UNCHANGED <<At, result, sentAt, rAt, rStatus>>

\* A peer that does not bound its batch sends ClaimsMaxCount + 1 claims.
PeerSend ==
    /\ wire = <<>>
    /\ \E s \in [1 .. ClaimsMaxCount + 1 -> Claims] :
          wire' = <<[origin |-> "peer", data |-> ClaimsMarshalBinary(s).data]>>
    /\ UNCHANGED <<At, result, sentAt, rAt, rStatus>>

\* The receiver unmarshals the payload into its batch.
UnmarshalBinary ==
    /\ wire # <<>>
    /\ LET r == ClaimsUnmarshalBinary(wire[1].data, rAt)
       IN  /\ rAt' = r.at
           /\ rStatus' = r.status
    /\ wire' = <<>>
    /\ sentAt' = <<>>
    /\ UNCHANGED <<At, result>>

Next ==
    \/ \E claim \in Claims \cup {Broken, Nil} : Add(claim)
    \/ Sort \/ MarshalBinary \/ Truncate \/ PeerSend \/ UnmarshalBinary

Spec == Init /\ [][Next]_vars

-----------------------------------------------------------------------------
(* Properties.                                                             *)

\* bytes.Compare order on binary forms, stated as prefix or first
\* difference: the reference for the order Sort must produce.
LexLeq(a, b) ==
    LET x == ClaimMarshalBinary(a).data
        y == ClaimMarshalBinary(b).data
    IN  \/ IsPrefix(x, y)
        \/ \E k \in 1 .. Len(x) :
              k <= Len(y) /\ SubSeq(x, 1, k - 1) = SubSeq(y, 1, k - 1) /\ x[k] < y[k]

\* Claims.Sort keeps every claim, also when a comparator panic cuts it
\* short, and when it returns nil the batch is in bytes.Compare order
\* (spec 8.2), whatever the order Add built it in.
SortOrders ==
    [][result'.op = "Sort" =>
          /\ ToBag(At') = ToBag(At)
          /\ result'.err = "nil" => IsSorted(At', LexLeq)]_vars

\* A payload Claims.MarshalBinary produced and that arrives whole is
\* unmarshalled without error into the batch that was marshalled (spec
\* 8.1), for every batch Add and Sort can build.
RoundTrip ==
    [][wire # <<>> /\ wire[1].origin = "sender" /\ wire' = <<>> =>
          rStatus' = "ok" /\ rAt' = sentAt]_vars

ReceivedBatchBounded == Len(rAt) <= ClaimsMaxCount

=============================================================================
