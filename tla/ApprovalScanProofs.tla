------------------------- MODULE ApprovalScanProofs -------------------------
(***************************************************************************)
(* The loop of Record.IsMajorityApprovesCollected (pool.go:32-54), as the *)
(* recursive function of LoopVerdict, returns what the closed form        *)
(* IsMajorityApprovesCollected says: TRUE exactly when the first slot at  *)
(* which a counter reaches its threshold approves.  The other proofs of   *)
(* the pool reason about the closed form; this module ties it to the      *)
(* loop, for every N and K.                                               *)
(*                                                                         *)
(* The argument: the counters after slots 0 .. i - 1 are given in closed  *)
(* form (Closed); the function of closed forms satisfies the loop's       *)
(* recursion (ClosedIsScan); the recursion has one solution (ScanUnique, *)
(* at the least slot where two solutions differ); so the loop's function *)
(* is the closed one (LoopIsClosed).                                       *)
(***************************************************************************)
EXTENDS ApprovalPoolProofs

\* f satisfies the recursion that defines scan in LoopVerdict(a).
IsScan(a, f) ==
    f = [i \in 0 .. ObserversMaxCount |->
            IF i = 0 THEN ScanStart ELSE ScanStep(f[i - 1], a[i - 1])]

\* The first slot at which the loop returns, when it returns at all.
First(a) ==
    CHOOSE m \in Slots : ReturnsAt(a, m) /\ \A y \in 0 .. m - 1 : ~ReturnsAt(a, y)

\* The loop's counters and verdict after slots 0 .. i - 1, in closed form:
\* frozen at the first slot where it returned, else the counts so far.
Closed(a, i) ==
    IF \E m \in 0 .. i - 1 : ReturnsAt(a, m)
      THEN [pos |-> PositiveVotes(a, First(a)), neg |-> NegativeVotes(a, First(a)),
            verdict |-> IF a[First(a)] THEN "approved" ELSE "rejected"]
      ELSE [pos |-> PositiveVotes(a, i - 1), neg |-> NegativeVotes(a, i - 1),
            verdict |-> "open"]

-----------------------------------------------------------------------------

\* Reading the vote of slot i adds one to its counter and none to the other.
LEMMA VoteCountStep ==
    ASSUME NEW a \in [Slots -> BOOLEAN], NEW i \in Slots
    PROVE  /\ PositiveVotes(a, i - 1) \in Nat /\ NegativeVotes(a, i - 1) \in Nat
           /\ PositiveVotes(a, i) = PositiveVotes(a, i - 1) + (IF a[i] THEN 1 ELSE 0)
           /\ NegativeVotes(a, i) = NegativeVotes(a, i - 1) + (IF a[i] THEN 0 ELSE 1)
<1> USE PoolAssumption
<1> DEFINE P(j) == {m \in 0 .. j : a[m]}
           Q(j) == {m \in 0 .. j : ~a[m]}
<1>1. i \in Nat /\ i - 1 \in Int
  BY DEF Slots
<1>2. IsFiniteSet(0 .. i - 1)
  BY <1>1, FS_Interval
<1>3. IsFiniteSet(P(i - 1)) /\ IsFiniteSet(Q(i - 1))
  BY <1>2, FS_Subset
<1>4. i \notin P(i - 1) /\ i \notin Q(i - 1)
  BY <1>1
<1>5. Cardinality(P(i - 1)) \in Nat /\ Cardinality(Q(i - 1)) \in Nat
  BY <1>3, FS_CardinalityType
<1>6. CASE a[i]
  <2>1. P(i) = P(i - 1) \cup {i} /\ Q(i) = Q(i - 1)
    BY <1>1, <1>6 DEF Slots
  <2>2. Cardinality(P(i - 1) \cup {i}) = Cardinality(P(i - 1)) + 1
    BY <1>3, <1>4, FS_AddElement
  <2>3. PositiveVotes(a, i) = PositiveVotes(a, i - 1) + 1
    BY <1>5, <2>1, <2>2 DEF PositiveVotes
  <2>4. NegativeVotes(a, i) = NegativeVotes(a, i - 1)
    BY <1>5, <2>1, <2>2 DEF NegativeVotes
  <2>5. (IF a[i] THEN 1 ELSE 0) = 1 /\ (IF a[i] THEN 0 ELSE 1) = 0
    BY <1>6, Zenon
  <2>. QED
    BY <1>5, <2>3, <2>4, <2>5 DEF PositiveVotes, NegativeVotes
<1>7. CASE ~a[i]
  <2>1. Q(i) = Q(i - 1) \cup {i} /\ P(i) = P(i - 1)
    BY <1>1, <1>7 DEF Slots
  <2>2. Cardinality(Q(i - 1) \cup {i}) = Cardinality(Q(i - 1)) + 1
    BY <1>3, <1>4, FS_AddElement
  <2>3. PositiveVotes(a, i) = PositiveVotes(a, i - 1)
    BY <1>5, <2>1, <2>2 DEF PositiveVotes
  <2>4. NegativeVotes(a, i) = NegativeVotes(a, i - 1) + 1
    BY <1>5, <2>1, <2>2 DEF NegativeVotes
  <2>5. (IF a[i] THEN 1 ELSE 0) = 0 /\ (IF a[i] THEN 0 ELSE 1) = 1
    BY <1>7, Zenon
  <2>. QED
    BY <1>5, <2>3, <2>4, <2>5 DEF PositiveVotes, NegativeVotes
<1>. QED
  BY <1>6, <1>7

\* A slot where the loop returns, with no such slot before it, is First.
LEMMA FirstUnique ==
    ASSUME NEW a \in [Slots -> BOOLEAN], NEW m \in Slots, ReturnsAt(a, m),
           \A y \in 0 .. m - 1 : ~ReturnsAt(a, y)
    PROVE  First(a) = m
<1>1. /\ First(a) \in Slots /\ ReturnsAt(a, First(a))
      /\ \A y \in 0 .. First(a) - 1 : ~ReturnsAt(a, y)
  BY DEF First
<1>2. ~(First(a) < m) /\ ~(m < First(a))
  BY <1>1 DEF Slots
<1>. QED
  BY <1>1, <1>2 DEF Slots

\* If the loop returns at slot j, First is the first such slot, at or
\* before j.
LEMMA FirstExists ==
    ASSUME NEW a \in [Slots -> BOOLEAN], NEW j \in Slots, ReturnsAt(a, j)
    PROVE  /\ First(a) \in 0 .. j /\ ReturnsAt(a, First(a))
           /\ \A y \in 0 .. First(a) - 1 : ~ReturnsAt(a, y)
<1> DEFINE R == {m \in Slots : ReturnsAt(a, m)}
<1>1. R \subseteq Nat /\ R # {}
  BY DEF Slots
<1>2. PICK m \in R : \A y \in R : m <= y
  BY <1>1, NatLeast
<1>3. m \in Slots /\ ReturnsAt(a, m) /\ m <= j
  BY <1>2
<1>4. \A y \in 0 .. m - 1 : ~ReturnsAt(a, y)
  <2> SUFFICES ASSUME NEW y \in 0 .. m - 1, ReturnsAt(a, y) PROVE FALSE
    OBVIOUS
  <2>1. y \in R
    BY <1>3, PoolAssumption DEF Slots
  <2>. QED
    BY <1>2, <2>1
<1>5. First(a) = m
  BY <1>3, <1>4, FirstUnique
<1>. QED
  BY <1>3, <1>4, <1>5 DEF Slots


\* One pass of the loop takes the closed form after slots 0 .. i - 2 to the
\* closed form after slots 0 .. i - 1.
LEMMA ClosedStep ==
    ASSUME NEW a \in [Slots -> BOOLEAN], NEW i \in 1 .. ObserversMaxCount
    PROVE  Closed(a, i) = ScanStep(Closed(a, i - 1), a[i - 1])
<1> USE PoolAssumption
<1> DEFINE j == i - 1
           pp == PositiveVotes(a, j - 1)
           nn == NegativeVotes(a, j - 1)
           s == [pos |-> pp, neg |-> nn, verdict |-> "open"]
<1>1. j \in Slots /\ j - 1 = i - 2 /\ (0 .. i - 1) = (0 .. j - 1) \cup {j}
  BY DEF Slots
<1>2. CASE \E m \in 0 .. j - 1 : ReturnsAt(a, m)
  <2>1. \E m \in 0 .. i - 1 : ReturnsAt(a, m)
    BY <1>1, <1>2
  <2>2. Closed(a, j).verdict # "open"
    BY <1>2 DEF Closed
  <2>3. ScanStep(Closed(a, j), a[j]) = Closed(a, j)
    BY <2>2 DEF ScanStep
  <2>4. Closed(a, i) = Closed(a, j)
    BY <1>2, <2>1 DEF Closed
  <2>. QED
    BY <2>3, <2>4
<1>3. CASE ~\E m \in 0 .. j - 1 : ReturnsAt(a, m)
  <2>0. Closed(a, j) = s
    BY <1>3 DEF Closed
  <2>1. /\ pp \in Nat /\ nn \in Nat
        /\ PositiveVotes(a, j) = pp + (IF a[j] THEN 1 ELSE 0)
        /\ NegativeVotes(a, j) = nn + (IF a[j] THEN 0 ELSE 1)
    BY <1>1, VoteCountStep
  <2>2. CASE ReturnsAt(a, j)
    <3>1. First(a) = j
      BY <1>1, <1>3, <2>2, FirstUnique
    <3>2. \E m \in 0 .. i - 1 : ReturnsAt(a, m)
      BY <1>1, <2>2
    <3>3. Closed(a, i) = [pos |-> PositiveVotes(a, j), neg |-> NegativeVotes(a, j),
                          verdict |-> IF a[j] THEN "approved" ELSE "rejected"]
      BY <3>1, <3>2 DEF Closed
    <3>4. CASE a[j]
      <4>1. PositiveVotes(a, j) = pp + 1 /\ NegativeVotes(a, j) = nn
        BY <2>1, <3>4
      <4>2. pp + 1 >= ObserversConsensusCount
        BY <2>2, <3>4, <4>1 DEF ReturnsAt
      <4>3. ScanStep(s, a[j]) = [pos |-> pp + 1, neg |-> nn, verdict |-> "approved"]
        BY <3>4, <4>2 DEF ScanStep
      <4>4. Closed(a, i) = [pos |-> pp + 1, neg |-> nn, verdict |-> "approved"]
        BY <3>3, <3>4, <4>1
      <4>. QED
        BY <2>0, <4>3, <4>4
    <3>5. CASE ~a[j]
      <4>1. PositiveVotes(a, j) = pp /\ NegativeVotes(a, j) = nn + 1
        BY <2>1, <3>5
      <4>2. nn + 1 >= ObserversMaxCount - ObserversConsensusCount
        BY <2>2, <3>5, <4>1 DEF ReturnsAt
      <4>3. ScanStep(s, a[j]) = [pos |-> pp, neg |-> nn + 1, verdict |-> "rejected"]
        BY <3>5, <4>2 DEF ScanStep
      <4>4. Closed(a, i) = [pos |-> pp, neg |-> nn + 1, verdict |-> "rejected"]
        BY <3>3, <3>5, <4>1
      <4>. QED
        BY <2>0, <4>3, <4>4
    <3>. QED
      BY <3>4, <3>5
  <2>3. CASE ~ReturnsAt(a, j)
    <3>1. ~\E m \in 0 .. i - 1 : ReturnsAt(a, m)
      BY <1>1, <1>3, <2>3
    <3>2. Closed(a, i) = [pos |-> PositiveVotes(a, j), neg |-> NegativeVotes(a, j),
                          verdict |-> "open"]
      BY <3>1 DEF Closed
    <3>3. CASE a[j]
      <4>1. PositiveVotes(a, j) = pp + 1 /\ NegativeVotes(a, j) = nn
        BY <2>1, <3>3
      <4>2. ~(pp + 1 >= ObserversConsensusCount)
        BY <2>3, <3>3, <4>1 DEF ReturnsAt
      <4>3. ScanStep(s, a[j]) = [pos |-> pp + 1, neg |-> nn, verdict |-> "open"]
        BY <3>3, <4>2 DEF ScanStep
      <4>. QED
        BY <2>0, <3>2, <4>1, <4>3
    <3>4. CASE ~a[j]
      <4>1. PositiveVotes(a, j) = pp /\ NegativeVotes(a, j) = nn + 1
        BY <2>1, <3>4
      <4>2. ~(nn + 1 >= ObserversMaxCount - ObserversConsensusCount)
        BY <2>3, <3>4, <4>1 DEF ReturnsAt
      <4>3. ScanStep(s, a[j]) = [pos |-> pp, neg |-> nn + 1, verdict |-> "open"]
        BY <3>4, <4>2 DEF ScanStep
      <4>. QED
        BY <2>0, <3>2, <4>1, <4>3
    <3>. QED
      BY <3>3, <3>4
  <2>. QED
    BY <2>2, <2>3
<1>. QED
  BY <1>2, <1>3


\* The closed forms, slot by slot, satisfy the recursion of the loop.
LEMMA ClosedIsScan ==
    ASSUME NEW a \in [Slots -> BOOLEAN]
    PROVE  IsScan(a, [i \in 0 .. ObserversMaxCount |-> Closed(a, i)])
<1> USE PoolAssumption
<1> DEFINE G == [i \in 0 .. ObserversMaxCount |-> Closed(a, i)]
<1>1. Closed(a, 0) = ScanStart
  <2>1. {m \in 0 .. 0 - 1 : a[m]} = {} /\ {m \in 0 .. 0 - 1 : ~a[m]} = {}
    OBVIOUS
  <2>2. ~\E m \in 0 .. 0 - 1 : ReturnsAt(a, m)
    OBVIOUS
  <2>. QED
    BY <2>1, <2>2, FS_EmptySet DEF Closed, ScanStart, PositiveVotes, NegativeVotes
<1>2. \A i \in 1 .. ObserversMaxCount : G[i] = ScanStep(G[i - 1], a[i - 1])
  BY ClosedStep
<1>3. ASSUME NEW i \in 0 .. ObserversMaxCount
      PROVE  G[i] = IF i = 0 THEN ScanStart ELSE ScanStep(G[i - 1], a[i - 1])
  <2>1. CASE i = 0
    <3>1. G[i] = Closed(a, 0)
      BY <2>1
    <3>. QED
      BY <1>1, <2>1, <3>1
  <2>2. CASE i # 0
    <3>1. i \in 1 .. ObserversMaxCount
      BY <2>2
    <3>. QED
      BY <1>2, <2>2, <3>1
  <2>. QED
    BY <2>1, <2>2
<1>. QED
  BY <1>3 DEF IsScan

\* The recursion of the loop has one solution: two solutions agree at
\* slot 0, and at the least slot where they would differ they apply the
\* same pass to the same counters.
LEMMA ScanUnique ==
    ASSUME NEW a, NEW f, NEW g, IsScan(a, f), IsScan(a, g)
    PROVE  f = g
<1> USE PoolAssumption
<1> DEFINE D == {i \in 0 .. ObserversMaxCount : f[i] # g[i]}
<1>1. /\ DOMAIN f = 0 .. ObserversMaxCount /\ DOMAIN g = 0 .. ObserversMaxCount
      /\ \A i \in 0 .. ObserversMaxCount :
            /\ f[i] = IF i = 0 THEN ScanStart ELSE ScanStep(f[i - 1], a[i - 1])
            /\ g[i] = IF i = 0 THEN ScanStart ELSE ScanStep(g[i - 1], a[i - 1])
  BY DEF IsScan
<1>0. /\ f = [i \in 0 .. ObserversMaxCount |-> f[i]]
      /\ g = [i \in 0 .. ObserversMaxCount |-> g[i]]
  BY DEF IsScan
<1>2. SUFFICES ASSUME D # {} PROVE FALSE
  <2>1. \A i \in 0 .. ObserversMaxCount : f[i] = g[i]
    BY <1>2
  <2>. QED
    BY <1>0, <2>1
<1>6. D \subseteq Nat
  OBVIOUS
<1>3. PICK i \in D : \A y \in D : i <= y
  BY <1>2, <1>6, NatLeast
<1>4. i # 0
  BY <1>1, <1>3
<1>5. f[i - 1] = g[i - 1]
  BY <1>3, <1>4
<1>. QED
  BY <1>1, <1>3, <1>4, <1>5

\* The loop's verdict is the verdict of the closed form after all slots.
LEMMA LoopIsClosed ==
    ASSUME NEW a \in [Slots -> BOOLEAN]
    PROVE  LoopVerdict(a) = (Closed(a, ObserversMaxCount).verdict = "approved")
<1> USE PoolAssumption
<1> DEFINE G == [i \in 0 .. ObserversMaxCount |-> Closed(a, i)]
           scan == CHOOSE f : IsScan(a, f)
<1>1. LoopVerdict(a) = (scan[ObserversMaxCount].verdict = "approved")
  BY DEF LoopVerdict, IsScan
<1>2. IsScan(a, G)
  BY ClosedIsScan
<1>3. IsScan(a, scan)
  BY <1>2, Zenon
<1>4. scan = G
  BY <1>2, <1>3, ScanUnique
<1>5. G[ObserversMaxCount] = Closed(a, ObserversMaxCount)
  OBVIOUS
<1>. QED
  BY <1>1, <1>4, <1>5


\* The closed form IsMajorityApprovesCollected is the loop's answer for
\* every vector of approvals: both say TRUE exactly when the first slot
\* at which a counter reaches its threshold approves.
LEMMA ClosedFormIsLoop ==
    ASSUME NEW a \in [Slots -> BOOLEAN]
    PROVE  IsMajorityApprovesCollected(a) = LoopVerdict(a)
<1> USE PoolAssumption
<1>1. LoopVerdict(a) = (Closed(a, ObserversMaxCount).verdict = "approved")
  BY LoopIsClosed
<1>4. IsMajorityApprovesCollected(a) \in BOOLEAN /\ LoopVerdict(a) \in BOOLEAN
  BY DEF IsMajorityApprovesCollected, LoopVerdict
<1>5. SUFFICES IsMajorityApprovesCollected(a) <=> LoopVerdict(a)
  BY <1>4
<1>2. CASE \E m \in 0 .. ObserversMaxCount - 1 : ReturnsAt(a, m)
  <2>1. PICK j \in Slots : ReturnsAt(a, j)
    BY <1>2 DEF Slots
  <2>2. /\ First(a) \in Slots /\ ReturnsAt(a, First(a))
        /\ \A y \in 0 .. First(a) - 1 : ~ReturnsAt(a, y)
    BY <2>1, FirstExists DEF Slots
  <2>3. Closed(a, ObserversMaxCount).verdict
           = IF a[First(a)] THEN "approved" ELSE "rejected"
    BY <1>2 DEF Closed
  <2>4. IsMajorityApprovesCollected(a) => a[First(a)]
    <3> SUFFICES ASSUME IsMajorityApprovesCollected(a) PROVE a[First(a)]
      OBVIOUS
    <3>1. PICK i \in Slots : /\ a[i] /\ ReturnsAt(a, i)
                             /\ \A m \in 0 .. i - 1 : ~ReturnsAt(a, m)
      BY DEF IsMajorityApprovesCollected
    <3>2. First(a) = i
      BY <3>1, FirstUnique
    <3>. QED
      BY <3>1, <3>2
  <2>5. a[First(a)] => IsMajorityApprovesCollected(a)
    BY <2>2 DEF IsMajorityApprovesCollected
  <2>6. (IF a[First(a)] THEN "approved" ELSE "rejected") = "approved" <=> a[First(a)]
    OBVIOUS
  <2>. QED
    BY <1>1, <2>3, <2>4, <2>5, <2>6, Zenon
<1>3. CASE ~\E m \in 0 .. ObserversMaxCount - 1 : ReturnsAt(a, m)
  <2>1. Closed(a, ObserversMaxCount).verdict = "open"
    BY <1>3 DEF Closed
  <2>2. ~IsMajorityApprovesCollected(a)
    BY <1>3 DEF IsMajorityApprovesCollected, Slots
  <2>3. "open" # "approved"
    OBVIOUS
  <2>. QED
    BY <1>1, <2>1, <2>2, <2>3, Zenon
<1>. QED
  BY <1>2, <1>3

\* The closed form the pool's other proofs reason about is the loop of
\* Record.IsMajorityApprovesCollected, on every Record the pool holds, for
\* every N and K (the invariant ScanAgrees that the run MCApprovalPool
\* checks).
THEOREM ClosedFormMatchesLoop == Spec => []ScanAgrees
<1>1. TypeOK => ScanAgrees
  <2> SUFFICES ASSUME TypeOK, NEW k \in Data, index[k] # NoRecord
               PROVE  IsMajorityApprovesCollected(index[k].Approves)
                          = LoopVerdict(index[k].Approves)
    BY DEF ScanAgrees
  <2>1. index[k].Approves \in [Slots -> BOOLEAN]
    BY DEF TypeOK, Record
  <2>. QED
    BY <2>1, ClosedFormIsLoop
<1>. QED
  BY <1>1, TypeCorrect, PTL

=============================================================================
