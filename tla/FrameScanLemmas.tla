--------------------------- MODULE FrameScanLemmas ---------------------------
(***************************************************************************)
(* What the loop of processMajorityOfFrameResponses computes, for every    *)
(* sequence of collected responses.                                        *)
(*                                                                         *)
(* TopFrameIndex is a recursive function over the responses, which in      *)
(* TLA+ is CHOOSE f : f = [i \in 0 .. Len(votes) |-> ...]: nothing is      *)
(* known of it until a function satisfying that equation is shown to       *)
(* exist and to be the only one.  Both are shown by taking least elements  *)
(* (NatLeast) instead of an induction theorem:                             *)
(*   - TopScanExists: for every k, some function on 0 .. k satisfies the   *)
(*     equation and keeps an invariant Good; the least k without one       *)
(*     would extend the function of k - 1 by one step (TopStepGood);       *)
(*   - TopScanUnique: two solutions agree, since at the least index where  *)
(*     they differ their predecessors agree.                               *)
(* So the loop's result satisfies Good: the frame it picks is a uint16     *)
(* frame that one of the responses carries.                                *)
(***************************************************************************)
EXTENDS FrameTimer, NatLemmas, FiniteSetTheorems, TLAPS

\* The state of the loop: topFrameIndex and topFrameVotesCount.
TopState == [top : FrameIndex, votes : Nat]

\* f is the loop of TopFrameIndex over votes.
IsTopScan(votes, f) ==
    f = [i \in 0 .. Len(votes) |->
           IF i = 0 THEN TopStart ELSE TopStep(votes, f[i - 1], i)]

\* What holds of the loop's state after i responses: before the loop it is
\* TopStart; afterwards its group has at least one vote and its frame is
\* the frame of one of the first i responses.
Good(votes, i, s) ==
    /\ s \in TopState
    /\ i = 0 => s = TopStart
    /\ i # 0 => /\ s.votes >= 1
                /\ \E j \in 1 .. i : votes[j].frameIndex = s.top

\* The functions on 0 .. k that satisfy the loop's equation and keep Good.
Partial(votes, k) ==
    {g \in [0 .. k -> TopState] :
        \A i \in 0 .. k :
            /\ g[i] = IF i = 0 THEN TopStart ELSE TopStep(votes, g[i - 1], i)
            /\ Good(votes, i, g[i])}

\* f is the loop of AverageNextFrameTTL over votes: the wrapping sum of the
\* corrected offsets of the responses of frame top.
IsTotal(votes, top, t, f) ==
    f = [i \in 0 .. Len(votes) |->
           IF i = 0 THEN 0 ELSE TotalStep(votes, top, t, f[i - 1], i)]

\* The functions on 0 .. k into uint64 that satisfy that loop's equation.
TotalPartial(votes, top, t, k) ==
    {g \in [0 .. k -> Uint64] :
        \A i \in 0 .. k :
            g[i] = IF i = 0 THEN 0 ELSE TotalStep(votes, top, t, g[i - 1], i)}

-----------------------------------------------------------------------------
(* Lemmas about the integer types of the Timer.                           *)

\* The remainder of a division lies below the divisor.
LEMMA ModRange ==
    ASSUME NEW z \in Int, NEW n \in Nat \ {0}
    PROVE  z % n \in 0 .. n - 1
  BY SMT

\* The width of a frame index is a positive number.  Uint16 is otherwise
\* left opaque: expanded, 0 .. 65535 would be handed to the provers as a
\* disjunction of its elements.
LEMMA Uint16Positive == Uint16 \in Nat \ {0}
  BY DEF Uint16

LEMMA U64Positive == U64 \in Nat \ {0}
  BY ConstantsAssumption

\* kInitialTimeFrameIndex (math.MaxUint16) and 0 are frame indices.
LEMMA InitialFrameType == {kInitialTimeFrameIndex, 0} \subseteq FrameIndex
  BY Uint16Positive DEF kInitialTimeFrameIndex, FrameIndex

\* uint64(x) is a uint64 whatever integer it converts.
LEMMA ToUint64Type ==
    ASSUME NEW i \in Int
    PROVE  ToUint64(i) \in Uint64
  BY U64Positive, ModRange DEF ToUint64, Uint64

\* int64(u) is an integer.
LEMMA ToInt64Type ==
    ASSUME NEW u \in Uint64
    PROVE  ToInt64(u) \in Int
  BY U64Positive DEF ToInt64, Uint64

-----------------------------------------------------------------------------
(* The loop of processMajorityOfFrameResponses.                            *)

\* One iteration keeps Good: the group of response i has at least one vote
\* (response i itself), so the first iteration always replaces TopStart.
LEMMA TopStepGood ==
    ASSUME NEW votes \in Seq(Vote), NEW i \in 1 .. Len(votes),
           NEW s, Good(votes, i - 1, s)
    PROVE  Good(votes, i, TopStep(votes, s, i))
<1> DEFINE S == {j \in 1 .. i : votes[j].frameIndex = votes[i].frameIndex}
           count == Cardinality(S)
<1>1. count \in Nat /\ count >= 1
  <2>1. IsFiniteSet(1 .. i) /\ S \subseteq 1 .. i
    BY FS_Interval
  <2>2. IsFiniteSet(S) /\ i \in S
    BY <2>1, FS_Subset
  <2>3. S # {}
    BY <2>2, Zenon
  <2>4. count \in Nat
    BY <2>2, FS_CardinalityType
  <2>5. count # 0
    BY <2>2, <2>3, FS_EmptySet, Zenon
  <2>. QED
    BY <2>4, <2>5
<1>2. votes[i].frameIndex \in FrameIndex
  <2>1. votes[i] \in Vote
    OBVIOUS
  <2>. QED
    BY <2>1, Zenon DEF Vote
<1>3. TopStep(votes, s, i) = IF count > s.votes
                               THEN [top |-> votes[i].frameIndex, votes |-> count]
                               ELSE s
  BY DEF TopStep
<1>4. CASE count > s.votes
  BY <1>1, <1>2, <1>3, <1>4 DEF Good, TopState
<1>5. CASE ~(count > s.votes)
  <2>1. i - 1 # 0
    <3>1. SUFFICES ASSUME i - 1 = 0 PROVE FALSE
      OBVIOUS
    <3>2. s = TopStart
      BY <3>1 DEF Good
    <3>. QED
      BY <1>1, <1>5, <3>2 DEF TopStart
  <2>2. /\ s \in TopState /\ s.votes >= 1
        /\ \E j \in 1 .. i - 1 : votes[j].frameIndex = s.top
    BY <2>1 DEF Good
  <2>. QED
    BY <1>3, <1>5, <2>2 DEF Good
<1>. QED
  BY <1>4, <1>5


\* A solution on 0 .. k - 1 extends by one iteration to a solution on 0 .. k.
LEMMA PartialExtends ==
    ASSUME NEW votes \in Seq(Vote), NEW k \in 1 .. Len(votes),
           NEW g \in Partial(votes, k - 1)
    PROVE  Partial(votes, k) # {}
<1> DEFINE h == [i \in 0 .. k |-> IF i < k THEN g[i] ELSE TopStep(votes, g[k - 1], k)]
<1>1. /\ g \in [0 .. k - 1 -> TopState]
      /\ \A i \in 0 .. k - 1 :
            /\ g[i] = IF i = 0 THEN TopStart ELSE TopStep(votes, g[i - 1], i)
            /\ Good(votes, i, g[i])
  BY DEF Partial
<1>2. Good(votes, k, h[k])
  <2>1. Good(votes, k - 1, g[k - 1])
    BY <1>1
  <2>2. h[k] = TopStep(votes, g[k - 1], k)
    OBVIOUS
  <2>. QED
    BY <2>1, <2>2, TopStepGood
<1>3. ASSUME NEW i \in 0 .. k
      PROVE  /\ h[i] \in TopState
             /\ h[i] = IF i = 0 THEN TopStart ELSE TopStep(votes, h[i - 1], i)
             /\ Good(votes, i, h[i])
  <2>1. CASE i < k
    <3>1. h[i] = g[i] /\ (i # 0 => h[i - 1] = g[i - 1])
      BY <2>1
    <3>2. g[i] \in TopState
      BY <1>1, <2>1
    <3>. QED
      BY <1>1, <2>1, <3>1, <3>2
  <2>2. CASE i = k
    <3>1. h[k] \in TopState
      BY <1>2 DEF Good
    <3>2. h[k - 1] = g[k - 1]
      OBVIOUS
    <3>. QED
      BY <1>2, <2>2, <3>1, <3>2
  <2>. QED
    BY <2>1, <2>2
<1>4. h \in [0 .. k -> TopState]
  BY <1>3
<1>. QED
  BY <1>3, <1>4 DEF Partial

\* The loop's equation has a solution on 0 .. Len(votes) that keeps Good.
LEMMA TopScanExists ==
    ASSUME NEW votes \in Seq(Vote)
    PROVE  \E f : IsTopScan(votes, f) /\ \A i \in 0 .. Len(votes) : Good(votes, i, f[i])
<1> DEFINE B == {k \in 0 .. Len(votes) : Partial(votes, k) = {}}
<1>1. Partial(votes, Len(votes)) # {}
  <2>1. SUFFICES ASSUME B # {} PROVE FALSE
    OBVIOUS
  <2>0. B \subseteq Nat
    OBVIOUS
  <2>2. PICK k \in B : \A y \in B : k <= y
    BY <2>0, <2>1, NatLeast
  <2>3. CASE k = 0
    <3> DEFINE g0 == [i \in 0 .. 0 |-> TopStart]
    <3>1. TopStart \in TopState
      BY InitialFrameType DEF TopStart, TopState
    <3>2. Good(votes, 0, TopStart)
      BY <3>1 DEF Good
    <3>3. g0 \in Partial(votes, 0)
      BY <3>1, <3>2 DEF Partial
    <3>. QED
      BY <2>2, <2>3, <3>3
  <2>4. CASE k # 0
    <3>1. k - 1 \in 0 .. Len(votes) /\ k - 1 \notin B
      BY <2>2, <2>4
    <3>2. PICK g \in Partial(votes, k - 1) : TRUE
      BY <3>1
    <3>3. Partial(votes, k) # {}
      BY <2>4, <3>2, PartialExtends
    <3>. QED
      BY <2>2, <3>3
  <2>. QED
    BY <2>3, <2>4
<1>2. PICK g \in Partial(votes, Len(votes)) : TRUE
  BY <1>1
<1>3. /\ g \in [0 .. Len(votes) -> TopState]
      /\ \A i \in 0 .. Len(votes) :
            /\ g[i] = IF i = 0 THEN TopStart ELSE TopStep(votes, g[i - 1], i)
            /\ Good(votes, i, g[i])
  BY <1>2 DEF Partial
<1>4. IsTopScan(votes, g)
  BY <1>3 DEF IsTopScan
<1>. QED
  BY <1>3, <1>4

\* The loop's equation has at most one solution.
LEMMA TopScanUnique ==
    ASSUME NEW votes, NEW f, NEW g, IsTopScan(votes, f), IsTopScan(votes, g)
    PROVE  f = g
<1> DEFINE D == {i \in 0 .. Len(votes) : f[i] # g[i]}
<1>1. \A i \in 0 .. Len(votes) :
         /\ f[i] = IF i = 0 THEN TopStart ELSE TopStep(votes, f[i - 1], i)
         /\ g[i] = IF i = 0 THEN TopStart ELSE TopStep(votes, g[i - 1], i)
  BY DEF IsTopScan
<1>2. /\ f = [i \in 0 .. Len(votes) |-> f[i]]
      /\ g = [i \in 0 .. Len(votes) |-> g[i]]
  BY DEF IsTopScan
<1>3. SUFFICES ASSUME D # {} PROVE FALSE
  <2>1. \A i \in 0 .. Len(votes) : f[i] = g[i]
    BY <1>3
  <2>. QED
    BY <1>2, <2>1
<1>4. D \subseteq Nat
  OBVIOUS
<1>5. PICK i \in D : \A y \in D : i <= y
  BY <1>3, <1>4, NatLeast
<1>6. i # 0
  BY <1>1, <1>5
<1>7. f[i - 1] = g[i - 1]
  BY <1>5, <1>6
<1>. QED
  BY <1>1, <1>5, <1>6, <1>7


-----------------------------------------------------------------------------
(* The loop of processMajorityAndCalculateAverageNextFrameTTL.             *)

\* The corrected offset of a response, stored as uint64, is a uint64.
LEMMA CorrectedType ==
    ASSUME NEW vote \in Vote, NEW t \in Int
    PROVE  CorrectedNanosecondsLeft(vote, t) \in Uint64
<1>1. vote.nanosecondsLeft \in Uint64 /\ vote.received \in Int
  BY Zenon DEF Vote
<1>2. ToInt64(vote.nanosecondsLeft) \in Int
  BY <1>1, ToInt64Type
<1>3. Interval \in Int
  BY ConstantsAssumption
<1>4. Interval + ToInt64(vote.nanosecondsLeft) - (t - vote.received) \in Int
  BY <1>1, <1>2, <1>3
<1>. QED
  BY <1>4, ToUint64Type DEF CorrectedNanosecondsLeft

\* total += ttl keeps total a uint64.
LEMMA TotalStepType ==
    ASSUME NEW votes \in Seq(Vote), NEW top, NEW t \in Int,
           NEW prev \in Uint64, NEW i \in 1 .. Len(votes)
    PROVE  TotalStep(votes, top, t, prev, i) \in Uint64
<1> DEFINE x == IF votes[i].frameIndex = top
                  THEN CorrectedNanosecondsLeft(votes[i], t) ELSE 0
<1>1. x \in Uint64
  <2>1. CorrectedNanosecondsLeft(votes[i], t) \in Uint64
    BY CorrectedType
  <2>2. 0 \in Uint64
    BY U64Positive DEF Uint64
  <2>. QED
    BY <2>1, <2>2
<1>2. prev + x \in Int
  BY <1>1 DEF Uint64
<1>. QED
  BY <1>2, U64Positive, ModRange DEF TotalStep, Uint64

\* A solution on 0 .. k - 1 extends by one iteration to a solution on 0 .. k.
LEMMA TotalPartialExtends ==
    ASSUME NEW votes \in Seq(Vote), NEW top, NEW t \in Int,
           NEW k \in 1 .. Len(votes), NEW g \in TotalPartial(votes, top, t, k - 1)
    PROVE  TotalPartial(votes, top, t, k) # {}
<1> DEFINE h == [i \in 0 .. k |-> IF i < k THEN g[i]
                                  ELSE TotalStep(votes, top, t, g[k - 1], k)]
<1>1. /\ g \in [0 .. k - 1 -> Uint64]
      /\ \A i \in 0 .. k - 1 :
            g[i] = IF i = 0 THEN 0 ELSE TotalStep(votes, top, t, g[i - 1], i)
  BY DEF TotalPartial
<1>2. h[k] \in Uint64
  BY <1>1, TotalStepType
<1>3. ASSUME NEW i \in 0 .. k
      PROVE  /\ h[i] \in Uint64
             /\ h[i] = IF i = 0 THEN 0 ELSE TotalStep(votes, top, t, h[i - 1], i)
  <2>1. CASE i < k
    <3>1. h[i] = g[i] /\ (i # 0 => h[i - 1] = g[i - 1])
      BY <2>1
    <3>. QED
      BY <1>1, <2>1, <3>1
  <2>2. CASE i = k
    BY <1>2, <2>2
  <2>. QED
    BY <2>1, <2>2
<1>. QED
  BY <1>3 DEF TotalPartial

\* The sum's equation has a solution on 0 .. Len(votes) into uint64.
LEMMA TotalExists ==
    ASSUME NEW votes \in Seq(Vote), NEW top, NEW t \in Int
    PROVE  \E f : IsTotal(votes, top, t, f) /\ f \in [0 .. Len(votes) -> Uint64]
<1> DEFINE B == {k \in 0 .. Len(votes) : TotalPartial(votes, top, t, k) = {}}
<1>1. TotalPartial(votes, top, t, Len(votes)) # {}
  <2>1. SUFFICES ASSUME B # {} PROVE FALSE
    OBVIOUS
  <2>0. B \subseteq Nat
    OBVIOUS
  <2>2. PICK k \in B : \A y \in B : k <= y
    BY <2>0, <2>1, NatLeast
  <2>3. CASE k = 0
    <3>1. [i \in 0 .. 0 |-> 0] \in TotalPartial(votes, top, t, 0)
      BY U64Positive DEF TotalPartial, Uint64
    <3>. QED
      BY <2>2, <2>3, <3>1
  <2>4. CASE k # 0
    <3>1. k - 1 \in 0 .. Len(votes) /\ k - 1 \notin B
      BY <2>2, <2>4
    <3>2. PICK g \in TotalPartial(votes, top, t, k - 1) : TRUE
      BY <3>1
    <3>3. TotalPartial(votes, top, t, k) # {}
      BY <2>4, <3>2, TotalPartialExtends
    <3>. QED
      BY <2>2, <3>3
  <2>. QED
    BY <2>3, <2>4
<1>2. PICK g \in TotalPartial(votes, top, t, Len(votes)) : TRUE
  BY <1>1
<1>3. /\ g \in [0 .. Len(votes) -> Uint64]
      /\ \A i \in 0 .. Len(votes) :
            g[i] = IF i = 0 THEN 0 ELSE TotalStep(votes, top, t, g[i - 1], i)
  BY <1>2 DEF TotalPartial
<1>4. IsTotal(votes, top, t, g)
  BY <1>3 DEF IsTotal
<1>. QED
  BY <1>3, <1>4

\* The sum's equation has at most one solution.
LEMMA TotalUnique ==
    ASSUME NEW votes, NEW top, NEW t, NEW f, NEW g,
           IsTotal(votes, top, t, f), IsTotal(votes, top, t, g)
    PROVE  f = g
<1> DEFINE D == {i \in 0 .. Len(votes) : f[i] # g[i]}
<1>1. \A i \in 0 .. Len(votes) :
         /\ f[i] = IF i = 0 THEN 0 ELSE TotalStep(votes, top, t, f[i - 1], i)
         /\ g[i] = IF i = 0 THEN 0 ELSE TotalStep(votes, top, t, g[i - 1], i)
  BY DEF IsTotal
<1>2. /\ f = [i \in 0 .. Len(votes) |-> f[i]]
      /\ g = [i \in 0 .. Len(votes) |-> g[i]]
  BY DEF IsTotal
<1>3. SUFFICES ASSUME D # {} PROVE FALSE
  <2>1. \A i \in 0 .. Len(votes) : f[i] = g[i]
    BY <1>3
  <2>. QED
    BY <1>2, <2>1
<1>4. D \subseteq Nat
  OBVIOUS
<1>5. PICK i \in D : \A y \in D : i <= y
  BY <1>3, <1>4, NatLeast
<1>6. i # 0
  BY <1>1, <1>5
<1>7. f[i - 1] = g[i - 1]
  BY <1>5, <1>6
<1>. QED
  BY <1>1, <1>5, <1>6, <1>7


-----------------------------------------------------------------------------
(* What processMajorityOfFrameResponses computes.                          *)

\* The frame the loop picks from non-empty responses is a uint16 frame one
\* of them carries.
LEMMA TopFrameOfVotes ==
    ASSUME NEW votes \in Seq(Vote), votes # <<>>
    PROVE  /\ TopFrameIndex(votes) \in FrameIndex
           /\ \E j \in 1 .. Len(votes) : votes[j].frameIndex = TopFrameIndex(votes)
<1> DEFINE scan == CHOOSE f : IsTopScan(votes, f)
<1>1. TopFrameIndex(votes) = scan[Len(votes)].top
  BY DEF TopFrameIndex, IsTopScan
<1>2. PICK f : IsTopScan(votes, f) /\ \A i \in 0 .. Len(votes) : Good(votes, i, f[i])
  BY TopScanExists
<1>3. IsTopScan(votes, scan)
  BY <1>2, Zenon
<1>4. scan = f
  BY <1>2, <1>3, TopScanUnique
<1>5. Len(votes) # 0
  OBVIOUS
<1>6. Good(votes, Len(votes), f[Len(votes)])
  BY <1>2
<1>. QED
  BY <1>1, <1>4, <1>5, <1>6 DEF Good, TopState

\* The average over a group that holds a response is a uint64: the wrapping
\* sum is one, and it is divided by a count of at least one.
LEMMA AverageType ==
    ASSUME NEW votes \in Seq(Vote), NEW t \in Int, NEW top,
           \E j \in 1 .. Len(votes) : votes[j].frameIndex = top
    PROVE  AverageNextFrameTTL(votes, top, t) \in Uint64
<1> DEFINE total == CHOOSE f : IsTotal(votes, top, t, f)
           S == {i \in 1 .. Len(votes) : votes[i].frameIndex = top}
           size == Cardinality(S)
<1>1. AverageNextFrameTTL(votes, top, t) = total[Len(votes)] \div size
  BY DEF AverageNextFrameTTL, IsTotal
<1>2. total[Len(votes)] \in Uint64
  <2>1. PICK f : IsTotal(votes, top, t, f) /\ f \in [0 .. Len(votes) -> Uint64]
    BY TotalExists
  <2>2. IsTotal(votes, top, t, total)
    BY <2>1, Zenon
  <2>3. total = f
    BY <2>1, <2>2, TotalUnique
  <2>4. Len(votes) \in 0 .. Len(votes)
    OBVIOUS
  <2>. QED
    BY <2>1, <2>3, <2>4, Zenon
<1>3. size \in Nat /\ size # 0
  <2>0. IsFiniteSet(1 .. Len(votes)) /\ S \subseteq 1 .. Len(votes)
    BY FS_Interval
  <2>1. IsFiniteSet(S)
    BY <2>0, FS_Subset
  <2>2. S # {}
    OBVIOUS
  <2>3. size \in Nat
    BY <2>1, FS_CardinalityType
  <2>4. size # 0
    BY <2>1, <2>2, FS_EmptySet, Zenon
  <2>. QED
    BY <2>3, <2>4
<1>. QED
  BY <1>1, <1>2, <1>3, U64Positive DEF Uint64

====
