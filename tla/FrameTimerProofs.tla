-------------------------- MODULE FrameTimerProofs --------------------------
(***************************************************************************)
(* Proofs about the frame timer for every value of the constants that      *)
(* ConstantsAssumption allows: the arithmetic of the Timer (uint16 frame   *)
(* indices, uint64 nanoseconds, int64 offsets) and its channels stay       *)
(* within their types and capacities.                                      *)
(***************************************************************************)
EXTENDS FrameScanLemmas, TLAPS

-----------------------------------------------------------------------------
(* Lemmas about the helpers of the Timer.                                  *)

\* An update of a function into the integers by an integer stays one.
LEMMA IntFcnExcept ==
    ASSUME NEW S, NEW f \in [S -> Int], NEW x \in S, NEW v \in Int
    PROVE  [f EXCEPT ![x] = v] \in [S -> Int]
  OBVIOUS

\* processTick keeps the index a uint16.
LEMMA NextFrameType ==
    ASSUME NEW index \in FrameIndex
    PROVE  NextFrame(index) \in FrameIndex
<1>1. (index + 1) % Uint16 \in FrameIndex
  BY Uint16Positive, ModRange DEF FrameIndex
<1>. QED
  BY <1>1, InitialFrameType DEF NextFrame

\* The next frame index of the majority reduction is a uint16.
LEMMA NextFrameIndexType ==
    ASSUME NEW top \in FrameIndex, NEW offset \in Uint64
    PROVE  NextFrameIndex(top, offset) \in FrameIndex
<1>1. (top + IF offset > Interval THEN 1 ELSE 0) % Uint16 \in FrameIndex
  BY Uint16Positive, ModRange DEF FrameIndex
<1>. QED
  BY <1>1, InitialFrameType DEF NextFrameIndex

\* The re-arming of the frame timer at the top of fullLoop
\* (time.After(t.nextFrameTimeLeft())) keeps the timestamps integers.
LEMMA RearmType ==
    ASSUME NEW o \in Observers, nextFrameTimestamp \in [Observers -> Int],
           now \in Int
    PROVE  [nextFrameTimestamp EXCEPT ![o] = NextFrameTimeLeft(@)]
               \in [Observers -> Int]
  BY ConstantsAssumption DEF NextFrameTimeLeft

\* Replacing the queue of one observer by another queue within the
\* capacity keeps a channel a channel.
LEMMA ChannelSet ==
    ASSUME NEW T, NEW k \in Nat, NEW ch, Channel(ch, T, k),
           NEW o \in Observers, NEW q \in Seq(T), Len(q) <= k
    PROVE  Channel([ch EXCEPT ![o] = q], T, k)
  BY DEF Channel

\* A send on a channel that has room for it.
LEMMA ChannelSend ==
    ASSUME NEW T, NEW k \in Nat, NEW ch, Channel(ch, T, k),
           NEW o \in Observers, NEW x \in T, Len(ch[o]) < k
    PROVE  Channel([ch EXCEPT ![o] = Append(ch[o], x)], T, k)
<1>1. Append(ch[o], x) \in Seq(T) /\ Len(Append(ch[o], x)) <= k
  BY DEF Channel
<1>. QED
  BY <1>1, ChannelSet

\* A receive from a channel that holds a value.
LEMMA ChannelReceive ==
    ASSUME NEW T, NEW k \in Nat, NEW ch, Channel(ch, T, k),
           NEW o \in Observers, ch[o] # <<>>
    PROVE  Channel([ch EXCEPT ![o] = Tail(ch[o])], T, k)
<1>1. Tail(ch[o]) \in Seq(T) /\ Len(Tail(ch[o])) <= k
  BY DEF Channel
<1>. QED
  BY <1>1, ChannelSet

\* The value at the head of a channel that holds one is a T.
LEMMA ChannelHead ==
    ASSUME NEW T, NEW k \in Nat, NEW ch, Channel(ch, T, k),
           NEW o \in Observers, ch[o] # <<>>
    PROVE  Head(ch[o]) \in T
  BY DEF Channel

-----------------------------------------------------------------------------
(* The inductive invariant.                                                *)

\* TypeOK is not inductive: SyncBegin appends to OutgoingRequestsTimeFrames
\* and stays within its capacity of one only because that channel is
\* empty until the one request of syncWithOtherObservers is put into it.
IInv ==
    /\ TypeOK
    /\ \A o \in Observers :
          stage[o] \in {"down", "launched"} => OutgoingRequestsTimeFrames[o] = <<>>

LEMMA InitIInv == Init => IInv
  BY ConstantsAssumption, InitialFrameType DEF Init, IInv, TypeOK, ZeroTime, Stages, Channel

LEMMA StepIInv == IInv /\ [Next]_vars => IInv'
<1> SUFFICES ASSUME IInv, [Next]_vars PROVE IInv'
  OBVIOUS
<1> USE ConstantsAssumption
<1>0. /\ now \in Int
      /\ frame \in [Observers -> FrameIndex]
      /\ nextFrameTimestamp \in [Observers -> Int]
      /\ synchronisationDeadlineTimestamp \in [Observers -> Int]
      /\ network \subseteq Message
  <2>1. now \in 0 .. MaxTime
    BY Zenon DEF IInv, TypeOK
  <2>2. now \in Int
    BY <2>1
  <2>. QED
    BY <2>2, Zenon DEF IInv, TypeOK
<1>1. CASE Tick
  <2>1. /\ now < MaxTime
        /\ now' = now + 1
        /\ UNCHANGED <<stage, isTickerRunning, frame, nextFrameTimestamp,
                       synchronisationDeadlineTimestamp, network,
                       OutgoingRequestsTimeFrames, IncomingRequestsTimeFrames,
                       OutgoingResponsesTimeFrame, IncomingResponsesTimeFrame>>
    BY <1>1, Zenon DEF Tick, timer, channels
  <2>2. now' \in 0 .. MaxTime
    <3>1. now \in 0 .. MaxTime
      BY Zenon DEF IInv, TypeOK
    <3>. QED
      BY <2>1, <3>1
  <2>. QED
    BY <2>1, <2>2 DEF IInv, TypeOK
<1>2. ASSUME NEW o \in Observers, Start(o) PROVE IInv'
  BY <1>2 DEF Start, IInv, TypeOK, Stages, channels
<1>3. ASSUME NEW o \in Observers, SyncBegin(o) PROVE IInv'
  <2>1. Channel(OutgoingRequestsTimeFrames', Request, 1)
    <3>1. Len(OutgoingRequestsTimeFrames[o]) < 1 /\ [from |-> o] \in Request
      <4>1. OutgoingRequestsTimeFrames[o] = <<>>
        BY <1>3 DEF SyncBegin, IInv
      <4>. QED
        BY <4>1 DEF Request
    <3>. QED
      BY <1>3, <3>1, ChannelSend DEF SyncBegin, IInv, TypeOK
  <2>2. /\ synchronisationDeadlineTimestamp' =
             [synchronisationDeadlineTimestamp EXCEPT ![o] = now + SyncTimeout]
        /\ stage' = [stage EXCEPT ![o] = "collecting"]
        /\ OutgoingRequestsTimeFrames' =
             [OutgoingRequestsTimeFrames EXCEPT ![o] = Append(@, [from |-> o])]
        /\ UNCHANGED <<now, isTickerRunning, frame, nextFrameTimestamp,
                       IncomingRequestsTimeFrames, OutgoingResponsesTimeFrame,
                       IncomingResponsesTimeFrame, network>>
    BY <1>3, Zenon DEF SyncBegin
  <2>3. TypeOK'
    <3>1. stage' \in [Observers -> Stages]
      BY <2>2 DEF IInv, TypeOK, Stages
    <3>2. synchronisationDeadlineTimestamp' \in [Observers -> Int]
      <4>1. synchronisationDeadlineTimestamp' =
              [synchronisationDeadlineTimestamp EXCEPT ![o] = now + SyncTimeout]
        BY <2>2
      <4>2. now + SyncTimeout \in Int
        BY <1>0
      <4>. QED
        BY <1>0, <4>1, <4>2, IntFcnExcept
    <3>. QED
      BY <2>1, <2>2, <3>1, <3>2 DEF IInv, TypeOK
  <2>4. \A p \in Observers :
          stage'[p] \in {"down", "launched"} => OutgoingRequestsTimeFrames'[p] = <<>>
    BY <2>2 DEF IInv, TypeOK
  <2>. QED
    BY <2>3, <2>4 DEF IInv
<1>4. ASSUME NEW o \in Observers, SyncFinish(o) PROVE IInv'
  <2>1. /\ IncomingResponsesTimeFrame' = [IncomingResponsesTimeFrame EXCEPT ![o] = <<>>]
        /\ stage' = [stage EXCEPT ![o] = "handing"]
        /\ UNCHANGED <<now, isTickerRunning, synchronisationDeadlineTimestamp,
                       OutgoingRequestsTimeFrames, IncomingRequestsTimeFrames,
                       OutgoingResponsesTimeFrame, network>>
    BY <1>4, Zenon DEF SyncFinish
  <2>2. frame' \in [Observers -> FrameIndex]
        /\ nextFrameTimestamp' \in [Observers -> Int]
    <3>1. CASE IncomingResponsesTimeFrame[o] = <<>>
      <4>1. /\ frame' = [frame EXCEPT ![o] = 0]
            /\ nextFrameTimestamp' = [nextFrameTimestamp EXCEPT ![o] = now + Interval]
        BY <1>4, <3>1, Zenon DEF SyncFinish
      <4>. QED
        BY <1>0, <4>1, InitialFrameType
    <3>2. CASE IncomingResponsesTimeFrame[o] # <<>>
      <4> DEFINE votes == IncomingResponsesTimeFrame[o]
                 top == TopFrameIndex(votes)
                 offset == AverageNextFrameTTL(votes, top, now)
      <4>1. /\ frame' = [frame EXCEPT ![o] = NextFrameIndex(top, offset)]
            /\ nextFrameTimestamp' =
                   [nextFrameTimestamp EXCEPT ![o] = now + ToInt64(offset)]
        BY <1>4, <3>2 DEF SyncFinish
      <4>2. votes \in Seq(Vote) /\ now \in Int
        BY DEF IInv, TypeOK, Channel
      <4>3. top \in FrameIndex /\ \E j \in 1 .. Len(votes) : votes[j].frameIndex = top
        BY <3>2, <4>2, TopFrameOfVotes
      <4>4. offset \in Uint64
        BY <4>2, <4>3, AverageType
      <4>. HIDE DEF votes, top, offset
      <4>5. NextFrameIndex(top, offset) \in FrameIndex
        BY <4>3, <4>4, NextFrameIndexType
      <4>6. ToInt64(offset) \in Int
        BY <4>4, ToInt64Type
      <4>7. now + ToInt64(offset) \in Int
        BY <4>2, <4>6
      <4>. QED
        BY <1>0, <4>1, <4>5, <4>7, IntFcnExcept
    <3>. QED
      BY <3>1, <3>2
  <2>3. Channel(IncomingResponsesTimeFrame', Vote, ObserversMaxCount)
    <3>1. <<>> \in Seq(Vote) /\ Len(<<>>) <= ObserversMaxCount
      OBVIOUS
    <3>. QED
      BY <2>1, <3>1, ChannelSet DEF IInv, TypeOK
  <2>4. stage' \in [Observers -> Stages]
    BY <2>1 DEF IInv, TypeOK, Stages
  <2>5. TypeOK'
    BY <2>1, <2>2, <2>3, <2>4 DEF IInv, TypeOK
  <2>6. \A p \in Observers :
          stage'[p] \in {"down", "launched"} => OutgoingRequestsTimeFrames'[p] = <<>>
    BY <2>1 DEF IInv, TypeOK
  <2>. QED
    BY <2>5, <2>6 DEF IInv
<1>5. ASSUME NEW o \in Observers, SyncHandOver(o) PROVE IInv'
  <2>1. nextFrameTimestamp' \in [Observers -> Int]
    <3>1. nextFrameTimestamp' = [nextFrameTimestamp EXCEPT ![o] = NextFrameTimeLeft(@)]
      BY <1>5 DEF SyncHandOver, EnterLoop
    <3>. QED
      BY <1>0, <3>1, RearmType
  <2>2. /\ isTickerRunning' = [isTickerRunning EXCEPT ![o] = TRUE]
        /\ stage' = [stage EXCEPT ![o] = "done"]
        /\ UNCHANGED <<now, frame, synchronisationDeadlineTimestamp, network,
                       OutgoingRequestsTimeFrames, IncomingRequestsTimeFrames,
                       OutgoingResponsesTimeFrame, IncomingResponsesTimeFrame>>
    BY <1>5, Zenon DEF SyncHandOver, channels
  <2>. QED
    BY <2>1, <2>2, SMTT(20) DEF IInv, TypeOK, Stages
<1>6. ASSUME NEW o \in Observers, ServeRequest(o) PROVE IInv'
  <2> DEFINE response ==
               [to |-> Head(IncomingRequestsTimeFrames[o]),
                frameIndex |-> IF frame[o] = kInitialTimeFrameIndex
                                 THEN 0 ELSE frame[o],
                nanosecondsLeft |->
                    ToUint64(Interval + (synchronisationDeadlineTimestamp[o] - now))]
             ignored == /\ ~isTickerRunning[o]
                        /\ SecondOfMinute(synchronisationDeadlineTimestamp[o]) = 0
             answer == IF ~ignored /\ OutgoingResponsesTimeFrame[o] = <<>>
                         THEN <<response>> ELSE OutgoingResponsesTimeFrame[o]
  <2>1. response \in Response
    <3>1. Head(IncomingRequestsTimeFrames[o]) \in Observers
      <4>1. /\ Channel(IncomingRequestsTimeFrames, Observers, 1)
            /\ IncomingRequestsTimeFrames[o] # <<>>
        BY <1>6 DEF ServeRequest, IInv, TypeOK
      <4>. QED
        BY <4>1, ChannelHead
    <3>2. ToUint64(Interval + (synchronisationDeadlineTimestamp[o] - now)) \in Uint64
      <4>1. Interval + (synchronisationDeadlineTimestamp[o] - now) \in Int
        BY <1>0, ConstantsAssumption
      <4>. QED
        BY <4>1, ToUint64Type
    <3>. QED
      BY <3>1, <3>2, InitialFrameType DEF IInv, TypeOK, Response
  <2>2. answer \in Seq(Response) /\ Len(answer) <= 1
    BY <2>1 DEF IInv, TypeOK, Channel
  <2>3. Channel(OutgoingResponsesTimeFrame', Response, 1)
    BY <1>6, <2>2, ChannelSet DEF ServeRequest, IInv, TypeOK
  <2>4. Channel(IncomingRequestsTimeFrames', Observers, 1)
    BY <1>6, ChannelReceive DEF ServeRequest, IInv, TypeOK
  <2>5. nextFrameTimestamp' \in [Observers -> Int]
    <3>1. CASE isTickerRunning[o]
      <4>1. nextFrameTimestamp' = [nextFrameTimestamp EXCEPT ![o] = NextFrameTimeLeft(@)]
        BY <1>6, <3>1 DEF ServeRequest, EnterLoop
      <4>. QED
        BY <1>0, <4>1, RearmType
    <3>2. CASE ~isTickerRunning[o]
      <4>1. nextFrameTimestamp' = [nextFrameTimestamp EXCEPT ![o] = @]
        BY <1>6, <3>2 DEF ServeRequest, EnterLoop
      <4>. QED
        BY <4>1 DEF IInv, TypeOK
    <3>. QED
      BY <3>1, <3>2
  <2>. QED
    BY <1>6, <2>3, <2>4, <2>5 DEF ServeRequest, IInv, TypeOK
<1>7. ASSUME NEW o \in Observers, FrameTick(o) PROVE IInv'
  <2>1. nextFrameTimestamp' \in [Observers -> Int]
    <3>1. nextFrameTimestamp' = [nextFrameTimestamp EXCEPT ![o] = NextFrameTimeLeft(@)]
      BY <1>7 DEF FrameTick, EnterLoop
    <3>. QED
      BY <1>0, <3>1, RearmType
  <2>2. frame' \in [Observers -> FrameIndex]
    BY <1>7, NextFrameType DEF FrameTick, IInv, TypeOK
  <2>. QED
    BY <1>7, <2>1, <2>2 DEF FrameTick, IInv, TypeOK, channels
<1>8. ASSUME NEW o \in Observers, SendRequests(o) PROVE IInv'
  <2>1. Channel(OutgoingRequestsTimeFrames', Request, 1)
    BY <1>8, ChannelReceive DEF SendRequests, IInv, TypeOK
  <2>2. network' \subseteq Message
    <3>1. network' = network \cup
              {[kind |-> "request", from |-> o, to |-> p, sent |-> now] :
                   p \in Observers \ {o}}
      BY <1>8 DEF SendRequests
    <3>2. \A p \in Observers :
              [kind |-> "request", from |-> o, to |-> p, sent |-> now] \in Message
      BY <1>0 DEF Message
    <3>. QED
      BY <1>0, <3>1, <3>2
  <2>3. \A p \in Observers : stage[p] \in {"down", "launched"}
                               => OutgoingRequestsTimeFrames'[p] = <<>>
    BY <1>8 DEF SendRequests, IInv, TypeOK, Channel
  <2>. QED
    BY <1>8, <2>1, <2>2, <2>3 DEF SendRequests, IInv, TypeOK, timer
<1>9. ASSUME NEW o \in Observers, SendResponse(o) PROVE IInv'
  <2>1. Channel(OutgoingResponsesTimeFrame', Response, 1)
    BY <1>9, ChannelReceive DEF SendResponse, IInv, TypeOK
  <2>2. Head(OutgoingResponsesTimeFrame[o]) \in Response
    <3>1. /\ Channel(OutgoingResponsesTimeFrame, Response, 1)
          /\ OutgoingResponsesTimeFrame[o] # <<>>
      BY <1>9 DEF SendResponse, IInv, TypeOK
    <3>. QED
      BY <3>1, ChannelHead
  <2>3. network' \subseteq Message
    <3> DEFINE r == Head(OutgoingResponsesTimeFrame[o])
    <3>1. network' = network \cup
              {[kind |-> "response", from |-> o, to |-> r.to, sent |-> now,
                frameIndex |-> r.frameIndex, nanosecondsLeft |-> r.nanosecondsLeft]}
      BY <1>9 DEF SendResponse
    <3>2. [kind |-> "response", from |-> o, to |-> r.to, sent |-> now,
           frameIndex |-> r.frameIndex, nanosecondsLeft |-> r.nanosecondsLeft]
              \in Message
      BY <1>0, <2>2 DEF Message, Response
    <3>. QED
      BY <1>0, <3>1, <3>2
  <2>. QED
    BY <1>9, <2>1, <2>3 DEF SendResponse, IInv, TypeOK, timer
<1>10. ASSUME NEW m \in network, Deliver(m) PROVE IInv'
  <2>1. m \in Message
    BY DEF IInv, TypeOK
  <2>2. m.to \in Observers /\ m.from \in Observers
    BY <2>1 DEF Message
  <2>3. CASE /\ m.kind = "request"
             /\ Len(IncomingRequestsTimeFrames[m.to]) < 1
             /\ IncomingRequestsTimeFrames' =
                    [IncomingRequestsTimeFrames EXCEPT
                        ![m.to] = Append(IncomingRequestsTimeFrames[m.to], m.from)]
             /\ UNCHANGED IncomingResponsesTimeFrame
    <3>1. Channel(IncomingRequestsTimeFrames', Observers, 1)
      BY <2>2, <2>3, ChannelSend DEF IInv, TypeOK
    <3>. QED
      BY <1>10, <2>3, <3>1 DEF Deliver, IInv, TypeOK, timer
  <2>4. CASE /\ m.kind = "response"
             /\ Len(IncomingResponsesTimeFrame[m.to]) < ObserversMaxCount
             /\ IncomingResponsesTimeFrame' =
                    [IncomingResponsesTimeFrame EXCEPT
                        ![m.to] = Append(IncomingResponsesTimeFrame[m.to],
                                         [frameIndex |-> m.frameIndex,
                                          nanosecondsLeft |-> m.nanosecondsLeft,
                                          received |-> now])]
             /\ UNCHANGED IncomingRequestsTimeFrames
    <3>1. [frameIndex |-> m.frameIndex, nanosecondsLeft |-> m.nanosecondsLeft,
           received |-> now] \in Vote
      BY <1>0, <2>1, <2>4 DEF Message, Vote
    <3>2. Channel(IncomingResponsesTimeFrame', Vote, ObserversMaxCount)
      BY <2>2, <2>4, <3>1, ChannelSend DEF IInv, TypeOK
    <3>. QED
      BY <1>10, <2>4, <3>2 DEF Deliver, IInv, TypeOK, timer
  <2>5. CASE UNCHANGED <<IncomingRequestsTimeFrames, IncomingResponsesTimeFrame>>
    BY <1>10, <2>5 DEF Deliver, IInv, TypeOK, timer
  <2>. QED
    BY <1>10, <2>3, <2>4, <2>5 DEF Deliver
<1>11. CASE UNCHANGED vars
  BY <1>11 DEF vars, IInv, TypeOK, timer, channels
<1>. QED
  BY <1>1, <1>2, <1>3, <1>4, <1>5, <1>6, <1>7, <1>8, <1>9, <1>10, <1>11 DEF Next

\* The Timer's state is well typed and every channel stays within the
\* capacity New gives it (so no send of the Timer or of the transport
\* blocks on a full channel it does not guard with a select default),
\* in every behaviour and for every value of the constants.
THEOREM TypeCorrect == Spec => []TypeOK
<1>1. IInv => TypeOK
  BY DEF IInv
<1>. QED
  BY <1>1, InitIInv, StepIInv, PTL DEF Spec

\* Every sample of responses is a sequence of responses.
LEMMA VoteSamplesType == VoteSamples \subseteq Seq(Vote)
<1>1. SampleVote \subseteq Vote
  BY U64Positive DEF SampleVote, Vote, Uint64
<1>2. ASSUME NEW n \in 1 .. ObserversMaxCount PROVE [1 .. n -> SampleVote] \subseteq Seq(Vote)
  BY <1>1, ConstantsAssumption
<1>. QED
  BY <1>2 DEF VoteSamples

\* processMajorityOfFrameResponses never dereferences a missing rates entry:
\* on every sample and on the responses every observer has collected, the
\* frame its loop picks is the frame of one of the responses.
THEOREM TopFrameAlwaysCollected == Spec => []TopFrameCollected
<1>1. TypeOK => TopFrameCollected
  <2> SUFFICES ASSUME TypeOK,
                      NEW votes \in VoteSamples \cup {IncomingResponsesTimeFrame[o] : o \in Observers},
                      votes # <<>>
               PROVE  \E j \in 1 .. Len(votes) : votes[j].frameIndex = TopFrameIndex(votes)
    BY DEF TopFrameCollected
  <2>1. votes \in Seq(Vote)
    BY VoteSamplesType DEF TypeOK, Channel
  <2>. QED
    BY <2>1, TopFrameOfVotes
<1>. QED
  BY <1>1, TypeCorrect, PTL

=============================================================================
