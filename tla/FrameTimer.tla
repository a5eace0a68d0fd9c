----------------------------- MODULE FrameTimer -----------------------------
(***************************************************************************)
(* The frame-synchronised logical clock of the observers (package timer,   *)
(* src/unnamed/part_000), one Timer per observer, together with the part   *)
(* of the transport that carries the time-frame requests and responses     *)
(* between them.                                                           *)
(*                                                                         *)
(* Each Timer runs two goroutines: the events loop (Run: shortLoop until   *)
(* the ticker is started, fullLoop afterwards) and syncWithOtherObservers, *)
(* which broadcasts one RequestSynchronisationTimeFrames, collects the     *)
(* responses until its deadline, takes the majority frame and hands the    *)
(* result to the loop over the internal events bus.  Time is an integer    *)
(* clock; one unit stands for a fixed number of seconds, the 50 ms polling *)
(* of collectResponses is below that resolution.                           *)
(***************************************************************************)
EXTENDS Integers, Sequences, FiniteSets

CONSTANTS
    Observers,           \* the observers of the configuration, each running a Timer
    ObserversMaxCount,   \* common.ObserversMaxCount: frames in one cycle
    Interval,            \* common.AverageBlockGenerationTimeRange, in time units
    SyncTimeout,         \* kSynchronisationTimoutSeconds, in time units
    MinExchangeTimeout,  \* kMinimalTimeFramesExchangeTimeoutSeconds, in time units
    MinuteLength,        \* time units per wall-clock minute (for time.Time.Second)
    Latency,             \* largest delay of the transport between two observers
    StartBy,             \* latest time at which an observer process is started
    MaxTime,             \* time horizon of the model
    U64,                 \* modulus standing for 2^64 in the nanosecond arithmetic
    ConnectionsMayDrop,  \* whether a connection between running observers may drop
    Tolerance            \* frame-boundary disagreement the observers may tolerate

ASSUME ConstantsAssumption ==
    /\ IsFiniteSet(Observers)
    /\ ObserversMaxCount \in Nat \ {0}
    /\ Cardinality(Observers) <= ObserversMaxCount
    /\ {Interval, SyncTimeout, MinExchangeTimeout, MinuteLength} \subseteq Nat \ {0}
    \* Run panics with ErrInvalidSynchronisationTimeout otherwise.
    /\ SyncTimeout < Interval - MinExchangeTimeout
    /\ {Latency, StartBy, MaxTime, Tolerance} \subseteq Nat
    /\ ConnectionsMayDrop \in BOOLEAN
    \* U64 is even and beyond every time quantity of a run, as 2^64 ns is.
    /\ U64 \in Nat /\ U64 % 2 = 0 /\ U64 > 8 * (MaxTime + Interval + SyncTimeout)

Uint16 == 65536
Uint64 == 0 .. U64 - 1
FrameIndex == 0 .. Uint16 - 1

\* kInitialTimeFrameIndex = math.MaxUint16
kInitialTimeFrameIndex == Uint16 - 1

\* The zero time.Time, the value of a timestamp never assigned.
ZeroTime == 0

\* time.Time.Second(): the second within the minute.
SecondOfMinute(t) == t % MinuteLength

\* Conversions between int64 and uint64 (two's complement reinterpretation).
ToUint64(i) == i % U64
ToInt64(u) == IF u >= U64 \div 2 THEN u - U64 ELSE u

\* Stages of the syncWithOtherObservers goroutine of an observer.
Stages == {"down", "launched", "collecting", "handing", "done"}

Request == [from : Observers]
Response == [to : Observers, frameIndex : FrameIndex, nanosecondsLeft : Uint64]
Vote == [frameIndex : FrameIndex, nanosecondsLeft : Uint64, received : Int]
Message ==
    [kind : {"request"}, from : Observers, to : Observers, sent : Int]
    \cup [kind : {"response"}, from : Observers, to : Observers, sent : Int,
          frameIndex : FrameIndex, nanosecondsLeft : Uint64]

VARIABLES
    now,                               \* the wall clock
    stage,                             \* progress of syncWithOtherObservers
    isTickerRunning,                   \* Timer.isTickerRunning
    frame,                             \* Timer.frame.Index
    nextFrameTimestamp,                \* Timer.nextFrameTimestamp
    synchronisationDeadlineTimestamp,  \* Timer.synchronisationDeadlineTimestamp
    OutgoingRequestsTimeFrames,        \* channel, capacity 1
    IncomingRequestsTimeFrames,        \* channel, capacity 1
    OutgoingResponsesTimeFrame,        \* channel, capacity 1
    IncomingResponsesTimeFrame,        \* channel, capacity ObserversMaxCount
    network                            \* messages in transit between observers

timer == <<stage, isTickerRunning, frame, nextFrameTimestamp,
           synchronisationDeadlineTimestamp>>
channels == <<OutgoingRequestsTimeFrames, IncomingRequestsTimeFrames,
              OutgoingResponsesTimeFrame, IncomingResponsesTimeFrame>>
vars == <<now, timer, channels, network>>

\* A channel of every observer: a queue of T holding at most capacity values.
Channel(ch, T, capacity) ==
    /\ ch \in [Observers -> Seq(T)]
    /\ \A o \in Observers : Len(ch[o]) <= capacity

TypeOK ==
    /\ now \in 0 .. MaxTime
    /\ stage \in [Observers -> Stages]
    /\ isTickerRunning \in [Observers -> BOOLEAN]
    /\ frame \in [Observers -> FrameIndex]
    /\ nextFrameTimestamp \in [Observers -> Int]
    /\ synchronisationDeadlineTimestamp \in [Observers -> Int]
    \* The channels, each within the capacity New gives it.
    /\ Channel(OutgoingRequestsTimeFrames, Request, 1)
    /\ Channel(IncomingRequestsTimeFrames, Observers, 1)
    /\ Channel(OutgoingResponsesTimeFrame, Response, 1)
    /\ Channel(IncomingResponsesTimeFrame, Vote, ObserversMaxCount)
    /\ network \subseteq Message

Init ==
    /\ now = 0
    /\ stage = [o \in Observers |-> "down"]
    /\ isTickerRunning = [o \in Observers |-> FALSE]
    /\ frame = [o \in Observers |-> kInitialTimeFrameIndex]
    /\ nextFrameTimestamp = [o \in Observers |-> ZeroTime]
    /\ synchronisationDeadlineTimestamp = [o \in Observers |-> ZeroTime]
    /\ OutgoingRequestsTimeFrames = [o \in Observers |-> <<>>]
    /\ IncomingRequestsTimeFrames = [o \in Observers |-> <<>>]
    /\ OutgoingResponsesTimeFrame = [o \in Observers |-> <<>>]
    /\ IncomingResponsesTimeFrame = [o \in Observers |-> <<>>]
    /\ network = {}

-----------------------------------------------------------------------------
(* Helpers of the Timer.                                                   *)

\* nextFrameTimeLeft: an overdue target is moved to now + Interval - timeLeft.
NextFrameTimeLeft(ts) ==
    LET timeLeft == ts - now
    IN  IF timeLeft <= 0 THEN now + Interval - timeLeft ELSE ts

\* Every pass of fullLoop evaluates time.After(t.nextFrameTimeLeft()) first;
\* shortLoop does not.
EnterLoop(o, running) ==
    nextFrameTimestamp' = [nextFrameTimestamp EXCEPT
                              ![o] = IF running THEN NextFrameTimeLeft(@) ELSE @]

\* processTick: uint16 increment, wrapped when it equals ObserversMaxCount.
NextFrame(index) ==
    LET next == (index + 1) % Uint16
    IN  IF next = ObserversMaxCount THEN 0 ELSE next

\* correctedNanosecondsLeft of one collected response, stored as uint64.
CorrectedNanosecondsLeft(vote, t) ==
    ToUint64(Interval + ToInt64(vote.nanosecondsLeft) - (t - vote.received))

\* Mutant: topFrameVotesCount starts at 1, so a lone vote never wins.
TopStartCountOne == [top |-> 0, votes |-> 1]

\* topFrameIndex and topFrameVotesCount before the loop.
TopStart == [top |-> 0, votes |-> 0]

\* One iteration of the loop of processMajorityOfFrameResponses: vote i
\* joins the group of its frame (rates), and that group wins when it has
\* grown beyond every earlier group.
TopStep(votes, prev, i) ==
    LET count == Cardinality({j \in 1 .. i :
                     votes[j].frameIndex = votes[i].frameIndex})
    IN  IF count > prev.votes
          THEN [top |-> votes[i].frameIndex, votes |-> count]
          ELSE prev

\* The loop over the collected votes.
TopFrameIndex(votes) ==
    LET scan[i \in 0 .. Len(votes)] ==
          IF i = 0 THEN TopStart ELSE TopStep(votes, scan[i - 1], i)
    IN  scan[Len(votes)].top

\* One iteration of the loop of processMajorityAndCalculateAverageNextFrameTTL:
\* total += ttl wraps at 2^64; only the responses of the top group are in
\* majorityOfTimeOffsets.
TotalStep(votes, top, t, prev, i) ==
    (prev + IF votes[i].frameIndex = top
              THEN CorrectedNanosecondsLeft(votes[i], t)
              ELSE 0) % U64

\* processMajorityAndCalculateAverageNextFrameTTL over the top group:
\* a wrapping uint64 sum divided by the group size.
AverageNextFrameTTL(votes, top, t) ==
    LET total[i \in 0 .. Len(votes)] ==
          IF i = 0 THEN 0 ELSE TotalStep(votes, top, t, total[i - 1], i)
        size == Cardinality({i \in 1 .. Len(votes) : votes[i].frameIndex = top})
    IN  total[Len(votes)] \div size

\* Mutant: the frame offset of an average beyond one interval is forgotten.
NextFrameIndexNoOffset(top, offset) ==
    IF top >= ObserversMaxCount THEN 0 ELSE top

\* nextFrameIndex = topFrameIndex + frameOffset, reset to 0 when out of range.
NextFrameIndex(top, offset) ==
    LET index == (top + IF offset > Interval THEN 1 ELSE 0) % Uint16
    IN  IF index >= ObserversMaxCount THEN 0 ELSE index

-----------------------------------------------------------------------------
(* Operations of the Timer.                                                *)

\* New and Run: the process starts and launches syncWithOtherObservers.
Start(o) ==
    /\ stage[o] = "down"
    /\ now <= StartBy
    /\ stage' = [stage EXCEPT ![o] = "launched"]
    /\ UNCHANGED <<now, isTickerRunning, frame, nextFrameTimestamp,
                   synchronisationDeadlineTimestamp, channels, network>>

\* syncWithOtherObservers sets its deadline and sends the broadcast request.
SyncBegin(o) ==
    /\ stage[o] = "launched"
    /\ synchronisationDeadlineTimestamp' =
           [synchronisationDeadlineTimestamp EXCEPT ![o] = now + SyncTimeout]
    /\ OutgoingRequestsTimeFrames' =
           [OutgoingRequestsTimeFrames EXCEPT ![o] = Append(@, [from |-> o])]
    /\ stage' = [stage EXCEPT ![o] = "collecting"]
    /\ UNCHANGED <<now, isTickerRunning, frame, nextFrameTimestamp,
                   IncomingRequestsTimeFrames, OutgoingResponsesTimeFrame,
                   IncomingResponsesTimeFrame, network>>

\* collectResponses ends at the deadline or with a full channel; the
\* collected votes are reduced to the next frame index and offset.
SyncFinish(o) ==
    /\ stage[o] = "collecting"
    /\ \/ now >= synchronisationDeadlineTimestamp[o]
       \/ Len(IncomingResponsesTimeFrame[o]) = ObserversMaxCount
    /\ LET votes == IncomingResponsesTimeFrame[o]
       IN  IF votes = <<>>
             THEN /\ frame' = [frame EXCEPT ![o] = 0]
                  /\ nextFrameTimestamp' =
                         [nextFrameTimestamp EXCEPT ![o] = now + Interval]
             ELSE LET top == TopFrameIndex(votes)
                      offset == AverageNextFrameTTL(votes, top, now)
                  IN  /\ frame' = [frame EXCEPT ![o] = NextFrameIndex(top, offset)]
                      /\ nextFrameTimestamp' =
                             [nextFrameTimestamp EXCEPT ![o] = now + ToInt64(offset)]
    /\ IncomingResponsesTimeFrame' = [IncomingResponsesTimeFrame EXCEPT ![o] = <<>>]
    /\ stage' = [stage EXCEPT ![o] = "handing"]
    /\ UNCHANGED <<now, isTickerRunning, synchronisationDeadlineTimestamp,
                   OutgoingRequestsTimeFrames, IncomingRequestsTimeFrames,
                   OutgoingResponsesTimeFrame, network>>

\* EventTickerStarted passes the internal bus; processInternalEvent starts
\* the ticker and the loop enters fullLoop.
SyncHandOver(o) ==
    /\ stage[o] = "handing"
    /\ isTickerRunning' = [isTickerRunning EXCEPT ![o] = TRUE]
    /\ stage' = [stage EXCEPT ![o] = "done"]
    /\ EnterLoop(o, TRUE)
    /\ UNCHANGED <<now, frame, synchronisationDeadlineTimestamp, channels, network>>

\* Mutant: the response is put into the channel without the select default,
\* as if the channel could hold a second one.
ServeRequestBlindSend(o) ==
    /\ IncomingRequestsTimeFrames[o] # <<>>
    /\ LET ignored == ~isTickerRunning[o] /\ SecondOfMinute(synchronisationDeadlineTimestamp[o]) = 0
           response ==
               [to |-> Head(IncomingRequestsTimeFrames[o]),
                frameIndex |-> IF frame[o] = kInitialTimeFrameIndex THEN 0 ELSE frame[o],
                nanosecondsLeft |->
                    ToUint64(Interval + (synchronisationDeadlineTimestamp[o] - now))]
       IN  OutgoingResponsesTimeFrame' =
               [OutgoingResponsesTimeFrame EXCEPT
                   ![o] = IF ~ignored THEN Append(@, response) ELSE @]
    /\ IncomingRequestsTimeFrames' = [IncomingRequestsTimeFrames EXCEPT ![o] = Tail(@)]
    /\ EnterLoop(o, isTickerRunning[o])
    /\ UNCHANGED <<now, stage, isTickerRunning, frame,
                   synchronisationDeadlineTimestamp, OutgoingRequestsTimeFrames,
                   IncomingResponsesTimeFrame, network>>

\* processTimeFrameRequest for the request at the head of the channel.
ServeRequest(o) ==
    /\ IncomingRequestsTimeFrames[o] # <<>>
    /\ LET ignored == /\ ~isTickerRunning[o]
                      /\ SecondOfMinute(synchronisationDeadlineTimestamp[o]) = 0
           kNextFrameTimeLeft ==
               Interval + (synchronisationDeadlineTimestamp[o] - now)
           response ==
               [to |-> Head(IncomingRequestsTimeFrames[o]),
                frameIndex |-> IF frame[o] = kInitialTimeFrameIndex
                                 THEN 0 ELSE frame[o],
                nanosecondsLeft |-> ToUint64(kNextFrameTimeLeft)]
       IN  OutgoingResponsesTimeFrame' =
               [OutgoingResponsesTimeFrame EXCEPT
                   ![o] = IF ~ignored /\ @ = <<>> THEN <<response>> ELSE @]
    /\ IncomingRequestsTimeFrames' = [IncomingRequestsTimeFrames EXCEPT ![o] = Tail(@)]
    /\ EnterLoop(o, isTickerRunning[o])
    /\ UNCHANGED <<now, stage, isTickerRunning, frame,
                   synchronisationDeadlineTimestamp, OutgoingRequestsTimeFrames,
                   IncomingResponsesTimeFrame, network>>

\* The time.After case of fullLoop fires: processTick.
FrameTick(o) ==
    /\ isTickerRunning[o]
    /\ now >= nextFrameTimestamp[o]
    /\ frame' = [frame EXCEPT ![o] = NextFrame(@)]
    /\ EnterLoop(o, TRUE)
    /\ UNCHANGED <<now, stage, isTickerRunning, synchronisationDeadlineTimestamp,
                   channels, network>>

-----------------------------------------------------------------------------
(* The transport between the observers (the dispatcher of the time-frame   *)
(* channels, not under src/): it broadcasts the request, routes a response *)
(* back to its requester, stamps the receipt time, and loses what is sent  *)
(* to a process that is not running or over a connection that drops.       *)

SendRequests(o) ==
    /\ OutgoingRequestsTimeFrames[o] # <<>>
    /\ network' = network \cup
           {[kind |-> "request", from |-> o, to |-> p, sent |-> now] :
                p \in Observers \ {o}}
    /\ OutgoingRequestsTimeFrames' = [OutgoingRequestsTimeFrames EXCEPT ![o] = Tail(@)]
    /\ UNCHANGED <<now, timer, IncomingRequestsTimeFrames,
                   OutgoingResponsesTimeFrame, IncomingResponsesTimeFrame>>

SendResponse(o) ==
    /\ OutgoingResponsesTimeFrame[o] # <<>>
    /\ LET r == Head(OutgoingResponsesTimeFrame[o])
       IN  network' = network \cup
               {[kind |-> "response", from |-> o, to |-> r.to, sent |-> now,
                 frameIndex |-> r.frameIndex, nanosecondsLeft |-> r.nanosecondsLeft]}
    /\ OutgoingResponsesTimeFrame' = [OutgoingResponsesTimeFrame EXCEPT ![o] = Tail(@)]
    /\ UNCHANGED <<now, timer, OutgoingRequestsTimeFrames,
                   IncomingRequestsTimeFrames, IncomingResponsesTimeFrame>>

Deliver(m) ==
    /\ network' = network \ {m}
    /\ \/ /\ stage[m.to] # "down"
          /\ m.kind = "request"
          /\ Len(IncomingRequestsTimeFrames[m.to]) < 1
          /\ IncomingRequestsTimeFrames' =
                 [IncomingRequestsTimeFrames EXCEPT ![m.to] = Append(@, m.from)]
          /\ UNCHANGED IncomingResponsesTimeFrame
       \/ /\ stage[m.to] # "down"
          /\ m.kind = "response"
          /\ Len(IncomingResponsesTimeFrame[m.to]) < ObserversMaxCount
          /\ IncomingResponsesTimeFrame' =
                 [IncomingResponsesTimeFrame EXCEPT ![m.to] = Append(@,
                     [frameIndex |-> m.frameIndex,
                      nanosecondsLeft |-> m.nanosecondsLeft, received |-> now])]
          /\ UNCHANGED IncomingRequestsTimeFrames
       \/ /\ stage[m.to] = "down" \/ ConnectionsMayDrop
          /\ UNCHANGED <<IncomingRequestsTimeFrames, IncomingResponsesTimeFrame>>
    /\ UNCHANGED <<now, timer, OutgoingRequestsTimeFrames, OutgoingResponsesTimeFrame>>

-----------------------------------------------------------------------------
(* The clock.  Time does not pass while a goroutine has a step it takes at *)
(* once: a timer that is due, a deadline reached, a channel with a value   *)
(* its reader is waiting for, or a message at the end of its delay.        *)

Due(o) ==
    \/ stage[o] \in {"launched", "handing"}
    \/ stage[o] = "collecting" /\ now >= synchronisationDeadlineTimestamp[o]
    \/ isTickerRunning[o] /\ now >= nextFrameTimestamp[o]
    \/ IncomingRequestsTimeFrames[o] # <<>>
    \/ OutgoingRequestsTimeFrames[o] # <<>>
    \/ OutgoingResponsesTimeFrame[o] # <<>>

Tick ==
    /\ now < MaxTime
    /\ \A o \in Observers : ~Due(o)
    /\ \A m \in network : now < m.sent + Latency
    /\ now' = now + 1
    /\ UNCHANGED <<timer, channels, network>>

Next ==
    \/ Tick
    \/ \E o \in Observers :
          \/ Start(o) \/ SyncBegin(o) \/ SyncFinish(o) \/ SyncHandOver(o)
          \/ ServeRequest(o) \/ FrameTick(o)
          \/ SendRequests(o) \/ SendResponse(o)
    \/ \E m \in network : Deliver(m)

Spec == Init /\ [][Next]_vars

-----------------------------------------------------------------------------
(* Properties.                                                             *)

\* The instant, modulo one cycle, at which an observer's schedule ends
\* frame N-1 and begins frame 0 again, as if every frame lasted one
\* Interval: its current frame ends at nextFrameTimestamp, so frame 0 began
\* (frame + 1) intervals earlier. Two observers whose epochs agree fire the
\* same EventTimeFrameEnd indices at the same instants from their next
\* boundary on; between a sync and that boundary the index an observer holds
\* may still be one ahead of its peers' (the frameOffset rule).
CycleLength == ObserversMaxCount * Interval
Epoch(o) == (nextFrameTimestamp[o] - Interval * (frame[o] + 1)) % CycleLength
CircularDistance(a, b) ==
    LET d == (a - b) % CycleLength
    IN  IF d <= CycleLength - d THEN d ELSE CycleLength - d

\* The frame-end schedules of observers whose tickers run (after
\* syncWithOtherObservers and the majority reduction of
\* processMajorityOfFrameResponses) agree within Tolerance: the frame ends
\* that processTick reports to the block producer, index and instant, are
\* the same on every running observer up to Tolerance.
FramesAligned ==
    \A o, p \in Observers :
        isTickerRunning[o] /\ isTickerRunning[p]
            => CircularDistance(Epoch(o), Epoch(p)) <= Tolerance

\* A running Timer never moves its next frame boundary (nextFrameTimeLeft in
\* fullLoop) without advancing the frame index by one (processTick): no
\* frame is skipped, whichever select case the loop takes.
NoFrameSkipped ==
    [][\A o \in Observers :
          isTickerRunning[o] /\ nextFrameTimestamp'[o] # nextFrameTimestamp[o]
              => frame'[o] = (frame[o] + 1) % ObserversMaxCount]_vars

\* The inputs the loop of processMajorityOfFrameResponses is checked on
\* beyond the reachable ones: every sequence of at most ObserversMaxCount
\* responses whose frames are frames of a run or kInitialTimeFrameIndex
\* (the frame of an observer that has not synchronised yet).  The loop
\* reads only the frame of a response.
SampleVote ==
    [frameIndex : ((0 .. ObserversMaxCount - 1) \cup {kInitialTimeFrameIndex})
                      \cap FrameIndex,
     nanosecondsLeft : {0}, received : {0}]
VoteSamples == UNION {[1 .. n -> SampleVote] : n \in 1 .. ObserversMaxCount}

\* processMajorityOfFrameResponses looks up rates[topFrameIndex] and
\* dereferences it: for every non-empty sequence of collected responses,
\* those of every observer and every sample, the frame the loop picks is a
\* frame one of the responses carries, so the entry exists (no nil
\* dereference) and the average divides by a non-zero count.
TopFrameCollected ==
    \A votes \in VoteSamples \cup {IncomingResponsesTimeFrame[o] : o \in Observers} :
        votes # <<>> =>
            \E j \in 1 .. Len(votes) : votes[j].frameIndex = TopFrameIndex(votes)

\* processTimeFrameRequest answers every request it takes while the
\* observer is collecting responses itself (the comment: only a timer that
\* is stopped and not synchronising stays silent); a full outgoing channel
\* keeps the earlier response.
SyncingObserverAnswers ==
    [][\A o \in Observers :
          /\ stage[o] = "collecting"
          /\ IncomingRequestsTimeFrames[o] # <<>>
          /\ IncomingRequestsTimeFrames'[o] = Tail(IncomingRequestsTimeFrames[o])
          => OutgoingResponsesTimeFrame'[o] # <<>>]_vars
=============================================================================
