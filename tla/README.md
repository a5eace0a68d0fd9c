# Verification of the GEO observers chain

This directory holds TLA+ models of the observers node in `src/`. It has
TLC configurations that model-check them on small instances, and TLAPS
proofs of their main safety properties for every value of the constants.
`PROJECT.json` lists the components, runs, mutants, findings and hazards,
and maps every definition to the source lines it translates.

## The system and its parts

| Part | Source | Module |
|---|---|---|
| Timer: the frame-synchronised logical clock | `src/unnamed/part_000` (package `timer`) | `FrameTimer` |
| Transport of the time-frame messages (Dispatch) | not under `src/`; spec §4.6 and §3 | `FrameTimer` (spec-modelled actions) |
| Approval pool | `src/core/chain/pool/pool.go` | `ApprovalPool` |
| Connections map | `src/core/network/communicator/observers/connections.go` | `ConnectionsMap` |
| Wire data-type tags | `src/unnamed/part_001` | not modelled (constants only) |
| Claim and Claims codec | `src/tests/network/geo/communicator_tsl_is_present_test.go` | `ClaimBinary` (one claim, the comparator), `ClaimsCodec` (the batch) |
| KeyStore | the same test file | not modelled (cryptography and sockets) |

How the parts interact:

1. The Timer of each observer exchanges `RequestSynchronisationTimeFrames`
   and `ResponseTimeFrame` messages with its peers. It does so through its
   channels, and Dispatch carries them over the peer connections.
2. Dispatch finds a peer's connection in the connections map, which the
   connection goroutines and the writer share under one mutex.
3. The pool holds the artifacts under approval, and the consumer of the
   approve responses records the votes in it.
4. A batch of claims travels as the bytes `Claims.MarshalBinary` writes,
   and the receiving node rebuilds it with `Claims.UnmarshalBinary`.

## Module by module

### FrameTimer

**State.** `FrameTimer` models one Timer per observer in `Observers`:

- `stage` is the progress of the `syncWithOtherObservers` goroutine;
- `isTickerRunning`, `frame`, `nextFrameTimestamp` and
  `synchronisationDeadlineTimestamp` are the Timer's fields;
- the four time-frame channels, each a sequence within the capacity that
  `New` gives it (`Channel`);
- `network` holds the messages in transit;
- `now` is the wall clock, an integer.

**Actions.** Every goroutine step is one action:

- `Start` covers `New` and `Run`, launching the sync goroutine. Its guard
  reflects the `ErrInvalidSynchronisationTimeout` panic check, which
  appears as an assumption on the constants.
- `SyncBegin` sets the deadline and sends the request, as at lines 182
  and 209.
- `SyncFinish` ends `collectResponses` at the deadline or when the channel
  is full. It then runs `processMajorityOfFrameResponses` and sets `frame`
  and `nextFrameTimestamp`.
- `SyncHandOver` sends `EventTickerStarted` over the internal bus, and
  `processInternalEvent` starts the ticker.
- `ServeRequest` is `processTimeFrameRequest`. It includes:
  - the ignore rule on `Second() == 0`;
  - the sentinel index;
  - the `select` with a default on the one-place response channel.
- `FrameTick` is the `time.After` case of `fullLoop` followed by
  `processTick`.

Every pass of `fullLoop` first evaluates `nextFrameTimeLeft()`. That call
moves an overdue `nextFrameTimestamp` forward, so it is part of each action
that the loop runs (`EnterLoop`).

**Pure algorithms.** These are operators:

- `NextFrame`: the uint16 increment, wrapped at `ObserversMaxCount`;
- `TopFrameIndex`: the majority scan, a recursive function over the
  responses whose start is `TopStart` (`topFrameIndex` and
  `topFrameVotesCount` both 0) and whose iteration is `TopStep`;
- `AverageNextFrameTTL`: the wrapping uint64 sum (`TotalStep`, one
  `total += ttl`) and unsigned division by the group size;
- `NextFrameIndex`;
- `ToUint64` and `ToInt64`: two's-complement reinterpretation modulo
  `U64`, which stands for 2^64.

**Transport.** Dispatch is not in this repository, so `SendRequests`,
`SendResponse` and `Deliver` are modelled from the spec:

- a request is broadcast to every peer;
- a response is routed to its requester and stamped with its receipt time;
- a message is lost when it is sent to a process that is not running, or
  when `ConnectionsMayDrop` holds.

**Time.** `Tick` advances the clock only when no goroutine has an
immediate step: a due timer, a reached deadline, a value in a channel its
reader waits on, or a message at the end of its delay. This is urgent
time. It stands in for the real scheduler, under which the loop wakes
within microseconds while frames last seconds, so no fairness assumption
is needed. The 50 ms polling of `collectResponses` is below the model's
time resolution.

**Not modelled:**

- the send on the unbuffered `OutgoingEventsTimeFrameEnd`, which has no
  reader in this repository and affects no Timer state;
- `reconfigureFrames`, which is empty;
- logging;
- the data race between the sync goroutine and the loop. Each write of the
  sync goroutine is one atomic step.

### ApprovalPool

`index` maps each data key to a `Record` (`Instance`, `Approves`) or to
`NoRecord`. Marshalling and hashing are abstracted as follows:

- a constant map `Content` sends instances to keys, so two instances with
  equal bytes share a key;
- `Unmarshalable` is the set of instances whose `MarshalBinary` fails.

The actions:

- `Add` covers the marshal error, the `ByHash` lookup with `Collision` on
  a present key, and the insertion of a fresh Record;
- `AddRejected` covers the two error returns;
- `Remove` is the delete;
- `Vote` is modelled from the spec, because the consumer of approve
  responses is not under `src/`.

`IsMajorityApprovesCollected` is the one-pass scan with both early exits
(`pool.go:32-54`), stated in closed form: the scan returns at the first
slot `i` where `ReturnsAt` holds. At that slot the positive count up to `i`
reaches K, if slot `i` approves, or else the negative count reaches N - K.
The check approves when slot `i` approves. `LoopVerdict` is the loop
itself, written as a recursive function over the slots: `ScanStart` is the
state before the loop (`pool.go:33-36`), `ScanStep` one iteration
(`pool.go:38-51`), a state that has returned being kept as it is.
`ScanAgrees` says the two agree on every held vector, and
`ApprovalScanProofs` proves it for every N and K; it is a statement about
the model's two forms of the same code, so no run checks it. Properties
and the other proofs use the closed form.

**Abstract specification.** `ApprovalLedger` states what the pool
promises: a ballot per key, opened with no approvals, whose approvers
only grow until the ballot is closed. `ApprovalPool!Ledger` instantiates
it with the refinement mapping

- `open` is the set of keys with a Record (`openBallots`);
- `approvers[k]` is the set of slots whose `Approves` entry is TRUE
  (`approversOf`).

`Add` of a fresh Record is `Open`, `Vote` is `Approve`, `Remove` of a
present key is `Close`, and every other step (a collision, an error, a
`Remove` of an absent key) is a stutter of the ledger.

### ClaimBinary and ClaimsCodec

`ClaimBinary` holds the part that concerns one claim: the integer codec,
`Claim.MarshalBinary` and `Claim.UnmarshalBinary`, and the comparator.
`ClaimsCodec` extends it with the batch. The split keeps `ClaimBinary`
free of `SequencesExt`, so that theorems can be proved about it.
Together they model the `Claim` and `Claims` types of the test file.
A claim is a record of two short byte sequences (`TxUUID`, `Members`) or
the model value `Broken`, a claim with a nil part. The pure functions are
operators:

- `ClaimMarshalBinary` and `ClaimUnmarshalBinary`, with the nil and
  minimum-size errors;
- `Less`, the comparator of `Sort`: `BytesLess`, which is
  `bytes.Compare(x, y) == -1` (a smaller byte at the first difference, or a
  proper prefix), applied to the binary forms;
- `InsertionSort`: `sort.Slice` on at most 12 elements is Go's insertion
  sort, written as a recursive function over (i, j) whose comparator
  panics on `Broken`; the deferred `recover` turns the panic into the
  returned error, and the slice stays partly sorted;
- `ClaimsMarshalBinary`: the uint16 count, one uint32 size per non-empty
  claim, then the bodies, aborting on the first claim error;
- `ClaimsUnmarshalBinary`: the count, the sizes, then the bodies, each
  slice of `data` checked against its length. A slice past the end is a
  Go panic (`status = "panic"`); the code checks nothing itself.

The utils integer codec is not under `src/`; it is modelled from spec 4.1
as little-endian.

**State and actions.** `At` and `result` are the sender's batch and the
error its last method returned; `Add`, `Sort` and `MarshalBinary` are its
methods. `wire` holds one payload in transit, `sentAt` the batch it was
made from. `Truncate` cuts a sender's payload to a strict prefix (a short
read); `PeerSend` puts a well-formed batch of `ClaimsMaxCount + 1` claims
on the wire, as a peer that does not bound its batches would.
`UnmarshalBinary` is the receiver's method, into `rAt`, with `rStatus`
`ok`, `error` or `panic`. On an error after line 290 `rAt` keeps the blank
`NewClaim()` entries, as `c.At` does.

### ConnectionsMap

**State:**

- `Connections` maps each observer to a connection or `NoConn`;
- `mutex` records who holds it;
- `pc` and `arg` record the method each caller goroutine is in and its
  argument;
- `opened` and `closed` are ghost sets: the connections created so far,
  and those `Close` was called on.

**Actions.** A method body runs while the mutex is held, so each method is
one step enabled when the mutex is free. The exception is
`DeleteByObserver`, which calls `Get` while holding the lock (line 91).
`DeleteByObserverLock` therefore takes the mutex and stops in the phase
`DeleteByObserver.Get`. The inner `Get` waits for a mutex its own caller
holds, so it has no step. `Call` lets an idle caller start a method; `Set`
is given a fresh connection.

**Fairness.** `sync.Mutex` hands the lock to a waiter after 1 ms in
starvation mode, so a method that stays enabled, or is enabled again and
again, eventually runs. That justifies `SF_vars(Method(p))`. `Call` has no
fairness, because a caller invokes a method only when it wants to.

## Runs

| Run | Expect | What it shows |
|---|---|---|
| `timer_aligned` | pass | See below. |
| `timer_late_join` | violation | An observer that starts after its peer finished synchronising finishes its own sync exactly when the peer's frame ends. The averaged offset is then one interval, not more, so the offset rule (`part_000:402`) keeps the old index: the late joiner labels every frame one lower than its peer. |
| `timer_skip` | violation | A request taken at the instant the frame timer expires lets `nextFrameTimeLeft` move the boundary without `processTick`, so a frame is skipped. |
| `timer_silent` | violation | An observer whose sync deadline falls on second 0 of a minute ignores a peer's request while it is synchronising itself. |
| `timer_latency` | violation | `timer_aligned` with one time unit of transport delay. A request reaches o1 just after its sync ended with `frameOffset` 1, and o1's answer takes its time left from the stale sync deadline (`part_000:262`), 4 instead of 10; the response's time in flight is not subtracted either (`part_000:376`). The requester's schedule ends up five units off o1's, beyond a tolerance of twice the delay. |
| `pool_votes` | pass | With N=5 and K=3: `LedgerSpec` (the pool implements `ApprovalLedger` under the refinement mapping, so no interleaving of Add, votes and Remove drops an approval of a Record that stays or reopens a ballot) and `ApprovalStable` (a majority the check has reported is never revoked while the Record stays, although the early-exit scan is recomputed on every new vote). |
| `pool_quorum` | violation | A Record whose second negative precedes its third approval (TLC's trace: `[T,T,F,F,T]`) holds three approvals, but the negative early exit at `pool.go:47` fires first, so the record is rejected. |
| `conns_closed` | pass | `ClosedNeverMapped`: two callers and every method, with two observers whose connections share a host. |
| `conns_deadlock` | violation | `DeleteByObserver` never returns, and every later call blocks. |
| `codec_roundtrip` | pass | `RoundTrip`: a payload the wire delivers whole decodes to exactly the claims the sender marshalled, after any sequence of Adds (nil, broken, at the maximum), Sorts and failed marshals. `SortOrders`: `Sort` keeps the multiset of claims, and when no comparator call panicked the result is in lexicographic order of the binary forms. |
| `codec_truncated` | violation | A batch cut short makes `UnmarshalBinary` panic where the spec says `InvalidDataFormat`. |
| `codec_oversized` | violation | `UnmarshalBinary` accepts a batch of `ClaimsMaxCount + 1` claims. |

`timer_aligned` runs three observers (N=3, interval 4, sync timeout 2)
that start within one time unit of each other, over a transport that may
drop messages and delivers instantly. It shows:

- `TypeOK`: the channel capacities hold;
- `FramesAligned`: the frame-end schedules of running observers agree
  within the start skew. `Epoch(o)` is the instant, modulo one cycle, at
  which `o`'s schedule begins frame 0, counted back from
  `nextFrameTimestamp` one interval per frame. Equal epochs mean the two
  observers report the same `EventTimeFrameEnd` index at the same instant
  from their next boundary on. They do not mean that the two hold the same
  index now. An observer whose sync ends with `frameOffset` 1 holds the
  next index for the rest of the current frame, which lasts longer than
  one interval, and its peers still hold the current one. That is the
  rule of spec 4.5, and the property does not forbid it;
- `TopFrameCollected`: the frame the majority loop picks is the frame of
  one of the collected responses, so `rates[topFrameIndex]` (dereferenced
  unchecked at `part_000:398`) exists. In this run every response an
  observer collects carries frame 0, so the invariant also ranges over
  `VoteSamples`: every sequence of up to N responses with frames 0 .. N-1
  or `kInitialTimeFrameIndex`.

**Bounds.** Time units are abstract.

- `timer_aligned` uses interval 4 and sync timeout 2, with a horizon of 14.
  That gives each observer a full synchronisation and two or three frames.
- All observers start within one time unit, so every request reaches a
  peer that is still collecting and no running observer answers; messages
  are instantaneous. Both restrictions are needed: a later start is
  `timer_late_join`, a delay of one unit is `timer_latency`, and both
  break `FramesAligned`.
- `MinuteLength` is 6 in the passing run, so no deadline falls on a minute
  there. The `Second() == 0` case is the subject of `timer_silent`.
- `U64 = 256` is even and exceeds every time quantity eightfold, as the
  assumption requires. The uint64 wrap is exercised by negative offsets.
- The pool runs use two keys and four instances: one pair that collides,
  one independent instance and one unmarshalable instance. With five slots
  every vote order occurs.
- The map runs use two callers, two observers, three connections and two
  hosts, so a host can match two entries.
- The codec runs use one-byte TxIDs and members of one or two bytes, so
  three claims include two whose binary forms are a prefix of, or differ
  only late from, each other. `codec_roundtrip` uses `ClaimsMaxCount = 2`:
  that reaches the `MaxCountReached` branch, a broken claim beside a good
  one, empty batches and every truncation point, in 255,128 states (3 takes
  over ten minutes). Batches of two are enough for `SortOrders`: the
  code under test is the comparator, and every ordered pair of the three
  claims and `Broken` meets it; the insertion sort around it is Go's.

**Mutants.** Every property of a passing run is broken by a plausible bug
in the code it covers (see `mutants` in `PROJECT.json`):

- a response sent without the select default;
- a frame offset that is forgotten;
- a `topFrameVotesCount` that starts at 1, so a lone response never wins;
- a vote that may also clear an approval (against `ApprovalStable`);
- a delete that closes the connection but leaves the entry in the map;
- an `Add` of the codec without the `ClaimsMaxCount` check;
- a big-endian `MarshalUint32`;
- an insertion sort whose inner loop stops one element early.

`LedgerSpec` is broken by an `Add` that stores a fresh Record with the
first slot already approving: the ledger opens every ballot empty.

## Proofs

`tlapm` proves the following for every value of the constants that the
modules' `ASSUME`s allow.

**`FrameTimerProofs`.** `TypeCorrect: Spec => []TypeOK`.

- This covers uint16 frame indices, uint64 offsets, integer timestamps,
  and every channel within its capacity: 1 for the request and response
  channels, `ObserversMaxCount` for the incoming responses.
- `TypeOK` is not inductive. `SyncBegin` appends to
  `OutgoingRequestsTimeFrames`, and that stays within capacity only
  because the channel is empty while the goroutine is `down` or
  `launched`. The inductive invariant `IInv` adds exactly that. TLC
  checked it as an invariant of `timer_aligned` before it was proved.
- `SyncFinish` sets the frame and the next boundary from `TopFrameIndex`
  and `AverageNextFrameTTL` as the code computes them, without a guard
  restricting them to their types. That they are a uint16 and a uint64 is
  proved, by `TopFrameOfVotes` and `AverageType` of `FrameScanLemmas`.
- The lemmas are:
  - `ModRange`: the range of `%`;
  - `ToUint64Type` and `ToInt64Type`;
  - `NextFrameType` and `NextFrameIndexType`: the uint16 wrap;
  - `RearmType`: `nextFrameTimeLeft` keeps timestamps integers;
  - `ChannelSet`, `ChannelSend` and `ChannelReceive`: a send on a channel
    with room, a receive from a non-empty one, or a replacement within
    capacity keeps it a channel.
- The step proof has one case per action.
- `Uint16` stays opaque in these proofs. Expanded, `0..65535` would reach
  the SMT solver as a disjunction of 65536 values.

`TopFrameAlwaysCollected: Spec => []TopFrameCollected`. It follows from
`TypeOK` (the collected responses are a sequence of responses),
`VoteSamplesType` and `TopFrameOfVotes`.

**`FrameScanLemmas`.** What the two loops of the majority reduction
compute, for every sequence of responses. A recursive function is a
`CHOOSE` of a function satisfying its equation, so each loop needs a
solution that exists and is the only one. Both come from least elements
(`NatLeast`), not from an induction theorem:

- `TopStepGood`: an iteration keeps `Good`. `Good` says the state is
  `TopStart` before the loop. After `i` responses, the top group has a
  vote and its frame is the frame of one of those responses. The group of
  response `i` holds at least that response, so the first iteration always
  replaces `TopStart`.
- `PartialExtends` and `TopScanExists`: the least `k` with no solution on
  `0 .. k` would extend the solution on `0 .. k - 1`, so one exists on the
  whole range.
- `TopScanUnique`: two solutions agree, since at the least index where
  they differ their predecessors agree.
- `TopFrameOfVotes`: so `TopFrameIndex` of non-empty responses is a uint16
  frame one of them carries.
- `TotalStepType`, `TotalPartialExtends`, `TotalExists`, `TotalUnique`: the
  same construction for the uint64 sum, and `AverageType`: the average
  over a group that holds a response is a uint64, its divisor being at
  least 1.

**`ApprovalPoolProofs`.**

- `TypeCorrect`, whose invariant is inductive as it stands.
- `VotesNeverDropped: Spec => ApprovalsNotDropped`: no step drops an
  approval of a Record that stays. `LedgerSpec` implies it, and
  `pool_votes` checks that; this theorem is proved directly, from the type invariant with one case
  per action.
- `Implements: Spec => LedgerSpec`, the refinement. `Init` maps to the
  ledger's `Init`, and the lemma `LedgerStep` shows that under `TypeOK`
  every step of the pool is a ledger step or a stutter of the mapped
  variables: one case per action, and for `Remove` a case on whether the
  key is present. `NoRecordNotRecord` lets the provers tell a free slot
  from a Record. The temporal step is `PTL` from `TypeCorrect`.
- `QuorumBehindApproval: Spec => []ApprovedHasQuorum`: an approved
  Record holds at least K approvals, for every N and K. It follows from `TypeOK`
  and the lemma `MajorityHasQuorum`. The scan returns TRUE at a slot whose
  positive count up to that slot reaches K. Those approvals are a subset of
  all approvals, so the count of all approvals is at least K (`CountLeq`,
  from `FS_Subset`).
- `MajorityNeverRevoked: Spec => ApprovalStable`. A step keeps every
  approval of a Record that stays (`ApprovalsKeptStep`). The check is
  monotone in the approvals (`MajorityMonotone`). Let `i` be the slot where
  the scan of the old vector returns. On the new vector the positive count
  at `i` can only be larger, so the scan returns there or earlier. Let `m`
  be the least slot where it returns on the new vector; it exists by
  `NatLeast`. If slot `m` did not approve, its negative count on the old
  vector would be at least as large, and the old scan would have returned
  at `m < i`, which contradicts the choice of `i`.

**`ApprovalScanProofs`.** `ClosedFormMatchesLoop: Spec => []ScanAgrees`,
for every N and K. A recursive function definition `scan[i \in S] == e`
means `CHOOSE f : f = [i \in S |-> e]`, which says nothing until some
function satisfies the equation. The argument avoids induction:

- `Closed(a, i)` is the explicit state of the loop after `i` slots: the
  counts and verdict at the first returning slot, if one lies before `i`,
  and otherwise the counts up to `i - 1` with verdict "open";
- `ClosedStep`: `Closed(a, i) = ScanStep(Closed(a, i - 1), a[i - 1])`, by
  cases on whether the loop has returned and on slot `i - 1`; it rests on
  `VoteCountStep` (a count grows by one slot at a time, `FS_AddElement`)
  and on `FirstExists`/`FirstUnique` (the first returning slot, by
  `NatLeast`);
- `ClosedIsScan`: so the function `[i |-> Closed(a, i)]` satisfies the
  recursion, and `ScanUnique`: any two functions that satisfy it are equal,
  since at the least slot where they differ their predecessors agree;
- `LoopIsClosed`: hence the `CHOOSE` is that function, and
  `ClosedFormIsLoop` compares its verdict at N with the closed form.

The invariant then follows from `TypeOK`, without strengthening.

**`NatLemmas`.** `NatLeast`: every non-empty set of naturals has a least
element. It is derived from `WFMin` and `NatLessThanWellFounded` of
`WellFoundedInduction`; no induction operator has to be instantiated. The
"first slot where the loop returns" arguments rest on it.

**`ClaimBinaryProofs`.** These hold for every TxID size, minimum members
size and set of well-formed claims.

- `Uint32RoundTrip` and `Uint16RoundTrip`: the integer codec writes
  bytes that it reads back as the same number.
- `ClaimRoundTrip`: `Claim.UnmarshalBinary` of what `Claim.MarshalBinary`
  wrote is the same claim, with a nil error. It rests on:
  - `ClaimBinaryForm`: the binary form is the TxID followed by the
    members, at least `ClaimMinBinarySize` long;
  - `ConcatSplit`: the split of a concatenation at the first length.
- `ComparatorTotalOrder`: `Less` is a strict total order on claims. It is
  irreflexive and transitive (`BytesLessIrreflexive`,
  `BytesLessTransitive`, by cases on the first difference or prefix on
  each side). It is total on different claims: `ClaimBinaryInjective`
  makes their binary forms differ, and `BytesLessTotal` takes the least
  differing position, by `NatLeast`. So `sort.Slice` with this comparator
  has exactly one sorted result for a set of claims, and two nodes that
  sort the same claims marshal the same batch. Whether `InsertionSort`
  reaches that order is `SortOrders`, which only TLC checks.

**`ConnectionsMapProofs`.**

- `ClosedConnectionsUnreachable: Spec => []ClosedNeverMapped`.
- `TypeCorrect`.

`ClosedNeverMapped` is not inductive by itself: a `Set` could install a
closed connection. The invariant `IInv` adds the freshness facts that rule
that out:

- every closed connection and every mapped connection has been opened;
- the connection a pending `Set` holds is opened and not closed;
- that connection is mapped nowhere and held by no other pending `Set`.

**Only model-checked:**

- `FramesAligned`: a relation between clocks that holds only when the
  observers start together over an instantaneous transport, and fails
  otherwise (`timer_late_join`, `timer_latency`);
- the batch properties of the codec (`TypeOK`, `RoundTrip`,
  `SortOrders`). `ClaimsCodec` reaches the RECURSIVE `Folds` through
  `SequencesExt`, and these properties are about what recursive functions
  compute (`InsertionSort`, the body loop of `ClaimsUnmarshalBinary`).
  That needs induction over data. The claim-level facts they rest on are
  proved in `ClaimBinaryProofs`;
- the liveness property `CallsReturn`, which `conns_deadlock` finds
  violated. TLAPS does not reason about fairness or `ENABLED`.

Of `TopFrameIndex` and `AverageNextFrameTTL`, what is proved is the
range of their results and that the top frame was collected. That the top
frame is the largest group is checked only by TLC, and only indirectly,
through `FramesAligned`.
The same construction would serve the codec's loops. There the statements
are about sequences being built and sorted, and `ClaimsCodec` reaches a
RECURSIVE operator, which rules out proofs in that module.

## Findings

These are detailed in `PROJECT.json`:

1. The offset rule (`part_000:402`) keeps the top index when the top
   frame ends as the sync finishes, so a late joiner labels every frame
   one lower than its peer.
2. The answer of a running observer takes its time left from the stale
   sync deadline (`part_000:262`), and the correction for a response's
   age leaves out its time in flight (`part_000:376`). With one unit of
   delay, a peer that syncs against it adopts a schedule five units off.
3. A frame skipped when a request races the frame timer (`part_000:316`).
4. A synchronising observer is silent when its deadline is on a whole
   minute (`part_000:255`).
5. A quorum is rejected by the negative early exit (`pool.go:47`).
6. `DeleteByObserver` self-deadlocks (`connections.go:91`).
7. A truncated Claims batch panics instead of returning
   `InvalidDataFormat` (test file, lines 285, 304 and 320). This assumes
   the received slice's capacity is its length, as for a fresh read
   buffer; with spare capacity the slice expression would read stale bytes
   instead of panicking, which is no better.
8. `Claims.UnmarshalBinary` never checks the count against
   `ClaimsMaxCount` (test file, line 290).

## Not modelled, and the plan for later sittings

- In the codec: the zero-size error lost to the shadowed `err` (line
  309) is not told apart from the later minimum-size error, since both are
  `InvalidDataFormat`; and no property judges the blank claims left in the
  receiver's batch after an error, since the spec states no contract for
  it. The count written for skipped empty claims (line 259) cannot differ,
  because a claim's binary form is never empty.
- The data race on `frame` and `nextFrameTimestamp` between the sync
  goroutine and the loop. A model would split the writes and let the
  loop read either value.
- The `len()`-then-drain gap in `processMajorityOfFrameResponses`.
- A refinement of `FrameTimer` to an abstract clock of frames, for the
  runs where the observers agree.
- The string split of `RemoteAddr` (IPv6), a hazard without a property.
- The auto-cleaner of `NewConnectionsMap`, which is commented out, and the
  consumer of the frame-end events, which is not in the repository.
