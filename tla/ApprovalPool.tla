---------------------------- MODULE ApprovalPool ----------------------------
(***************************************************************************)
(* The approval pool (package pool, src/core/chain/pool/pool.go): pending  *)
(* instances indexed by the SHA-256 of their binary form, each Record      *)
(* carrying the approvals collected from the observers, and the consensus *)
(* check IsMajorityApprovesCollected.                                      *)
(*                                                                         *)
(* SHA-256 is taken to be collision free: the key of an instance is its    *)
(* binary form, Content(i).  Instances with the same Content are the       *)
(* byte-identical copies the pool must deduplicate.                        *)
(***************************************************************************)
EXTENDS Integers, FiniteSets

CONSTANTS
    Instances,        \* the instances the pool may be given
    Data,             \* their binary forms (MarshalBinary results)
    Content,          \* Content[i]: the binary form of instance i
    Unmarshalable,    \* the instances whose MarshalBinary returns an error
    ObserversMaxCount,       \* settings.ObserversMaxCount = len(Record.Approves)
    ObserversConsensusCount  \* settings.ObserversConsensusCount

ASSUME PoolAssumption ==
    /\ Content \in [Instances -> Data]
    /\ Unmarshalable \subseteq Instances
    /\ ObserversMaxCount \in Nat \ {0}
    /\ ObserversConsensusCount \in 1 .. ObserversMaxCount

\* The observer slots of Record.Approves.
Slots == 0 .. ObserversMaxCount - 1

\* A Record: the instance and its approvals (LastSyncAttempt is never set
\* by this package and is left out).
Record == [Instance : Instances, Approves : [Slots -> BOOLEAN]]

\* The value of pool.index at a hash with no entry.
NoRecord == [Instance |-> "none"]

VARIABLE index   \* Pool.index: hash -> *Record

vars == <<index>>

TypeOK == index \in [Data -> Record \cup {NoRecord}]

\* NewPool: an empty map.
Init == index = [k \in Data |-> NoRecord]

-----------------------------------------------------------------------------
(* The consensus check.                                                    *)

\* One pass of the loop of IsMajorityApprovesCollected over vote v, from the
\* counters s: once the loop has returned, nothing changes; otherwise the
\* vote's counter grows and the loop returns if it reaches its threshold.
ScanStep(s, v) ==
    IF s.verdict # "open" THEN s
    ELSE IF v
      THEN IF s.pos + 1 >= ObserversConsensusCount
             THEN [s EXCEPT !.pos = @ + 1, !.verdict = "approved"]
             ELSE [s EXCEPT !.pos = @ + 1]
      ELSE IF s.neg + 1 >= ObserversMaxCount - ObserversConsensusCount
             THEN [s EXCEPT !.neg = @ + 1, !.verdict = "rejected"]
             ELSE [s EXCEPT !.neg = @ + 1]

\* The counters before the loop.
ScanStart == [pos |-> 0, neg |-> 0, verdict |-> "open"]

\* The loop of IsMajorityApprovesCollected, step by step: scan[i] holds the
\* counters and the verdict after slots 0 .. i - 1.  It is the reference
\* the closed form below is checked against.
LoopVerdict(approves) ==
    LET scan[i \in 0 .. ObserversMaxCount] ==
          IF i = 0 THEN ScanStart ELSE ScanStep(scan[i - 1], approves[i - 1])
    IN  scan[ObserversMaxCount].verdict = "approved"

\* positiveVotesPresent and negativeVotesPresent after the loop has read
\* slots 0 .. i.
PositiveVotes(approves, i) == Cardinality({m \in 0 .. i : approves[m]})
NegativeVotes(approves, i) == Cardinality({m \in 0 .. i : ~approves[m]})

\* The loop returns at slot i: the vote there brings its counter to its
\* threshold.
ReturnsAt(approves, i) ==
    IF approves[i]
      THEN PositiveVotes(approves, i) >= ObserversConsensusCount
      ELSE NegativeVotes(approves, i) >= ObserversMaxCount - ObserversConsensusCount

\* IsMajorityApprovesCollected: the loop returns TRUE, that is, the first
\* slot at which it returns holds an approval.  The slots are read in
\* order and the loop returns as soon as the positives reach the consensus
\* count (TRUE) or the negatives reach ObserversMaxCount -
\* ObserversConsensusCount (FALSE); it returns FALSE after the last slot.
IsMajorityApprovesCollected(approves) ==
    \E i \in Slots :
        /\ approves[i] /\ ReturnsAt(approves, i)
        /\ \A m \in 0 .. i - 1 : ~ReturnsAt(approves, m)

\* Number of observers whose approval a Record holds.
ApprovesCount(approves) == Cardinality({j \in Slots : approves[j]})

-----------------------------------------------------------------------------
(* Operations of the Pool.                                                 *)

\* Mutant: Add that stores the fresh Record with the first slot already
\* approving, as if the proposer's own vote were preset.
AddSelfApproved(i) ==
    /\ i \notin Unmarshalable
    /\ index[Content[i]] = NoRecord
    /\ index' = [index EXCEPT ![Content[i]] =
                    [Instance |-> i, Approves |-> [j \in Slots |-> j = 0]]]

\* Add: MarshalBinary, then the lookup by hash; a present entry is a
\* Collision and stays as it is, otherwise a fresh Record is stored.
Add(i) ==
    /\ i \notin Unmarshalable
    /\ index[Content[i]] = NoRecord
    /\ index' = [index EXCEPT ![Content[i]] =
                    [Instance |-> i, Approves |-> [j \in Slots |-> FALSE]]]

\* Add returning an error (the marshalling error, or Collision) leaves the
\* pool as it is: a step of the caller that changes nothing here.
AddRejected(i) ==
    /\ \/ i \in Unmarshalable
       \/ index[Content[i]] # NoRecord
    /\ UNCHANGED index

\* Remove: delete(pool.index, *hash), a no-op on an absent hash.
Remove(k) == index' = [index EXCEPT ![k] = NoRecord]

\* Mutant: the slot takes the value of the latest response from observer
\* j, so a late negative response withdraws its approval.
VoteOverwriting(k, j) ==
    /\ index[k] # NoRecord
    /\ \E v \in BOOLEAN : index' = [index EXCEPT ![k].Approves[j] = v]

\* The application of an approve response from observer j (the consumer
\* of the Response*Approve channels, not under src/): it sets the slot.
Vote(k, j) ==
    /\ index[k] # NoRecord
    /\ index' = [index EXCEPT ![k].Approves[j] = TRUE]

Next ==
    \/ \E i \in Instances : Add(i) \/ AddRejected(i)
    \/ \E k \in Data : Remove(k) \/ \E j \in Slots : Vote(k, j)

Spec == Init /\ [][Next]_vars

-----------------------------------------------------------------------------
(* Properties.                                                             *)

\* Pool.Add never replaces a present Record ("to prevent votes dropping"):
\* no step of the pool turns an approval a present Record holds back into
\* a missing one, whatever order Add, the votes and Remove come in.
ApprovalsNotDropped ==
    [][\A k \in Data :
          index[k] # NoRecord /\ index'[k] # NoRecord
              => \A j \in Slots :
                    index[k].Approves[j] => index'[k].Approves[j]]_vars

\* The ballots the pool holds: a hash is open while the index has a Record
\* for it, and its approvers are the slots the Record marks.
openBallots == {k \in Data : index[k] # NoRecord}
approversOf == [k \in Data |-> IF index[k] = NoRecord THEN {}
                               ELSE {j \in Slots : index[k].Approves[j]}]

Ledger == INSTANCE ApprovalLedger WITH
    Keys <- Data, Voters <- Slots, open <- openBallots, approvers <- approversOf

\* The pool implements the ledger of ballots: Add opens a ballot only for
\* a hash it does not hold (the ByHash lookup and Collision), a vote only
\* adds an approval to a held Record, and Remove closes; whatever order
\* Add, Remove and the votes come in, no approval disappears from a
\* Record that stays, and a re-added hash starts from no approvals.
LedgerSpec == Ledger!Spec

\* IsMajorityApprovesCollected reports a majority only for a Record that
\* holds at least ObserversConsensusCount approvals.
ApprovedHasQuorum ==
    \A k \in Data :
        index[k] # NoRecord /\ IsMajorityApprovesCollected(index[k].Approves)
            => ApprovesCount(index[k].Approves) >= ObserversConsensusCount

\* The closed form of the consensus check agrees with the loop, slot by
\* slot with both early exits, on every approval vector a held Record
\* reaches.
ScanAgrees ==
    \A k \in Data :
        index[k] # NoRecord
            => IsMajorityApprovesCollected(index[k].Approves)
               = LoopVerdict(index[k].Approves)

\* Once IsMajorityApprovesCollected reports a majority for a held Record,
\* no later approve response or pool operation takes the verdict back
\* while the Record stays: the early-exit scan never meets a negative exit
\* first after more approvals arrive, so a caller that acted on the
\* verdict never sees it revoked.
ApprovalStable ==
    [][\A k \in Data :
          index[k] # NoRecord /\ index'[k] # NoRecord
          /\ IsMajorityApprovesCollected(index[k].Approves)
              => IsMajorityApprovesCollected(index'[k].Approves)]_vars

=============================================================================
