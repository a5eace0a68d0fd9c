------------------------- MODULE ApprovalPoolProofs -------------------------
(***************************************************************************)
(* Proofs about the approval pool, for every set of instances and every    *)
(* ObserversMaxCount and ObserversConsensusCount.                          *)
(***************************************************************************)
EXTENDS ApprovalPool, FiniteSetTheorems, NatLemmas, TLAPS

\* Every step of the pool keeps the index a map from hashes to Records or
\* to the absent entry.
LEMMA TypeCorrectStep ==
    ASSUME TypeOK, [Next]_vars
    PROVE  TypeOK'
<1> USE PoolAssumption
<1>1. ASSUME NEW i \in Instances, Add(i)
      PROVE  TypeOK'
  BY <1>1 DEF Add, TypeOK, Record
<1>2. ASSUME NEW i \in Instances, AddRejected(i)
      PROVE  TypeOK'
  BY <1>2 DEF AddRejected, TypeOK
<1>3. ASSUME NEW k \in Data, Remove(k)
      PROVE  TypeOK'
  BY <1>3 DEF Remove, TypeOK
<1>4. ASSUME NEW k \in Data, NEW j \in Slots, Vote(k, j)
      PROVE  TypeOK'
  <2>1. index[k] \in Record
    BY <1>4 DEF Vote, TypeOK
  <2>2. [index[k] EXCEPT !.Approves[j] = TRUE] \in Record
    BY <2>1 DEF Record
  <2>. QED
    BY <1>4, <2>2 DEF Vote, TypeOK
<1>5. CASE UNCHANGED vars
  BY <1>5 DEF vars, TypeOK
<1>. QED
  BY <1>1, <1>2, <1>3, <1>4, <1>5 DEF Next

\* The pool's index is well typed in every reachable state.
THEOREM TypeCorrect == Spec => []TypeOK
<1>1. Init => TypeOK
  BY DEF Init, TypeOK
<1>. QED
  BY <1>1, TypeCorrectStep, PTL DEF Spec

\* One step of the pool keeps every approval of a Record that stays: Add
\* touches only an absent hash, Remove only deletes, a vote only sets.
LEMMA ApprovalsKeptStep ==
    ASSUME TypeOK, [Next]_vars, NEW k \in Data,
           index[k] # NoRecord, index'[k] # NoRecord,
           NEW j \in Slots, index[k].Approves[j]
    PROVE  index'[k].Approves[j]
<1>1. index[k] \in Record
  BY DEF TypeOK
<1>2. CASE \E i \in Instances : Add(i)
  BY <1>2 DEF Add
<1>3. CASE \E i \in Instances : AddRejected(i)
  BY <1>3 DEF AddRejected
<1>4. CASE \E kk \in Data : Remove(kk)
  BY <1>4 DEF Remove, TypeOK
<1>5. CASE \E kk \in Data, jj \in Slots : Vote(kk, jj)
  BY <1>1, <1>5 DEF Vote, TypeOK, Record
<1>6. CASE UNCHANGED vars
  BY <1>6 DEF vars
<1>. QED
  BY <1>2, <1>3, <1>4, <1>5, <1>6 DEF Next

\* Pool.Add's Collision branch keeps the votes: in every behaviour, no step
\* clears an approval of a Record that stays in the index (the property
\* ApprovalsNotDropped that the run MCApprovalPool checks).
THEOREM VotesNeverDropped == Spec => ApprovalsNotDropped
<1>1. ASSUME TypeOK, [Next]_vars, NEW k \in Data,
             index[k] # NoRecord, index'[k] # NoRecord,
             NEW j \in Slots, index[k].Approves[j]
      PROVE  index'[k].Approves[j]
  BY <1>1, ApprovalsKeptStep
<1>2. TypeOK /\ [Next]_vars
        => [\A k \in Data :
               index[k] # NoRecord /\ index'[k] # NoRecord
                   => \A j \in Slots :
                         index[k].Approves[j] => index'[k].Approves[j]]_vars
  BY <1>1
<1>. QED
  BY <1>2, TypeCorrect, PTL DEF Spec, ApprovalsNotDropped

-----------------------------------------------------------------------------
(* Refinement: the pool implements the ledger of ballots.                  *)

\* The absent entry is no Record: it has no Approves field.
LEMMA NoRecordNotRecord == NoRecord \notin Record
  BY DEF NoRecord, Record

\* Each step of the pool is a step of the ledger or leaves the ballots as
\* they are: Add opens, a vote approves, Remove of a held hash closes.
LEMMA LedgerStep ==
    ASSUME TypeOK, [Next]_vars
    PROVE  [Ledger!Next]_Ledger!ledgerVars
<1> USE PoolAssumption
<1>1. ASSUME NEW i \in Instances, Add(i)
      PROVE  Ledger!Open(Content[i])
  <2> DEFINE k == Content[i]
  <2>1. index[k] = NoRecord /\ index'[k] \in Record
    BY <1>1 DEF Add, TypeOK, Record
  <2>2. openBallots' = openBallots \cup {k}
    BY <1>1, <2>1, NoRecordNotRecord DEF Add, TypeOK, openBallots
  <2>3. approversOf' = [approversOf EXCEPT ![k] = {}]
    BY <1>1, <2>1, NoRecordNotRecord DEF Add, TypeOK, approversOf
  <2>. QED
    BY <2>1, <2>2, <2>3 DEF Ledger!Open, openBallots
<1>2. ASSUME NEW i \in Instances, AddRejected(i)
      PROVE  UNCHANGED Ledger!ledgerVars
  BY <1>2 DEF AddRejected, Ledger!ledgerVars, openBallots, approversOf
<1>3. ASSUME NEW k \in Data, Remove(k)
      PROVE  [Ledger!Next]_Ledger!ledgerVars
  <2>1. CASE index[k] = NoRecord
    <3>1. index' = index
      BY <1>3, <2>1 DEF Remove, TypeOK
    <3>. QED
      BY <3>1 DEF Ledger!ledgerVars, openBallots, approversOf
  <2>2. CASE index[k] # NoRecord
    <3>1. openBallots' = openBallots \ {k}
      BY <1>3, <2>2 DEF Remove, TypeOK, openBallots
    <3>2. approversOf' = [approversOf EXCEPT ![k] = {}]
      BY <1>3, <2>2 DEF Remove, TypeOK, approversOf
    <3>3. Ledger!Close(k)
      BY <2>2, <3>1, <3>2 DEF Ledger!Close, openBallots
    <3>. QED
      BY <3>3 DEF Ledger!Next
  <2>. QED
    BY <2>1, <2>2
<1>4. ASSUME NEW k \in Data, NEW j \in Slots, Vote(k, j)
      PROVE  Ledger!Approve(k, j)
  <2>1. index[k] \in Record
    BY <1>4 DEF Vote, TypeOK
  <2>2. index'[k] \in Record /\ index'[k].Approves = [index[k].Approves EXCEPT ![j] = TRUE]
    BY <1>4, <2>1 DEF Vote, TypeOK, Record
  <2>3. openBallots' = openBallots
    BY <1>4, <2>2, NoRecordNotRecord DEF Vote, TypeOK, openBallots
  <2>4. approversOf' = [approversOf EXCEPT ![k] = @ \cup {j}]
    <3>1. \A kk \in Data \ {k} : index'[kk] = index[kk]
      BY <1>4 DEF Vote, TypeOK
    <3>2. {s \in Slots : index'[k].Approves[s]}
            = {s \in Slots : index[k].Approves[s]} \cup {j}
      BY <2>1, <2>2 DEF Record
    <3>3. index[k] # NoRecord /\ index'[k] # NoRecord
      BY <2>1, <2>2, NoRecordNotRecord
    <3>. QED
      BY <3>1, <3>2, <3>3 DEF approversOf
  <2>. QED
    BY <1>4, <2>3, <2>4 DEF Ledger!Approve, Vote, openBallots
<1>5. CASE UNCHANGED vars
  BY <1>5 DEF vars, Ledger!ledgerVars, openBallots, approversOf
<1>. QED
  BY <1>1, <1>2, <1>3, <1>4, <1>5 DEF Next, Ledger!Next

\* Pool.Add, Remove and the votes implement the ledger of ballots, for any
\* instances, N and K (the property LedgerSpec that the run
\* MCApprovalPoolLedger checks): the initial empty index is the ledger with
\* no ballot, and every step maps to a ledger step or to no change.
THEOREM Implements == Spec => LedgerSpec
<1>1. Init => Ledger!Init
  BY DEF Init, Ledger!Init, openBallots, approversOf
<1>. QED
  BY <1>1, LedgerStep, TypeCorrect, PTL DEF Spec, LedgerSpec, Ledger!Spec
-----------------------------------------------------------------------------
(* The consensus check.  The proofs reason about the closed form of the   *)
(* loop (the first slot at which it returns); the run MCApprovalPool      *)
(* checks with ScanAgrees that it equals the loop itself.                 *)

\* A set of slots inside another counts no more, and counts are naturals.
LEMMA CountLeq ==
    ASSUME NEW n \in Nat, NEW S, NEW T, S \subseteq T, T \subseteq 0 .. n
    PROVE  /\ Cardinality(S) \in Nat /\ Cardinality(T) \in Nat
           /\ Cardinality(S) <= Cardinality(T)
<1>1. IsFiniteSet(0 .. n)
  BY FS_Interval
<1>2. IsFiniteSet(T)
  BY <1>1, FS_Subset
<1>3. IsFiniteSet(S) /\ Cardinality(S) <= Cardinality(T)
  BY <1>2, FS_Subset
<1>. QED
  BY <1>2, <1>3, FS_CardinalityType

\* A vector the check approves holds ObserversConsensusCount approvals: the
\* approvals up to the slot where the loop returns TRUE already do.
LEMMA MajorityHasQuorum ==
    ASSUME NEW a \in [Slots -> BOOLEAN], IsMajorityApprovesCollected(a)
    PROVE  ApprovesCount(a) >= ObserversConsensusCount
<1> USE PoolAssumption
<1>1. PICK i \in Slots : a[i] /\ ReturnsAt(a, i)
  BY DEF IsMajorityApprovesCollected
<1>2. PositiveVotes(a, i) >= ObserversConsensusCount
  BY <1>1 DEF ReturnsAt
<1>3. {m \in 0 .. i : a[m]} \subseteq {s \in Slots : a[s]}
  BY DEF Slots
<1>4. {s \in Slots : a[s]} \subseteq 0 .. ObserversMaxCount - 1
  BY DEF Slots
<1>5. /\ Cardinality({m \in 0 .. i : a[m]}) \in Nat
      /\ Cardinality({s \in Slots : a[s]}) \in Nat
      /\ Cardinality({m \in 0 .. i : a[m]}) <= Cardinality({s \in Slots : a[s]})
  BY <1>3, <1>4, CountLeq
<1>6. Cardinality({m \in 0 .. i : a[m]}) >= ObserversConsensusCount
  BY <1>2 DEF PositiveVotes
<1>. QED
  BY <1>5, <1>6 DEF ApprovesCount

\* IsMajorityApprovesCollected only reports a majority for a Record that
\* holds ObserversConsensusCount approvals, for every N and K (the
\* invariant ApprovedHasQuorum that the run MCApprovalPool checks).
THEOREM QuorumBehindApproval == Spec => []ApprovedHasQuorum
<1>1. TypeOK => ApprovedHasQuorum
  <2> SUFFICES ASSUME TypeOK, NEW k \in Data, index[k] # NoRecord,
                      IsMajorityApprovesCollected(index[k].Approves)
               PROVE  ApprovesCount(index[k].Approves) >= ObserversConsensusCount
    BY DEF ApprovedHasQuorum
  <2>1. index[k].Approves \in [Slots -> BOOLEAN]
    BY DEF TypeOK, Record
  <2>. QED
    BY <2>1, MajorityHasQuorum
<1>. QED
  BY <1>1, TypeCorrect, PTL

\* More approvals never turn a majority verdict around: if b approves every
\* slot a approves, the first slot at which the loop returns on b comes no
\* later than on a and still holds an approval, since b has no more
\* negatives than a up to any slot.
LEMMA MajorityMonotone ==
    ASSUME NEW a \in [Slots -> BOOLEAN], NEW b \in [Slots -> BOOLEAN],
           \A s \in Slots : a[s] => b[s],
           IsMajorityApprovesCollected(a)
    PROVE  IsMajorityApprovesCollected(b)
<1> USE PoolAssumption
<1>1. PICK i \in Slots : /\ a[i] /\ ReturnsAt(a, i)
                         /\ \A m \in 0 .. i - 1 : ~ReturnsAt(a, m)
  BY DEF IsMajorityApprovesCollected
<1>2. i \in Nat /\ b[i]
  BY <1>1 DEF Slots
<1>3. ReturnsAt(b, i)
  <2>1. /\ Cardinality({m \in 0 .. i : a[m]}) \in Nat
        /\ Cardinality({m \in 0 .. i : b[m]}) \in Nat
        /\ Cardinality({m \in 0 .. i : a[m]}) <= Cardinality({m \in 0 .. i : b[m]})
    <3>1. {m \in 0 .. i : a[m]} \subseteq {m \in 0 .. i : b[m]}
      BY DEF Slots
    <3>. QED
      BY <1>2, <3>1, CountLeq
  <2>2. Cardinality({m \in 0 .. i : a[m]}) >= ObserversConsensusCount
    BY <1>1 DEF ReturnsAt, PositiveVotes
  <2>3. PositiveVotes(b, i) >= ObserversConsensusCount
    BY <2>1, <2>2 DEF PositiveVotes
  <2>. QED
    BY <1>2, <2>3, Zenon DEF ReturnsAt
<1> DEFINE R == {m \in 0 .. i : ReturnsAt(b, m)}
<1>4. R \subseteq Nat /\ R # {}
  BY <1>2, <1>3
<1>5. PICK m \in R : \A y \in R : m <= y
  BY <1>4, NatLeast
<1>6. m \in 0 .. i /\ ReturnsAt(b, m)
  BY <1>5
<1>7. b[m]
  <2> SUFFICES ASSUME ~b[m] PROVE FALSE
    OBVIOUS
  <2>1. m \in 0 .. i - 1 /\ m \in Slots
    BY <1>2, <1>6 DEF Slots
  <2>2. ~a[m]
    BY <2>1
  <2>3. NegativeVotes(b, m) >= ObserversMaxCount - ObserversConsensusCount
    BY <1>6 DEF ReturnsAt
  <2>4. /\ Cardinality({x \in 0 .. m : ~b[x]}) \in Nat
        /\ Cardinality({x \in 0 .. m : ~a[x]}) \in Nat
        /\ Cardinality({x \in 0 .. m : ~b[x]}) <= Cardinality({x \in 0 .. m : ~a[x]})
    <3>1. {x \in 0 .. m : ~b[x]} \subseteq {x \in 0 .. m : ~a[x]}
      BY <1>2, <2>1 DEF Slots
    <3>2. m \in Nat
      BY <2>1
    <3>. QED
      BY <3>1, <3>2, CountLeq
  <2>5. Cardinality({x \in 0 .. m : ~b[x]}) >= ObserversMaxCount - ObserversConsensusCount
    BY <2>3, Zenon DEF ReturnsAt, NegativeVotes
  <2>6. NegativeVotes(a, m) >= ObserversMaxCount - ObserversConsensusCount
    BY <2>4, <2>5 DEF NegativeVotes
  <2>7. ReturnsAt(a, m)
    BY <2>2, <2>6, Zenon DEF ReturnsAt
  <2>. QED
    BY <1>1, <2>1, <2>7
<1>8. ASSUME NEW y \in 0 .. m - 1, ReturnsAt(b, y)
      PROVE  FALSE
  <2>1. y \in R
    BY <1>2, <1>6, <1>8
  <2>. QED
    BY <1>5, <1>6, <2>1
<1>9. m \in Slots
  BY <1>2, <1>6 DEF Slots
<1>. QED
  BY <1>6, <1>7, <1>8, <1>9 DEF IsMajorityApprovesCollected

\* A majority verdict, once reported for a held Record, holds for as long
\* as the Record stays in the pool, for every N and K (the property
\* ApprovalStable that the run MCApprovalPool checks): a step keeps every
\* approval of a Record that stays, and the check is monotone in them.
THEOREM MajorityNeverRevoked == Spec => ApprovalStable
<1>1. ASSUME TypeOK, [Next]_vars, NEW k \in Data,
             index[k] # NoRecord, index'[k] # NoRecord,
             IsMajorityApprovesCollected(index[k].Approves)
      PROVE  IsMajorityApprovesCollected(index'[k].Approves)
  <2>1. TypeOK'
    BY <1>1, TypeCorrectStep
  <2>2. index[k].Approves \in [Slots -> BOOLEAN]
    BY <1>1 DEF TypeOK, Record
  <2>3. index'[k].Approves \in [Slots -> BOOLEAN]
    BY <1>1, <2>1, NoRecordNotRecord DEF TypeOK, Record
  <2>4. \A s \in Slots : index[k].Approves[s] => index'[k].Approves[s]
    BY <1>1, ApprovalsKeptStep
  <2>. QED
    BY <1>1, <2>2, <2>3, <2>4, MajorityMonotone
<1>2. TypeOK /\ [Next]_vars
        => [\A k \in Data :
               index[k] # NoRecord /\ index'[k] # NoRecord
               /\ IsMajorityApprovesCollected(index[k].Approves)
                   => IsMajorityApprovesCollected(index'[k].Approves)]_vars
  BY <1>1
<1>. QED
  BY <1>2, TypeCorrect, PTL DEF Spec, ApprovalStable
=============================================================================
