--------------------------- MODULE ApprovalLedger ---------------------------
(***************************************************************************)
(* What the approval pool promises the code that collects votes: a ballot *)
(* per key, opened empty, whose set of approving observers only grows     *)
(* until the ballot is closed.  A key opened again starts from no         *)
(* approvals; no step takes an approval back from an open ballot.  The    *)
(* pool of ApprovalPool implements it (see ApprovalPool!Ledger).           *)
(***************************************************************************)

CONSTANTS
    Keys,    \* the keys ballots are held under
    Voters   \* the observers that approve

VARIABLES
    open,       \* the keys with an open ballot
    approvers   \* approvers[k]: the observers that approved ballot k

ledgerVars == <<open, approvers>>

Init ==
    /\ open = {}
    /\ approvers = [k \in Keys |-> {}]

\* A ballot is opened, with no approvals yet.
Open(k) ==
    /\ k \notin open
    /\ open' = open \cup {k}
    /\ approvers' = [approvers EXCEPT ![k] = {}]

\* An observer approves an open ballot.
Approve(k, v) ==
    /\ k \in open
    /\ approvers' = [approvers EXCEPT ![k] = @ \cup {v}]
    /\ UNCHANGED open

\* A ballot is closed and its approvals are forgotten.
Close(k) ==
    /\ k \in open
    /\ open' = open \ {k}
    /\ approvers' = [approvers EXCEPT ![k] = {}]

Next == \E k \in Keys : Open(k) \/ Close(k) \/ \E v \in Voters : Approve(k, v)

Spec == Init /\ [][Next]_ledgerVars
=============================================================================
