------------------------ MODULE ConnectionsMapProofs ------------------------
(***************************************************************************)
(* Proofs about the connections map, for any numbers of callers,          *)
(* observers, connections and hosts.                                       *)
(***************************************************************************)
EXTENDS ConnectionsMap, TLAPS

\* The connection a caller is about to install with Set.
Pending(p) == pc[p] = "Set"

\* ClosedNeverMapped is not inductive by itself: a Set could install a
\* closed connection, and a DeleteByRemoteHost could close one that a Set
\* is about to install.  Connections are fresh, so neither happens: every
\* closed one was created before, every mapped one too, and the one a
\* pending Set holds is mapped nowhere, closed nowhere and held by no
\* other pending Set.
IInv ==
    /\ TypeOK
    /\ ClosedNeverMapped
    /\ closed \subseteq opened
    /\ \A o \in Observers : Connections[o] # NoConn => Connections[o] \in opened
    /\ \A p \in Callers : Pending(p) =>
          /\ arg[p] \in [observer : Observers, conn : Conns]
          /\ arg[p].conn \in opened \ closed
          /\ \A o \in Observers : Connections[o] # arg[p].conn
          /\ \A q \in Callers \ {p} : Pending(q) => arg[q].conn # arg[p].conn

LEMMA InitIInv == Init => IInv
<1> USE ConnectionsAssumption
<1>1. (CHOOSE o \in Observers : TRUE) \in Args
  BY DEF Args
<1>. QED
  BY <1>1 DEF Init, IInv, TypeOK, ClosedNeverMapped, Pending, Phases

LEMMA StepIInv == IInv /\ [Next]_vars => IInv'
<1> SUFFICES ASSUME IInv, [Next]_vars PROVE IInv'
  OBVIOUS
<1> USE ConnectionsAssumption
<1>1. ASSUME NEW p \in Callers, Call(p) PROVE IInv'
  <2>1. CASE \E op \in Ops \cap {"Get", "DeleteByObserver"}, o \in Observers :
               /\ pc' = [pc EXCEPT ![p] = op]
               /\ arg' = [arg EXCEPT ![p] = o]
               /\ UNCHANGED opened
    BY <1>1, <2>1 DEF Call, IInv, TypeOK, ClosedNeverMapped, Pending, Phases, Args
  <2>2. CASE "DeleteByRemoteHost" \in Ops /\ \E h \in Hosts :
               /\ pc' = [pc EXCEPT ![p] = "DeleteByRemoteHost"]
               /\ arg' = [arg EXCEPT ![p] = h]
               /\ UNCHANGED opened
    BY <1>1, <2>2 DEF Call, IInv, TypeOK, ClosedNeverMapped, Pending, Phases, Args
  <2>3. CASE "Set" \in Ops /\ \E o \in Observers, c \in Conns \ opened :
               /\ pc' = [pc EXCEPT ![p] = "Set"]
               /\ arg' = [arg EXCEPT ![p] = [observer |-> o, conn |-> c]]
               /\ opened' = opened \cup {c}
    BY <1>1, <2>3 DEF Call, IInv, TypeOK, ClosedNeverMapped, Pending, Phases, Args
  <2>. QED
    BY <1>1, <2>1, <2>2, <2>3 DEF Call
<1>2. ASSUME NEW p \in Callers, Get(p) PROVE IInv'
  BY <1>2 DEF Get, IInv, TypeOK, ClosedNeverMapped, Pending, Phases
<1>3. ASSUME NEW p \in Callers, Set(p) PROVE IInv'
  BY <1>3 DEF Set, IInv, TypeOK, ClosedNeverMapped, Pending, Phases
<1>4. ASSUME NEW p \in Callers, DeleteByObserverLock(p) PROVE IInv'
  BY <1>4 DEF DeleteByObserverLock, IInv, TypeOK, ClosedNeverMapped, Pending, Phases
<1>5. ASSUME NEW p \in Callers, DeleteByRemoteHost(p) PROVE IInv'
  BY <1>5 DEF DeleteByRemoteHost, EntriesOfHost, IInv, TypeOK, ClosedNeverMapped,
              Pending, Phases
<1>6. CASE UNCHANGED vars
  BY <1>6 DEF vars, IInv, TypeOK, ClosedNeverMapped, Pending
<1>. QED
  BY <1>1, <1>2, <1>3, <1>4, <1>5, <1>6 DEF Next, Method

\* The connections map is well typed, and a connection that Close was
\* called on (by DeleteByRemoteHost) is never found in it again: in every
\* behaviour, with any numbers of callers, observers and connections.
THEOREM ClosedConnectionsUnreachable == Spec => []ClosedNeverMapped
<1>1. IInv => ClosedNeverMapped
  BY DEF IInv
<1>. QED
  BY <1>1, InitIInv, StepIInv, PTL DEF Spec

\* The connections map is well typed in every reachable state.
THEOREM TypeCorrect == Spec => []TypeOK
<1>1. IInv => TypeOK
  BY DEF IInv
<1>. QED
  BY <1>1, InitIInv, StepIInv, PTL DEF Spec
=============================================================================
