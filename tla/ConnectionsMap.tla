--------------------------- MODULE ConnectionsMap ---------------------------
(***************************************************************************)
(* The map from observers to their connections, shared under one mutex by *)
(* the goroutines of the transport (src/core/network/communicator/         *)
(* observers/connections.go).  Each caller goroutine invokes one method at *)
(* a time; a method body runs while its caller holds the mutex, so what    *)
(* the model keeps of it is when the lock is taken and by whom.  The       *)
(* wrapper's writer and LastUsed timestamp are left out; a connection is a *)
(* model value and its remote host a constant function of it.             *)
(***************************************************************************)
EXTENDS Naturals, FiniteSets

CONSTANTS
    Callers,     \* goroutines calling the map
    Observers,   \* *external.Observer keys
    Conns,       \* net.Conn values, each a fresh connection
    Hosts,       \* remote host components
    ConnHost,    \* ConnHost[c]: host part of c.RemoteAddr()
    Ops,         \* the methods the callers invoke
    NoCaller,    \* the mutex is free
    NoConn       \* no entry in the map

ASSUME ConnectionsAssumption ==
    /\ Observers # {}
    /\ ConnHost \in [Conns -> Hosts]
    /\ Ops \subseteq {"Get", "Set", "DeleteByObserver", "DeleteByRemoteHost"}
    /\ NoCaller \notin Callers
    /\ NoConn \notin Conns

\* A call in progress: the method, or the Get that DeleteByObserver makes.
Phases == {"idle", "DeleteByObserver.Get"} \cup Ops

VARIABLES
    Connections,  \* ConnectionsMap.Connections
    mutex,        \* the goroutine holding ConnectionsMap.mutex
    opened,       \* the connections created for a Set so far
    closed,       \* the connections Close has been called on
    pc,           \* the method each caller is in
    arg           \* its argument: an observer, a host or an [observer, conn]

vars == <<Connections, mutex, opened, closed, pc, arg>>

Args == Observers \cup Hosts \cup [observer : Observers, conn : Conns]

TypeOK ==
    /\ Connections \in [Observers -> Conns \cup {NoConn}]
    /\ mutex \in Callers \cup {NoCaller}
    /\ opened \subseteq Conns
    /\ closed \subseteq Conns
    /\ pc \in [Callers -> Phases]
    /\ arg \in [Callers -> Args]

\* NewConnectionsMap: an empty map (the auto-cleaner is commented out).
Init ==
    /\ Connections = [o \in Observers |-> NoConn]
    /\ mutex = NoCaller
    /\ opened = {}
    /\ closed = {}
    /\ pc = [p \in Callers |-> "idle"]
    /\ arg = [p \in Callers |-> CHOOSE o \in Observers : TRUE]

\* The entries whose connection has the given remote host.
EntriesOfHost(h) ==
    {o \in Observers : Connections[o] # NoConn /\ ConnHost[Connections[o]] = h}

-----------------------------------------------------------------------------
(* A caller invokes a method; Set is given a connection not seen before.   *)

Call(p) ==
    /\ pc[p] = "idle"
    /\ \/ \E op \in Ops \cap {"Get", "DeleteByObserver"}, o \in Observers :
              /\ pc' = [pc EXCEPT ![p] = op]
              /\ arg' = [arg EXCEPT ![p] = o]
              /\ UNCHANGED opened
       \/ "DeleteByRemoteHost" \in Ops /\ \E h \in Hosts :
              /\ pc' = [pc EXCEPT ![p] = "DeleteByRemoteHost"]
              /\ arg' = [arg EXCEPT ![p] = h]
              /\ UNCHANGED opened
       \/ "Set" \in Ops /\ \E o \in Observers, c \in Conns \ opened :
              /\ pc' = [pc EXCEPT ![p] = "Set"]
              /\ arg' = [arg EXCEPT ![p] = [observer |-> o, conn |-> c]]
              /\ opened' = opened \cup {c}
    /\ UNCHANGED <<Connections, mutex, closed>>

-----------------------------------------------------------------------------
(* The methods.  Lock blocks while another goroutine holds the mutex; the  *)
(* deferred Unlock releases it when the body returns.                      *)

\* Get: looks the observer up (refreshing LastUsed), ErrNoObserver if absent.
Get(p) ==
    /\ pc[p] = "Get"
    /\ mutex = NoCaller
    /\ pc' = [pc EXCEPT ![p] = "idle"]
    /\ UNCHANGED <<Connections, mutex, opened, closed, arg>>

\* Set: installs a new wrapper, replacing (and not closing) a present one.
Set(p) ==
    /\ pc[p] = "Set"
    /\ mutex = NoCaller
    /\ Connections' = [Connections EXCEPT ![arg[p].observer] = arg[p].conn]
    /\ pc' = [pc EXCEPT ![p] = "idle"]
    /\ UNCHANGED <<mutex, opened, closed, arg>>

\* DeleteByObserver takes the mutex and then calls cm.Get ...
DeleteByObserverLock(p) ==
    /\ pc[p] = "DeleteByObserver"
    /\ mutex = NoCaller
    /\ mutex' = p
    /\ pc' = [pc EXCEPT ![p] = "DeleteByObserver.Get"]
    /\ UNCHANGED <<Connections, opened, closed, arg>>

\* ... whose Lock waits for the mutex to be free.  sync.Mutex is not
\* reentrant and the caller itself holds it, so this Get never takes it:
\* the Close and delete after it have no step in the model.

\* Mutant: the matching connections are closed but left in the map.
DeleteByRemoteHostCloseOnly(p) ==
    /\ pc[p] = "DeleteByRemoteHost"
    /\ mutex = NoCaller
    /\ closed' = closed \cup {Connections[o] : o \in EntriesOfHost(arg[p])}
    /\ pc' = [pc EXCEPT ![p] = "idle"]
    /\ UNCHANGED <<Connections, mutex, opened, arg>>

\* DeleteByRemoteHost: collects the entries whose remote host matches,
\* then closes and deletes each of them.
DeleteByRemoteHost(p) ==
    /\ pc[p] = "DeleteByRemoteHost"
    /\ mutex = NoCaller
    /\ Connections' = [o \in Observers |->
                          IF o \in EntriesOfHost(arg[p]) THEN NoConn ELSE Connections[o]]
    /\ closed' = closed \cup {Connections[o] : o \in EntriesOfHost(arg[p])}
    /\ pc' = [pc EXCEPT ![p] = "idle"]
    /\ UNCHANGED <<mutex, opened, arg>>

\* The steps a caller takes inside a method.
Method(p) ==
    \/ Get(p) \/ Set(p) \/ DeleteByObserverLock(p) \/ DeleteByRemoteHost(p)

Next == \E p \in Callers : Call(p) \/ Method(p)

\* sync.Mutex hands the lock to a goroutine that has waited over a
\* millisecond (starvation mode), so a caller that keeps waiting for a
\* free mutex gets it: strong fairness of the methods.  A caller invokes a
\* method when it wants to; no fairness on Call.
Spec == Init /\ [][Next]_vars /\ \A p \in Callers : SF_vars(Method(p))

-----------------------------------------------------------------------------
(* Properties.                                                             *)

\* A connection is never reachable in the map after it was closed: the
\* deletes of DeleteByObserver and DeleteByRemoteHost remove every entry
\* whose socket they close, also when several observers share the host.
ClosedNeverMapped ==
    \A o \in Observers : Connections[o] \notin closed

\* Every method call returns: no goroutine waits forever on the mutex.
CallsReturn ==
    \A p \in Callers : pc[p] # "idle" ~> pc[p] = "idle"
=============================================================================
