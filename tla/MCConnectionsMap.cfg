\* Two callers invoking every method, DeleteByObserver included.
CONSTANTS
    p1 = p1
    p2 = p2
    a = a
    b = b
    c1 = c1
    c2 = c2
    c3 = c3
    h1 = h1
    h2 = h2
    NoCaller = NoCaller
    NoConn = NoConn
    Callers <- MCCallers
    Observers <- MCObservers
    Conns <- MCConns
    Hosts <- MCHosts
    ConnHost <- MCConnHost
    Ops <- MCAllOps
SPECIFICATION Spec
INVARIANT ClosedNeverMapped
\* A DeleteByObserver holds the mutex forever, after which no method can
\* run: the system really stops there.
CHECK_DEADLOCK FALSE
