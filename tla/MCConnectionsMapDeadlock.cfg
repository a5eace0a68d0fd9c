\* Two callers invoking every method: a DeleteByObserver never returns.
CONSTANTS
    p1 = p1
    p2 = p2
    a = a
    b = b
    c1 = c1
    c2 = c2
    c3 = c3
    h1 = h1
    h2 = h2
    NoCaller = NoCaller
    NoConn = NoConn
    Callers <- MCCallers
    Observers <- MCObservers
    Conns <- MCConns
    Hosts <- MCHosts
    ConnHost <- MCConnHost
    Ops <- MCAllOps
SPECIFICATION Spec
PROPERTY CallsReturn
CHECK_DEADLOCK FALSE
