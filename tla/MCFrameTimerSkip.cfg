\* A late observer's request reaches a running peer at the instant its
\* frame timer expires: the peer's loop may take the request first.
CONSTANTS
    o1 = o1
    o2 = o2
    o3 = o3
    Observers <- MCObserversPair
    ObserversMaxCount = 3
    Interval = 4
    SyncTimeout = 2
    MinExchangeTimeout = 1
    MinuteLength = 60
    Latency = 0
    StartBy = 8
    MaxTime = 14
    U64 = 256
    Tolerance = 1
    ConnectionsMayDrop = FALSE
SPECIFICATION Spec
PROPERTY NoFrameSkipped
\* The clock stops at the horizon MaxTime; every behaviour ends there.
CHECK_DEADLOCK FALSE
