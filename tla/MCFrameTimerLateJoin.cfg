\* An observer started after a peer finished synchronising, over an
\* instantaneous transport: it adopts a frame schedule that disagrees.
CONSTANTS
    o1 = o1
    o2 = o2
    o3 = o3
    Observers <- MCObserversPair
    ObserversMaxCount = 3
    Interval = 4
    SyncTimeout = 2
    MinExchangeTimeout = 1
    MinuteLength = 60
    Latency = 0
    StartBy = 8
    MaxTime = 14
    U64 = 256
    Tolerance = 1
    ConnectionsMayDrop = FALSE
SPECIFICATION Spec
INVARIANT FramesAligned
\* The clock stops at the horizon MaxTime; every behaviour ends there.
CHECK_DEADLOCK FALSE
