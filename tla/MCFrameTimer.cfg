\* Observers started within StartBy of each other over an instantaneous
\* transport, every request reaching its peers while they still collect:
\* the frame-end schedules agree within the start skew.
CONSTANTS
    o1 = o1
    o2 = o2
    o3 = o3
    Observers <- MCObserversTriple
    ObserversMaxCount = 3
    Interval = 4
    SyncTimeout = 2
    MinExchangeTimeout = 1
    MinuteLength = 6
    Latency = 0
    StartBy = 1
    MaxTime = 14
    U64 = 256
    Tolerance = 1
    ConnectionsMayDrop = TRUE
SPECIFICATION Spec
INVARIANT TypeOK
INVARIANT FramesAligned
INVARIANT TopFrameCollected
\* The clock stops at the horizon MaxTime; every behaviour ends there.
CHECK_DEADLOCK FALSE
