\* The same start as timer_aligned, but a message may spend one time unit
\* in flight: the schedules drift further apart than twice the delay.
CONSTANTS
    o1 = o1
    o2 = o2
    o3 = o3
    Observers <- MCObserversTriple
    ObserversMaxCount = 3
    Interval = 4
    SyncTimeout = 2
    MinExchangeTimeout = 1
    MinuteLength = 6
    Latency = 1
    StartBy = 1
    MaxTime = 14
    U64 = 256
    Tolerance = 2
    ConnectionsMayDrop = TRUE
SPECIFICATION Spec
INVARIANT FramesAligned
\* The clock stops at the horizon MaxTime; every behaviour ends there.
CHECK_DEADLOCK FALSE
