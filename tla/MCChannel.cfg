CONSTANTS
    t1 = t1
    t2 = t2
    t3 = t3
    v1 = v1
    v2 = v2
    v3 = v3
    Threads <- ThreeThreads
    MaxWrites = 3
    Values <- ThreeValues
    NoValue = NoValue
    MaxBytes = 3
    MaxLen = 3
    Block = 2
    Waiters <- TwoThreads
    Flushers <- ThirdThread
    Closers <- ThirdThread
    Delta = 2
    Count = 3
    MaxTime = 6
    MaxCalls = 3
SPECIFICATION FairSpec
INVARIANTS
    NoLostWakeup
    Delivers
PROPERTIES
    ClosedForGood
    IsAStream
    TicksKept
    Releases
