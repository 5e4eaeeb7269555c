CONSTANTS
    a = a
    b = b
    Chans <- TwoChans
    SyncSets <- AllOrNone
    Address <- InOrder
    NoChan = NoChan
    MaxMessages = 2
    MaxAdds = 2
    MayDestroy <- SyncOnly
SPECIFICATION FairSpec
INVARIANTS
    TasksSafe
    ResultPerAdd
PROPERTIES
    ErrorNotMasked
    StopQuiesces
    DispatchProgress
