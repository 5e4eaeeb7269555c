CONSTANTS
    a = a
    b = b
    Chans <- TwoChans
    SyncSets <- NoneSync
    Address <- InOrder
    NoChan = NoChan
    MaxMessages = 1
    MaxAdds = 2
    MayDestroy <- AsyncOnly
SPECIFICATION Spec
INVARIANT DestroyedIsDropped
CHECK_DEADLOCK FALSE
