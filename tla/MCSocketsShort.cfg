CONSTANTS
    main = main
    other = other
    c1 = c1
    c2 = c2
    k1 = k1
    k2 = k2
    Server = Server
    NoOne = NoOne
    Threads <- TwoThreads
    Clients <- TwoClients
    SetUser = main
    Handles = {1, 2, 3}
    Conns <- TwoConns
    Message = 2
    MaxWrites = 2
    MaxArrived = 8
    Room = 3
    SizeMod = 16
    MaxMembers = 2
    Scenes <- OneWriter
SPECIFICATION Spec
INVARIANT WriteDelivers
