CONSTANTS
    c1 = c1
    c2 = c2
    j1 = j1
    j2 = j2
    j3 = j3
    Requested = 0
    Hardware = 2
    Clients <- TwoClients
    Owner = c1
    Jobs <- ThreeJobs
    NoJob = NoJob
    Reuse = TRUE
    AllocMayFail = TRUE
SPECIFICATION Spec
SYMMETRY AnyJob
INVARIANTS
    JobsAccounted
    DrainedAtExit
PROPERTIES
    WaitReturnsQuiet
