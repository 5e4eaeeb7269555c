CONSTANTS
    c1 = c1
    c2 = c2
    j1 = j1
    j2 = j2
    j3 = j3
    Requested = 2
    Hardware = 2
    Clients <- TwoClients
    Owner = c1
    Jobs <- TwoJobs
    NoJob = NoJob
    Reuse = TRUE
    AllocMayFail = FALSE
SPECIFICATION FairSpec
PROPERTIES
    CallsTerminate
    PoolSettles
