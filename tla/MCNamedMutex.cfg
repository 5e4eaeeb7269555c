CONSTANTS
    p1 = p1
    p2 = p2
    p3 = p3
    Absent = Absent
    Processes <- ThreeProcesses
    Mortal <- ThreeProcesses
SPECIFICATION FairUseSpec
INVARIANTS
    MutualExclusion
    NeverStuck
PROPERTIES
    LockReturns
CHECK_DEADLOCK FALSE
