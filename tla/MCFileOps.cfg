CONSTANTS
    MaxDepth = 4
    Mounted = {"m"}
    Inodes <- Numbers
    p1 = p1
    p2 = p2
    Procs = {p1, p2}
    Calls <- AllCalls
    Trees <- AllTrees
    Contents <- Blocks
    Saved <- NewBlocks
    Searches <- AllSearches
    Hidden = {"l"}
SPECIFICATION SearchSpec
INVARIANTS
    MoveKeepsData
CHECK_DEADLOCK FALSE
