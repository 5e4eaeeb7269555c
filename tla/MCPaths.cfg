CONSTANTS
    MaxDepth = 4
    Mounted = {"m"}
    Inodes <- Numbers
    p1 = p1
    p2 = p2
    Procs = {p1, p2}
    Calls <- AllCalls
    Trees <- AllTrees
    Contents <- Blocks
    Saved <- NewBlocks
    Searches <- AllSearches
    Hidden = {"l"}
    Strings <- AllStrings
    Others <- SomeStrings
    Extensions <- SomeExtensions
    MaxLength = 7
SPECIFICATION PathSpec
INVARIANTS
    MoveNeverLoses
    CopyFaithful
    PeersAgree
    SearchComplete
    NormalForm
PROPERTIES
    AllEnd
    NamesRelate
CHECK_DEADLOCK FALSE
