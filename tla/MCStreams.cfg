CONSTANTS
    LF = "lf"
    CR = "cr"
    Nul = "nul"
    Block = 2
    Outputs <- Texts
    Uses = {"lines", "all", "close"}
    List <- TheList
    Usr1 = "sigusr1"
    MaxSent = 2
    block_size = 2
    small_block = 4
    PipeSize = 2
    Scripts <- TheScripts
    Readers = {"read_line", "fgets", "read_all", "reads"}
    Objects = {"a", "b"}
    Temps = {"t", "u"}
    LastNumber = 5
    Names = {"x", "y"}

SPECIFICATION Spec
INVARIANTS
    OutputWhole
    SignalsSafe
    TextWhole
    FilesOwned
PROPERTIES
    StatusOnce
    ProcessDrains
    SignalsServed
    StreamEnds
CHECK_DEADLOCK FALSE
