SPECIFICATION Spec
CONSTANTS
    h1 = h1
    h2 = h2
    Heads = {h1, h2}
    Bases = {b1, b2}
    NoSHA = NoSHA
    NoPath = NoPath
    Diff <- MCDiff
    Holds <- MCHolds
    TopSHA = TRUE
    PerPage = 2
    MaxListPages = 2
    PullFilesCap = 5
    MaxCalls = 3
    MaxMoves = 2
SYMMETRY Symmetry
CHECK_DEADLOCK FALSE
INVARIANTS
    
    AbsentIsAbsent
    CompleteListsAll
    MergeIsPinned
