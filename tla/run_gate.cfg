SPECIFICATION FairRunSpec
CONSTANTS
    Publishers = {p1}
    a = a
    b = b
    Shas = {a, b, m}
    MergedTip = m
    Nil = Nil
    Slots <- RunSlots
    Occurrences = {a, b, m}
    Decisions <- Record
    Requests <- RunRequests
    SelfEdit <- BadSelfEdit
    Acceptable <- AcceptA
    Granting <- OnlyA
    HeadsReturn = FALSE
    Serialized = TRUE
    AtomicMerge = TRUE
    NumericIds = TRUE
    MaxRuns = 3
    MaxFaults = 1
    MaxReviews = 1
    MaxPushes = 2
    MaxCorruptions = 0
CHECK_DEADLOCK FALSE
INVARIANTS
    NoWriteWithoutRecord
    
    WritesFollowDecision
    ReviewIsPosted
PROPERTIES
    
    EveryJobExits
