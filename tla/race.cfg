SPECIFICATION FairSpec
CONSTANTS
    Publishers = {p1, p2}
    Slots = {s1}
    Occurrences = {o1}
    Decisions = {d1}
    Shas = {a, b, m}
    MergedTip = m
    Nil = Nil
    Requests <- ContestedRequests
    Serialized = FALSE
    AtomicMerge = FALSE
    NumericIds = TRUE
    MaxRuns = 4
    MaxFaults = 1
    MaxReviews = 0
    MaxPushes = 1
    MaxCorruptions = 0
CHECK_DEADLOCK FALSE
INVARIANTS
    
    MergedSourceWasEvaluated
    RefusalHidesNoMerge
    
PROPERTIES
    EveryRunEnds
