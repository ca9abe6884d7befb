SPECIFICATION Spec
CONSTANTS
    Publishers = {p1, p2}
    Slots = {s1}
    Occurrences = {o1}
    Decisions = {d1}
    Shas = {a, m}
    MergedTip = m
    Nil = Nil
    Requests <- ContestedRequests
    Serialized = FALSE
    AtomicMerge = TRUE
    NumericIds = TRUE
    MaxRuns = 4
    MaxFaults = 0
    MaxReviews = 1
    MaxPushes = 0
    MaxCorruptions = 0
CHECK_DEADLOCK FALSE
INVARIANTS
    UndisturbedRunSucceeds
