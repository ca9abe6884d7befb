SPECIFICATION Spec
CONSTANTS
    Publishers = {p1}
    Slots = {s1}
    Occurrences = {o1, o2}
    Decisions = {d1, d2}
    Shas = {a, m}
    MergedTip = m
    Nil = Nil
    Requests <- SerialRequests
    Serialized = TRUE
    AtomicMerge = TRUE
    NumericIds = TRUE
    MaxRuns = 4
    MaxFaults = 1
    MaxReviews = 2
    MaxPushes = 1
    MaxCorruptions = 1
CHECK_DEADLOCK FALSE
SYMMETRY Symmetry
INVARIANTS
    TypeOK
    OneThreadPerKey
    UndisturbedRunSucceeds
    SettledMatchesDesired
    ReceiptIsHonest
