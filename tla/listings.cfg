SPECIFICATION Spec
CONSTANTS
    PerPage = 2
    MaxListPages = 2
    MaxAttempts = 2
    InitialBoards <- MCBoards
    MaxRows = 5
    MaxCalls = 2
    MaxEvents = 3
    MaxFaults = 2
CHECK_DEADLOCK FALSE
INVARIANTS
    ListingMissesNothing
    ReportedStateWasReal
    ExtraSummaryHasACause
