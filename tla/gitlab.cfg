SPECIFICATION Spec
CONSTANTS
    h1 = h1
    h2 = h2
    r1 = r1
    r2 = r2
    Heads = {h1, h2}
    Targets = {t1, t2}
    NoSHA = NoSHA
    Author = author
    Bot = bot
    Reviewers = {r1, r2}
    Diff <- MCDiff
    DiffLimit = 2
    CountCap = 3
    RuleSets <- MCRules
    PerPage = 2
    MaxListPages = 2
    MaxCalls = 3
    MaxMoves = 2
SYMMETRY Symmetry
CHECK_DEADLOCK FALSE
INVARIANTS
    ReadsFollowThePin
    EnumerationIsWhole
    EvidenceIsForThePins
