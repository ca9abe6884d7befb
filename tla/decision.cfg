SPECIFICATION Spec
CONSTANTS
    Requests <- DecisionRequests
    MaxAssertDepth = 2
CHECK_DEADLOCK FALSE
INVARIANTS
    ApproveIsVouched
    DenialIsExplained
    EnforcedRulesDecide
    EvidenceOnlyLiftsReview
    OneWriterNarrowest
    AnswersSurviveFacts
