SPECIFICATION Spec
CONSTANTS
    Rules <- MCRules
    Proves <- MCProves
    Threshold = 3
    Gates <- MCGates
    Worlds <- MCWorlds
CHECK_DEADLOCK FALSE
INVARIANTS
    PassHidesNoDifference
    DroppedInterventionWasAccepted
