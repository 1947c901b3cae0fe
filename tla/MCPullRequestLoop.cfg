CONSTANTS
    N = 3
    Plans <- MCPlans
    TurnCause <- MCTurnCause
SPECIFICATION LoopSpec
INVARIANTS
    TypeOK
    MergedWasProven
    PassedMeansProven
    CheckIsDue
    BoundedWork
PROPERTIES
    ImplementsProvenDelivery
    RunSettles
CHECK_DEADLOCK FALSE
