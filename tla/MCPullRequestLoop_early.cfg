CONSTANTS
    N = 3
    Plans <- MCPlans
    TurnCause <- MCTurnCause

SPECIFICATION LoopSpec

PROPERTY RepairHasCurrentEvidence

CHECK_DEADLOCK FALSE
