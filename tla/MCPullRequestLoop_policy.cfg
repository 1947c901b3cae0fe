CONSTANTS
    N = 3
    Plans <- MCPlans
    TurnCause <- MCTurnCause

SPECIFICATION LoopSpec

INVARIANT PassedMeansOpen

CHECK_DEADLOCK FALSE
