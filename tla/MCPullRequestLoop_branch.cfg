CONSTANTS
    N = 3
    Plans <- MCPlans
    TurnCause <- MCTurnCause

SPECIFICATION LoopSpec

INVARIANT MergedOnCurrentBranch

CHECK_DEADLOCK FALSE
