CONSTANTS
    r1 = r1
    r2 = r2
    Run = {r1, r2}
    MaxConcurrent = 1
    MaxIterations = 2
    MaxRounds = 3

SPECIFICATION LifecycleSpec

PROPERTY CheckpointIsCurrent

CHECK_DEADLOCK FALSE
