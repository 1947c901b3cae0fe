CONSTANTS
    r1 = r1
    r2 = r2
    Run = {r1, r2}
    MaxConcurrent = 1
    MaxIterations = 2
    MaxRounds = 3
SPECIFICATION LifecycleSpec
INVARIANTS
    TypeOK
    ReleasedMeansOver
    RecordIsHonest
    AtMostMaxConcurrent
PROPERTIES
    VerdictStands
    WorkerAlwaysEnds
CHECK_DEADLOCK FALSE
