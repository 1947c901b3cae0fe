CONSTANTS
    builder = builder  checker = checker
    Item = {builder, checker}
    Checker = {checker}
    Hosted = {builder}
    MaxTurn = 1
    Stalls = FALSE
SPECIFICATION Spec
INVARIANTS
    TypeOK
    BuildersNeverOverlap
    ArchivesOutliveWork
    SealIsFaithful
PROPERTY DispatchEnds
CHECK_DEADLOCK FALSE
