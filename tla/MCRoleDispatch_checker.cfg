CONSTANTS
    builder = builder  checker = checker
    Item = {checker}
    Checker = {checker}
    Hosted = {}
    MaxTurn = 2
    Stalls = FALSE
SPECIFICATION Spec
INVARIANT NoRoleOverlaps
CHECK_DEADLOCK FALSE
