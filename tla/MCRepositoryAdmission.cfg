CONSTANTS
    r1 = r1  r2 = r2  r3 = r3
    s1 = s1  s2 = s2
    Run <- MCRun
    Session <- MCSession
    NoClaim = NoClaim
    Unreadable = Unreadable
    Nobody = Nobody
SYMMETRY Symmetry
SPECIFICATION Spec
INVARIANTS
    TypeOK
    AtMostOneExecutes
PROPERTY ImplementsExclusiveExecution
CHECK_DEADLOCK FALSE
