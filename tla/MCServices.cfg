CONSTANTS
    event = event  another = another
    Event = {event, another}
    delivery1 = delivery1  delivery2 = delivery2
    Delivery = {delivery1, delivery2}
    MaxJob = 2
    MaxWork = 2  Cap = 3  IdleLimit = 2
    MaxSnapshot = 3
    Watcher = {w1, w2}
    MaxAttempt = 2  MaxOutput = 3  MaxSize = 2
    MaxTurn = 3
    Call = {c1, c2}
    MaxLedger = 1
    session1 = session1  session2 = session2
    SessionId = {session1, session2}
    MaxShell = 2  MaxPiece = 2  Retained = 1
    Descriptor = {f1, f2}
    MaxDirs = 0
    Receiver = {h1, h2}
    MaxProcess = 3  MaxSetup = 2
SPECIFICATION ServicesSpec
INVARIANTS
    ServicesTypeOK
    LedgerIsHonest
    DeliveryIsHonest
    BusyForBuilds
    RouteIsSafe
    TerminalIsShared
    ShellsAreFollowed
    AppIsKept
PROPERTY NoBuildAfterStop
CHECK_DEADLOCK FALSE
