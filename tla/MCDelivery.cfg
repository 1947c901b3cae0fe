CONSTANTS
    MaxRun = 2  MaxTime = 3  StaleAfter = 1  Slack = 1  Skew = 1  Keep = 1  MaxFault = 1
    Roster <- MCRoster
    MaxEdit = 2
    MaxVersion = 2  Attempts = 2  MaxVisit = 1
    Budget = 1
    readme = readme  index = index  bundle = bundle
    Artifact = {readme, index, bundle}  Changed = {readme}  entry = index
    Sizes = {1, 9}  MaxFiles = 3  MaxChars = 3
    run1 = run1  run2 = run2  run3 = run3
    Composer = {run1, run2, run3}  Local = {run1, run2}  NoComposer = NoComposer
    Deployer = {1, 2}
    MaxOperation = 3
    MaxSession = 3
    Retries = 2
SPECIFICATION DeliverySpec
INVARIANTS
    DeliveryTypeOK
    ReadsAreHonest
    WorkLandsWhole
    MergedIsReviewed
    ReportsAreTrue
    ReviewIsFounded
    EvidenceIsOwn
    OutcomesAreOwn
    CollectedIsPushed
PROPERTY SeenCommitsAreKept
CHECK_DEADLOCK FALSE
