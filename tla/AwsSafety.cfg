\* One job that expires, two worker tasks that may die, two polls.
SPECIFICATION Spec
CONSTANTS
    o1 = o1
    j1 = j1
    w1 = w1
    w2 = w2
    p1 = p1
    p2 = p2
    Owner = {o1}
    Key = {}
    NoKey = NoKey
    Analysis = {p1, p2}
    NoAnalysis = NoAnalysis
    Ttl = 1
    StaleClaim = 0
    JobId = {j1}
    NoJob = NoJob
    MaxActive = 1
    Window = 0
    Worker = {w1, w2}
    Poll = {p1, p2}
    MaxReceive = 2
    MaxCrashes = 2
    MaxRestarts = 0
    MaxTime = 2
    Duplicates = FALSE
    DeletesFail = FALSE
SYMMETRY Symmetry
INVARIANTS
    RunsAreCounted
    ReadyHasAnalysis
    ReportsKeptForFinalizer
    MaterialHasOwner
    LiveWorkersSettle
PROPERTY
    ImplementsLifecycle
CHECK_DEADLOCK FALSE
