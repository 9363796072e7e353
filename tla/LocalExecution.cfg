\* Two jobs of one owner, one thread, docker kills that fail or come too early.
SPECIFICATION FairSpec
CONSTANTS
    o1 = o1  j1 = j1  j2 = j2
    Owner = {o1}
    Key = {}
    NoKey = NoKey
    JobId = {j1, j2}
    NoJob = NoJob
    Analysis = {j1, j2}
    NoAnalysis = NoAnalysis
    Ttl = 0
    StaleClaim = 0
    MaxActive = 2
    Window = 0
    PoolSize = 1
    Failures = TRUE
    MaxTime = 1
INVARIANTS
    NoContainerLeft
    SuccessIsComplete
    ReadyHasAnalysis
PROPERTIES
    ImplementsLifecycle
    JobsSettle
CHECK_DEADLOCK FALSE
