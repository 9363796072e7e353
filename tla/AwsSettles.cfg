\* A worker and the API die, deletions fail: jobs are settled.
SPECIFICATION FairSpec
CONSTANTS
    o1 = o1
    j1 = j1
    w1 = w1
    w2 = w2
    p1 = p1
    p2 = p2
    Owner = {o1}
    Key = {}
    NoKey = NoKey
    Analysis = {p1}
    NoAnalysis = NoAnalysis
    Ttl = 2
    StaleClaim = 0
    JobId = {j1}
    NoJob = NoJob
    MaxActive = 1
    Window = 0
    Worker = {w1, w2}
    Poll = {p1}
    MaxReceive = 3
    MaxCrashes = 1
    MaxRestarts = 1
    MaxTime = 1
    Duplicates = FALSE
    DeletesFail = TRUE
PROPERTIES
    StartedJobsSettle
    EnqueuedJobsSettle
CHECK_DEADLOCK FALSE
