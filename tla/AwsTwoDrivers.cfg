\* A second delivery meets a claim that DynamoDB refused once.
SPECIFICATION Spec
CONSTANTS
    o1 = o1
    j1 = j1
    w1 = w1
    w2 = w2
    p1 = p1
    p2 = p2
    Owner = {o1}
    Key = {}
    NoKey = NoKey
    Analysis = {}
    NoAnalysis = NoAnalysis
    Ttl = 1
    StaleClaim = 0
    JobId = {j1}
    NoJob = NoJob
    MaxActive = 1
    Window = 0
    Worker = {w1, w2}
    Poll = {}
    MaxReceive = 3
    MaxCrashes = 0
    MaxRestarts = 0
    MaxTime = 0
    Duplicates = TRUE
    DeletesFail = FALSE
INVARIANT
    OneDriver
CHECK_DEADLOCK FALSE
