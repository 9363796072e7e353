\* Three jobs of one owner and one idempotency key under a cap of two.
SPECIFICATION LockedSpec
CONSTANTS
    o1 = o1
    k1 = k1
    j1 = j1
    j2 = j2
    j3 = j3
    a1 = a1
    Owner = {o1}
    Key = {k1}
    NoKey = NoKey
    Analysis = {a1}
    NoAnalysis = NoAnalysis
    Ttl = 1
    StaleClaim = 1
    JobId = {j1, j2, j3}
    NoJob = NoJob
    MaxActive = 2
    Window = 0
    Fns <- MCFns
    MaxClock = 2
SYMMETRY Symmetry
PROPERTY
    ImplementsJobStore
CHECK_DEADLOCK FALSE
