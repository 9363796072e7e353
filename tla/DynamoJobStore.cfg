\* Two callers, two jobs, one idempotency key, a cap of one.
SPECIFICATION Spec
CONSTANTS
    o1 = o1
    k1 = k1
    j1 = j1
    j2 = j2
    c1 = c1
    c2 = c2
    a1 = a1
    Owner = {o1}
    Key = {k1}
    NoKey = NoKey
    Analysis = {a1}
    NoAnalysis = NoAnalysis
    Ttl = 0
    StaleClaim = 1
    JobId = {j1, j2}
    NoJob = NoJob
    MaxActive = 1
    Window = 0
    Client = {c1, c2}
    Fns <- MCFns
    NoFn = NoFn
    NoRecord = NoRecord
    MaxAttempts = 2
    TtlGrace = 1
    Conflicts = TRUE
    MaxTime = 2
    MaxVersion = 2
SYMMETRY Symmetry
INVARIANTS
    CapHolds
PROPERTIES
    ImplementsJobStore
    EvictionSparesDrivenJobs
    SlotsLeakOnlyByExpiry
CHECK_DEADLOCK FALSE
