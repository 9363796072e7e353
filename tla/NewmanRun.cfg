\* One run; calls of AWS may fail and the task may hang.
SPECIFICATION FairSpec
CONSTANTS
    StartTime = 1
    Timeout = 2
    Validity = 3
    Lapse = 1
    Failures = TRUE
INVARIANTS
    SuccessIsComplete
    SupervisedTaskIsServed
    EndsByDeadline
    NoTaskLeftRunning
PROPERTY
    RunEnds
CHECK_DEADLOCK FALSE
