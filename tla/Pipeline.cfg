\* Uploads from their reports to a validated plan.
SPECIFICATION Spec
CONSTANTS
    Token = {"t1", "t2", "t3"}
    Small = {"41", "42", "43", "44"}
    Placeholder = {"string", "guid"}
    Word = {"alpha", "beta"}
    Suspicious = {"string"}
    IdNames = {"orderId"}
    SecretNames = {"authorization", "password"}
    Unsent = {"host"}
    Generic = {"id"}
    Capture <- MCCaptures
    Outcome <- MCOutcomes
INVARIANTS
    AlignmentIsSymmetric
    NoConsumerIsLost
    AutoCoversCandidates
    EnabledConsumersDrawnOnce
    ReplaySendsTheCapture
    ValidatedMeansCorrelated
\* An upload whose plan was validated has nothing left to do.
CHECK_DEADLOCK FALSE
