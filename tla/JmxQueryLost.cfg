\* A correlation into the query of a request with a body is not in the plan.
SPECIFICATION Spec
CONSTANTS
    Token = {"t1", "t2", "t3"}
    Small = {"41", "42", "43", "44"}
    Placeholder = {"string", "guid"}
    Word = {"alpha", "beta"}
    Suspicious = {"string"}
    IdNames = {"orderId"}
    SecretNames = {"authorization", "password"}
    Unsent = {"host"}
    Generic = {"id"}
    Capture <- MCCaptures
    Outcome <- MCOutcomes
INVARIANT
    MaterializedIsRendered
\* An upload whose plan was validated has nothing left to do.
CHECK_DEADLOCK FALSE
