CONSTANTS
    Workers = {w1, w2, w3}
    BufferSize = 1
    MaxRequests = 2
    Failures = {"startup", "listen", "claim", "close"}
SPECIFICATION FairSpec
INVARIANTS
    NilReturnIsComplete
    HandlersKeepDatabase
PROPERTIES
    ImplementsProcessLife
    FailureEndsRun
    ShutdownWithoutWorkersReturns
CHECK_DEADLOCK FALSE
