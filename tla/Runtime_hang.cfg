CONSTANTS
    Workers = {w1, w2}
    BufferSize = 1
    MaxRequests = 0
    Failures = {}
SPECIFICATION FairSpec
PROPERTIES
    SignalEndsRun
CHECK_DEADLOCK FALSE
