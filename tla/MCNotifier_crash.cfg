CONSTANTS
    n1 = n1
    n2 = n2
    Nobody = Nobody
    Rows <- TwoRows
    Owners <- TwoProcesses
    ClaimBatchSize = 2
    MaxUrlsPerEvent = 2
    WorkerCount = 1
    ScheduledQueueLimitFactor = 1
    BufferSize = 1
    MaxRetryAttempts = 1
    NextDelay <- MCNextDelay
    FaultKinds = {"crash"}
    MaxFaults = 1
SPECIFICATION FairSpec
PROPERTY
    AtLeastOnce
CHECK_DEADLOCK FALSE
