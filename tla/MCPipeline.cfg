CONSTANTS
    Nobody = Nobody
    Rows <- MCRows
    Owners = {n1}
    ClaimBatchSize = 2
    MaxUrlsPerEvent = 2
    WorkerCount = 1
    ScheduledQueueLimitFactor = 1
    BufferSize = 1
    MaxRetryAttempts = 1
    NextDelay <- MCNextDelay
    FaultKinds = {}
    MaxFaults = 0
    Requests = {"r1"}
    Bodies <- MCBodies
    Malformed = Malformed
    Customers = {"a"}
    Urls = {"u1"}
    MaxRegistryChanges = 0
    MaxDatabaseErrors = 1
SPECIFICATION PipelineSpec
INVARIANTS
    DeadLettersAreEarned
    ClaimedHasJob
    ScheduledQueueBounded
PROPERTY
    EveryRequestSettles
CHECK_DEADLOCK FALSE
