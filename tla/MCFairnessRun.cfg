CONSTANTS
    Jobs <- MCJobs
    Customers <- MCCustomers
    CustomerOf <- MCCustomerOf
    BufferSize = 5
    Workers = {w1, w2}
    ClaimBatchSize = 4
    ScheduledQueueLimit = 4
    EarlyCompletionWindow = 2
    AppBufferSize = 1
    CustomerSegments <- MCCustomerSegments
SPECIFICATION FairRunSpec
INVARIANTS
    SummaryIsComplete
    FirstFinishIsNearlyFirst
    StartIsFair
    VerdictIsSound
PROPERTIES
    ScenarioReturns
CHECK_DEADLOCK FALSE
