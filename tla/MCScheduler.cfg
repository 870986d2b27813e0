CONSTANTS
    Jobs <- MCJobs
    Customers <- MCCustomers
    CustomerOf <- MCCustomerOf
    BufferSize = 1
SPECIFICATION FairSpec
INVARIANTS
    RotationMatchesQueues
    DepthCountsQueuedJobs
    BoundedBypass
PROPERTIES
    ImplementsJobPool
    NoJobStarves
    CloseClosesOutput
CHECK_DEADLOCK FALSE
