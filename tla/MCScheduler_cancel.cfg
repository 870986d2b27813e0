CONSTANTS
    Jobs <- MCJobs
    Customers <- MCCustomers
    CustomerOf <- MCCustomerOf
    BufferSize = 1
SPECIFICATION FairSpec
PROPERTIES
    CancelClosesOutput
CHECK_DEADLOCK FALSE
