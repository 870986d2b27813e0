CONSTANTS
    Requests = {r1, r2}
    Orders <- MCOrders
    DefaultCustomerCount = 1
    DefaultEventsPerCustomer = 1
    WhaleCounts <- MCWhaleCounts
    MixedCounts = {2, 3}
    Nobody = Nobody
SPECIFICATION FairSpec
INVARIANTS
    SequenceIsShared
    AcceptedIsPublished
PROPERTIES
    StuckOnlyAfterRace
    SignalEndsServer
CHECK_DEADLOCK FALSE
