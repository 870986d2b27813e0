CONSTANTS
    Requests = {"r1", "r2"}
    Bodies <- MCBodies
    Malformed = Malformed
    Customers = {"a", "b"}
    Urls = {"u1", "u2"}
    MaxRegistryChanges = 2
    MaxDatabaseErrors = 2
SPECIFICATION Spec
INVARIANTS
    AcceptedIsStored
    StoredAsResolved
    CounterCoversStored
CHECK_DEADLOCK FALSE
