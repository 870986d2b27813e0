CONSTANTS
    r1 = r1
    r2 = r2
    a = a
    b = b
    Webhooks <- MCWebhooks
    Resets = {q1}
    Customers = {a, b}
    CustomerOf <- MCCustomerOf
    Payloads = {a, b, Malformed}
    Malformed = Malformed
    Modes = {"success", "random"}
SPECIFICATION Spec
INVARIANTS
    CountedOnce
    ReportCoversAnswered
CHECK_DEADLOCK FALSE
