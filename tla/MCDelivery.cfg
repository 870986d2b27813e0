CONSTANTS
    Deliveries = {d1, d2}
    Environments <- MCEnvironments
    StatusCodes = {204, 301, 429, 499, 500, 599, 600}
    DurationBits = 13
SPECIFICATION Spec
SYMMETRY Symmetry
INVARIANTS
    
    BackoffDoubles
    CountersAgree
    ReportCoversFailures

    
