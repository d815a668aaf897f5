SPECIFICATION FairSpec
CONSTANTS
    NRec = 5
    Workers = {w1}
    Slots = 2
    MaxForeign = 1
    ErrorPolicies = {TRUE, FALSE}
    RateLimited = FALSE
    Buffered = FALSE
    Faults = {"cancel", "read", "call", "write"}
PROPERTIES
    Returns
CHECK_DEADLOCK FALSE
