SPECIFICATION Spec
CONSTANTS
    NRec = 4
    Workers = {w1, w2}
    Slots = 2
    MaxForeign = 1
    ErrorPolicies = {TRUE, FALSE}
    RateLimited = TRUE
    Buffered = TRUE
    Faults = {"cancel", "read", "call", "write", "close"}
SYMMETRY Symmetry
INVARIANTS
    AllAccounted
    OkVerdict
    QuiescentReturn
    SlotAccounting
PROPERTIES
    ImplementsDelivery
