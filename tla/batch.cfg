SPECIFICATION LiveSpec
CONSTANTS
    NRec = 5
    BatchSize = 2
    w1 = w1  w2 = w2
    Workers <- MCWorkers
    Pools <- MCPools
    ErrorPolicies = {TRUE, FALSE}
    Contracts = {TRUE, FALSE}
    Faults = {"cancel", "read", "write"}
INVARIANTS
    NothingLostInBatches
    StrictByPlace
    CleanEnd
PROPERTIES
    BatchDelivers
    BatchTermination
