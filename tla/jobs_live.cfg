SPECIFICATION FairSpec
CONSTANTS
    Jobs = {j1}
    Watched = {j1}
    Clients = {c1}
    MaxProgress = 1
    MaxFailures = 1
    MaxStops = 1
PROPERTIES
    WaitsEnd
