SPECIFICATION Spec
CONSTANTS
    Jobs = {j1, j2}
    Watched = {}
    Clients = {c1}
    MaxProgress = 0
    MaxFailures = 1
    MaxStops = 1
SYMMETRY Symmetry
INVARIANTS
    UniqueIds
    RunningIsAlive
    DiskIsRecent
    Durable
    ExitIsClean
PROPERTIES
    FinalStaysFinal
