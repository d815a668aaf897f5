SPECIFICATION FairSpec
CONSTANTS
    w1 = w1
    w2 = w2
    f1 = f1
    f2 = f2
    Watchers <- MCWatchers
    Broken = {w2}
    Arrivals <- MCArrivals
    NameOf <- MCNames
    Handlers = {h1, h2}
    MaxChanges = 2
    MaxFailures = 1
    MaxStops = 1
INVARIANTS
    FileCustody
    DiskIsCurrent
PROPERTIES
    FilesFinish
CHECK_DEADLOCK FALSE
