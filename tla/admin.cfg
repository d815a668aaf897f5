SPECIFICATION FairSpec
CONSTANTS
    Texts <- MCTexts
    Startup = "plain"
    Config <- MCConfig
    Addresses = "here"
    Kinds <- MCKinds
    Calls = {c1, c2}
    Requests = {r1}
    Clients = {s1}
    Buffer = 1
    AuditLimit = 3
    LeastLog = 1
    Listeners = 1
    MaxArrivals = 3
INVARIANTS
    SnapshotsTell
    RoutedByOneConfig
    EndsAsIntended
PROPERTIES
    FrozenStays
    HandlersEnd
CHECK_DEADLOCK FALSE
