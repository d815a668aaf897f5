SPECIFICATION Spec
CONSTANTS
    a = a
    b = b
    d = d
    Configured = {a, b, d}
    Backends = {a, b}
    Names <- TwoNames
    Weight <- TwoOne
    Priority <- Equal
    Context <- NoLimit
    Kinds = {chat}
    Tokens <- NoTokens
    Matching <- NoRoute
    Defaults <- DefaultRoute
    Requests = {r1, r2}
    Flaky = {a, b}
    Swing = 7
    MaxVersion = 1
SYMMETRY Symmetry
INVARIANTS
    SmoothBalanced
    ActiveCounted
    NoneTwice
    FailoverReaches
