SPECIFICATION FairSpec
CONSTANTS
    a = a
    b = b
    d = d
    Configured = {a, b, d}
    Backends = {a, b}
    Names <- TwoNames
    Weight <- TwoOne
    Priority <- Equal
    Context <- Small
    Kinds = {chat}
    Tokens <- Tokens2
    Matching <- OneRoute
    Defaults <- DefaultRoute
    Requests = {r1}
    Flaky = {a}
    Swing = 7
    MaxVersion = 2
PROPERTIES
    Lively
