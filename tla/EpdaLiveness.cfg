SPECIFICATION FairSpec
CONSTANTS
    A = A
    B = B
    NoPort = NoPort
    NoParams = NoParams
    Gone = Gone
    Ports <- MCPorts
    Rates = {1}
    Sheets = {"s1", "s2"}
    Requests = {r1, r2}
    MaxRequests = 2
    Kinds = {"save", "lock", "unlock", "status", "sheet", "archive", "delete"}
    StartRows <- OpenStart
PROPERTY
    EveryRequestAnswered
