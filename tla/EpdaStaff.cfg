SPECIFICATION Spec
CONSTANTS
    A = A
    B = B
    NoPort = NoPort
    NoParams = NoParams
    Gone = Gone
    Ports <- MCPorts
    Rates = {1, 2}
    Sheets = {"s1"}
    Requests = {r1, r2}
    MaxRequests = 3
    Kinds = {"save", "lock", "unlock", "delete"}
    StartRows <- AnyStart
SYMMETRY Symmetry
INVARIANTS
    TariffsFitPort
PROPERTIES
    
    EpdaIsLockable
