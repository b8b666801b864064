SPECIFICATION Spec
CONSTANTS
    Gone = Gone
    Requests = {r1, r2}
    MaxRequests = 2
    Kinds = {"create", "update"}
    Cargo <- MCCargo
    Forms = {TRUE}
    FullCargo <- MCFullCargo
    StartRows <- StartWithAn
INVARIANT
    CargoInLockstep
