SPECIFICATION FairSpec
CONSTANTS
    Gone = Gone
    Requests = {r1, r2}
    MaxRequests = 3
    Kinds = {"update", "lock", "unlock", "delete"}
    Cargo <- MCCargo
    Forms = {TRUE}
    FullCargo <- MCFullCargo
    StartRows <- StartImport
INVARIANT
    CargoInLockstep

    
