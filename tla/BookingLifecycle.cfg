SPECIFICATION Spec
CONSTANTS
    Gone = Gone
    Requests = {r1, r2}
    MaxRequests = 3
    Kinds = {"create", "update", "lock", "unlock", "delete"}
    Cargo <- MCCargo
    Forms = {TRUE}
    FullCargo <- MCFullCargo
    StartRows <- StartAny
SYMMETRY Symmetry
INVARIANTS
    ChildrenFitBooking
    LockedIsComplete
    ReportAgreesWithWorkflow
PROPERTIES
    DocumentsAreLockable
    NoLostUpdate
