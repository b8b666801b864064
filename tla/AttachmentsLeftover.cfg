SPECIFICATION Spec
CONSTANTS
    FileCount = 2
    Concurrency = 2
    Faults = {"upload"}
INVARIANT
    RejectedLeavesNothing
