SPECIFICATION FairSpec
CONSTANTS
    FileCount = 3
    Concurrency = 2
    Faults = {"upload", "timeout", "save", "destroy", "remove", "delete"}
INVARIANTS
    AcceptedHasAllFiles
    NoOrphanObject
PROPERTIES
    CleanupComplete
    Settled
