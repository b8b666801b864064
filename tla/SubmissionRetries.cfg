SPECIFICATION FairSpec
CONSTANTS
    Requests = {r1, r2}
    MaxRequests = 3
    Faults = {"crash", "reject", "upload", "undo"}
    NoRequest = NoRequest
    NoClaim = NoClaim
INVARIANTS
    AllocatedCodeIsFree
    AnswerNamesKeptInquiry
    
PROPERTIES
    EveryRequestAnswered
