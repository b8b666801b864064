SPECIFICATION Spec
CONSTANTS
    Requests = {r1, r2}
    MaxRequests = 2
    Faults = {}
    NoRequest = NoRequest
    NoClaim = NoClaim
INVARIANT
    OneInquiryPerKey
