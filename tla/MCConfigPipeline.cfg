CONSTANTS
    s1 = s1
    NumRequests = 2
    Target <- MCTarget
    Enrolled = {s1}
    MAX_PENDING = 1
    MaxFaults = 2
    NoRequest = NoRequest
SPECIFICATION FairSpec
INVARIANTS
    TypeOK
    SuccessMeansApplied
    Audited
PROPERTIES
    FirstWriteInOrder
    KeepsPromise
    EverySessionEnds
    AppliedUnlessFault
CHECK_DEADLOCK FALSE
