CONSTANTS
    s1 = s1
    NumRequests = 1
    Target <- MCTarget1
    Enrolled = {s1}
    MAX_PENDING = 1
    MaxFaults = 1
    NoRequest = NoRequest
SPECIFICATION FairSpec
PROPERTY OrdersSurvive
CHECK_DEADLOCK FALSE
