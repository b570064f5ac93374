SPECIFICATION FairQuietSpec
CONSTANTS
    http = http
    raw = raw
    c1 = c1
    c2 = c2
    c3 = c3
    Servers = {http, raw}
    Sessions = {c1, c2, c3}
    ServerOf <- MCServerOf
    Seeded = {1}
    NoServer = NoServer
    MaxCrashes = 1
INVARIANTS
    TypeOK
    UniqueInFlight
    DrawnIsFree
PROPERTIES
    DrawsGrow
    EveryServerServes
CHECK_DEADLOCK FALSE
