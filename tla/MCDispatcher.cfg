CONSTANTS
    w1 = w1  w2 = w2  w3 = w3
    i1 = i1  i2 = i2  i3 = i3
    Waits = {w1, w2, w3}
    Notices = {d1, d2}
    Ids = {i1, i2, i3}
    IdOf <- MCIdOf
    MAX_PENDING = 2
    NoThread = NoThread
    NoCtx = NoCtx
SPECIFICATION FairSpec
INVARIANTS
    TypeOK
    NoDanglingContext
    CapacityRespected
    WaiterReachable
    NoLostWakeup
PROPERTIES
    EveryCallReturns
    KeepsPromise
