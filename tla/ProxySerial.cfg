SPECIFICATION FairSerialSpec
CONSTANTS
    Sessions = {c1, c2, c3, c4}
    Heads = {c1, c2}
    Large = {c2, c3}
INVARIANTS
    TypeOK
    OwnUntilTooLong
    NothingLeftOver
PROPERTIES
    EveryGetEnds
CHECK_DEADLOCK FALSE
