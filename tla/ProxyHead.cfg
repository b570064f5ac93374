SPECIFICATION FairSerialSpec
CONSTANTS
    Sessions = {c1, c2}
    Heads = {c1}
    Large = {}
PROPERTIES
    EverySessionEnds
CHECK_DEADLOCK FALSE
