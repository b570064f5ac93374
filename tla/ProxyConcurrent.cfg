SPECIFICATION Spec
CONSTANTS
    Sessions = {c1, c2}
    Heads = {}
    Large = {}
INVARIANTS
    OwnResponse
CHECK_DEADLOCK FALSE
