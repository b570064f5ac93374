CONSTANTS
    Handshakes = {h1, h2}
    ThisUpdates = {0}
    NextUpdates = {1, 4}
    CacheDuration = 3
    MaxTime = 4
    NoEntry = NoEntry
SPECIFICATION Spec
INVARIANT CachedWhileValid
CHECK_DEADLOCK FALSE
