CONSTANTS
    Connections = {c1, c2}
    PoolSizes = {1, 2}
    MAX_PENDING = 1
    TokenTtl = 1
    ThisUpdates = {0}
    NextUpdates = {1}
    CacheDuration = 1
    MaxTime = 2
    NoEntry = NoEntry
    None = None
SPECIFICATION FairSpec
INVARIANTS TypeOK NeverFull DetailsNotOlder CachedWasGood
PROPERTIES OrdersAuthorised EveryConnectionServed
