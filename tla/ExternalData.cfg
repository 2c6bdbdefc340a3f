CONSTANTS
    s1 = s1
    s2 = s2
    c1 = c1
    c2 = c2
    Ids <- MCIds
    Callers <- MCCallers
    CacheTtls <- MCCacheTtls
    RefreshIntervals <- MCRefreshIntervals
    RefreshTtl = 1
    MaxTime = 3
    MaxQueue = 2
    MaxTickers = 1
    ClockBeforeEpoch = TRUE
    NoSource = NoSource
    NoEntry = NoEntry
SPECIFICATION Spec
INVARIANTS
    TypeOK
    RefreshAheadPending
PROPERTY RefinesRefreshCache
CHECK_DEADLOCK FALSE
