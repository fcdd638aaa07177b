SPECIFICATION FairSpec
CONSTANTS
    Workers = {w1, w2}
    NONE = NONE
    Flushers = {0}
    Lpas = {0, 1, 2}
    Sectors = {1, 2}
    WbBatchSize = 2
    Setups <- RoomyOrFailing
INVARIANTS
    LruIsUnpinned
    CachedOnce
    WritesIntoCache
    CleanMatchesFlash
    NoStaleRead
    FlushDurable
PROPERTY RequestsReturn
CHECK_DEADLOCK FALSE
