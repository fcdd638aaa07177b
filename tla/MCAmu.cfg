SPECIFICATION FairSpec
CONSTANTS
    Workers = {w1, w2}
    NONE = NONE
    Mvpns = {0, 1}
    Slots = {0, 1}
    Sectors = {1, 2}
    Ppas = {1, 2, 3, 4, 5, 6}
    Frames = {1, 2, 3}
    Requests <- SmallRequests
    Garbage = {NONE, 1}
    MaxTxns = 2
    MaxVersion = 3
    Setups <- RoomyOrFaulty
    Exclusive = TRUE
INVARIANTS
    LruIsUnpinned
    ReturnedLocked
    CachedOnce
    CleanMatchesFlash
    NoAliasing
    MappingFaithful
PROPERTY WorkReturns
CHECK_DEADLOCK FALSE
