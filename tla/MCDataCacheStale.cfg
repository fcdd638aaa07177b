SPECIFICATION Spec
CONSTANTS
    Workers = {w1, w2}
    NONE = NONE
    Flushers = {0}
    Lpas = {0, 1, 2}
    Sectors = {1}
    WbBatchSize = 2
    Setups <- Evicting
INVARIANT NoStaleRead
