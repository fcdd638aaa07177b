SPECIFICATION FairSpec
CONSTANTS
    NULL = NULL
    Workers = {w1, w2, w3}
    NR_FLUSHERS = 2
    Namespaces = {n1, n2}
INVARIANTS
    FlushCovers
    OrdersKept
PROPERTY FlushReturns
