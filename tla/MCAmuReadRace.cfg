SPECIFICATION Spec
CONSTANTS
    Workers = {w1, w2}
    NONE = NONE
    Mvpns = {0}
    Slots = {0, 1}
    Sectors = {1, 2}
    Ppas = {1, 2, 3, 4, 5, 6, 7, 8}
    Frames = {1}
    Garbage = {NONE}
    Requests <- AllRequests
    MaxTxns = 1
    MaxVersion = 3
    Setups <- OnePage
    Exclusive = FALSE
INVARIANT ReadAllocatesUnwritten
