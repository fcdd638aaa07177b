SPECIFICATION FairSpec
CONSTANTS
    Workers = {w1, w2}
    NONE = NONE
    MAIN = MAIN
    DUMP = DUMP
    AvailNum = 3
    UsedNum = 5
    Start = 2
    Ids = {1, 2}
INVARIANTS
    OwnResult
    RequestsKept
    PromptIsSafe
PROPERTY RequestsReturn
