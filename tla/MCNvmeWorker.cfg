SPECIFICATION FairSpec
CONSTANTS
    NONE = NONE
    NrWorkers = 2
    Ios = {c1}
    Zeroes = {z1}
    Invokes = {i1}
    MaxShutdowns = 2
INVARIANTS
    SlotsAgree
    WorkKept
 
