SPECIFICATION FairSpec
CONSTANTS
    NONE = NONE
    NrWorkers = 2
    Ios = {c1}
    Zeroes = {}
    Invokes = {}
    MaxShutdowns = 1
PROPERTY ShutdownServed
