SPECIFICATION FairSpec
CONSTANTS
    Tasks = {t1, t2, t3}
    NrChips = 2
    NrDies = 2
    Shapes <- Mixed
    MaxSubmits = 3
    NONE = NONE
INVARIANTS
    AssertionsHold
    BusOwned
    ProgramBeforeRead
    NothingLeft
PROPERTY ImplementsFlashService
