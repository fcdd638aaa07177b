CONSTANTS
  NrThreads = 3
  Mutexes = {m1, m2}
  Conds = {c1}
  NoMutex = NoMutex
SPECIFICATION Spec
INVARIANTS LinkedOnce StateMatchesQueue WaitersHaveOwner
CHECK_DEADLOCK FALSE
