SPECIFICATION FairSpec
CONSTANTS
    Cpus = {0, 1}
    u1 = u1
    u2 = u2
    u3 = u3
    m1 = m1
    Users = {u1, u2, u3}
    Mutexes = {m1}
    NONE = NONE
    Programs <- Cases
INVARIANTS
    QueuesAgree
    MutexExclusive
    
    FileResults
 
