SPECIFICATION FairSpec
CONSTANTS
    Threads = {1, 2, 3}
    Guards = {g1, g2, g3}
    HalfMax = 65535
    MaxDepth = 2
    MaxLocks = 5
INVARIANTS
    NoCrash
PROPERTIES
    EveryWaitEnds
    ImplementsRWLock
