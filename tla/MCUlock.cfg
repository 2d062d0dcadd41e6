\* Three threads, two calls each, a spin loop of two polls: safety, progress, refinement
SPECIFICATION FairSpec
CONSTANTS
    t1 = t1
    t2 = t2
    t3 = t3
    Threads <- MCThreads
    Timed <- MCTimed
    Spin = 2
    Rounds = 2
INVARIANTS
    NoLostWakeup
PROPERTIES
    ImplementsAbstractLock
