\* Recursive mutex: two threads that go beyond the depth limit, or three, two of them asleep
SPECIFICATION FairSpec
CONSTANTS
    t1 = t1
    t2 = t2
    t3 = t3
    NoOwner = NoOwner
    Threads <- ThreeThreads
    Recursive = TRUE
    MaxDepth = 1
    Spin = 1
    Budgets <- PairOrThree
INVARIANTS
    Accounting
    NoLostWakeup
PROPERTIES
    ImplementsAbstractLock
