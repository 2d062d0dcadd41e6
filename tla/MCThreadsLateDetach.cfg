\* Detaching a thread that has finished, or been cancelled, leaves it unreclaimed
SPECIFICATION Spec
CONSTANTS
    main = main
    a = a
    b = b
    NoThread = NoThread
    Threads <- TwoThreads
    Budget <- LongBudget
    MaxHandlers = 1
    LateDetach = TRUE
INVARIANTS
    DetachedIsRetired
