\* Three threads: main makes four calls, another thread one
SPECIFICATION FairSpec
CONSTANTS
    main = main
    a = a
    b = b
    NoThread = NoThread
    Threads <- MCThreads
    Budget <- SmallBudget
    MaxHandlers = 1
    LateDetach = FALSE
INVARIANTS
    NoUseAfterFree
    HandlersOnce
    DetachedIsRetired
PROPERTIES
    EverythingEnds
