\* A canceller runs the destructors of a thread that ends by itself
SPECIFICATION Spec
CONSTANTS
    main = main
    a = a
    b = b
    k1 = k1
    k2 = k2
    NoKey = NoKey
    Threads <- ThreeThreads
    Mortal <- MCMortal
    Keys <- OneKey
    Iterations = 2
    MaxGen = 1
    MaxNodes = 3
    MaxSets = 2
    Cancellation = TRUE
CHECK_DEADLOCK FALSE
INVARIANTS
    KeyOutlivesCleanup
