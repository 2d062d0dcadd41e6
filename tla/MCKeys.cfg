\* A thread that exits or is cancelled, two keys, one created again at its address
SPECIFICATION Spec
CONSTANTS
    main = main
    a = a
    b = b
    k1 = k1
    k2 = k2
    NoKey = NoKey
    Threads <- MCThreads
    Mortal <- MCMortal
    Keys <- TwoKeys
    Iterations = 2
    MaxGen = 2
    MaxNodes = 3
    MaxSets = 2
    Cancellation = TRUE
SYMMETRY Symmetric
CHECK_DEADLOCK FALSE
INVARIANTS
    NoStaleValue
    NodesOutliveWalks
    OneCleanup
    NoValueLost
