\* Two readers that never stop, two threads that read and write, waits that fail
SPECIFICATION RwFairSpec
CONSTANTS
    a = a
    b = b
    c = c
    d = d
    RwThreads <- FourThreads
    Readers <- FourThreads
    Writers <- Others
    Timed <- FourThreads
    Endless <- Some
    Calls <- ThreeCalls
INVARIANTS
    Exclusion
    NobodyForgotten
PROPERTIES
    EveryWaitEnds
