\* Three takers, one timed and one interrupted, two posters, any of two initial counts: tokens, progress, the counting semaphore
SPECIFICATION PipeFairSpec
CONSTANTS
    a = a
    b = b
    c = c
    p = p
    q = q
    PipeTakers <- ThreeTakers
    PipePosters <- TwoPosters
    PipeTimed <- OneTaker
    PipeInterrupted <- OtherTaker
    PipeInitials <- ZeroOrOne
    SemValueMax = 6
    Takes = 2
    Posts = 3
INVARIANTS
    TokensMatch
PROPERTIES
    ImplementsUnnamedSemaphore
