\* A timed taker against another taker, and fewer posts than calls
SPECIFICATION PipeFairSpec
CONSTANTS
    a = a
    b = b
    c = c
    p = p
    q = q
    PipeTakers <- TwoTakers
    PipePosters <- OnePoster
    PipeTimed <- OneTaker
    PipeInterrupted <- None
    PipeInitials <- Zero
    SemValueMax = 1
    Takes = 2
    Posts = 1
PROPERTIES
    GivingUpEnds
