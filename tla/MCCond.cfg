\* Two producers and two consumers, one of them timed, with one item each; a barrier for
\* rounds of two of four threads, three waits each, and a destroy; three takers and two
\* posters; three threads for the last two parts
SPECIFICATION AllSpec
CONSTANTS
    p1 = p1
    p2 = p2
    c1 = c1
    c2 = c2
    c3 = c3
    NoThread = NoThread
    Destroyer = Destroyer
    Producers <- TwoProducers
    Consumers <- TwoConsumers
    CondTimed <- OneTimed
    SeqModulus = 8
    Items = 1
    Wanted = 1
    MaxInterrupts = 2
    BarrierThreads <- FourThreads
    Count = 2
    BarrierCalls = 3
    Takers <- ThreeThreads
    Posters <- TwoProducers
    SemTimed <- OneTimed
    Initials <- ZeroOrOne
    ValueMax = 2
    Downs = 1
    Ups = 2
    OnceThreads <- ThreeThreads
    Control <- TwoControls
    Needs <- Nested
    OnceCalls = 2
    LazyThreads <- ThreeThreads
    LazyCalls = 2
INVARIANTS
    CountIsExact
    BroadcastReachesAll
    NobodyStranded
    DestroyedEmpty
    LazyInitSound
PROPERTIES
    ImplementsSemaphore
    OnceSound
    ImplementsBarrier
    DestroyEnds
    CallsReturn
