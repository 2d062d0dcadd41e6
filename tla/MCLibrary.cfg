\* The parts of the library that share nothing with each other
SPECIFICATION AllSpec
CONSTANTS
    Parts = {"heap", "ids", "exit", "stream", "list", "fork", "env", "time", "memory", "path", "regex", "spawn"}
    a1 = a1
    a2 = a2
    x1 = x1
    x2 = x2
    x3 = x3
    f1 = f1
    f2 = f2
    o1 = o1
    g1 = g1
    g2 = g2
    d1 = d1
    d2 = d2
    n1 = n1
    n2 = n2
    DIR = DIR
    FILE = FILE
    None = None
    Thread <- TwoAllocating
    Page = 16
    Pages = 2
    BinBase = 8
    RetainMax = 1
    RetainUnits = 32
    Ring = 2
    Payloads <- ThreePayloads
    Alignments <- OneAlignment
    MaxLive = 3
    ExitThreads <- TwoExiting
    Handle <- OneHandle
    Addr <- ThreeNodes
    AtexitMax = 2
    MaxReg = 3
    MaxDepth = 2
    BufSize = 2
    NewLine = "n"
    Hole = "0"
    Texts <- StreamTexts
    Offsets <- StartAndThird
    MaxFile = 3
    MaxCall = 4
    StreamThreads <- ThreeUsers
    Nobody = Nobody
    Object <- ThreeFiles
    Std <- OneStandard
    Descriptor <- TwoDescriptors
    StreamCalls = 2
    Forker <- TwoForkers
    Bystander <- OneOther
    NoThread = NoThread
    Handler <- TwoHandlers
    Works = 1
    Name <- TwoNames
    Lengths <- TwoLengths
    MaxStart = 1
    MaxStrings = 4
    MaxFailures = 1
    Cap = 2
    MemSize = 4
    MemTexts <- OneOrThreeBytes
    MemOffsets <- SomeOffsets
    Given <- GivenMemory
    MaxPos = 6
    Junk = 9
    Fd <- ThreeFds
    Inherited <- TtyAndLog
    Files <- OneFile
    NoFile = "none"
    Disposition <- SomeSignals
    Kill = "kill"
    Masks <- OneMask
    Requests <- FivePrograms
    FirstSize = 1
    MaxActions = 2
    MaxSent = 1
VIEW WithoutResult
INVARIANTS
    HeapSound
    IdsExact
    StreamsIntact
    ForkSound
    EnvSound
    CalendarExact
    MemorySound
    PathsCanonical
    MatchesExact
    SpawnSound
PROPERTIES
    HandlersInOrder
    ImplementsFile
CHECK_DEADLOCK FALSE
