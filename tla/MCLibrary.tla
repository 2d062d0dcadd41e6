----------------------------- MODULE MCLibrary ------------------------------
(***************************************************************************)
(* Small instances for TLC of the parts of the library that share nothing  *)
(* with each other but are checked in one run: `part' is chosen at the     *)
(* start, that part takes steps and the others stay in one of their        *)
(* initial states.  The parts about which theorems are proved are          *)
(* extended, so that what is checked is what is proved; the others are     *)
(* instances.                                                              *)
(***************************************************************************)
EXTENDS Integers, Sequences, TLC, Malloc, PthreadFork, Env, Stream, Streams, Memstream, Spawn, Atexit

CONSTANTS
    Parts,      \* the parts that are checked
    a1, a2, x1, x2, x3, f1, f2, o1, g1, g2, d1, d2, n1, n2, DIR, FILE, None

VARIABLES
    part,
    ids, held,
    year, firstDay,
    tree, cwd, pwd, stale, at,
    expr, preg, found

idsVars    == <<ids, held>>
timeVars   == <<year, firstDay>>
pathVars   == <<tree, cwd, pwd, stale, at>>
regexVars  == <<expr, preg, found>>

-----------------------------------------------------------------------------
(* The instances *)

Ids == INSTANCE Idtree WITH tree <- ids, MaxId <- 14, MaxHeld <- 10

\* The heap
TwoAllocating == {a1, a2}
ThreePayloads == {1, 5, 12}
OneAlignment == {4}

\* Exit handlers, of threads 1 and 2
TwoExiting == {1, 2}
OneHandle == {7}
ThreeNodes == {1, 2, 3}

\* One stream
StreamTexts == {<<"a">>, <<"n", "a">>, <<"n", "a", "n", "a">>}
StartAndThird == {0, 3}

ASSUME InstanceAssumption == StreamAssumption

\* The list of streams
ThreeUsers == {x1, x2, x3}
ThreeFiles == {1, 2, 3}
OneStandard == {1}
TwoDescriptors == {d1, d2}

\* Forks
TwoForkers == {f1, f2}
OneOther == {o1}
TwoHandlers == {g1, g2}

\* The environment
TwoNames == {n1, n2}
TwoLengths == {1, 2}

\* Rules of time zones; one whose summer spans the turn of the year begins after it ends
Month(wday, week, month, hour) ==
    [type |-> "mweek", day |-> wday, week |-> week, month |-> month, time |-> hour]
Day(type, day, hour) == [type |-> type, day |-> day, time |-> hour]
Zone(standard, summer, begin, end) ==
    [offset |-> 0 :> standard @@ 1 :> summer, rule |-> 0 :> begin @@ 1 :> end]

CentralEurope == Zone(1, 2, Month(0, 5, 3, 2), Month(0, 5, 10, 3))
Pacific == Zone(-8, -7, Month(0, 2, 3, 2), Month(0, 1, 11, 2))
Chile == Zone(-4, -3, Month(6, 2, 9, 24), Month(6, 2, 4, 24))
Ireland == Zone(1, 0, Month(0, 5, 10, 2), Month(0, 5, 3, 1))
ByDay == Zone(10, 12, Day("jday", 60, 2), Day("yday", 300, 3))

Time == INSTANCE Calendar WITH
    FirstYear <- 1895, LastYear <- 2105, SomeDays <- {0, 30, 31, 58, 59, 60, 200, 305, 363},
    Zones <- {CentralEurope, Pacific, Chile, Ireland, ByDay}

\* Files in memory
OneOrThreeBytes == {<<1>>, <<2, 1, 2>>}
SomeOffsets == {-1, 0, 2}
GivenMemory == {<<7, 7, 7, 7>>, <<7, 0, 7, 7>>}

\* Trees with one or two links, some of which form loops or lead nowhere
To(abs, names) == [abs |-> abs, names |-> names]
Links == {To(TRUE, <<"b">>), To(FALSE, <<"b">>), To(FALSE, <<"..", "b">>),
          To(FALSE, <<"a", "b">>), To(TRUE, <<"a">>)}
Kinds == Links \cup {DIR, FILE}
Trees == {<<"a">> :> DIR @@ <<"a", "b">> :> x @@ <<"b">> :> y : x \in Links \cup {DIR}, y \in Kinds}
         \cup {<<"a">> :> DIR @@ <<"a", "b">> :> x @@ <<"b">> :> DIR @@ <<"b", "a">> :> y :
                 x \in Links, y \in Kinds}
Paths == {To(FALSE, names) : names \in UNION {[1..k -> {"a", "b", ".."}] : k \in 1..2}}
         \cup {To(FALSE, <<".", "b">>), To(FALSE, <<"a", "b", "..">>), To(TRUE, <<"b", "a">>)}
Dir == INSTANCE Path WITH PathMax <- 8, SymloopMax <- 3

\* Regular expressions
AnyChar == [k |-> "any"]
Nil == [k |-> "nil"]
Chr(c) == [k |-> "chr", c |-> c]
OneOf(written, set) == [k |-> "set", tokens |-> written, set |-> set]
Anchor(op) == [k |-> "anchor", op |-> op]
Cat(x, y) == [k |-> "cat", x |-> x, y |-> y]
Alt(x, y) == [k |-> "alt", x |-> x, y |-> y]
Loop(x, from, to) == [k |-> "rep", x |-> x, from |-> from, to |-> to]
Grp(n, x) == [k |-> "grp", n |-> n, x |-> x]
Back(n) == [k |-> "back", n |-> n]
Ever == 5
A == Chr("a")
B == Chr("b")
C == Chr("c")
AB == Cat(A, B)

Characters == <<"N", "$", "(", ")", "*", "+", ",", "-", ".", "0", "1", "2", "3", "5", ":", "<", ">",
                "B", "[", "]", "^", "_", "a", "b", "c", "{", "|", "}", "\\", "alnum">>
Letters == {"B", "a", "b", "c"}

Case(x, extended, texts) ==
    [x |-> x, texts |-> texts, eflags |-> {[notbol |-> FALSE, noteol |-> FALSE]},
     flags |-> [extended |-> extended, icase |-> FALSE, newline |-> FALSE, nospec |-> FALSE]]
Upto(set, n) == UNION {[1..k -> set] : k \in 0..n}

Loops ==
    {Case(Cat(Loop(Grp(1, x), t[1], t[2]), Grp(2, y)), TRUE, Upto({"a", "b"}, 3)) :
        t \in {<<0, 1>>, <<1, Ever>>, <<1, 3>>},
        x \in {A, AB, Loop(A, 0, Ever), Alt(AB, B), Nil},
        y \in {B, Loop(B, 0, Ever), Loop(A, 2, 2), Loop(A, 0, 2)}}
Alternatives ==
    {Case(Cat(Loop(Grp(1, Alt(x, Alt(A, Cat(B, C)))), 1, Ever), y), TRUE,
          Upto({"a", "b", "c"}, 3)) :
        x \in {AB, C, Loop(B, 0, 1)}, y \in {Nil, AnyChar, Grp(2, Loop(C, 0, 1))}}
Lines ==
    {[Case(Cat(Cat(Anchor(p), x), Cat(Anchor(q), y)), TRUE, Upto({"a", "N", "-"}, 2)) EXCEPT
        !.flags.newline = newline, !.eflags = [notbol : BOOLEAN, noteol : BOOLEAN]] :
        p \in {"OBOL", "OBOW"}, x \in {A, Cat(A, Chr("N"))}, q \in {"OBOL", "OEOL", "OEOW"},
        y \in {A, Loop(AnyChar, 0, Ever), Chr("-")}, newline \in BOOLEAN}
BackReferences ==
    {Case(Cat(Loop(Grp(1, x), t[1], t[2]), Cat(y, Back(1))), FALSE, Upto({"a", "b"}, 4)) :
        t \in {<<0, Ever>>, <<2, 2>>},
        x \in {A, Cat(Grp(2, Loop(A, 1, Ever)), Loop(B, 0, Ever))}, y \in {B, Loop(A, 0, Ever)}}
\* With strings that every match contains, of three and more than three characters
Musts ==
    {Case(Cat(Cat(Grp(1, x), w), y), TRUE, [1..6 -> {"a", "b"}]) :
        x \in {Loop(A, 0, 1), Alt(B, Cat(A, A))}, y \in {AnyChar, Loop(B, 0, Ever)},
        w \in {Cat(AB, A), Cat(AB, AB), Cat(Cat(A, A), AB)}}
Brackets ==
    {[Case(x, extended, Upto({"a", "b", "B", "-"}, 2)) EXCEPT !.flags.icase = TRUE] :
        extended \in BOOLEAN,
        x \in {B, AB, OneOf(<<"[", "a", "-", "c", "]">>, Letters),
               Loop(OneOf(<<"[", "^", "b", "-", "]">>,
                          {Characters[i] : i \in DOMAIN Characters} \ {"b", "B", "-"}), 1, Ever),
               OneOf(<<"[", "[", ":", "alnum", ":", "]", "]">>, Letters)}}
Literals ==
    {[Case(Cat(x, B), FALSE, Upto({"a", "b", "B"}, 3)) EXCEPT !.flags.nospec = TRUE,
                                                              !.flags.icase = icase] :
        x \in {A, B, AB}, icase \in BOOLEAN}

Rx == INSTANCE Regexec WITH
    Char <- Characters, Class <- [alnum |-> Letters], Othercase <- "b" :> "B" @@ "B" :> "b",
    Newline <- "N", DupMax <- 4, NoLimit <- Ever,
    Cases <- Loops \cup Alternatives \cup Lines \cup BackReferences \cup Musts \cup Brackets
             \cup Literals

\* Spawning: descriptor 2 is closed on exec; a "handled" signal has a handler
ThreeFds == 0..2
OneFile == {"x"}
TtyAndLog == 0 :> [file |-> "tty", cloexec |-> FALSE] @@ 2 :> [file |-> "log", cloexec |-> TRUE]
SomeSignals == [handled |-> "caught", hup |-> "ignored", kill |-> "default"]
OneMask == {{"hup"}}
Program(places, file) == [places |-> places, kind |-> file, argv |-> <<"p", "q">>]
Plain == [flags |-> {}, sigdefault |-> {}, sigmask |-> {}]
FivePrograms ==
    {[program |-> Program(<<"other", "regular">>, "binary"), attr |-> Plain],
     [program |-> Program(<<"regular", "regular">>, "with argument"),
      attr |-> [flags |-> {"setsigmask", "setschedparam", "setscheduler"},
                sigdefault |-> {"hup"}, sigmask |-> {"kill", "handled"}]],
     [program |-> Program(<<"none", "regular">>, "binary"),
      attr |-> [flags |-> {"setsigdef", "setsid", "setschedparam"},
                sigdefault |-> {"hup", "handled"}, sigmask |-> {}]],
     [program |-> Program(<<"regular">>, "no interpreter"), attr |-> Plain],
     [program |-> Program(<<"none", "other">>, "script"), attr |-> Plain]}

-----------------------------------------------------------------------------
(* One part moves *)

AllInit ==
    /\ part \in Parts
    /\ HeapInit /\ Ids!Init /\ StreamsInit /\ Time!Init
    /\ ExitInit /\ (part # "exit" => static)
    /\ FileInit /\ (part # "stream" => s = Opened("rw", TRUE, <<>>))
    /\ ForkInit /\ (part # "fork" => records = ForkThreads)
    /\ EnvInit /\ (part # "env" => environ = <<>> /\ size = 0)
    /\ MemoryInit /\ (part # "memory" => kind = "memstream")
    /\ Dir!Init /\ (part # "path" => tree = CHOOSE x \in Trees : TRUE) /\ (part # "path" => pwd = <<>>)
    /\ SpawnInit
    /\ Rx!Init /\ (part # "regex" => expr = CHOOSE x \in Alternatives : TRUE)

HeapMoves ==
    /\ part = "heap" /\ HeapNext
    /\ UNCHANGED <<part, idsVars, exitVars, fileVars, streamsVars, forkVars, envVars, timeVars,
                   memoryVars, pathVars, regexVars, spawnVars>>
IdsMoves ==
    /\ part = "ids" /\ Ids!Next
    /\ UNCHANGED <<part, heapVars, exitVars, fileVars, streamsVars, forkVars, envVars, timeVars,
                   memoryVars, pathVars, regexVars, spawnVars>>
ExitMoves ==
    /\ part = "exit" /\ ExitNext
    /\ UNCHANGED <<part, heapVars, idsVars, fileVars, streamsVars, forkVars, envVars, timeVars,
                   memoryVars, pathVars, regexVars, spawnVars>>
StreamMoves ==
    /\ part = "stream" /\ FileNext
    /\ UNCHANGED <<part, heapVars, idsVars, exitVars, streamsVars, forkVars, envVars, timeVars,
                   memoryVars, pathVars, regexVars, spawnVars>>
StreamsMoves ==
    /\ part = "list" /\ StreamsNext
    /\ UNCHANGED <<part, heapVars, idsVars, exitVars, fileVars, forkVars, envVars, timeVars,
                   memoryVars, pathVars, regexVars, spawnVars>>
ForkMoves ==
    /\ part = "fork" /\ ForkNext
    /\ UNCHANGED <<part, heapVars, idsVars, exitVars, fileVars, streamsVars, envVars, timeVars,
                   memoryVars, pathVars, regexVars, spawnVars>>
EnvMoves ==
    /\ part = "env" /\ EnvNext
    /\ UNCHANGED <<part, heapVars, idsVars, exitVars, fileVars, streamsVars, forkVars, timeVars,
                   memoryVars, pathVars, regexVars, spawnVars>>
TimeMoves ==
    /\ part = "time" /\ Time!Next
    /\ UNCHANGED <<part, heapVars, idsVars, exitVars, fileVars, streamsVars, forkVars, envVars,
                   memoryVars, pathVars, regexVars, spawnVars>>
MemoryMoves ==
    /\ part = "memory" /\ MemoryNext
    /\ UNCHANGED <<part, heapVars, idsVars, exitVars, fileVars, streamsVars, forkVars, envVars,
                   timeVars, pathVars, regexVars, spawnVars>>
PathMoves ==
    /\ part = "path" /\ Dir!Next
    /\ UNCHANGED <<part, heapVars, idsVars, exitVars, fileVars, streamsVars, forkVars, envVars,
                   timeVars, memoryVars, regexVars, spawnVars>>
RegexMoves ==
    /\ part = "regex" /\ Rx!Next
    /\ UNCHANGED <<part, heapVars, idsVars, exitVars, fileVars, streamsVars, forkVars, envVars,
                   timeVars, memoryVars, pathVars, spawnVars>>
SpawnMoves ==
    /\ part = "spawn" /\ SpawnNext
    /\ UNCHANGED <<part, heapVars, idsVars, exitVars, fileVars, streamsVars, forkVars, envVars,
                   timeVars, memoryVars, pathVars, regexVars>>

AllNext ==
    \/ HeapMoves \/ IdsMoves \/ ExitMoves \/ StreamMoves \/ StreamsMoves
    \/ ForkMoves \/ EnvMoves \/ TimeMoves \/ MemoryMoves \/ PathMoves \/ RegexMoves \/ SpawnMoves

allVars == <<part, heapVars, idsVars, exitVars, fileVars, streamsVars, forkVars, envVars,
            timeVars, memoryVars, pathVars, regexVars, spawnVars>>
AllSpec == AllInit /\ [][AllNext]_allVars

\* What the last call of a stream returned is compared when it returns
WithoutResult ==
    <<part, heapVars, idsVars, exitVars, s, pushed, streamsVars, forkVars, envVars, timeVars,
      memoryVars, pathVars, regexVars, spawnVars>>

-----------------------------------------------------------------------------
(* Properties of the instances, stated in the modules of the parts *)

\* The id tree is balanced, its gaps are right and an id has one holder
IdsExact == part = "ids" => Ids!IdsExact

\* Dates, rules of time zones and ISO weeks are those of the calendar
CalendarExact == part = "time" => Time!CalendarExact

\* A resolved path is canonical, and following it in two steps leads to the same place
PathsCanonical == part = "path" => Dir!PathsCanonical

\* A regular expression matches what it means, leftmost and longest
MatchesExact == part = "regex" => Rx!MatchesExact

\* The pieces of a text that a match gives its loops fit together
LoopsExhaust == part = "regex" => Rx!LoopsExhaust
=============================================================================
