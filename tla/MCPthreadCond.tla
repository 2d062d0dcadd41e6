---------------------------- MODULE MCPthreadCond ---------------------------
(***************************************************************************)
(* Small instances for TLC of condition variables and of what waits on     *)
(* one: barriers, sys/semaphore.c and pthread_once(), and of lazy          *)
(* initialisation, which polls.  `part' is chosen at the start and only    *)
(* that part moves.                                                        *)
(***************************************************************************)
EXTENDS PthreadCond, Barrier, Semaphore, PthreadOnce, PthreadLazyInit, TLC

CONSTANTS p1, p2, c1, c2, c3

TwoProducers == {p1, p2}
TwoConsumers == {c1, c2}
OneTimed == {c1}
FourThreads == {p1, p2, c1, c2}
ThreeThreads == {c1, c2, c3}
ZeroOrOne == {0, 1}

\* The initialiser of "a" asks for "b"
TwoControls == {"a", "b"}
Nested == "a" :> "b" @@ "b" :> "b"

ASSUME InstanceAssumption == CondAssumption

-----------------------------------------------------------------------------
VARIABLE part

AllInit ==
    /\ part \in {"cond", "barrier", "sem", "once", "lazy"}
    /\ CondInit /\ BarrierInit /\ OnceInit /\ LazyInit
    /\ SemInit /\ (part # "sem" => v = 0)

CondMoves ==
    part = "cond" /\ CondNext /\ UNCHANGED <<part, barrierVars, semVars, onceVars, lazyVars>>
BarrierMoves ==
    part = "barrier" /\ BarrierNext /\ UNCHANGED <<part, condVars, semVars, onceVars, lazyVars>>
SemMoves ==
    part = "sem" /\ SemNext /\ UNCHANGED <<part, barrierVars, condVars, onceVars, lazyVars>>
OnceMoves ==
    part = "once" /\ OnceNext /\ UNCHANGED <<part, barrierVars, condVars, semVars, lazyVars>>
LazyMoves ==
    part = "lazy" /\ LazyNext /\ UNCHANGED <<part, barrierVars, condVars, semVars, onceVars>>

AllNext == CondMoves \/ BarrierMoves \/ SemMoves \/ OnceMoves \/ LazyMoves

allVars == <<part, barrierVars, condVars, semVars, onceVars, lazyVars>>

\* The fairness each module states, of the part that moves
AllFairness ==
    /\ \A t \in CondCallers : WF_condVars(part = "cond" /\ CondStep(t))
    /\ \A t \in BarrierThreads : WF_barrierVars(part = "barrier" /\ BarrierStep(t))
    /\ WF_barrierVars(part = "barrier" /\ DestroyAgain)
    /\ \A t \in SemCallers : WF_semVars(part = "sem" /\ SemStep(t))
    /\ \A t \in OnceThreads : WF_onceVars(part = "once" /\ OnceStep(t))
    /\ \A t \in LazyThreads : WF_lazyVars(part = "lazy" /\ LazyStep(t))

AllSpec == AllInit /\ [][AllNext]_allVars /\ AllFairness

-----------------------------------------------------------------------------
\* Every call returns: of condition variables with an item for every take, of
\* pthread_once(), and of first users and destroyers of an object
CallsReturn == (part = "cond" => EverybodyServed) /\ OnceReturns /\ LazyReturns
=============================================================================
