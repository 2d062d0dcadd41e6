------------------------------- MODULE Barrier ------------------------------
(***************************************************************************)
(* Barriers, pthread/barrier.c: a mutex, a condition, a generation, and a  *)
(* count of the threads inside that pthread_barrier_destroy() waits for.   *)
(*                                                                         *)
(* A section under the mutex is one action.  Of the condition the model    *)
(* uses what PthreadCond shows: a broadcast wakes every thread then        *)
(* waiting; and a thread may also wake for no reason.  The application     *)
(* starts no wait once a destroy has found nobody waiting.  Fewer than     *)
(* 2^32 rounds pass while a released thread has not run.                   *)
(***************************************************************************)
EXTENDS Naturals, FiniteSets

CONSTANTS
    BarrierThreads,
    Destroyer,      \* the thread that destroys the barrier
    Count,          \* the count given to pthread_barrier_init()
    BarrierCalls    \* bound: waits of each thread

ASSUME BarrierAssumption ==
    /\ IsFiniteSet(BarrierThreads) /\ Destroyer \notin BarrierThreads
    /\ Count \in Nat \ {0} /\ BarrierCalls \in Nat

VARIABLES
    waiting, inside, generation, \* the fields of the barrier
    round,          \* the local variable `generation` of each caller
    barrierPc,
    barrierLeft     \* calls left

barrierVars == <<waiting, inside, generation, round, barrierPc, barrierLeft>>

Everyone == BarrierThreads \cup {Destroyer}

BarrierTypeOK ==
    /\ waiting \in 0..Count - 1
    /\ inside \in Nat /\ generation \in Nat
    /\ round \in [BarrierThreads -> Nat]
    /\ barrierPc \in [Everyone -> {"out", "asleep", "woken", "gone"}]
    /\ barrierLeft \in [BarrierThreads -> 0..BarrierCalls]

Asleep == {u \in Everyone : barrierPc[u] = "asleep"}
Inside == {t \in BarrierThreads : barrierPc[t] \in {"asleep", "woken"}}
Open == {t \in Inside : round[t] = generation}

\* t goes to a place after it woke some
Moved(t, place, woken) ==
    barrierPc' = [u \in Everyone |->
        IF u = t THEN place ELSE IF u \in woken THEN "woken" ELSE barrierPc[u]]

-----------------------------------------------------------------------------
BarrierInit ==
    /\ waiting = 0 /\ inside = 0 /\ generation = 0
    /\ round = [t \in BarrierThreads |-> 0]
    /\ barrierPc = [u \in Everyone |-> "out"]
    /\ barrierLeft = [t \in BarrierThreads |-> BarrierCalls]

BarrierCall(t) ==
    /\ barrierPc[t] = "out" /\ barrierLeft[t] > 0
    /\ barrierPc[Destroyer] = "out"
    /\ barrierLeft' = [barrierLeft EXCEPT ![t] = @ - 1]
    /\ round' = [round EXCEPT ![t] = generation]

-----------------------------------------------------------------------------
(* pthread_barrier_wait() *)

ArriveFirst(t) ==
    /\ BarrierCall(t) /\ waiting + 1 # Count
    /\ inside' = inside + 1
    /\ waiting' = waiting + 1
    /\ Moved(t, "asleep", {})
    /\ UNCHANGED generation

\* The serial thread: in and out again in one section, the mutex never released
ArriveLast(t) ==
    /\ BarrierCall(t) /\ waiting + 1 = Count
    /\ generation' = generation + 1
    /\ waiting' = 0
    /\ Moved(t, "out", Asleep)
    /\ UNCHANGED inside

\* Mutant: an `if` in place of the `while`
BarrierResume_NoTest(t) ==
    /\ barrierPc[t] = "woken"
    /\ inside' = inside - 1
    /\ Moved(t, "out", IF inside = 1 THEN Asleep ELSE {})
    /\ UNCHANGED <<waiting, generation, round, barrierLeft>>

\* Mutant: the last to leave wakes nobody
BarrierResume_NoBroadcast(t) ==
    /\ barrierPc[t] = "woken"
    /\ IF round[t] = generation
         THEN Moved(t, "asleep", {}) /\ UNCHANGED inside
         ELSE inside' = inside - 1 /\ Moved(t, "out", {})
    /\ UNCHANGED <<waiting, generation, round, barrierLeft>>

BarrierResume(t) ==
    /\ barrierPc[t] = "woken"
    /\ IF round[t] = generation
         THEN Moved(t, "asleep", {}) /\ UNCHANGED inside
         ELSE /\ inside' = inside - 1
              /\ Moved(t, "out", IF inside = 1 THEN Asleep ELSE {})
    /\ UNCHANGED <<waiting, generation, round, barrierLeft>>

\* pthread_cond_wait() may return for no reason
WakeUp(u) ==
    /\ barrierPc[u] = "asleep"
    /\ Moved(u, "woken", {})
    /\ UNCHANGED <<waiting, inside, generation, round, barrierLeft>>

-----------------------------------------------------------------------------
(* pthread_barrier_destroy() *)

DestroyBusy ==
    /\ barrierPc[Destroyer] = "out" /\ waiting # 0
    /\ UNCHANGED barrierVars

\* Mutant: the released threads are not waited for
LeftAlone_Unseen == Moved(Destroyer, "gone", {})

LeftAlone == Moved(Destroyer, IF inside = 0 THEN "gone" ELSE "asleep", {})

Destroy ==
    /\ barrierPc[Destroyer] = "out" /\ waiting = 0
    /\ LeftAlone
    /\ UNCHANGED <<waiting, inside, generation, round, barrierLeft>>

DestroyAgain ==
    /\ barrierPc[Destroyer] = "woken"
    /\ LeftAlone
    /\ UNCHANGED <<waiting, inside, generation, round, barrierLeft>>

-----------------------------------------------------------------------------
BarrierStep(t) == ArriveFirst(t) \/ ArriveLast(t) \/ BarrierResume(t)

BarrierFinished == barrierPc[Destroyer] = "gone" /\ UNCHANGED barrierVars

BarrierNext ==
    \/ \E t \in BarrierThreads : BarrierStep(t)
    \/ \E u \in Everyone : WakeUp(u)
    \/ DestroyBusy \/ Destroy \/ DestroyAgain
    \/ BarrierFinished

\* Every runnable thread is scheduled; nobody need destroy the barrier, and
\* nobody is owed a wake-up for no reason
BarrierFairness ==
    /\ \A t \in BarrierThreads : WF_barrierVars(BarrierStep(t))
    /\ WF_barrierVars(DestroyAgain)

BarrierSpec == BarrierInit /\ [][BarrierNext]_barrierVars

BarrierFairSpec == BarrierSpec /\ BarrierFairness

-----------------------------------------------------------------------------
(* Properties *)

\* The counters stand for the threads of the open round and for those inside,
\* whoever races ahead into the next round
CountsAgree ==
    /\ waiting = Cardinality(Open)
    /\ inside = Cardinality(Inside)

\* A destroyed barrier has nobody inside who would touch its mutex again
DestroyedEmpty == barrierPc[Destroyer] = "gone" => Inside = {}

\* Rounds of Count: nobody leaves early, woken for no reason or by the round
\* after, and everybody released leaves
Rounds == INSTANCE AbstractBarrier WITH
    Threads <- BarrierThreads, open <- Open, released <- Inside \ Open

ImplementsBarrier == Rounds!Spec

\* A destroy that waits for released threads is woken by the last of them
DestroyEnds == barrierPc[Destroyer] = "asleep" ~> barrierPc[Destroyer] = "gone"
=============================================================================
