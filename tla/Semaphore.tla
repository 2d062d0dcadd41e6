------------------------------ MODULE Semaphore -----------------------------
(***************************************************************************)
(* The semaphore of sys/semaphore.c: a count and a number of waiters under *)
(* a kernel mutex, and a kernel condition variable signalled after the     *)
(* mutex was released.                                                     *)
(*                                                                         *)
(* What a call does between taking the mutex and giving it back, to a wait *)
(* too, is one step: nobody looks at the fields without the mutex, and the *)
(* kernel releases it and puts the thread to sleep in one.  A Timed        *)
(* taker's deadline may pass at any time.                                  *)
(***************************************************************************)
EXTENDS Naturals, FiniteSets

CONSTANTS
    Takers, Posters,
    SemTimed,       \* takers whose calls have a deadline
    Initials,       \* counts given to semaphoreCreate()
    ValueMax,       \* SEM_VALUE_MAX
    Downs, Ups      \* bounds: calls of each taker and of each poster

SemCallers == Takers \cup Posters

ASSUME SemAssumption ==
    /\ IsFiniteSet(SemCallers) /\ Takers \cap Posters = {}
    /\ ValueMax \in Nat /\ Initials \subseteq 0..ValueMax

VARIABLES
    v,
    waiters,
    semPc,      \* out; asleep, woken, late: in condWait(); signal: about to signal
    semLeft,    \* calls left
    units       \* history: units each taker was given

semVars == <<v, waiters, semPc, semLeft, units>>

SemGoTo(t, place) == semPc' = [semPc EXCEPT ![t] = place]

SemInit ==
    /\ v \in Initials
    /\ waiters = 0
    /\ semPc = [t \in SemCallers |-> "out"]
    /\ semLeft = [t \in SemCallers |-> IF t \in Takers THEN Downs ELSE Ups]
    /\ units = [t \in Takers |-> 0]

SemCall(t) ==
    /\ semPc[t] = "out" /\ semLeft[t] > 0
    /\ semLeft' = [semLeft EXCEPT ![t] = @ - 1]

TakeUnit(t) ==
    /\ v > 0
    /\ v' = v - 1
    /\ units' = [units EXCEPT ![t] = @ + 1]

-----------------------------------------------------------------------------
(* semaphoreDown(), semaphoreDownAtClock(), semaphoreTryDown() *)

DownAtOnce(t) == SemCall(t) /\ TakeUnit(t) /\ UNCHANGED <<waiters, semPc>>

DownWaits(t) ==
    /\ SemCall(t) /\ v = 0
    /\ waiters' = waiters + 1
    /\ SemGoTo(t, "asleep")
    /\ UNCHANGED <<v, units>>

\* -EAGAIN, or -ETIME for a deadline at or before the epoch
Refused(t) == SemCall(t) /\ v = 0 /\ UNCHANGED <<v, waiters, semPc, units>>

\* A signal handler ran: the wait returns without a signal
CondInterrupt(t) ==
    /\ semPc[t] = "asleep"
    /\ SemGoTo(t, "woken")
    /\ UNCHANGED <<v, waiters, semLeft, units>>

CondTimeout(t) ==
    /\ t \in SemTimed /\ semPc[t] = "asleep"
    /\ SemGoTo(t, "late")
    /\ UNCHANGED <<v, waiters, semLeft, units>>

\* The thread has the mutex again and looks once more
DownResumes(t) ==
    /\ semPc[t] = "woken"
    /\ \/ TakeUnit(t) /\ waiters' = waiters - 1 /\ SemGoTo(t, "out")
       \/ v = 0 /\ SemGoTo(t, "asleep") /\ UNCHANGED <<v, waiters, units>>
    /\ UNCHANGED semLeft

\* -ETIME, even if there is a unit by now
DownGivesUp(t) ==
    /\ semPc[t] = "late"
    /\ waiters' = waiters - 1
    /\ SemGoTo(t, "out")
    /\ UNCHANGED <<v, semLeft, units>>

-----------------------------------------------------------------------------
(* semaphoreUp() *)

\* Mutant: only the first unit is signalled, what the comment warns of
Up_FromZero(p) ==
    /\ SemCall(p)
    /\ v < ValueMax
    /\ v' = v + 1
    /\ SemGoTo(p, IF waiters > 0 /\ v = 0 THEN "signal" ELSE "out")
    /\ UNCHANGED <<waiters, units>>

Up(p) ==
    /\ SemCall(p)
    /\ v < ValueMax
    /\ v' = v + 1
    /\ SemGoTo(p, IF waiters > 0 THEN "signal" ELSE "out")
    /\ UNCHANGED <<waiters, units>>

\* -EOVERFLOW
UpFull(p) == SemCall(p) /\ v = ValueMax /\ UNCHANGED <<v, waiters, semPc, units>>

\* condSignal(), the mutex released: one sleeper, if there still is one
Signal(p) ==
    /\ semPc[p] = "signal"
    /\ LET asleep == {t \in Takers : semPc[t] = "asleep"}
       IN  IF asleep = {}
             THEN SemGoTo(p, "out")
             ELSE \E t \in asleep :
                      semPc' = [semPc EXCEPT ![p] = "out", ![t] = "woken"]
    /\ UNCHANGED <<v, waiters, semLeft, units>>

-----------------------------------------------------------------------------
Down(t) == DownAtOnce(t) \/ DownWaits(t) \/ Refused(t) \/ DownResumes(t) \/ DownGivesUp(t)

Posting(p) == Up(p) \/ UpFull(p) \/ Signal(p)

SemStep(t) == (t \in Takers /\ Down(t)) \/ (t \in Posters /\ Posting(t))

\* Takers may be left asleep when nobody posts any more
SemFinished ==
    /\ \A t \in SemCallers : semPc[t] = "asleep" \/ (semPc[t] = "out" /\ semLeft[t] = 0)
    /\ UNCHANGED semVars

SemNext ==
    \/ \E t \in SemCallers : SemStep(t)
    \/ \E t \in Takers : CondInterrupt(t) \/ CondTimeout(t)
    \/ SemFinished

\* Threads that can run are scheduled
SemSpec == SemInit /\ [][SemNext]_semVars /\ \A t \in SemCallers : WF_semVars(SemStep(t))

-----------------------------------------------------------------------------
Counting == INSTANCE AbstractSemaphore WITH
    count <- v, waiting <- {t \in Takers : semPc[t] \in {"asleep", "woken", "late"}}

\* The count and the wake-ups make a counting semaphore: each unit goes to one
\* taker, a taker that gives up neither loses a unit nor makes one up, and no
\* unit stays unused while a taker sleeps for one.
ImplementsSemaphore == Counting!Spec
=============================================================================
