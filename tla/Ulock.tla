------------------------------- MODULE Ulock --------------------------------
(***************************************************************************)
(* The internal lock of libphoenix (sys/ulock.c, sys/ulock-internal.h): one *)
(* word, a bounded spin, then a futex.  malloc, stdio, environ, atexit, the *)
(* pthread key and list locks and the PTHREAD_MUTEX_NORMAL mutexes are this *)
(* lock.                                                                   *)
(*                                                                         *)
(* One action is one access to the word or one system call.  Atomic        *)
(* accesses are taken to be sequentially consistent.  The futex itself     *)
(* (compare and sleep in one step, wake one sleeper) is the kernel's and   *)
(* is modelled from how the code uses it.                                  *)
(***************************************************************************)
EXTENDS Naturals

CONSTANTS
    Threads,    \* callers of the lock
    Timed,      \* those that call _ulock_lockSlow() with a timeout
    Spin,       \* ULOCK_SPIN
    Rounds      \* bound: how many times each thread calls for the lock

ASSUME UlockAssumption ==
    /\ Timed \subseteq Threads
    /\ Spin \in Nat
    /\ Rounds \in Nat

VARIABLES
    word,       \* the lock word
    pc,         \* where each thread is in the lock's code
    polls,      \* `i` of the spin loop
    left        \* calls a thread still has to make

vars == <<word, pc, polls, left>>

ULOCK_FREE      == 0
ULOCK_LOCKED    == 1
ULOCK_CONTENDED == 2

(***************************************************************************)
(* The places a thread can be at:                                          *)
(*   out      not calling               spin     about to load the word    *)
(*   cas      about to compare-and-swap mark     about to exchange         *)
(*   wait     about to call futexWait   asleep   sleeping in the kernel    *)
(*   in       holding the lock          wake     about to call futexWake   *)
(***************************************************************************)
Places == {"out", "spin", "cas", "mark", "wait", "asleep", "in", "wake"}

TypeOK ==
    /\ word \in {ULOCK_FREE, ULOCK_LOCKED, ULOCK_CONTENDED}
    /\ pc \in [Threads -> Places]
    /\ polls \in [Threads -> 0 .. Spin]
    /\ left \in [Threads -> 0 .. Rounds]

At(place) == {t \in Threads : pc[t] = place}

GoTo(t, place) == pc' = [pc EXCEPT ![t] = place]

\* The loop of _ulock_lockSlow() polls at most ULOCK_SPIN times
AfterPoll(t) ==
    /\ polls' = [polls EXCEPT ![t] = @ + 1]
    /\ GoTo(t, IF polls[t] + 1 < Spin THEN "spin" ELSE "mark")

-----------------------------------------------------------------------------
Init ==
    /\ word = ULOCK_FREE
    /\ pc = [t \in Threads |-> "out"]
    /\ polls = [t \in Threads |-> 0]
    /\ left = [t \in Threads |-> Rounds]

Call(t) ==
    /\ pc[t] = "out" /\ left[t] > 0
    /\ left' = [left EXCEPT ![t] = @ - 1]

\* _ulock_tryLock() succeeds: for _ulock_lock() as for a call of its own
TakeFree(t) ==
    /\ Call(t)
    /\ word = ULOCK_FREE
    /\ word' = ULOCK_LOCKED
    /\ GoTo(t, "in")
    /\ UNCHANGED polls

\* _ulock_tryLock() called on its own finds the lock held: -EBUSY
TryBusy(t) ==
    /\ Call(t)
    /\ word # ULOCK_FREE
    /\ UNCHANGED <<word, pc, polls>>

\* _ulock_lock() finds the lock held and enters _ulock_lockSlow()
EnterSlow(t) ==
    /\ Call(t)
    /\ word # ULOCK_FREE
    /\ polls' = [polls EXCEPT ![t] = 0]
    /\ GoTo(t, IF Spin > 0 THEN "spin" ELSE "mark")
    /\ UNCHANGED word

SpinLoad(t) ==
    /\ pc[t] = "spin"
    /\ IF word = ULOCK_FREE
         THEN GoTo(t, "cas") /\ UNCHANGED polls
         ELSE AfterPoll(t)
    /\ UNCHANGED <<word, left>>

\* Mutant: a store in place of the compare-and-swap
SpinCas_Store(t) ==
    /\ pc[t] = "cas"
    /\ word' = ULOCK_LOCKED
    /\ GoTo(t, "in")
    /\ UNCHANGED <<polls, left>>

SpinCas(t) ==
    /\ pc[t] = "cas"
    /\ \/ /\ word = ULOCK_FREE
          /\ word' = ULOCK_LOCKED
          /\ GoTo(t, "in")
          /\ UNCHANGED polls
       \/ /\ word # ULOCK_FREE
          /\ AfterPoll(t)
          /\ UNCHANGED word
    /\ UNCHANGED left

\* Mutant: a lock taken in the slow path is not left marked
Mark_TakesUnmarked(t) ==
    /\ pc[t] = "mark"
    /\ word' = IF word = ULOCK_FREE THEN ULOCK_LOCKED ELSE ULOCK_CONTENDED
    /\ GoTo(t, IF word = ULOCK_FREE THEN "in" ELSE "wait")
    /\ UNCHANGED <<polls, left>>

\* The exchange that takes a free lock leaves it marked: others may be asleep
Mark(t) ==
    /\ pc[t] = "mark"
    /\ word' = ULOCK_CONTENDED
    /\ GoTo(t, IF word = ULOCK_FREE THEN "in" ELSE "wait")
    /\ UNCHANGED <<polls, left>>

-----------------------------------------------------------------------------
(* futexWait(word, ULOCK_CONTENDED, timeout, clock)                        *)

FutexSleep(t) ==
    /\ pc[t] = "wait"
    /\ word = ULOCK_CONTENDED
    /\ GoTo(t, "asleep")
    /\ UNCHANGED <<word, polls, left>>

\* -EAGAIN, the word has moved; or the kernel cannot put the thread to sleep
\* and it polls instead
FutexRefuse(t) ==
    /\ pc[t] = "wait"
    /\ GoTo(t, "mark")
    /\ UNCHANGED <<word, polls, left>>

\* A signal handler ran: -EINTR
FutexInterrupt(t) ==
    /\ pc[t] = "asleep"
    /\ GoTo(t, "mark")
    /\ UNCHANGED <<word, polls, left>>

\* -ETIME: a deadline already past is reported without sleeping
FutexTimeout(t) ==
    /\ t \in Timed
    /\ pc[t] \in {"wait", "asleep"}
    /\ GoTo(t, "out")
    /\ UNCHANGED <<word, polls, left>>

-----------------------------------------------------------------------------
(* _ulock_unlock(): the exchange is the last access to the lock's memory   *)

Release(t) ==
    /\ pc[t] = "in"
    /\ word' = ULOCK_FREE
    /\ GoTo(t, IF word = ULOCK_CONTENDED THEN "wake" ELSE "out")
    /\ UNCHANGED <<polls, left>>

\* futexWake(word, 1): some sleeper, in no particular order, or nobody
FutexWake(t) ==
    /\ pc[t] = "wake"
    /\ \/ /\ At("asleep") = {}
          /\ GoTo(t, "out")
       \/ \E u \in At("asleep") :
             pc' = [pc EXCEPT ![t] = "out", ![u] = "mark"]
    /\ UNCHANGED <<word, polls, left>>

-----------------------------------------------------------------------------
\* Steps a scheduled thread takes by itself
Step(t) ==
    \/ TakeFree(t) \/ TryBusy(t) \/ EnterSlow(t)
    \/ SpinLoad(t) \/ SpinCas(t) \/ Mark(t)
    \/ FutexSleep(t) \/ FutexRefuse(t)
    \/ Release(t) \/ FutexWake(t)

\* Steps nobody may count on
Chance(t) == FutexInterrupt(t) \/ FutexTimeout(t)

AllDone == \A t \in Threads : pc[t] = "out" /\ left[t] = 0

Finished == AllDone /\ UNCHANGED vars

Next == (\E t \in Threads : Step(t) \/ Chance(t)) \/ Finished

\* The kernel schedules every runnable thread; it owes nobody a signal or a
\* timeout
Fairness == \A t \in Threads : WF_vars(Step(t))

Spec == Init /\ [][Next]_vars

FairSpec == Spec /\ Fairness

-----------------------------------------------------------------------------
(* Properties *)

\* A thread that is about to poll has polls left (with it TypeOK is inductive)
PollsBelow == \A t \in Threads : pc[t] \in {"spin", "cas"} => polls[t] < Spin

\* The word says FREE exactly while no thread is between taking and releasing
\* it, and never two threads are: the guarantee every internal lock user
\* (heap, streams, environ, key lists) rests on.
MutualExclusion ==
    /\ \A t, u \in Threads : pc[t] = "in" /\ pc[u] = "in" => t = u
    /\ word = ULOCK_FREE <=> \A t \in Threads : pc[t] # "in"

\* No sleeper is forgotten: while a thread sleeps the word is marked, so that
\* the release wakes somebody, or a wake-up is on its way, or a woken thread is
\* about to mark the word again.  This is why the slow path leaves a lock it
\* takes marked CONTENDED.
NoLostWakeup ==
    At("asleep") # {} =>
        word = ULOCK_CONTENDED \/ At("wake") # {} \/ At("mark") # {}

\* The lock implements the abstract one, its progress included.
Phase == [t \in Threads |->
            IF pc[t] = "in" THEN "in"
            ELSE IF pc[t] \in {"out", "wake"} THEN "out" ELSE "waiting"]

Abstract == INSTANCE AbstractLock WITH phase <- Phase

ImplementsAbstractLock == Abstract!Spec
=============================================================================
