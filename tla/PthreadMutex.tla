---------------------------- MODULE PthreadMutex ----------------------------
(***************************************************************************)
(* The owner-tracking user-space mutex of pthread/pthread.c: recursive and *)
(* error-checking mutexes of protocol PTHREAD_PRIO_NONE.  The lock word    *)
(* holds its owner and the mark that a thread may be asleep on it, the     *)
(* `initialized` word the depth beyond the first lock.  (A normal mutex is *)
(* the lock of module Ulock, any other a kernel mutex.)                    *)
(*                                                                         *)
(* One action is one atomic access or system call; the futex is the        *)
(* kernel's.  Every call first reads the `initialized` word and works with *)
(* that copy of the depth from then on.                                    *)
(***************************************************************************)
EXTENDS Naturals

CONSTANTS
    Threads,    \* users of the mutex
    NoOwner,    \* the owner field of a free mutex: 0
    Recursive,  \* the kind: PTHREAD_MUTEX_RECURSIVE or ERRORCHECK
    MaxDepth,   \* the largest depth the word can hold, 2^24 - 1 in the code
    Spin,       \* MUTEX_OWNED_SPIN
    Budgets     \* bound: calls each thread makes besides its unlocks, in each behaviour

ASSUME MutexAssumption ==
    /\ NoOwner \notin Threads
    /\ Recursive \in BOOLEAN
    /\ MaxDepth \in Nat /\ Spin \in Nat
    /\ Budgets \subseteq [Threads -> Nat]

VARIABLES
    lock,       \* owner and waiters mark of the lock word
    depth,      \* the depth field of the `initialized` word
    flags,      \* each thread's copy of the depth, read when its call began
    op,         \* the kind of locking call each thread is in
    pc,         \* where in the code it is
    seen,       \* `v`: the owner it saw in the slow path
    polls,      \* `i` of its spin loop
    left,       \* calls it has still to make
    held        \* history: locks a thread was granted and has not given back

vars == <<lock, depth, flags, op, pc, seen, polls, left, held>>

(***************************************************************************)
(* lock: pthread_mutex_lock.  try: pthread_mutex_trylock.  probe and       *)
(* timed: pthread_mutex_clocklock, its trylock and then its timed wait.    *)
(***************************************************************************)
Ops == {"lock", "try", "probe", "timed"}

\* out: not in a call; take, mark: about to compare-and-swap in the slow path
Places == {"out", "first", "spin", "cas", "slow", "take", "mark", "wait",
           "asleep", "unlock", "wake"}

Free == [owner |-> NoOwner, waiters |-> FALSE]

TypeOK ==
    /\ lock \in [owner : Threads \cup {NoOwner}, waiters : BOOLEAN]
    /\ depth \in 0 .. MaxDepth
    /\ flags \in [Threads -> 0 .. MaxDepth]
    /\ op \in [Threads -> Ops]
    /\ pc \in [Threads -> Places]
    /\ seen \in [Threads -> Threads \cup {NoOwner}]
    /\ polls \in [Threads -> 0 .. Spin]
    /\ left \in [Threads -> Nat]
    /\ held \in [Threads -> Nat]

At(places) == {t \in Threads : pc[t] \in places}

GoTo(t, place) == pc' = [pc EXCEPT ![t] = place]

Granted(t) == held' = [held EXCEPT ![t] = @ + 1] /\ GoTo(t, "out")

AfterPoll(t) ==
    /\ polls' = [polls EXCEPT ![t] = @ + 1]
    /\ GoTo(t, IF polls[t] + 1 < Spin THEN "spin" ELSE "slow")

-----------------------------------------------------------------------------
Init ==
    /\ lock = Free
    /\ depth = 0
    /\ flags = [t \in Threads |-> 0]
    /\ op = [t \in Threads |-> "lock"]
    /\ pc = [t \in Threads |-> "out"]
    /\ seen = [t \in Threads |-> NoOwner]
    /\ polls = [t \in Threads |-> 0]
    /\ left \in Budgets
    /\ held = [t \in Threads |-> 0]

\* pthread_mutex_flags()
ReadFlags(t) == flags' = [flags EXCEPT ![t] = depth]

Call(t) ==
    /\ pc[t] = "out" /\ left[t] > 0
    /\ left' = [left EXCEPT ![t] = @ - 1]
    /\ \E o \in {"lock", "try", "probe"} : op' = [op EXCEPT ![t] = o]
    /\ ReadFlags(t)
    /\ GoTo(t, "first")
    /\ UNCHANGED <<lock, depth, seen, polls, held>>

\* The compare-and-swap at the head of pthread_mutex_lockOwned() succeeds
FirstFree(t) ==
    /\ pc[t] = "first" /\ lock = Free
    /\ lock' = [owner |-> t, waiters |-> FALSE]
    /\ Granted(t)
    /\ UNCHANGED <<depth, flags, op, seen, polls, left>>

\* Mutant: the depth limit is not tested
FirstOwn_NoLimit(t) ==
    /\ pc[t] = "first" /\ lock.owner = t
    /\ IF Recursive
         THEN depth' = (depth + 1) % (MaxDepth + 1) /\ Granted(t)
         ELSE GoTo(t, "out") /\ UNCHANGED <<depth, held>>
    /\ UNCHANGED <<lock, flags, op, seen, polls, left>>

\* The caller owns the mutex: EDEADLK, EBUSY or EAGAIN, or one level deeper.
\* A probe that got EBUSY goes on to EDEADLK, or ETIMEDOUT, by another way.
FirstOwn(t) ==
    /\ pc[t] = "first" /\ lock.owner = t
    /\ IF Recursive /\ flags[t] # MaxDepth
         THEN depth' = (depth + 1) % (MaxDepth + 1) /\ Granted(t)
         ELSE GoTo(t, "out") /\ UNCHANGED <<depth, held>>
    /\ UNCHANGED <<lock, flags, op, seen, polls, left>>

FirstHeld(t) ==
    /\ pc[t] = "first" /\ lock.owner \notin {t, NoOwner}
    /\ \/ \* trylock: EBUSY; clocklock with a deadline already past: ETIMEDOUT
          /\ op[t] \in {"try", "probe"}
          /\ GoTo(t, "out")
          /\ UNCHANGED <<flags, op, polls>>
       \/ \* clocklock looks at the mutex again, this time to wait
          /\ op[t] = "probe"
          /\ op' = [op EXCEPT ![t] = "timed"]
          /\ ReadFlags(t)
          /\ UNCHANGED <<pc, polls>>
       \/ /\ op[t] \in {"lock", "timed"}
          /\ polls' = [polls EXCEPT ![t] = 0]
          /\ GoTo(t, IF Spin > 0 THEN "spin" ELSE "slow")
          /\ UNCHANGED <<flags, op>>
    /\ UNCHANGED <<lock, depth, seen, left, held>>

SpinLoad(t) ==
    /\ pc[t] = "spin"
    /\ IF lock = Free
         THEN GoTo(t, "cas") /\ UNCHANGED polls
         ELSE AfterPoll(t)
    /\ UNCHANGED <<lock, depth, flags, op, seen, left, held>>

SpinCas(t) ==
    /\ pc[t] = "cas"
    /\ IF lock = Free
         THEN /\ lock' = [owner |-> t, waiters |-> FALSE]
              /\ Granted(t)
              /\ UNCHANGED polls
         ELSE AfterPoll(t) /\ UNCHANGED <<lock, held>>
    /\ UNCHANGED <<depth, flags, op, seen, left>>

-----------------------------------------------------------------------------
(* The slow path: load, then take a free mutex marked or mark a held one   *)

SlowLoad(t) ==
    /\ pc[t] = "slow"
    /\ seen' = [seen EXCEPT ![t] = lock.owner]
    /\ GoTo(t, IF lock = Free THEN "take"
               ELSE IF lock.waiters THEN "wait" ELSE "mark")
    /\ UNCHANGED <<lock, depth, flags, op, polls, left, held>>

\* Mutant: the mutex is taken without the mark
SlowTake_Unmarked(t) ==
    /\ pc[t] = "take"
    /\ IF lock = Free
         THEN lock' = [owner |-> t, waiters |-> FALSE] /\ Granted(t)
         ELSE GoTo(t, "slow") /\ UNCHANGED <<lock, held>>
    /\ UNCHANGED <<depth, flags, op, seen, polls, left>>

SlowTake(t) ==
    /\ pc[t] = "take"
    /\ IF lock = Free
         THEN lock' = [owner |-> t, waiters |-> TRUE] /\ Granted(t)
         ELSE GoTo(t, "slow") /\ UNCHANGED <<lock, held>>
    /\ UNCHANGED <<depth, flags, op, seen, polls, left>>

\* Mutant: the mark is stored with the owner seen before
SlowMark_Store(t) ==
    /\ pc[t] = "mark"
    /\ lock' = [owner |-> seen[t], waiters |-> TRUE] /\ GoTo(t, "wait")
    /\ UNCHANGED <<depth, flags, op, seen, polls, left, held>>

SlowMark(t) ==
    /\ pc[t] = "mark"
    /\ IF lock = [owner |-> seen[t], waiters |-> FALSE]
         THEN lock' = [lock EXCEPT !.waiters = TRUE] /\ GoTo(t, "wait")
         ELSE GoTo(t, "slow") /\ UNCHANGED lock
    /\ UNCHANGED <<depth, flags, op, seen, polls, left, held>>

FutexSleep(t) ==
    /\ pc[t] = "wait" /\ lock = [owner |-> seen[t], waiters |-> TRUE]
    /\ GoTo(t, "asleep")
    /\ UNCHANGED <<lock, depth, flags, op, seen, polls, left, held>>

\* -EAGAIN, or the kernel cannot put the thread to sleep and it polls
FutexRefuse(t) ==
    /\ pc[t] = "wait"
    /\ GoTo(t, "slow")
    /\ UNCHANGED <<lock, depth, flags, op, seen, polls, left, held>>

FutexInterrupt(t) ==
    /\ pc[t] = "asleep"
    /\ GoTo(t, "slow")
    /\ UNCHANGED <<lock, depth, flags, op, seen, polls, left, held>>

FutexTimeout(t) ==
    /\ pc[t] \in {"wait", "asleep"} /\ op[t] = "timed"
    /\ GoTo(t, "out")
    /\ UNCHANGED <<lock, depth, flags, op, seen, polls, left, held>>

-----------------------------------------------------------------------------
CallUnlock(t) ==
    /\ pc[t] = "out"
    /\ \/ held[t] > 0 /\ UNCHANGED left
       \/ left[t] > 0 /\ left' = [left EXCEPT ![t] = @ - 1]
    /\ ReadFlags(t)
    /\ GoTo(t, "unlock")
    /\ UNCHANGED <<lock, depth, op, seen, polls, held>>

\* EPERM
UnlockNotOwner(t) ==
    /\ pc[t] = "unlock" /\ lock.owner # t
    /\ GoTo(t, "out")
    /\ UNCHANGED <<lock, depth, flags, op, seen, polls, left, held>>

UnlockOwner(t) ==
    /\ pc[t] = "unlock" /\ lock.owner = t
    /\ held' = [held EXCEPT ![t] = @ - 1]
    /\ IF flags[t] # 0
         THEN /\ depth' = (depth + MaxDepth) % (MaxDepth + 1)
              /\ GoTo(t, "out")
              /\ UNCHANGED lock
         ELSE /\ lock' = Free
              /\ GoTo(t, IF lock.waiters THEN "wake" ELSE "out")
              /\ UNCHANGED depth
    /\ UNCHANGED <<flags, op, seen, polls, left>>

FutexWake(t) ==
    /\ pc[t] = "wake"
    /\ \/ At({"asleep"}) = {} /\ GoTo(t, "out")
       \/ \E u \in At({"asleep"}) :
             pc' = [pc EXCEPT ![t] = "out", ![u] = "slow"]
    /\ UNCHANGED <<lock, depth, flags, op, seen, polls, left, held>>

-----------------------------------------------------------------------------
Locking(t) ==
    \/ Call(t) \/ FirstFree(t) \/ FirstOwn(t) \/ FirstHeld(t)
    \/ SpinLoad(t) \/ SpinCas(t)
    \/ SlowLoad(t) \/ SlowTake(t) \/ SlowMark(t)
    \/ FutexSleep(t) \/ FutexRefuse(t)

Unlocking(t) ==
    CallUnlock(t) \/ UnlockNotOwner(t) \/ UnlockOwner(t) \/ FutexWake(t)

Step(t) == Locking(t) \/ Unlocking(t)

Chance(t) == FutexInterrupt(t) \/ FutexTimeout(t)

AllDone == \A t \in Threads : pc[t] = "out" /\ left[t] = 0 /\ held[t] = 0

Finished == AllDone /\ UNCHANGED vars

Next == (\E t \in Threads : Step(t) \/ Chance(t)) \/ Finished

\* Every runnable thread is scheduled; nobody is owed a signal or a timeout
Fairness == \A t \in Threads : WF_vars(Step(t))

Spec == Init /\ [][Next]_vars

FairSpec == Spec /\ Fairness

-----------------------------------------------------------------------------
(* Properties *)

\* The two words of the mutex and what its users were told agree: a thread that
\* was granted n locks is the owner at depth n - 1, everybody else holds none.
\* It rules out two holders, a depth that drifts because a call worked with a
\* stale copy of it, an unlock by a non-owner that has an effect, and a depth
\* that wraps at its limit instead of failing with EAGAIN.
Accounting ==
    /\ \A t \in Threads : held[t] = IF lock.owner = t THEN depth + 1 ELSE 0
    /\ lock.owner = NoOwner => depth = 0

\* The copy of the depth an owner works with is the depth: only the owner's own
\* calls change it, so what it read at the start of a call still holds.
CopiesFresh == \A t \in Threads :
    lock.owner = t /\ pc[t] \in {"first", "unlock"} => flags[t] = depth

\* While a thread sleeps the word is marked, or a wake-up is on its way, or a
\* thread in the slow path will look at the word before it sleeps.
NoLostWakeup ==
    At({"asleep"}) # {} =>
        lock.waiters \/ At({"wake", "slow", "take", "mark"}) # {}

\* A free mutex is all zeroes: pthread_mutex_destroy() finds it unused, and the
\* first compare-and-swap of the next lock finds it free.
FreeIsUnmarked == lock.owner = NoOwner => lock = Free

\* The mutex implements the abstract lock, its progress included
Phase == [t \in Threads |->
            IF lock.owner = t THEN "in"
            ELSE IF pc[t] \in {"spin", "cas", "slow", "take", "mark", "wait", "asleep"}
                 THEN "waiting" ELSE "out"]

Abstract == INSTANCE AbstractLock WITH phase <- Phase

ImplementsAbstractLock == Abstract!Spec
=============================================================================
