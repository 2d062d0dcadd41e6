---------------------------- MODULE PthreadCond -----------------------------
(***************************************************************************)
(* The condition variable of pthread/pthread.c: one word that holds the    *)
(* number of threads inside a wait and a sequence number every signal      *)
(* advances.  A waiter registers and samples the word in one atomic add,   *)
(* releases the mutex, sleeps until the sequence moves, deregisters and    *)
(* takes the mutex again.                                                  *)
(*                                                                         *)
(* The mutex is taken as what modules Ulock and PthreadMutex show it to    *)
(* be: handed to one thread at a time.  The callers are producers that     *)
(* add an item under the mutex and then signal or broadcast, and consumers *)
(* that wait in a loop until there is an item.                             *)
(***************************************************************************)
EXTENDS Naturals, FiniteSets

CONSTANTS
    Producers, Consumers,
    CondTimed,      \* consumers whose waits have a deadline
    NoThread,       \* owner of a free mutex
    SeqModulus,     \* values of the sequence field, 2^16 in the code
    Items,          \* bound: items each producer adds
    Wanted,         \* bound: items each consumer wants
    MaxInterrupts   \* bound: signal handlers run during waits

CondCallers == Producers \cup Consumers

\* What the callers provide; instances assume it
CondAssumption ==
    /\ Producers \cap Consumers = {}
    /\ CondTimed \subseteq Consumers
    /\ NoThread \notin CondCallers
    /\ IsFiniteSet(CondCallers)
    /\ SeqModulus \in Nat \ {0} /\ Items \in Nat /\ Wanted \in Nat /\ MaxInterrupts \in Nat

VARIABLES
    word,           \* cond->seq: the waiter count and the sequence number
    mutex,          \* the thread that holds the callers' mutex
    items,          \* what the callers' predicate is about
    condPc,
    sample,         \* `v` of each waiter: the word as it last read it
    mine,           \* `seq` of each waiter: the sequence number it registered at
    werr,           \* TRUE when the wait ended with -ETIME
    wakes,          \* `count` each waker passes to futexWake(): "one" or "all"
    condLeft,       \* items each caller still has to add or to take
    interrupts,     \* signal handlers run so far
    called          \* history: waiters a broadcast was addressed to

condVars == <<word, mutex, items, condPc, sample, mine, werr, wakes, condLeft,
              interrupts, called>>

Word == [waiters : 0 .. Cardinality(CondCallers), seq : 0 .. SeqModulus - 1]

Places ==
    {"out",         \* not calling
     "in",          \* holds the mutex
     "registered",  \* counted as a waiter, still holds the mutex
     "check",       \* about to compare the sample, then call futexWait
     "asleep",
     "reload",      \* futexWait has returned
     "leave",       \* out of the loop, still counted
     "relock",      \* takes the mutex again
     "signal",      \* about to advance the sequence
     "wake"}        \* about to call futexWake

CondTypeOK ==
    /\ word \in Word
    /\ mutex \in CondCallers \cup {NoThread}
    /\ items \in 0 .. Items * Cardinality(Producers)
    /\ condPc \in [CondCallers -> Places]
    /\ sample \in [CondCallers -> Word]
    /\ mine \in [CondCallers -> 0 .. SeqModulus - 1]
    /\ werr \in [CondCallers -> BOOLEAN]
    /\ wakes \in [CondCallers -> {"one", "all"}]
    /\ condLeft \in [CondCallers -> 0 .. Items + Wanted]
    /\ interrupts \in 0 .. MaxInterrupts
    /\ called \subseteq CondCallers

CondGoTo(t, place) == condPc' = [condPc EXCEPT ![t] = place]

At(places) == {t \in CondCallers : condPc[t] \in places}

\* The threads the waiter count counts
Registered == At({"registered", "check", "asleep", "reload", "leave"})

-----------------------------------------------------------------------------
CondInit ==
    /\ word = [waiters |-> 0, seq |-> 0]
    /\ mutex = NoThread
    /\ items = 0
    /\ condPc = [t \in CondCallers |-> "out"]
    /\ sample = [t \in CondCallers |-> word]
    /\ mine = [t \in CondCallers |-> 0]
    /\ werr = [t \in CondCallers |-> FALSE]
    /\ wakes = [t \in CondCallers |-> "one"]
    /\ condLeft = [t \in CondCallers |-> IF t \in Producers THEN Items ELSE Wanted]
    /\ interrupts = 0
    /\ called = {}

-----------------------------------------------------------------------------
(* The callers *)

Lock(t) ==
    /\ condPc[t] = "out" /\ condLeft[t] > 0
    /\ mutex = NoThread
    /\ mutex' = t
    /\ CondGoTo(t, "in")
    /\ UNCHANGED <<word, items, sample, mine, werr, wakes, condLeft, interrupts, called>>

\* A producer adds an item and signals with or without the mutex
Add(p) ==
    /\ p \in Producers /\ condPc[p] = "in"
    /\ items' = items + 1
    /\ condLeft' = [condLeft EXCEPT ![p] = @ - 1]
    /\ mutex' \in {p, NoThread}
    /\ \E w \in {"one", "all"} : wakes' = [wakes EXCEPT ![p] = w]
    /\ CondGoTo(p, "signal")
    /\ UNCHANGED <<word, sample, mine, werr, interrupts, called>>

TakeItem(c) ==
    /\ c \in Consumers /\ condPc[c] = "in" /\ items > 0
    /\ items' = items - 1
    /\ condLeft' = [condLeft EXCEPT ![c] = @ - 1]
    /\ mutex' = NoThread
    /\ werr' = [werr EXCEPT ![c] = FALSE]
    /\ CondGoTo(c, "out")
    /\ UNCHANGED <<word, sample, mine, wakes, interrupts, called>>

\* A consumer told ETIMEDOUT that still finds no item gives up
GiveUpItem(c) ==
    /\ c \in Consumers /\ condPc[c] = "in" /\ items = 0 /\ werr[c]
    /\ condLeft' = [condLeft EXCEPT ![c] = 0]
    /\ mutex' = NoThread
    /\ CondGoTo(c, "out")
    /\ UNCHANGED <<word, items, sample, mine, werr, wakes, interrupts, called>>

-----------------------------------------------------------------------------
(* pthread_cond_wait(), pthread_cond_clockwait(): pthread_cond_waitInternal() *)

\* One atomic add registers the waiter and samples the sequence
Register(c) ==
    /\ c \in Consumers /\ condPc[c] = "in" /\ items = 0 /\ ~werr[c]
    /\ word' = [word EXCEPT !.waiters = @ + 1]
    /\ sample' = [sample EXCEPT ![c] = word']
    /\ mine' = [mine EXCEPT ![c] = word.seq]
    /\ CondGoTo(c, "registered")
    /\ UNCHANGED <<mutex, items, werr, wakes, condLeft, interrupts, called>>

\* A wait whose deadline has passed at the call times out with the mutex held
TooLate(c) ==
    /\ c \in CondTimed /\ condPc[c] = "in" /\ items = 0 /\ ~werr[c]
    /\ werr' = [werr EXCEPT ![c] = TRUE]
    /\ UNCHANGED <<word, mutex, items, condPc, sample, mine, wakes, condLeft, interrupts, called>>

\* Mutant: the sequence is sampled after the mutex was released
UnlockMutex_SamplesLate(c) ==
    /\ condPc[c] = "registered"
    /\ mutex' = IF mutex = c THEN NoThread ELSE mutex
    /\ IF mutex = c
         THEN UNCHANGED <<sample, mine, condPc>>
         ELSE /\ sample' = [sample EXCEPT ![c] = word]
              /\ mine' = [mine EXCEPT ![c] = word.seq]
              /\ CondGoTo(c, "check")
    /\ UNCHANGED <<word, items, werr, wakes, condLeft, interrupts, called>>

UnlockMutex(c) ==
    /\ condPc[c] = "registered"
    /\ mutex' = NoThread
    /\ CondGoTo(c, "check")
    /\ UNCHANGED <<word, items, sample, mine, werr, wakes, condLeft, interrupts, called>>

SequenceMoved(c) == sample[c].seq # mine[c]

FutexSleep(c) ==
    /\ condPc[c] = "check" /\ ~SequenceMoved(c)
    /\ word = sample[c]
    /\ CondGoTo(c, "asleep")
    /\ UNCHANGED <<word, mutex, items, sample, mine, werr, wakes, condLeft, interrupts, called>>

\* -EAGAIN, maybe only because the count changed; or the kernel cannot put the
\* thread to sleep and it polls
FutexRefuse(c) ==
    /\ condPc[c] = "check" /\ ~SequenceMoved(c)
    /\ CondGoTo(c, "reload")
    /\ UNCHANGED <<word, mutex, items, sample, mine, werr, wakes, condLeft, interrupts, called>>

\* A signal handler ran: the wait ends as a spurious wakeup
FutexInterrupt(c) ==
    /\ condPc[c] = "asleep" /\ interrupts < MaxInterrupts
    /\ interrupts' = interrupts + 1
    /\ CondGoTo(c, "leave")
    /\ UNCHANGED <<word, mutex, items, sample, mine, werr, wakes, condLeft, called>>

\* Mutant: a wait that times out does not deregister
FutexTimeout_StaysCounted(c) ==
    /\ c \in CondTimed /\ condPc[c] = "asleep"
    /\ werr' = [werr EXCEPT ![c] = TRUE]
    /\ CondGoTo(c, "relock")
    /\ UNCHANGED <<word, mutex, items, sample, mine, wakes, condLeft, interrupts, called>>

FutexTimeout(c) ==
    /\ c \in CondTimed /\ condPc[c] = "asleep"
    /\ werr' = [werr EXCEPT ![c] = TRUE]
    /\ CondGoTo(c, "leave")
    /\ UNCHANGED <<word, mutex, items, sample, mine, wakes, condLeft, interrupts, called>>

\* The sequence is looked at again; a deadline on the wall clock is compared
\* anew at a wake-up without a signal
Reload(c) ==
    /\ condPc[c] = "reload"
    /\ sample' = [sample EXCEPT ![c] = word]
    /\ \/ CondGoTo(c, "check") /\ UNCHANGED werr
       \/ /\ c \in CondTimed /\ word.seq = mine[c]
          /\ werr' = [werr EXCEPT ![c] = TRUE]
          /\ CondGoTo(c, "leave")
    /\ UNCHANGED <<word, mutex, items, mine, wakes, condLeft, interrupts, called>>

LoopEnds(c) ==
    /\ condPc[c] = "check" /\ SequenceMoved(c)
    /\ CondGoTo(c, "leave")
    /\ UNCHANGED <<word, mutex, items, sample, mine, werr, wakes, condLeft, interrupts, called>>

Leave(c) ==
    /\ condPc[c] = "leave"
    /\ word' = [word EXCEPT !.waiters = @ - 1]
    /\ called' = called \ {c}
    /\ CondGoTo(c, "relock")
    /\ UNCHANGED <<mutex, items, sample, mine, werr, wakes, condLeft, interrupts>>

\* ETIMEDOUT only if no signal was seen
Relock(c) ==
    /\ condPc[c] = "relock"
    /\ mutex = NoThread
    /\ mutex' = c
    /\ werr' = [werr EXCEPT ![c] = @ /\ ~SequenceMoved(c)]
    /\ CondGoTo(c, "in")
    /\ UNCHANGED <<word, items, sample, mine, wakes, condLeft, interrupts, called>>

-----------------------------------------------------------------------------
(* pthread_cond_signal(), pthread_cond_broadcast(): pthread_cond_wake() *)

\* What the caller does after the call: leaves the mutex if it holds it
Signalled(p) ==
    /\ mutex' = IF mutex = p THEN NoThread ELSE mutex
    /\ CondGoTo(p, "out")

\* Mutant: the sleepers are woken and the sequence stays
Advance_SameSequence(p) ==
    /\ condPc[p] = "signal"
    /\ called' = IF wakes[p] = "all" THEN called \cup Registered ELSE called
    /\ IF word.waiters # 0
         THEN CondGoTo(p, "wake") /\ UNCHANGED mutex
         ELSE Signalled(p)
    /\ UNCHANGED <<word, items, sample, mine, werr, wakes, condLeft, interrupts>>

Advance(p) ==
    /\ condPc[p] = "signal"
    /\ word' = [word EXCEPT !.seq = (@ + 1) % SeqModulus]
    /\ called' = IF wakes[p] = "all" THEN called \cup Registered ELSE called
    /\ IF word.waiters # 0
         THEN CondGoTo(p, "wake") /\ UNCHANGED mutex
         ELSE Signalled(p)
    /\ UNCHANGED <<items, sample, mine, werr, wakes, condLeft, interrupts>>

\* futexWake(): one sleeper, in no particular order, or all of them
FutexWake(p) ==
    /\ condPc[p] = "wake"
    /\ LET asleep == At({"asleep"})
       IN  \E woken \in IF wakes[p] = "all" \/ asleep = {} THEN {asleep}
                        ELSE {{t} : t \in asleep} :
             condPc' = [t \in CondCallers |-> IF t \in woken THEN "reload"
                                     ELSE IF t = p THEN "out" ELSE condPc[t]]
    /\ mutex' = IF mutex = p THEN NoThread ELSE mutex
    /\ UNCHANGED <<word, items, sample, mine, werr, wakes, condLeft, interrupts, called>>

-----------------------------------------------------------------------------
Waiting(c) ==
    \/ Register(c) \/ UnlockMutex(c)
    \/ FutexSleep(c) \/ FutexRefuse(c)
    \/ Reload(c) \/ LoopEnds(c) \/ Leave(c) \/ Relock(c)

Waking(p) == Advance(p) \/ FutexWake(p)

Calling(t) == Lock(t) \/ Add(t) \/ TakeItem(t) \/ GiveUpItem(t)

CondStep(t) == Waiting(t) \/ Waking(t) \/ Calling(t)

Chance(t) == FutexInterrupt(t) \/ FutexTimeout(t) \/ TooLate(t)

AllDone == \A t \in CondCallers : condPc[t] = "out" /\ condLeft[t] = 0

CondFinished == AllDone /\ UNCHANGED condVars

CondNext == (\E t \in CondCallers : CondStep(t) \/ Chance(t)) \/ CondFinished

\* Every runnable thread is scheduled.  The mutex is only asked to be handed
\* over when it stays free: the calls are bounded, so it does in the end.
CondFairness == \A t \in CondCallers : WF_condVars(CondStep(t))

CondSpec == CondInit /\ [][CondNext]_condVars

CondFairSpec == CondSpec /\ CondFairness

-----------------------------------------------------------------------------
(* Properties *)

\* The waiter count is the number of threads inside a wait, on every path out
\* of it: a signal that finds it zero may do nothing, and destroying the
\* variable is refused exactly while somebody still looks at it.
CountIsExact == CondTypeOK /\ word.waiters = Cardinality(Registered)

\* A broadcast reaches every thread that was waiting when it advanced the
\* sequence, the ones not yet asleep included: none of them sleeps once the
\* broadcaster has woken the sleepers.
BroadcastReachesAll ==
    \A t \in called :
        condPc[t] = "asleep" => \E p \in Producers : condPc[p] = "wake" /\ wakes[p] = "all"

\* A signal is not lost between the predicate and the sleep: when nobody is on
\* the way any more, a thread still asleep has nothing to take.
NobodyStranded ==
    At(Places \ {"asleep", "out"}) = {} /\ At({"asleep"}) # {} =>
        \/ items = 0
        \/ \E t \in CondCallers : condPc[t] = "out" /\ condLeft[t] > 0

\* With an item for every take all calls return, with no help from deadlines or
\* interrupts, whichever sleepers the kernel chooses to wake: a waiter that came
\* after the signal and swallows its wake-up came after the item was taken.
EverybodyServed == <>AllDone
=============================================================================
