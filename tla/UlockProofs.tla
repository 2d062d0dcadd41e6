---------------------------- MODULE UlockProofs -----------------------------
(***************************************************************************)
(* Theorems about Ulock for any set of threads, any spin bound and any     *)
(* number of calls.                                                        *)
(***************************************************************************)
EXTENDS Ulock, TLAPS

\* What the steps of the lock's code, and the kernel's, may do to the variables
LEMMA NextCases ==
    ASSUME Next
    PROVE  \/ UNCHANGED vars
           \/ \E t \in Threads : Step(t) \/ Chance(t)
BY DEF Next, Finished

\* The variables keep their types: in particular no poll counter passes
\* ULOCK_SPIN.
LEMMA TypeInductive == TypeOK /\ PollsBelow /\ [Next]_vars => TypeOK' /\ PollsBelow'
<1> SUFFICES ASSUME TypeOK, PollsBelow, [Next]_vars
             PROVE  TypeOK' /\ PollsBelow'
    OBVIOUS
<1> USE UlockAssumption DEF TypeOK, PollsBelow, Places, ULOCK_FREE, ULOCK_LOCKED, ULOCK_CONTENDED
<1>1. CASE UNCHANGED vars
    BY <1>1 DEF vars
<1>2. ASSUME NEW t \in Threads, TakeFree(t) \/ TryBusy(t) \/ EnterSlow(t)
      PROVE  TypeOK' /\ PollsBelow'
    BY <1>2 DEF TakeFree, TryBusy, EnterSlow, Call, GoTo
<1>3. ASSUME NEW t \in Threads, SpinLoad(t) \/ SpinCas(t)
      PROVE  TypeOK' /\ PollsBelow'
    BY <1>3 DEF SpinLoad, SpinCas, AfterPoll, GoTo
<1>4. ASSUME NEW t \in Threads, Mark(t) \/ Release(t)
      PROVE  TypeOK' /\ PollsBelow'
    BY <1>4 DEF Mark, Release, GoTo
<1>5. ASSUME NEW t \in Threads,
             FutexSleep(t) \/ FutexRefuse(t) \/ FutexInterrupt(t) \/ FutexTimeout(t)
      PROVE  TypeOK' /\ PollsBelow'
    BY <1>5 DEF FutexSleep, FutexRefuse, FutexInterrupt, FutexTimeout, GoTo
<1>6. ASSUME NEW t \in Threads, FutexWake(t)
      PROVE  TypeOK' /\ PollsBelow'
    BY <1>6 DEF FutexWake, GoTo, At
<1>7. QED
    BY <1>1, <1>2, <1>3, <1>4, <1>5, <1>6, NextCases DEF Step, Chance

\* Every state of every execution is well typed.
THEOREM TypeCorrect == Spec => [](TypeOK /\ PollsBelow)
<1>1. Init => TypeOK /\ PollsBelow
    BY UlockAssumption
    DEF Init, TypeOK, PollsBelow, Places, ULOCK_FREE, ULOCK_LOCKED, ULOCK_CONTENDED
<1>2. QED
    BY <1>1, TypeInductive, PTL DEF Spec

-----------------------------------------------------------------------------
\* Mutual exclusion is preserved by every step.  Both halves are needed: a
\* thread enters only when the word is FREE, and FREE means nobody is in.
LEMMA ExclusionInductive ==
    TypeOK /\ MutualExclusion /\ [Next]_vars => MutualExclusion'
<1> SUFFICES ASSUME TypeOK, MutualExclusion, [Next]_vars
             PROVE  MutualExclusion'
    OBVIOUS
<1> USE DEF TypeOK, MutualExclusion, ULOCK_FREE, ULOCK_LOCKED, ULOCK_CONTENDED
<1>1. CASE UNCHANGED vars
    BY <1>1 DEF vars
<1>2. ASSUME NEW t \in Threads, TakeFree(t) \/ TryBusy(t) \/ EnterSlow(t)
      PROVE  MutualExclusion'
    BY <1>2 DEF TakeFree, TryBusy, EnterSlow, Call, GoTo
<1>3. ASSUME NEW t \in Threads, SpinLoad(t) \/ SpinCas(t)
      PROVE  MutualExclusion'
    BY <1>3 DEF SpinLoad, SpinCas, AfterPoll, GoTo
<1>4. ASSUME NEW t \in Threads, Mark(t)
      PROVE  MutualExclusion'
    BY <1>4 DEF Mark, GoTo
<1>5. ASSUME NEW t \in Threads, Release(t)
      PROVE  MutualExclusion'
    BY <1>5 DEF Release, GoTo
<1>6. ASSUME NEW t \in Threads,
             FutexSleep(t) \/ FutexRefuse(t) \/ FutexInterrupt(t) \/ FutexTimeout(t)
      PROVE  MutualExclusion'
    BY <1>6 DEF FutexSleep, FutexRefuse, FutexInterrupt, FutexTimeout, GoTo
<1>7. ASSUME NEW t \in Threads, FutexWake(t)
      PROVE  MutualExclusion'
    BY <1>7 DEF FutexWake, GoTo, At
<1>8. QED
    BY <1>1, <1>2, <1>3, <1>4, <1>5, <1>6, <1>7, NextCases DEF Step, Chance

\* No two threads ever hold the lock, and the word says whether one does.
THEOREM Exclusion == Spec => []MutualExclusion
<1>1. Init => MutualExclusion
    BY DEF Init, MutualExclusion, ULOCK_FREE
<1>2. QED
    BY <1>1, ExclusionInductive, TypeCorrect, PTL DEF Spec

-----------------------------------------------------------------------------
\* The three witnesses of NoLostWakeup hand over to one another: the mark on
\* the word becomes a wake-up when the word is released, the wake-up becomes a
\* thread about to mark, and that thread marks.
LEMMA WakeupInductive ==
    TypeOK /\ NoLostWakeup /\ [Next]_vars => NoLostWakeup'
<1> SUFFICES ASSUME TypeOK, NoLostWakeup, [Next]_vars
             PROVE  NoLostWakeup'
    OBVIOUS
<1> USE DEF TypeOK, NoLostWakeup, At, ULOCK_FREE, ULOCK_LOCKED, ULOCK_CONTENDED
<1>1. CASE UNCHANGED vars
    BY <1>1 DEF vars
<1>2. ASSUME NEW t \in Threads, TakeFree(t) \/ TryBusy(t) \/ EnterSlow(t)
      PROVE  NoLostWakeup'
    BY <1>2 DEF TakeFree, TryBusy, EnterSlow, Call, GoTo
<1>3. ASSUME NEW t \in Threads, SpinLoad(t) \/ SpinCas(t)
      PROVE  NoLostWakeup'
    BY <1>3 DEF SpinLoad, SpinCas, AfterPoll, GoTo
<1>4. ASSUME NEW t \in Threads, Mark(t)
      PROVE  NoLostWakeup'
    BY <1>4 DEF Mark, GoTo
<1>5. ASSUME NEW t \in Threads, Release(t)
      PROVE  NoLostWakeup'
    BY <1>5 DEF Release, GoTo
<1>6. ASSUME NEW t \in Threads,
             FutexSleep(t) \/ FutexRefuse(t) \/ FutexInterrupt(t) \/ FutexTimeout(t)
      PROVE  NoLostWakeup'
    BY <1>6 DEF FutexSleep, FutexRefuse, FutexInterrupt, FutexTimeout, GoTo
<1>7. ASSUME NEW t \in Threads, FutexWake(t)
      PROVE  NoLostWakeup'
    BY <1>7 DEF FutexWake, GoTo
<1>8. QED
    BY <1>1, <1>2, <1>3, <1>4, <1>5, <1>6, <1>7, NextCases DEF Step, Chance

\* No sleeper is ever forgotten.
THEOREM WakeupNotLost == Spec => []NoLostWakeup
<1>1. Init => NoLostWakeup
    BY DEF Init, NoLostWakeup, At
<1>2. QED
    BY <1>1, WakeupInductive, TypeCorrect, PTL DEF Spec

-----------------------------------------------------------------------------
\* A step of the lock's code is a step of the abstract lock or changes nothing
\* a caller can see.  Mutual exclusion is what makes the three ways in (first
\* try, spin, marking exchange) abstract acquisitions.
LEMMA StepImplements ==
    TypeOK /\ MutualExclusion /\ [Next]_vars => [Abstract!Next]_Phase
<1> SUFFICES ASSUME TypeOK, MutualExclusion, [Next]_vars
             PROVE  [Abstract!Next]_Phase
    OBVIOUS
<1> USE DEF TypeOK, MutualExclusion, Places, Phase,
            ULOCK_FREE, ULOCK_LOCKED, ULOCK_CONTENDED
<1>1. CASE UNCHANGED vars
    BY <1>1 DEF vars
<1>2. ASSUME NEW t \in Threads, TakeFree(t)
      PROVE  Abstract!Acquire(t)
    BY <1>2 DEF TakeFree, Call, GoTo, Abstract!Acquire
<1>3. ASSUME NEW t \in Threads, TryBusy(t)
      PROVE  UNCHANGED Phase
    BY <1>3 DEF TryBusy, Call
<1>4. ASSUME NEW t \in Threads, EnterSlow(t)
      PROVE  Abstract!Request(t)
    BY <1>4 DEF EnterSlow, Call, GoTo, Abstract!Request
<1>5. ASSUME NEW t \in Threads, SpinLoad(t)
      PROVE  UNCHANGED Phase
    BY <1>5 DEF SpinLoad, AfterPoll, GoTo
<1>6. ASSUME NEW t \in Threads, SpinCas(t)
      PROVE  Abstract!Acquire(t) \/ UNCHANGED Phase
    BY <1>6 DEF SpinCas, AfterPoll, GoTo, Abstract!Acquire
<1>7. ASSUME NEW t \in Threads, Mark(t)
      PROVE  Abstract!Acquire(t) \/ UNCHANGED Phase
    BY <1>7 DEF Mark, GoTo, Abstract!Acquire
<1>8. ASSUME NEW t \in Threads,
             FutexSleep(t) \/ FutexRefuse(t) \/ FutexInterrupt(t)
      PROVE  UNCHANGED Phase
    BY <1>8 DEF FutexSleep, FutexRefuse, FutexInterrupt, GoTo
<1>9. ASSUME NEW t \in Threads, FutexTimeout(t)
      PROVE  Abstract!GiveUp(t)
    BY <1>9 DEF FutexTimeout, GoTo, Abstract!GiveUp
<1>10. ASSUME NEW t \in Threads, Release(t)
       PROVE  Abstract!Release(t)
    BY <1>10 DEF Release, GoTo, Abstract!Release
<1>11. ASSUME NEW t \in Threads, FutexWake(t)
       PROVE  UNCHANGED Phase
    BY <1>11 DEF FutexWake, GoTo, At
<1>12. QED
    BY <1>1, <1>2, <1>3, <1>4, <1>5, <1>6, <1>7, <1>8, <1>9, <1>10, <1>11,
       NextCases DEF Step, Chance, Abstract!Next

\* The lock implements the abstract lock's initial states and steps (its
\* progress is model-checked).
THEOREM UlockImplementsLock == Spec => Abstract!Init /\ [][Abstract!Next]_Phase
<1>1. Init => Abstract!Init
    BY DEF Init, Abstract!Init, Phase
<1>2. QED
    BY <1>1, StepImplements, TypeCorrect, Exclusion, PTL DEF Spec
=============================================================================
