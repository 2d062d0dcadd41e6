------------------------- MODULE PthreadMutexProofs -------------------------
(***************************************************************************)
(* Theorems about PthreadMutex for any set of threads, either kind, any    *)
(* depth limit, spin bound and number of calls.                            *)
(***************************************************************************)
EXTENDS PthreadMutex, TLAPS

\* What a thread about to poll, or to mark the word, already knows
Local == \A t \in Threads :
    /\ pc[t] \in {"spin", "cas"} => polls[t] < Spin
    /\ pc[t] = "mark" => seen[t] # NoOwner

\* The inductive invariant.  Accounting needs CopiesFresh, since an owner
\* decides by its copy of the depth whether to go deeper or to let go; it needs
\* FreeIsUnmarked, since a lock is granted by comparing the word with zero; and
\* that needs Local, since only a held word may be marked.
IInv == TypeOK /\ Accounting /\ CopiesFresh /\ FreeIsUnmarked /\ Local

LEMMA NextCases ==
    ASSUME Next
    PROVE  \/ UNCHANGED vars
           \/ \E t \in Threads : Step(t) \/ Chance(t)
BY DEF Next, Finished

\* Going one level deeper below the limit, and back up above zero, does not wrap
LEMMA DepthArithmetic ==
    ASSUME NEW d \in Nat, NEW m \in Nat, d <= m
    PROVE  /\ d # m => (d + 1) % (m + 1) = d + 1
           /\ d # 0 => (d + m) % (m + 1) = d - 1
<1>1. ASSUME d # m PROVE (d + 1) % (m + 1) = d + 1
    BY <1>1, SMT
<1>2. ASSUME d # 0 PROVE (d + m) % (m + 1) = d - 1
    <2>1. /\ d - 1 \in 0 .. m
          /\ d + m = 1 * (m + 1) + (d - 1)
        BY <1>2
    <2>2. QED
        BY <2>1, SMTT(30)
<1>3. QED
    BY <1>1, <1>2

LEMMA InitInvariant == Init => IInv
BY MutexAssumption
DEF Init, IInv, TypeOK, Accounting, CopiesFresh, FreeIsUnmarked, Local, Free, Ops, Places

-----------------------------------------------------------------------------
\* Every step keeps the accounts straight
LEMMA Inductive == IInv /\ [Next]_vars => IInv'
<1> SUFFICES ASSUME IInv, [Next]_vars
             PROVE  IInv'
    OBVIOUS
<1> USE MutexAssumption
    DEF IInv, TypeOK, Accounting, CopiesFresh, FreeIsUnmarked, Local, Free, Ops, Places,
        GoTo, Granted, ReadFlags
<1>1. CASE UNCHANGED vars
    BY <1>1 DEF vars
<1>2. ASSUME NEW t \in Threads, Call(t) PROVE IInv'
    BY <1>2 DEF Call
<1>3. ASSUME NEW t \in Threads, FirstFree(t) PROVE IInv'
    BY <1>3 DEF FirstFree
<1>4. ASSUME NEW t \in Threads, FirstOwn(t) PROVE IInv'
    <2>1. flags[t] = depth /\ depth \in Nat /\ depth <= MaxDepth
        BY <1>4 DEF FirstOwn
    <2>2. depth # MaxDepth => (depth + 1) % (MaxDepth + 1) = depth + 1
        BY <2>1, DepthArithmetic
    <2>3. CASE Recursive /\ flags[t] # MaxDepth
        BY SMTT(30), <1>4, <2>1, <2>2, <2>3 DEF FirstOwn
    <2>4. CASE ~(Recursive /\ flags[t] # MaxDepth)
        BY <1>4, <2>4 DEF FirstOwn
    <2>5. QED
        BY <2>3, <2>4
<1>5. ASSUME NEW t \in Threads, FirstHeld(t) PROVE IInv'
    BY <1>5 DEF FirstHeld
<1>6. ASSUME NEW t \in Threads, SpinLoad(t) PROVE IInv'
    BY <1>6 DEF SpinLoad, AfterPoll
<1>7. ASSUME NEW t \in Threads, SpinCas(t) PROVE IInv'
    <2>1. CASE lock = Free
        <3>1. \A u \in Threads : held[u] = 0 /\ held'[u] = IF u = t THEN 1 ELSE 0
            BY <1>7, <2>1 DEF SpinCas
        <3>2. lock.owner = NoOwner /\ depth = 0
            BY <2>1
        <3>3. /\ lock' = [owner |-> t, waiters |-> FALSE]
              /\ pc' = [pc EXCEPT ![t] = "out"]
              /\ held' = [held EXCEPT ![t] = @ + 1]
              /\ depth' = depth
            BY <1>7, <2>1 DEF SpinCas
        <3>4. /\ depth' = 0 /\ depth = 0 /\ lock'.owner = t
              /\ lock' \in [owner : Threads \cup {NoOwner}, waiters : BOOLEAN]
              /\ pc' = [pc EXCEPT ![t] = "out"]
              /\ held' \in [Threads -> Nat]
            BY <3>2, <3>3
        <3>5. Accounting'
            BY <3>1, <3>4
        <3>6. CopiesFresh' /\ FreeIsUnmarked'
            BY <1>7, <2>1, <3>4 DEF SpinCas
        <3>7. TypeOK' /\ Local'
            BY <1>7, <2>1, <3>4 DEF SpinCas
        <3>8. QED
            BY <3>5, <3>6, <3>7
    <2>2. CASE lock # Free
        BY <1>7, <2>2 DEF SpinCas, AfterPoll
    <2>3. QED
        BY <2>1, <2>2
<1>8. ASSUME NEW t \in Threads, SlowLoad(t) PROVE IInv'
    BY <1>8 DEF SlowLoad
<1>9. ASSUME NEW t \in Threads, SlowTake(t) PROVE IInv'
    <2>1. CASE lock = Free
        <3>1. \A u \in Threads : held[u] = 0 /\ held'[u] = IF u = t THEN 1 ELSE 0
            BY <1>9, <2>1 DEF SlowTake
        <3>2. lock.owner = NoOwner /\ depth = 0
            BY <2>1
        <3>3. /\ lock' = [owner |-> t, waiters |-> TRUE]
              /\ pc' = [pc EXCEPT ![t] = "out"]
              /\ held' = [held EXCEPT ![t] = @ + 1]
              /\ depth' = depth
            BY <1>9, <2>1 DEF SlowTake
        <3>4. /\ depth' = 0 /\ depth = 0 /\ lock'.owner = t
              /\ lock' \in [owner : Threads \cup {NoOwner}, waiters : BOOLEAN]
              /\ pc' = [pc EXCEPT ![t] = "out"]
              /\ held' \in [Threads -> Nat]
            BY <3>2, <3>3
        <3>5. Accounting'
            BY <3>1, <3>4
        <3>6. CopiesFresh' /\ FreeIsUnmarked'
            BY <1>9, <2>1, <3>4 DEF SlowTake
        <3>7. TypeOK' /\ Local'
            BY <1>9, <2>1, <3>4 DEF SlowTake
        <3>8. QED
            BY <3>5, <3>6, <3>7
    <2>2. CASE lock # Free
        BY <1>9, <2>2 DEF SlowTake
    <2>3. QED
        BY <2>1, <2>2
<1>10. ASSUME NEW t \in Threads, SlowMark(t) PROVE IInv'
    <2>1. CASE lock = [owner |-> seen[t], waiters |-> FALSE]
        <3>1. lock'.owner = lock.owner /\ lock.owner # NoOwner
            BY <1>10, <2>1 DEF SlowMark
        <3>2. QED
            BY ZenonT(60), <1>10, <2>1, <3>1 DEF SlowMark
    <2>2. CASE lock # [owner |-> seen[t], waiters |-> FALSE]
        BY <1>10, <2>2 DEF SlowMark
    <2>3. QED
        BY <2>1, <2>2
<1>11. ASSUME NEW t \in Threads,
              FutexSleep(t) \/ FutexRefuse(t) \/ FutexInterrupt(t) \/ FutexTimeout(t)
       PROVE  IInv'
    BY <1>11 DEF FutexSleep, FutexRefuse, FutexInterrupt, FutexTimeout
<1>12. ASSUME NEW t \in Threads, CallUnlock(t) \/ UnlockNotOwner(t) PROVE IInv'
    BY <1>12 DEF CallUnlock, UnlockNotOwner
<1>13. ASSUME NEW t \in Threads, UnlockOwner(t) PROVE IInv'
    <2>1. flags[t] = depth /\ depth \in Nat /\ depth <= MaxDepth
        BY <1>13 DEF UnlockOwner
    <2>2. depth # 0 => (depth + MaxDepth) % (MaxDepth + 1) = depth - 1
        BY <2>1, DepthArithmetic
    <2>3. held[t] = depth + 1
        BY <1>13 DEF UnlockOwner
    <2>4. CASE flags[t] # 0
        BY <1>13, <2>1, <2>2, <2>3, <2>4 DEF UnlockOwner
    <2>5. CASE flags[t] = 0
        <3>1. /\ lock' = Free /\ depth' = depth /\ depth = 0
              /\ pc'[t] # "mark" /\ pc'[t] # "spin" /\ pc'[t] # "cas"
              /\ pc' \in [Threads -> Places]
              /\ \A u \in Threads : u # t => pc'[u] = pc[u]
            BY <1>13, <2>1, <2>5 DEF UnlockOwner
        <3>2. \A u \in Threads : held'[u] = 0
            BY <1>13, <2>3, <3>1 DEF UnlockOwner
        <3>3. held' \in [Threads -> Nat]
            BY <1>13, <3>2 DEF UnlockOwner
        <3>4. QED
            BY <1>13, <3>1, <3>2, <3>3 DEF UnlockOwner
    <2>6. QED
        BY <2>4, <2>5
<1>14. ASSUME NEW t \in Threads, FutexWake(t) PROVE IInv'
    BY <1>14 DEF FutexWake, At
<1>15. QED
    BY <1>1, <1>2, <1>3, <1>4, <1>5, <1>6, <1>7, <1>8, <1>9, <1>10, <1>11, <1>12,
       <1>13, <1>14, NextCases DEF Step, Chance, Locking, Unlocking

\* The inductive invariant holds in every state of every execution.
THEOREM Invariant == Spec => []IInv
BY InitInvariant, Inductive, PTL DEF Spec

\* The mutex and its users agree on who holds it and how many times.
THEOREM AccountsAgree == Spec => []Accounting
<1>1. IInv => Accounting
    BY DEF IInv
<1>2. QED
    BY <1>1, Invariant, PTL

-----------------------------------------------------------------------------
\* The witnesses of NoLostWakeup hand over to one another
LEMMA WakeupInductive == IInv /\ NoLostWakeup /\ [Next]_vars => NoLostWakeup'
<1> SUFFICES ASSUME IInv, NoLostWakeup, [Next]_vars
             PROVE  NoLostWakeup'
    OBVIOUS
<1> USE MutexAssumption
    DEF IInv, TypeOK, FreeIsUnmarked, NoLostWakeup, At, Free, Places, GoTo, Granted, ReadFlags
<1>1. CASE UNCHANGED vars
    BY <1>1 DEF vars
<1>2. ASSUME NEW t \in Threads, Call(t) \/ FirstFree(t) \/ FirstOwn(t) \/ FirstHeld(t)
      PROVE  NoLostWakeup'
    BY <1>2 DEF Call, FirstFree, FirstOwn, FirstHeld
<1>3. ASSUME NEW t \in Threads, SpinLoad(t) \/ SpinCas(t)
      PROVE  NoLostWakeup'
    BY <1>3 DEF SpinLoad, SpinCas, AfterPoll
<1>4. ASSUME NEW t \in Threads, SlowLoad(t) \/ SlowTake(t) \/ SlowMark(t)
      PROVE  NoLostWakeup'
    BY <1>4 DEF SlowLoad, SlowTake, SlowMark
<1>5. ASSUME NEW t \in Threads,
             FutexSleep(t) \/ FutexRefuse(t) \/ FutexInterrupt(t) \/ FutexTimeout(t)
      PROVE  NoLostWakeup'
    BY <1>5 DEF FutexSleep, FutexRefuse, FutexInterrupt, FutexTimeout
<1>6. ASSUME NEW t \in Threads, CallUnlock(t) \/ UnlockNotOwner(t) \/ UnlockOwner(t)
      PROVE  NoLostWakeup'
    BY <1>6 DEF CallUnlock, UnlockNotOwner, UnlockOwner
<1>7. ASSUME NEW t \in Threads, FutexWake(t)
      PROVE  NoLostWakeup'
    BY <1>7 DEF FutexWake
<1>8. QED
    BY <1>1, <1>2, <1>3, <1>4, <1>5, <1>6, <1>7, NextCases
    DEF Step, Chance, Locking, Unlocking

\* No sleeper is ever forgotten.
THEOREM WakeupNotLost == Spec => []NoLostWakeup
<1>1. Init => NoLostWakeup
    BY DEF Init, NoLostWakeup, At
<1>2. QED
    BY <1>1, WakeupInductive, Invariant, PTL DEF Spec

-----------------------------------------------------------------------------
\* A step of the mutex is a step of the abstract lock, or its callers see none
LEMMA StepImplements == IInv /\ [Next]_vars => [Abstract!Next]_Phase
<1> SUFFICES ASSUME IInv, [Next]_vars
             PROVE  [Abstract!Next]_Phase
    OBVIOUS
<1> USE MutexAssumption
    DEF IInv, TypeOK, Accounting, Places, Free, Phase, GoTo, Granted, ReadFlags
<1>1. CASE UNCHANGED vars
    BY <1>1 DEF vars
<1>2. ASSUME NEW t \in Threads, Call(t) \/ CallUnlock(t) \/ UnlockNotOwner(t)
      PROVE  UNCHANGED Phase
    BY <1>2 DEF Call, CallUnlock, UnlockNotOwner
<1>3. ASSUME NEW t \in Threads, FirstFree(t) \/ (SpinCas(t) /\ lock = Free) \/ (SlowTake(t) /\ lock = Free)
      PROVE  Abstract!Acquire(t)
    <2>1. lock.owner = NoOwner /\ lock'.owner = t /\ pc' = [pc EXCEPT ![t] = "out"]
        BY <1>3 DEF FirstFree, SpinCas, SlowTake
    <2>2. QED
        BY <2>1 DEF Abstract!Acquire
<1>4. ASSUME NEW t \in Threads, FirstOwn(t)
      PROVE  UNCHANGED Phase
    BY <1>4 DEF FirstOwn
<1>5. ASSUME NEW t \in Threads, FirstHeld(t)
      PROVE  Abstract!Request(t) \/ UNCHANGED Phase
    BY ZenonT(60), <1>5 DEF FirstHeld, Abstract!Request
<1>6. ASSUME NEW t \in Threads, SpinLoad(t) \/ (SpinCas(t) /\ lock # Free)
      PROVE  UNCHANGED Phase
    BY <1>6 DEF SpinLoad, SpinCas, AfterPoll
<1>7. ASSUME NEW t \in Threads,
             SlowLoad(t) \/ (SlowTake(t) /\ lock # Free) \/ SlowMark(t)
      PROVE  UNCHANGED Phase
    BY <1>7 DEF SlowLoad, SlowTake, SlowMark
<1>8. ASSUME NEW t \in Threads,
             FutexSleep(t) \/ FutexRefuse(t) \/ FutexInterrupt(t)
      PROVE  UNCHANGED Phase
    BY <1>8 DEF FutexSleep, FutexRefuse, FutexInterrupt
<1>9. ASSUME NEW t \in Threads, FutexTimeout(t)
      PROVE  Abstract!GiveUp(t) \/ UNCHANGED Phase
    BY <1>9 DEF FutexTimeout, Abstract!GiveUp
<1>10. ASSUME NEW t \in Threads, UnlockOwner(t)
       PROVE  Abstract!Release(t) \/ UNCHANGED Phase
    <2>1. CASE flags[t] # 0
        BY <1>10, <2>1 DEF UnlockOwner
    <2>2. CASE flags[t] = 0
        <3>1. /\ lock.owner = t /\ lock'.owner = NoOwner
              /\ pc'[t] \in {"out", "wake"}
              /\ \A u \in Threads : u # t => pc'[u] = pc[u]
            BY <1>10, <2>2 DEF UnlockOwner
        <3>2. Phase' = [Phase EXCEPT ![t] = "out"]
            BY <3>1
        <3>3. QED
            BY <3>1, <3>2 DEF Abstract!Release
    <2>3. QED
        BY <2>1, <2>2
<1>11. ASSUME NEW t \in Threads, FutexWake(t)
       PROVE  UNCHANGED Phase
    BY <1>11 DEF FutexWake, At
<1>12. QED
    BY <1>1, <1>2, <1>3, <1>4, <1>5, <1>6, <1>7, <1>8, <1>9, <1>10, <1>11, NextCases
    DEF Step, Chance, Locking, Unlocking, Abstract!Next

\* The mutex implements the abstract lock's initial states and steps (its
\* progress is model-checked).
THEOREM MutexImplementsLock == Spec => Abstract!Init /\ [][Abstract!Next]_Phase
<1>1. Init => Abstract!Init
    BY MutexAssumption DEF Init, Abstract!Init, Phase, Free
<1>2. QED
    BY <1>1, StepImplements, Invariant, PTL DEF Spec
=============================================================================
