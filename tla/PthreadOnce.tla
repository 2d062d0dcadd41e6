----------------------------- MODULE PthreadOnce ----------------------------
(***************************************************************************)
(* pthread_once() of pthread/pthread.c: one mutex and one condition        *)
(* variable serve every control.  The initialiser runs without the mutex   *)
(* and may call pthread_once() for another control.                        *)
(*                                                                         *)
(* What is done while the mutex is held is one step, the broadcast too: a  *)
(* broadcast reaches all who wait (module PthreadCond).  Initialisers      *)
(* return: one that is cancelled leaves its control in progress.           *)
(***************************************************************************)
EXTENDS Naturals, Sequences, SequencesExt

CONSTANTS
    OnceThreads,
    Control,
    Needs,          \* the control each control's initialiser asks for, or itself
    OnceCalls       \* bound: calls of each thread from outside an initialiser

ASSUME OnceAssumption == Needs \in [Control -> Control]

VARIABLES
    control,        \* once_control: "init", "progress" or "done"
    frames,         \* calls each thread is in, the innermost last
    onceLeft,
    ran             \* history: initialisers started

onceVars == <<control, frames, onceLeft, ran>>

\* test: about to look at the control; asleep; routine: runs the initialiser and
\* has yet to ask for the other control; routineEnds: only has to return
Frame == [of : Control, at : {"test", "asleep", "routine", "routineEnds"}]

Top(t) == Last(frames[t])
In(t, place) == frames[t] # <<>> /\ Top(t).at = place
OnceGoTo(fs, place) == [fs EXCEPT ![Len(fs)].at = place]
Awake(fs) == IF fs # <<>> /\ Last(fs).at = "asleep" THEN OnceGoTo(fs, "test") ELSE fs

\* pthread_cond_broadcast(), and the caller goes on with what is in fs
Broadcast(t, fs) == frames' = [u \in OnceThreads |-> IF u = t THEN fs ELSE Awake(frames[u])]

-----------------------------------------------------------------------------
OnceInit ==
    /\ control = [c \in Control |-> "init"]
    /\ frames = [t \in OnceThreads |-> <<>>]
    /\ onceLeft = [t \in OnceThreads |-> OnceCalls]
    /\ ran = [c \in Control |-> 0]

OnceCall(t) ==
    /\ frames[t] = <<>> /\ onceLeft[t] > 0
    /\ onceLeft' = [onceLeft EXCEPT ![t] = @ - 1]
    /\ \E c \in Control : frames' = [frames EXCEPT ![t] = <<[of |-> c, at |-> "test"]>>]
    /\ UNCHANGED <<control, ran>>

CallNested(t) ==
    /\ In(t, "routine")
    /\ frames' = [frames EXCEPT ![t] =
           IF Needs[Top(t).of] = Top(t).of
             THEN OnceGoTo(@, "routineEnds")
             ELSE Append(OnceGoTo(@, "routineEnds"), [of |-> Needs[Top(t).of], at |-> "test"])]
    /\ UNCHANGED <<control, onceLeft, ran>>

Wait(t) ==
    /\ In(t, "test") /\ control[Top(t).of] = "progress"
    /\ frames' = [frames EXCEPT ![t] = OnceGoTo(@, "asleep")]
    /\ UNCHANGED <<control, onceLeft, ran>>

SpuriousWakeup(t) ==
    /\ In(t, "asleep")
    /\ frames' = [frames EXCEPT ![t] = Awake(@)]
    /\ UNCHANGED <<control, onceLeft, ran>>

\* Mutant: the control is only marked when the initialiser returns
Begin_NotMarked(t) ==
    /\ In(t, "test") /\ control[Top(t).of] = "init"
    /\ ran' = [ran EXCEPT ![Top(t).of] = @ + 1]
    /\ frames' = [frames EXCEPT ![t] = OnceGoTo(@, "routine")]
    /\ UNCHANGED <<control, onceLeft>>

Begin(t) ==
    /\ In(t, "test") /\ control[Top(t).of] = "init"
    /\ control' = [control EXCEPT ![Top(t).of] = "progress"]
    /\ ran' = [ran EXCEPT ![Top(t).of] = @ + 1]
    /\ frames' = [frames EXCEPT ![t] = OnceGoTo(@, "routine")]
    /\ UNCHANGED onceLeft

Return(t) ==
    /\ In(t, "test") /\ control[Top(t).of] = "done"
    /\ Broadcast(t, Front(frames[t]))
    /\ UNCHANGED <<control, onceLeft, ran>>

RoutineReturns(t) ==
    /\ In(t, "routineEnds")
    /\ control' = [control EXCEPT ![Top(t).of] = "done"]
    /\ Broadcast(t, Front(frames[t]))
    /\ UNCHANGED <<onceLeft, ran>>

-----------------------------------------------------------------------------
OnceStep(t) ==
    \/ CallNested(t) \/ Wait(t) \/ Begin(t) \/ Return(t) \/ RoutineReturns(t)

OnceFinished ==
    /\ \A t \in OnceThreads : frames[t] = <<>> /\ onceLeft[t] = 0
    /\ UNCHANGED onceVars

OnceNext == (\E t \in OnceThreads : OnceCall(t) \/ OnceStep(t) \/ SpuriousWakeup(t)) \/ OnceFinished

OnceSpec == OnceInit /\ [][OnceNext]_onceVars /\ \A t \in OnceThreads : WF_onceVars(OnceStep(t))

-----------------------------------------------------------------------------
\* The threads that run the initialiser of a control
Running(c) ==
    {t \in OnceThreads : \E i \in 1..Len(frames[t]) :
        frames[t][i].of = c /\ frames[t][i].at \in {"routine", "routineEnds"}}

\* Each initialiser runs once; a control is in progress exactly while one thread
\* runs its initialiser, however the calls nest, and no call for it returns
\* before that.
OnceSound ==
    /\ [](\A c \in Control :
             /\ ran[c] = (IF control[c] = "init" THEN 0 ELSE 1)
             /\ (control[c] = "progress") = (\E t \in OnceThreads : Running(c) = {t}))
    /\ [][\A t \in OnceThreads :
             Len(frames'[t]) < Len(frames[t]) => control'[Top(t).of] = "done"]_onceVars

\* With one mutex and one condition variable for all controls nobody who waits
\* is forgotten: the calls, whose number is bounded, all return.
OnceReturns == <>[](\A t \in OnceThreads : frames[t] = <<>>)
=============================================================================
