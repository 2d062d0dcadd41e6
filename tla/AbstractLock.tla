---------------------------- MODULE AbstractLock ----------------------------
(***************************************************************************)
(* What every mutual-exclusion lock of libphoenix promises its callers:    *)
(* the word of sys/ulock.c and the owner-tracking word of pthread mutexes  *)
(* are both shown to implement it.  A thread is outside the lock, waiting  *)
(* for it, or inside.                                                      *)
(***************************************************************************)

CONSTANT Threads

VARIABLE phase

Phases == {"out", "waiting", "in"}

TypeOK == phase \in [Threads -> Phases]

Init == phase = [t \in Threads |-> "out"]

\* A call that does not get the lock at once
Request(t) ==
    /\ phase[t] = "out"
    /\ phase' = [phase EXCEPT ![t] = "waiting"]

\* The lock is handed to a thread only while nobody holds it
Acquire(t) ==
    /\ phase[t] \in {"out", "waiting"}
    /\ \A u \in Threads : phase[u] # "in"
    /\ phase' = [phase EXCEPT ![t] = "in"]

\* A call returns without the lock: -ETIME
GiveUp(t) ==
    /\ phase[t] = "waiting"
    /\ phase' = [phase EXCEPT ![t] = "out"]

Release(t) ==
    /\ phase[t] = "in"
    /\ phase' = [phase EXCEPT ![t] = "out"]

Next == \E t \in Threads : Request(t) \/ Acquire(t) \/ GiveUp(t) \/ Release(t)

\* Somebody who waits for a free lock gets it (not: everybody does), and the
\* callers leave their critical sections
Fairness ==
    /\ WF_phase(\E t \in Threads : phase[t] = "waiting" /\ Acquire(t))
    /\ \A t \in Threads : WF_phase(Release(t))

Spec == Init /\ [][Next]_phase /\ Fairness
=============================================================================
