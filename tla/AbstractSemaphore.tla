-------------------------- MODULE AbstractSemaphore -------------------------
(***************************************************************************)
(* What a counting semaphore promises: a unit is given to one taker, never *)
(* out of nothing, and units do not lie idle while somebody waits for one. *)
(***************************************************************************)
EXTENDS Naturals

CONSTANTS
    Takers,
    Initials        \* the counts the semaphore may be created with

VARIABLES
    count,          \* units that may be taken
    waiting,        \* takers that wait for one
    units           \* units each taker was given so far

vars == <<count, waiting, units>>

Init ==
    /\ count \in Initials
    /\ waiting = {}
    /\ units = [t \in Takers |-> 0]

Post ==
    /\ count' = count + 1
    /\ UNCHANGED <<waiting, units>>

Give(t) ==
    /\ count > 0
    /\ count' = count - 1
    /\ units' = [units EXCEPT ![t] = @ + 1]

TakeAtOnce(t) == t \notin waiting /\ Give(t) /\ UNCHANGED waiting

Wait(t) ==
    /\ t \notin waiting
    /\ waiting' = waiting \cup {t}
    /\ UNCHANGED <<count, units>>

Acquire(t) ==
    /\ t \in waiting
    /\ Give(t)
    /\ waiting' = waiting \ {t}

GiveUp(t) ==
    /\ t \in waiting
    /\ waiting' = waiting \ {t}
    /\ UNCHANGED <<count, units>>

AcquireSome == \E t \in Takers : Acquire(t)

Next ==
    \/ Post
    \/ \E t \in Takers : TakeAtOnce(t) \/ Wait(t) \/ GiveUp(t)
    \/ AcquireSome

\* A unit nobody else takes is given to some waiting thread, unless they give up
Spec == Init /\ [][Next]_vars /\ WF_vars(AcquireSome)

=============================================================================
