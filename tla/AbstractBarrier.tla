--------------------------- MODULE AbstractBarrier --------------------------
(***************************************************************************)
(* What a barrier promises: calls are grouped in rounds of Count, nobody   *)
(* leaves before its round is full, and then everybody leaves.             *)
(***************************************************************************)
EXTENDS Naturals, FiniteSets

CONSTANTS Threads, Count

VARIABLES
    open,           \* threads in the round that is not full
    released        \* threads of full rounds that have not left

Init == open = {} /\ released = {}

Arrive(t) ==
    /\ t \notin open \cup released
    /\ Cardinality(open) + 1 < Count
    /\ open' = open \cup {t}
    /\ UNCHANGED released

\* The last of a round need not wait
Complete(t) ==
    /\ t \notin open \cup released
    /\ Cardinality(open) + 1 = Count
    /\ open' = {}
    /\ released' = released \cup open

Leave(t) ==
    /\ t \in released
    /\ released' = released \ {t}
    /\ UNCHANGED open

Next == \E t \in Threads : Arrive(t) \/ Complete(t) \/ Leave(t)

Spec ==
    /\ Init /\ [][Next]_<<open, released>>
    /\ \A t \in Threads : WF_<<open, released>>(Leave(t))
=============================================================================
