-------------------------- MODULE MCPthreadThreads --------------------------
(* Small instances of PthreadThreads for TLC *)
EXTENDS PthreadThreads, TLC

CONSTANTS a, b

MCThreads == {main, a, b}

\* main creates both and makes two more calls, a only runs and ends, b makes one call
SmallBudget == [t \in Threads |-> IF t = main THEN 4 ELSE IF t = b THEN 1 ELSE 0]
TwoThreads == {main, a}
LongBudget == [t \in Threads |-> IF t = main THEN 4 ELSE 3]
=============================================================================
