-------------------------- MODULE MCPthreadRwlock ---------------------------
(* Small instances of PthreadRwlock for TLC *)
EXTENDS PthreadRwlock, TLC

CONSTANTS a, b, c, d

FourThreads == {a, b, c, d}
Some == {a, b}
Others == {c, d}

ThreeCalls == [t \in RwThreads |-> 3]
=============================================================================
