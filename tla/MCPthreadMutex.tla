--------------------------- MODULE MCPthreadMutex ---------------------------
(* Small instances of PthreadMutex for TLC *)
EXTENDS PthreadMutex, TLC

CONSTANTS t1, t2, t3

ThreeThreads == {t1, t2, t3}

\* Two that lock again and again, or three of which one wakes one of two sleepers
PairOrThree == {t1 :> 4 @@ t2 :> 4 @@ t3 :> 0, t1 :> 2 @@ t2 :> 1 @@ t3 :> 1}
=============================================================================
