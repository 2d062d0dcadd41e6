------------------------------ MODULE MCUlock -------------------------------
(* Small instances of Ulock for TLC *)
EXTENDS Ulock, TLC

CONSTANTS t1, t2, t3

MCThreads == {t1, t2, t3}
MCTimed == {t3}
=============================================================================
