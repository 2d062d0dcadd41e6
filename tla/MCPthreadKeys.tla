---------------------------- MODULE MCPthreadKeys ---------------------------
(* Small instances of PthreadKeys for TLC *)
EXTENDS PthreadKeys, TLC

CONSTANTS main, a, b, k1, k2

MCThreads == {main, a}
MCMortal == {a}
ThreeThreads == {main, a, b}
OneKey == {k1}
TwoKeys == {k1, k2}

Symmetric == Permutations(TwoKeys)
=============================================================================
