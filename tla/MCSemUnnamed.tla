---------------------------- MODULE MCSemUnnamed ----------------------------
(* Small instances of SemUnnamed for TLC *)
EXTENDS SemUnnamed, TLC

CONSTANTS a, b, c, p, q

ThreeTakers == {a, b, c}
TwoTakers == {a, b}
OneTaker == {a}
OtherTaker == {b}
TwoPosters == {p, q}
OnePoster == {p}
None == {}

ZeroOrOne == {0, 1}
Zero == {0}
=============================================================================
