---------------------------- MODULE MCWebDiscovery ----------------------------
(* Instances of WebDiscovery for TLC. *)
EXTENDS WebDiscovery, TLC

CONSTANTS r1, r2, p1, p2

TwoRuns == {r1, r2}
TwoPages == {p1, p2}
TwoAndOne == [f \in Families |-> IF f = "demand" THEN 2 ELSE 1]
BothAndOne == [f \in Families |-> IF f = "demand" THEN TwoPages ELSE {p1}]
RunSymmetry == Permutations(TwoRuns)
=============================================================================
