------------------------- MODULE MCControllerWork -------------------------
(***************************************************************************)
(* ControllerWork on small hosts: which Works change the device, how many  *)
(* processes race, and how many of them may die.                           *)
(***************************************************************************)
EXTENDS ControllerWork, TLC

CONSTANTS plain, effect, p1, p2, n1, n2

Single   == {effect}
Pair     == {plain, effect}
TwoProcs == {p1, p2}
TwoNodes == {n1, n2}
OneNode  == {n1}

Interchangeable == Permutations(TwoProcs) \cup Permutations(TwoNodes)
=============================================================================
