------------------------------ MODULE MCWorkRun ------------------------------
(***************************************************************************)
(* WorkRun with two processes and two calls.                               *)
(***************************************************************************)
EXTENDS WorkRun, TLC

CONSTANTS p1, p2, c1, c2

TwoProcesses == {p1, p2}
TwoCalls == {c1, c2}

Interchangeable == Permutations(TwoProcesses) \cup Permutations(TwoCalls)
=============================================================================
