------------------------- MODULE MCModelAccounting -------------------------
(* Two processes, two requests and a budget for two estimated calls.  A run   *)
(* may cost less or more than its estimate, and be reported exactly, by a     *)
(* guess, in a form that is not read, or over the authorized size.            *)
EXTENDS ModelAccounting, TLC

Report(charge, tokens, measured, valid, over) ==
  [charge |-> charge, tokens |-> tokens, measured |-> measured, valid |-> valid,
   over |-> over]

SomeReports == {Report(1, 1, TRUE, TRUE, FALSE), Report(3, 3, TRUE, TRUE, FALSE),
                Report(2, 3, FALSE, TRUE, FALSE), Report(2, 0, FALSE, FALSE, FALSE),
                Report(2, 2, TRUE, TRUE, TRUE)}

Symmetric == Permutations(Processes) \cup Permutations(Reservations)
               \cup Permutations(Models) \cup Permutations(Requests)
=============================================================================
