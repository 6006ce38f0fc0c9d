---------------------------- MODULE OneExecution ----------------------------
(***************************************************************************)
(* What a node promises of a work delivered at-most-once, whatever is      *)
(* redelivered, cancelled, lost or interrupted: its handler is entered at  *)
(* most once and not after an outcome was reported; one outcome is         *)
(* reported for good; COMPLETED only of a handler that was entered,        *)
(* CANCELLED only of one that was not, and will not be.  Nothing is        *)
(* promised of a work whose effect is in doubt: it may never be reported.  *)
(***************************************************************************)

CONSTANT Items  \* identities

VARIABLES
  entered,  \* those whose handler was entered
  outcome   \* what was reported

executionVars == <<entered, outcome>>

Outcomes == {"COMPLETED", "FAILED", "CANCELLED"}

ExecutionInit ==
  /\ entered = {}
  /\ outcome = [i \in Items |-> "none"]

Enter(i) ==
  /\ i \notin entered /\ outcome[i] = "none"
  /\ entered' = entered \cup {i}
  /\ UNCHANGED outcome

Report(i, o) ==
  /\ outcome[i] = "none"
  /\ o = "COMPLETED" => i \in entered
  /\ o = "CANCELLED" => i \notin entered
  /\ outcome' = [outcome EXCEPT ![i] = o]
  /\ UNCHANGED entered

ExecutionNext == \E i \in Items : Enter(i) \/ \E o \in Outcomes : Report(i, o)

ExecutionSpec == ExecutionInit /\ [][ExecutionNext]_executionVars
=============================================================================
