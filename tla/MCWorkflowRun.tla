-------------------------- MODULE MCWorkflowRun --------------------------
(***************************************************************************)
(* WorkflowRun on a definition of five steps in three waves: an effect     *)
(* with a compensation beside a pure step with a retry, then a gated       *)
(* effect with a trusted retry beside a condition that is not met, then a  *)
(* step with a journal of its own.  Some hosts lack the first and the last *)
(* step's handlers.                                                        *)
(***************************************************************************)
EXTENDS WorkflowRun

CONSTANTS charge, quote, ship, remind, notify

MCSteps == {charge, quote, ship, remind, notify}
MCPosition == [s \in MCSteps |-> CASE s = charge -> 1 [] s = quote -> 2 [] s = ship -> 3
                                   [] s = remind -> 4 [] s = notify -> 5]
MCAfter == [s \in MCSteps |-> CASE s \in {charge, quote} -> {}
                                [] s = ship -> {charge, quote}
                                [] s = remind -> {quote}
                                [] s = notify -> {ship, remind}]
MCWave == [s \in MCSteps |-> CASE s \in {charge, quote} -> 0
                               [] s \in {ship, remind} -> 1
                               [] s = notify -> 2]
MCRetries == [s \in MCSteps |-> IF s \in {quote, ship} THEN 1 ELSE 0]
=============================================================================
