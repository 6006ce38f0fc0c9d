--------------------------- MODULE WorkLifecycle ---------------------------
(***************************************************************************)
(* What the Controller promises of a Work, whoever moves it and however    *)
(* often it is interrupted: its state follows the transition table, an     *)
(* effectful Work commits only on a recorded MATCH, and a recorded MATCH   *)
(* is never taken back.                                                    *)
(***************************************************************************)
EXTENDS DistributedWork

VARIABLES
  phase,   \* the state of each Work
  matched  \* whether an independent MATCH is on record

lifecycleVars == <<phase, matched>>

LifecycleInit ==
  /\ phase = [w \in Works |-> "CREATED"]
  /\ matched = [w \in Works |-> FALSE]

Move(w, target) ==
  /\ target \in Transitions[phase[w]]
  /\ target = "COMMITTED" /\ w \in Effectful => matched[w]
  /\ phase' = [phase EXCEPT ![w] = target]
  /\ UNCHANGED matched

Match(w) ==
  /\ phase[w] = "VERIFIED" /\ ~matched[w]
  /\ matched' = [matched EXCEPT ![w] = TRUE]
  /\ UNCHANGED phase

LifecycleNext ==
  \E w \in Works : Match(w) \/ \E target \in States : Move(w, target)

LifecycleSpec == LifecycleInit /\ [][LifecycleNext]_lifecycleVars
=============================================================================
