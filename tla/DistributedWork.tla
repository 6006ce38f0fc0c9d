-------------------------- MODULE DistributedWork --------------------------
(***************************************************************************)
(* The durable Work record of the Controller and its transition table      *)
(* (nous_runtime/node_runtime/distributed_work.py).                        *)
(*                                                                         *)
(* Digests, timestamps and reasons are left out of the record.  A dispatch *)
(* record and a result summary each carry the time they were made, so two  *)
(* made by different calls are never equal: "recorded already, and not the *)
(* same" is "recorded already".                                            *)
(***************************************************************************)

CONSTANTS
  Works,      \* Work identities
  Effectful,  \* those whose policy requires an effect verification
  Nodes       \* nodes a Work can be assigned to

States == {"CREATED", "SCHEDULED", "ASSIGNED", "RUNNING", "SUCCEEDED",
           "VERIFIED", "COMMITTED", "FAILED", "RECOVERING", "UNKNOWN"}

Transitions ==
  [s \in States |->
     CASE s = "CREATED"    -> {"SCHEDULED", "FAILED"}
       [] s = "SCHEDULED"  -> {"ASSIGNED", "FAILED"}
       [] s = "ASSIGNED"   -> {"RUNNING", "FAILED", "RECOVERING", "UNKNOWN"}
       [] s = "RUNNING"    -> {"SUCCEEDED", "FAILED", "RECOVERING", "UNKNOWN"}
       [] s = "SUCCEEDED"  -> {"VERIFIED", "RECOVERING", "UNKNOWN"}
       [] s = "VERIFIED"   -> {"COMMITTED", "FAILED"}
       [] s = "COMMITTED"  -> {}
       [] s = "FAILED"     -> {"RECOVERING"}
       [] s = "RECOVERING" -> {"SCHEDULED", "ASSIGNED", "RUNNING", "FAILED", "UNKNOWN"}
       [] s = "UNKNOWN"    -> {"RECOVERING", "FAILED"}]

NoNode    == "no node"

ASSUME WorkAssumption == Effectful \subseteq Works /\ NoNode \notin Nodes

Verdicts  == {"MATCH", "MISMATCH", "UNKNOWN"}
Summaries == {"VERIFIED", "FAILED", "UNKNOWN"}

WorkRecords == [state      : States,
                node       : Nodes \cup {NoNode},
                dispatched : BOOLEAN,
                summary    : Summaries \cup {"none"},
                verdict    : Verdicts \cup {"none"}]

NewWork == [state |-> "CREATED", node |-> NoNode, dispatched |-> FALSE,
            summary |-> "none", verdict |-> "none"]

\* DistributedWork.transition: what it refuses.  An assignment is made once
\* and binds its node for good; assign() adds that the Work is SCHEDULED.
CanMove(w, rec, target) ==
  /\ target \in Transitions[rec.state]
  /\ target = "COMMITTED" /\ w \in Effectful => rec.verdict = "MATCH"
  /\ target = "RUNNING" => rec.node # NoNode

CanAssign(rec, n) ==
  /\ rec.state = "SCHEDULED"
  /\ rec.node \in {NoNode, n}

\* Mutant: a later verdict replaces a MATCH.
CanRecordAnyVerdict(rec, verdict) == rec.state = "VERIFIED"

\* DistributedWorkStore.record_dispatch, record_result and
\* record_effect_verification: what they refuse.
CanRecordDispatch(rec) == rec.state = "ASSIGNED" /\ ~rec.dispatched

CanRecordSummary(rec)  == rec.summary = "none"
CanRecordVerdict(rec, verdict) ==
  /\ rec.state = "VERIFIED"
  /\ rec.verdict # "MATCH"
=============================================================================
