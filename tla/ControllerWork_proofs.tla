----------------------- MODULE ControllerWork_proofs -----------------------
(***************************************************************************)
(* For every set of Works, nodes and processes, every race between them    *)
(* and every number of deaths: the type invariant of ControllerWork, the   *)
(* implementation of WorkLifecycle, the use made of RemoteExecution, and   *)
(*   - AdmittedFirst, because a spool file is written only by a process    *)
(*     that has seen the dispatch on record, and dispatch records stay;    *)
(*   - StateHasEvidence, because what a process is about to record is      *)
(*     grounded in a result that never changes;                            *)
(*   - CommitWitnessed, because a verdict on its way to the record already *)
(*     rests on an observation.                                            *)
(***************************************************************************)
EXTENDS ControllerWork, TLAPS

\* Who reconciles has seen a signed result, and a completed one unless it is
\* about to record it.
Reconcilers ==
  \A p \in Procs :
    /\ job[p].step \in {"summarize", "conclude"} => result[job[p].work] # "none"
    /\ job[p].step \in {"run", "succeed", "artifacts", "verify"} =>
         result[job[p].work] = "COMPLETED"

LEMMA GotoTyped ==
  ASSUME TypeOK, NEW p \in Procs, NEW w \in Works, NEW step \in Steps,
         Goto(p, w, step)
  PROVE  job' \in [Procs -> Jobs \cup {Idle}]
BY DEF TypeOK, Goto, Jobs

LEMMA LeaveTyped ==
  ASSUME TypeOK, NEW p \in Procs, Leave(p)
  PROVE  job' \in [Procs -> Jobs \cup {Idle}]
BY DEF TypeOK, Leave

LEMMA MoveTyped ==
  ASSUME TypeOK, NEW w \in Works, NEW target \in States, Move(w, target)
  PROVE  store' \in [Works -> WorkRecords]
BY DEF TypeOK, Move, WorkRecords

\* A record changed in one field, and the store that holds it.
LEMMA RecordTyped ==
  ASSUME NEW rec \in WorkRecords
  PROVE  /\ [rec EXCEPT !.dispatched = TRUE] \in WorkRecords
         /\ \A s \in Summaries : [rec EXCEPT !.summary = s] \in WorkRecords
         /\ \A v \in Verdicts \cup {"none"} : [rec EXCEPT !.verdict = v] \in WorkRecords
BY Zenon DEF WorkRecords

LEMMA StatusTyped ==
  ASSUME NEW r \in Results
  PROVE  StatusOf(r) \in Summaries /\ StatusOf(r) \in States
BY DEF Results, StatusOf, Summaries, States

\* A step of a process keeps every variable it may change in its type.
LEMMA ProcessTyped ==
  ASSUME TypeOK, Reconcilers,
         NEW p \in Procs, NEW w \in Works, Begin(p, w) \/ Continue(p, w)
  PROVE  TypeOK'
<1> USE GotoTyped, LeaveTyped DEF Elsewhere, Steps
<1>1. CASE BeginSchedule(p, w) BY <1>1 DEF BeginSchedule, TypeOK
<1>2. CASE BeginStage(p, w) BY <1>2 DEF BeginStage, TypeOK
<1>3. CASE BeginReconcile(p, w) BY <1>3 DEF BeginReconcile, Resume, TypeOK
<1>4. CASE BeginFinalize(p, w) BY <1>4 DEF BeginFinalize, TypeOK
<1>5. CASE Schedule(p, w) BY <1>5, MoveTyped DEF Schedule, Attempt, TypeOK, States
<1>6. CASE Place(p, w) BY <1>6 DEF Place, TypeOK
<1>7. ASSUME NEW n \in Nodes, Assign(p, w, n) PROVE TypeOK'
  BY <1>7 DEF Assign, Attempt, TypeOK, WorkRecords, States
<1>8. CASE RecordDispatch(p, w)
  <2>1. store' \in [Works -> WorkRecords]
    BY <1>8, RecordTyped DEF RecordDispatch, Attempt, TypeOK
  <2> QED BY <1>8, <2>1 DEF RecordDispatch, Attempt, TypeOK
<1>9. CASE WriteSpool(p, w) BY <1>9 DEF WriteSpool, TypeOK
<1>10. CASE Run(p, w) BY <1>10, MoveTyped DEF Run, Attempt, TypeOK, States
<1>11. CASE Succeed(p, w) BY <1>11, MoveTyped DEF Succeed, Attempt, TypeOK, States
<1>12. CASE StoreArtifacts(p, w) BY <1>12 DEF StoreArtifacts, TypeOK
<1>13. CASE RecordResult(p, w)
  <2>1. result[w] \in Results
    BY <1>13 DEF RecordResult, Attempt, At, Reconcilers, TypeOK
  <2>2. store' \in [Works -> WorkRecords]
    <3>1. [store[w] EXCEPT !.summary = StatusOf(result[w])] \in WorkRecords
      BY <2>1, StatusTyped, RecordTyped DEF TypeOK
    <3> QED BY <1>13, <3>1 DEF RecordResult, Attempt, TypeOK
  <2> QED BY <1>13, <2>2 DEF RecordResult, Attempt, TypeOK
<1>14. CASE Conclude(p, w)
  <2>1. result[w] \in Results
    BY <1>14 DEF Conclude, Attempt, At, Reconcilers, TypeOK
  <2>2. store' \in [Works -> WorkRecords]
    BY <1>14, <2>1, StatusTyped, MoveTyped DEF Conclude, Attempt, TypeOK
  <2> QED BY <1>14, <2>2 DEF Conclude, Attempt, TypeOK
<1>15. CASE Verify(p, w) BY <1>15, MoveTyped DEF Verify, Attempt, TypeOK, States
<1>16. CASE Commit(p, w) BY <1>16, MoveTyped DEF Commit, Attempt, TypeOK, States
<1>17. CASE Observe(p, w)
  BY <1>17 DEF Observe, VerdictOn, TypeOK, Jobs, Verdicts
<1>18. CASE Judge(p, w)
  <2>1. ASSUME job[p].step = "judge" PROVE job[p].verdict \in Verdicts \cup {"none"}
    BY DEF TypeOK, Jobs, Idle
  <2>2. store' \in [Works -> WorkRecords]
    <3>1. CASE UNCHANGED store BY <3>1 DEF TypeOK
    <3>2. CASE store' = [store EXCEPT ![w].verdict = job[p].verdict]
      <4>1. job[p].step = "judge" BY <1>18 DEF Judge, Attempt, At
      <4>2. [store[w] EXCEPT !.verdict = job[p].verdict] \in WorkRecords
        BY <2>1, <4>1, RecordTyped DEF TypeOK
      <4> QED BY <3>2, <4>2 DEF TypeOK
    <3> QED BY <1>18, <3>1, <3>2 DEF Judge, Attempt
  <2> QED BY <1>18, <2>2 DEF Judge, Attempt, TypeOK
<1> QED
  BY <1>1, <1>2, <1>3, <1>4, <1>5, <1>6, <1>7, <1>8, <1>9, <1>10, <1>11, <1>12,
     <1>13, <1>14, <1>15, <1>16, <1>17, <1>18 DEF Begin, Continue

\* A step of the relay, the node or the world, or a death.
LEMMA OtherTyped ==
  ASSUME TypeOK,
         \/ \E w \in Works : Relay(w) \/ RejectRequest(w)
         \/ \E p \in Procs : Die(p)
         \/ Drift
  PROVE  TypeOK'
<1> USE ControllerAssumption
<1>1. ASSUME NEW w \in Works, QueueRequest(w) \/ RetireRequest(w) \/ RejectRequest(w)
      PROVE  TypeOK'
  BY <1>1 DEF QueueRequest, RetireRequest, RejectRequest, TypeOK
<1>2. ASSUME NEW w \in Works, Acknowledge(w) PROVE TypeOK'
  BY <1>2, MoveTyped DEF Acknowledge, TypeOK, States
<1>3. ASSUME NEW w \in Works, ApplyEffect(w) PROVE TypeOK'
  BY <1>3 DEF ApplyEffect, TypeOK
<1>4. ASSUME NEW w \in Works, NEW r \in Results, StoreResult(w, r) PROVE TypeOK'
  BY <1>4 DEF StoreResult, TypeOK
<1>5. ASSUME NEW p \in Procs, Die(p) PROVE TypeOK'
  BY <1>5, LeaveTyped DEF Die, TypeOK
<1>6. CASE Drift
  <2>1. device' \in [last : Works \cup {NoWork}, shows : BOOLEAN]
    BY <1>6 DEF Drift, TypeOK
  <2> QED BY <1>6, <2>1 DEF Drift, TypeOK
<1> QED BY <1>1, <1>2, <1>3, <1>4, <1>5, <1>6 DEF Relay

-----------------------------------------------------------------------------
(* Admission *)

Placed(w) == store[w].dispatched /\ store[w].node # NoNode

RecordsPlaced ==
  \A w \in Works :
    /\ store[w].state # "RECOVERING"
    /\ store[w].state = "ASSIGNED" => store[w].node # NoNode
    /\ store[w].dispatched => Placed(w) /\ store[w].state \notin {"CREATED", "SCHEDULED"}
Spoolers ==
  \A p \in Procs : job[p].step \in {"spool", "respool"} => store[job[p].work].dispatched
AnsweredStarted == \A w \in Works : result[w] # "none" => w \in started

AInv ==
  /\ TypeOK
  /\ Reconcilers
  /\ RecordsPlaced
  /\ Spoolers
  /\ AnsweredStarted
  /\ AdmittedFirst

\* The process that steps; every other keeps its job.
Others(p) == \A q \in Procs \ {p} : job'[q] = job[q]

LEMMA OthersWait ==
  ASSUME TypeOK, NEW p \in Procs, NEW w \in Works, Begin(p, w) \/ Continue(p, w)
  PROVE  Others(p) /\ UNCHANGED <<started, result>>
         /\ \A v \in Works \ {w} : store'[v] = store[v]
<1> USE DEF Others, Goto, Leave, Attempt, Elsewhere, Move, TypeOK
<1>1. CASE Begin(p, w)
  BY <1>1 DEF Begin, BeginSchedule, BeginStage, BeginReconcile, BeginFinalize
<1>2. CASE Schedule(p, w) \/ Place(p, w) \/ \E n \in Nodes : Assign(p, w, n)
  BY <1>2 DEF Schedule, Place, Assign
<1>3. CASE RecordDispatch(p, w) \/ WriteSpool(p, w)
  BY <1>3 DEF RecordDispatch, WriteSpool
<1>4. CASE Run(p, w) \/ Succeed(p, w) \/ StoreArtifacts(p, w) \/ RecordResult(p, w)
  BY <1>4 DEF Run, Succeed, StoreArtifacts, RecordResult
<1>5. CASE Conclude(p, w) \/ Verify(p, w) \/ Commit(p, w)
  BY <1>5 DEF Conclude, Verify, Commit
<1>6. CASE Observe(p, w) \/ Judge(p, w)
  BY <1>6 DEF Observe, Judge
<1> QED BY <1>1, <1>2, <1>3, <1>4, <1>5, <1>6 DEF Continue

LEMMA ReconcilersStep ==
  ASSUME TypeOK, Reconcilers, NEW p \in Procs, NEW w \in Works,
         Begin(p, w) \/ Continue(p, w)
  PROVE  Reconcilers'
<1> USE DEF Reconcilers, Goto, Leave, Attempt, Elsewhere, At, TypeOK, Idle
<1>0. Others(p) /\ UNCHANGED result BY OthersWait
<1>1. CASE BeginReconcile(p, w)
  BY <1>0, <1>1 DEF Others, BeginReconcile, Resume
<1>2. CASE BeginSchedule(p, w) \/ BeginStage(p, w) \/ BeginFinalize(p, w)
  BY <1>0, <1>2 DEF Others, BeginSchedule, BeginStage, BeginFinalize
<1>3. CASE Schedule(p, w) \/ Place(p, w) \/ \E n \in Nodes : Assign(p, w, n)
  BY <1>0, <1>3 DEF Others, Schedule, Place, Assign
<1>4. CASE RecordDispatch(p, w) \/ WriteSpool(p, w)
  BY <1>0, <1>4 DEF Others, RecordDispatch, WriteSpool
<1>5. CASE Run(p, w) \/ Succeed(p, w) \/ StoreArtifacts(p, w) \/ RecordResult(p, w)
  BY <1>0, <1>5 DEF Others, Run, Succeed, StoreArtifacts, RecordResult
<1>6. CASE Conclude(p, w) \/ Verify(p, w) \/ Commit(p, w)
  BY <1>0, <1>6 DEF Others, Conclude, Verify, Commit
<1>7. CASE Observe(p, w) \/ Judge(p, w)
  BY <1>0, <1>7 DEF Others, Observe, Judge
<1> QED BY <1>1, <1>2, <1>3, <1>4, <1>5, <1>6, <1>7 DEF Begin, Continue

\* What a process does to the record it works on respects admission.
LEMMA RecordsPlacedStep ==
  ASSUME AInv, NEW p \in Procs, NEW w \in Works, Begin(p, w) \/ Continue(p, w)
  PROVE  /\ RecordsPlaced'
         /\ \A v \in Works : Placed(v) => Placed(v)'
         /\ store'[w].state \notin {"CREATED", "SCHEDULED", "ASSIGNED"} => Placed(w)
<1> USE WorkAssumption
    DEF AInv, RecordsPlaced, Placed, Attempt, Elsewhere, Move, TypeOK, WorkRecords
<1>0. \A v \in Works \ {w} : store'[v] = store[v] BY OthersWait
<1>1. CASE UNCHANGED store BY <1>1 DEF AdmittedFirst
<1>2. CASE Schedule(p, w)
  BY <1>0, <1>1, <1>2 DEF Schedule, CanMove, Transitions, States
<1>3. ASSUME NEW n \in Nodes, Assign(p, w, n)
      PROVE  /\ RecordsPlaced'
             /\ \A v \in Works : Placed(v) => Placed(v)'
             /\ store'[w].state \notin {"CREATED", "SCHEDULED", "ASSIGNED"} => Placed(w)
  BY <1>0, <1>1, <1>3 DEF Assign, CanAssign
<1>4. CASE RecordDispatch(p, w)
  BY <1>0, <1>1, <1>4 DEF RecordDispatch, CanRecordDispatch
<1>5. CASE Run(p, w)
  <2>1. At(p, w, "run") BY <1>5 DEF Run
  <2>2. Placed(w) BY <2>1 DEF At, Reconcilers, AnsweredStarted, AdmittedFirst
  <2>3. UNCHANGED store \/ store' = [store EXCEPT ![w].state = "RUNNING"] BY <1>5 DEF Run
  <2> QED BY <1>0, <1>1, <2>2, <2>3
<1>6. CASE Succeed(p, w)
  BY <1>0, <1>1, <1>6 DEF Succeed, CanMove, Transitions, States, AdmittedFirst
<1>7. CASE RecordResult(p, w)
  BY <1>0, <1>1, <1>7 DEF RecordResult, AdmittedFirst
<1>8. CASE Conclude(p, w)
  <2>1. At(p, w, "conclude") BY <1>8 DEF Conclude
  <2>2. Placed(w) /\ result[w] \in Results
    BY <2>1 DEF At, Reconcilers, AnsweredStarted, AdmittedFirst
  <2>3. StatusOf(result[w]) \in {"FAILED", "UNKNOWN", "VERIFIED"}
    BY <2>2, StatusTyped DEF Summaries
  <2> QED BY <1>0, <1>1, <1>8, <2>2, <2>3 DEF Conclude
<1>9. CASE Verify(p, w)
  BY <1>0, <1>1, <1>9 DEF Verify, CanMove, Transitions, States, AdmittedFirst
<1>10. CASE Commit(p, w)
  BY <1>0, <1>1, <1>10 DEF Commit, CanMove, Transitions, States, AdmittedFirst
<1>11. CASE Judge(p, w)
  BY <1>0, <1>1, <1>11 DEF Judge, AdmittedFirst
<1> QED
  BY <1>1, <1>2, <1>3, <1>4, <1>5, <1>6, <1>7, <1>8, <1>9, <1>10, <1>11
  DEF Begin, Continue, BeginSchedule, BeginStage, BeginReconcile, BeginFinalize,
      Place, WriteSpool, StoreArtifacts, Observe

LEMMA SpoolersStep ==
  ASSUME AInv, NEW p \in Procs, NEW w \in Works, Begin(p, w) \/ Continue(p, w)
  PROVE  /\ Spoolers'
         /\ \A v \in spool' \ spool : Placed(v)
<1> USE DEF AInv, Spoolers, Goto, Leave, Attempt, Elsewhere, At, TypeOK, Idle, Placed,
            RecordsPlaced, WorkRecords
<1>0. Others(p) /\ \A v \in Works : Placed(v) => Placed(v)'
  BY OthersWait, RecordsPlacedStep
<1>1. \A q \in Procs \ {p} : job[q].step \in {"spool", "respool"} => store'[job[q].work].dispatched
  BY <1>0 DEF Jobs
<1>2. CASE BeginStage(p, w)
  BY <1>0, <1>1, <1>2 DEF Others, BeginStage
<1>3. CASE BeginSchedule(p, w) \/ BeginReconcile(p, w) \/ BeginFinalize(p, w)
  BY <1>0, <1>1, <1>3 DEF Others, BeginSchedule, BeginReconcile, Resume, BeginFinalize
<1>4. CASE Schedule(p, w) \/ Place(p, w) \/ \E n \in Nodes : Assign(p, w, n)
  BY <1>0, <1>1, <1>4 DEF Others, Schedule, Place, Assign
<1>5. CASE RecordDispatch(p, w)
  BY <1>0, <1>1, <1>5 DEF Others, RecordDispatch
<1>6. CASE WriteSpool(p, w)
  BY <1>0, <1>1, <1>6 DEF Others, WriteSpool
<1>7. CASE Run(p, w) \/ Succeed(p, w) \/ StoreArtifacts(p, w) \/ RecordResult(p, w)
  BY <1>0, <1>1, <1>7 DEF Others, Run, Succeed, StoreArtifacts, RecordResult
<1>8. CASE Conclude(p, w) \/ Verify(p, w) \/ Commit(p, w)
  BY <1>0, <1>1, <1>8 DEF Others, Conclude, Verify, Commit
<1>9. CASE Observe(p, w) \/ Judge(p, w)
  BY <1>0, <1>1, <1>9 DEF Others, Observe, Judge
<1> QED BY <1>2, <1>3, <1>4, <1>5, <1>6, <1>7, <1>8, <1>9 DEF Begin, Continue

\* The relay starts and answers only what was admitted.
LEMMA RelayAdmits ==
  ASSUME AInv,
         \/ \E w \in Works : Relay(w) \/ RejectRequest(w)
         \/ \E p \in Procs : Die(p)
         \/ Drift
  PROVE  AInv'
<1> USE DEF AInv, RecordsPlaced, Spoolers, AnsweredStarted, AdmittedFirst, Reconcilers,
            Placed, TypeOK
<1>0. TypeOK' BY OtherTyped
<1>1. ASSUME NEW w \in Works, QueueRequest(w) \/ RetireRequest(w) \/ RejectRequest(w)
      PROVE  AInv'
  BY <1>0, <1>1 DEF QueueRequest, RetireRequest, RejectRequest
<1>2. ASSUME NEW w \in Works, Acknowledge(w) PROVE AInv'
  BY <1>0, <1>2 DEF Acknowledge, Move, WorkRecords
<1>3. ASSUME NEW w \in Works, ApplyEffect(w) PROVE AInv'
  BY <1>0, <1>3 DEF ApplyEffect
<1>4. ASSUME NEW w \in Works, NEW r \in Results, StoreResult(w, r) PROVE AInv'
  BY <1>0, <1>4 DEF StoreResult, Results
<1>5. ASSUME NEW p \in Procs, Die(p) PROVE AInv'
  BY <1>0, <1>5 DEF Die, Leave, Idle
<1>6. CASE Drift BY <1>0, <1>6 DEF Drift
<1> QED BY <1>1, <1>2, <1>3, <1>4, <1>5, <1>6 DEF Relay

LEMMA AInvStep == AInv /\ [Next]_vars => AInv'
<1> SUFFICES ASSUME AInv, [Next]_vars PROVE AInv'
  OBVIOUS
<1>1. ASSUME NEW p \in Procs, NEW w \in Works, Begin(p, w) \/ Continue(p, w)
      PROVE  AInv'
  <2>1. TypeOK' BY <1>1, ProcessTyped DEF AInv
  <2>2. Reconcilers' BY <1>1, ReconcilersStep DEF AInv
  <2>3. /\ RecordsPlaced'
        /\ \A v \in Works : Placed(v) => Placed(v)'
        /\ store'[w].state \notin {"CREATED", "SCHEDULED", "ASSIGNED"} => Placed(w)
    BY <1>1, RecordsPlacedStep
  <2>4. Spoolers' /\ \A v \in spool' \ spool : Placed(v) BY <1>1, SpoolersStep
  <2>5. UNCHANGED <<started, result>> /\ \A v \in Works \ {w} : store'[v] = store[v]
    BY <1>1, OthersWait DEF AInv
  <2>6. AnsweredStarted' BY <2>5 DEF AInv, AnsweredStarted
  <2>7. AdmittedFirst'
    BY <2>3, <2>4, <2>5 DEF AInv, AdmittedFirst, Placed
  <2> QED BY <2>1, <2>2, <2>3, <2>4, <2>6, <2>7 DEF AInv
<1>2. CASE UNCHANGED vars
  BY <1>2 DEF vars, AInv, TypeOK, Reconcilers, RecordsPlaced, Placed, Spoolers,
              AnsweredStarted, AdmittedFirst
<1> QED BY <1>1, <1>2, RelayAdmits DEF Next

LEMMA AInvInit == Init => AInv
BY WorkAssumption, ControllerAssumption
DEF Init, AInv, TypeOK, WorkRecords, NewWork, States, Idle, Reconcilers, RecordsPlaced,
    Placed, Spoolers, AnsweredStarted, AdmittedFirst

\* The variables of the Controller keep their types.
THEOREM TypeCorrect == Spec => []TypeOK
<1>1. AInv => TypeOK BY DEF AInv
<1> QED BY <1>1, AInvInit, AInvStep, PTL DEF Spec

\* Nothing reaches the spool, the relay or a state past ASSIGNED before its
\* node and its dispatch are on record, whoever stages it and whoever dies.
THEOREM AdmissionFirst == Spec => []AdmittedFirst
<1>1. AInv => AdmittedFirst BY DEF AInv
<1> QED BY <1>1, AInvInit, AInvStep, PTL DEF Spec

-----------------------------------------------------------------------------
(* The table and the verdict: ControllerWork implements WorkLifecycle. *)

Phase   == [w \in Works |-> store[w].state]
Matched == [w \in Works |-> store[w].verdict = "MATCH"]

LEMMA SameTable == Lifecycle!States = States /\ Lifecycle!Transitions = Transitions
BY DEF Lifecycle!States, States, Lifecycle!Transitions, Transitions

\* A record that moves along the table, its verdict kept, is a move of the
\* lifecycle.
LEMMA MoveFollows ==
  ASSUME TypeOK, NEW w \in Works, NEW target \in Transitions[store[w].state],
         target = "COMMITTED" /\ w \in Effectful => store[w].verdict = "MATCH",
         NEW rec, rec.state = target, rec.verdict = store[w].verdict,
         store' = [store EXCEPT ![w] = rec]
  PROVE  [Lifecycle!LifecycleNext]_(Lifecycle!lifecycleVars)
<1>1. target \in States
  BY DEF Transitions, States, TypeOK, WorkRecords
<1>2. Phase' = [Phase EXCEPT ![w] = target] BY DEF Phase, TypeOK
<1>3. \A v \in Works : (store'[v].verdict = "MATCH") = (store[v].verdict = "MATCH")
  BY DEF TypeOK
<1>4. Matched' = Matched BY <1>3 DEF Matched
<1>5. target \in Transitions[Phase[w]] BY DEF Phase
<1>6. w \in Effectful /\ target = "COMMITTED" => Matched[w] BY DEF Matched
<1>7. Lifecycle!Move(w, target)
  BY <1>2, <1>4, <1>5, <1>6, SameTable DEF Lifecycle!Move, Phase, Matched
<1> QED BY <1>1, <1>7, SameTable DEF Lifecycle!LifecycleNext

\* So is a move that CanMove allows.
LEMMA CanMoveFollows ==
  ASSUME TypeOK, NEW w \in Works, NEW target, CanMove(w, store[w], target), Move(w, target)
  PROVE  [Lifecycle!LifecycleNext]_(Lifecycle!lifecycleVars)
<1> DEFINE rec == [store[w] EXCEPT !.state = target]
<1>1. rec.state = target /\ rec.verdict = store[w].verdict
  BY DEF TypeOK, WorkRecords
<1>2. store' = [store EXCEPT ![w] = rec] BY DEF Move
<1> HIDE DEF rec
<1> QED BY <1>1, <1>2, MoveFollows DEF CanMove

LEMMA UnchangedFollows ==
  ASSUME Phase' = Phase, Matched' = Matched
  PROVE  [Lifecycle!LifecycleNext]_(Lifecycle!lifecycleVars)
BY DEF Phase, Matched, Lifecycle!lifecycleVars

\* A record that keeps its state and its verdict.
LEMMA RecordFollows ==
  ASSUME TypeOK, NEW w \in Works, NEW rec,
         rec.state = store[w].state, (rec.verdict = "MATCH") = (store[w].verdict = "MATCH"),
         store' = [store EXCEPT ![w] = rec]
  PROVE  [Lifecycle!LifecycleNext]_(Lifecycle!lifecycleVars)
<1>1. \A v \in Works : /\ store'[v].state = store[v].state
                       /\ (store'[v].verdict = "MATCH") = (store[v].verdict = "MATCH")
  BY DEF TypeOK
<1>2. Phase' = Phase BY <1>1 DEF Phase
<1>3. Matched' = Matched BY <1>1 DEF Matched
<1> QED BY <1>2, <1>3, UnchangedFollows

LEMMA JudgeFollows ==
  ASSUME TypeOK, NEW w \in Works, NEW verdict, CanRecordVerdict(store[w], verdict),
         store' = [store EXCEPT ![w].verdict = verdict]
  PROVE  [Lifecycle!LifecycleNext]_(Lifecycle!lifecycleVars)
<1> DEFINE rec == [store[w] EXCEPT !.verdict = verdict]
<1>1. rec.state = store[w].state /\ rec.verdict = verdict
  BY DEF TypeOK, WorkRecords
<1>2. store' = [store EXCEPT ![w] = rec] OBVIOUS
<1> HIDE DEF rec
<1>3. CASE verdict # "MATCH"
  BY <1>1, <1>2, <1>3, RecordFollows DEF CanRecordVerdict
<1>4. CASE verdict = "MATCH"
  <2>1. Phase' = Phase BY <1>1, <1>2 DEF Phase, TypeOK
  <2>2. \A v \in Works : (store'[v].verdict = "MATCH")
                           = IF v = w THEN TRUE ELSE store[v].verdict = "MATCH"
    BY <1>1, <1>2, <1>4 DEF TypeOK
  <2>3. Matched' = [Matched EXCEPT ![w] = TRUE] BY <2>2 DEF Matched
  <2>4. Phase[w] = "VERIFIED" /\ ~Matched[w] BY DEF Phase, Matched, CanRecordVerdict
  <2>5. Lifecycle!Match(w)
    BY <2>1, <2>3, <2>4 DEF Lifecycle!Match, Phase, Matched
  <2> QED BY <2>5 DEF Lifecycle!LifecycleNext
<1> QED BY <1>3, <1>4

\* One call of the store is one step of the lifecycle or none.
LEMMA ProcessFollows ==
  ASSUME TypeOK, NEW p \in Procs, NEW w \in Works, Begin(p, w) \/ Continue(p, w)
  PROVE  [Lifecycle!LifecycleNext]_(Lifecycle!lifecycleVars)
<1> USE DEF Attempt, Elsewhere
<1>1. CASE UNCHANGED store BY <1>1, UnchangedFollows DEF Phase, Matched
<1>2. CASE Schedule(p, w) \/ Run(p, w) \/ Succeed(p, w) \/ Conclude(p, w)
           \/ Verify(p, w) \/ Commit(p, w)
  BY <1>1, <1>2, CanMoveFollows DEF Schedule, Run, Succeed, Conclude, Verify, Commit
<1>3. ASSUME NEW n \in Nodes, Assign(p, w, n)
      PROVE  [Lifecycle!LifecycleNext]_(Lifecycle!lifecycleVars)
  <2> DEFINE rec == [store[w] EXCEPT !.state = "ASSIGNED", !.node = n]
  <2>1. CASE CanAssign(store[w], n) /\ store' = [store EXCEPT ![w] = rec]
    <3>1. rec.state = "ASSIGNED" /\ rec.verdict = store[w].verdict
      BY DEF TypeOK, WorkRecords
    <3>2. "ASSIGNED" \in Transitions[store[w].state]
      BY <2>1 DEF CanAssign, Transitions, States
    <3> HIDE DEF rec
    <3> QED BY <2>1, <3>1, <3>2, MoveFollows
  <2>2. store' = [store EXCEPT ![w].state = "ASSIGNED", ![w].node = n]
        => store' = [store EXCEPT ![w] = rec]
    BY DEF TypeOK, WorkRecords
  <2> HIDE DEF rec
  <2> QED BY <1>1, <1>3, <2>1, <2>2 DEF Assign
<1>4. CASE RecordDispatch(p, w)
  <2> DEFINE rec == [store[w] EXCEPT !.dispatched = TRUE]
  <2>1. rec.state = store[w].state /\ rec.verdict = store[w].verdict
    BY DEF TypeOK, WorkRecords
  <2>2. UNCHANGED store \/ store' = [store EXCEPT ![w] = rec] BY <1>4 DEF RecordDispatch
  <2> HIDE DEF rec
  <2> QED BY <1>1, <2>1, <2>2, RecordFollows
<1>5. CASE RecordResult(p, w)
  <2> DEFINE rec == [store[w] EXCEPT !.summary = StatusOf(result[w])]
  <2>1. rec.state = store[w].state /\ rec.verdict = store[w].verdict
    BY DEF TypeOK, WorkRecords
  <2>2. UNCHANGED store \/ store' = [store EXCEPT ![w] = rec] BY <1>5 DEF RecordResult
  <2> HIDE DEF rec
  <2> QED BY <1>1, <2>1, <2>2, RecordFollows
<1>6. CASE Judge(p, w)
  BY <1>1, <1>6, JudgeFollows DEF Judge
<1> QED
  BY <1>1, <1>2, <1>3, <1>4, <1>5, <1>6
  DEF Begin, Continue, BeginSchedule, BeginStage, BeginReconcile, BeginFinalize,
      Place, WriteSpool, StoreArtifacts, Observe

LEMMA StepFollows ==
  TypeOK /\ [Next]_vars => [Lifecycle!LifecycleNext]_(Lifecycle!lifecycleVars)
<1> SUFFICES ASSUME TypeOK, [Next]_vars
             PROVE  [Lifecycle!LifecycleNext]_(Lifecycle!lifecycleVars)
  OBVIOUS
<1>1. CASE UNCHANGED store BY <1>1, UnchangedFollows DEF Phase, Matched
<1>2. ASSUME NEW w \in Works, Acknowledge(w)
      PROVE  [Lifecycle!LifecycleNext]_(Lifecycle!lifecycleVars)
  BY <1>2, CanMoveFollows DEF Acknowledge
<1>3. CASE UNCHANGED vars BY <1>1, <1>3 DEF vars
<1> QED
  BY <1>1, <1>2, <1>3, ProcessFollows
  DEF Next, Relay, QueueRequest, RetireRequest, RejectRequest, ApplyEffect, StoreResult,
      Die, Drift

\* However processes race and die, a Work's state follows the table, an
\* effectful Work commits only on a recorded MATCH, and no MATCH is undone.
THEOREM LifecycleKept == Spec => KeepsLifecycle
<1>1. ASSUME Init PROVE Lifecycle!LifecycleInit
  <2>1. \A w \in Works : store[w].state = "CREATED" /\ (store[w].verdict = "MATCH") = FALSE
    BY <1>1 DEF Init, NewWork
  <2> QED BY <2>1 DEF Lifecycle!LifecycleInit
<1>2. AInv => TypeOK BY DEF AInv
<1> QED
  BY <1>1, <1>2, AInvInit, AInvStep, StepFollows, PTL
  DEF Spec, KeepsLifecycle, Lifecycle!LifecycleSpec

-----------------------------------------------------------------------------
(* Evidence *)

\* What a summary says is what the signed result said, and rests on stored
\* output when that was COMPLETED.
Grounded(w) ==
  /\ result[w] # "none"
  /\ result[w] = "COMPLETED" => w \in artifacts
Summarized(w) == Grounded(w) /\ store[w].summary = StatusOf(result[w])

SummariesGrounded == \A w \in Works : store[w].summary # "none" => Summarized(w)
StepsGrounded ==
  \A p \in Procs, v \in Works : job[p].work = v =>
    /\ job[p].step = "summarize" => Grounded(v)
    /\ job[p].step \in {"verify", "conclude"} => Summarized(v)
    /\ job[p].step = "conclude" => result[v] # "COMPLETED"
EInv ==
  /\ AInv
  /\ SummariesGrounded
  /\ StepsGrounded
  /\ StateHasEvidence

\* A summary, once recorded, is not replaced, and artifacts are not removed.
LEMMA GroundStays ==
  ASSUME TypeOK, NEW p \in Procs, NEW w \in Works, Begin(p, w) \/ Continue(p, w),
         NEW v \in Works
  PROVE  /\ Grounded(v) => Grounded(v)'
         /\ store[v].summary # "none" => store'[v].summary = store[v].summary
<1> USE DEF Attempt, Elsewhere, Move, TypeOK, WorkRecords
<1>0. UNCHANGED result BY OthersWait
<1>1. artifacts \subseteq artifacts'
  BY DEF Begin, Continue, BeginSchedule, BeginStage, BeginReconcile, BeginFinalize, Schedule,
         Place, Assign, RecordDispatch, WriteSpool, Run, Succeed, StoreArtifacts,
         RecordResult, Conclude, Verify, Commit, Observe, Judge
<1>2. Grounded(v) => Grounded(v)' BY <1>0, <1>1 DEF Grounded
<1>3. CASE RecordResult(p, w)
  BY <1>2, <1>3 DEF RecordResult, CanRecordSummary
<1>4. CASE UNCHANGED store BY <1>2, <1>4
<1>5. CASE Schedule(p, w) \/ Run(p, w) \/ Succeed(p, w) \/ Conclude(p, w)
           \/ Verify(p, w) \/ Commit(p, w)
  BY <1>2, <1>5 DEF Schedule, Run, Succeed, Conclude, Verify, Commit
<1>6. CASE RecordDispatch(p, w) \/ Judge(p, w) \/ \E n \in Nodes : Assign(p, w, n)
  BY <1>2, <1>6 DEF RecordDispatch, Judge, Assign
<1> QED
  BY <1>3, <1>4, <1>5, <1>6
  DEF Begin, Continue, BeginSchedule, BeginStage, BeginReconcile, BeginFinalize,
      Place, WriteSpool, StoreArtifacts, Observe

LEMMA StepsGroundedStep ==
  ASSUME EInv, NEW p \in Procs, NEW w \in Works, Begin(p, w) \/ Continue(p, w)
  PROVE  StepsGrounded' /\ SummariesGrounded'
<1> USE DEF EInv, AInv, Goto, Leave, Attempt, Elsewhere, At, Idle
<1>0. Others(p) /\ UNCHANGED result /\ TypeOK /\ \A v \in Works \ {w} : store'[v] = store[v]
  BY OthersWait
<1>1. \A v \in Works : /\ Grounded(v) => Grounded(v)'
                       /\ Summarized(v) => Summarized(v)'
  <2> TAKE v \in Works
  <2>1. Grounded(v) => Grounded(v)' BY GroundStays
  <2>2. store[v].summary # "none" => store'[v].summary = store[v].summary BY GroundStays
  <2>3. Grounded(v) => StatusOf(result[v]) # "none"
    BY <1>0, StatusTyped DEF Grounded, TypeOK, Summaries
  <2> QED BY <1>0, <2>1, <2>2, <2>3 DEF Summarized
<1>2. \A q \in Procs \ {p}, v \in Works : job'[q].work = v =>
        /\ job'[q].step = "summarize" => Grounded(v)'
        /\ job'[q].step \in {"verify", "conclude"} => Summarized(v)'
        /\ job'[q].step = "conclude" => result'[v] # "COMPLETED"
  BY <1>0, <1>1 DEF Others, StepsGrounded
<1>3. ASSUME job'[p].step \notin {"summarize", "verify", "conclude"} PROVE StepsGrounded'
  BY <1>2, <1>3 DEF StepsGrounded
<1>4. CASE RecordResult(p, w)
  <2>1. Grounded(w) BY <1>4 DEF RecordResult, StepsGrounded
  <2>2. CASE UNCHANGED store /\ Leave(p)
    <3>1. SummariesGrounded' BY <1>1, <2>2 DEF SummariesGrounded
    <3>2. job'[p] = Idle BY <1>0, <2>2 DEF TypeOK
    <3> QED BY <1>3, <3>1, <3>2
  <2>3. CASE /\ store' = [store EXCEPT ![w].summary = StatusOf(result[w])]
             /\ Goto(p, w, IF result[w] = "COMPLETED" THEN "verify" ELSE "conclude")
    <3>1. store'[w].summary = StatusOf(result[w])
      BY <1>0, <2>3 DEF TypeOK, WorkRecords
    <3>2. Summarized(w)' BY <1>0, <1>1, <2>1, <3>1 DEF Summarized
    <3>3. SummariesGrounded' BY <1>0, <1>1, <3>2 DEF SummariesGrounded
    <3>4. /\ job'[p].work = w
          /\ job'[p].step = IF result[w] = "COMPLETED" THEN "verify" ELSE "conclude"
      BY <1>0, <2>3 DEF TypeOK
    <3> QED BY <1>0, <1>2, <3>2, <3>3, <3>4 DEF StepsGrounded, Summarized
  <2> QED BY <1>4, <2>2, <2>3 DEF RecordResult
<1>5. ASSUME ~RecordResult(p, w) PROVE SummariesGrounded'
  <2>1. store'[w].summary = store[w].summary
    <3> USE DEF Move, TypeOK, WorkRecords
    <3> QED BY <1>0, <1>5
         DEF Begin, Continue, BeginSchedule, BeginStage, BeginReconcile, BeginFinalize,
             Schedule, Place, Assign, RecordDispatch, WriteSpool, Run, Succeed,
             StoreArtifacts, Conclude, Verify, Commit, Observe, Judge
  <2> QED BY <1>0, <1>1, <2>1 DEF SummariesGrounded
<1>6. CASE BeginReconcile(p, w)
  <2>1. CASE result[w] = "COMPLETED"
    <3>1. Resume(w, store[w]) = "verify" => Summarized(w)
      BY <1>0 DEF Resume, SummariesGrounded, TypeOK, WorkRecords
    <3>2. Resume(w, store[w]) \notin {"summarize", "conclude"} BY DEF Resume
    <3> QED BY <1>0, <1>1, <1>2, <1>5, <1>6, <2>1, <3>1, <3>2
            DEF BeginReconcile, StepsGrounded, TypeOK, RecordResult
  <2>2. CASE result[w] # "COMPLETED"
    <3>1. Grounded(w) BY <1>6, <2>2 DEF BeginReconcile, Grounded
    <3> QED BY <1>0, <1>1, <1>2, <1>5, <1>6, <2>2, <3>1
            DEF BeginReconcile, StepsGrounded, TypeOK, RecordResult
  <2> QED BY <2>1, <2>2
<1>7. CASE StoreArtifacts(p, w)
  <2>1. Grounded(w)'
    BY <1>0, <1>7 DEF StoreArtifacts, Reconcilers, Grounded, TypeOK
  <2>2. job'[p] = [work |-> w, step |-> "summarize", verdict |-> "none"]
    BY <1>0, <1>7 DEF StoreArtifacts, TypeOK
  <2>3. ~RecordResult(p, w) BY <1>7 DEF StoreArtifacts, RecordResult
  <2> QED BY <1>2, <1>5, <2>1, <2>2, <2>3 DEF StepsGrounded
<1>8. ASSUME ~RecordResult(p, w), ~BeginReconcile(p, w), ~StoreArtifacts(p, w)
      PROVE  job'[p].step \notin {"summarize", "verify", "conclude"}
  <2> USE <1>0 DEF TypeOK
  <2>1. CASE Begin(p, w)
    BY <1>8, <2>1 DEF Begin, BeginSchedule, BeginStage, BeginFinalize
  <2>2. CASE Continue(p, w)
    BY <1>8, <2>2 DEF Continue, Schedule, Place, Assign, RecordDispatch, WriteSpool, Run,
         Succeed, Conclude, Verify, Commit, Observe, Judge
  <2> QED BY <2>1, <2>2
<1> QED BY <1>3, <1>4, <1>5, <1>6, <1>7, <1>8

Evident(w) ==
  /\ store[w].state \in {"VERIFIED", "COMMITTED"} =>
       result[w] = "COMPLETED" /\ w \in artifacts /\ store[w].summary = "VERIFIED"
  /\ store[w].state \in {"FAILED", "UNKNOWN"} =>
       result[w] # "none" /\ store[w].summary = store[w].state
       /\ StatusOf(result[w]) = store[w].state

LEMMA EvidenceStep ==
  ASSUME EInv, NEW p \in Procs, NEW w \in Works, Begin(p, w) \/ Continue(p, w)
  PROVE  StateHasEvidence'
<1> USE DEF EInv, AInv, Attempt, Elsewhere
<1>0. /\ UNCHANGED result /\ TypeOK /\ \A v \in Works : Evident(v)
      /\ \A v \in Works \ {w} : store'[v] = store[v]
  BY OthersWait DEF StateHasEvidence, Evident
<1>1. \A v \in Works : /\ Grounded(v) => Grounded(v)'
                       /\ store[v].summary # "none" => store'[v].summary = store[v].summary
  BY GroundStays
<1>2. ASSUME NEW v \in Works, store'[v].state = store[v].state PROVE Evident(v)'
  BY <1>0, <1>1, <1>2, StatusTyped DEF Evident, Grounded, TypeOK, Summaries
<1>3. SUFFICES ASSUME store'[w].state # store[w].state PROVE Evident(w)'
  BY <1>0, <1>2 DEF StateHasEvidence, Evident
<1>4. CASE Verify(p, w)
  <2>1. At(p, w, "verify") /\ store'[w].state = "VERIFIED"
    BY <1>0, <1>3, <1>4 DEF Verify, Move, TypeOK, WorkRecords
  <2>2. Summarized(w) /\ result[w] = "COMPLETED"
    BY <2>1 DEF At, StepsGrounded, Reconcilers
  <2>3. store[w].summary = "VERIFIED" BY <2>2 DEF Summarized, StatusOf
  <2> QED BY <1>0, <1>1, <2>1, <2>2, <2>3 DEF Evident, Summarized, Grounded
<1>5. CASE Commit(p, w)
  <2>1. store[w].state = "VERIFIED" /\ store'[w].state = "COMMITTED"
    BY <1>0, <1>3, <1>5
    DEF Commit, CanMove, Transitions, States, Move, TypeOK, WorkRecords
  <2> QED BY <1>0, <1>1, <2>1 DEF Evident, Grounded
<1>6. CASE Conclude(p, w)
  <2>1. At(p, w, "conclude") /\ store'[w].state = StatusOf(result[w])
    BY <1>0, <1>3, <1>6 DEF Conclude, Move, TypeOK, WorkRecords
  <2>2. Summarized(w) /\ result[w] \in Results \ {"COMPLETED"}
    BY <1>0, <2>1 DEF At, StepsGrounded, Summarized, Grounded, TypeOK
  <2>3. StatusOf(result[w]) \in {"FAILED", "UNKNOWN"}
    BY <2>2 DEF StatusOf, Results
  <2>4. store'[w].summary = StatusOf(result[w])
    BY <1>1, <2>2, <2>3 DEF Summarized
  <2> QED BY <1>0, <2>1, <2>2, <2>3, <2>4 DEF Evident, Results
<1>7. CASE Schedule(p, w) \/ Run(p, w) \/ Succeed(p, w)
  <2>1. store'[w].state \in {"SCHEDULED", "RUNNING", "SUCCEEDED"}
    BY <1>0, <1>3, <1>7 DEF Schedule, Run, Succeed, Move, TypeOK, WorkRecords
  <2> QED BY <2>1 DEF Evident
<1>8. ASSUME NEW n \in Nodes, Assign(p, w, n) PROVE Evident(w)'
  <2>1. store'[w].state = "ASSIGNED"
    BY <1>0, <1>3, <1>8 DEF Assign, TypeOK, WorkRecords
  <2> QED BY <2>1 DEF Evident
<1>9. CASE RecordDispatch(p, w) \/ RecordResult(p, w) \/ Judge(p, w)
  BY <1>0, <1>3, <1>9 DEF RecordDispatch, RecordResult, Judge, TypeOK, WorkRecords
<1> QED
  BY <1>3, <1>4, <1>5, <1>6, <1>7, <1>8, <1>9
  DEF Begin, Continue, BeginSchedule, BeginStage, BeginReconcile, BeginFinalize,
      Place, WriteSpool, StoreArtifacts, Observe

LEMMA RelayGrounds ==
  ASSUME EInv,
         \/ \E w \in Works : Relay(w) \/ RejectRequest(w)
         \/ \E p \in Procs : Die(p)
         \/ Drift
  PROVE  EInv'
<1> USE DEF EInv, SummariesGrounded, StepsGrounded, StateHasEvidence, Summarized, Grounded
<1>0. AInv' /\ TypeOK BY RelayAdmits DEF AInv
<1>1. ASSUME NEW w \in Works, QueueRequest(w) \/ RetireRequest(w) \/ RejectRequest(w)
      PROVE  EInv'
  BY <1>0, <1>1 DEF QueueRequest, RetireRequest, RejectRequest
<1>2. ASSUME NEW w \in Works, Acknowledge(w) PROVE EInv'
  BY <1>0, <1>2 DEF Acknowledge, Move, TypeOK, WorkRecords
<1>3. ASSUME NEW w \in Works, ApplyEffect(w) PROVE EInv'
  BY <1>0, <1>3 DEF ApplyEffect
<1>4. ASSUME NEW w \in Works, NEW r \in Results, StoreResult(w, r) PROVE EInv'
  BY <1>0, <1>4 DEF StoreResult, TypeOK
<1>5. ASSUME NEW p \in Procs, Die(p) PROVE EInv'
  BY <1>0, <1>5 DEF Die, Leave, Idle, TypeOK
<1>6. CASE Drift BY <1>0, <1>6 DEF Drift
<1> QED BY <1>1, <1>2, <1>3, <1>4, <1>5, <1>6 DEF Relay

LEMMA EInvStep == EInv /\ [Next]_vars => EInv'
<1> SUFFICES ASSUME EInv, [Next]_vars PROVE EInv'
  OBVIOUS
<1>0. AInv' BY AInvStep DEF EInv
<1>1. ASSUME NEW p \in Procs, NEW w \in Works, Begin(p, w) \/ Continue(p, w)
      PROVE  EInv'
  BY <1>0, <1>1, StepsGroundedStep, EvidenceStep DEF EInv
<1>2. CASE UNCHANGED vars
  BY <1>0, <1>2 DEF vars, EInv, SummariesGrounded, StepsGrounded, StateHasEvidence,
                    Summarized, Grounded
<1> QED BY <1>1, <1>2, RelayGrounds DEF Next

LEMMA EInvInit == Init => EInv
BY AInvInit DEF Init, NewWork, Idle, EInv, AInv, SummariesGrounded, StepsGrounded,
                StateHasEvidence

\* What the durable state claims of a Work rests on a signed result and, for
\* VERIFIED and COMMITTED, on stored output, wherever reconciliations race or
\* are cut off.
THEOREM EvidenceBehindState == Spec => []StateHasEvidence
<1>1. EInv => StateHasEvidence BY DEF EInv
<1> QED BY <1>1, EInvInit, EInvStep, PTL DEF Spec

-----------------------------------------------------------------------------
(* Witness *)

Witnessed(w) == w \in applied \cap witnessed

DeviceApplied == device.last \in Works => device.last \in applied
VerdictsWitnessed == \A w \in Works : store[w].verdict = "MATCH" => Witnessed(w)
JudgesWitnessed ==
  \A p \in Procs, v \in Works :
    At(p, v, "judge") /\ job[p].verdict = "MATCH" => Witnessed(v)
CommitsMatched ==
  \A w \in Effectful : store[w].state = "COMMITTED" => store[w].verdict = "MATCH"

WInv ==
  /\ AInv
  /\ DeviceApplied
  /\ VerdictsWitnessed
  /\ JudgesWitnessed
  /\ CommitsMatched

LEMMA WitnessStep ==
  ASSUME WInv, NEW p \in Procs, NEW w \in Works, Begin(p, w) \/ Continue(p, w)
  PROVE  /\ UNCHANGED <<applied, device>> /\ witnessed \subseteq witnessed'
         /\ JudgesWitnessed'
<1> USE DEF WInv, AInv, Attempt, Elsewhere, Goto, Leave, Idle
<1>0. TypeOK /\ Others(p) BY OthersWait
<1>1. UNCHANGED <<applied, device>> /\ witnessed \subseteq witnessed'
  BY DEF Begin, Continue, BeginSchedule, BeginStage, BeginReconcile, BeginFinalize, Schedule,
         Place, Assign, RecordDispatch, WriteSpool, Run, Succeed, StoreArtifacts,
         RecordResult, Conclude, Verify, Commit, Observe, Judge
<1>2. \A q \in Procs \ {p}, v \in Works :
         job'[q].step = "judge" /\ job'[q].work = v /\ job'[q].verdict = "MATCH" => Witnessed(v)'
  BY <1>0, <1>1 DEF Others, JudgesWitnessed, At, Witnessed
<1>3. CASE Observe(p, w)
  <2>1. CASE job'[p] = Idle BY <1>1, <1>2, <2>1 DEF JudgesWitnessed, At
  <2>2. CASE job' = [job EXCEPT ![p] = [work |-> w, step |-> "judge",
                                        verdict |-> VerdictOn(w)]]
    <3>1. job'[p] = [work |-> w, step |-> "judge", verdict |-> VerdictOn(w)]
      BY <1>0, <2>2 DEF TypeOK
    <3>2. ASSUME VerdictOn(w) = "MATCH" PROVE Witnessed(w)'
      <4>1. device.last = w /\ device.shows BY <3>2 DEF VerdictOn
      <4>2. device = [last |-> w, shows |-> TRUE] BY <1>0, <4>1 DEF TypeOK
      <4>3. job'[p].step = "judge" BY <3>1
      <4>4. w \in witnessed' BY <1>0, <1>3, <4>2, <4>3 DEF Observe, TypeOK
      <4>5. w \in applied BY <4>1 DEF DeviceApplied
      <4> QED BY <1>1, <4>4, <4>5 DEF Witnessed
    <3> QED BY <1>1, <1>2, <3>1, <3>2 DEF JudgesWitnessed, At
  <2> QED BY <1>0, <1>3, <2>1, <2>2 DEF Observe, TypeOK
<1>4. ASSUME ~Observe(p, w) PROVE job'[p].step # "judge"
  <2> USE <1>0 DEF TypeOK
  <2>1. CASE Begin(p, w)
    BY <2>1 DEF Begin, BeginSchedule, BeginStage, BeginReconcile, Resume, BeginFinalize
  <2>2. CASE Continue(p, w)
    BY <1>4, <2>2 DEF Continue, Schedule, Place, Assign, RecordDispatch, WriteSpool, Run,
         Succeed, StoreArtifacts, RecordResult, Conclude, Verify, Commit, Judge
  <2> QED BY <2>1, <2>2
<1>5. ASSUME ~Observe(p, w) PROVE JudgesWitnessed'
  BY <1>2, <1>4, <1>5 DEF JudgesWitnessed, At
<1> QED BY <1>1, <1>3, <1>5

LEMMA VerdictStep ==
  ASSUME WInv, NEW p \in Procs, NEW w \in Works, Begin(p, w) \/ Continue(p, w)
  PROVE  VerdictsWitnessed' /\ CommitsMatched'
<1> USE DEF WInv, AInv, Attempt, Elsewhere
<1>0. /\ TypeOK /\ \A v \in Works \ {w} : store'[v] = store[v]
      /\ \A v \in Works : Witnessed(v) => Witnessed(v)'
  BY OthersWait, WitnessStep DEF Witnessed
<1> USE DEF TypeOK, WorkRecords, VerdictsWitnessed, CommitsMatched
<1>1. CASE UNCHANGED store BY <1>0, <1>1
<1>2. CASE Schedule(p, w) \/ Run(p, w) \/ Succeed(p, w) \/ Verify(p, w) \/ Commit(p, w)
  BY <1>0, <1>1, <1>2, WorkAssumption
  DEF Schedule, Run, Succeed, Verify, Commit, Move, CanMove
<1>3. CASE Conclude(p, w)
  BY <1>0, <1>1, <1>3, WorkAssumption DEF Conclude, Move, CanMove
<1>4. CASE RecordDispatch(p, w) \/ RecordResult(p, w) \/ \E n \in Nodes : Assign(p, w, n)
  <2>1. /\ store'[w].verdict = store[w].verdict
        /\ store'[w].state \in {store[w].state, "ASSIGNED"}
    BY <1>0, <1>4 DEF RecordDispatch, RecordResult, Assign
  <2> QED BY <1>0, <2>1, WorkAssumption
<1>5. CASE Judge(p, w)
  <2>1. At(p, w, "judge") BY <1>5 DEF Judge
  <2>2. job[p].verdict = "MATCH" => Witnessed(w) BY <2>1 DEF JudgesWitnessed
  <2>3. CASE /\ store[w].state = "VERIFIED"
             /\ store' = [store EXCEPT ![w].verdict = job[p].verdict]
    <3>1. store'[w].verdict = job[p].verdict /\ store'[w].state = "VERIFIED"
      BY <1>0, <2>3
    <3> QED BY <1>0, <2>2, <3>1, WorkAssumption
  <2> QED BY <1>1, <1>5, <2>3 DEF Judge, CanRecordVerdict
<1> QED
  BY <1>1, <1>2, <1>3, <1>4, <1>5
  DEF Begin, Continue, BeginSchedule, BeginStage, BeginReconcile, BeginFinalize,
      Place, WriteSpool, StoreArtifacts, Observe

LEMMA WInvStep == WInv /\ [Next]_vars => WInv'
<1> SUFFICES ASSUME WInv, [Next]_vars PROVE WInv'
  OBVIOUS
<1> USE DEF WInv, DeviceApplied, VerdictsWitnessed, JudgesWitnessed, CommitsMatched,
            Witnessed, At
<1>0. AInv' /\ TypeOK BY AInvStep DEF AInv
<1>1. ASSUME NEW p \in Procs, NEW w \in Works, Begin(p, w) \/ Continue(p, w)
      PROVE  WInv'
  BY <1>0, <1>1, WitnessStep, VerdictStep
<1>2. ASSUME NEW w \in Works, QueueRequest(w) \/ RetireRequest(w) \/ RejectRequest(w)
      PROVE  WInv'
  BY <1>0, <1>2 DEF QueueRequest, RetireRequest, RejectRequest
<1>3. ASSUME NEW w \in Works, Acknowledge(w) PROVE WInv'
  BY <1>0, <1>3, WorkAssumption DEF Acknowledge, Move, TypeOK, WorkRecords
<1>4. ASSUME NEW w \in Works, ApplyEffect(w) PROVE WInv'
  BY <1>0, <1>4 DEF ApplyEffect
<1>5. ASSUME NEW w \in Works, NEW r \in Results, StoreResult(w, r) PROVE WInv'
  BY <1>0, <1>5 DEF StoreResult
<1>6. ASSUME NEW p \in Procs, Die(p) PROVE WInv'
  BY <1>0, <1>6 DEF Die, Leave, Idle, TypeOK
<1>7. CASE Drift BY <1>0, <1>7 DEF Drift, TypeOK
<1>8. CASE UNCHANGED vars BY <1>0, <1>8 DEF vars
<1> QED BY <1>1, <1>2, <1>3, <1>4, <1>5, <1>6, <1>7, <1>8 DEF Next, Relay

LEMMA WInvInit == Init => WInv
BY AInvInit, WorkAssumption, ControllerAssumption
DEF Init, NewWork, Idle, WInv, DeviceApplied, VerdictsWitnessed, JudgesWitnessed,
    CommitsMatched, At

\* An effectful Work is committed only after its handler changed the device
\* and an observation showed its own operation, however finalizers race.
THEOREM CommitsAreWitnessed == Spec => []CommitWitnessed
<1>1. WInv => CommitWitnessed
  BY WorkAssumption
  DEF WInv, CommitsMatched, VerdictsWitnessed, Witnessed, CommitWitnessed
<1> QED BY <1>1, WInvInit, WInvStep, PTL DEF Spec

-----------------------------------------------------------------------------
(* The relay and the node that the Controller relies on. *)

\* A process leaves a request, or does nothing to the relay.
LEMMA ProcessRequests ==
  ASSUME NEW p \in Procs, NEW w \in Works, Begin(p, w) \/ Continue(p, w)
  PROVE  Remote!Request(w) \/ UNCHANGED Remote!remoteVars
<1> USE DEF Attempt, Elsewhere, Remote!remoteVars
<1>1. CASE Begin(p, w)
  BY <1>1 DEF Begin, BeginSchedule, BeginStage, BeginReconcile, BeginFinalize
<1>2. CASE Schedule(p, w) \/ Place(p, w) \/ \E n \in Nodes : Assign(p, w, n)
  BY <1>2 DEF Schedule, Place, Assign
<1>3. CASE RecordDispatch(p, w)
  BY <1>3 DEF RecordDispatch
<1>4. CASE WriteSpool(p, w)
  BY <1>4 DEF WriteSpool, Remote!Request
<1>5. CASE Run(p, w) \/ Succeed(p, w) \/ StoreArtifacts(p, w) \/ RecordResult(p, w)
  BY <1>5 DEF Run, Succeed, StoreArtifacts, RecordResult
<1>6. CASE Conclude(p, w) \/ Verify(p, w) \/ Commit(p, w)
  BY <1>6 DEF Conclude, Verify, Commit
<1>7. CASE Observe(p, w) \/ Judge(p, w)
  BY <1>7 DEF Observe, Judge
<1> QED BY <1>1, <1>2, <1>3, <1>4, <1>5, <1>6, <1>7 DEF Continue

\* Each step that the relay and the node take here is one they promise.
LEMMA RelayPromised ==
  ASSUME NEW w \in Works, Relay(w) \/ RejectRequest(w)
  PROVE  Remote!RemoteNext \/ UNCHANGED Remote!remoteVars
<1>1. CASE QueueRequest(w)
  <2>1. Remote!Queue(w) BY <1>1 DEF QueueRequest, Remote!Queue
  <2> QED BY <2>1 DEF Remote!RemoteNext
<1>2. CASE Acknowledge(w)
  BY <1>2 DEF Acknowledge, Remote!remoteVars
<1>3. CASE RetireRequest(w)
  <2>1. Remote!Retire(w) BY <1>3 DEF RetireRequest, Remote!Retire
  <2> QED BY <2>1 DEF Remote!RemoteNext
<1>4. CASE ApplyEffect(w)
  <2>1. Remote!Apply(w) BY <1>4 DEF ApplyEffect, Remote!Apply
  <2> QED BY <2>1 DEF Remote!RemoteNext
<1>5. ASSUME NEW r \in Results, StoreResult(w, r)
      PROVE  Remote!RemoteNext
  <2>1. Remote!Keep(w, r) BY <1>5 DEF StoreResult, Results, Remote!Keep
  <2>2. r \in Remote!RemoteResults BY DEF Results, Remote!RemoteResults
  <2> QED BY <2>1, <2>2 DEF Remote!RemoteNext
<1>6. CASE RejectRequest(w)
  <2>1. Remote!Reject({w}) /\ {w} \subseteq spool
    BY <1>6 DEF RejectRequest, Remote!Reject
  <2> QED BY <2>1 DEF Remote!RemoteNext
<1> QED BY <1>1, <1>2, <1>3, <1>4, <1>5, <1>6 DEF Relay

\* What RemoteExecution lets the relay and the node do to a request, but for
\* answers to a stop, they may do here: the Controller is checked against no
\* less, except that keeping a result and retiring its request are two steps.
LEMMA PromisedIsTaken ==
  ASSUME NEW w \in Works, UNCHANGED <<store, artifacts, witnessed, job>>
  PROVE  /\ Remote!Queue(w) /\ UNCHANGED <<device, faults>> => QueueRequest(w)
         /\ Remote!Retire(w) /\ UNCHANGED <<device, faults>> => RetireRequest(w)
         /\ Remote!Apply(w) /\ UNCHANGED faults
            /\ device' \in [last : {w}, shows : BOOLEAN] => ApplyEffect(w)
         /\ \A r \in Results :
              Remote!Keep(w, r) /\ UNCHANGED <<spool, device, faults>> => StoreResult(w, r)
         /\ Remote!Reject({w}) /\ w \in spool /\ UNCHANGED device
            /\ faults < MaxFaults /\ faults' = faults + 1 => RejectRequest(w)
<1>1. Remote!Queue(w) /\ UNCHANGED <<device, faults>> => QueueRequest(w)
  BY DEF Remote!Queue, QueueRequest
<1>2. Remote!Retire(w) /\ UNCHANGED <<device, faults>> => RetireRequest(w)
  BY DEF Remote!Retire, RetireRequest
<1>3. ASSUME Remote!Apply(w), UNCHANGED faults, device' \in [last : {w}, shows : BOOLEAN]
      PROVE  ApplyEffect(w)
  <2>1. \E shows \in BOOLEAN : device' = [last |-> w, shows |-> shows]
    BY <1>3
  <2> QED BY <1>3, <2>1 DEF Remote!Apply, ApplyEffect
<1>4. ASSUME NEW r \in Results, Remote!Keep(w, r), UNCHANGED <<spool, device, faults>>
      PROVE  StoreResult(w, r)
  BY <1>4 DEF Remote!Keep, StoreResult
<1>5. Remote!Reject({w}) /\ w \in spool /\ UNCHANGED device
      /\ faults < MaxFaults /\ faults' = faults + 1 => RejectRequest(w)
  BY DEF Remote!Reject, RejectRequest
<1> QED BY <1>1, <1>2, <1>3, <1>4, <1>5

\* The relay and the node are taken as RemoteExecution promises them, and the
\* processes only leave requests, for every set of Works and processes.
THEOREM RemoteReliedOn == Spec => ReliesOnRemote
<1>1. Init => Remote!RemoteInit
  BY DEF Init, Remote!RemoteInit
<1>2. [Next]_vars => [Remote!RemoteNext]_(Remote!remoteVars)
  <2> SUFFICES ASSUME [Next]_vars PROVE [Remote!RemoteNext]_(Remote!remoteVars)
    OBVIOUS
  <2>1. ASSUME NEW p \in Procs, NEW w \in Works, Begin(p, w) \/ Continue(p, w)
        PROVE  [Remote!RemoteNext]_(Remote!remoteVars)
    BY <2>1, ProcessRequests DEF Remote!RemoteNext
  <2>2. ASSUME NEW w \in Works, Relay(w) \/ RejectRequest(w)
        PROVE  [Remote!RemoteNext]_(Remote!remoteVars)
    BY <2>2, RelayPromised
  <2>3. CASE UNCHANGED vars \/ Drift \/ \E p \in Procs : Die(p)
    BY <2>3 DEF vars, Drift, Die, Remote!remoteVars
  <2> QED BY <2>1, <2>2, <2>3 DEF Next
<1> QED BY <1>1, <1>2, PTL DEF Spec, ReliesOnRemote, Remote!RemoteSpec
=============================================================================
