--------------------------- MODULE ControllerWork ---------------------------
(***************************************************************************)
(* The Controller's handling of a Work: schedule_work, stage_work_dispatch *)
(* and reconcile_work (node_runtime/relay.py), the finalization of an      *)
(* effectful Work (reality/execution.py), and the part of the running      *)
(* relay that consumes the provider spool and stores signed results.       *)
(*                                                                         *)
(* Workflow adapters, the operations API and the CLI each run these calls  *)
(* in a process of their own against the same files.  A call of the Work   *)
(* store holds the file lock, rereads the file and replaces it atomically, *)
(* hence is one step; nothing is held between two calls, and a process may *)
(* die between any two of them.  A refused call raises, which ends the     *)
(* operation where it is; whoever retries starts from the durable record.  *)
(***************************************************************************)
EXTENDS DistributedWork, Naturals, FiniteSets

CONSTANTS
  Procs,     \* processes of the Controller host besides the relay
  MaxFaults  \* model bound on process deaths and rejected requests


Results == {"COMPLETED", "FAILED", "RECOVERY_REQUIRED"}

\* The call of the Work store, file or device a process will make next.
Steps == {"schedule", "place", "assign", "dispatch", "spool", "respool",
          "run", "succeed", "artifacts", "summarize", "verify", "conclude",
          "commit", "observe", "judge"}
NoWork == "no work"

ASSUME ControllerAssumption == MaxFaults \in Nat /\ NoWork \notin Works

Idle   == [work |-> NoWork, step |-> "idle", verdict |-> "none"]
Jobs   == [work : Works, step : Steps, verdict : Verdicts \cup {"none"}]

VARIABLES
  store,     \* distributed-works.json
  spool,     \* Works with a request file in the provider spool
  started,   \* Works whose request the relay has queued for the node
  result,    \* the signed terminal result the relay keeps of each Work
  artifacts, \* Works whose output and evidence are in the artifact store
  applied,   \* Works whose handler has changed the device
  device,    \* last operation applied to the device, and whether it shows
  witnessed, \* Works whose effect an observation has shown
  job,       \* what each process is doing
  faults     \* deaths and rejections so far

vars == <<store, spool, started, result, artifacts, applied, device, witnessed, job, faults>>

TypeOK ==
  /\ store \in [Works -> WorkRecords]
  /\ spool \subseteq Works /\ started \subseteq Works
  /\ result \in [Works -> Results \cup {"none"}]
  /\ artifacts \subseteq Works
  /\ applied \subseteq Effectful
  /\ device \in [last : Works \cup {NoWork}, shows : BOOLEAN]
  /\ witnessed \subseteq Works
  /\ job \in [Procs -> Jobs \cup {Idle}]
  /\ faults \in 0..MaxFaults

Init ==
  /\ store = [w \in Works |-> NewWork]
  /\ spool = {} /\ started = {} /\ artifacts = {}
  /\ applied = {} /\ witnessed = {}
  /\ result = [w \in Works |-> "none"]
  /\ device = [last |-> NoWork, shows |-> FALSE]
  /\ job = [p \in Procs |-> Idle]
  /\ faults = 0

-----------------------------------------------------------------------------
(* One call of an operation, and what the process does next. *)

At(p, w, step) == job[p].step = step /\ job[p].work = w

Goto(p, w, step) ==
  job' = [job EXCEPT ![p] = [work |-> w, step |-> step, verdict |-> "none"]]

Leave(p) == job' = [job EXCEPT ![p] = Idle]

\* DistributedWorkStore.transition.
Move(w, target) == store' = [store EXCEPT ![w].state = target]

\* A store call that raises when the record refuses it.
Attempt(p, w, step, accepted, call, then) ==
  /\ At(p, w, step)
  /\ \/ accepted /\ call /\ then
     \/ ~accepted /\ UNCHANGED store /\ Leave(p)

Elsewhere == UNCHANGED <<spool, started, result, artifacts, applied, device, witnessed, faults>>

-----------------------------------------------------------------------------
(* schedule_work: admit, place, assign. *)

BeginSchedule(p, w) ==
  /\ job[p] = Idle
  /\ \/ store[w].state = "CREATED" /\ Goto(p, w, "schedule")
     \/ store[w].state = "SCHEDULED" /\ Goto(p, w, "place")
  /\ UNCHANGED store /\ Elsewhere

Schedule(p, w) ==
  /\ Attempt(p, w, "schedule", CanMove(w, store[w], "SCHEDULED"),
             Move(w, "SCHEDULED"), Goto(p, w, "place"))
  /\ Elsewhere

\* record_placement changes no field kept here; the decision names a node or
\* finds none eligible, and then the Work stays SCHEDULED.
Place(p, w) ==
  /\ At(p, w, "place")
  /\ \/ store[w].state = "SCHEDULED" /\ Goto(p, w, "assign")
     \/ Leave(p)
  /\ UNCHANGED store /\ Elsewhere

Assign(p, w, n) ==
  /\ Attempt(p, w, "assign", CanAssign(store[w], n),
             store' = [store EXCEPT ![w].state = "ASSIGNED", ![w].node = n],
             Leave(p))
  /\ Elsewhere

-----------------------------------------------------------------------------
(* stage_work_dispatch: the dispatch record, then the spool file. *)

\* Mutant: the request file is written without a dispatch on record.
BeginStageUnrecorded(p, w) ==
  /\ job[p] = Idle /\ store[w].state = "ASSIGNED"
  /\ Goto(p, w, "spool")
  /\ UNCHANGED store /\ Elsewhere

\* Mutant: a dispatch on record is taken to have reached the spool.
BeginStageOnce(p, w) ==
  /\ job[p] = Idle /\ store[w].state = "ASSIGNED"
  /\ ~store[w].dispatched /\ Goto(p, w, "dispatch")
  /\ UNCHANGED store /\ Elsewhere

\* Only an ASSIGNED Work is staged; one whose dispatch is recorded and which
\* has advanced is answered from the record, which changes nothing.
BeginStage(p, w) ==
  /\ job[p] = Idle
  /\ store[w].state = "ASSIGNED"
  /\ \/ ~store[w].dispatched /\ Goto(p, w, "dispatch")
     \/ store[w].dispatched /\ Goto(p, w, "respool")
  /\ UNCHANGED store /\ Elsewhere

RecordDispatch(p, w) ==
  /\ Attempt(p, w, "dispatch", CanRecordDispatch(store[w]),
             store' = [store EXCEPT ![w].dispatched = TRUE], Goto(p, w, "spool"))
  /\ Elsewhere

\* The file is written unless it is there, whether the dispatch was recorded
\* just now or found recorded while the Work was seen ASSIGNED.
WriteSpool(p, w) ==
  /\ At(p, w, "spool") \/ At(p, w, "respool")
  /\ spool' = spool \cup {w}
  /\ Leave(p)
  /\ UNCHANGED <<store, started, result, artifacts, applied, device, witnessed, faults>>

-----------------------------------------------------------------------------
(* reconcile_work: from a signed terminal result to the durable state. *)

\* Mutants: SUCCEEDED goes on to VERIFIED whatever is on record, or always
\* begins with the artifacts.
ResumeAt(w, rec, succeeded) ==
  CASE rec.state = "ASSIGNED"  -> "run"
    [] rec.state = "RUNNING"   -> "succeed"
    [] rec.state = "SUCCEEDED" -> succeeded
    [] rec.state = "VERIFIED" /\ w \notin Effectful -> "commit"
    [] OTHER -> "idle"
ResumeUnstored(w, rec) == ResumeAt(w, rec, "verify")
ResumeAfresh(w, rec)   == ResumeAt(w, rec, "artifacts")

\* Where a completed result is resumed from the state found, if anywhere.
\* VERIFIED effectful Work is left to its observation.
Resume(w, rec) ==
  CASE rec.state = "ASSIGNED" -> "run"
    [] rec.state = "RUNNING"  -> "succeed"
    [] rec.state = "SUCCEEDED" /\ rec.summary = "none" -> "artifacts"
    [] rec.state = "SUCCEEDED" /\ rec.summary = "VERIFIED" -> "verify"
    [] rec.state = "VERIFIED" /\ w \notin Effectful /\ rec.summary = "VERIFIED" -> "commit"
    [] OTHER -> "idle"

\* The status under which any other result is recorded.
StatusOf(r) == CASE r = "RECOVERY_REQUIRED" -> "UNKNOWN"
                 [] r = "FAILED"            -> "FAILED"
                 [] r = "COMPLETED"         -> "VERIFIED"

BeginReconcile(p, w) ==
  /\ job[p] = Idle
  /\ result[w] # "none"
  /\ IF result[w] = "COMPLETED"
     THEN Resume(w, store[w]) # "idle" /\ Goto(p, w, Resume(w, store[w]))
     ELSE store[w].state \notin {"COMMITTED", StatusOf(result[w])} /\ Goto(p, w, "summarize")
  /\ UNCHANGED store /\ Elsewhere

Run(p, w) ==
  /\ Attempt(p, w, "run", CanMove(w, store[w], "RUNNING"),
             Move(w, "RUNNING"), Goto(p, w, "succeed"))
  /\ Elsewhere

Succeed(p, w) ==
  /\ Attempt(p, w, "succeed", CanMove(w, store[w], "SUCCEEDED"),
             Move(w, "SUCCEEDED"), Goto(p, w, "artifacts"))
  /\ Elsewhere

\* Output and evidence are stored and verified before the summary names them.
StoreArtifacts(p, w) ==
  /\ At(p, w, "artifacts")
  /\ artifacts' = artifacts \cup {w}
  /\ Goto(p, w, "summarize")
  /\ UNCHANGED <<store, spool, started, result, applied, device, witnessed, faults>>

RecordResult(p, w) ==
  /\ Attempt(p, w, "summarize", CanRecordSummary(store[w]),
             store' = [store EXCEPT ![w].summary = StatusOf(result[w])],
             Goto(p, w, IF result[w] = "COMPLETED" THEN "verify" ELSE "conclude"))
  /\ Elsewhere

\* A failed or uncertain result ends here.
Conclude(p, w) ==
  /\ Attempt(p, w, "conclude", CanMove(w, store[w], StatusOf(result[w])),
             Move(w, StatusOf(result[w])), Leave(p))
  /\ Elsewhere

Verify(p, w) ==
  /\ Attempt(p, w, "verify", CanMove(w, store[w], "VERIFIED"),
             Move(w, "VERIFIED"),
             IF w \in Effectful THEN Leave(p) ELSE Goto(p, w, "commit"))
  /\ Elsewhere

Commit(p, w) ==
  /\ Attempt(p, w, "commit", CanMove(w, store[w], "COMMITTED"),
             Move(w, "COMMITTED"), Leave(p))
  /\ Elsewhere

-----------------------------------------------------------------------------
(* RealityExecution._finalize: observe, judge, commit. *)

\* Mutant: every finalization observes anew.
BeginFinalizeAfresh(p, w) ==
  /\ job[p] = Idle /\ w \in Effectful
  /\ store[w].state = "VERIFIED" /\ Goto(p, w, "observe")
  /\ UNCHANGED store /\ Elsewhere

\* A MATCH found on record is committed; otherwise the device is read afresh.
BeginFinalize(p, w) ==
  /\ job[p] = Idle /\ w \in Effectful
  /\ store[w].state = "VERIFIED"
  /\ IF store[w].verdict = "MATCH" THEN Goto(p, w, "commit")
                                   ELSE Goto(p, w, "observe")
  /\ UNCHANGED store /\ Elsewhere

\* Mutant: the state the device shows is not compared.
VerdictOnOperation(w) == IF device.last # w THEN "UNKNOWN" ELSE "MATCH"

\* EffectVerifier.verify of one fresh observation: the device must name this
\* operation as its last.
VerdictOn(w) ==
  IF device.last # w THEN "UNKNOWN"
  ELSE IF device.shows THEN "MATCH" ELSE "MISMATCH"

\* The read-only Work that observes may also fail, and ends the operation.
Observe(p, w) ==
  /\ At(p, w, "observe")
  /\ \/ /\ job' = [job EXCEPT ![p] = [work |-> w, step |-> "judge",
                                      verdict |-> VerdictOn(w)]]
        /\ witnessed' = IF device = [last |-> w, shows |-> TRUE]
                        THEN witnessed \cup {w} ELSE witnessed
     \/ Leave(p) /\ UNCHANGED witnessed
  /\ UNCHANGED <<store, spool, started, result, artifacts, applied, device, faults>>

\* record_effect_verification, then the commit of a MATCH.
Judge(p, w) ==
  /\ Attempt(p, w, "judge", CanRecordVerdict(store[w], job[p].verdict),
             store' = [store EXCEPT ![w].verdict = job[p].verdict],
             IF job[p].verdict = "MATCH" THEN Goto(p, w, "commit") ELSE Leave(p))
  /\ Elsewhere

-----------------------------------------------------------------------------
(* The running relay, the node behind it, and the world. *)

\* A request in the spool is queued for its node, unless a result is known.
QueueRequest(w) ==
  /\ w \in spool /\ w \notin started /\ result[w] = "none"
  /\ started' = started \cup {w}
  /\ UNCHANGED <<store, spool, result, artifacts, applied, device, witnessed, job, faults>>

\* A request may be rejected, while the node is not trusted or when its
\* connection changes before the send; a rejection removes the file and leaves
\* the Work, and an assignment already queued, as they are.
RejectRequest(w) ==
  /\ w \in spool /\ result[w] = "none" /\ faults < MaxFaults
  /\ spool' = spool \ {w}
  /\ faults' = faults + 1
  /\ UNCHANGED <<store, started, result, artifacts, applied, device, witnessed, job>>

\* _mark_work_running: the node acknowledged the request.  From any state but
\* ASSIGNED the acknowledgement changes nothing or is refused.
Acknowledge(w) ==
  /\ w \in started /\ result[w] = "none"
  /\ store[w].state = "ASSIGNED" /\ CanMove(w, store[w], "RUNNING")
  /\ Move(w, "RUNNING")
  /\ UNCHANGED <<spool, started, result, artifacts, applied, device, witnessed, job, faults>>

\* The node's handler changes the device, once (see NodeJournal).
ApplyEffect(w) ==
  /\ w \in Effectful \cap started /\ w \notin applied /\ result[w] = "none"
  /\ applied' = applied \cup {w}
  /\ \E shows \in BOOLEAN : device' = [last |-> w, shows |-> shows]
  /\ UNCHANGED <<store, spool, started, result, artifacts, witnessed, job, faults>>

\* The node's terminal result arrives and is kept for good.  A completed
\* effectful Work was applied; one that failed or is in doubt may have been.
StoreResult(w, r) ==
  /\ w \in started /\ result[w] = "none"
  /\ r = "COMPLETED" /\ w \in Effectful => w \in applied
  /\ result' = [result EXCEPT ![w] = r]
  /\ UNCHANGED <<store, spool, started, artifacts, applied, device, witnessed, job, faults>>

\* _publish_provider_result: the request file of an answered Work is retired.
RetireRequest(w) ==
  /\ w \in spool /\ result[w] # "none"
  /\ spool' = spool \ {w}
  /\ UNCHANGED <<store, started, result, artifacts, applied, device, witnessed, job, faults>>

\* The device changes by itself: the effect appears late, or wears off.
Drift ==
  /\ device.last # NoWork /\ faults < MaxFaults
  /\ device' = [device EXCEPT !.shows = ~@]
  /\ faults' = faults + 1
  /\ UNCHANGED <<store, spool, started, result, artifacts, applied, witnessed, job>>

\* A process dies between two calls.
Die(p) ==
  /\ job[p] # Idle /\ faults < MaxFaults
  /\ Leave(p)
  /\ faults' = faults + 1
  /\ UNCHANGED <<store, spool, started, result, artifacts, applied, device, witnessed>>

-----------------------------------------------------------------------------
Begin(p, w) ==
  \/ BeginSchedule(p, w) \/ BeginStage(p, w)
  \/ BeginReconcile(p, w) \/ BeginFinalize(p, w)

Continue(p, w) ==
  \/ Schedule(p, w) \/ Place(p, w) \/ \E n \in Nodes : Assign(p, w, n)
  \/ RecordDispatch(p, w) \/ WriteSpool(p, w)
  \/ Run(p, w) \/ Succeed(p, w) \/ StoreArtifacts(p, w) \/ RecordResult(p, w)
  \/ Conclude(p, w) \/ Verify(p, w) \/ Commit(p, w)
  \/ Observe(p, w) \/ Judge(p, w)

Relay(w) ==
  \/ QueueRequest(w) \/ Acknowledge(w) \/ RetireRequest(w) \/ ApplyEffect(w)
  \/ \E r \in Results : StoreResult(w, r)

Next ==
  \/ \E p \in Procs, w \in Works : Begin(p, w) \/ Continue(p, w)
  \/ \E w \in Works : Relay(w) \/ RejectRequest(w)
  \/ \E p \in Procs : Die(p)
  \/ Drift

Spec == Init /\ [][Next]_vars

\* A live process makes its next call; the relay sweeps its spool; and every
\* Work that needs it is taken up again by some process: a Workflow is
\* resumed, its adapter polls, an operator reconciles.  Acknowledgements,
\* effects and results are not promised.
Fairness ==
  /\ \A p \in Procs : WF_vars(\E w \in Works : Continue(p, w))
  /\ \A w \in Works :
       /\ WF_vars(QueueRequest(w)) /\ WF_vars(RetireRequest(w))
       /\ SF_vars(\E p \in Procs : BeginStage(p, w))
       /\ SF_vars(\E p \in Procs : BeginReconcile(p, w))
       /\ SF_vars(\E p \in Procs : BeginFinalize(p, w))

FairSpec == Spec /\ Fairness

-----------------------------------------------------------------------------
(* Properties. *)

\* The Controller keeps the promise of WorkLifecycle, whichever processes
\* race or die: the table, MATCH before an effectful commit, MATCH for good.
Lifecycle == INSTANCE WorkLifecycle WITH
  phase   <- [w \in Works |-> store[w].state],
  matched <- [w \in Works |-> store[w].verdict = "MATCH"]
KeepsLifecycle == Lifecycle!LifecycleSpec

\* An effectful Work is committed only if its handler changed the device and
\* an observation made afterwards showed its effect, however finalizers
\* raced (reality/execution.py _finalize).
CommitWitnessed ==
  \A w \in Effectful : store[w].state = "COMMITTED" => w \in applied \cap witnessed

\* What the durable state claims rests on a signed result: VERIFIED and
\* COMMITTED on a completed one whose output and evidence are stored, FAILED
\* and UNKNOWN on one that says so (relay.py reconcile_work).
StateHasEvidence ==
  \A w \in Works :
    /\ store[w].state \in {"VERIFIED", "COMMITTED"} =>
         result[w] = "COMPLETED" /\ w \in artifacts /\ store[w].summary = "VERIFIED"
    /\ store[w].state \in {"FAILED", "UNKNOWN"} =>
         result[w] # "none" /\ store[w].summary = store[w].state
         /\ StatusOf(result[w]) = store[w].state

\* "A signed ACK cannot outrun admission": what reached the spool, the relay
\* or a state past ASSIGNED has its node and its dispatch on record
\* (relay.py stage_work_dispatch).
AdmittedFirst ==
  \A w \in Works :
    w \in spool \cup started \/ store[w].state \notin {"CREATED", "SCHEDULED", "ASSIGNED"}
      => store[w].dispatched /\ store[w].node # NoNode

\* A dispatch on record reaches the relay, though the process that recorded
\* it dies before it writes the spool file (EXECUTION_RECOVERY.md).
DispatchReachesRelay ==
  \A w \in Works : store[w].dispatched ~> w \in started

\* A completed result settles the Work wherever reconciliation was cut off.
CompletedSettles ==
  \A w \in Works : result[w] = "COMPLETED" ~>
     store[w].state = "COMMITTED" \/ (w \in Effectful /\ store[w].state = "VERIFIED")

\* A MATCH on record is committed, though its finalizer died before that.
MatchCommits ==
  \A w \in Works : store[w].verdict = "MATCH" ~> store[w].state = "COMMITTED"

\* "Controller reconciliation records the Work as UNKNOWN"
\* (EXECUTION_RECOVERY.md) once the node answered RECOVERY_REQUIRED.
InDoubtSurfaces ==
  \A w \in Works : result[w] = "RECOVERY_REQUIRED" ~> store[w].state = "UNKNOWN"

\* The relay and the node as this module takes them are what RemoteExecution
\* promises, and no process of the Controller does more to them than leave a
\* request (relay.py stage_work_dispatch, _publish_provider_result).
Remote == INSTANCE RemoteExecution
ReliesOnRemote == Remote!RemoteSpec
=============================================================================
