---------------------------- MODULE WorkflowRun ----------------------------
(***************************************************************************)
(* One run of a Workflow: WorkflowRuntime (nous_runtime/workflow/          *)
(* runtime.py) over the SQLite WorkflowStore (store.py), and the           *)
(* cancellation and reconciliation of automation.py.                       *)
(*                                                                         *)
(* An execution holds the run's file lock from start or resume until it    *)
(* returns or its process dies; cancellation takes no lock.  The steps of  *)
(* a wave run in threads: each commits a "started" checkpoint, calls its   *)
(* handler and commits what came of it, in transactions of their own.      *)
(* Bindings and digests always agree here; what the runtime does with      *)
(* evidence that was tampered with is not modelled.                        *)
(***************************************************************************)
EXTENDS Naturals

CONSTANTS
  Steps,         \* steps of the definition
  Position,      \* the place of a step in the definition's list
  After,         \* the steps a step depends on
  Wave,          \* the level of a step in the compiled graph
  LastWave,
  Pure,          \* steps whose handler declares no effect
  Reconcilable,  \* steps whose handler consults its own journal first
  Retries,       \* trusted retry budget of a step
  Gated,         \* steps that need a human approval
  Unmet,         \* condition steps whose condition the inputs do not meet
  Described,     \* steps whose output the Workflow's output schema describes
  Compensable,   \* steps with a compensation
  PureUndo,      \* steps whose compensation declares no effect
  Optional,      \* steps that some hosts have no handlers for
  MaxExecutions  \* model bound on starts and resumptions

ASSUME DefinitionAssumption ==
  /\ Position \in [Steps -> Nat]
  /\ \A s, t \in Steps : Position[s] = Position[t] => s = t
  /\ LastWave \in Nat
  /\ After \in [Steps -> SUBSET Steps]
  /\ Wave \in [Steps -> 0..LastWave]
  /\ \A s \in Steps : \A d \in After[s] : Wave[d] < Wave[s]
  /\ Pure \subseteq Steps /\ Reconcilable \subseteq Steps
  /\ Retries \in [Steps -> Nat]
  /\ Gated \subseteq Steps /\ Unmet \subseteq Steps /\ Described \subseteq Steps
  /\ Compensable \subseteq Steps /\ PureUndo \subseteq Compensable
  /\ Optional \subseteq Steps
  /\ MaxExecutions \in Nat

States    == {"pending", "running", "waiting_approval", "completed", "failed",
              "unknown", "cancelled", "compensation_failed"}
Resumable == {"waiting_approval", "running", "failed", "unknown"}
Closed    == {"completed", "failed", "compensation_failed", "cancelled"}

Done      == {"completed", "skipped"}
Uncertain == {"started", "unknown"}
Statuses  == Done \cup Uncertain \cup {"failed", "waiting_approval"}
Results   == (Statuses \ {"started"}) \cup {"cancelled"}

VARIABLES
  run,         \* the stored run: state, cancellation, approved steps
  checkpoint,  \* the stored checkpoint of each step
  undo,        \* the stored checkpoint of each step's compensation
  exec,        \* the execution that holds the lock, or Free
  thread,      \* where the thread of each step is, or the result it returned
  cancelling,  \* a canceller has read the run and not yet written
  executions,  \* executions begun
  entered,     \* handler entries of each step that governance did not withhold
  undone       \* compensation handler entries of each step

vars == <<run, checkpoint, undo, exec, thread, cancelling, executions,
          entered, undone>>

Free == [phase |-> "free", wave |-> 0, todo |-> {}, failed |-> FALSE,
         given |-> {}]

Checkpoints ==
  [status : Statuses \cup {"none"}, attempts : Nat, invalid : BOOLEAN, fits : BOOLEAN]

Entry(status, attempts) ==
  [status |-> status, attempts |-> attempts, invalid |-> FALSE, fits |-> TRUE]

TypeOK ==
  /\ run \in [state : States, cancelled : BOOLEAN, approved : SUBSET Gated]
  /\ checkpoint \in [Steps -> Checkpoints]
  /\ undo \in [Steps -> {"none", "started", "completed", "failed", "unknown"}]
  /\ exec \in [phase : {"free", "opening", "next", "wave", "undo", "undoing"},
               wave : 0..LastWave + 1, todo : SUBSET Steps, failed : BOOLEAN,
               given : SUBSET Gated]
  /\ exec.phase = "wave" => exec.wave <= LastWave
  /\ exec.phase = "undoing" => exec.todo # {}
  /\ thread \in [Steps -> {"off", "ready", "admitted", "again"} \cup Results]
  /\ cancelling \in BOOLEAN
  /\ executions \in 0..MaxExecutions
  /\ entered \in [Steps -> Nat] /\ undone \in [Steps -> Nat]

\* create_run has stored the run; a second start with the same idempotency
\* key is given this one.
Init ==
  /\ run = [state |-> "pending", cancelled |-> FALSE, approved |-> {}]
  /\ checkpoint = [s \in Steps |-> Entry("none", 0)]
  /\ undo = [s \in Steps |-> "none"]
  /\ exec = Free
  /\ thread = [s \in Steps |-> "off"]
  /\ cancelling = FALSE
  /\ executions = 0
  /\ entered = [s \in Steps |-> 0]
  /\ undone = [s \in Steps |-> 0]

-----------------------------------------------------------------------------
(* The store. *)

InDoubt(steps, undos) ==
  \E s \in Steps : steps[s].status \in Uncertain \/ undos[s] \in Uncertain

\* Mutant: a cancelled run is CANCELLED, whatever its checkpoints say.
PreservedBlindly(r, steps) ==
  IF r.cancelled THEN [r EXCEPT !.state = "cancelled"] ELSE r

\* _preserve_cancellation: whatever a writer concluded, the state of a
\* cancelled run follows from the checkpoints alone.
Preserved(r, steps) ==
  IF r.cancelled
  THEN [r EXCEPT !.state = IF InDoubt(steps, undo) THEN "unknown" ELSE "cancelled"]
  ELSE r

\* _finish: update_run with the state the execution concluded, and return.
Conclude(state) ==
  /\ run' = Preserved([run EXCEPT !.state = state], checkpoint)
  /\ exec' = Free
  /\ thread' = [s \in Steps |-> "off"]

\* The execution returns without writing.
Return ==
  /\ exec' = Free
  /\ thread' = [s \in Steps |-> "off"]
  /\ UNCHANGED run

\* _record_step: finish_step, and the thread goes on at next.
Record(s, c, next) ==
  /\ checkpoint' = [checkpoint EXCEPT ![s] = c]
  /\ run' = Preserved(run, checkpoint')
  /\ thread' = [thread EXCEPT ![s] = next]

\* The same with a new status, the attempts as they were.
RecordStatus(s, status) ==
  Record(s, Entry(status, checkpoint[s].attempts), status)

Answer(s, result) ==
  /\ thread' = [thread EXCEPT ![s] = result]
  /\ UNCHANGED <<run, checkpoint>>

-----------------------------------------------------------------------------
(* start, resume and the waves of _execute. *)

\* The lock is taken and the run is bound.  start goes on with a pending run,
\* resume with one that is not over, and neither with a cancelled one.
Open(given) ==
  /\ exec.phase = "free" /\ executions < MaxExecutions
  /\ ~run.cancelled
  /\ \/ run.state = "pending" /\ given = {}
     \/ run.state \in Resumable
  /\ exec' = [Free EXCEPT !.phase = "opening", !.given = given]
  /\ executions' = executions + 1
  /\ UNCHANGED <<run, checkpoint, undo, thread, cancelling, entered, undone>>

\* save_run and update_run: the run is RUNNING, with what was approved, unless
\* it was cancelled since it was bound.
Publish ==
  /\ exec.phase = "opening"
  /\ \/ run.cancelled /\ Return
     \/ /\ ~run.cancelled
        /\ run' = [run EXCEPT !.state = "running", !.approved = @ \cup exec.given]
        /\ exec' = [exec EXCEPT !.phase = "next"]
        /\ UNCHANGED thread
  /\ UNCHANGED <<checkpoint, undo, cancelling, executions, entered, undone>>

Pending(w) == {s \in Steps : Wave[s] = w /\ checkpoint[s].status \notin Done}

\* The next wave begins with the steps of it that are not done.
EnterWave ==
  /\ exec.phase = "next" /\ exec.wave <= LastWave
  /\ \/ run.cancelled /\ Return
     \/ /\ ~run.cancelled /\ Pending(exec.wave) = {}
        /\ exec' = [exec EXCEPT !.wave = @ + 1]
        /\ UNCHANGED <<run, thread>>
     \/ /\ ~run.cancelled /\ Pending(exec.wave) # {}
        /\ exec' = [exec EXCEPT !.phase = "wave"]
        /\ thread' = [s \in Steps |-> IF s \in Pending(exec.wave) THEN "ready" ELSE "off"]
        /\ UNCHANGED run
  /\ UNCHANGED <<checkpoint, undo, cancelling, executions, entered, undone>>

\* Mutant: the last state is written as the execution concluded it.
CompleteUnpreserved ==
  /\ exec.phase = "next" /\ exec.wave > LastWave
  /\ run' = [run EXCEPT !.state = "completed"]
  /\ exec' = Free
  /\ UNCHANGED <<thread, checkpoint, undo, cancelling, executions, entered, undone>>

\* After the last wave the outputs are held against the Workflow's schema.  A
\* run that was cancelled meanwhile is not asked: the store sees to it.
Complete ==
  /\ exec.phase = "next" /\ exec.wave > LastWave
  /\ Conclude(IF \A s \in Described : checkpoint[s].fits THEN "completed" ELSE "failed")
  /\ UNCHANGED <<checkpoint, undo, cancelling, executions, entered, undone>>

-----------------------------------------------------------------------------
(* _execute_step. *)

PriorStarted(s) == checkpoint[s].status \in Uncertain \/ checkpoint[s].attempts > 0
Spent(s) == Retries[s] = 0 \/ checkpoint[s].attempts >= 1 + Retries[s]

\* Mutant: only a step whose status is started counts as started before.
ReplayBlockedIfStarted(s) ==
  checkpoint[s].status = "started" /\ s \notin Reconcilable /\ Spent(s)

\* A started step without a journal of its own and without budget.
ReplayBlocked(s) == PriorStarted(s) /\ s \notin Reconcilable /\ Spent(s)

\* Mutant: admit_step does not look at the cancellation.
AdmitAnyway(s) ==
  /\ Record(s, Entry("started", checkpoint[s].attempts + 1), "admitted")
  /\ entered' = [entered EXCEPT ![s] = @ + 1]

\* admit_step commits the started marker of one more attempt, and the handler
\* is entered.
Admit(s) ==
  /\ ~run.cancelled
  /\ checkpoint' = [checkpoint EXCEPT ![s] = Entry("started", @.attempts + 1)]
  /\ thread' = [thread EXCEPT ![s] = "admitted"]
  /\ entered' = [entered EXCEPT ![s] = @ + 1]
  /\ UNCHANGED run

\* A rejected result is final: it is neither retried nor replayed.
BeginInvalid(s) ==
  checkpoint[s].invalid /\ Answer(s, checkpoint[s].status) /\ UNCHANGED entered

\* Without budget a pure failure stands, anything else is in doubt.
BeginBlocked(s) ==
  /\ ~checkpoint[s].invalid /\ ReplayBlocked(s)
  /\ IF s \in Pure /\ checkpoint[s].status = "failed"
     THEN Answer(s, "failed")
     ELSE Record(s, [checkpoint[s] EXCEPT
                       !.status = "unknown",
                       !.attempts = IF @ = 0 THEN 1 ELSE @], "unknown")
  /\ UNCHANGED entered

Beginnable(s) == ~checkpoint[s].invalid /\ ~ReplayBlocked(s)

BeginCancelled(s) ==
  Beginnable(s) /\ run.cancelled /\ Answer(s, "cancelled") /\ UNCHANGED entered

\* A host without the step's handler: the step fails if it was never started;
\* one that was is not touched under another policy than it was started with.
BeginAbsent(s) ==
  /\ s \in Optional /\ ~checkpoint[s].invalid
  /\ IF PriorStarted(s) THEN Answer(s, "unknown")
                        ELSE ~run.cancelled /\ RecordStatus(s, "failed")
  /\ UNCHANGED entered

Awaits(s) == s \in Gated /\ s \notin run.approved

BeginGated(s) ==
  /\ Beginnable(s) /\ ~run.cancelled /\ Awaits(s)
  /\ RecordStatus(s, "waiting_approval")
  /\ UNCHANGED entered

BeginSkipped(s) ==
  /\ Beginnable(s) /\ ~run.cancelled /\ ~Awaits(s) /\ s \in Unmet
  /\ RecordStatus(s, "skipped")
  /\ UNCHANGED entered

BeginAdmit(s) ==
  /\ Beginnable(s) /\ ~run.cancelled /\ ~Awaits(s) /\ s \notin Unmet
  /\ Admit(s)

Begin(s) ==
  /\ thread[s] = "ready"
  /\ \/ BeginInvalid(s) \/ BeginBlocked(s) \/ BeginCancelled(s) \/ BeginAbsent(s)
     \/ BeginGated(s) \/ BeginSkipped(s) \/ BeginAdmit(s)
  /\ UNCHANGED <<undo, exec, cancelling, executions, undone>>

\* The retry loop goes round once more.
GoesOn(s) ==
  /\ ~run.cancelled /\ s \notin Reconcilable
  /\ checkpoint[s].attempts < 1 + Retries[s]

\* Whether what the handler raised leaves its effect in doubt.  A timeout is
\* an error of a pure step and a lost outcome of any other.
StatusOf(s, outcome) ==
  CASE outcome = "lost"    -> "unknown"
    [] outcome = "error"   -> IF s \in Pure \cup Reconcilable THEN "failed" ELSE "unknown"
    [] outcome = "invalid" -> IF s \in Pure THEN "failed" ELSE "unknown"

\* Governance withheld the handler's operation: nothing was attempted.
Withheld(s) ==
  /\ Record(s, Entry("waiting_approval", checkpoint[s].attempts - 1), "waiting_approval")
  /\ entered' = [entered EXCEPT ![s] = @ - 1]

Succeeded(s, fits) ==
  /\ fits \/ s \in Described
  /\ Record(s, [checkpoint[s] EXCEPT !.status = "completed", !.fits = fits], "completed")
  /\ UNCHANGED entered

Rejected(s) ==
  /\ LET status == StatusOf(s, "invalid") IN
     Record(s, [checkpoint[s] EXCEPT !.status = status, !.invalid = TRUE], status)
  /\ UNCHANGED entered

Raised(s, outcome) ==
  /\ LET status == StatusOf(s, outcome) IN
     Record(s, [checkpoint[s] EXCEPT !.status = status],
            IF GoesOn(s) THEN "again" ELSE status)
  /\ UNCHANGED entered

\* The handler ends.
Finish(s) ==
  /\ thread[s] = "admitted"
  /\ \/ Withheld(s) \/ Rejected(s)
     \/ \E fits \in BOOLEAN : Succeeded(s, fits)
     \/ \E outcome \in {"error", "lost"} : Raised(s, outcome)
  /\ UNCHANGED <<undo, exec, cancelling, executions, undone>>

\* Mutant: a refused admission is not noticed.
AgainUnheeding(s) ==
  /\ thread[s] = "again" /\ Admit(s)
  /\ UNCHANGED <<undo, exec, cancelling, executions, undone>>

\* The loop goes round, or finds the run cancelled before or at admission.
Again(s) ==
  /\ thread[s] = "again"
  /\ \/ Admit(s)
     \/ /\ run.cancelled
        /\ Answer(s, "cancelled") \/ Answer(s, checkpoint[s].status)
        /\ UNCHANGED entered
  /\ UNCHANGED <<undo, exec, cancelling, executions, undone>>

-----------------------------------------------------------------------------
(* What the wave came to, and _compensate. *)

Returned(result) == {s \in Steps : thread[s] = result}

\* The first of the failed steps in the definition's order.
FirstFailed ==
  CHOOSE s \in Returned("failed") : \A t \in Returned("failed") : Position[s] <= Position[t]

\* The completed steps that have a compensation; the last is compensated first.
Compensations == {s \in Compensable : checkpoint[s].status = "completed"}
NextUndo == CHOOSE s \in exec.todo : \A t \in exec.todo : Position[t] <= Position[s]

\* Mutant: a failed step is looked at before one in doubt.
SettleFailedFirst ==
  /\ exec.phase = "wave"
  /\ \A s \in Steps : thread[s] \notin {"ready", "admitted", "again"}
  /\ IF Returned("failed") # {}
     THEN /\ exec' = [exec EXCEPT !.phase = "undo", !.todo = Compensations]
          /\ thread' = [s \in Steps |-> "off"]
          /\ UNCHANGED run
     ELSE Conclude("unknown")
  /\ UNCHANGED <<checkpoint, undo, cancelling, executions, entered, undone>>

\* The results of a wave: doubt comes first, then cancellation, then failure,
\* which compensates unless the result itself was rejected, then waiting.
Settle ==
  /\ exec.phase = "wave"
  /\ \A s \in Steps : thread[s] \notin {"ready", "admitted", "again"}
  /\ IF Returned("unknown") # {} THEN Conclude("unknown")
     ELSE IF run.cancelled THEN Return
     ELSE IF Returned("failed") # {}
     THEN IF checkpoint[FirstFailed].invalid THEN Conclude("failed")
          ELSE /\ exec' = [exec EXCEPT !.phase = "undo", !.todo = Compensations]
               /\ thread' = [s \in Steps |-> "off"]
               /\ UNCHANGED run
     ELSE IF Returned("waiting_approval") # {} THEN Conclude("waiting_approval")
     ELSE /\ exec' = [exec EXCEPT !.phase = "next", !.wave = @ + 1]
          /\ thread' = [s \in Steps |-> "off"]
          /\ UNCHANGED run
  /\ UNCHANGED <<checkpoint, undo, cancelling, executions, entered, undone>>

Undone(failed) ==
  exec' = [exec EXCEPT !.phase = "undo", !.todo = @ \ {NextUndo}, !.failed = @ \/ failed]

\* Mutant: a compensation that was started before is started again.
UndoAfresh ==
  /\ exec.phase = "undo" /\ exec.todo # {}
  /\ undo[NextUndo] # "completed"
  /\ undo' = [undo EXCEPT ![NextUndo] = "started"]
  /\ undone' = [undone EXCEPT ![NextUndo] = @ + 1]
  /\ exec' = [exec EXCEPT !.phase = "undoing"]
  /\ UNCHANGED <<run, thread, checkpoint, cancelling, executions, entered>>

\* The started marker of a compensation is stored and its handler entered.
UndoStart ==
  /\ exec.phase = "undo" /\ exec.todo # {}
  /\ undo[NextUndo] \in {"none", "failed"}
  /\ undo' = [undo EXCEPT ![NextUndo] = "started"]
  /\ undone' = [undone EXCEPT ![NextUndo] = @ + 1]
  /\ exec' = [exec EXCEPT !.phase = "undoing"]
  /\ UNCHANGED <<run, thread, checkpoint, cancelling, executions, entered>>

\* A compensation already completed, or without a handler on this host.
UndoPass ==
  /\ exec.phase = "undo" /\ exec.todo # {}
  /\ \/ undo[NextUndo] = "completed" /\ Undone(FALSE)
     \/ NextUndo \in Optional /\ Undone(TRUE)
  /\ UNCHANGED <<run, thread, checkpoint, undo, cancelling, executions, entered, undone>>

\* A compensation in doubt, from before or just now, ends the execution.
UndoInDoubt ==
  /\ exec.phase = "undo" /\ exec.todo # {} /\ undo[NextUndo] \in Uncertain
  /\ Conclude("unknown")
  /\ UNCHANGED <<checkpoint, undo, cancelling, executions, entered, undone>>

\* The compensation's handler returns, or raises.
UndoFinish(ok) ==
  /\ exec.phase = "undoing"
  /\ LET status == IF ok THEN "completed"
                   ELSE IF NextUndo \in PureUndo THEN "failed" ELSE "unknown" IN
     /\ undo' = [undo EXCEPT ![NextUndo] = status]
     /\ IF status = "unknown" THEN exec' = [exec EXCEPT !.phase = "undo"]
                              ELSE Undone(~ok)
  /\ UNCHANGED <<run, thread, checkpoint, cancelling, executions, entered, undone>>

UndoEnd ==
  /\ exec.phase = "undo" /\ exec.todo = {}
  /\ Conclude(IF exec.failed THEN "compensation_failed" ELSE "failed")
  /\ UNCHANGED <<checkpoint, undo, cancelling, executions, entered, undone>>

-----------------------------------------------------------------------------
(* Cancellation, reconciliation, process death. *)

\* WorkflowRuntime.cancel, and the cancel of automation.py that also cancels
\* failed runs, read the run before they write it.
CancelRead(automation) ==
  /\ ~cancelling
  /\ IF automation THEN run.state # "completed" ELSE run.state \notin Closed
  /\ cancelling' = TRUE
  /\ UNCHANGED <<run, checkpoint, undo, exec, thread, executions, entered, undone>>

CancelWrite ==
  /\ cancelling /\ cancelling' = FALSE
  /\ run' = Preserved([run EXCEPT !.state = "cancelled", !.cancelled = TRUE], checkpoint)
  /\ UNCHANGED <<checkpoint, undo, exec, thread, executions, entered, undone>>

\* reconcile of automation.py writes the cancellation again.
Reconcile ==
  /\ run.cancelled
  /\ run' = Preserved(run, checkpoint)
  /\ UNCHANGED <<checkpoint, undo, exec, thread, cancelling, executions, entered, undone>>

\* mark_unknown: automation.py found a Work of the cancelled run in doubt.
MarkUnknown ==
  /\ run.cancelled
  /\ run' = [run EXCEPT !.state = "unknown"]
  /\ UNCHANGED <<checkpoint, undo, exec, thread, cancelling, executions, entered, undone>>

\* The process of the execution dies, and the lock is free.
Die ==
  /\ exec.phase # "free" /\ Return
  /\ UNCHANGED <<checkpoint, undo, cancelling, executions, entered, undone>>

Step(s) == Begin(s) \/ Finish(s) \/ Again(s)
Execute == Publish \/ EnterWave \/ Complete \/ Settle
Compensate ==
  UndoStart \/ UndoPass \/ UndoInDoubt \/ (\E ok \in BOOLEAN : UndoFinish(ok)) \/ UndoEnd
Cancel ==
  \/ \E automation \in BOOLEAN : CancelRead(automation)
  \/ CancelWrite \/ Reconcile \/ MarkUnknown

Next ==
  \/ \E given \in SUBSET Gated : Open(given)
  \/ Execute
  \/ \E s \in Steps : Step(s)
  \/ Compensate
  \/ Cancel
  \/ Die

Spec == Init /\ [][Next]_vars

\* An execution that was begun goes on: its threads are scheduled and its
\* handlers return (a step that exceeds its timeout is waited for all the same).
FairSpec ==
  /\ Spec
  /\ WF_vars(Execute) /\ WF_vars(Compensate)
  /\ \A s \in Steps : WF_vars(Step(s))

-----------------------------------------------------------------------------
(* Properties. *)

\* The handler of a step that keeps no journal of its own is entered once,
\* plus its trusted retries, over all executions of the run: no crash, resume,
\* approval or repeated failure replays an effect (runtime.py _execute_step).
EffectsBounded ==
  \A s \in Steps \ Reconcilable : entered[s] <= 1 + Retries[s]

\* A compensation with an effect is entered at most once (_compensate).
CompensatedOnce == \A s \in Compensable \ PureUndo : undone[s] <= 1

\* A run that is not RUNNING says UNKNOWN as long as an effect of a step is in
\* doubt, whoever wrote its state last: the execution, a step that finished
\* after the cancellation, or the canceller on what it had read before.
SettledIsCertain ==
  run.state \in Closed \cup {"waiting_approval"} =>
     \A s \in Steps : checkpoint[s].status \notin Uncertain

\* "Cancelled admission; started effects require reconciliation" (store.py):
\* once no execution is under
\* way, CANCELLED hides no effect in doubt, a compensation's included.
CancelledIsCertain ==
  run.state = "cancelled" /\ exec.phase = "free" => ~InDoubt(checkpoint, undo)

\* A step is started only on dependencies that are done, and stays on them
\* over every crash and resumption (compiler levels, _execute).
DependenciesFirst ==
  \A s \in Steps : checkpoint[s].status \in Done \cup Uncertain =>
     \A d \in After[s] : checkpoint[d].status \in Done

\* COMPLETED is told only of a run whose every step is done and whose outputs
\* fit, and never of one whose cancellation was accepted.
CompletedIsWhole ==
  run.state = "completed" =>
     /\ ~run.cancelled
     /\ \A s \in Steps : checkpoint[s].status \in Done
     /\ \A s \in Described : checkpoint[s].fits

\* Once the cancellation is stored no handler of a step is entered any more,
\* not even by the retry loop of a step in flight.
CancelledAdmitsNothing ==
  [][run.cancelled => /\ run'.cancelled
                      /\ \A s \in Steps : entered'[s] <= entered[s]]_vars

\* What a step came to is never forgotten: a step that is done keeps its
\* checkpoint, and an attempt is only taken back if governance withheld it.
EvidenceStays ==
  [][\A s \in Steps :
        /\ checkpoint[s].status \in Done => checkpoint'[s] = checkpoint[s]
        /\ checkpoint'[s].attempts < checkpoint[s].attempts => entered'[s] < entered[s]]_vars

\* Every execution ends and frees the lock: the retry loops are bounded, the
\* waves advance, the compensations run out.
ExecutionsEnd == exec.phase # "free" ~> exec.phase = "free"
=============================================================================
