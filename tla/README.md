# Formal verification of APEIR's execution core

This directory holds TLA+ specifications of the part of APEIR (the `nous_runtime` package) that
turns a request into an effect and back into a durable, verified record: the loop that decides on
tool calls, the Workflow that runs steps, the authority and the budget they need, and the way of an
effect to a remote node. They are written from the Python source, model-checked with TLC on small
instances, and their main safety properties are proved with TLAPS for every value of the constants.

- [The system](#the-system)
- [What is modelled](#what-is-modelled)
- [Runs, bounds and results](#runs-bounds-and-results)
- [Disagreements between the code and its documentation](#disagreements-between-the-code-and-its-documentation)
- [Fairness](#fairness)
- [Proofs](#proofs)
- [What is not modelled](#what-is-not-modelled)
- [Plan](#plan)
- [Running it](#running-it)

## The system

APEIR runs *Work* on *nodes*. A Controller host keeps the durable record of every Work, picks a
node, and stages a signed request; a relay process on the same host holds a websocket to each node,
delivers requests and stores signed results; the node executes a capability handler, at most once
for effectful work, and journals it; the Controller reconciles the signed result into the Work's
record, and for Work that changes the physical world commits only after an independent observation
shows the expected effect. Above that sit Workflows and agent sessions, beside it governance
(approvals, leases, sessions) and model execution with its cost ledger.

All paths below are under `src/nous_runtime/`.

| Component | State it keeps | Operations | Talks to | What makes it correct |
| --- | --- | --- | --- | --- |
| Node workload journal, `node_runtime/service.py` | `_workloads` in memory, `workloads.json` | `execute_workload`, `stop_workload`, restart | called by the relay client in threads; calls handlers outside its lock | a handler of at-most-once work is entered at most once; all answers about one work agree; a reported cancellation is final |
| Work record, `node_runtime/distributed_work.py` | `distributed-works.json` under a file lock | `create`, `transition`, `record_placement`, `assign`, `record_dispatch`, `record_result`, `record_effect_verification` | called by every Controller process | transition table; one assignment; dispatch, summary and MATCH written once; MATCH before an effectful commit |
| Scheduling, dispatch, reconciliation, `node_runtime/relay.py` | none of its own between calls | `schedule_work`, `stage_work_dispatch`, `reconcile_work` | Work record, provider spool directory, relay state file, artifact store | a state claims only what signed evidence supports; an interrupted call can be taken up by any process |
| Relay server, `node_runtime/relay.py` | pending assignments and controls, results and envelopes, connections | spool sweep, queueing, reconnection, message handlers | websocket to nodes, spool files, Work record | nothing queued is lost over reconnects; the first signed result is kept; no message of a superseded connection counts |
| Reality finalization, `reality/execution.py`, `reality/verification.py` | evidence graph, CAS objects | `_finalize`, `recover_verified`, `EffectVerifier.verify` | observation Work, Work record, governance evidence | an effectful Work commits only on its own effect, seen after it was applied |
| Node leases, `node_runtime/service.py` | leases file, fencing counter file | acquire, release, expire | relay controls | one live lease per resource; later leases have larger tokens |
| Artifact transfer and store, `service.py`, `artifact/content_store.py` | chunk files, objects, index, pins | ingest, store, pin, collect | relay, reconciliation | an object's bytes match its digest; nothing pinned is collected |
| Workflow runtime and automation, `workflow/` | SQLite runs, checkpoints, triggers | start, admit and finish step, cancel, resume, claim | handlers, Work adapter | an effect is entered once plus its trusted retries; cancellation survives concurrent steps; a final state hides no doubt |
| Operation authority, `governance/operation_gate.py` | SQLite operations, approvals, grants, revocations, consumptions | register, request and answer approval, issue, revoke, interrupt, admit | every governed effect | an effect happens once, under authority that stands while it runs; uses add up; a refusal is final |
| Broker and effect gate, rest of `governance/` | SQLite approvals, leases, consumption log; in-memory effect gate | request, resolve, expire, consume, revoke; propose, execute | earlier effectful paths | one resolution per request; uses never exceed the grant; a consumption is idempotent per execution |
| Human sessions, `control_plane/human_sessions.py` | SQLite challenges, sessions, nonces | challenge, login, admit, logout | identity provider, governance | a challenge and a nonce are consumed once; revocation and admission share a transaction |
| Work supervisor and loop, `work/` | checkpoints of a Work, submission markers, futures | submit, resume, the loop's decisions and tool calls, pause, steer, cancel, configure | models, tools, Work's agent, governance | one Work per submission key; a cancellation is never lost; no call or completion passes an effect in doubt |
| Agent sessions, `agent/coordination.py` | SQLite sessions | coordinate, submit, resume, wait, cancel, event callbacks | Workflow runtime, event bus | a terminal session stays terminal |
| Event stream and bus, `events/` | per-run log, index, buffers, listeners | emit, subscribe, replay, retention | everything | sequences are gapless and unique; replay misses nothing |
| Model cost control and gateway, `model_runtime/` | SQLite reservations, receipts, blocks | authorize, dispatch, commit, fail, replay | providers, Kernel | a request reaches a provider once; known usage is what was charged; charges stay within the budget |

What is hard in all of this is the same everywhere: durable files changed by several processes that
may die between two changes; in-memory copies that lag behind files; effects that cannot be taken
back and whose answers get lost; requests that arrive again. The hazards, each at its line and with
the property that covers it or the reason none does yet, are listed in `PROJECT.json`.

## What is modelled

### `NodeJournal`, `OneExecution`: execution on the node

One process, several threads, one durable file. The journal maps each workload identity to a record
with a state and the request that made it.

| TLA+ | Code |
| --- | --- |
| `journal`, `cache` | `workloads_path` and `_workloads` |
| `pc`, `job` | where a thread is inside `execute_workload`, and its arguments |
| `invoked`, `answers` | history: handler entries, and the terminal answers callers received |
| `Publish(base, w, rec, write)` | `_atomic_write_json` and the assignment of memory after it; `"lost"` is the rename that took effect and still raised, `"failed"` the write that did not |
| `Refreshable` | `_refresh_workloads`, which raises if memory knows an identity the file lost |
| `Redeliver`, `Refuse`, `Admit` | the locked section of `execute_workload` by outcome: recorded, refused, new |
| `Invoke`, `Finish` | the handler, entered with the lock released, and the locked section that publishes its result |
| `StopRecorded`, `StopUnrecorded` | `stop_workload` |
| `Restart` | death of the process anywhere, and the constructor that reads the file again |

A locked section publishes the file at most once and reads it at its start, so it is one step;
everything else interleaves. A request is its delivery semantics and a body (capability, arguments
and binding); the digest comparison is equality of requests. `Finish` deliberately publishes the
*memory* plus its result, as the code does, not the file plus its result. The response a handler
loses (`WorkloadResponseLost`) is `delivered = FALSE`. Argument validation that has no effect on
state is left out; callers ask only well-formed requests. The identities are those of `Works`, each
with the set `Asked[w]` of requests anybody makes under it: one identity is asked only with
at-most-once delivery, another with both semantics.

`OneExecution` is the abstract specification: a handler is entered once and not after an outcome was
reported, one outcome is reported for good, COMPLETED only of an entered handler and CANCELLED only
of one that never is. `ExecutesOnce` says that the node implements it for the identities asked only
with at-most-once delivery (`Guarded`), its two variables being read off the histories `invoked` and
`answers`.

### `DistributedWork`, `WorkLifecycle`: the Work record and its promise

`DistributedWork` has the constants, the record, the transition table and what each store call
refuses. `WorkLifecycle` is the abstract specification: a Work's phase moves along the table, a
MATCH is recorded once while it is VERIFIED, and an effectful Work reaches COMMITTED only after it.

### `ControllerWork`: the Controller

Processes (`Procs`) run `schedule_work`, `stage_work_dispatch`, `reconcile_work` and `_finalize` on
the same files. A call of the store locks, rereads, checks, and replaces the file: one step. A
process's next call is `job[p].step`; `Begin*` actions are the reads and early returns at the start
of an operation, the others one call each. A call the record refuses raises and ends the operation
(`Attempt`). `Die` removes a process between two calls.

| TLA+ | Code |
| --- | --- |
| `store` | `distributed-works.json` |
| `spool` | request files of the provider spool directory |
| `started`, `result` | what the running relay has queued for the node and the first signed terminal result it stored |
| `artifacts` | Works whose output and evidence objects are in the content store |
| `applied`, `device`, `witnessed` | the world: handlers that acted, the last operation the device names and whether its expected effect shows, and a history of which Work's effect a fresh observation has shown |
| `BeginSchedule`, `Schedule`, `Place`, `Assign` | `schedule_work` |
| `BeginStage`, `RecordDispatch`, `WriteSpool` | `stage_work_dispatch`; `"respool"` is the branch that finds a dispatch on record |
| `BeginReconcile`, `Resume`, `Run` … `Commit` | `reconcile_work`, by the state it finds |
| `BeginFinalize`, `Observe`, `Judge` | `_finalize` and `EffectVerifier.verify` |
| `QueueRequest`, `RejectRequest`, `Acknowledge`, `StoreResult`, `RetireRequest` | spool sweep and message handlers of the relay |

The node is the one `NodeJournal` describes, reduced to what the Controller sees: it applies an
effect at most once, and answers COMPLETED, FAILED or RECOVERY_REQUIRED. Summaries carry the time
they were made (`reconciled_at`), so a summary made again by a later call is never equal to one on
record; the same holds for dispatch records (`staged_at`). That is why `CanRecordSummary` and
`CanRecordDispatch` accept only a first record.

### `RemoteExecution`: between the Controller and the relay

The abstract specification of what lies behind a spool file: a work runs because it was asked for, its
effect happens at most once and not after a result is kept, the first result is kept and is true of
the effect, a request disappears with a result or by a rejection. It has two users, which is how the
two models meet without being composed. `ControllerWork` relies on it: its variables are those of the
specification, its relay and its node do what is allowed, and its processes only leave requests
(`ReliesOnRemote`). `RelayDelivery` keeps it for the works of the spool: `started` is what is pending,
waits to be stopped, or has a result; `applied` is read off the node's journal; `result` is the state
of the first result (`ServesRequests`). What the specification lets relay and node do, `ControllerWork`
lets them do, except that it takes a result and the retirement of its request in two steps, and that
nobody stops a work there, so none has the result CANCELLED.

### `NodeLease`, `FencedGrants`: resource leases of the node

`acquire_lease` and `release_lease` over two files. A locked section publishes up to three times
(the leases without the expired ones, the counter, the leases with the new one); each publication
may take effect, take effect and raise, or raise before. A raise ends the section, and a death
between two publications leaves what a lost one leaves, so a section is one step and `Restart` may
follow any.

| TLA+ | Code |
| --- | --- |
| `file`, `present`, `cache`, `counter` | `leases_path`, whether it exists, `_leases`, `lease_counter_path` |
| `clock`, `waiting` | `time.time()`, and calls that have read it and wait for the lock |
| `told`, `held` | history: grants returned to callers, and those whose callers have not asked for release |
| `Call`, `AcquireUnexpired`, `AcquireAgain`, `AcquireRefused`, `AcquireNew` | `acquire_lease` by outcome |
| `Release`, `ReleaseNothing` | `release_lease` |
| `Tick`, `TurnBack`, `LoseFile` | the surroundings: the clock advances or is set back, the file of leases is lost |
| `steady` | history: the clock has only advanced and the file has stayed, which exclusion needs and numbering does not |

A caller who asks for a release gives the lease up whatever the call returns. That is what makes a
release without a token acceptable: the caller must mean whatever the identity stands for.
`RelayDelivery` shows that a duplicated release arrives before a later acquisition.

`FencedGrants` is the abstract specification, a mutual exclusion with fencing: grants in force exclude
each other, and whatever is told of a resource outnumbers what was told of it before. In `KeepsFence`
a grant is in force while it is held and unexpired, and none is once the clock was set back or the
file was lost; the numbers stay in order all the same.

### `RelayDelivery`: the session between relay and node

One node, one Controller, both directions of a session, and the three durable things the Controller
may forget nothing of: assignments, controls, results. They are one file, replaced before the memory
is, so the model has one copy. The request files of the spool are the fourth.

| TLA+ | Code |
| --- | --- |
| `pending`, `controls`, `results`, `spool` | `pending`, `pending_controls`, `results` with `result_envelopes`, the provider request directory |
| `conn`, `handler` | `connections[node]`, and where its `_handle_connection` is: welcoming, resending assignments, resending controls, serving |
| `sendq` | coroutines that wait for the send lock, which is first come, first served |
| `down`, `up` | frames on their way |
| `session`, `stage`, `journal`, `leased` | the client, and its service reduced to what answers tell |
| `QueueDirect`, `QueueStop`, `QueueLease`, `Sweep` | `queue_workload`, `queue_workload_stop`, `queue_lease_*`, the spool sweep |
| `Accept`, `Resend`, `SendNext` | registration, resending, one send through the lock |
| `TakeStatus`, `TakeLease` | `_handle_message` for results and for acknowledged leases |
| `HandleStart`, `HandleStop`, `HandleLease` | the client's `_handle_message` |
| `HangUp`, `Refused`, `Swept` | the end of a connection, and what it does to sends that wait: those of callers raise, that of the sweep is taken for a rejection |
| `Break`, `DieRunning`, `TakeStatusTorn`, `RestartController` | lost sessions, a node that dies in a handler, a Controller that fails between saving a result and the rest of the handler, a Controller restart |

An answer is a state with its `stop_result`; equality of answers stands for equality of payload
digests. A repeated request has the same arguments. The client's first acknowledgement of a start
only marks the Work running and belongs to `ControllerWork`. Session 1 and 2 are names: one is the
connection the Controller believes in, the other what the node has opened since. `Patient` is an
assumption on callers: a control is queued only when the one before it, of the same identity, has
been answered. The test that exercises controls waits in this way; no other caller exists in the
repository.

### `WorkflowRun`: a Workflow run over all its executions

One stored run, one execution at a time (it holds the run's file lock), the threads of its current
wave, and cancellers that hold no lock.

| TLA+ | Code |
| --- | --- |
| `run`, `checkpoint`, `undo` | the run's row (state, cancellation, approved steps) and the checkpoints of steps and compensations |
| `exec`, `thread` | where `_execute` is, and where the thread of each step of its wave is |
| `cancelling` | a canceller between its read and its write |
| `entered`, `undone` | history: handler entries; one that governance withheld is taken back |
| `Preserved` | `_preserve_cancellation`, a part of every write of the state |
| `Open`, `Publish`, `EnterWave`, `Settle`, `Complete` | `start` and `resume`, the waves of `_execute`, and `_finish` |
| `Begin…`, `Admit`, `Finish`, `Again` | `_execute_step`: the branches before admission by outcome, `admit_step`, the handler and `finish_step`, the retry loop |
| `Undo…` | `_compensate` |
| `CancelRead`, `CancelWrite`, `Reconcile`, `MarkUnknown` | cancellation by the runtime and by `automation.py`, and its reconciliation |
| `Die` | death of the executing process, which frees the lock |

Every transaction of the store is a step. Handlers return, raise, time out, are withheld by
governance, or give a result that the output contract rejects. A host that lacks a handler is
`Optional`. Digests and bindings always agree.

### `OperationAuthority`: authority over one effect

`governance/operation_gate.py`. Every operation of the gate is one transaction under the database's
writer lock, so it is one step; the second transaction of an admission holds the lock while the
effect runs, which is `writer`.

| TLA+ | Code |
| --- | --- |
| `approval`, `grant`, `revoked`, `consumed` | the rows of approvals, grants, revocations and consumptions |
| `Open`, `Reaches`, `Usable`, `Consumed` | `_evaluate_operation` and `_matching_grant`, before and after admission |
| `RequestApproval`, `Respond`, `IssueGrant` | approval request, human answer with its one-use grant, a grant by a human |
| `RevokeGrant`, `RevokeResource`, `Interrupt` | `revoke_operation_authority`, interruption |
| `Reserve`, `BeginEffect`, `LetGo` | first transaction (a use is consumed), second transaction and effect, its end for whatever reason |

Restrictions that can only refuse (contracts, constitution, external policy, the check of the
device) make `LetGo` possible anywhere. The clock advances; approvals and grants expire.

### `ModelAccounting`: the ledger of model calls

`CostController` and the calls `ModelGateway` makes around it, one step per SQLite transaction.

| TLA+ | Code |
| --- | --- |
| `reservation`, `receipt`, `blocked` | `usage_reservations`, `usage_receipts`, `provider_blocks` |
| `call` | what each caller is about: admitted, sent, failed and looking for the next candidate |
| `provider` | the world: what was sent for a reservation, how often it ran, what it charged and reported |
| `Reserve`, `Replay` | `authorize`: a new reservation within the budgets of the day and of retries, or the Kernel's original given back |
| `Submit`, `Reconcile` | `mark_dispatched` with the submission, and the resubmission of a call the Kernel has committed |
| `Run` | the provider runs what it was sent, whether anyone waits or not |
| `FailUndispatched`, `FailDispatched`, `Commit` | `fail` on either side of the dispatch, `commit` with every kind of report |
| `UsageKnown`, `Usage` | `request_usage` |

A report says what was charged (`charge`), what is told (`tokens`), whether that was `measured`,
whether it can be read, and whether it shows more than was authorized. A measured report is taken to
be true; that is the only trust in providers. Only token budgets are modelled.

### `WorkRun`: one Work of the Work Harness

Several processes share the checkpoints of one Work. Whoever works on it reads the latest
checkpoint, goes on with its copy, and saves the copy as the new latest one; only the save is locked.

| TLA+ | Code |
| --- | --- |
| `marker`, `store` | the checkpoint that fences the submission key, the latest checkpoint of the Work |
| `runner` | what each process does for the Work: its place in the loop, its copy `mem`, and whether that is still the latest (`fresh` stands for the comparison of snapshot identities) |
| `user` | an operation of a user between its read and its save |
| `calls` | tool calls: their effect class, whether they were entered, what came of them, and whether a verification that passed came later (`checked`) |
| `observed` | the calls that `action_sequence` counts; it only grows |
| `recent` with `Noted`, `Lapsed` | `observations`, of which the last `Window` (50) are kept, as far as the gate tells them apart; a passed verification holds until `action_sequence` or the plan's revision changes |
| `Required`, `Verified` | what `_completion_gate` finds in the plan, the criteria and `observations` |
| `Fenced` | `_save_snapshot`: a cancelled Work stays cancelled whoever saves |
| `Submit`, `Create`, `Launch` | `_start_submission`, `WorkHarness.create`, `_submit` |
| `Resume`, `Mend`, `ResumeApproval`, `ResumeDoubt`, `ResumeAfresh` | `resume`, by what it finds pending |
| `Begin`, `Refresh`, `Analyse`, `Decide`, `Unanswered`, `Exhaust` | the loop up to a decision, with its two rereads |
| `Replanned`, `Copies` | `replace_plan`, which comes first if the decision has another plan |
| `Think`, `Suppress`, `Verify`, `Halt`, `Complete`, `Dispatch` | what becomes of a decision |
| `EnterCall`, `Deny`, `Observe`, `Wait`, `Replayed`, `Close` | `_execute_tool` and what the loop does after it |
| `Raise`, `Fail`, `Die` | exceptions, what the supervisor does about them, deaths |
| `Ask`, `Apply` | pause, steer, cancel and configure, as a read and a save; all read alike, so which one it is, is decided at the save |

States that nothing is decided by (RECEIVED, PREPARING, ANALYZING, …) are one. Saves of one actor
between which it reads nothing are one. A model's decision is any decision. The tools that only find
other tools or skills (`catalog_expand`, `skill_list`, `skill_search`, `skill_load`) are calls of kind
"discovery", which the gate does not count as work. Left out are discovery
before the loop (`_prepare_governed_context`), reattached process sessions, workspace proposals, and
events.

`disturbed` marks the three ways in which the account of effects can be lost, which
`CompletedKnows` and `DoubtBlocks` exclude: a user's operation saves a copy that is no longer the
latest, two processes run one Work, or the Work is steered between the uncertain result of an
approved action and the loop's leaving. They are items 10 to 12 below.

## Runs, bounds and results

| Run | Instance | Distinct states | Result |
| --- | --- | --- | --- |
| `node_journal` | 2 threads, 2 identities, 3 bodies, every write fate, any number of restarts | 36 219 | `AtMostOnce`, `OneOutcome`, `CancelledNeverRuns`, `OneBinding`, `RecordsStay` hold; `OneExecution` is implemented |
| `controller_work` | 2 processes, 2 nodes, a plain and an effectful Work, 1 fault, symmetry | 713 870 | `StateHasEvidence`, `AdmittedFirst`, `CommitWitnessed` hold; `WorkLifecycle` is implemented |
| `controller_recovery` | 2 processes, 1 effectful Work, 2 faults, fairness | 12 859 | `DispatchReachesRelay`, `CompletedSettles`, `MatchCommits` hold |
| `node_lease` | 2 threads, 2 identities, 2 resources, clock to 2, 2 tokens, every write fate, clock set back, file lost, symmetry | 411 985 | `OneLiveGrant` holds; `FencedGrants` is implemented |
| `relay_works` | a spooled and a queued work, the latter queued twice, and a lease with two requests; 1 fault of any kind, fairness | 393 042 | `LeaseAsWanted`, `AssignmentAnswered`, `RemovedIfAnswered` hold |
| `relay_stops` | a spooled and a queued work, either may be stopped; 2 faults, `Torn` included, fairness | 372 910 | `ResultIsTheNodes`, `ControlsEnd` hold; `RemoteExecution` is implemented |
| `workflow_run` | 5 steps in 3 waves, up to 4 executions, deaths, approvals, both cancellations, fairness | 159 822 | `EffectsBounded`, `CompensatedOnce`, `SettledIsCertain`, `CompletedIsWhole`, `CancelledAdmitsNothing`, `ExecutionsEnd` hold |
| `operation_authority` | 2 operations of one session, 2 processes, 2 grants, 2 uses of an issued one, clock to 1, symmetry | 1 351 524 | `EffectOnce`, `UsesAddUp`, `EffectUnderAuthority`, `RefusedForGood` hold |
| `model_accounting` | 2 callers, 2 requests, 2 models, 2 reservations, 5 kinds of report, budget for less than two estimates, symmetry | 72 753 | `BilledOnce`, `UsageIsTrue`, `BudgetHolds`, `SettledStays` hold |
| `work_run` | 2 processes, 2 calls of the network, with a plan or without, a window of 1, 2 iterations, 1 resumption of one iteration, 1 fault, 1 operation of a user, symmetry | 1 675 169 | `CompletedKnows`, `SubmissionFenced`, `CancellationHolds`, `PauseStopsDecision`, `DoubtBlocks` hold |
| `controller_in_doubt`, `relay_rejected` | | | violated, see below |

Type invariants are proved for every value of the constants (the `TypeCorrect` theorems), that of
`RelayDelivery` with the uniqueness of assignments and controls its operators rest on, and so are
not repeated in the runs.

What each property says is stated above it in its module. In short:

- `AtMostOnce`, `OneOutcome`, `CancelledNeverRuns`, `OneBinding` (`NodeJournal`): one execution, one
  answer, one request for each at-most-once identity; cancelled means never run. `ExecutesOnce` puts
  them in order: nothing is entered or reported after a report, no success is reported of a handler
  that never ran.
- `RecordsStay`: a durable record is not removed, a terminal one is not replaced, and one in doubt is
  not resolved by anybody, as long as no thread is between its steps while the memory lags behind the
  file (item 5 below says what happens otherwise).
- `StateHasEvidence`, `AdmittedFirst`, `CommitWitnessed`, `KeepsLifecycle` (`ControllerWork`): what
  the record claims is supported, whoever races or dies.
- `OneLiveGrant`, `KeepsFence` (`NodeLease`): exclusion rests on the clock, the
  order of tokens on nothing but the counter's file.
- `ResultIsTheNodes`, `ServesRequests`, `LeaseAsWanted`, `RemovedIfAnswered` (`RelayDelivery`):
  Controller and node agree on what was done, whatever was lost, repeated or overtaken, and a request
  in the spool is served as the Controller's processes count on.
- `AssignmentAnswered`, `ControlsEnd`: what is queued is answered once the session stays up. A stop
  is not if some work is one for which the session ends again and again; `ControlsEnd` names these
  works (`Contested`, `Unstartable`; items 4 and 7 below say what they are).
- `DispatchReachesRelay`, `CompletedSettles`, `MatchCommits`: whatever was cut off is taken up.
- `EffectsBounded`, `CompensatedOnce` (`WorkflowRun`): no death, resumption, approval or repeated
  failure replays an effect beyond its trusted retries.
- `SettledIsCertain`, `CompletedIsWhole`, `CancelledAdmitsNothing`: the stored state is true of the
  checkpoints whoever wrote it last, and cancellation stops admission at once.
- `EffectOnce`, `UsesAddUp`, `EffectUnderAuthority`, `RefusedForGood` (`OperationAuthority`): races
  and deaths give no second effect and no second use; revocation waits for the effect or prevents it.
- `BilledOnce`, `UsageIsTrue`, `BudgetHolds`, `SettledStays` (`ModelAccounting`): retries, replays
  and late answers make no second charge, and the ledger does not claim to know what it does not.
- `SubmissionFenced`, `CancellationHolds`, `PauseStopsDecision` (`WorkRun`): whoever saves which
  copy, a submission cut off makes no Work later, a cancellation stays, and a loop that deliberates
  while the Work comes to rest takes no decision.
- `DoubtBlocks`, `CompletedKnows`: no call and no completion passes an effect in doubt, and a Work
  that has a plan or criteria is completed only after a verification that passed and came after its
  last effect. Of a Work that has neither, the second does not hold (item 13 below).

The bounds. Two threads are enough for a step between another's admission and its result, and a
third adds no step that a finished one could not take. `MaxInvocations = 2` is one more than
`AtMostOnce` allows. Two processes give every race between two operations on one Work, or between
operations on two. `MaxFaults` bounds deaths, rejected
requests and changes of the device by itself together: one lets an operation be cut off at each
point and taken up by another, two lets the recovery be cut off as well. Symmetry exchanges
processes and nodes, never Works, which differ in policy, and is not used with liveness.

For the leases, a clock to 2 with lifetime 2 lets a lease expire while a call that read the clock
before waits, and two tokens let another holder follow, of the same resource or of the same
identity. Symmetry exchanges identities, resources and threads. For the relay, a fault is the loss
of a session with a suffix of what the node sent, the death of the node in a handler, a Controller
that fails between saving a result and the rest of its handler (`Torn`), or a Controller restart.
One cuts off every exchange of `relay_works`, where the three kinds of traffic share the send lock;
`relay_stops` has a second one for the recovery from the first, and one stop; two stops with one
fault have been checked apart from the runs (1.7 million states, five minutes; the properties hold).
In `relay_works` a queued work is queued again while pending and after its result, and the lease is
acquired and released.

For the Workflow run, the five steps are an effect with a compensation beside a pure step with a
retry, a gated effect with a trusted retry beside a condition that is not met, and a step with a
journal of its own; four executions allow a death, a second death in the recovery, an approval and
one more. For the operation authority, a clock to 1 with lifetime 1 lets everything expire at any
point, two grants let two reach one operation or one reach both, and an issued grant has two uses, which
separates the last use from the others, where one that comes with an approval has its single one;
one effect more than allowed (`MaxEffects`) can happen. For the ledger, two reservations are two
attempts of one request or one each of two requests (that a third attempt is refused is left to the
theorems, which hold for any number), the reports cover a charge below, at and above
the estimate, known and guessed, and the daily budget is reached by one call and an estimate. For the
Work, one resumption brings in the second process or goes on after the fault, and the operation of a
user comes at any point of either. Network calls have every outcome that a call can have. Two
iterations let a decision follow an outcome, and a resumed loop has one of them, which decides once
(`MaxResumed`). With `Window = 1` every later observation evicts the one before, where the code
evicts after 50. That a result makes an older verification lapse (`Lapsed`) is then the same as
evicting it; with `Window = 2` it is not, and an `Observed` without `Lapsed` is caught. The five
properties were also confirmed on these instances:

| Instance | Distinct states |
| --- | --- |
| `Window = 2` | 1 833 521 |
| `MaxResumed = 2` | 5 422 096 |
| `Criteria = TRUE` | 1 673 642 |
| `Kinds = {"discovery", "write"}` | 2 982 485 |
| `MaxStarts = 2`, `MaxFaults = 2`, `MaxOps = 0` | 2 946 752 |
| one process, `MaxStarts = 2`, `MaxOps = 2` | 3 291 430 |

The last lets a user's second operation take back the first. `CompletedKnows` and `DoubtBlocks` are
proved for every value of all of them. The longest runs take about a minute.

Deadlock is checked for the journal and the leases. The Controller may stop: when every Work is
committed, or has failed and nobody recovers it, nothing more happens. So may the relay, since
heartbeats are not modelled: a session with nothing pending is idle. The remaining four stop when
the model's bounds are used up, or when everything asked for is over.

## Disagreements between the code and its documentation

The violation runs (items 1 and 3) each check one sentence of the documentation or of a comment.
Their counterexamples are short and can be followed in the code. The others have no run of their
own; where a property is named, TLC finds the behaviour when a passing configuration is changed as
described.

1. `controller_in_doubt`. A process records the summary of a RECOVERY_REQUIRED result and dies
   before the transition. Every later `reconcile_work` builds a summary with another
   `reconciled_at`, `record_result` refuses it as a changed binding, and the Work never becomes
   UNKNOWN, as `docs/operations/compute-mesh/EXECUTION_RECOVERY.md` says it does. The same holds of
   FAILED results; completed ones are safe, because that branch tests for a recorded summary.
2. `ChangedBindingRejected` (`NodeJournal`) fails as an invariant of `NodeJournal.cfg`. Idempotent records have no request digest, so an idempotent delivery of
   other arguments under the same identity is answered with the recorded result. The same document
   says a changed binding is rejected.
3. `relay_rejected`. The sweep saves an assignment and waits for the send lock. If the session ends
   meanwhile, `_send` raises NodeProtocolError and the sweep reports
   REMOTE_PROVIDER_REQUEST_REJECTED and removes the request, but the assignment stays and is executed
   at the next connection. The requester has been told that nothing happened. The comment a few
   lines above asks to keep the request in this case; only ConnectionClosed is treated so. A handler
   whose own send fails removes its connection before the next waiting send runs, so this needs no
   rare timing, only a sweep during a registration that breaks.
4. A stop may stay pending for ever: `Stopping(w) ~> ~Stopping(w)`, which is `ControlsEnd` without
   its exceptions, fails in `RelayStops.cfg`. The handler takes a repeated status for the recorded
   one if the payloads are equal up to ALREADY_TERMINAL (`relay.py`, line 1682). Otherwise it closes
   the connection, and does so after every reconnection, since what was not answered is sent again.
   There are three works for which a legitimate answer differs (`Contested`):
   - one recorded as CANCELLED with CANCELLED_BEFORE_START, that is stopped again, or whose stop is
     still pending because the Controller failed between saving the result (line 1713) and completing
     the stop (line 1722): the node now says ALREADY_TERMINAL, and the other side is compared with
     CANCELLED_BEFORE_START, which is not left out;
   - one recorded as RECOVERY_REQUIRED without a stop result, whose stop is answered with
     EFFECT_IN_FLIGHT;
   - one recorded as CANCELLED with ALREADY_TERMINAL, stopped while its handler ran, that is assigned
     again: the start is answered differently from the stop.

   A session carries the traffic of all works, so any such work holds up the stops of the others, and
   so does the one of item 7 (`Unstartable`). `ControlsEnd` says that there is no other way: each of
   its four exceptions is reached in the run, and without any one of them it fails.

5. `RecordsStay` without `UpToDate` fails in `NodeJournal.cfg`. A stop or an admission
   whose write took effect but raised is in the file and not in memory; a handler that ends in
   another thread publishes the memory (`service.py`, line 967) and erases it, though a comment in
   `_refresh_workloads` says recorded identities are never removed. At-most-once execution survives
   this (`AtMostOnce` is proved), since admission raises when its write does.
6. `RemovedIfAnswered` fails in `RelayWorks.cfg` with `Patient = FALSE` and `MaxLeases = 3`. A
   control queued while the node registers is sent twice and acknowledged twice. If release and
   acquisition of the same lease follow at once, the second acknowledgement of the old request
   removes the new one (`relay.py`, line 1806), which the node may never see if the session then
   breaks.
7. `AssignmentAnswered` fails in `RelayWorks.cfg` with `Stoppable = {"update"}` and `MaxStops = 1`.
   A stop takes the assignment away (`relay.py`, line 1496) and leaves the request file, so the sweep
   assigns the work again. The node then has a cancellation without a request digest, and refuses
   the start with a ValueError that ends the client; restarting it does not help, and works behind
   it are not reached. No code path of the repository stops a spooled work today, but
   `queue_workload_stop` accepts one. This is why `relay_works` stops nothing; `relay_stops`,
   which stops either work, reaches the case and names it in `ControlsEnd`.

8. `CancelledIsCertain` (`WorkflowRun`) fails as an invariant of `WorkflowRun.cfg`. A compensation is started although
   the run was cancelled meanwhile; if its process dies then, the run stays CANCELLED beside a started
   compensation until somebody reconciles it. `_preserve_cancellation` looks at compensations, but
   storing the started marker of one does not call it. `store.py` says that started effects require
   reconciliation.
9. `cli.py`, line 173, says of `pause`: "Request a durable pause at the next Work loop boundary." A
   loop notices a pause only if it is stored while it deliberates or before an iteration begins. One
   stored while a tool runs, during verification, or between a decision and its dispatch is
   overwritten by the loop's next save; so is a steering. `PauseStopsDecision` states what does hold.
10. Operations of users read and save without a lock over both. A pause, steering or configuration
    that read before the loop's last saves can replace COMPLETED or FAILED, or lose a pending action.
    Without `~disturbed`, `CompletedKnows` and `DoubtBlocks` fail by this in `WorkRun.cfg`.
11. WorkAlreadyRunning is known to one process only. A resumption by another process (the CLI does
    this) runs a second loop on the same Work. The two properties fail by this as well.
12. After an approved action with an uncertain outcome the loop reads the Work again and stops at
    RECOVERY_REQUIRED. A steering stored in between sets the state back, and the loop goes past an
    effect in doubt. So it does if a pause is stored before that reading, at which the loop does not
    stop, and a steering before the next iteration.
13. `docs/architecture/EXECUTION_PATH.md`, line 258, says: "Unplanned tool Work still passes the
    existing recorded-work completion gate." That gate asks less than the sentence suggests: it
    (`loop.py`, lines 1741 to 1762) verifies a Work with neither plan nor criteria only if the
    observations on record show the use of a tool that is not `catalog_expand`, `skill_list`, `skill_search` or `skill_load`. A checkpoint keeps the last 50
    observations (lines 382, 1004, 1710), so 50 later entries, verifications and suppressed reads
    among them, remove what shows it, and the Work is completed without a verification. As an
    invariant of `WorkRun.cfg`,
    `store.state = "COMPLETED" /\ ~disturbed /\ (\E c \in Calls : calls[c].entered) => Verified(store)`
    fails by this. `CompletedKnows` therefore speaks of verification only where there is a plan or
    criteria, and of what the effects came to in every case, which needs no gate.

Behaviours that follow from the code and the models, that no text contradicts, and that a reader
should know:

- An idempotent work leaves no record while its handler runs, so a stop reports
  CANCELLED_BEFORE_START for a work that runs and completes (`service.py`, line 604).
- Staging reads ASSIGNED, the relay runs the request to its end and retires the file, then staging
  writes the file again (`relay.py`, line 1081), which `EXECUTION_RECOVERY.md` excludes; the relay
  answers such a file from the stored result, so nothing is executed twice.
- A Workflow run can become COMPLETED after one of its compensations was executed: a failed step is
  tried again by a resumption, the compensated one is not. A cancellation that read the run before
  it ended turns COMPLETED or FAILED into CANCELLED. Compensations run in the reversed order of the
  definition, not of the dependencies.
- A process that dies or times out between the two transactions of an admission has consumed the use
  of its grant, and the operation can never run; the gate prefers no effect to two. Reads that
  the gate's own policy allows consume nothing and may be repeated. An approval request that expires
  without an answer denies the operation for good, even if a broad grant comes later.
- In the earlier broker, `expire_old` (`broker.py`, line 616) can overwrite another process's
  decision with EXPIRED, and `consume_lease` answers a repeated execution identity with success even
  after the lease was revoked.
- `request_usage` compares a reservation's status with "usage_unknown", which is written to receipts
  only (`cost_control.py`, line 1366); the effect is that any open reservation makes tokens unknown,
  which is on the safe side. A replayed call may hold a reservation that was released meanwhile, and
  a stream always ends as uncertain.
- A cancellation stored after the loop's decision lets the one call begin that was decided on
  (`CancellationHolds` says one). A steering while the agent rests after a refusal fails the Work.

## Fairness

`ControllerWork!FairSpec` assumes that

- a live process makes its next call (weak fairness of each process's continuation): calls do not
  block for ever, the file lock is released when its holder dies;
- the relay sweeps its spool (weak fairness of queueing and retiring): `_run_provider_spool` is a
  loop with a 50 ms sleep;
- staging, reconciliation and finalization of a Work that needs them are begun again and again
  (strong fairness, over all processes together): the Workflow adapter polls, a resumed Workflow
  calls `recover_verified`, an operator runs reconciliation. Strong fairness is needed because a
  process busy with another step disables the beginning.

`RelayDelivery!FairSpec` assumes that both event loops go on: a registration, a send whose turn it is,
the next resend, the next message, the end of a connection are each handled (weak fairness); that
the spool is swept; and that the client connects again, which `run_forever` does with a delay of at
most a minute, or, if an exception ended it, when its supervisor has started it again: both are
`Connect`. Callers are not fair, faults are finite.

`WorkflowRun!FairSpec` assumes that an execution once begun goes on: its own steps, its compensations
and the thread of each step are scheduled, and handlers return (the runtime waits for a step even
after its timeout). Nobody is assumed to start, resume or cancel anything.

In `ControllerWork` nothing is assumed of nodes: acknowledgements, effects and results may never
come, which is why the liveness properties begin at a recorded dispatch or a stored result. Deaths,
rejections and drift are finite (`MaxFaults`): a host that kills every reconciliation settles nothing.

## Proofs

All are machine-checked, with no assumption but those named in the modules: `AskedAssumption`
(identities are asked for with well-formed requests), `WorkAssumption` and `ControllerAssumption`
(the bound is a number, the placeholders name no Work and no node), `LeaseAssumption` (lifetimes are
positive, bounds are numbers), `DefinitionAssumption` (a Workflow's steps have distinct positions,
and a step's dependencies are in earlier waves), `AuthorityAssumption` (operations are finitely many,
grants, resources and operations have different names, lifetimes and uses are positive),
`DeliveryAssumption` (works are at-most-once or idempotent, and no work is a lease),
`AccountingAssumption` (measured reports are true, an estimate fits a request's limit), `FinitelyMany`
(reservations, for sums of them), and
`WorkAssumption` of `WorkRun` (effect classes, plans and criteria are there or not, the window is
positive, bounds are numbers, the placeholder is no call).

`NodeJournal_proofs`

- `TypeCorrect`: `[]TypeOK`.
- `HandlerAtMostOnce`: `[]AtMostOnce`. The invariant is not inductive: one must exclude that the
  identity is forgotten. `IInv` adds that an identity whose at-most-once handler was entered, or is
  being worked on by a thread, is recorded *both* in memory and in the file (`EnteredIsHeld`,
  `BusyIsHeld`), that only one thread works on it (`BusyIsAlone`) and that an admitted thread has
  not entered yet (`AdmittedIsNew`). Both copies are needed: `Finish` writes the memory over the
  file, a reread or restart copies the file over the memory.
- `AnswersAgree`, `AnswersBound`, `CancelledIsFinal`: `[]OneOutcome`, `[]OneBinding`,
  `[]CancelledNeverRuns`, from one stronger invariant `GInv`: an answer given about an identity
  asked only with at-most-once delivery is what both copies of its record still say.
- `ExecutesAsPromised`: `Spec => ExecutesOnce`, the refinement of `OneExecution`. `XInv` adds to
  `GInv` that a copy of a record says COMPLETED, and a thread is past `Invoke`, only after an entry.
  `StepCases` sorts the steps into an entry, an answer and stutters; an entry finds no answer because
  both copies say EXECUTING, an answer repeats the reported one because all agree.
- `RecordsAreKept`: the action property `RecordsStay`, from `TypeOK` alone, since it says itself when
  memory and file agree.

`ControllerWork_proofs`

- `TypeCorrect` and `AdmissionFirst` from `AInv`: a process about to write a spool file has seen
  the dispatch on record, dispatch records stay, a record past SCHEDULED has its node.
- `LifecycleKept`: `Spec => KeepsLifecycle`, the refinement of `WorkLifecycle` by the mapping of
  `phase` to the state and `matched` to a recorded MATCH; every step is shown to be a move along
  the table, the recording of a MATCH, or a stutter.
- `EvidenceBehindState`: `[]StateHasEvidence` from `EInv`: a summary on record, and the step a
  process has reached, are grounded in the signed result, which never changes, and in artifacts,
  which are never removed here.
- `CommitsAreWitnessed`: `[]CommitWitnessed` from `WInv`: a MATCH on record, and one on its way
  there in a process, rests on an observation of this Work's own effect.
- `RemoteReliedOn`: `Spec => ReliesOnRemote`. Processes are shown to leave a request or to stutter
  (`ProcessRequests`), relay and node to take one of the steps allowed (`RelayPromised`). That
  `ControllerWork` leaves none out but CANCELLED and the retirement together with the result, which
  it takes in two steps, is the lemma `PromisedIsTaken`, its converse.

`NodeLease_proofs`

- `TypeCorrect`: `[]TypeOK`, which includes that no lease on file outnumbers the counter.
- `NumbersAreUnique`, `LaterIsLarger`: `[]TokensUnique` and the action property `FencingOrder`. The
  invariant adds that nothing told or on file outnumbers the counter (`Numbered`), that a resource
  is on file under one identity (`OneHolder`), that what is on file and was told under the same
  number is the same grant (`Distinct`) and that a lease on file outnumbers or equals whatever was
  told of its resource (`Latest`). `Latest` is why a repeated acquisition cannot tell an old number
  late. Both hold with the clock set back and the file lost, because the counter is published first.
- `LeasesExclude`: `[]OneLiveGrant`, which speaks of the time while the clock has only advanced and
  the file has stayed (`steady`). Then waiting calls have read a past clock (`PastReads`), so a lease
  is dropped only when it has expired, and an unexpired grant that was not given up is still on file
  (`Backed`); `OneHolder` does the rest. `steady => PastReads /\ Backed` is the invariant's part.
- `LeasesFence`: `Spec => KeepsFence`, the refinement of `FencedGrants`, from both invariants together.
  A step that tells a grant tells it last and highest of its resource, unless it tells it again
  (`ToldIsOnFile`, `TellFences`); every other step only ends grants or lets the unexpired expire.

`RelayDelivery_proofs`

- `TypeCorrect`, `ResultsAreTheNodes`, `StartedWorksAreKnown`: `[]TypeOK`, `[]ResultIsTheNodes`,
  `[]StartedIsKnown` (what the node has a record of is expected), all from `DeliveryInv`. None is
  inductive without what is on its way (`OnTheWay`): every start or stop that a handler has yet to send again, that waits for the lock, or
  that travels to the node names a work the Controller expects an answer about (`Expected`), and every
  answer that travels back says what the journal says (`Told`). That these stay true while anything
  else happens is the lemma `WaysStay`, from two facts no step takes back (`Forward`): a work once
  expected stays so, because an assignment is taken away only with a stop pending or a result
  recorded and a stop only with a result recorded, and a record of the node never changes.
- `LeasesAreAsWanted`, `ControlsAwaitTheirAnswer`: `[]LeaseAsWanted` and the action property
  `RemovedIfAnswered`, for callers that await a control's answer before the next (`Patient`). What can
  still reach the node about one lease is a lane: what it has acknowledged first, then messages on
  their way, then sends that wait. `LaneInv` says that nothing old follows what was asked for last in
  any lane, and `Paired` that only the session the Controller accepted has a lane at all, so a message
  of a superseded session cannot come after one of the new. Each action keeps the order by a lemma of
  its own. A stop may leave without its answer when the work's result is recorded; `RemovedIfAnswered`
  says so.
- `RequestsAreServed`: `Spec => ServesRequests`, the refinement of `RemoteExecution`, whose three
  mapped variables are computed from pending assignments, controls, results and the journal. Each
  action has a lemma that it is one of the steps allowed or changes nothing the requesters see
  (`Serving`). `ServeInv` adds to `DeliveryInv` that the sweep waits to send nothing but assignments
  (`SweepsStart`) and that a request gone from the spool was asked for (`Kept`): an assignment is
  saved before it is sent, so a request rejected because the send was refused was asked for as well.
  `OnTheWay` gives that a handler on the node runs only what was asked for, and that the result taken
  is the journal's.

`WorkflowRun_proofs`

- `TypeCorrect`, `EffectsAreBounded`, `CompensationsOnce`, `CancellationAdmitsNothing` from `CountInv`:
  attempts on record count at least the handler entries that were not withheld (`Counted`), a thread
  in its retry loop has budget left (`LoopBudget`), a compensation that was entered is marked
  (`UndoMarked`), and threads are where their checkpoints say (`InFlight`).
- `SettledRunsAreCertain`, `CompletedRunsAreWhole`, `DependenciesComeFirst` from `WaveInv`: in an
  execution all earlier waves are done (`Behind`), a thread stands on done dependencies (`WaveFirst`),
  only steps of the wave are at work (`InWave`), and the run is RUNNING or cancelled while an
  execution that has published goes on (`Bound`). `EvidenceIsKept` follows from the two.

`OperationAuthority_proofs`

- `TypeCorrect`, `EffectsHappenOnce`, `EffectsRunUnderAuthority`, `RefusalIsFinal` from
  `AuthorityInv`: an operation that is worked on or has begun was consumed (`Backed`), which no second
  admission gets past; one process works on it (`Alone`), what is reserved has not begun (`Unbegun`),
  the writer lock is held exactly by the process whose effect runs (`Locked`), and nothing was
  consumed of a grant that does not exist (`Fresh`).
- `UsesAreConserved` from the same and the cardinality of a grant's consumptions;
  `ApprovalsGrantOnce` from `ApprovedInv`.

`ModelAccounting_proofs`

- `TypeCorrect`, `RequestsAreBilledOnce`, `KnownUsageIsTrue`, `SettledUsageStays` from `AccountingInv`:
  a request has one reservation that may have had an effect (`Sole`), and each reservation agrees with
  its receipt and with what the provider saw of it (`Sound`): nothing is sent before the fence, a
  reservation released without effect never reached the provider, a receipt that claims to know tells
  the charge.
- `ChargesStayInBudget`: `[]BudgetHolds`, from an invariant on sums over any set of reservations. Each
  reservation has a cap, the smaller of its weight in the budget and the estimate, which covers its
  charge unless the call exceeded its estimate. Only admission raises the sum of caps, and it looks at
  the budget first. That two sums agree where their terms do is
  shown without induction, from a smallest set that refutes it (strict inclusion of finite sets is
  well-founded). `FinitelyMany` is needed here only: a sum over infinitely many has no value.

`WorkRun_proofs`

- `TypeCorrect`, `SubmissionsAreFenced`, `CancellationsHold`, `PausesStopDecisions` from `RunInv`: a
  copy called fresh is the latest checkpoint (which justifies `fresh` as a model of the comparison
  of identities), before there is a Work only its submitter acts (`Fits`), and a process that began a
  call of a cancelled Work is on its way out of the loop (`Late`), so it begins no second one.
- `CompletedWorksKnow`, `DoubtsBlock`: `[]CompletedKnows` and the action property `DoubtBlocks`, from
  `KnowInv` about a Work nobody disturbed. One process works on it; its copy gives the same account of
  calls (pending action, recovery policy, observed calls) as the latest checkpoint, so whichever is
  saved loses nothing (`Knows`); the account agrees with the calls (`Sums`: what needs an approval was
  refused and never entered, what came to something is observed, and a passed verification that is still
  on record came after every effect observed: `Vouched`; a completed Work with a plan or criteria has
  such a verification: `Settled`); and an effect that began and came to nothing known is the pending
  action with policy `manual`, while the process, if there is one, is somewhere it can only leave from
  (`Passes`). When a verification passes no effect is on its way, so it covers all there were. Looking for this invariant showed that the third
  disturbance had been stated too narrowly for more than one operation of users.

Each proof module states its inductive invariant as a conjunction of named parts; the invariants
were also model-checked on the instances above before they were proved.

Only model-checked: the liveness properties `AssignmentAnswered`, `ControlsEnd`, `ExecutionsEnd`,
`DispatchReachesRelay`, `CompletedSettles` and `MatchCommits` (fairness and `ENABLED` are beyond the
prover). Every safety property of a passing run is proved.

## What is not modelled

`PROJECT.json` lists every component with its reason. The reasons are of four kinds: planned (see
below); user interfaces, serialization and process supervision around the modelled state; numeric
or textual transformations without concurrency (ranking, retrieval, evaluation); separate or legacy
products in the same repository. Within the modelled components these are left out: signatures and
digests (equality of what they cover), timestamps and wording, heartbeats and host reports, the
governed admission of Reality operations, and recovery transitions that no code path makes
(RECOVERING is in the table but nothing moves a Work there, so Works that failed stay).

## Plan

In this order, the most important behaviour first; each with its MC module and runs, and proofs
where noted.

1. `ComputeMesh`: what `RemoteExecution` asks of the node derived from `OneExecution`, instead of the
   small journal inside `RelayDelivery`. Revocation of trust and the session limited to
   reconciliation belong here.
2. `ArtifactTransfer`: chunks, resumption, pins and collection.
3. `ApprovalLease`: the earlier broker with its expiry and the effect gate, as far as it is still
   reached.
4. `AgentSession`: unlocked read-modify-write against cancellation and events, above `WorkflowRun`.
5. `EventStream`: sequence allocation against publication to memory and listeners.
6. `HumanSession`: challenges and nonces whose answers get lost, revocation against admission.

An abstract specification worth stating besides `WorkLifecycle`, `OneExecution`, `FencedGrants` and
`RemoteExecution`: an append-only log, which `EventStream` should implement.

## Running it

```
tlc -config NodeJournal.cfg MCNodeJournal.tla
tlapm NodeJournal_proofs.tla
```

Every configuration names its constants in full; the `MC` modules define the sets
they use. The longest runs take about a
minute, the longest proof module three to four.
