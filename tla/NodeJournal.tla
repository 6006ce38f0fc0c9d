---------------------------- MODULE NodeJournal ----------------------------
(***************************************************************************)
(* The workload journal of one node: NodeRuntimeService.execute_workload   *)
(* and stop_workload (nous_runtime/node_runtime/service.py).               *)
(*                                                                         *)
(* The process keeps a copy of the journal in memory (_workloads) and the  *)
(* journal itself in one JSON file.  Every locked section rereads the      *)
(* file, except the one that records a handler's result.  The handler runs *)
(* with the lock released, so deliveries of other threads, cancellations   *)
(* and crashes fall between admission and result.  Publishing the file can *)
(* succeed, fail before the rename, or take effect and still raise.        *)
(*                                                                         *)
(* A locked section publishes the file at most once, hence is one step.    *)
(***************************************************************************)
EXTENDS Naturals, FiniteSets

CONSTANTS
  Works,          \* workload identities
  Threads,        \* threads of the process that may call the service
  Bodies,         \* capability together with its canonical arguments
  Unavailable,    \* bodies whose capability has no handler
  Protected,      \* bodies whose handler requires at-most-once delivery
  Asked,          \* the requests callers may make under each identity
  MaxInvocations  \* model bound on handler invocations per workload

Semantics == {"idempotent", "at_most_once"}
Requests  == [semantics : Semantics, body : Bodies]

\* Every identity is asked for with well-formed requests.
ASSUME AskedAssumption ==
  /\ Asked \in [Works -> SUBSET Requests]
  /\ Unavailable \subseteq Bodies
  /\ Protected \subseteq Bodies \ Unavailable
  /\ MaxInvocations \in Nat

NoRequest == [semantics |-> "none", body |-> "none"]
NoJob     == [work |-> "none", request |-> NoRequest]

Terminal  == {"COMPLETED", "FAILED", "CANCELLED"}
Absent    == [state |-> "ABSENT", request |-> NoRequest]

\* A record keeps the request that made it; it carries a request digest
\* exactly when that request was at-most-once.
Records   == [state : Terminal \cup {"ABSENT", "EXECUTING"},
              request : Requests \cup {NoRequest}]
Jobs      == [work : Works, request : Requests]
Answers   == [asked : Requests \cup {NoRequest}, state : Terminal]

\* What publishing a file can do: take effect and return, take effect and
\* raise, or raise before the rename.
Writes == {"ok", "lost", "failed"}

VARIABLES
  journal,   \* workloads_path: the durable records
  cache,     \* _workloads: the records in memory
  pc,        \* where each thread is: idle, admitted, running
  job,       \* what an admitted or running thread works on
  invoked,   \* how often a handler was entered, per identity and semantics
  answers    \* terminal answers callers have received, per identity

vars == <<journal, cache, pc, job, invoked, answers>>

AtMostOnceRequest(r) == r.semantics = "at_most_once"
Recorded(j) == {w \in Works : j[w].state # "ABSENT"}

TypeOK ==
  /\ journal \in [Works -> Records]
  /\ cache \in [Works -> Records]
  /\ pc \in [Threads -> {"idle", "admitted", "running"}]
  /\ job \in [Threads -> Jobs \cup {NoJob}]
  /\ \A t \in Threads : pc[t] # "idle" => job[t] \in Jobs
  /\ invoked \in [Works -> [Semantics -> Nat]]
  /\ answers \in [Works -> SUBSET Answers]

Init ==
  /\ journal = [w \in Works |-> Absent]
  /\ cache = journal
  /\ pc = [t \in Threads |-> "idle"]
  /\ job = [t \in Threads |-> NoJob]
  /\ invoked = [w \in Works |-> [s \in Semantics |-> 0]]
  /\ answers = [w \in Works |-> {}]

-----------------------------------------------------------------------------
(* The file and the memory. *)

\* _refresh_workloads raises when memory knows an identity the file lost.
Refreshable == Recorded(cache) \subseteq Recorded(journal)

\* _atomic_write_json of base with w's record, then the assignment of memory,
\* which is skipped when the write raises.
Publish(base, w, rec, write) ==
  LET staged == [base EXCEPT ![w] = rec] IN
  /\ journal' = IF write = "failed" THEN journal ELSE staged
  /\ cache' = IF write = "ok" THEN staged ELSE base

Tell(w, asked, state) ==
  answers' = [answers EXCEPT ![w] = @ \cup {[asked |-> asked, state |-> state]}]

Work(t, w, request, at) ==
  /\ pc' = [pc EXCEPT ![t] = at]
  /\ job' = [job EXCEPT ![t] = [work |-> w, request |-> request]]

Leave(t) ==
  /\ pc' = [pc EXCEPT ![t] = "idle"]
  /\ job' = [job EXCEPT ![t] = NoJob]

-----------------------------------------------------------------------------
(* execute_workload *)

\* Mutant: a digest is demanded of the record but never compared.
BindingUnchecked(rec, request, probe) ==
  AtMostOnceRequest(request) /\ ~AtMostOnceRequest(rec.request)

\* The checks of a repeated delivery.  The request digest covers capability,
\* arguments, semantics and binding; a record without one is only compared
\* when the delivery is a reconciliation probe.
BindingRefused(rec, request, probe) ==
  /\ rec.request # request
  /\ AtMostOnceRequest(request) \/ AtMostOnceRequest(rec.request) \/ probe

\* A repeated delivery is answered from the journal.  An EXECUTING record is
\* reported as RECOVERY_REQUIRED, which promises nothing.
Redeliver(t, w, request, probe) ==
  LET rec == journal[w] IN
  /\ pc[t] = "idle" /\ Refreshable
  /\ rec.state # "ABSENT"
  /\ ~BindingRefused(rec, request, probe)
  /\ cache' = journal
  /\ IF rec.state = "EXECUTING" THEN UNCHANGED answers
                                ELSE Tell(w, request, rec.state)
  /\ UNCHANGED <<journal, pc, job, invoked>>

\* The delivery raises: its binding differs from the recorded one, it is a
\* probe for a work never recorded, or a protected handler was asked for
\* without at-most-once delivery.  Only the reread of the file remains.
Refuse(t, w, request, probe) ==
  /\ pc[t] = "idle" /\ Refreshable
  /\ \/ journal[w].state # "ABSENT" /\ BindingRefused(journal[w], request, probe)
     \/ journal[w].state = "ABSENT" /\ probe
     \/ /\ journal[w].state = "ABSENT"
        /\ request.body \in Protected /\ ~AtMostOnceRequest(request)
  /\ cache' = journal
  /\ UNCHANGED <<journal, pc, job, invoked, answers>>

\* A first delivery.  At-most-once work is published as EXECUTING before its
\* handler may run; idempotent work leaves no trace yet.
Admit(t, w, request, write) ==
  /\ pc[t] = "idle" /\ Refreshable
  /\ journal[w].state = "ABSENT"
  /\ request.body \in Protected => AtMostOnceRequest(request)
  /\ IF AtMostOnceRequest(request)
     THEN Publish(journal, w, [state |-> "EXECUTING", request |-> request], write)
     ELSE write = "ok" /\ cache' = journal /\ UNCHANGED journal
  /\ IF write = "ok" THEN Work(t, w, request, "admitted")
                     ELSE UNCHANGED <<pc, job>>
  /\ UNCHANGED <<invoked, answers>>

\* The handler is entered, outside the lock.
Invoke(t) ==
  LET w == job[t].work
      s == job[t].request.semantics IN
  /\ pc[t] = "admitted" /\ job[t].request.body \notin Unavailable
  /\ invoked[w][s] < MaxInvocations
  /\ invoked' = [invoked EXCEPT ![w][s] = @ + 1]
  /\ pc' = [pc EXCEPT ![t] = "running"]
  /\ UNCHANGED <<journal, cache, job, answers>>

\* The handler returned or raised, or there was none.  The record is added to
\* the memory as it is, without rereading the file.  The caller gets the
\* answer unless the write or the handler's response was lost.
Finish(t, outcome, write, delivered) ==
  LET w == job[t].work
      request == job[t].request IN
  /\ \/ pc[t] = "running"
     \/ /\ pc[t] = "admitted" /\ request.body \in Unavailable
        /\ outcome = "FAILED" /\ delivered
  /\ Publish(cache, w, [state |-> outcome, request |-> request], write)
  /\ IF write = "ok" /\ delivered THEN Tell(w, request, outcome)
                                  ELSE UNCHANGED answers
  /\ Leave(t)
  /\ UNCHANGED invoked

-----------------------------------------------------------------------------
(* stop_workload *)

\* A recorded work is reported as it stands, EXECUTING as RECOVERY_REQUIRED.
StopRecorded(t, w) ==
  /\ pc[t] = "idle" /\ Refreshable
  /\ journal[w].state # "ABSENT"
  /\ cache' = journal
  /\ IF journal[w].state = "EXECUTING" THEN UNCHANGED answers
                                       ELSE Tell(w, NoRequest, journal[w].state)
  /\ UNCHANGED <<journal, pc, job, invoked>>

\* Mutant: a work whose handler is running is cancelled too.
StopInFlight(t, w, write) ==
  /\ pc[t] = "idle" /\ Refreshable
  /\ journal[w].state \in {"ABSENT", "EXECUTING"}
  /\ Publish(journal, w, [state |-> "CANCELLED", request |-> NoRequest], write)
  /\ IF write = "ok" THEN Tell(w, NoRequest, "CANCELLED") ELSE UNCHANGED answers
  /\ UNCHANGED <<pc, job, invoked>>

\* A work without a record is cancelled before its start.
StopUnrecorded(t, w, write) ==
  /\ pc[t] = "idle" /\ Refreshable
  /\ journal[w].state = "ABSENT"
  /\ Publish(journal, w, [state |-> "CANCELLED", request |-> NoRequest], write)
  /\ IF write = "ok" THEN Tell(w, NoRequest, "CANCELLED") ELSE UNCHANGED answers
  /\ UNCHANGED <<pc, job, invoked>>

-----------------------------------------------------------------------------
\* Mutant: a restart resolves the records it finds EXECUTING, by forgetting
\* them or by taking their handlers to have succeeded.
RestartResolving(resolved) ==
  /\ journal' = [w \in Works |->
                   IF journal[w].state = "EXECUTING" THEN resolved[w] ELSE journal[w]]
  /\ cache' = journal'
  /\ pc' = [t \in Threads |-> "idle"]
  /\ job' = [t \in Threads |-> NoJob]
  /\ UNCHANGED <<invoked, answers>>
RestartForgets == RestartResolving([w \in Works |-> Absent])
RestartAssumes ==
  RestartResolving([w \in Works |-> [journal[w] EXCEPT !.state = "COMPLETED"]])

\* The process dies anywhere and is started again: memory is loaded from the
\* file by the constructor, threads and their jobs are gone.
Restart ==
  /\ cache' = journal
  /\ pc' = [t \in Threads |-> "idle"]
  /\ job' = [t \in Threads |-> NoJob]
  /\ UNCHANGED <<journal, invoked, answers>>

ThreadStep(t) ==
  \/ \E w \in Works : \E request \in Asked[w] :
       \/ \E probe \in BOOLEAN : Redeliver(t, w, request, probe)
       \/ \E probe \in BOOLEAN : Refuse(t, w, request, probe)
       \/ \E write \in Writes : Admit(t, w, request, write)
  \/ Invoke(t)
  \/ \E outcome \in {"COMPLETED", "FAILED"}, write \in Writes, delivered \in BOOLEAN :
       Finish(t, outcome, write, delivered)
  \/ \E w \in Works : StopRecorded(t, w)
  \/ \E w \in Works, write \in Writes : StopUnrecorded(t, w, write)

Next == Restart \/ \E t \in Threads : ThreadStep(t)

Spec == Init /\ [][Next]_vars

-----------------------------------------------------------------------------
(* Properties. *)

\* Works that callers only ever ask for with at-most-once delivery.
Guarded == {w \in Works : \A r \in Asked[w] : AtMostOnceRequest(r)}

\* The handler of a work delivered at-most-once is entered at most once,
\* whatever is redelivered, cancelled, lost or crashed, and even when another
\* thread's stale memory overwrote the file (service.py execute_workload).
AtMostOnce == \A w \in Works : invoked[w]["at_most_once"] <= 1

\* All terminal answers given for an at-most-once work agree: no caller is
\* told COMPLETED, FAILED or CANCELLED where another was told otherwise.
OneOutcome ==
  \A w \in Guarded : \A a, b \in answers[w] : a.state = b.state

\* A cancellation reported for an at-most-once work is final and was before
\* its start: its handler was not and will not be entered.
CancelledNeverRuns ==
  \A w \in Guarded : (\E a \in answers[w] : a.state = "CANCELLED") =>
      /\ invoked[w]["at_most_once"] = 0
      /\ \A t \in Threads : pc[t] # "idle" => job[t].work # w

\* One at-most-once identity answers for one request only: a delivery whose
\* binding differs from the one that was executed never receives its result.
OneBinding ==
  \A w \in Guarded : \A a, b \in answers[w] :
     {a.asked, b.asked} \subseteq Requests => a.asked = b.asked

\* The outcome that the answers given about a work report.
Reported(given) == IF given = {} THEN "none" ELSE (CHOOSE a \in given : TRUE).state
Execution == INSTANCE OneExecution WITH
  Items   <- Guarded,
  entered <- {w \in Guarded : invoked[w]["at_most_once"] > 0},
  outcome <- [w \in Guarded |-> Reported(answers[w])]

\* The node executes a guarded work as OneExecution promises: threads that race,
\* stale memory, lost writes, lost responses and restarts add up to no second
\* entry, no entry or other outcome after a reported one, no success of a
\* handler that never ran (service.py execute_workload, stop_workload).
ExecutesOnce == Execution!ExecutionSpec

\* A handler's result is written over the memory as it stands, so the file is
\* only safe from a handler while the memory has not missed a write to it: one
\* thread's lost write makes the other's memory stale.
UpToDate == cache = journal \/ \A t \in Threads : pc[t] = "idle"

Unattended(w) == \A t \in Threads : job[t].work # w

\* "Recorded Work IDs are never removed" (service.py, _refresh_workloads): by
\* no call, no write that is lost or fails, and no restart, as long as no
\* handler runs beside a memory that is behind the file.  Once no thread is
\* admitted for the work, a terminal record is not replaced either, and an
\* effect left in doubt is not resolved by invention: its EXECUTING record
\* stays, so every later answer is RECOVERY_REQUIRED.
RecordsStay ==
  [][\A w \in Works :
        /\ UpToDate /\ journal[w].state # "ABSENT" => journal'[w].state # "ABSENT"
        /\ /\ UpToDate /\ Unattended(w)
           /\ journal[w].state \in Terminal \cup {"EXECUTING"}
           => journal'[w] = journal[w]]_vars

\* "A changed binding under the same workload id is rejected"
\* (EXECUTION_RECOVERY.md), for every delivery semantics.
ChangedBindingRejected ==
  \A w \in Works : \A a, b \in answers[w] :
     {a.asked, b.asked} \subseteq Requests => a.asked = b.asked
=============================================================================
