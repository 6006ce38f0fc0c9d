------------------------- MODULE NodeJournal_proofs -------------------------
(***************************************************************************)
(* For every set of works, threads and requests and every interleaving of  *)
(* deliveries, cancellations, lost or failed writes and restarts:          *)
(*   - the type invariant of NodeJournal;                                  *)
(*   - AtMostOnce, through the claim that an identity whose at-most-once   *)
(*     handler may be, or was, entered is recorded both in memory and in   *)
(*     the file, so that neither a reread, a restart nor the blind rewrite *)
(*     of the file by Finish can make it look new;                         *)
(*   - OneOutcome, CancelledNeverRuns and OneBinding, through the claim    *)
(*     that an answer given is what both copies of the record still say;   *)
(*   - RecordsStay, and the refinement of OneExecution, through the claim  *)
(*     that a copy says COMPLETED only after the handler was entered.      *)
(***************************************************************************)
EXTENDS NodeJournal, TLAPS

\* t was admitted for w with at-most-once delivery and has not finished.
Busy(t, w) ==
  pc[t] # "idle" /\ job[t].work = w /\ AtMostOnceRequest(job[t].request)

\* w is recorded in memory and in the file.
Held(w) == cache[w].state # "ABSENT" /\ journal[w].state # "ABSENT"

EnteredIsHeld == \A w \in Works : invoked[w]["at_most_once"] > 0 => Held(w)
BusyIsHeld    == \A t \in Threads, w \in Works : Busy(t, w) => Held(w)
BusyIsAlone   ==
  \A t, u \in Threads, w \in Works : Busy(t, w) /\ Busy(u, w) => t = u
AdmittedIsNew ==
  \A t \in Threads, w \in Works :
     Busy(t, w) /\ pc[t] = "admitted" => invoked[w]["at_most_once"] = 0

IInv ==
  /\ TypeOK
  /\ EnteredIsHeld
  /\ BusyIsHeld
  /\ BusyIsAlone
  /\ AdmittedIsNew
  /\ AtMostOnce

\* Both copies of w's record are rec.
Agreed(w, state, request) ==
  /\ cache[w] = [state |-> state, request |-> request]
  /\ journal[w] = [state |-> state, request |-> request]

JobsAsked == \A t \in Threads : pc[t] # "idle" => job[t].request \in Asked[job[t].work]
BusyIsExecuting ==
  \A t \in Threads, w \in Guarded : 
     Busy(t, w) => Agreed(w, "EXECUTING", job[t].request)
AnswersAgreed ==
  \A w \in Guarded : \A a \in answers[w] :
     /\ cache[w].state = a.state /\ journal[w].state = a.state
     /\ a.asked \in Requests =>
          cache[w].request = a.asked /\ journal[w].request = a.asked
EnteredNotCancelled ==
  \A w \in Guarded : invoked[w]["at_most_once"] > 0 =>
     cache[w].state # "CANCELLED" /\ journal[w].state # "CANCELLED"
GInv ==
  /\ IInv
  /\ JobsAsked
  /\ BusyIsExecuting
  /\ AnswersAgreed
  /\ EnteredNotCancelled

-----------------------------------------------------------------------------
(* Types. *)

\* The records and jobs an operation writes are of their types.
LEMMA RecordTypes ==
  /\ Absent \in Records
  /\ NoRequest \notin Requests
  /\ \A r \in Requests, st \in Terminal \cup {"EXECUTING"} :
       [state |-> st, request |-> r] \in Records
  /\ [state |-> "CANCELLED", request |-> NoRequest] \in Records
BY DEF Absent, Records, NoRequest, Requests, Semantics, Terminal

\* Whatever the write does, both copies of the journal keep their type.
LEMMA PublishType ==
  ASSUME NEW base \in [Works -> Records], NEW w \in Works, NEW rec \in Records,
         NEW write \in Writes,
         journal \in [Works -> Records],
         Publish(base, w, rec, write)
  PROVE  journal' \in [Works -> Records] /\ cache' \in [Works -> Records]
BY DEF Publish, Writes

\* An answer given is of the type of answers.
LEMMA TellType ==
  ASSUME NEW w \in Works, NEW asked \in Requests \cup {NoRequest},
         NEW state \in Terminal,
         answers \in [Works -> SUBSET Answers], Tell(w, asked, state)
  PROVE  answers' \in [Works -> SUBSET Answers]
<1>1. [asked |-> asked, state |-> state] \in Answers
  BY DEF Answers
<1>2. QED
  BY <1>1 DEF Tell

\* A record that is neither absent nor executing is terminal.
LEMMA TerminalRecord ==
  ASSUME NEW rec \in Records, rec.state # "ABSENT", rec.state # "EXECUTING"
  PROVE  rec.state \in Terminal
BY DEF Records

\* A step of one thread keeps every variable's type.
LEMMA ThreadStepType ==
  ASSUME TypeOK, NEW t \in Threads, ThreadStep(t)
  PROVE  TypeOK'
<1> USE AskedAssumption DEF TypeOK
<1>1. ASSUME NEW w \in Works, NEW request \in Asked[w], NEW probe \in BOOLEAN,
             Redeliver(t, w, request, probe)
      PROVE  TypeOK'
  <2>1. answers' \in [Works -> SUBSET Answers]
    BY <1>1, TellType, TerminalRecord DEF Redeliver
  <2>2. QED
    BY <1>1, <2>1 DEF Redeliver
<1>2. ASSUME NEW w \in Works, NEW request \in Asked[w], NEW probe \in BOOLEAN,
             Refuse(t, w, request, probe)
      PROVE  TypeOK'
  BY <1>2 DEF Refuse
<1>3. ASSUME NEW w \in Works, NEW request \in Asked[w], NEW write \in Writes,
             Admit(t, w, request, write)
      PROVE  TypeOK'
  <2>1. request \in Requests
    OBVIOUS
  <2>2. journal' \in [Works -> Records] /\ cache' \in [Works -> Records]
    BY <1>3, <2>1, RecordTypes, PublishType DEF Admit
  <2>3. [work |-> w, request |-> request] \in Jobs
    BY <2>1 DEF Jobs
  <2>4. CASE write = "ok"
    BY <1>3, <2>2, <2>3, <2>4 DEF Admit, Work
  <2>5. CASE write # "ok"
    BY <1>3, <2>2, <2>5 DEF Admit
  <2>6. QED
    BY <2>4, <2>5
<1>4. ASSUME Invoke(t)
      PROVE  TypeOK'
  <2>1. job[t].work \in Works /\ job[t].request.semantics \in Semantics
    BY <1>4 DEF Invoke, Jobs, Requests
  <2>2. invoked' \in [Works -> [Semantics -> Nat]]
    BY <1>4, <2>1 DEF Invoke
  <2>3. QED
    BY <1>4, <2>2 DEF Invoke
<1>5. ASSUME NEW outcome \in {"COMPLETED", "FAILED"}, NEW write \in Writes,
             NEW delivered \in BOOLEAN,
             Finish(t, outcome, write, delivered)
      PROVE  TypeOK'
  <2>1. job[t].work \in Works /\ job[t].request \in Requests
    BY <1>5 DEF Finish, Jobs
  <2>2. [state |-> outcome, request |-> job[t].request] \in Records
    BY <2>1, RecordTypes DEF Terminal
  <2>3. journal' \in [Works -> Records] /\ cache' \in [Works -> Records]
    BY <1>5, <2>1, <2>2, PublishType DEF Finish
  <2>4. answers' \in [Works -> SUBSET Answers]
    BY <1>5, <2>1, TellType DEF Finish, Terminal
  <2>5. QED
    BY <1>5, <2>3, <2>4 DEF Finish, Leave
<1>6. ASSUME NEW w \in Works, StopRecorded(t, w)
      PROVE  TypeOK'
  <2>1. answers' \in [Works -> SUBSET Answers]
    BY <1>6, TellType, TerminalRecord DEF StopRecorded
  <2>2. QED
    BY <1>6, <2>1 DEF StopRecorded
<1>7. ASSUME NEW w \in Works, NEW write \in Writes, StopUnrecorded(t, w, write)
      PROVE  TypeOK'
  <2>1. journal' \in [Works -> Records] /\ cache' \in [Works -> Records]
    BY <1>7, RecordTypes, PublishType DEF StopUnrecorded
  <2>2. QED
    BY <1>7, <2>1, TellType DEF StopUnrecorded, Terminal
<1>8. QED
  BY <1>1, <1>2, <1>3, <1>4, <1>5, <1>6, <1>7 DEF ThreadStep

LEMMA TypeInvariant == TypeOK /\ [Next]_vars => TypeOK'
<1>1. ASSUME TypeOK, Restart PROVE TypeOK'
  BY <1>1 DEF TypeOK, Restart
<1>2. TypeOK /\ UNCHANGED vars => TypeOK'
  BY DEF TypeOK, vars
<1>3. QED
  BY <1>1, <1>2, ThreadStepType DEF Next

\* The journal, the memory, the threads and the ghosts keep their types.
THEOREM TypeCorrect == Spec => []TypeOK
<1>1. Init => TypeOK
  BY RecordTypes DEF Init, TypeOK
<1>2. QED
  BY <1>1, TypeInvariant, PTL DEF Spec

-----------------------------------------------------------------------------
(* At most once. *)

\* Publishing never takes a record away from an identity that memory holds:
\* the staged journal extends the memory or a reread of the file.
LEMMA PublishHolds ==
  ASSUME TypeOK, NEW base \in {cache, journal}, NEW w \in Works, NEW rec \in Records,
         rec.state # "ABSENT", NEW write \in Writes, Publish(base, w, rec, write),
         NEW v \in Works, Held(v)
  PROVE  Held(v)'
BY DEF TypeOK, Publish, Held, Writes

\* A reread of the file keeps what is held.
LEMMA RereadHolds ==
  ASSUME NEW v \in Works, Held(v), cache' = journal, journal' = journal
  PROVE  Held(v)'
BY DEF Held

\* Held works stay held in every step.
LEMMA HeldStays ==
  ASSUME TypeOK, [Next]_vars, NEW v \in Works, Held(v)
  PROVE  Held(v)'
<1> USE AskedAssumption
<1>1. CASE Restart
  BY <1>1, RereadHolds DEF Restart
<1>2. CASE UNCHANGED vars
  BY <1>2 DEF vars, Held
<1>3. ASSUME NEW t \in Threads, ThreadStep(t)
      PROVE  Held(v)'
  <2>1. ASSUME NEW w \in Works, NEW request \in Asked[w], NEW probe \in BOOLEAN,
               Redeliver(t, w, request, probe) \/ Refuse(t, w, request, probe)
        PROVE  Held(v)'
    BY <2>1, RereadHolds DEF Redeliver, Refuse
  <2>2. ASSUME NEW w \in Works, NEW request \in Asked[w], NEW write \in Writes,
               Admit(t, w, request, write)
        PROVE  Held(v)'
    <3>1. CASE AtMostOnceRequest(request)
      BY <2>2, <3>1, PublishHolds, RecordTypes DEF Admit
    <3>2. CASE ~AtMostOnceRequest(request)
      BY <2>2, <3>2, RereadHolds DEF Admit
    <3>3. QED
      BY <3>1, <3>2
  <2>3. CASE Invoke(t)
    BY <2>3 DEF Invoke, Held
  <2>4. ASSUME NEW outcome \in {"COMPLETED", "FAILED"}, NEW write \in Writes,
               NEW delivered \in BOOLEAN,
               Finish(t, outcome, write, delivered)
        PROVE  Held(v)'
    <3>1. job[t].work \in Works /\ job[t].request \in Requests
      BY <2>4 DEF Finish, TypeOK, Jobs
    <3>2. [state |-> outcome, request |-> job[t].request] \in Records
      BY <3>1, RecordTypes DEF Terminal
    <3>3. QED
      BY <2>4, <3>1, <3>2, PublishHolds DEF Finish
  <2>5. ASSUME NEW w \in Works, StopRecorded(t, w)
        PROVE  Held(v)'
    BY <2>5, RereadHolds DEF StopRecorded
  <2>6. ASSUME NEW w \in Works, NEW write \in Writes, StopUnrecorded(t, w, write)
        PROVE  Held(v)'
    BY <2>6, PublishHolds, RecordTypes DEF StopUnrecorded
  <2>7. QED
    BY <1>3, <2>1, <2>2, <2>3, <2>4, <2>5, <2>6 DEF ThreadStep
<1>4. QED
  BY <1>1, <1>2, <1>3 DEF Next

\* A step other than an admission or an invocation makes no thread busy,
\* readmits none and enters no handler.
Quiet ==
  /\ invoked' = invoked
  /\ \A u \in Threads, v \in Works :
       Busy(u, v)' => Busy(u, v) /\ (pc'[u] = "admitted" => pc[u] = "admitted")

LEMMA QuietKeeps ==
  ASSUME IInv, TypeOK', Quiet, \A v \in Works : Held(v) => Held(v)'
  PROVE  IInv'
<1> USE DEF IInv, Quiet
<1>1. EnteredIsHeld'
  BY DEF EnteredIsHeld
<1>2. BusyIsHeld'
  BY DEF BusyIsHeld
<1>3. BusyIsAlone'
  BY DEF BusyIsAlone
<1>4. AdmittedIsNew'
  BY DEF AdmittedIsNew
<1>5. AtMostOnce'
  BY DEF AtMostOnce
<1>6. QED
  BY <1>1, <1>2, <1>3, <1>4, <1>5

\* An admission makes busy only work that was held nowhere, hence never
\* entered and on no other thread.
LEMMA AdmitKeeps ==
  ASSUME IInv, TypeOK', \A v \in Works : Held(v) => Held(v)',
         NEW t \in Threads, NEW w \in Works, NEW request \in Asked[w],
         NEW write \in Writes, Admit(t, w, request, write)
  PROVE  IInv'
<1> USE AskedAssumption DEF IInv
<1>0. request \in Requests /\ pc[t] = "idle" /\ invoked' = invoked /\ ~Held(w)
  BY DEF Admit, Held
<1>1. CASE ~(write = "ok" /\ AtMostOnceRequest(request))
  <2>1. Quiet
    BY <1>0, <1>1 DEF Quiet, Busy, Admit, Work, TypeOK
  <2>2. QED
    BY <2>1, QuietKeeps
<1>2. CASE write = "ok" /\ AtMostOnceRequest(request)
  <2>1. Held(w)'
    BY <1>2 DEF Admit, Publish, Held, TypeOK
  <2>2. \A u \in Threads, v \in Works :
          Busy(u, v)' => (u = t /\ v = w) \/ (u # t /\ Busy(u, v) /\ pc'[u] = pc[u])
    BY <1>2 DEF Admit, Work, Busy, TypeOK
  <2>3. \A u \in Threads : ~Busy(u, w)
    BY <1>0 DEF BusyIsHeld
  <2>4. invoked[w]["at_most_once"] = 0
    BY <1>0 DEF EnteredIsHeld, TypeOK, Semantics
  <2>5. EnteredIsHeld'
    BY <1>0 DEF EnteredIsHeld
  <2>6. BusyIsHeld'
    BY <2>1, <2>2 DEF BusyIsHeld
  <2>7. BusyIsAlone'
    BY <2>2, <2>3 DEF BusyIsAlone
  <2>8. AdmittedIsNew'
    BY <1>0, <2>2, <2>4 DEF AdmittedIsNew
  <2>9. AtMostOnce'
    BY <1>0 DEF AtMostOnce
  <2>10. QED
    BY <2>5, <2>6, <2>7, <2>8, <2>9
<1>3. QED
  BY <1>1, <1>2

\* The only admitted thread of a work enters its handler for the first time.
LEMMA InvokeKeeps ==
  ASSUME IInv, TypeOK', NEW t \in Threads, Invoke(t)
  PROVE  IInv'
<1> USE DEF IInv
<1> DEFINE w == job[t].work
           s == job[t].request.semantics
<1>0. w \in Works /\ s \in Semantics /\ "at_most_once" \in Semantics
  BY DEF Invoke, TypeOK, Jobs, Requests, Semantics
<1>1. /\ pc[t] = "admitted" /\ pc'[t] = "running"
      /\ \A u \in Threads : u # t => pc'[u] = pc[u]
      /\ job' = job /\ cache' = cache /\ journal' = journal
  BY DEF Invoke, TypeOK
<1>2. \A v \in Works : Held(v)' <=> Held(v)
  BY <1>1 DEF Held
<1>3. \A u \in Threads, v \in Works : Busy(u, v)' <=> Busy(u, v)
  BY <1>1 DEF Busy
<1>4. \A v \in Works : invoked'[v]["at_most_once"] =
         IF v = w /\ s = "at_most_once" THEN invoked[v]["at_most_once"] + 1
                                         ELSE invoked[v]["at_most_once"]
  BY <1>0 DEF Invoke, TypeOK
<1>5. CASE s = "at_most_once"
  <2>1. Busy(t, w)
    BY <1>1, <1>5 DEF Busy, AtMostOnceRequest
  <2>2. invoked[w]["at_most_once"] = 0 /\ Held(w)
    BY <1>0, <1>1, <2>1 DEF AdmittedIsNew, BusyIsHeld
  <2>3. \A u \in Threads : Busy(u, w) => u = t
    BY <1>0, <2>1 DEF BusyIsAlone
  <2>4. EnteredIsHeld'
    BY <1>2, <1>4, <2>2 DEF EnteredIsHeld
  <2>5. BusyIsHeld' /\ BusyIsAlone'
    BY <1>2, <1>3 DEF BusyIsHeld, BusyIsAlone
  <2>6. AdmittedIsNew'
    BY <1>1, <1>3, <1>4, <2>3 DEF AdmittedIsNew
  <2>7. AtMostOnce'
    BY <1>0, <1>4, <2>2 DEF AtMostOnce
  <2>8. QED
    BY <2>4, <2>5, <2>6, <2>7
<1>6. CASE s # "at_most_once"
  <2>1. \A v \in Works : invoked'[v]["at_most_once"] = invoked[v]["at_most_once"]
    BY <1>4, <1>6
  <2>2. EnteredIsHeld' /\ AtMostOnce'
    BY <1>2, <2>1 DEF EnteredIsHeld, AtMostOnce
  <2>3. BusyIsHeld' /\ BusyIsAlone'
    BY <1>2, <1>3 DEF BusyIsHeld, BusyIsAlone
  <2>4. AdmittedIsNew'
    BY <1>1, <1>3, <2>1 DEF AdmittedIsNew
  <2>5. QED
    BY <2>2, <2>3, <2>4
<1>7. QED
  BY <1>5, <1>6

LEMMA InductiveIInv == IInv /\ [Next]_vars => IInv'
<1> SUFFICES ASSUME IInv, [Next]_vars PROVE IInv'
  OBVIOUS
<1> USE AskedAssumption
<1>0. TypeOK /\ TypeOK' /\ \A v \in Works : Held(v) => Held(v)'
  BY TypeInvariant, HeldStays DEF IInv
<1>1. CASE Restart
  BY <1>0, <1>1, QuietKeeps DEF Restart, Quiet, Busy
<1>2. CASE UNCHANGED vars
  BY <1>0, <1>2, QuietKeeps DEF vars, Quiet, Busy
<1>3. ASSUME NEW t \in Threads, ThreadStep(t)
      PROVE  IInv'
  <2>1. ASSUME NEW w \in Works, NEW request \in Asked[w], NEW probe \in BOOLEAN,
               Redeliver(t, w, request, probe) \/ Refuse(t, w, request, probe)
        PROVE  IInv'
    BY <1>0, <2>1, QuietKeeps DEF Redeliver, Refuse, Quiet, Busy
  <2>2. ASSUME NEW w \in Works, NEW request \in Asked[w], NEW write \in Writes,
               Admit(t, w, request, write)
        PROVE  IInv'
    BY <1>0, <2>2, AdmitKeeps
  <2>3. CASE Invoke(t)
    BY <1>0, <2>3, InvokeKeeps
  <2>4. ASSUME NEW outcome \in {"COMPLETED", "FAILED"}, NEW write \in Writes,
               NEW delivered \in BOOLEAN,
               Finish(t, outcome, write, delivered)
        PROVE  IInv'
    <3>1. Quiet
      BY <1>0, <2>4 DEF Finish, Leave, Quiet, Busy, TypeOK
    <3>2. QED
      BY <1>0, <3>1, QuietKeeps
  <2>5. ASSUME NEW w \in Works, NEW write \in Writes,
               StopRecorded(t, w) \/ StopUnrecorded(t, w, write)
        PROVE  IInv'
    BY <1>0, <2>5, QuietKeeps DEF StopRecorded, StopUnrecorded, Quiet, Busy
  <2>6. QED
    BY <1>3, <2>1, <2>2, <2>3, <2>4, <2>5 DEF ThreadStep, Writes
<1>4. QED
  BY <1>1, <1>2, <1>3 DEF Next

LEMMA InitIInv == Init => IInv
<1> SUFFICES ASSUME Init PROVE IInv
  OBVIOUS
<1>1. TypeOK
  BY RecordTypes DEF Init, TypeOK
<1>2. \A w \in Works : invoked[w]["at_most_once"] = 0
  BY DEF Init, Semantics
<1>3. \A t \in Threads : pc[t] = "idle"
  BY DEF Init
<1>4. QED
  BY <1>1, <1>2, <1>3
  DEF IInv, EnteredIsHeld, BusyIsHeld, BusyIsAlone, AdmittedIsNew, AtMostOnce, Busy

\* The handler of an at-most-once work is entered at most once, through any
\* number of threads, redeliveries, cancellations, lost writes and restarts
\* (service.py execute_workload, stop_workload).
THEOREM HandlerAtMostOnce == Spec => []AtMostOnce
<1>1. IInv => AtMostOnce
  BY DEF IInv
<1>2. QED
  BY <1>1, InitIInv, InductiveIInv, PTL DEF Spec

-----------------------------------------------------------------------------
(* One outcome, for works only asked for with at-most-once delivery. *)

\* Such a work is worked on by busy threads only.
LEMMA GuardedJobs ==
  ASSUME GInv, NEW t \in Threads, NEW w \in Guarded, pc[t] # "idle", job[t].work = w
  PROVE  Busy(t, w)
BY DEF GInv, JobsAsked, Guarded, Busy

\* What GInv says of one guarded work, in terms of its two records.
Sound(w) ==
  /\ \A t \in Threads : Busy(t, w) => Agreed(w, "EXECUTING", job[t].request)
  /\ \A a \in answers[w] :
       /\ cache[w].state = a.state /\ journal[w].state = a.state
       /\ a.asked \in Requests =>
            cache[w].request = a.asked /\ journal[w].request = a.asked
  /\ invoked[w]["at_most_once"] > 0 =>
       cache[w].state # "CANCELLED" /\ journal[w].state # "CANCELLED"

LEMMA GInvIsSound == GInv <=> IInv /\ JobsAsked /\ \A w \in Guarded : Sound(w)
BY DEF GInv, BusyIsExecuting, AnswersAgreed, EnteredNotCancelled, Sound

\* A thread works on a sound work only while both copies say EXECUTING.
LEMMA BusyOnlyExecuting ==
  ASSUME NEW w \in Works, Sound(w),
         cache[w].state # "EXECUTING" \/ journal[w].state # "EXECUTING"
  PROVE  \A t \in Threads : ~Busy(t, w)
<1> SUFFICES ASSUME NEW t \in Threads, Busy(t, w) PROVE FALSE
  OBVIOUS
<1>1. Agreed(w, "EXECUTING", job[t].request)
  BY DEF Sound
<1>2. QED
  BY <1>1 DEF Agreed

\* A step that leaves w's answers, threads and invocations alone and makes
\* its records copies of one another or of themselves keeps w sound.
Untouched(w) ==
  /\ answers'[w] = answers[w]
  /\ invoked'[w]["at_most_once"] = invoked[w]["at_most_once"]
  /\ \A t \in Threads : Busy(t, w)' => Busy(t, w) /\ job'[t] = job[t]
  /\ cache'[w] \in {cache[w], journal[w]}
  /\ journal'[w] \in {cache[w], journal[w]}

LEMMA UntouchedSound ==
  ASSUME NEW w \in Works, Sound(w), Untouched(w)
  PROVE  Sound(w)'
BY DEF Sound, Untouched, Agreed

\* What publishing w's record does to each record.
LEMMA PublishRecords ==
  ASSUME TypeOK, NEW base \in {cache, journal}, NEW w \in Works, NEW rec,
         NEW write \in Writes, Publish(base, w, rec, write)
  PROVE  /\ \A v \in Works : v # w =>
              cache'[v] \in {cache[v], journal[v]} /\ journal'[v] \in {cache[v], journal[v]}
         /\ cache'[w] \in {cache[w], journal[w], rec}
         /\ journal'[w] \in {journal[w], rec}
         /\ write = "ok" => cache'[w] = rec /\ journal'[w] = rec
BY DEF TypeOK, Publish, Writes

\* An answer given for w adds itself to the answers of w only.
LEMMA TellAnswers ==
  ASSUME TypeOK, NEW w \in Works, NEW asked, NEW state, Tell(w, asked, state)
  PROVE  /\ \A v \in Works : v # w => answers'[v] = answers[v]
         /\ answers'[w] = answers[w] \cup {[asked |-> asked, state |-> state]}
BY DEF TypeOK, Tell

\* Admitting a guarded work: nothing was answered or entered for it.
LEMMA AdmitSound ==
  ASSUME GInv, NEW t \in Threads, NEW w \in Works, NEW request \in Asked[w],
         NEW write \in Writes, Admit(t, w, request, write), NEW v \in Guarded
  PROVE  Sound(v)'
<1> USE AskedAssumption
<1>0. v \in Works /\ TypeOK /\ IInv /\ Sound(v)
  BY GInvIsSound DEF IInv, Guarded
<1>1. CASE v # w
  <2>1. \A u \in Threads : Busy(u, v)' => Busy(u, v) /\ job'[u] = job[u]
    BY <1>0, <1>1 DEF Admit, Work, Busy, TypeOK
  <2>2. /\ cache'[v] \in {cache[v], journal[v]}
        /\ journal'[v] \in {cache[v], journal[v]}
    <3>1. CASE AtMostOnceRequest(request)
      BY <1>0, <1>1, <3>1, PublishRecords DEF Admit
    <3>2. CASE ~AtMostOnceRequest(request)
      BY <3>2 DEF Admit
    <3>3. QED
      BY <3>1, <3>2
  <2>3. Untouched(v)
    BY <2>1, <2>2 DEF Untouched, Admit
  <2>4. QED
    BY <1>0, <2>3, UntouchedSound
<1>2. CASE v = w
  <2>1. AtMostOnceRequest(request)
    BY <1>2 DEF Guarded
  <2>2. journal[w].state = "ABSENT" /\ pc[t] = "idle"
    BY DEF Admit
  <2>3. answers[w] = {}
    BY <1>0, <1>2, <2>2 DEF Sound, TypeOK, Answers, Terminal
  <2>4. \A u \in Threads : ~Busy(u, w)
    BY <1>0, <2>2 DEF IInv, BusyIsHeld, Held
  <2>5. invoked[w]["at_most_once"] = 0
    BY <1>0, <1>2, <2>2 DEF IInv, EnteredIsHeld, Held, TypeOK, Semantics
  <2>6. answers'[w] = {} /\ invoked'[w]["at_most_once"] = 0
    BY <2>3, <2>5 DEF Admit
  <2>7. CASE write = "ok"
    <3>1. Agreed(w, "EXECUTING", request)'
      BY <1>0, <1>2, <2>1, <2>7 DEF Admit, Publish, Agreed, TypeOK
    <3>2. \A u \in Threads : Busy(u, w)' => u = t /\ job'[u].request = request
      BY <1>0, <2>4, <2>7 DEF Admit, Work, Busy, TypeOK
    <3>3. QED
      BY <1>2, <2>6, <3>1, <3>2 DEF Sound, Agreed
  <2>8. CASE write # "ok"
    <3>1. \A u \in Threads : ~Busy(u, w)'
      BY <2>4, <2>8 DEF Admit, Busy
    <3>2. QED
      BY <1>2, <2>6, <3>1 DEF Sound
  <2>9. QED
    BY <2>7, <2>8
<1>3. QED
  BY <1>1, <1>2

\* Finishing a guarded work: only its one busy thread does, while both copies
\* say EXECUTING and nothing was answered.
LEMMA FinishSound ==
  ASSUME GInv, NEW t \in Threads, NEW outcome \in {"COMPLETED", "FAILED"},
         NEW write \in Writes, NEW delivered \in BOOLEAN,
         Finish(t, outcome, write, delivered), NEW v \in Guarded
  PROVE  Sound(v)'
<1>a. v \in Works /\ TypeOK /\ IInv /\ Sound(v) /\ pc[t] # "idle"
  BY GInvIsSound DEF IInv, Guarded, Finish
<1>b. PICK w \in Works, request \in Requests : job[t] = [work |-> w, request |-> request]
  BY <1>a DEF TypeOK, Jobs
<1>0. /\ v \in Works /\ TypeOK /\ IInv /\ Sound(v) /\ pc[t] # "idle"
      /\ job[t].work = w /\ job[t].request = request
  BY <1>a, <1>b
<1>1. CASE v # w
  <2>1. \A u \in Threads : Busy(u, v)' => Busy(u, v) /\ job'[u] = job[u]
    BY <1>0, <1>1 DEF Finish, Leave, Busy, TypeOK
  <2>2. /\ cache'[v] \in {cache[v], journal[v]}
        /\ journal'[v] \in {cache[v], journal[v]}
    BY <1>0, <1>1, PublishRecords DEF Finish
  <2>3. answers'[v] = answers[v]
    BY <1>0, <1>1, TellAnswers DEF Finish
  <2>4. Untouched(v)
    BY <2>1, <2>2, <2>3 DEF Untouched, Finish
  <2>5. QED
    BY <1>0, <2>4, UntouchedSound
<1>2. CASE v = w
  <2>1. Busy(t, w) /\ Agreed(w, "EXECUTING", request)
    BY <1>0, <1>2, GuardedJobs DEF Sound
  <2>2. answers[w] = {}
    BY <1>0, <1>2, <2>1 DEF Sound, Agreed, TypeOK, Answers, Terminal
  <2>3. \A u \in Threads : ~Busy(u, w)'
    BY <1>0, <2>1 DEF IInv, BusyIsAlone, Finish, Leave, Busy, TypeOK
  <2>4. /\ cache'[w].state # "CANCELLED" /\ journal'[w].state # "CANCELLED"
    BY <1>0, <2>1, PublishRecords DEF Finish, Agreed
  <2>5. CASE write = "ok" /\ delivered
    <3>1. answers'[w] = {[asked |-> request, state |-> outcome]}
      BY <1>0, <2>2, <2>5, TellAnswers DEF Finish
    <3>2. Agreed(w, outcome, request)'
      BY <1>0, <2>5, PublishRecords DEF Finish, Agreed
    <3>3. QED
      BY <1>2, <2>3, <2>4, <3>1, <3>2 DEF Sound, Agreed
  <2>6. CASE ~(write = "ok" /\ delivered)
    <3>1. answers'[w] = {}
      BY <2>2, <2>6 DEF Finish
    <3>2. QED
      BY <1>2, <2>3, <2>4, <3>1 DEF Sound
  <2>7. QED
    BY <2>5, <2>6
<1>3. QED
  BY <1>1, <1>2

\* Cancelling a guarded work that has no record: nothing was answered or
\* entered for it and no thread works on it.
LEMMA StopSound ==
  ASSUME GInv, NEW t \in Threads, NEW w \in Works, NEW write \in Writes,
         StopUnrecorded(t, w, write), NEW v \in Guarded
  PROVE  Sound(v)'
<1> DEFINE rec == [state |-> "CANCELLED", request |-> NoRequest]
<1>0. /\ v \in Works /\ TypeOK /\ IInv /\ Sound(v)
      /\ pc' = pc /\ job' = job /\ invoked' = invoked
      /\ journal[w].state = "ABSENT" /\ Publish(journal, w, rec, write)
  BY GInvIsSound DEF IInv, Guarded, StopUnrecorded
<1>1. CASE v # w
  <2>1. \A u \in Threads : Busy(u, v)' => Busy(u, v) /\ job'[u] = job[u]
    BY <1>0 DEF Busy
  <2>2. /\ cache'[v] \in {cache[v], journal[v]}
        /\ journal'[v] \in {cache[v], journal[v]}
    BY <1>0, <1>1, PublishRecords
  <2>3. answers'[v] = answers[v]
    BY <1>0, <1>1, TellAnswers DEF StopUnrecorded
  <2>4. Untouched(v)
    BY <1>0, <2>1, <2>2, <2>3 DEF Untouched
  <2>5. QED
    BY <1>0, <2>4, UntouchedSound
<1>2. CASE v = w
  <2>1. answers[w] = {}
    BY <1>0, <1>2 DEF Sound, TypeOK, Answers, Terminal
  <2>2. \A u \in Threads : ~Busy(u, w)'
    <3>1. \A u \in Threads : ~Busy(u, w)
      BY <1>0 DEF IInv, BusyIsHeld, Held
    <3>2. QED
      BY <1>0, <3>1 DEF Busy
  <2>3. invoked'[w]["at_most_once"] = 0
    BY <1>0 DEF IInv, EnteredIsHeld, Held, TypeOK, Semantics
  <2>4. CASE write = "ok"
    <3>1. answers'[w] = {[asked |-> NoRequest, state |-> "CANCELLED"]}
      BY <1>0, <2>1, <2>4, TellAnswers DEF StopUnrecorded
    <3>2. cache'[w] = rec /\ journal'[w] = rec
      BY <1>0, <2>4, PublishRecords
    <3>3. QED
      BY <1>2, <2>2, <2>3, <3>1, <3>2, RecordTypes DEF Sound
  <2>5. CASE write # "ok"
    <3>1. answers'[w] = {}
      BY <2>1, <2>5 DEF StopUnrecorded
    <3>2. QED
      BY <1>2, <2>2, <2>3, <3>1 DEF Sound
  <2>6. QED
    BY <2>4, <2>5
<1>3. QED
  BY <1>1, <1>2

\* Answering from the record on file: the answer is what both copies say.
LEMMA AnswerSound ==
  ASSUME GInv, NEW w \in Works, NEW asked, journal[w].state \in Terminal,
         asked \in Requests => journal[w].request = asked,
         Tell(w, asked, journal[w].state),
         cache' = journal, UNCHANGED <<journal, pc, job, invoked>>, NEW v \in Guarded
  PROVE  Sound(v)'
<1>0. v \in Works /\ TypeOK /\ Sound(v)
  BY GInvIsSound DEF IInv, Guarded
<1>1. \A u \in Threads : Busy(u, v)' => Busy(u, v) /\ job'[u] = job[u]
  BY DEF Busy
<1>2. CASE v # w
  BY <1>0, <1>1, <1>2, TellAnswers, UntouchedSound DEF Untouched
<1>3. CASE v = w
  <2>1. answers'[w] = answers[w] \cup {[asked |-> asked, state |-> journal[w].state]}
    BY <1>0, TellAnswers
  <2>2. \A u \in Threads : ~Busy(u, w)
    BY <1>0, <1>3, BusyOnlyExecuting DEF Terminal
  <2>3. QED
    BY <1>0, <1>1, <1>3, <2>1, <2>2 DEF Sound
<1>4. QED
  BY <1>2, <1>3

\* Entering the handler of a guarded work: both copies say EXECUTING.
LEMMA InvokeSound ==
  ASSUME GInv, NEW t \in Threads, Invoke(t), NEW v \in Guarded
  PROVE  Sound(v)'
<1>0. /\ v \in Works /\ TypeOK /\ Sound(v)
      /\ job' = job /\ cache' = cache /\ journal' = journal /\ answers' = answers
      /\ pc[t] = "admitted"
  BY GInvIsSound DEF IInv, Guarded, Invoke
<1>1. \A u \in Threads : Busy(u, v)' => Busy(u, v) /\ job'[u] = job[u]
  BY <1>0 DEF Invoke, Busy, TypeOK
<1>2. CASE job[t].work = v
  <2>1. Agreed(v, "EXECUTING", job[t].request)
    BY <1>0, <1>2, GuardedJobs DEF Sound
  <2>2. QED
    BY <1>0, <1>1, <2>1 DEF Sound, Agreed
<1>3. CASE job[t].work # v
  <2>1. invoked'[v] = invoked[v]
    BY <1>0, <1>3 DEF Invoke, TypeOK
  <2>2. QED
    BY <1>0, <1>1, <2>1, UntouchedSound DEF Untouched
<1>4. QED
  BY <1>2, <1>3

\* Every job is of a request its work is asked with.
LEMMA JobsStayAsked ==
  ASSUME TypeOK, JobsAsked, [Next]_vars
  PROVE  JobsAsked'
<1> USE AskedAssumption DEF TypeOK, JobsAsked
<1>1. CASE Restart
  BY <1>1 DEF Restart
<1>2. CASE UNCHANGED vars
  BY <1>2 DEF vars
<1>3. ASSUME NEW t \in Threads, ThreadStep(t)
      PROVE  JobsAsked'
  <2>1. ASSUME NEW w \in Works, NEW request \in Asked[w], NEW write \in Writes,
               Admit(t, w, request, write)
        PROVE  JobsAsked'
    BY <2>1 DEF Admit, Work
  <2>2. CASE Invoke(t)
    BY <2>2 DEF Invoke
  <2>3. CASE Leave(t)
    BY <2>3 DEF Leave
  <2>4. CASE UNCHANGED <<pc, job>>
    BY <2>4
  <2>5. QED
    BY <1>3, <2>1, <2>2, <2>3, <2>4
    DEF ThreadStep, Redeliver, Refuse, Finish, StopRecorded, StopUnrecorded
<1>4. QED
  BY <1>1, <1>2, <1>3 DEF Next

LEMMA InductiveGInv == GInv /\ [Next]_vars => GInv'
<1> SUFFICES ASSUME GInv, [Next]_vars PROVE GInv'
  OBVIOUS
<1> USE AskedAssumption
<1>0. TypeOK /\ IInv /\ JobsAsked /\ Guarded \subseteq Works
  BY DEF GInv, IInv, Guarded
<1>1. IInv' /\ JobsAsked'
  BY <1>0, InductiveIInv, JobsStayAsked
<1>2. ASSUME NEW v \in Guarded PROVE Sound(v)'
  <2>0. v \in Works /\ Sound(v)
    BY <1>0, GInvIsSound
  <2>1. CASE Restart \/ UNCHANGED vars
    BY <2>0, <2>1, UntouchedSound DEF Restart, vars, Untouched, Busy
  <2>2. ASSUME NEW t \in Threads, ThreadStep(t)
        PROVE  Sound(v)'
    <3>1. ASSUME NEW w \in Works, NEW request \in Asked[w], NEW probe \in BOOLEAN,
                 Redeliver(t, w, request, probe)
          PROVE  Sound(v)'
      <4>1. CASE journal[w].state = "EXECUTING"
        BY <2>0, <3>1, <4>1, UntouchedSound DEF Redeliver, Untouched, Busy
      <4>2. CASE journal[w].state # "EXECUTING"
        <5>1. journal[w].state \in Terminal
          BY <1>0, <3>1, <4>2, TerminalRecord DEF TypeOK, Redeliver
        <5>2. CASE w = v
          <6>1. journal[w].request = request
            BY <3>1, <5>2 DEF Redeliver, BindingRefused, Guarded
          <6>2. QED
            BY <3>1, <4>2, <5>1, <6>1, AnswerSound DEF Redeliver
        <5>3. CASE w # v
          <6>1. answers'[v] = answers[v]
            BY <1>0, <2>0, <3>1, <4>2, <5>3, TellAnswers DEF Redeliver
          <6>2. QED
            BY <2>0, <3>1, <6>1, UntouchedSound DEF Redeliver, Untouched, Busy
        <5>4. QED
          BY <5>2, <5>3
      <4>3. QED
        BY <4>1, <4>2
    <3>2. ASSUME NEW w \in Works, NEW request \in Asked[w], NEW probe \in BOOLEAN,
                 Refuse(t, w, request, probe)
          PROVE  Sound(v)'
      BY <2>0, <3>2, UntouchedSound DEF Refuse, Untouched, Busy
    <3>3. ASSUME NEW w \in Works, NEW request \in Asked[w], NEW write \in Writes,
                 Admit(t, w, request, write)
          PROVE  Sound(v)'
      BY <3>3, AdmitSound
    <3>4. CASE Invoke(t)
      BY <3>4, InvokeSound
    <3>5. ASSUME NEW outcome \in {"COMPLETED", "FAILED"}, NEW write \in Writes,
                 NEW delivered \in BOOLEAN,
                 Finish(t, outcome, write, delivered)
          PROVE  Sound(v)'
      BY <3>5, FinishSound
    <3>6. ASSUME NEW w \in Works, StopRecorded(t, w)
          PROVE  Sound(v)'
      <4>1. CASE journal[w].state = "EXECUTING"
        BY <2>0, <3>6, <4>1, UntouchedSound DEF StopRecorded, Untouched, Busy
      <4>2. CASE journal[w].state # "EXECUTING"
        <5>1. journal[w].state \in Terminal
          BY <1>0, <3>6, <4>2, TerminalRecord DEF TypeOK, StopRecorded
        <5>2. QED
          BY <3>6, <4>2, <5>1, AnswerSound, RecordTypes DEF StopRecorded
      <4>3. QED
        BY <4>1, <4>2
    <3>7. ASSUME NEW w \in Works, NEW write \in Writes, StopUnrecorded(t, w, write)
          PROVE  Sound(v)'
      BY <3>7, StopSound
    <3>8. QED
      BY <2>2, <3>1, <3>2, <3>3, <3>4, <3>5, <3>6, <3>7 DEF ThreadStep
  <2>3. QED
    BY <2>1, <2>2 DEF Next
<1>3. QED
  BY <1>1, <1>2 DEF GInv, BusyIsExecuting, AnswersAgreed, EnteredNotCancelled, Sound

LEMMA InitGInv == Init => GInv
<1> SUFFICES ASSUME Init PROVE GInv
  OBVIOUS
<1>1. /\ \A w \in Works : invoked[w]["at_most_once"] = 0 /\ answers[w] = {}
      /\ \A t \in Threads : pc[t] = "idle"
  BY DEF Init, Semantics
<1>2. QED
  BY <1>1, InitIInv
  DEF GInv, JobsAsked, BusyIsExecuting, AnswersAgreed, EnteredNotCancelled, Busy, Guarded

\* Every two terminal answers given for an at-most-once work agree
\* (service.py execute_workload, stop_workload).
THEOREM AnswersAgree == Spec => []OneOutcome
<1>1. GInv => OneOutcome
  BY DEF GInv, AnswersAgreed, OneOutcome
<1>2. QED
  BY <1>1, InitGInv, InductiveGInv, PTL DEF Spec

\* A request receives the result of an at-most-once work only if it is the
\* request that was executed (service.py, the request digest).
THEOREM AnswersBound == Spec => []OneBinding
<1>1. GInv => OneBinding
  BY DEF GInv, AnswersAgreed, OneBinding
<1>2. QED
  BY <1>1, InitGInv, InductiveGInv, PTL DEF Spec

\* A reported cancellation of an at-most-once work was before its start and
\* is final (service.py stop_workload).
THEOREM CancelledIsFinal == Spec => []CancelledNeverRuns
<1>1. GInv => CancelledNeverRuns
  <2> SUFFICES ASSUME GInv, NEW w \in Guarded, NEW a \in answers[w],
                      a.state = "CANCELLED"
               PROVE  /\ invoked[w]["at_most_once"] = 0
                      /\ \A t \in Threads : pc[t] # "idle" => job[t].work # w
    BY DEF CancelledNeverRuns
  <2>0. w \in Works /\ Sound(w) /\ TypeOK
    BY GInvIsSound DEF Guarded, IInv
  <2>1. cache[w].state = "CANCELLED"
    BY <2>0 DEF Sound
  <2>2. invoked[w]["at_most_once"] = 0
    BY <2>0, <2>1 DEF Sound, TypeOK, Semantics
  <2>3. \A t \in Threads : ~Busy(t, w)
    BY <2>0, <2>1, BusyOnlyExecuting
  <2>4. QED
    BY <2>2, <2>3, GuardedJobs
<1>2. QED
  BY <1>1, InitGInv, InductiveGInv, PTL DEF Spec

-----------------------------------------------------------------------------
(* The node implements OneExecution. *)

\* The handler of w, delivered at-most-once, was entered.
Entered(w) == invoked[w]["at_most_once"] > 0

RunningIsEntered ==
  \A t \in Threads, w \in Guarded : Busy(t, w) /\ pc[t] = "running" => Entered(w)
CompletedIsEntered ==
  \A w \in Guarded : "COMPLETED" \in {cache[w].state, journal[w].state} => Entered(w)

XInv ==
  /\ GInv
  /\ RunningIsEntered
  /\ CompletedIsEntered

\* The only steps that enter a handler, or tell a caller something, and what
\* the others leave alone.
LEMMA StepCases ==
  ASSUME TypeOK, [Next]_vars
  PROVE  \/ \E t \in Threads : Invoke(t)
         \/ UNCHANGED invoked /\ \/ UNCHANGED answers
                                 \/ \E w \in Works, asked \in Requests \cup {NoRequest},
                                       state \in Terminal : Tell(w, asked, state)
<1> USE AskedAssumption
<1>1. CASE Restart \/ UNCHANGED vars
  BY <1>1 DEF Restart, vars
<1>2. ASSUME NEW t \in Threads, ThreadStep(t), ~Invoke(t)
      PROVE  UNCHANGED invoked /\ \/ UNCHANGED answers
                                  \/ \E w \in Works, asked \in Requests \cup {NoRequest},
                                        state \in Terminal : Tell(w, asked, state)
  <2>1. ASSUME NEW w \in Works, journal[w].state # "ABSENT",
               journal[w].state # "EXECUTING"
        PROVE  journal[w].state \in Terminal
    BY <2>1, TerminalRecord DEF TypeOK
  <2>2. ASSUME NEW w \in Works, NEW request \in Asked[w], NEW probe \in BOOLEAN,
               Redeliver(t, w, request, probe)
        PROVE  UNCHANGED invoked /\ \/ UNCHANGED answers
                                    \/ /\ request \in Requests
                                       /\ journal[w].state \in Terminal
                                       /\ Tell(w, request, journal[w].state)
    BY <2>1, <2>2 DEF Redeliver
  <2>3. ASSUME NEW w \in Works, StopRecorded(t, w)
        PROVE  UNCHANGED invoked /\ \/ UNCHANGED answers
                                    \/ /\ journal[w].state \in Terminal
                                       /\ Tell(w, NoRequest, journal[w].state)
    BY <2>1, <2>3 DEF StopRecorded
  <2>4. ASSUME NEW outcome \in {"COMPLETED", "FAILED"}, NEW write \in Writes,
               NEW delivered \in BOOLEAN, Finish(t, outcome, write, delivered)
        PROVE  UNCHANGED invoked /\ \/ UNCHANGED answers
                                    \/ /\ job[t] \in Jobs /\ outcome \in Terminal
                                       /\ Tell(job[t].work, job[t].request, outcome)
    BY <2>4 DEF Finish, TypeOK, Terminal
  <2>5. ASSUME NEW w \in Works, NEW write \in Writes, StopUnrecorded(t, w, write)
        PROVE  UNCHANGED invoked /\ \/ UNCHANGED answers
                                    \/ "CANCELLED" \in Terminal /\ Tell(w, NoRequest, "CANCELLED")
    BY <2>5 DEF StopUnrecorded, Terminal
  <2>6. CASE \E w \in Works : \E request \in Asked[w] :
               \/ \E probe \in BOOLEAN : Refuse(t, w, request, probe)
               \/ \E write \in Writes : Admit(t, w, request, write)
    BY <2>6 DEF Refuse, Admit
  <2>7. CASE \E outcome \in {"COMPLETED", "FAILED"}, write \in Writes, delivered \in BOOLEAN :
               Finish(t, outcome, write, delivered)
    BY <2>4, <2>7 DEF Jobs
  <2>8. CASE \E w \in Works : \E request \in Asked[w], probe \in BOOLEAN :
               Redeliver(t, w, request, probe)
    BY <2>2, <2>8
  <2>9. QED
    BY <1>2, <2>3, <2>5, <2>6, <2>7, <2>8 DEF ThreadStep
<1>3. QED
  BY <1>1, <1>2 DEF Next

\* No step takes an entry back, and Invoke makes one.
LEMMA EnteredStays ==
  ASSUME TypeOK, [Next]_vars, NEW w \in Works
  PROVE  /\ Entered(w) => Entered(w)'
         /\ \A t \in Threads : Busy(t, w) /\ Invoke(t) => Entered(w)'
<1>1. ASSUME NEW t \in Threads, Invoke(t)
      PROVE  /\ Entered(w) => Entered(w)'
             /\ Busy(t, w) => Entered(w)'
  BY <1>1 DEF Invoke, Busy, Entered, TypeOK, AtMostOnceRequest, Semantics
<1>2. QED
  BY <1>1, StepCases DEF Entered, Invoke

\* A copy of a guarded work's record says COMPLETED only if one did before or
\* a thread that ran its handler says so.
LEMMA CompletedByRunner ==
  ASSUME GInv, [Next]_vars, NEW w \in Guarded,
         "COMPLETED" \in {cache'[w].state, journal'[w].state}
  PROVE  \/ "COMPLETED" \in {cache[w].state, journal[w].state}
         \/ \E t \in Threads : Busy(t, w) /\ pc[t] = "running"
<1> USE AskedAssumption
<1>0. TypeOK /\ w \in Works
  BY DEF GInv, IInv, Guarded
<1>1. CASE Restart \/ UNCHANGED vars
  BY <1>1 DEF Restart, vars
<1>2. ASSUME NEW t \in Threads, ThreadStep(t)
      PROVE  \/ "COMPLETED" \in {cache[w].state, journal[w].state}
             \/ \E u \in Threads : Busy(u, w) /\ pc[u] = "running"
  <2>1. ASSUME NEW v \in Works, NEW request \in Asked[v], NEW write \in Writes,
               Admit(t, v, request, write)
        PROVE  "COMPLETED" \in {cache[w].state, journal[w].state}
    <3>1. CASE AtMostOnceRequest(request)
      BY <1>0, <2>1, <3>1, PublishRecords DEF Admit, TypeOK
    <3>2. CASE ~AtMostOnceRequest(request)
      BY <2>1, <3>2 DEF Admit
    <3>3. QED
      BY <3>1, <3>2
  <2>2. ASSUME NEW v \in Works, NEW write \in Writes, StopUnrecorded(t, v, write)
        PROVE  "COMPLETED" \in {cache[w].state, journal[w].state}
    BY <1>0, <2>2 DEF StopUnrecorded, Publish, TypeOK
  <2>3. ASSUME NEW outcome \in {"COMPLETED", "FAILED"}, NEW write \in Writes,
               NEW delivered \in BOOLEAN, Finish(t, outcome, write, delivered),
               "COMPLETED" \notin {cache[w].state, journal[w].state}
        PROVE  Busy(t, w) /\ pc[t] = "running"
    <3>1. outcome = "COMPLETED" /\ job[t].work = w
      BY <1>0, <2>3 DEF Finish, Publish, TypeOK, Jobs
    <3>2. pc[t] = "running"
      BY <2>3, <3>1 DEF Finish
    <3>3. QED
      BY <3>1, <3>2, GuardedJobs
  <2>4. CASE UNCHANGED journal /\ (cache' = journal \/ UNCHANGED cache)
    BY <2>4
  <2>5. QED
    BY <1>2, <2>1, <2>2, <2>3, <2>4
    DEF ThreadStep, Redeliver, Refuse, Invoke, StopRecorded
<1>3. QED
  BY <1>1, <1>2 DEF Next

LEMMA InductiveXInv == XInv /\ [Next]_vars => XInv'
<1> SUFFICES ASSUME XInv, [Next]_vars PROVE XInv'
  OBVIOUS
<1>0. GInv /\ TypeOK /\ Guarded \subseteq Works
  BY DEF XInv, GInv, IInv, Guarded
<1>1. GInv' /\ TypeOK'
  BY <1>0, InductiveGInv DEF GInv, IInv
<1>2. RunningIsEntered'
  <2> SUFFICES ASSUME NEW t \in Threads, NEW w \in Guarded, Busy(t, w)', pc'[t] = "running"
               PROVE  Entered(w)'
    BY DEF RunningIsEntered
  <2>1. Busy(t, w) /\ (pc[t] = "running" \/ Invoke(t))
    <3>1. CASE Restart \/ UNCHANGED vars
      BY <3>1 DEF Restart, vars, Busy
    <3>2. ASSUME NEW u \in Threads, ThreadStep(u)
          PROVE  Busy(t, w) /\ (pc[t] = "running" \/ Invoke(t))
      <4>1. ASSUME NEW v \in Works, NEW request \in Asked[v], NEW write \in Writes,
                   Admit(u, v, request, write)
            PROVE  Busy(t, w) /\ pc[t] = "running"
        BY <1>0, <4>1 DEF Admit, Work, Busy, TypeOK
      <4>2. CASE Invoke(u)
        BY <1>0, <4>2 DEF Invoke, Busy, TypeOK
      <4>3. CASE Leave(u)
        BY <1>0, <4>3 DEF Leave, Busy, TypeOK
      <4>4. CASE UNCHANGED <<pc, job>>
        BY <4>4 DEF Busy
      <4>5. QED
        BY <3>2, <4>1, <4>2, <4>3, <4>4
        DEF ThreadStep, Redeliver, Refuse, Finish, StopRecorded, StopUnrecorded
    <3>3. QED
      BY <3>1, <3>2 DEF Next
  <2>2. QED
    BY <1>0, <2>1, EnteredStays DEF XInv, RunningIsEntered
<1>3. CompletedIsEntered'
  <2> SUFFICES ASSUME NEW w \in Guarded,
                      "COMPLETED" \in {cache'[w].state, journal'[w].state}
               PROVE  Entered(w)'
    BY DEF CompletedIsEntered
  <2>1. Entered(w)
    BY <1>0, CompletedByRunner DEF XInv, RunningIsEntered, CompletedIsEntered
  <2>2. QED
    BY <1>0, <2>1, EnteredStays
<1>4. QED
  BY <1>1, <1>2, <1>3 DEF XInv

LEMMA InitXInv == Init => XInv
<1> SUFFICES ASSUME Init PROVE XInv
  OBVIOUS
<1>1. /\ \A w \in Works : cache[w].state = "ABSENT" /\ journal[w].state = "ABSENT"
      /\ \A t \in Threads : pc[t] = "idle"
  BY DEF Init, Absent
<1>2. QED
  BY <1>1, InitGInv DEF XInv, RunningIsEntered, CompletedIsEntered, Guarded

\* What was reported of a guarded work is the state of every answer.
LEMMA ReportedState ==
  ASSUME GInv, NEW w \in Guarded
  PROVE  /\ answers[w] = {} => Reported(answers[w]) = "none"
         /\ \A a \in answers[w] : Reported(answers[w]) = a.state /\ a.state \in Terminal
<1>1. answers[w] \subseteq Answers
  BY DEF GInv, IInv, TypeOK, Guarded
<1>2. \A a, b \in answers[w] : a.state = b.state
  BY DEF GInv, AnswersAgreed
<1>3. QED
  BY <1>1, <1>2 DEF Reported, Answers

\* A work whose handler is admitted has not been reported, nor entered.
LEMMA InvokeEnters ==
  ASSUME XInv, NEW t \in Threads, Invoke(t), NEW w \in Works, job[t].work = w
  PROVE  [Execution!ExecutionNext]_(Execution!executionVars)
<1>0. GInv /\ IInv /\ TypeOK /\ job[t] \in Jobs /\ pc[t] = "admitted"
  BY DEF XInv, GInv, IInv, Invoke, TypeOK
<1> DEFINE s == job[t].request.semantics
<1>1. /\ s \in Semantics /\ UNCHANGED answers
      /\ invoked' = [invoked EXCEPT ![w][s] = @ + 1]
  BY <1>0 DEF Invoke, Jobs, Requests
<1>2. \A v \in Guarded : v # w => (Entered(v)' <=> Entered(v))
  BY <1>0, <1>1 DEF Entered, Guarded, TypeOK
<1>3. \A v \in Guarded : Reported(answers'[v]) = Reported(answers[v])
  BY <1>1
<1>4. CASE w \in Guarded
  <2>1. Busy(t, w)
    BY <1>0, <1>4, GuardedJobs
  <2>2. ~Entered(w)
    BY <1>0, <1>1, <2>1 DEF IInv, AdmittedIsNew, Entered, TypeOK, Semantics
  <2>3. answers[w] = {}
    <3>1. cache[w].state = "EXECUTING"
      <4>1. Agreed(w, "EXECUTING", job[t].request)
        BY <1>0, <1>4, <2>1 DEF GInv, BusyIsExecuting
      <4>2. QED
        BY <4>1 DEF Agreed
    <3>2. \A a \in answers[w] : a.state = "EXECUTING" /\ a.state \in Terminal
      BY <1>0, <1>4, <3>1, ReportedState DEF GInv, AnswersAgreed
    <3>3. QED
      BY <3>2 DEF Terminal
  <2>4. Entered(w)' /\ Reported(answers[w]) = "none"
    <3>1. Next
      BY DEF Next, ThreadStep
    <3>2. QED
      BY <1>0, <1>1, <2>1, <2>3, <3>1, EnteredStays DEF Reported
  <2>5. Execution!Enter(w)
    BY <1>2, <1>3, <1>4, <2>2, <2>4 DEF Execution!Enter, Entered
  <2>6. QED
    BY <1>4, <2>5 DEF Execution!ExecutionNext
<1>5. CASE w \notin Guarded
  BY <1>2, <1>3, <1>5 DEF Execution!executionVars, Entered
<1>6. QED
  BY <1>4, <1>5

\* Telling a caller reports an outcome or repeats the one reported.
LEMMA TellReports ==
  ASSUME XInv, XInv', NEW w \in Works, NEW asked, NEW state \in Terminal,
         Tell(w, asked, state), UNCHANGED invoked
  PROVE  [Execution!ExecutionNext]_(Execution!executionVars)
<1>0. /\ GInv /\ GInv' /\ CompletedIsEntered'
      /\ answers \in [Works -> SUBSET Answers]
  BY DEF XInv, GInv, IInv, TypeOK
<1>1. /\ answers'[w] = answers[w] \cup {[asked |-> asked, state |-> state]}
      /\ \A v \in Works : v # w => answers'[v] = answers[v]
  BY <1>0 DEF Tell
<1>2. \A v \in Guarded : v # w => Reported(answers'[v]) = Reported(answers[v])
  BY <1>1 DEF Guarded
<1>3. \A v \in Guarded : Entered(v)' <=> Entered(v)
  BY DEF Entered
<1>4. CASE w \in Guarded
  <2> DEFINE a == [asked |-> asked, state |-> state]
  <2>1. a \in answers'[w] /\ a.state = state
    BY <1>1
  <2>2. Reported(answers'[w]) = state
    <3>1. \A b \in answers'[w] : b.state = state
      BY <1>0, <1>4, <2>1 DEF GInv, AnswersAgreed
    <3>2. QED
      BY <2>1, <3>1 DEF Reported
  <2>3. journal'[w].state = state
    BY <1>0, <1>4, <2>1 DEF GInv, AnswersAgreed
  <2>4. /\ state = "COMPLETED" => Entered(w)
        /\ state = "CANCELLED" => ~Entered(w)
    BY <1>0, <1>3, <1>4, <2>3 DEF CompletedIsEntered, GInv, EnteredNotCancelled, Entered
  <2>5. CASE answers[w] = {}
    <3>1. Reported(answers[w]) = "none"
      BY <2>5 DEF Reported
    <3>2. Execution!Report(w, state)
      BY <1>2, <1>3, <1>4, <2>2, <2>4, <3>1 DEF Execution!Report, Entered
    <3>3. QED
      BY <1>4, <3>2 DEF Execution!ExecutionNext, Execution!Outcomes, Terminal
  <2>6. CASE answers[w] # {}
    <3>1. PICK b \in answers[w] : TRUE
      BY <2>6
    <3>2. b \in answers'[w]
      BY <1>1
    <3>3. Reported(answers[w]) = b.state
      BY <1>0, <1>4, ReportedState
    <3>4. b.state = state
      BY <1>0, <1>4, <2>1, <3>2 DEF GInv, AnswersAgreed
    <3>5. QED
      BY <1>2, <1>3, <2>2, <3>3, <3>4 DEF Execution!executionVars, Entered
  <2>7. QED
    BY <2>5, <2>6
<1>5. CASE w \notin Guarded
  BY <1>2, <1>3, <1>5 DEF Execution!executionVars, Entered
<1>6. QED
  BY <1>4, <1>5

\* The node executes what is delivered at-most-once as OneExecution promises
\* (service.py execute_workload, stop_workload).
THEOREM ExecutesAsPromised == Spec => ExecutesOnce
<1>1. Init => Execution!ExecutionInit
  <2> SUFFICES ASSUME Init PROVE Execution!ExecutionInit
    OBVIOUS
  <2>1. \A w \in Guarded : ~(invoked[w]["at_most_once"] > 0) /\ Reported(answers[w]) = "none"
    BY DEF Init, Semantics, Reported, Guarded
  <2>2. QED
    BY <2>1 DEF Execution!ExecutionInit
<1>2. XInv /\ XInv' /\ [Next]_vars => [Execution!ExecutionNext]_(Execution!executionVars)
  <2> SUFFICES ASSUME XInv, XInv', [Next]_vars
               PROVE  [Execution!ExecutionNext]_(Execution!executionVars)
    OBVIOUS
  <2>0. TypeOK
    BY DEF XInv, GInv, IInv
  <2>1. CASE UNCHANGED <<invoked, answers>>
    BY <2>1 DEF Execution!executionVars
  <2>2. ASSUME NEW t \in Threads, Invoke(t)
        PROVE  [Execution!ExecutionNext]_(Execution!executionVars)
    <3>1. job[t].work \in Works
      BY <2>0, <2>2 DEF Invoke, TypeOK, Jobs
    <3>2. QED
      BY <2>2, <3>1, InvokeEnters
  <2>3. QED
    BY <2>0, <2>1, <2>2, StepCases, TellReports
<1>3. QED
  BY <1>1, <1>2, InitXInv, InductiveXInv, PTL
  DEF Spec, ExecutesOnce, Execution!ExecutionSpec

-----------------------------------------------------------------------------
(* Records. *)

\* What one step does to the record of a work that has one, while the memory is
\* not behind the file.
LEMMA RecordStep ==
  ASSUME TypeOK, [Next]_vars, UpToDate, NEW w \in Works, journal[w].state # "ABSENT"
  PROVE  \/ journal'[w] = journal[w]
         \/ /\ journal'[w].state # "ABSENT"
            /\ \E t \in Threads : job[t].work = w
<1>0. journal \in [Works -> Records] /\ cache \in [Works -> Records] BY DEF TypeOK
<1>1. ASSUME NEW v \in Works, NEW rec, NEW write, journal[v].state = "ABSENT",
             Publish(journal, v, rec, write)
      PROVE  journal'[w] = journal[w]
  BY <1>0, <1>1 DEF Publish
<1>2. ASSUME NEW t \in Threads, NEW request, NEW write, NEW v \in Works,
             Admit(t, v, request, write)
      PROVE  journal'[w] = journal[w]
  BY <1>1, <1>2 DEF Admit
<1>3. ASSUME NEW t \in Threads, NEW v \in Works, NEW write, StopUnrecorded(t, v, write)
      PROVE  journal'[w] = journal[w]
  BY <1>1, <1>3 DEF StopUnrecorded
<1>4. ASSUME NEW t \in Threads, NEW outcome \in {"COMPLETED", "FAILED"}, NEW write,
             NEW delivered, Finish(t, outcome, write, delivered)
      PROVE  \/ journal'[w] = journal[w]
             \/ journal'[w].state # "ABSENT" /\ job[t].work = w
  <2>1. pc[t] # "idle" BY <1>4 DEF Finish
  <2>2. cache = journal BY <2>1 DEF UpToDate
  <2>3. journal' = journal
        \/ journal' = [journal EXCEPT ![job[t].work] =
                         [state |-> outcome, request |-> job[t].request]]
    BY <1>4, <2>2 DEF Finish, Publish
  <2> QED BY <1>0, <2>3
<1>5. CASE Restart BY <1>5 DEF Restart
<1>6. CASE UNCHANGED vars BY <1>6 DEF vars
<1>7. ASSUME NEW t \in Threads, ThreadStep(t)
      PROVE  \/ journal'[w] = journal[w]
             \/ journal'[w].state # "ABSENT" /\ job[t].work = w
  BY <1>2, <1>3, <1>4, <1>7 DEF ThreadStep, Redeliver, Refuse, Invoke, StopRecorded
<1> QED BY <1>5, <1>6, <1>7 DEF Next

\* Recorded identities are never removed, terminal records not replaced and effects
\* in doubt not resolved, while no handler runs beside a memory behind the file
\* (service.py, _refresh_workloads).
THEOREM RecordsAreKept == Spec => RecordsStay
<1>1. TypeOK /\ [Next]_vars =>
        \A w \in Works :
          /\ UpToDate /\ journal[w].state # "ABSENT" => journal'[w].state # "ABSENT"
          /\ /\ UpToDate /\ Unattended(w)
             /\ journal[w].state \in Terminal \cup {"EXECUTING"}
             => journal'[w] = journal[w]
  <2> SUFFICES ASSUME TypeOK, [Next]_vars, NEW w \in Works, UpToDate
               PROVE  /\ journal[w].state # "ABSENT" => journal'[w].state # "ABSENT"
                      /\ /\ Unattended(w)
                         /\ journal[w].state \in Terminal \cup {"EXECUTING"}
                         => journal'[w] = journal[w]
    OBVIOUS
  <2>1. \A state \in Terminal \cup {"EXECUTING"} : state # "ABSENT" BY DEF Terminal
  <2> QED BY <2>1, RecordStep DEF Unattended
<1> QED BY <1>1, TypeCorrect, PTL DEF Spec, RecordsStay
=============================================================================
