------------------------- MODULE WorkflowRun_proofs -------------------------
(***************************************************************************)
(* For every definition, every set of handlers and every interleaving of   *)
(* executions, cancellations and process deaths:                           *)
(*   - the type invariant of WorkflowRun;                                  *)
(*   - EffectsBounded and CompensatedOnce, through the claim that every    *)
(*     handler entry is counted in a checkpoint that no later writer       *)
(*     takes back;                                                         *)
(*   - SettledIsCertain, DependenciesFirst and CompletedIsWhole, through   *)
(*     the claim that the waves before a started step are done and that    *)
(*     the stored state of a cancelled run follows its checkpoints;        *)
(*   - CancelledAdmitsNothing and EvidenceStays.                           *)
(***************************************************************************)
EXTENDS WorkflowRun, TLAPS

USE DefinitionAssumption

\* Where a thread is agrees with the checkpoint it works on.
InFlight ==
  \A s \in Steps :
     /\ thread[s] = "admitted" =>
          /\ checkpoint[s].status = "started"
          /\ checkpoint[s].attempts >= 1 /\ entered[s] >= 1
     /\ thread[s] = "again" \/ checkpoint[s].invalid =>
          checkpoint[s].status \in {"failed", "unknown"}

\* Handler entries are covered by recorded attempts, and these by the budget.
Counted ==
  \A s \in Steps \ Reconcilable :
     entered[s] <= checkpoint[s].attempts /\ checkpoint[s].attempts <= 1 + Retries[s]

\* The retry loop goes round within the budget only.
LoopBudget ==
  \A s \in Steps : thread[s] = "again" =>
     s \notin Reconcilable /\ checkpoint[s].attempts < 1 + Retries[s]

\* A compensation that was entered has a marker that keeps it from a second.
UndoMarked ==
  \A s \in Compensable \ PureUndo :
     /\ undone[s] <= 1
     /\ undone[s] > 0 => undo[s] \in {"started", "completed", "unknown"}

CountInv == TypeOK /\ InFlight /\ Counted /\ LoopBudget /\ UndoMarked

IsDone(s) == checkpoint[s].status \in Done

\* Threads work on the steps of the wave that were not done, and what they
\* returned is what they recorded.
InWave ==
  \A s \in Steps :
     /\ thread[s] # "off" => exec.phase = "wave" /\ Wave[s] = exec.wave
     /\ thread[s] = "ready" => ~IsDone(s)
     /\ thread[s] \in Done \cup {"failed", "waiting_approval"} =>
          checkpoint[s].status = thread[s]
     /\ thread[s] = "cancelled" => run.cancelled

\* The waves behind the execution are done, and so is what it left out of its
\* own wave.
Behind ==
  /\ exec.phase = "opening" => exec.wave = 0
  /\ exec.phase \in {"next", "wave"} => \A s \in Steps : Wave[s] < exec.wave => IsDone(s)
  /\ exec.phase = "wave" =>
       \A s \in Steps : Wave[s] = exec.wave /\ thread[s] = "off" => IsDone(s)

\* Whatever has a checkpoint stands on done waves.
WaveFirst ==
  \A s, t \in Steps : checkpoint[s].status # "none" /\ Wave[t] < Wave[s] => IsDone(t)

\* An execution runs a running run, unless it was cancelled; it compensates
\* only when no step is in doubt.
Bound ==
  /\ run.cancelled => run.state \in {"cancelled", "unknown"}
  /\ ~run.cancelled /\ exec.phase = "opening" => run.state \in Resumable \cup {"pending"}
  /\ ~run.cancelled /\ exec.phase \in {"next", "wave", "undo", "undoing"} =>
       run.state = "running"
  /\ exec.phase \in {"undo", "undoing"} =>
       \A s \in Steps : checkpoint[s].status \notin Uncertain

WaveInv == InWave /\ Behind /\ WaveFirst /\ Bound /\ SettledIsCertain /\ CompletedIsWhole

-----------------------------------------------------------------------------
(* Counting. *)

Runs    == [state : States, cancelled : BOOLEAN, approved : SUBSET Gated]
Threads == {"off", "ready", "admitted", "again"} \cup Results

\* s's thread changes the run, the checkpoint of s and its own place only.
Writes(s) ==
  /\ run' \in Runs /\ run'.cancelled = run.cancelled
  /\ checkpoint' \in [Steps -> Checkpoints]
  /\ thread' \in [Steps -> Threads]
  /\ \A t \in Steps \ {s} : checkpoint'[t] = checkpoint[t] /\ thread'[t] = thread[t]

\* s's thread moves the count of its handler entries to n.
Counts(s, n) ==
  /\ entered' \in [Steps -> Nat]
  /\ entered'[s] = n
  /\ \A t \in Steps \ {s} : entered'[t] = entered[t]

\* Whatever the store makes of a run, it keeps its type and its cancellation.
LEMMA PreservedType ==
  ASSUME NEW r \in Runs, NEW steps
  PROVE  /\ Preserved(r, steps) \in Runs
         /\ Preserved(r, steps).cancelled = r.cancelled
BY DEF Preserved, Runs, States

LEMMA TypeParts ==
  ASSUME TypeOK
  PROVE  /\ run \in Runs
         /\ checkpoint \in [Steps -> Checkpoints]
         /\ thread \in [Steps -> Threads]
         /\ entered \in [Steps -> Nat] /\ undone \in [Steps -> Nat]
BY DEF TypeOK, Runs, Threads

LEMMA CheckpointParts ==
  ASSUME NEW c \in Checkpoints
  PROVE  /\ c.status \in Statuses \cup {"none"} /\ c.attempts \in Nat
         /\ c.invalid \in BOOLEAN /\ c.fits \in BOOLEAN
         /\ c = [status |-> c.status, attempts |-> c.attempts,
                 invalid |-> c.invalid, fits |-> c.fits]
BY DEF Checkpoints

LEMMA RecordWrites ==
  ASSUME TypeOK, NEW s \in Steps, NEW c \in Checkpoints, NEW next \in Threads,
         Record(s, c, next)
  PROVE  Writes(s) /\ checkpoint'[s] = c /\ thread'[s] = next
<1>1. /\ checkpoint' \in [Steps -> Checkpoints]
      /\ checkpoint'[s] = c
      /\ \A t \in Steps \ {s} : checkpoint'[t] = checkpoint[t]
  BY TypeParts DEF Record
<1>2. /\ thread' \in [Steps -> Threads]
      /\ thread'[s] = next
      /\ \A t \in Steps \ {s} : thread'[t] = thread[t]
  BY TypeParts DEF Record
<1>3. run' \in Runs /\ run'.cancelled = run.cancelled
  BY TypeParts, PreservedType DEF Record
<1>4. QED
  BY <1>1, <1>2, <1>3 DEF Writes

LEMMA AnswerWrites ==
  ASSUME TypeOK, NEW s \in Steps, NEW next \in Threads, Answer(s, next)
  PROVE  Writes(s) /\ checkpoint' = checkpoint /\ thread'[s] = next
BY TypeParts DEF Answer, Writes

LEMMA AdmitWrites ==
  ASSUME TypeOK, NEW s \in Steps, Admit(s)
  PROVE  /\ Writes(s)
         /\ checkpoint'[s].status = "started" /\ ~checkpoint'[s].invalid
         /\ checkpoint'[s].attempts = checkpoint[s].attempts + 1
         /\ thread'[s] = "admitted"
         /\ Counts(s, entered[s] + 1)
<1> DEFINE c == Entry("started", checkpoint[s].attempts + 1)
<1>1. checkpoint[s].attempts \in Nat
  BY TypeParts, CheckpointParts
<1>2. c \in Checkpoints
  BY <1>1 DEF Checkpoints, Statuses, Uncertain, Entry
<1>3. checkpoint' = [checkpoint EXCEPT ![s] = c]
  BY DEF Admit
<1>4. thread' \in [Steps -> Threads] /\ thread'[s] = "admitted"
      /\ \A t \in Steps \ {s} : thread'[t] = thread[t]
  BY TypeParts DEF Admit, Threads
<1>5. Counts(s, entered[s] + 1)
  BY TypeParts DEF Admit, Counts
<1>6. run' = run
  BY DEF Admit
<1>7. c.status = "started" /\ ~c.invalid /\ c.attempts = checkpoint[s].attempts + 1
  BY DEF Entry
<1>8. Writes(s) /\ checkpoint'[s] = c
  BY <1>2, <1>3, <1>4, <1>6, TypeParts DEF Writes
<1>9. QED
  BY <1>4, <1>5, <1>7, <1>8

LEMMA UnenteredCounts ==
  ASSUME TypeOK, NEW s \in Steps, UNCHANGED entered
  PROVE  Counts(s, entered[s])
BY TypeParts DEF Counts

-----------------------------------------------------------------------------
(* What a step of s's thread can be. *)

\* It answers without a record.
Keeps(s) ==
  /\ thread[s] \in {"ready", "again"}
  /\ checkpoint' = checkpoint /\ run' = run /\ Counts(s, entered[s])
  /\ \/ thread'[s] = "cancelled" /\ run.cancelled
     \/ thread'[s] = "unknown"
     \/ thread'[s] = checkpoint[s].status /\ thread'[s] \in {"failed", "unknown"}

\* It records why it does not enter its handler.
Notes(s) ==
  /\ thread[s] = "ready"
  /\ thread'[s] \in {"failed", "waiting_approval", "skipped", "unknown"}
  /\ checkpoint'[s].status = thread'[s] /\ ~checkpoint'[s].invalid
  /\ \/ checkpoint'[s].attempts = checkpoint[s].attempts
     \/ checkpoint[s].attempts = 0 /\ checkpoint'[s].attempts = 1
  /\ run' = Preserved(run, checkpoint') /\ Counts(s, entered[s])

\* It enters its handler.
Enters(s) ==
  /\ thread[s] \in {"ready", "again"} /\ ~run.cancelled
  /\ thread'[s] = "admitted"
  /\ checkpoint'[s].status = "started" /\ ~checkpoint'[s].invalid
  /\ checkpoint'[s].attempts = checkpoint[s].attempts + 1
  /\ s \notin Reconcilable => checkpoint[s].attempts < 1 + Retries[s]
  /\ run' = run /\ Counts(s, entered[s] + 1)

\* Its handler ended.
Ends(s) ==
  /\ thread[s] = "admitted"
  /\ thread'[s] \in {"completed", "failed", "unknown", "again"}
  /\ checkpoint'[s].status \in {"completed", "failed", "unknown"}
  /\ thread'[s] # "again" => thread'[s] = checkpoint'[s].status
  /\ checkpoint'[s].status = "completed" => ~checkpoint'[s].invalid
  /\ thread'[s] = "again" =>
       /\ s \notin Reconcilable /\ checkpoint[s].attempts < 1 + Retries[s]
       /\ checkpoint'[s].status # "completed"
  /\ checkpoint'[s].attempts = checkpoint[s].attempts
  /\ run' = Preserved(run, checkpoint') /\ Counts(s, entered[s])

\* Governance withheld its handler's operation.
GivesBack(s) ==
  /\ thread[s] = "admitted"
  /\ thread'[s] = "waiting_approval"
  /\ checkpoint'[s].status = "waiting_approval" /\ ~checkpoint'[s].invalid
  /\ checkpoint'[s].attempts = checkpoint[s].attempts - 1
  /\ run' = Preserved(run, checkpoint') /\ Counts(s, entered[s] - 1)

Moves(s) ==
  /\ Writes(s)
  /\ UNCHANGED <<undo, exec, cancelling, executions, undone>>
  /\ Keeps(s) \/ Notes(s) \/ Enters(s) \/ Ends(s) \/ GivesBack(s)

LEMMA RecordStatusNotes ==
  ASSUME TypeOK, NEW s \in Steps, thread[s] = "ready", UNCHANGED entered,
         UNCHANGED <<undo, exec, cancelling, executions, undone>>,
         NEW status \in {"failed", "waiting_approval", "skipped"},
         RecordStatus(s, status)
  PROVE  Moves(s)
<1> DEFINE c == Entry(status, checkpoint[s].attempts)
<1>1. checkpoint[s] \in Checkpoints
  BY TypeParts
<1>3. Record(s, c, status)
  BY DEF RecordStatus
<1>4. c \in Checkpoints /\ status \in Threads
  BY <1>1, CheckpointParts
  DEF Checkpoints, Statuses, Uncertain, Done, Threads, Results, Entry
<1>5. Writes(s) /\ checkpoint'[s] = c /\ thread'[s] = status
  BY <1>3, <1>4, RecordWrites
<1>6. run' = Preserved(run, checkpoint')
  BY <1>3 DEF Record
<1>7. QED
  BY <1>5, <1>6, UnenteredCounts DEF Moves, Notes, Entry

LEMMA BeginMoves ==
  ASSUME CountInv, NEW s \in Steps, Begin(s)
  PROVE  Moves(s)
<1> USE DEF CountInv
<1>0. /\ thread[s] = "ready" /\ checkpoint[s] \in Checkpoints
      /\ UNCHANGED <<undo, exec, cancelling, executions, undone>>
  BY TypeParts DEF Begin
<1>a. checkpoint[s].attempts \in Nat
  BY <1>0, CheckpointParts
<1>b. {"cancelled", "unknown", "failed"} \subseteq Threads
  BY DEF Threads, Results, Statuses, Uncertain
<1>1. CASE BeginInvalid(s)
  <2>1. checkpoint[s].status \in {"failed", "unknown"}
    BY <1>1 DEF BeginInvalid, InFlight
  <2>2. Writes(s) /\ checkpoint' = checkpoint /\ thread'[s] = checkpoint[s].status
    BY <1>1, <1>b, <2>1, AnswerWrites DEF BeginInvalid
  <2>3. QED
    BY <1>0, <1>1, <2>1, <2>2, UnenteredCounts DEF BeginInvalid, Answer, Moves, Keeps
<1>2. CASE BeginBlocked(s)
  <2>1. CASE s \in Pure /\ checkpoint[s].status = "failed"
    <3>1. Answer(s, "failed") /\ UNCHANGED entered
      BY <1>2, <2>1 DEF BeginBlocked
    <3>2. QED
      BY <1>0, <1>b, <2>1, <3>1, AnswerWrites, UnenteredCounts DEF Answer, Moves, Keeps
  <2>2. CASE ~(s \in Pure /\ checkpoint[s].status = "failed")
    <3> DEFINE c == [checkpoint[s] EXCEPT !.status = "unknown",
                                          !.attempts = IF @ = 0 THEN 1 ELSE @]
    <3>1. Record(s, c, "unknown") /\ UNCHANGED entered /\ ~checkpoint[s].invalid
      BY <1>2, <2>2 DEF BeginBlocked
    <3>2. /\ c.status = "unknown" /\ ~c.invalid
          /\ c.attempts = IF checkpoint[s].attempts = 0 THEN 1 ELSE checkpoint[s].attempts
          /\ c \in Checkpoints
      BY <1>0, <1>a, <3>1 DEF Checkpoints, Statuses, Uncertain
    <3>3. Writes(s) /\ checkpoint'[s] = c /\ thread'[s] = "unknown"
      BY <1>b, <3>1, <3>2, RecordWrites
    <3>4. run' = Preserved(run, checkpoint')
      BY <3>1 DEF Record
    <3>5. QED
      BY <1>0, <3>1, <3>2, <3>3, <3>4, UnenteredCounts DEF Moves, Notes
  <2>3. QED
    BY <2>1, <2>2
<1>3. CASE BeginCancelled(s)
  BY <1>0, <1>3, <1>b, AnswerWrites, UnenteredCounts
  DEF BeginCancelled, Answer, Moves, Keeps
<1>4. CASE BeginAbsent(s)
  <2>1. CASE PriorStarted(s)
    BY <1>0, <1>4, <1>b, <2>1, AnswerWrites, UnenteredCounts
    DEF BeginAbsent, Answer, Moves, Keeps
  <2>2. CASE ~PriorStarted(s)
    BY <1>0, <1>4, <2>2, RecordStatusNotes DEF BeginAbsent
  <2>3. QED
    BY <2>1, <2>2
<1>5. CASE BeginGated(s)
  BY <1>0, <1>5, RecordStatusNotes DEF BeginGated
<1>6. CASE BeginSkipped(s)
  BY <1>0, <1>6, RecordStatusNotes DEF BeginSkipped
<1>7. CASE BeginAdmit(s)
  <2>1. Admit(s) /\ ~ReplayBlocked(s) /\ ~run.cancelled /\ run' = run
    BY <1>7 DEF BeginAdmit, Beginnable, Admit
  <2>2. s \notin Reconcilable => checkpoint[s].attempts < 1 + Retries[s]
    BY <1>a, <2>1 DEF ReplayBlocked, PriorStarted, Spent
  <2>3. QED
    BY <1>0, <2>1, <2>2, AdmitWrites DEF Moves, Enters
<1>8. QED
  BY <1>1, <1>2, <1>3, <1>4, <1>5, <1>6, <1>7 DEF Begin

LEMMA FinishMoves ==
  ASSUME CountInv, NEW s \in Steps, Finish(s)
  PROVE  Moves(s)
<1> USE DEF CountInv
<1>0. /\ thread[s] = "admitted" /\ checkpoint[s] \in Checkpoints
      /\ checkpoint[s].status = "started" /\ ~checkpoint[s].invalid
      /\ checkpoint[s].attempts \in Nat \ {0}
      /\ UNCHANGED <<undo, exec, cancelling, executions, undone>>
  BY TypeParts, CheckpointParts DEF Finish, InFlight
<1>b. {"completed", "waiting_approval", "unknown", "failed", "again"} \subseteq Threads
  BY DEF Threads, Results, Statuses, Uncertain, Done
<1>1. CASE Withheld(s)
  <2> DEFINE c == Entry("waiting_approval", checkpoint[s].attempts - 1)
  <2>1. Record(s, c, "waiting_approval") /\ entered' = [entered EXCEPT ![s] = @ - 1]
    BY <1>1 DEF Withheld
  <2>2. /\ c.status = "waiting_approval" /\ ~c.invalid
        /\ c.attempts = checkpoint[s].attempts - 1 /\ c \in Checkpoints
    BY <1>0 DEF Checkpoints, Statuses, Entry
  <2>3. Writes(s) /\ checkpoint'[s] = c /\ thread'[s] = "waiting_approval"
    BY <1>b, <2>1, <2>2, RecordWrites
  <2>4. Counts(s, entered[s] - 1)
    BY <1>0, <2>1, TypeParts DEF Counts, InFlight
  <2>5. run' = Preserved(run, checkpoint')
    BY <2>1 DEF Record
  <2>6. QED
    BY <1>0, <2>2, <2>3, <2>4, <2>5 DEF Moves, GivesBack
<1>2. CASE Rejected(s)
  <2> DEFINE status == StatusOf(s, "invalid")
             c == [checkpoint[s] EXCEPT !.status = status, !.invalid = TRUE]
  <2>1. Record(s, c, status) /\ UNCHANGED entered /\ status \in {"failed", "unknown"}
    BY <1>2 DEF Rejected, StatusOf
  <2>2. /\ c.status = status /\ c.attempts = checkpoint[s].attempts
        /\ c \in Checkpoints
    BY <1>0, <2>1 DEF Checkpoints, Statuses, Uncertain
  <2>3. Writes(s) /\ checkpoint'[s] = c /\ thread'[s] = status
    BY <1>b, <2>1, <2>2, RecordWrites
  <2>4. run' = Preserved(run, checkpoint')
    BY <2>1 DEF Record
  <2>5. QED
    BY <1>0, <2>1, <2>2, <2>3, <2>4, UnenteredCounts DEF Moves, Ends
<1>3. ASSUME NEW fits \in BOOLEAN, Succeeded(s, fits)
      PROVE  Moves(s)
  <2> DEFINE c == [checkpoint[s] EXCEPT !.status = "completed", !.fits = fits]
  <2>1. Record(s, c, "completed") /\ UNCHANGED entered
    BY <1>3 DEF Succeeded
  <2>2. /\ c.status = "completed" /\ ~c.invalid
        /\ c.attempts = checkpoint[s].attempts /\ c \in Checkpoints
    BY <1>0 DEF Checkpoints, Statuses, Done
  <2>3. Writes(s) /\ checkpoint'[s] = c /\ thread'[s] = "completed"
    BY <1>b, <2>1, <2>2, RecordWrites
  <2>4. run' = Preserved(run, checkpoint')
    BY <2>1 DEF Record
  <2>5. QED
    BY <1>0, <2>1, <2>2, <2>3, <2>4, UnenteredCounts DEF Moves, Ends
<1>4. ASSUME NEW outcome \in {"error", "lost"}, Raised(s, outcome)
      PROVE  Moves(s)
  <2> DEFINE status == StatusOf(s, outcome)
             c == [checkpoint[s] EXCEPT !.status = status]
             next == IF GoesOn(s) THEN "again" ELSE status
  <2>1. Record(s, c, next) /\ UNCHANGED entered /\ status \in {"failed", "unknown"}
    BY <1>4 DEF Raised, StatusOf
  <2>2. /\ c.status = status /\ c.attempts = checkpoint[s].attempts
        /\ c \in Checkpoints
    BY <1>0, <2>1 DEF Checkpoints, Statuses, Uncertain
  <2>3. Writes(s) /\ checkpoint'[s] = c /\ thread'[s] = next
    <3>1. next \in Threads
      BY <1>b, <2>1
    <3>2. QED
      BY <2>1, <2>2, <3>1, RecordWrites
  <2>4. run' = Preserved(run, checkpoint')
    BY <2>1 DEF Record
  <2>5. next = "again" => s \notin Reconcilable /\ checkpoint[s].attempts < 1 + Retries[s]
    BY <2>1 DEF GoesOn
  <2>6. QED
    BY <1>0, <2>1, <2>2, <2>3, <2>4, <2>5, UnenteredCounts DEF Moves, Ends
<1>5. QED
  BY <1>1, <1>2, <1>3, <1>4 DEF Finish

LEMMA StepMoves ==
  ASSUME CountInv, NEW s \in Steps, Step(s)
  PROVE  Moves(s)
<1>1. CASE Again(s)
  <2> USE DEF CountInv
  <2>0. /\ thread[s] = "again" /\ checkpoint[s].status \in {"failed", "unknown"}
        /\ s \notin Reconcilable /\ checkpoint[s].attempts < 1 + Retries[s]
        /\ UNCHANGED <<undo, exec, cancelling, executions, undone>>
    BY <1>1 DEF Again, InFlight, LoopBudget
  <2>b. {"cancelled", "unknown", "failed"} \subseteq Threads
    BY DEF Threads, Results, Statuses, Uncertain
  <2>1. CASE Admit(s)
    BY <2>0, <2>1, AdmitWrites DEF Admit, Moves, Enters
  <2>2. CASE /\ run.cancelled /\ UNCHANGED entered
             /\ Answer(s, "cancelled") \/ Answer(s, checkpoint[s].status)
    BY <2>0, <2>b, <2>2, AnswerWrites, UnenteredCounts DEF Answer, Moves, Keeps
  <2>3. QED
    BY <1>1, <2>1, <2>2 DEF Again
<1>2. QED
  BY <1>1, BeginMoves, FinishMoves DEF Step

-----------------------------------------------------------------------------
(* Every step keeps the counts. *)

LEMMA StepKeepsCount ==
  ASSUME CountInv, NEW s \in Steps, Step(s)
  PROVE  CountInv'
<1> USE DEF CountInv
<1>1. Moves(s)
  BY StepMoves
<1>2. /\ Writes(s) /\ UNCHANGED <<undo, exec, cancelling, executions, undone>>
      /\ entered' \in [Steps -> Nat]
      /\ \A t \in Steps \ {s} : entered'[t] = entered[t]
  BY <1>1 DEF Moves, Keeps, Notes, Enters, Ends, GivesBack, Counts
<1>3. checkpoint[s].attempts \in Nat /\ entered[s] \in Nat /\ Retries[s] \in Nat
  BY TypeParts, CheckpointParts
<1>4. TypeOK'
  BY <1>2 DEF TypeOK, Writes, Runs, Threads
<1>5. InFlight' /\ LoopBudget'
  <2> SUFFICES ASSUME NEW t \in Steps
               PROVE  /\ thread'[t] = "admitted" =>
                            /\ checkpoint'[t].status = "started"
                            /\ checkpoint'[t].attempts >= 1 /\ entered'[t] >= 1
                      /\ thread'[t] = "again" \/ checkpoint'[t].invalid =>
                            checkpoint'[t].status \in {"failed", "unknown"}
                      /\ thread'[t] = "again" =>
                            /\ t \notin Reconcilable
                            /\ checkpoint'[t].attempts < 1 + Retries[t]
    BY DEF InFlight, LoopBudget
  <2>1. CASE t # s
    BY <1>2, <2>1 DEF InFlight, LoopBudget, Writes
  <2>2. CASE t = s
    <3>1. CASE Keeps(s)
      BY <2>2, <3>1 DEF Keeps, InFlight
    <3>2. CASE Notes(s)
      BY <2>2, <3>2 DEF Notes
    <3>3. CASE Enters(s)
      BY <1>3, <2>2, <3>3 DEF Enters, Counts
    <3>4. CASE Ends(s)
      BY <1>3, <2>2, <3>4 DEF Ends
    <3>5. CASE GivesBack(s)
      BY <2>2, <3>5 DEF GivesBack
    <3>6. QED
      BY <1>1, <3>1, <3>2, <3>3, <3>4, <3>5 DEF Moves
  <2>3. QED
    BY <2>1, <2>2
<1>6. Counted'
  <2> SUFFICES ASSUME NEW t \in Steps \ Reconcilable
               PROVE  /\ entered'[t] <= checkpoint'[t].attempts
                      /\ checkpoint'[t].attempts <= 1 + Retries[t]
    BY DEF Counted
  <2>1. CASE t # s
    BY <1>2, <2>1 DEF Counted, Writes
  <2>2. CASE t = s
    <3>1. entered[s] <= checkpoint[s].attempts /\ checkpoint[s].attempts <= 1 + Retries[s]
      BY <2>2 DEF Counted
    <3>2. CASE Keeps(s)
      BY <2>2, <3>1, <3>2 DEF Keeps, Counts
    <3>3. CASE Notes(s)
      BY <1>3, <2>2, <3>1, <3>3 DEF Notes, Counts
    <3>4. CASE Enters(s)
      BY <1>3, <2>2, <3>1, <3>4 DEF Enters, Counts
    <3>5. CASE Ends(s)
      BY <1>3, <2>2, <3>1, <3>5 DEF Ends, Counts
    <3>6. CASE GivesBack(s)
      BY <1>3, <2>2, <3>1, <3>6 DEF GivesBack, Counts
    <3>7. QED
      BY <1>1, <3>2, <3>3, <3>4, <3>5, <3>6 DEF Moves
  <2>3. QED
    BY <2>1, <2>2
<1>7. UndoMarked'
  BY <1>2 DEF UndoMarked
<1>8. QED
  BY <1>4, <1>5, <1>6, <1>7

\* The rest of the program leaves the steps' checkpoints alone, and puts
\* threads back or makes them ready.
Aside ==
  /\ UNCHANGED <<checkpoint, entered>>
  /\ thread' \in [Steps -> Threads]
  /\ \A s \in Steps : thread'[s] \in {"off", "ready"} \/ thread'[s] = thread[s]

LEMMA AsideKeepsCount ==
  ASSUME CountInv, Aside
  PROVE  InFlight' /\ LoopBudget' /\ Counted'
BY DEF CountInv, Aside, InFlight, LoopBudget, Counted

LEMMA ConcludeType ==
  ASSUME TypeOK, NEW state \in States, Conclude(state)
  PROVE  /\ run' \in Runs /\ exec' = Free
         /\ run'.cancelled = run.cancelled
         /\ thread' \in [Steps -> Threads]
         /\ \A s \in Steps : thread'[s] = "off"
<1>1. [run EXCEPT !.state = state] \in Runs
  BY DEF TypeOK, Runs
<1>2. [run EXCEPT !.state = state].cancelled = run.cancelled
  BY DEF TypeOK
<1>3. run' \in Runs /\ run'.cancelled = run.cancelled
  BY <1>1, <1>2, PreservedType DEF Conclude
<1>4. QED
  BY <1>3 DEF Conclude, Threads

LEMMA ReturnType ==
  ASSUME TypeOK, Return
  PROVE  /\ run' = run /\ run' \in Runs /\ exec' = Free
         /\ thread' \in [Steps -> Threads]
         /\ \A s \in Steps : thread'[s] = "off"
BY DEF Return, TypeOK, Runs, Threads

Phases == {"free", "opening", "next", "wave", "undo", "undoing"}
Execs == [phase : Phases, wave : 0..LastWave + 1, todo : SUBSET Steps,
          failed : BOOLEAN, given : SUBSET Gated]

LEMMA FreeType == Free \in Execs /\ Free.phase = "free"
<1>1. 0 \in 0..LastWave + 1
  BY DefinitionAssumption
<1>2. QED
  BY <1>1 DEF Free, Execs, Phases

\* What a step aside must show for the type invariant.
LEMMA AsideType ==
  ASSUME CountInv, Aside, run' \in Runs, exec' \in Execs,
         exec'.phase = "undoing" => exec'.todo # {},
         exec'.phase = "wave" => exec'.wave <= LastWave,
         undo' \in [Steps -> {"none", "started", "completed", "failed", "unknown"}],
         cancelling' \in BOOLEAN, executions' \in 0..MaxExecutions,
         undone' \in [Steps -> Nat], UndoMarked'
  PROVE  CountInv'
<1>1. TypeOK'
  BY DEF CountInv, TypeOK, Aside, Runs, Execs, Phases, Threads
<1>2. QED
  BY <1>1, AsideKeepsCount DEF CountInv

LEMMA ExecuteKeepsCount ==
  ASSUME CountInv,
         Execute \/ Die \/ (\E given \in SUBSET Gated : Open(given))
  PROVE  CountInv' /\ Aside /\ run'.cancelled = run.cancelled
<1> USE DEF CountInv
<1>0. /\ exec \in Execs /\ run \in Runs /\ thread \in [Steps -> Threads]
      /\ undo \in [Steps -> {"none", "started", "completed", "failed", "unknown"}]
      /\ cancelling \in BOOLEAN /\ executions \in 0..MaxExecutions
      /\ undone \in [Steps -> Nat]
  BY DEF TypeOK, Execs, Phases, Runs, Threads
<1>1. ASSUME NEW given \in SUBSET Gated, Open(given)
      PROVE  CountInv' /\ Aside /\ run'.cancelled = run.cancelled
  <2>1. exec' = [Free EXCEPT !.phase = "opening", !.given = given]
    BY <1>1 DEF Open
  <2>2. exec' \in Execs /\ exec'.phase = "opening"
    BY <2>1, FreeType DEF Execs, Phases
  <2>3. Aside /\ UNCHANGED <<undo, undone>>
    BY <1>0, <1>1 DEF Open, Aside
  <2>4. UndoMarked'
    BY <2>3 DEF UndoMarked
  <2>5. executions' \in 0..MaxExecutions
    <3>1. executions' = executions + 1 /\ executions < MaxExecutions
      BY <1>1 DEF Open
    <3>2. QED
      BY <1>0, <3>1, DefinitionAssumption
  <2>6. QED
    BY <1>0, <1>1, <2>2, <2>3, <2>4, <2>5, AsideType DEF Open
<1>2. CASE Publish
  <2>1. Aside /\ UNCHANGED <<undo, undone, cancelling, executions>>
    BY <1>0, <1>2, ReturnType DEF Publish, Aside
  <2>2. run' \in Runs /\ run'.cancelled = run.cancelled
    <3>1. exec.given \subseteq Gated /\ run.approved \subseteq Gated
      BY <1>0 DEF Execs, Runs
    <3>2. CASE run' = [run EXCEPT !.state = "running", !.approved = @ \cup exec.given]
      BY <1>0, <3>1, <3>2 DEF Runs, States
    <3>3. CASE Return
      BY <3>3, ReturnType
    <3>4. QED
      BY <1>2, <3>2, <3>3 DEF Publish
  <2>3. exec' \in Execs /\ exec'.phase \notin {"undoing", "wave"}
    BY <1>0, <1>2, ReturnType, FreeType DEF Publish, Execs, Phases
  <2>4. UndoMarked'
    BY <2>1 DEF UndoMarked
  <2>5. QED
    BY <1>0, <2>1, <2>2, <2>3, <2>4, AsideType
<1>3. CASE EnterWave
  <2>1. Aside /\ UNCHANGED <<undo, undone, cancelling, executions>>
    BY <1>0, <1>3, ReturnType DEF EnterWave, Aside, Threads
  <2>2. run' = run
    BY <1>3, ReturnType DEF EnterWave
  <2>3. /\ exec' \in Execs /\ exec'.phase # "undoing"
        /\ exec'.phase = "wave" => exec'.wave <= LastWave
    <3>1. CASE Return
      BY <3>1, ReturnType, FreeType
    <3>2. CASE exec' = [exec EXCEPT !.wave = @ + 1]
      <4>1. exec.wave + 1 \in 0..LastWave + 1
        BY <1>0, <1>3 DEF EnterWave, Execs
      <4>2. QED
        BY <1>0, <1>3, <3>2, <4>1 DEF EnterWave, Execs
    <3>3. CASE exec' = [exec EXCEPT !.phase = "wave"]
      BY <1>0, <1>3, <3>3 DEF Execs, Phases, EnterWave
    <3>4. QED
      BY <1>3, <3>1, <3>2, <3>3 DEF EnterWave
  <2>4. UndoMarked'
    BY <2>1 DEF UndoMarked
  <2>5. QED
    BY <1>0, <2>1, <2>2, <2>3, <2>4, AsideType
<1>4. CASE Complete
  <2>1. UNCHANGED <<checkpoint, entered, undo, undone, cancelling, executions>>
    BY <1>4 DEF Complete
  <2>2. /\ run' \in Runs /\ exec' = Free /\ thread' \in [Steps -> Threads]
        /\ run'.cancelled = run.cancelled
        /\ \A s \in Steps : thread'[s] = "off"
    <3>1. PICK state \in {"completed", "failed"} : Conclude(state)
      BY <1>4 DEF Complete
    <3>2. QED
      BY <3>1, ConcludeType DEF States
  <2>3. UndoMarked'
    BY <2>1 DEF UndoMarked
  <2>4. QED
    BY <1>0, <2>1, <2>2, <2>3, AsideType, FreeType DEF Aside
<1>5. CASE Settle
  <2>1. UNCHANGED <<checkpoint, entered, undo, undone, cancelling, executions>>
    BY <1>5 DEF Settle
  <2>2. /\ run' \in Runs /\ run'.cancelled = run.cancelled
        /\ exec' \in Execs /\ exec'.phase \notin {"undoing", "wave"}
        /\ thread' \in [Steps -> Threads]
        /\ \A s \in Steps : thread'[s] = "off"
    <3>1. ASSUME NEW state \in States, Conclude(state)
          PROVE  <2>2!:
      BY <3>1, ConcludeType, FreeType
    <3>2. CASE Return
      BY <3>2, ReturnType, FreeType
    <3>3. CASE /\ exec' = [exec EXCEPT !.phase = "undo", !.todo = Compensations]
               /\ thread' = [s \in Steps |-> "off"]
               /\ UNCHANGED run
      <4>1. Compensations \subseteq Steps
        BY DEF Compensations
      <4>2. QED
        BY <1>0, <3>3, <4>1 DEF Execs, Phases, Threads
    <3>4. CASE /\ exec' = [exec EXCEPT !.phase = "next", !.wave = @ + 1]
               /\ thread' = [s \in Steps |-> "off"]
               /\ UNCHANGED run /\ exec.wave <= LastWave
      <4>1. exec.wave + 1 \in 0..LastWave + 1
        BY <1>0, <3>4 DEF Execs
      <4>2. QED
        BY <1>0, <3>4, <4>1 DEF Execs, Phases, Threads
    <3>5. QED
      BY <1>5, <3>1, <3>2, <3>3, <3>4 DEF Settle, States, TypeOK
  <2>3. UndoMarked'
    BY <2>1 DEF UndoMarked
  <2>4. QED
    BY <1>0, <2>1, <2>2, <2>3, AsideType DEF Aside
<1>6. CASE Die
  <2>1. UNCHANGED <<checkpoint, entered, undo, undone, cancelling, executions>>
    BY <1>6 DEF Die
  <2>2. UndoMarked'
    BY <2>1 DEF UndoMarked
  <2>3. QED
    BY <1>0, <1>6, <2>1, <2>2, ReturnType, FreeType, AsideType DEF Aside, Die
<1>7. QED
  BY <1>1, <1>2, <1>3, <1>4, <1>5, <1>6 DEF Execute

LEMMA CompensateKeepsCount ==
  ASSUME CountInv, Compensate
  PROVE  CountInv' /\ Aside /\ run'.cancelled = run.cancelled
<1> USE DEF CountInv
<1>0. /\ exec \in Execs /\ run \in Runs /\ thread \in [Steps -> Threads]
      /\ undo \in [Steps -> {"none", "started", "completed", "failed", "unknown"}]
      /\ cancelling \in BOOLEAN /\ executions \in 0..MaxExecutions
      /\ undone \in [Steps -> Nat]
  BY DEF TypeOK, Execs, Phases, Runs, Threads
<1>a. ASSUME NEW failed \in BOOLEAN, Undone(failed)
      PROVE  exec' \in Execs /\ exec'.phase = "undo"
  BY <1>0, <1>a DEF Undone, Execs, Phases
<1>1. CASE UndoStart
  <2>1. UNCHANGED <<run, thread, checkpoint, cancelling, executions, entered>>
    BY <1>1 DEF UndoStart
  <2>2. exec' \in Execs /\ exec'.phase = "undoing" /\ exec'.todo # {}
    BY <1>0, <1>1 DEF UndoStart, Execs, Phases
  <2>3. /\ undo' \in [Steps -> {"none", "started", "completed", "failed", "unknown"}]
        /\ undone' \in [Steps -> Nat]
    <3>1. undo' = [undo EXCEPT ![NextUndo] = "started"]
      BY <1>1 DEF UndoStart
    <3>2. undone' = [undone EXCEPT ![NextUndo] = undone[NextUndo] + 1]
      BY <1>1 DEF UndoStart
    <3>3. NextUndo \in Steps => undone[NextUndo] + 1 \in Nat
      BY <1>0
    <3>4. undone' \in [Steps -> Nat]
      BY <1>0, <3>2, <3>3
    <3>5. undo' \in [Steps -> {"none", "started", "completed", "failed", "unknown"}]
      BY <1>0, <3>1
    <3>6. QED
      BY <3>4, <3>5
  <2>4. UndoMarked'
    <3> SUFFICES ASSUME NEW s \in Compensable \ PureUndo
                 PROVE  /\ undone'[s] <= 1
                        /\ undone'[s] > 0 => undo'[s] \in {"started", "completed", "unknown"}
      BY DEF UndoMarked
    <3>1. s \in Steps
      BY DefinitionAssumption
    <3>2. CASE s = NextUndo
      <4>1. undone[s] = 0
        BY <1>0, <1>1, <3>1, <3>2 DEF UndoStart, UndoMarked
      <4>2. undone'[s] = 1 /\ undo'[s] = "started"
        BY <1>0, <1>1, <3>1, <3>2, <4>1 DEF UndoStart
      <4>3. QED
        BY <4>2
    <3>3. CASE s # NextUndo
      BY <1>0, <1>1, <3>1, <3>3 DEF UndoStart, UndoMarked
    <3>4. QED
      BY <3>2, <3>3
  <2>5. QED
    BY <1>0, <2>1, <2>2, <2>3, <2>4, AsideType DEF Aside
<1>2. CASE UndoPass
  <2>1. UNCHANGED <<run, thread, checkpoint, undo, cancelling, executions, entered, undone>>
    BY <1>2 DEF UndoPass
  <2>2. exec' \in Execs /\ exec'.phase = "undo"
    BY <1>2, <1>a DEF UndoPass
  <2>3. UndoMarked'
    BY <2>1 DEF UndoMarked
  <2>4. QED
    BY <1>0, <2>1, <2>2, <2>3, AsideType DEF Aside
<1>3. ASSUME UndoInDoubt \/ UndoEnd
      PROVE  CountInv' /\ Aside /\ run'.cancelled = run.cancelled
  <2>1. UNCHANGED <<checkpoint, undo, cancelling, executions, entered, undone>>
    BY <1>3 DEF UndoInDoubt, UndoEnd
  <2>2. PICK state \in States : Conclude(state)
    BY <1>3 DEF UndoInDoubt, UndoEnd, States
  <2>3. UndoMarked'
    BY <2>1 DEF UndoMarked
  <2>4. QED
    BY <1>0, <2>1, <2>2, <2>3, ConcludeType, FreeType, AsideType DEF Aside
<1>4. ASSUME NEW ok \in BOOLEAN, UndoFinish(ok)
      PROVE  CountInv' /\ Aside /\ run'.cancelled = run.cancelled
  <2> DEFINE status == IF ok THEN "completed"
                       ELSE IF NextUndo \in PureUndo THEN "failed" ELSE "unknown"
  <2>1. UNCHANGED <<run, thread, checkpoint, cancelling, executions, entered, undone>>
    BY <1>4 DEF UndoFinish
  <2>2. exec' \in Execs /\ exec'.phase = "undo"
    <3>1. CASE exec' = [exec EXCEPT !.phase = "undo"]
      BY <1>0, <3>1 DEF Execs, Phases
    <3>2. CASE Undone(~ok)
      BY <3>2, <1>a
    <3>3. QED
      BY <1>4, <3>1, <3>2 DEF UndoFinish
  <2>3. undo' = [undo EXCEPT ![NextUndo] = status]
    BY <1>4 DEF UndoFinish
  <2>4. UndoMarked'
    <3> SUFFICES ASSUME NEW s \in Compensable \ PureUndo
                 PROVE  /\ undone[s] <= 1
                        /\ undone[s] > 0 => undo'[s] \in {"started", "completed", "unknown"}
      BY <2>1 DEF UndoMarked
    <3>1. s \in Steps
      BY DefinitionAssumption
    <3>2. QED
      BY <1>0, <2>3, <3>1 DEF UndoMarked
  <2>5. undo' \in [Steps -> {"none", "started", "completed", "failed", "unknown"}]
    BY <1>0, <2>3
  <2>6. QED
    BY <1>0, <2>1, <2>2, <2>4, <2>5, AsideType DEF Aside
<1>5. QED
  BY <1>1, <1>2, <1>3, <1>4 DEF Compensate

LEMMA CancelKeepsCount ==
  ASSUME CountInv, Cancel
  PROVE  CountInv' /\ Aside /\ (run.cancelled => run'.cancelled)
<1> USE DEF CountInv
<1>0. /\ exec \in Execs /\ run \in Runs /\ thread \in [Steps -> Threads]
      /\ undo \in [Steps -> {"none", "started", "completed", "failed", "unknown"}]
      /\ cancelling \in BOOLEAN /\ executions \in 0..MaxExecutions
      /\ undone \in [Steps -> Nat]
  BY DEF TypeOK, Execs, Phases, Runs, Threads
<1>1. /\ UNCHANGED <<checkpoint, undo, exec, thread, executions, entered, undone>>
      /\ cancelling' \in BOOLEAN
  BY <1>0 DEF Cancel, CancelRead, CancelWrite, Reconcile, MarkUnknown
<1>2. run' \in Runs /\ (run.cancelled => run'.cancelled)
  <2> DEFINE r == [run EXCEPT !.state = "cancelled", !.cancelled = TRUE]
  <2>1. r \in Runs /\ r.cancelled = TRUE
    BY <1>0 DEF Runs, States
  <2>2. CASE CancelWrite
    BY <2>1, <2>2, PreservedType DEF CancelWrite
  <2>3. CASE Reconcile
    BY <1>0, <2>3, PreservedType DEF Reconcile
  <2>4. CASE \E automation \in BOOLEAN : CancelRead(automation)
    BY <1>0, <2>4 DEF CancelRead
  <2>5. CASE MarkUnknown
    BY <1>0, <2>5 DEF MarkUnknown, Runs, States
  <2>6. QED
    BY <2>2, <2>3, <2>4, <2>5 DEF Cancel
<1>3. UndoMarked'
  BY <1>1 DEF UndoMarked
<1>4. QED
  BY <1>0, <1>1, <1>2, <1>3, AsideType DEF Aside, TypeOK

LEMMA CountInvariant == CountInv /\ [Next]_vars => CountInv'
<1> SUFFICES ASSUME CountInv, [Next]_vars PROVE CountInv'
  OBVIOUS
<1>1. CASE UNCHANGED vars
  BY <1>1 DEF vars, CountInv, TypeOK, InFlight, Counted, LoopBudget, UndoMarked
<1>2. CASE Next
  BY <1>2, StepKeepsCount, ExecuteKeepsCount, CompensateKeepsCount, CancelKeepsCount
  DEF Next
<1>3. QED
  BY <1>1, <1>2

LEMMA InitCount == Init => CountInv
<1> SUFFICES ASSUME Init PROVE CountInv
  OBVIOUS
<1>1. Entry("none", 0) \in Checkpoints
  BY DEF Entry, Checkpoints
<1>2. TypeOK
  <2>1. run \in [state : States, cancelled : BOOLEAN, approved : SUBSET Gated]
    BY DEF Init, States
  <2>2. executions \in 0..MaxExecutions
    BY DefinitionAssumption DEF Init
  <2>3. exec \in Execs /\ exec.phase = "free"
    BY FreeType DEF Init
  <2>4. QED
    BY <1>1, <2>1, <2>2, <2>3 DEF Init, TypeOK, Execs, Phases
<1>3. QED
  BY <1>2 DEF Init, CountInv, InFlight, Counted, LoopBudget, UndoMarked, Entry

-----------------------------------------------------------------------------
(* Every step keeps the waves in order and the stored state true. *)

LEMMA PreservedState ==
  ASSUME NEW r \in Runs, NEW steps
  PROVE  /\ ~r.cancelled => Preserved(r, steps) = r
         /\ r.cancelled =>
              /\ Preserved(r, steps).state \in {"cancelled", "unknown"}
              /\ Preserved(r, steps).state = "cancelled" =>
                   \A s \in Steps : steps[s].status \notin Uncertain
BY DEF Preserved, Runs, InDoubt

\* What a stored state claims, whoever wrote it.
LEMMA CancelledClaims ==
  ASSUME NEW r \in Runs, r.cancelled, run' = Preserved(r, checkpoint')
  PROVE  /\ run'.cancelled /\ run'.state \in {"cancelled", "unknown"}
         /\ SettledIsCertain' /\ CompletedIsWhole'
<1>1. /\ run'.cancelled /\ run'.state \in {"cancelled", "unknown"}
      /\ run'.state = "cancelled" => \A s \in Steps : checkpoint'[s].status \notin Uncertain
  BY PreservedType, PreservedState
<1>2. QED
  BY <1>1 DEF SettledIsCertain, CompletedIsWhole, Closed

LEMMA StepKeepsWaves ==
  ASSUME CountInv, WaveInv, NEW s \in Steps, Step(s)
  PROVE  WaveInv'
<1> USE DEF CountInv, WaveInv
<1>1. Moves(s)
  BY StepMoves
<1>2. /\ Writes(s) /\ UNCHANGED <<undo, exec, cancelling, executions, undone>>
      /\ thread[s] \in {"ready", "again", "admitted"}
      /\ \/ run' = Preserved(run, checkpoint')
         \/ run' = run /\ (checkpoint' = checkpoint \/ ~run.cancelled)
  BY <1>1 DEF Moves, Keeps, Notes, Enters, Ends, GivesBack
<1>t. thread'[s] # "off" /\ thread'[s] # "ready"
  BY <1>1 DEF Moves, Keeps, Notes, Enters, Ends, GivesBack
<1>3. /\ thread'[s] \in Done \cup {"failed", "waiting_approval"} =>
           checkpoint'[s].status = thread'[s]
      /\ thread'[s] = "cancelled" => run.cancelled
  BY <1>1 DEF Moves, Keeps, Notes, Enters, Ends, GivesBack, Done
<1>4. /\ exec.phase = "wave" /\ Wave[s] = exec.wave /\ ~IsDone(s)
      /\ run'.cancelled = run.cancelled /\ run \in Runs
  BY <1>2, TypeParts DEF InWave, InFlight, IsDone, Done, Writes
<1>5. \A t \in Steps : IsDone(t) => t # s /\ IsDone(t)'
  BY <1>2, <1>4 DEF IsDone, Writes
<1>6. InWave'
  <2> SUFFICES ASSUME NEW t \in Steps
               PROVE  /\ thread'[t] # "off" => exec'.phase = "wave" /\ Wave[t] = exec'.wave
                      /\ thread'[t] = "ready" => ~IsDone(t)'
                      /\ thread'[t] \in Done \cup {"failed", "waiting_approval"} =>
                           checkpoint'[t].status = thread'[t]
                      /\ thread'[t] = "cancelled" => run'.cancelled
    BY DEF InWave
  <2>1. CASE t = s
    BY <1>2, <1>t, <1>3, <1>4, <2>1
  <2>2. CASE t # s
    BY <1>2, <1>4, <2>2 DEF InWave, Writes, IsDone
  <2>3. QED
    BY <2>1, <2>2
<1>7. Behind'
  <2>1. \A t \in Steps : Wave[t] < exec.wave => IsDone(t)'
    BY <1>4, <1>5 DEF Behind
  <2>2. \A t \in Steps : Wave[t] = exec.wave /\ thread'[t] = "off" => IsDone(t)'
    BY <1>2, <1>t, <1>4, <1>5 DEF Behind, Writes
  <2>3. QED
    BY <1>2, <2>1, <2>2 DEF Behind
<1>8. WaveFirst'
  <2> SUFFICES ASSUME NEW t \in Steps, NEW u \in Steps,
                      checkpoint'[t].status # "none", Wave[u] < Wave[t]
               PROVE  IsDone(u)'
    BY DEF WaveFirst
  <2>1. CASE t = s
    BY <1>4, <1>5, <2>1 DEF Behind
  <2>2. CASE t # s
    BY <1>2, <1>5, <2>2 DEF WaveFirst, Writes
  <2>3. QED
    BY <2>1, <2>2
<1>9. CASE run.cancelled
  <2>1. CASE run' = Preserved(run, checkpoint')
    BY <1>2, <1>4, <1>6, <1>7, <1>8, <1>9, <2>1, CancelledClaims DEF Bound
  <2>2. CASE run' = run /\ checkpoint' = checkpoint
    BY <1>2, <1>4, <1>6, <1>7, <1>8, <2>2 DEF Bound, SettledIsCertain, CompletedIsWhole
  <2>3. QED
    BY <1>2, <1>9, <2>1, <2>2
<1>10. CASE ~run.cancelled
  <2>1. run' = run /\ run.state = "running"
    BY <1>2, <1>4, <1>10, PreservedState DEF Bound
  <2>2. QED
    BY <1>2, <1>4, <1>6, <1>7, <1>8, <1>10, <2>1
    DEF Bound, SettledIsCertain, CompletedIsWhole, Closed
<1>11. QED
  BY <1>9, <1>10

\* An execution that ended leaves the checkpoints as they are and no thread.
LEMMA FreeKeepsWaves ==
  ASSUME WaveInv, UNCHANGED checkpoint, exec' = Free,
         \A s \in Steps : thread'[s] = "off",
         run'.cancelled => run'.state \in {"cancelled", "unknown"},
         SettledIsCertain', CompletedIsWhole'
  PROVE  WaveInv'
<1>1. exec'.phase = "free"
  BY DEF Free
<1>2. InWave' /\ Behind' /\ WaveFirst' /\ Bound'
  BY <1>1 DEF WaveInv, InWave, Behind, WaveFirst, Bound, IsDone, Done
<1>3. QED
  BY <1>2 DEF WaveInv

LEMMA ReturnKeepsWaves ==
  ASSUME CountInv, WaveInv, UNCHANGED checkpoint, Return
  PROVE  WaveInv'
<1>1. /\ run' = run /\ exec' = Free /\ \A s \in Steps : thread'[s] = "off"
  BY ReturnType DEF CountInv
<1>2. SettledIsCertain' /\ CompletedIsWhole'
  BY <1>1 DEF WaveInv, SettledIsCertain, CompletedIsWhole
<1>3. QED
  BY <1>1, <1>2, FreeKeepsWaves DEF WaveInv, Bound

\* The state an execution concludes must be true of its checkpoints, unless
\* it was cancelled meanwhile.
LEMMA ConcludeKeepsWaves ==
  ASSUME CountInv, WaveInv, UNCHANGED checkpoint, NEW state \in States, Conclude(state),
         ~run.cancelled /\ state \in Closed \cup {"waiting_approval"} =>
            \A s \in Steps : checkpoint[s].status \notin Uncertain,
         ~run.cancelled /\ state = "completed" =>
            /\ \A s \in Steps : checkpoint[s].status \in Done
            /\ \A s \in Described : checkpoint[s].fits
  PROVE  WaveInv'
<1> DEFINE r == [run EXCEPT !.state = state]
<1>1. /\ r \in Runs /\ r.cancelled = run.cancelled /\ r.state = state
      /\ run' = Preserved(r, checkpoint') /\ exec' = Free
      /\ \A s \in Steps : thread'[s] = "off"
  BY ConcludeType DEF CountInv, Conclude, TypeOK, Runs
<1>2. CASE run.cancelled
  BY <1>1, <1>2, CancelledClaims, FreeKeepsWaves
<1>3. CASE ~run.cancelled
  <2>1. run' = r
    BY <1>1, <1>3, PreservedState
  <2>2. SettledIsCertain' /\ CompletedIsWhole'
    BY <1>1, <1>3, <2>1 DEF SettledIsCertain, CompletedIsWhole
  <2>3. QED
    BY <1>1, <1>3, <2>1, <2>2, FreeKeepsWaves
<1>4. QED
  BY <1>2, <1>3

\* The execution goes on with its threads put away and no checkpoint changed.
LEMMA GoesOnKeepsWaves ==
  ASSUME WaveInv, UNCHANGED <<run, checkpoint>>, \A s \in Steps : thread'[s] = "off",
         exec'.phase # "wave", Behind', Bound'
  PROVE  WaveInv'
<1>1. InWave'
  BY DEF InWave, Done
<1>2. WaveFirst'
  BY DEF WaveInv, WaveFirst, IsDone
<1>3. SettledIsCertain' /\ CompletedIsWhole'
  BY DEF WaveInv, SettledIsCertain, CompletedIsWhole
<1>4. QED
  BY <1>1, <1>2, <1>3 DEF WaveInv

LEMMA WaveType ==
  ASSUME CountInv
  PROVE  /\ exec.wave \in Nat /\ Wave \in [Steps -> Nat] /\ LastWave \in Nat
         /\ exec.wave <= LastWave + 1
         /\ \A s \in Steps : Wave[s] <= LastWave
<1>1. exec.wave \in 0..LastWave + 1 /\ Wave \in [Steps -> 0..LastWave] /\ LastWave \in Nat
  BY DefinitionAssumption DEF CountInv, TypeOK
<1>2. QED
  BY <1>1

\* A wave that came to neither doubt nor cancellation leaves no step in doubt
\* if some step of it is not done or it was the last.
LEMMA WaveIsCertain ==
  ASSUME CountInv, WaveInv, exec.phase = "wave", ~run.cancelled, Returned("unknown") = {},
         \A s \in Steps : thread[s] \notin {"ready", "admitted", "again"}
  PROVE  /\ \A s \in Steps : Wave[s] <= exec.wave => checkpoint[s].status \notin Uncertain
         /\ \A s \in Steps : Wave[s] = exec.wave =>
              \/ IsDone(s)
              \/ checkpoint[s].status \in {"failed", "waiting_approval"}
                 /\ s \in Returned(checkpoint[s].status)
<1> SUFFICES ASSUME NEW s \in Steps
             PROVE  /\ Wave[s] <= exec.wave => checkpoint[s].status \notin Uncertain
                    /\ Wave[s] = exec.wave =>
                         \/ IsDone(s)
                         \/ checkpoint[s].status \in {"failed", "waiting_approval"}
                            /\ s \in Returned(checkpoint[s].status)
  OBVIOUS
<1>1. exec.wave \in Nat /\ Wave[s] \in Nat
  BY WaveType
<1>2. CASE Wave[s] < exec.wave
  BY <1>1, <1>2 DEF WaveInv, Behind, IsDone, Done, Uncertain
<1>3. CASE Wave[s] = exec.wave
  <2>1. thread[s] \in {"off"} \cup Done \cup {"failed", "waiting_approval"}
    BY TypeParts
    DEF CountInv, WaveInv, InWave, Threads, Results, Statuses, Done, Uncertain, Returned
  <2>2. CASE thread[s] = "off"
    BY <1>3, <2>2 DEF WaveInv, Behind, IsDone, Done, Uncertain
  <2>3. CASE thread[s] # "off"
    BY <2>1, <2>3 DEF WaveInv, InWave, IsDone, Done, Uncertain, Returned
  <2>4. QED
    BY <1>1, <2>2, <2>3
<1>4. QED
  BY <1>1, <1>2, <1>3

LEMMA SettleKeepsWaves ==
  ASSUME CountInv, WaveInv, Settle
  PROVE  WaveInv'
<1>0. /\ exec.phase = "wave" /\ UNCHANGED checkpoint /\ run \in Runs
      /\ \A s \in Steps : thread[s] \notin {"ready", "admitted", "again"}
      /\ {"unknown", "failed", "waiting_approval"} \subseteq States
  BY TypeParts DEF Settle, CountInv, States
<1>1. CASE Returned("unknown") # {}
  BY <1>0, <1>1, ConcludeKeepsWaves DEF Settle, Closed
<1>2. CASE Returned("unknown") = {} /\ run.cancelled
  BY <1>0, <1>2, ReturnKeepsWaves DEF Settle
<1>3. CASE Returned("unknown") = {} /\ ~run.cancelled
  <2>1. ASSUME NEW s \in Returned("failed") \cup Returned("waiting_approval")
        PROVE  \A t \in Steps : checkpoint[t].status \notin Uncertain
    <3>1. s \in Steps /\ Wave[s] = exec.wave /\ ~IsDone(s)
      BY <2>1 DEF Returned, WaveInv, InWave, IsDone, Done
    <3>2. \A t \in Steps : Wave[t] > exec.wave => checkpoint[t].status = "none"
      BY <3>1 DEF WaveInv, WaveFirst
    <3>3. QED
      BY <1>0, <1>3, <3>2, WaveIsCertain, WaveType DEF Uncertain
  <2>2. CASE Returned("failed") # {} /\ checkpoint[FirstFailed].invalid
    BY <1>0, <1>3, <2>1, <2>2, ConcludeKeepsWaves DEF Settle
  <2>3. CASE Returned("failed") # {} /\ ~checkpoint[FirstFailed].invalid
    <3>1. /\ exec' = [exec EXCEPT !.phase = "undo", !.todo = Compensations]
          /\ thread' = [s \in Steps |-> "off"] /\ UNCHANGED run
      BY <1>3, <2>3 DEF Settle
    <3>2. exec'.phase = "undo"
      BY <3>1 DEF CountInv, TypeOK
    <3>3. Behind' /\ Bound'
      BY <1>0, <1>3, <2>1, <2>3, <3>1, <3>2 DEF Behind, Bound, WaveInv
    <3>4. QED
      BY <1>0, <3>1, <3>2, <3>3, GoesOnKeepsWaves
  <2>4. CASE Returned("failed") = {} /\ Returned("waiting_approval") # {}
    BY <1>0, <1>3, <2>1, <2>4, ConcludeKeepsWaves DEF Settle
  <2>5. CASE Returned("failed") = {} /\ Returned("waiting_approval") = {}
    <3>1. /\ exec' = [exec EXCEPT !.phase = "next", !.wave = @ + 1]
          /\ thread' = [s \in Steps |-> "off"] /\ UNCHANGED run
      BY <1>3, <2>5 DEF Settle
    <3>2. exec'.phase = "next" /\ exec'.wave = exec.wave + 1
      BY <3>1 DEF CountInv, TypeOK
    <3>3. \A s \in Steps : Wave[s] = exec.wave => IsDone(s)
      BY <1>0, <1>3, <2>5, WaveIsCertain
    <3>4. \A s \in Steps : Wave[s] < exec.wave + 1 => IsDone(s)
      BY <1>0, <3>3, WaveType DEF WaveInv, Behind
    <3>5. Behind' /\ Bound'
      BY <1>0, <1>3, <3>1, <3>2, <3>4 DEF Behind, Bound, WaveInv, IsDone
    <3>6. QED
      BY <1>0, <3>1, <3>2, <3>5, GoesOnKeepsWaves
  <2>6. QED
    BY <2>2, <2>3, <2>4, <2>5
<1>4. QED
  BY <1>1, <1>2, <1>3

LEMMA ExecuteKeepsWaves ==
  ASSUME CountInv, WaveInv,
         Execute \/ Die \/ (\E given \in SUBSET Gated : Open(given))
  PROVE  WaveInv'
<1>0. /\ run \in Runs /\ exec \in Execs /\ thread \in [Steps -> Threads]
  BY DEF CountInv, TypeOK, Runs, Execs, Phases, Threads
<1>1. ASSUME NEW given \in SUBSET Gated, Open(given)
      PROVE  WaveInv'
  <2>1. exec'.phase = "opening" /\ exec'.wave = 0 /\ exec.phase = "free" /\ ~run.cancelled
        /\ UNCHANGED <<run, checkpoint, thread>>
        /\ run.state \in Resumable \cup {"pending"}
    BY <1>1 DEF Open, Free
  <2>2. \A s \in Steps : thread'[s] = "off"
    BY <2>1 DEF WaveInv, InWave
  <2>3. Behind' /\ Bound'
    BY <2>1 DEF Behind, Bound
  <2>4. QED
    BY <2>1, <2>2, <2>3, GoesOnKeepsWaves
<1>2. CASE Publish
  <2>1. CASE Return
    BY <1>2, <2>1, ReturnKeepsWaves DEF Publish
  <2>2. CASE /\ ~run.cancelled
             /\ run' = [run EXCEPT !.state = "running", !.approved = @ \cup exec.given]
             /\ exec' = [exec EXCEPT !.phase = "next"] /\ UNCHANGED thread
    <3>1. /\ run'.state = "running" /\ ~run'.cancelled /\ UNCHANGED checkpoint
          /\ exec'.phase = "next" /\ exec'.wave = exec.wave
      BY <1>0, <1>2, <2>2 DEF Publish, Runs, Execs
    <3>2. exec.wave = 0
      BY <1>2 DEF Publish, WaveInv, Behind
    <3>3. InWave' /\ WaveFirst'
      BY <1>2, <2>2, <3>1 DEF Publish, WaveInv, InWave, WaveFirst, IsDone
    <3>4. Behind'
      BY <3>1, <3>2, WaveType DEF Behind
    <3>5. Bound' /\ SettledIsCertain' /\ CompletedIsWhole'
      BY <3>1 DEF Bound, SettledIsCertain, CompletedIsWhole, Closed
    <3>6. QED
      BY <3>3, <3>4, <3>5 DEF WaveInv
  <2>3. QED
    BY <1>2, <2>1, <2>2 DEF Publish
<1>3. CASE EnterWave
  <2>0. exec.phase = "next" /\ UNCHANGED checkpoint
    BY <1>3 DEF EnterWave
  <2>a. \A s \in Steps : thread[s] = "off"
    BY <2>0 DEF WaveInv, InWave
  <2>1. CASE Return
    BY <2>0, <2>1, ReturnKeepsWaves
  <2>2. CASE /\ ~run.cancelled /\ Pending(exec.wave) = {}
             /\ exec' = [exec EXCEPT !.wave = @ + 1] /\ UNCHANGED <<run, thread>>
    <3>1. exec'.phase = "next" /\ exec'.wave = exec.wave + 1
      BY <1>0, <2>0, <2>2 DEF Execs
    <3>2. \A s \in Steps : Wave[s] < exec.wave + 1 => IsDone(s)
      BY <2>0, <2>2, WaveType DEF WaveInv, Behind, Pending, IsDone
    <3>3. Behind' /\ Bound'
      BY <2>0, <2>2, <3>1, <3>2 DEF Behind, Bound, WaveInv, IsDone
    <3>4. QED
      BY <2>0, <2>a, <2>2, <3>1, <3>3, GoesOnKeepsWaves
  <2>3. CASE /\ ~run.cancelled /\ exec' = [exec EXCEPT !.phase = "wave"]
             /\ thread' = [s \in Steps |-> IF s \in Pending(exec.wave) THEN "ready" ELSE "off"]
             /\ UNCHANGED run
    <3>1. exec'.phase = "wave" /\ exec'.wave = exec.wave
      BY <1>0, <2>3 DEF Execs
    <3>2. InWave' /\ Behind'
      BY <2>0, <2>3, <3>1 DEF InWave, Behind, Pending, IsDone, WaveInv, Done
    <3>3. WaveFirst' /\ Bound' /\ SettledIsCertain' /\ CompletedIsWhole'
      BY <2>0, <2>3, <3>1
      DEF WaveFirst, Bound, SettledIsCertain, CompletedIsWhole, WaveInv, IsDone
    <3>4. QED
      BY <3>2, <3>3 DEF WaveInv
  <2>4. QED
    BY <1>3, <2>1, <2>2, <2>3 DEF EnterWave
<1>4. CASE Complete
  <2> DEFINE state == IF \A s \in Described : checkpoint[s].fits THEN "completed" ELSE "failed"
  <2>1. Conclude(state) /\ UNCHANGED checkpoint /\ state \in States
    BY <1>4 DEF Complete, States
  <2>2. \A s \in Steps : checkpoint[s].status \in Done
    BY <1>4, WaveType DEF Complete, WaveInv, Behind, IsDone
  <2>3. \A s \in Steps : checkpoint[s].status \notin Uncertain
    BY <2>2 DEF Done, Uncertain
  <2>4. state = "completed" => \A s \in Described : checkpoint[s].fits
    OBVIOUS
  <2> HIDE DEF state
  <2>5. QED
    BY <2>1, <2>2, <2>3, <2>4, ConcludeKeepsWaves
<1>5. CASE Settle
  BY <1>5, SettleKeepsWaves
<1>6. CASE Die
  BY <1>6, ReturnKeepsWaves DEF Die
<1>7. QED
  BY <1>1, <1>2, <1>3, <1>4, <1>5, <1>6 DEF Execute

LEMMA CompensateKeepsWaves ==
  ASSUME CountInv, WaveInv, Compensate
  PROVE  WaveInv'
<1>0. /\ exec \in Execs /\ UNCHANGED checkpoint
      /\ exec.phase \in {"undo", "undoing"}
  BY DEF CountInv, TypeOK, Execs, Phases, Compensate, UndoStart, UndoPass, UndoInDoubt,
         UndoFinish, UndoEnd
<1>1. \A s \in Steps : thread[s] = "off" /\ checkpoint[s].status \notin Uncertain
  BY <1>0 DEF WaveInv, InWave, Bound
<1>2. CASE UndoInDoubt \/ UndoEnd
  <2>1. PICK state \in {"unknown", "compensation_failed", "failed"} : Conclude(state)
    BY <1>2 DEF UndoInDoubt, UndoEnd
  <2>2. QED
    BY <1>0, <1>1, <2>1, ConcludeKeepsWaves DEF States
<1>3. CASE UndoStart \/ UndoPass \/ \E ok \in BOOLEAN : UndoFinish(ok)
  <2>1. UNCHANGED <<run, thread>> /\ exec'.phase \in {"undo", "undoing"}
    BY <1>0, <1>3 DEF UndoStart, UndoPass, UndoFinish, Undone, Execs, Phases
  <2>2. Behind' /\ Bound'
    BY <1>0, <1>1, <2>1 DEF Behind, Bound, WaveInv
  <2>3. QED
    BY <1>0, <1>1, <2>1, <2>2, GoesOnKeepsWaves
<1>4. QED
  BY <1>2, <1>3 DEF Compensate

LEMMA CancelKeepsWaves ==
  ASSUME CountInv, WaveInv, Cancel
  PROVE  WaveInv'
<1>0. run \in Runs /\ UNCHANGED <<checkpoint, undo, exec, thread>>
  BY DEF CountInv, TypeOK, Runs, Cancel, CancelRead, CancelWrite, Reconcile, MarkUnknown
<1>1. (run.cancelled => run'.cancelled) /\ Behind' /\ WaveFirst'
  BY <1>0, CancelKeepsCount DEF WaveInv, Behind, WaveFirst, IsDone
<1>2. InWave'
  BY <1>0, <1>1 DEF WaveInv, InWave, IsDone
<1>3. ASSUME run'.cancelled, run'.state \in {"cancelled", "unknown"},
             SettledIsCertain', CompletedIsWhole'
      PROVE  WaveInv'
  BY <1>0, <1>1, <1>2, <1>3 DEF WaveInv, Bound
<1>4. CASE \E automation \in BOOLEAN : CancelRead(automation)
  BY <1>0, <1>1, <1>2, <1>4
  DEF CancelRead, WaveInv, Bound, SettledIsCertain, CompletedIsWhole
<1>5. CASE CancelWrite
  <2> DEFINE r == [run EXCEPT !.state = "cancelled", !.cancelled = TRUE]
  <2>1. r \in Runs /\ r.cancelled /\ run' = Preserved(r, checkpoint')
    BY <1>0, <1>5 DEF CancelWrite, Runs, States
  <2>2. QED
    BY <1>3, <2>1, CancelledClaims
<1>6. CASE Reconcile
  BY <1>0, <1>3, <1>6, CancelledClaims DEF Reconcile
<1>7. CASE MarkUnknown
  <2>1. run'.cancelled /\ run'.state = "unknown"
    BY <1>0, <1>7 DEF MarkUnknown, Runs
  <2>2. QED
    BY <1>3, <2>1 DEF SettledIsCertain, CompletedIsWhole, Closed
<1>8. QED
  BY <1>4, <1>5, <1>6, <1>7 DEF Cancel

LEMMA WaveInvariant == CountInv /\ WaveInv /\ [Next]_vars => WaveInv'
<1> SUFFICES ASSUME CountInv, WaveInv, [Next]_vars PROVE WaveInv'
  OBVIOUS
<1>1. CASE UNCHANGED vars
  BY <1>1
  DEF vars, WaveInv, InWave, Behind, WaveFirst, Bound, SettledIsCertain, CompletedIsWhole,
      IsDone
<1>2. CASE Next
  BY <1>2, StepKeepsWaves, ExecuteKeepsWaves, CompensateKeepsWaves, CancelKeepsWaves
  DEF Next
<1>3. QED
  BY <1>1, <1>2

LEMMA InitWaves == Init => WaveInv
BY DEF Init, WaveInv, InWave, Behind, WaveFirst, Bound, SettledIsCertain, CompletedIsWhole,
       IsDone, Entry, Free, Closed, Done

\* The stored run, its checkpoints and the execution keep their types.
THEOREM TypeCorrect == Spec => []TypeOK
<1>1. CountInv => TypeOK
  BY DEF CountInv
<1>2. QED
  BY <1>1, InitCount, CountInvariant, PTL DEF Spec

\* Over all executions of a run, the handler of a step without a journal is
\* entered once plus its trusted retries (runtime.py _execute_step).
THEOREM EffectsAreBounded == Spec => []EffectsBounded
<1>1. CountInv => EffectsBounded
  <2> SUFFICES ASSUME CountInv, NEW s \in Steps \ Reconcilable
               PROVE  entered[s] <= 1 + Retries[s]
    BY DEF EffectsBounded
  <2>1. checkpoint[s].attempts \in Nat /\ entered[s] \in Nat /\ Retries[s] \in Nat
    BY TypeParts, CheckpointParts, DefinitionAssumption DEF CountInv
  <2>2. QED
    BY <2>1 DEF CountInv, Counted
<1>2. QED
  BY <1>1, InitCount, CountInvariant, PTL DEF Spec

\* A compensation with an effect is entered at most once, over crashes between
\* its marker and its result (runtime.py _compensate).
THEOREM CompensationsOnce == Spec => []CompensatedOnce
<1>1. CountInv => CompensatedOnce
  BY DEF CountInv, UndoMarked, CompensatedOnce
<1>2. QED
  BY <1>1, InitCount, CountInvariant, PTL DEF Spec

\* After the cancellation is stored, nothing enters a step's handler and the
\* cancellation stays (store.py admit_step, _preserve_cancellation).
THEOREM CancellationAdmitsNothing == Spec => CancelledAdmitsNothing
<1> DEFINE A == run.cancelled => /\ run'.cancelled
                                 /\ \A s \in Steps : entered'[s] <= entered[s]
<1>1. CountInv /\ [Next]_vars => [A]_vars
  <2> SUFFICES ASSUME CountInv, Next, run.cancelled
               PROVE  /\ run'.cancelled
                      /\ \A s \in Steps : entered'[s] <= entered[s]
    OBVIOUS
  <2>1. \A s \in Steps : entered[s] \in Nat
    BY DEF CountInv, TypeOK
  <2>2. ASSUME NEW s \in Steps, Step(s)
        PROVE  run'.cancelled /\ \A t \in Steps : entered'[t] <= entered[t]
    <3>1. Moves(s) /\ ~Enters(s)
      BY <2>2, StepMoves DEF Enters
    <3>2. Counts(s, entered[s]) \/ Counts(s, entered[s] - 1)
      BY <3>1 DEF Moves, Keeps, Notes, Ends, GivesBack
    <3>3. \A t \in Steps : entered'[t] <= entered[t]
      BY <2>1, <3>2 DEF Counts
    <3>4. QED
      BY <3>1, <3>3 DEF Moves, Writes
  <2>3. ASSUME UNCHANGED entered
        PROVE  \A t \in Steps : entered'[t] <= entered[t]
    BY <2>1, <2>3
  <2>4. CASE \E s \in Steps : Step(s)
    BY <2>2, <2>4
  <2>5. CASE Execute \/ Die \/ (\E given \in SUBSET Gated : Open(given))
    BY <2>3, <2>5, ExecuteKeepsCount DEF Aside
  <2>6. CASE Compensate
    BY <2>3, <2>6, CompensateKeepsCount DEF Aside
  <2>7. CASE Cancel
    BY <2>3, <2>7, CancelKeepsCount DEF Aside
  <2>8. QED
    BY <2>4, <2>5, <2>6, <2>7 DEF Next
<1>2. QED
  BY <1>1, InitCount, CountInvariant, PTL DEF Spec, CancelledAdmitsNothing

\* A stored state that is over or waits for an approval hides no step in doubt,
\* whoever wrote it last (store.py _preserve_cancellation, runtime.py _finish).
THEOREM SettledRunsAreCertain == Spec => []SettledIsCertain
<1>1. WaveInv => SettledIsCertain
  BY DEF WaveInv
<1>2. QED
  BY <1>1, InitCount, CountInvariant, InitWaves, WaveInvariant, PTL DEF Spec

\* COMPLETED is told of whole runs only, and never of a cancelled one.
THEOREM CompletedRunsAreWhole == Spec => []CompletedIsWhole
<1>1. WaveInv => CompletedIsWhole
  BY DEF WaveInv
<1>2. QED
  BY <1>1, InitCount, CountInvariant, InitWaves, WaveInvariant, PTL DEF Spec

\* Every step stands on done dependencies, over all executions of the run
\* (compiler.py levels, runtime.py _execute).
THEOREM DependenciesComeFirst == Spec => []DependenciesFirst
<1>1. WaveInv => DependenciesFirst
  <2> SUFFICES ASSUME WaveInv, NEW s \in Steps, NEW d \in After[s],
                      checkpoint[s].status \in Done \cup Uncertain
               PROVE  checkpoint[d].status \in Done
    BY DEF DependenciesFirst
  <2>1. d \in Steps /\ Wave[d] < Wave[s] /\ checkpoint[s].status # "none"
    BY DefinitionAssumption DEF Done, Uncertain
  <2>2. QED
    BY <2>1 DEF WaveInv, WaveFirst, IsDone
<1>2. QED
  BY <1>1, InitCount, CountInvariant, InitWaves, WaveInvariant, PTL DEF Spec

\* No writer forgets what a step came to, and only governance takes an attempt
\* back (runtime.py _execute_step, store.py finish_step).
THEOREM EvidenceIsKept == Spec => EvidenceStays
<1> DEFINE Stays(s) ==
      /\ checkpoint[s].status \in Done => checkpoint'[s] = checkpoint[s]
      /\ checkpoint'[s].attempts < checkpoint[s].attempts => entered'[s] < entered[s]
<1>1. CountInv /\ WaveInv /\ [Next]_vars => [\A s \in Steps : Stays(s)]_vars
  <2> SUFFICES ASSUME CountInv, WaveInv, Next, NEW s \in Steps PROVE Stays(s)
    OBVIOUS
  <2>1. checkpoint[s].attempts \in Nat /\ entered[s] \in Nat
    BY TypeParts, CheckpointParts DEF CountInv
  <2>2. ASSUME UNCHANGED checkpoint PROVE Stays(s)
    BY <2>1, <2>2
  <2>3. ASSUME NEW t \in Steps, Step(t), t # s PROVE Stays(s)
    <3>1. Moves(t) /\ checkpoint'[s] = checkpoint[s]
      BY <2>3, StepMoves DEF Moves, Writes
    <3>2. QED
      BY <2>1, <3>1
  <2>4. CASE Step(s)
    <3>1. Moves(s)
      BY <2>4, StepMoves
    <3>2. checkpoint[s].status \notin Done
      BY <3>1 DEF CountInv, WaveInv, InWave, InFlight, IsDone, Done,
                  Moves, Keeps, Notes, Enters, Ends, GivesBack
    <3>3. CASE GivesBack(s)
      BY <2>1, <3>2, <3>3 DEF GivesBack, Counts
    <3>4. CASE Keeps(s) \/ Notes(s) \/ Enters(s) \/ Ends(s)
      BY <2>1, <3>2, <3>4 DEF Keeps, Notes, Enters, Ends
    <3>5. QED
      BY <3>1, <3>3, <3>4 DEF Moves
  <2>5. CASE \E t \in Steps : Step(t)
    BY <2>3, <2>4, <2>5
  <2>6. CASE Execute \/ Die \/ (\E given \in SUBSET Gated : Open(given))
    BY <2>2, <2>6, ExecuteKeepsCount DEF Aside
  <2>7. CASE Compensate
    BY <2>2, <2>7, CompensateKeepsCount DEF Aside
  <2>8. CASE Cancel
    BY <2>2, <2>8, CancelKeepsCount DEF Aside
  <2>9. QED
    BY <2>5, <2>6, <2>7, <2>8 DEF Next
<1>2. QED
  BY <1>1, InitCount, CountInvariant, InitWaves, WaveInvariant, PTL DEF Spec, EvidenceStays
=============================================================================
