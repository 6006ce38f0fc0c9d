------------------------------- MODULE WorkRun -------------------------------
(***************************************************************************)
(* One Work of the Work Harness over its whole life: its keyed submission  *)
(* (WorkSupervisor, nous_runtime/work/supervisor.py), its checkpoints and  *)
(* the operations of users on it (WorkHarness, runtime.py), and the loops  *)
(* that deliberate and call tools for it (AgentLoop, loop.py).             *)
(*                                                                         *)
(* Whoever works on a Work reads its latest checkpoint, goes on with the   *)
(* copy in memory, and saves it as the new latest checkpoint.  Only the    *)
(* save is locked.  A process runs at most one loop for the Work; several  *)
(* processes share the workspace, and die anywhere.                        *)
(*                                                                         *)
(* The states that nothing is decided by (RECEIVED, PREPARING, ...) are    *)
(* one, "ACTIVE"; consecutive saves of one actor between which it reads    *)
(* nothing are one.  What a model decides is any decision.  Left out:      *)
(* discovery before the loop, and the two ways an original effect is found *)
(* again (process sessions, workspace proposals).                          *)
(***************************************************************************)
EXTENDS Naturals, FiniteSets

CONSTANTS
  Processes,
  Calls,          \* model bound: identities of tool calls
  Kinds,          \* classes of tools: "discovery", "read", "write", "network"
  Planned,        \* whether a new Work has a plan
  Criteria,       \* whether the Work has completion criteria
  Window,         \* the observations a checkpoint keeps (50)
  MaxIterations,  \* iterations of the loop of a new Work
  MaxResumed,     \* iterations of a loop after a resumption
  MaxStarts,      \* model bound on resumptions
  MaxFaults,      \* model bound on deaths and errors
  MaxOps,         \* model bound on operations of users
  Nothing         \* no call

ASSUME WorkAssumption ==
  /\ Kinds \subseteq {"discovery", "read", "write", "network"}
  /\ Planned \subseteq BOOLEAN /\ Criteria \in BOOLEAN
  /\ Window \in Nat \ {0}
  /\ MaxIterations \in Nat \ {0} /\ MaxResumed \in 1..MaxIterations
  /\ MaxStarts \in Nat /\ MaxFaults \in Nat /\ MaxOps \in Nat
  /\ Nothing \notin Calls

VARIABLES
  marker,    \* the checkpoint that fences the submission key is saved
  store,     \* the latest checkpoint of the Work
  runner,    \* what each process does for the Work, with its copy
  user,      \* an operation of a user, with its copy
  calls,     \* the calls of tools, and what came of them
  bounds,    \* what the model's bounds have left
  late,      \* history: the processes that began a call of a cancelled Work
  disturbed  \* history: see Disturbs

vars == <<marker, store, runner, user, calls, bounds, late, disturbed>>

-----------------------------------------------------------------------------
(* Data. *)

Ends == {"COMPLETED", "FAILED", "CANCELLED"}
\* "PAUSED" stands for PAUSED and WAITING_USER, which nothing tells apart here.
Stops == {"PAUSED", "WAITING_FOR_APPROVAL", "BLOCKED", "RECOVERY_REQUIRED"}

\* Tools of the effect classes "none" and "read".  Those that only find other tools
\* and skills (catalog_expand, skill_list, skill_search, skill_load) are "discovery".
Reading == {"discovery", "read"}

\* The last observations, as _completion_gate tells them apart: the result of a tool
\* that is not discovery, a verification that passed for the actions and the plan
\* there are now, and all others (or none yet).
Windows == [1..Window -> {"tool", "passed", "other"}]

Noted(recent, entry) ==
  [i \in 1..Window |-> IF i = Window THEN entry ELSE recent[i + 1]]

\* action_sequence or the revision of the plan is now another.
Lapsed(recent) ==
  [i \in 1..Window |-> IF recent[i] = "passed" THEN "other" ELSE recent[i]]

EntryOf(kind) == IF kind = "discovery" THEN "other" ELSE "tool"

\* A checkpoint: pending_action with its recovery policy, the calls that
\* action_sequence counts, whether there is a plan, the last observations, and
\* whether the error is one of the runtime.
Snapshots ==
  [state : {"NONE", "ACTIVE"} \cup Stops \cup Ends,
   pending : Calls \cup {Nothing},
   policy : {"none", "reissue", "manual", "approval", "approved"},
   observed : SUBSET Calls, plan : BOOLEAN, recent : Windows, mend : BOOLEAN]

NoWork == [state |-> "NONE", pending |-> Nothing, policy |-> "none", observed |-> {},
           plan |-> FALSE, recent |-> [i \in 1..Window |-> "other"], mend |-> FALSE]
NewWork(planned) == [NoWork EXCEPT !.state = "ACTIVE", !.plan = planned]

Submitting == {"creating", "prepared"}
Looping == {"entering", "beginning", "top", "analysing", "deliberating", "decided",
            "dispatched", "executing", "waiting", "replayed", "closing"}
Runners ==
  [at : {"idle", "resuming", "failing"} \cup Submitting \cup Looping,
   mem : Snapshots,              \* the copy in memory
   fresh : BOOLEAN,              \* it has the identity of the latest checkpoint
   turn : 0..MaxIterations,      \* iterations made, of MaxIterations
   call : Calls \cup {Nothing}, replay : BOOLEAN]
Idle == [at |-> "idle", mem |-> NoWork, fresh |-> FALSE,
         turn |-> MaxIterations - MaxResumed, call |-> Nothing, replay |-> FALSE]

Users == [mem : Snapshots, fresh : BOOLEAN]
NoUser == [mem |-> NoWork, fresh |-> FALSE]
Operations == {"pause", "steer", "cancel", "configure"}

Outcomes == {"open", "known", "uncertain", "refused"}
\* checked is history: a verification that passed came after the call.
CallRecords == [kind : Kinds \cup {"none"}, entered : BOOLEAN, came : Outcomes,
                checked : BOOLEAN]
NoCall == [kind |-> "none", entered |-> FALSE, came |-> "open", checked |-> FALSE]

TypeOK ==
  /\ marker \in BOOLEAN
  /\ store \in Snapshots
  /\ runner \in [Processes -> Runners]
  /\ user \in Users
  /\ calls \in [Calls -> CallRecords]
  /\ bounds \in [starts : 0..MaxStarts, faults : 0..MaxFaults, ops : 0..MaxOps]
  /\ late \subseteq Processes
  /\ disturbed \in BOOLEAN
  /\ (\E p \in Processes : runner[p].at # "idle") \/ store # NoWork => marker
  /\ \A p \in Processes :
        /\ runner[p].at \in {"dispatched", "executing"} => runner[p].call \in Calls
        /\ runner[p].fresh => runner[p].mem = store

Init ==
  /\ marker = FALSE
  /\ store = NoWork
  /\ runner = [p \in Processes |-> Idle]
  /\ user = NoUser
  /\ calls = [c \in Calls |-> NoCall]
  /\ bounds = [starts |-> MaxStarts, faults |-> MaxFaults, ops |-> MaxOps]
  /\ late = {}
  /\ disturbed = FALSE

Over(s) == s.state \in Ends
Halted(s) == s.state \in Ends \cup Stops
Active == {p \in Processes : runner[p].at # "idle"}

-----------------------------------------------------------------------------
(* Checkpoints. *)

\* Mutant: the save does not look at the checkpoint it replaces.
FencedNot(s) == s

\* _save_snapshot, under the file lock: "a late tool/checkpoint result cannot
\* revive a cancelled Work".
Fenced(s) == IF store.state = "CANCELLED" THEN [s EXCEPT !.state = "CANCELLED"] ELSE s

\* Where a process goes on to read the Work again, it has no copy.
Rereads == {"prepared", "entering", "replayed"}

\* The copy of a process as it goes on, and the copies of all others, once the
\* process saved a checkpoint.
Stale(q) == [runner[q] EXCEPT !.fresh = FALSE]
Saves(p, s, at) ==
  /\ store' = Fenced(s)
  /\ runner' = [q \in Processes |->
        IF q # p THEN Stale(q)
        ELSE IF at = "idle" THEN Idle
        ELSE [runner[p] EXCEPT !.at = at, !.call = Nothing, !.replay = FALSE,
                               !.mem = IF at \in Rereads THEN NoWork ELSE Fenced(s),
                               !.fresh = at \notin Rereads]]
  /\ user' = [user EXCEPT !.fresh = FALSE]

\* The process goes on with the latest checkpoint.
Reads(p, at) ==
  runner' = [runner EXCEPT ![p].at = at, ![p].mem = store, ![p].fresh = TRUE]

\* A loop returns; the agent's own checkpoint may rewrite what it read.
Leaves(p, s) ==
  \/ runner' = [runner EXCEPT ![p] = Idle] /\ UNCHANGED <<store, user>>
  \/ Saves(p, s, "idle")

history == <<late, disturbed>>

-----------------------------------------------------------------------------
(* Submission. *)

\* The lock of a submission key.
Held == \E p \in Processes : runner[p].at \in Submitting

\* Mutant: a marker whose Work does not exist counts for nothing.
SubmitUnmade(p) ==
  /\ runner[p].at = "idle" /\ ~Held /\ store = NoWork
  /\ marker' = TRUE
  /\ runner' = [runner EXCEPT ![p].at = "creating", ![p].turn = 0]
  /\ UNCHANGED <<store, user, calls, bounds, history>>

\* The first request with a key saves the marker; a repeated one only reads.
Submit(p) ==
  /\ runner[p].at = "idle" /\ ~Held /\ ~marker
  /\ marker' = TRUE
  /\ runner' = [runner EXCEPT ![p].at = "creating", ![p].turn = 0]
  /\ UNCHANGED <<store, user, calls, bounds, history>>

\* WorkHarness.create: the first save, and those that follow of the same copy.
Create(p) ==
  /\ runner[p].at = "creating"
  /\ \E planned \in Planned : Saves(p, NewWork(planned), "prepared")
  /\ UNCHANGED <<marker, calls, bounds, history>>

\* _submit: the executor runs the new Work, unless the supervisor is closed.
Launch(p) ==
  /\ runner[p].at = "prepared"
  /\ \/ runner' = [runner EXCEPT ![p].at = "entering"]
     \/ runner' = [runner EXCEPT ![p] = Idle]
  /\ UNCHANGED <<marker, store, user, calls, bounds, history>>

-----------------------------------------------------------------------------
(* Resumption. *)

\* resume of a Work that is not over, or failed for want of the runtime.  Another
\* process may be at work on it: only the supervisor of one process keeps count.
Resume(p) ==
  /\ runner[p].at = "idle" /\ store # NoWork /\ bounds.starts > 0
  /\ ~Over(store) \/ (store.state = "FAILED" /\ store.mend)
  /\ Reads(p, "resuming")
  /\ bounds' = [bounds EXCEPT !.starts = @ - 1]
  /\ disturbed' = (disturbed \/ Active # {})
  /\ UNCHANGED <<marker, store, user, calls, late>>

\* require_runtime_recovery of a failed Work.
Mend(p) ==
  /\ runner[p].at = "resuming" /\ runner[p].mem.state = "FAILED"
  /\ Saves(p, [runner[p].mem EXCEPT !.state = "RECOVERY_REQUIRED", !.mend = FALSE],
           "resuming")
  /\ UNCHANGED <<marker, calls, bounds, history>>

\* The bound approval is pending, granted, or neither.
ResumeApproval(p) ==
  LET s == runner[p].mem IN
  /\ runner[p].at = "resuming" /\ s.state # "FAILED" /\ s.policy = "approval"
  /\ \/ runner' = [runner EXCEPT ![p] = Idle] /\ UNCHANGED <<store, user>>
     \/ Saves(p, [s EXCEPT !.state = "ACTIVE", !.policy = "approved"], "entering")
     \/ Saves(p, [s EXCEPT !.state = "BLOCKED"], "idle")
  /\ UNCHANGED <<marker, calls, bounds, history>>

\* An effect with an uncertain outcome is not gone on from.
ResumeDoubt(p) ==
  /\ runner[p].at = "resuming"
  /\ runner[p].mem.state # "FAILED" /\ runner[p].mem.policy = "manual"
  /\ Saves(p, [runner[p].mem EXCEPT !.state = "RECOVERY_REQUIRED"], "idle")
  /\ UNCHANGED <<marker, calls, bounds, history>>

\* Mutant: an interrupted effect is reassessed like an interrupted read.
ResumeAfreshAlways(p) ==
  /\ runner[p].at = "resuming"
  /\ runner[p].mem.state # "FAILED" /\ runner[p].mem.policy # "approval"
  /\ Saves(p, [runner[p].mem EXCEPT !.state = "ACTIVE", !.pending = Nothing,
                                    !.policy = "none"], "entering")
  /\ UNCHANGED <<marker, calls, bounds, history>>

ResumeAfresh(p) ==
  /\ runner[p].at = "resuming"
  /\ runner[p].mem.state # "FAILED"
  /\ runner[p].mem.policy \in {"none", "reissue", "approved"}
  /\ Saves(p, [runner[p].mem EXCEPT !.state = "ACTIVE", !.pending = Nothing,
                                    !.policy = "none"], "entering")
  /\ UNCHANGED <<marker, calls, bounds, history>>

-----------------------------------------------------------------------------
(* The loop. *)

Enter(p) ==
  /\ runner[p].at = "entering"
  /\ Reads(p, "beginning")
  /\ UNCHANGED <<marker, store, user, calls, bounds, history>>

\* ensure_agent saves the copy if it makes a new agent.  A Work that is over ends
\* the loop.  An approved action is carried out first.
Begin(p) ==
  LET s == runner[p].mem
      Goes(t, fresh) ==
         runner' = [q \in Processes |->
            IF q # p THEN IF fresh THEN Stale(q) ELSE runner[q]
            ELSE IF Over(t) THEN Idle
            ELSE IF t.policy = "approved"
            THEN [runner[p] EXCEPT !.at = "decided", !.mem = t, !.fresh = fresh \/ @,
                                   !.replay = TRUE, !.call = t.pending]
            ELSE [runner[p] EXCEPT !.at = "top", !.mem = t, !.fresh = fresh \/ @]]
  IN /\ runner[p].at = "beginning"
     /\ \/ Goes(s, FALSE) /\ UNCHANGED <<store, user>>
        \/ /\ Goes(Fenced(s), TRUE)
           /\ store' = Fenced(s)
           /\ user' = [user EXCEPT !.fresh = FALSE]
     /\ UNCHANGED <<marker, calls, bounds, history>>

\* refresh: the latest checkpoint, if it is not the one in memory.
Latest(p) == IF runner[p].fresh THEN runner[p].mem ELSE store

\* The start of an iteration.
Refresh(p) ==
  /\ runner[p].at = "top" /\ runner[p].turn < MaxIterations
  /\ IF Halted(Latest(p))
     THEN Leaves(p, Latest(p))
     ELSE /\ runner' = [runner EXCEPT ![p].at = "analysing", ![p].turn = @ + 1,
                                     ![p].mem = Latest(p), ![p].fresh = Latest(p) = store]
          /\ UNCHANGED <<store, user>>
  /\ UNCHANGED <<marker, calls, bounds, history>>

\* The end of the last iteration.
Exhaust(p) ==
  /\ runner[p].at \in {"top", "waiting"} /\ runner[p].turn = MaxIterations
  /\ Saves(p, [runner[p].mem EXCEPT !.state = "BLOCKED"], "idle")
  /\ UNCHANGED <<marker, calls, bounds, history>>

Analyse(p) ==
  /\ runner[p].at = "analysing"
  /\ Saves(p, [runner[p].mem EXCEPT !.state = "ACTIVE"], "deliberating")
  /\ UNCHANGED <<marker, calls, bounds, history>>

\* The model gave no decision: for want of the runtime, or for good.
Unanswered(p) ==
  /\ runner[p].at = "deliberating"
  /\ \/ Saves(p, [runner[p].mem EXCEPT !.state = "RECOVERY_REQUIRED"], "idle")
     \/ Saves(p, [runner[p].mem EXCEPT !.state = "FAILED"], "idle")
  /\ UNCHANGED <<marker, calls, bounds, history>>

\* Mutant: the decision is taken whatever was saved meanwhile.
DecideAnyway(p) ==
  /\ runner[p].at = "deliberating"
  /\ runner' = [runner EXCEPT ![p].at = "decided"]
  /\ UNCHANGED <<marker, store, user, calls, bounds, history>>

\* The model decided; the decision is discarded if the Work changed meanwhile.
Decide(p) ==
  /\ runner[p].at = "deliberating"
  /\ IF runner[p].fresh
     THEN runner' = [runner EXCEPT ![p].at = "decided"] /\ UNCHANGED <<store, user>>
     ELSE IF Halted(store) THEN Leaves(p, store)
     ELSE Reads(p, "top") /\ UNCHANGED <<store, user>>
  /\ UNCHANGED <<marker, calls, bounds, history>>

-----------------------------------------------------------------------------
(* Decisions. *)

Decided(p) == runner[p].at = "decided" /\ ~runner[p].replay

\* A read that is covered or repeated is not made, but noted; repeated too often,
\* it blocks the Work.
Suppress(p) ==
  LET s == [runner[p].mem EXCEPT !.recent = Noted(@, "other")] IN
  /\ Decided(p)
  /\ \/ Saves(p, [s EXCEPT !.state = "ACTIVE"], "top")
     \/ Saves(p, [s EXCEPT !.state = "BLOCKED"], "idle")
  /\ UNCHANGED <<marker, calls, bounds, history>>

\* The copy that a decision is carried out on: replace_plan comes first if the
\* decision has another plan.
Replanned(s) == [s EXCEPT !.plan = TRUE, !.recent = Lapsed(@)]
Copies(p) ==
  {runner[p].mem} \cup IF runner[p].replay THEN {} ELSE {Replanned(runner[p].mem)}

\* Nothing is done: the model reasons, or completes while the plan is not done.
Think(p, s) ==
  /\ Decided(p)
  /\ Saves(p, [s EXCEPT !.state = "ACTIVE"], "top")
  /\ UNCHANGED <<marker, calls, bounds, history>>

\* The calls once what s tells of them is verified.
CheckedIn(s) ==
  [c \in Calls |-> [calls[c] EXCEPT
     !.checked = @ \/ (calls[c].entered /\ c \in s.observed)]]

\* _verify, for itself or at a completion that the gate rejects.
Verify(p, s, ok) ==
  /\ Decided(p)
  /\ Saves(p, [s EXCEPT !.state = "ACTIVE",
                        !.recent = Noted(@, IF ok THEN "passed" ELSE "other")], "top")
  /\ calls' = IF ok THEN CheckedIn(s) ELSE calls
  /\ UNCHANGED <<marker, bounds, history>>

\* The model asks, blocks, or fails, for whatever reason it gives.
Halt(p, s, state, mend) ==
  /\ Decided(p)
  /\ mend => state = "FAILED"
  /\ Saves(p, [s EXCEPT !.state = state, !.mend = mend], "idle")
  /\ UNCHANGED <<marker, calls, bounds, history>>

\* Mutant: the gate asks for a verification only after the use of a tool.
RequiredAfterTools(s) == \E i \in 1..Window : s.recent[i] = "tool"

\* What _completion_gate asks: must the Work be verified, and is it?
Required(s) == s.plan \/ Criteria \/ \E i \in 1..Window : s.recent[i] = "tool"
Verified(s) == \E i \in 1..Window : s.recent[i] = "passed"

\* _completion_gate and _complete.
Complete(p, s) ==
  LET t == [s EXCEPT !.state = "COMPLETED"] IN
  /\ Decided(p)
  /\ IF Required(s) /\ ~Verified(s)
     THEN /\ Saves(p, [t EXCEPT !.recent = Noted(@, "passed")], "idle")
          /\ calls' = CheckedIn(s)
     ELSE Saves(p, t, "idle") /\ UNCHANGED calls
  /\ UNCHANGED <<marker, bounds, history>>

PolicyOf(kind) == IF kind \in Reading THEN "reissue" ELSE "manual"

\* The pending action is saved before the call is made.
Dispatch(p, t, c, kind) ==
  /\ runner[p].at = "decided"
  /\ IF runner[p].replay THEN c = runner[p].call /\ kind = calls[c].kind
     ELSE calls[c] = NoCall
  /\ LET s == Fenced([t EXCEPT !.state = "ACTIVE", !.pending = c,
                              !.policy = PolicyOf(kind)])
     IN /\ store' = s
        /\ runner' = [q \in Processes |->
              IF q = p THEN [runner[p] EXCEPT !.at = "dispatched", !.mem = s,
                                              !.fresh = TRUE, !.call = c]
              ELSE Stale(q)]
        /\ user' = [user EXCEPT !.fresh = FALSE]
  /\ calls' = [calls EXCEPT ![c].kind = kind]
  /\ UNCHANGED <<marker, bounds, history>>

-----------------------------------------------------------------------------
(* Calls. *)

EnterCall(p) ==
  /\ runner[p].at = "dispatched"
  /\ runner' = [runner EXCEPT ![p].at = "executing"]
  /\ calls' = [calls EXCEPT ![runner[p].call].entered = TRUE]
  /\ late' = IF store.state = "CANCELLED" THEN late \cup {p} ELSE late
  /\ UNCHANGED <<marker, store, user, bounds, disturbed>>

\* The tool does not exist, is not disclosed, or the agent may not call it.
Deny(p) ==
  LET s == runner[p].mem IN
  /\ runner[p].at = "dispatched"
  /\ Saves(p, [s EXCEPT !.state = "ACTIVE", !.pending = Nothing, !.policy = "none",
                        !.observed = @ \cup {runner[p].call},
                        !.recent = Noted(Lapsed(@), EntryOf(calls[runner[p].call].kind))],
           IF runner[p].replay THEN "replayed" ELSE "top")
  /\ calls' = [calls EXCEPT ![runner[p].call] = [NoCall EXCEPT !.came = "known"]]
  /\ UNCHANGED <<marker, bounds, history>>

\* What a call of each kind can come to, as _execute_tool understands it: its
\* outcome, of success or failure, is known, or not, or it was refused unmade.
Results(kind) == CASE kind \in Reading -> {"known"}
                   [] kind = "write" -> {"known", "uncertain"}
                   [] kind = "network" -> {"known", "uncertain", "refused"}
                   [] OTHER -> {}

\* The copy after a result.  An uncertain effect stays pending, and so does a
\* request that needs an approval.
Observed(s, c, result) ==
  LET t == [s EXCEPT !.observed = @ \cup {c},
                     !.recent = Noted(Lapsed(@), EntryOf(calls[c].kind))] IN
  CASE result = "uncertain" -> [t EXCEPT !.state = "RECOVERY_REQUIRED"]
    [] result = "refused" -> [t EXCEPT !.state = "WAITING_FOR_APPROVAL",
                                       !.policy = "approval"]
    [] OTHER -> [t EXCEPT !.state = "ACTIVE", !.pending = Nothing, !.policy = "none"]

Observe(p, result) ==
  LET c == runner[p].call
      s == Observed(runner[p].mem, c, result)
  IN /\ runner[p].at = "executing"
     /\ result \in Results(calls[c].kind)
     /\ Saves(p, s, IF runner[p].replay THEN "replayed"
                    ELSE IF result = "refused" THEN "waiting"
                    ELSE IF Fenced(s).state = "RECOVERY_REQUIRED" THEN "idle"
                    ELSE "top")
     /\ calls' = [calls EXCEPT ![c].came = result,
                               ![c].entered = @ /\ result # "refused"]
     /\ UNCHANGED <<marker, bounds, history>>

\* After a refusal the agent rests: a loop that finds the Work at work again
\* cannot go on.
Wait(p) ==
  /\ runner[p].at = "waiting" /\ runner[p].turn < MaxIterations
  /\ IF Halted(Latest(p)) THEN Leaves(p, Latest(p))
     ELSE Reads(p, "failing") /\ UNCHANGED <<store, user>>
  /\ UNCHANGED <<marker, calls, bounds, history>>

\* After an approved action the loop goes on with the latest checkpoint, if that
\* does not wait.
Replayed(p) ==
  /\ runner[p].at = "replayed"
  /\ IF store.state \in {"WAITING_FOR_APPROVAL", "RECOVERY_REQUIRED"}
     THEN Leaves(p, store)
     ELSE Reads(p, "closing") /\ UNCHANGED <<store, user>>
  /\ UNCHANGED <<marker, calls, bounds, history>>

\* checkpoint_agent saves that copy before the next iteration.
Close(p) ==
  /\ runner[p].at = "closing"
  /\ Saves(p, runner[p].mem, "top")
  /\ UNCHANGED <<marker, calls, bounds, history>>

-----------------------------------------------------------------------------
(* Errors, deaths and users. *)

Fault == bounds.faults > 0 /\ bounds' = [bounds EXCEPT !.faults = @ - 1]

\* An exception leaves the loop (the storage, the agent's budget).
Raise(p) ==
  /\ Fault
  /\ runner[p].at \in Looping \cup {"resuming"}
  /\ Reads(p, "failing")
  /\ UNCHANGED <<marker, store, user, calls, history>>

\* The supervisor fails a Work whose execution raised, unless it waits.
Fail(p) ==
  LET s == runner[p].mem IN
  /\ runner[p].at = "failing"
  /\ IF Over(s) \/ s.state \in {"PAUSED", "WAITING_FOR_APPROVAL"}
     THEN runner' = [runner EXCEPT ![p] = Idle] /\ UNCHANGED <<store, user>>
     ELSE \E mend \in BOOLEAN :
             Saves(p, [s EXCEPT !.state = "FAILED", !.mend = mend], "idle")
  /\ UNCHANGED <<marker, calls, bounds, history>>

Die(p) ==
  /\ Fault
  /\ runner[p].at # "idle"
  /\ runner' = [runner EXCEPT ![p] = Idle]
  /\ UNCHANGED <<marker, store, user, calls, history>>

\* An operation of a user reads the Work (all begin alike: which one it is, is
\* decided when it saves) ...
Ask ==
  /\ user = NoUser /\ bounds.ops > 0 /\ store # NoWork
  /\ user' = [mem |-> store, fresh |-> TRUE]
  /\ bounds' = [bounds EXCEPT !.ops = @ - 1]
  /\ UNCHANGED <<marker, store, runner, calls, history>>

Changed(s, op) ==
  CASE op = "pause" -> [s EXCEPT !.state = "PAUSED"]
    [] op = "steer" -> [s EXCEPT !.state = "ACTIVE",
                                !.recent = IF s.plan THEN Lapsed(@) ELSE @]
    [] op = "cancel" -> [s EXCEPT !.state = "CANCELLED"]
    [] OTHER -> s

\* The ways in which the account of effects can be lost: a user's operation
\* replaces a checkpoint it has not read, two processes work on one Work, or the
\* Work is steered before a loop has left after an approved action whose outcome
\* is uncertain.
Disturbs(op) ==
  \/ ~user.fresh
  \/ /\ op = "steer" /\ store.policy = "manual"
     /\ \E p \in Processes : runner[p].at \in {"replayed", "top"}

\* ... and saves it.  Only the configuration of a Work that is over may change.
Apply(op) ==
  /\ user # NoUser
  /\ op # "configure" => ~Over(user.mem)
  /\ store' = Fenced(Changed(user.mem, op))
  /\ user' = NoUser
  /\ runner' = [q \in Processes |-> Stale(q)]
  /\ disturbed' = (disturbed \/ Disturbs(op))
  /\ UNCHANGED <<marker, calls, bounds, late>>

-----------------------------------------------------------------------------
Step(p) ==
  \/ Submit(p) \/ Create(p) \/ Launch(p)
  \/ Resume(p) \/ Mend(p) \/ ResumeApproval(p) \/ ResumeDoubt(p) \/ ResumeAfresh(p)
  \/ Enter(p) \/ Begin(p) \/ Refresh(p) \/ Exhaust(p) \/ Analyse(p)
  \/ Unanswered(p) \/ Decide(p)
  \/ Suppress(p)
  \/ \E s \in Copies(p) :
        \/ Think(p, s) \/ Complete(p, s)
        \/ \E ok \in BOOLEAN : Verify(p, s, ok)
        \/ \E state \in {"PAUSED", "WAITING_FOR_APPROVAL", "BLOCKED", "FAILED"},
              mend \in BOOLEAN : Halt(p, s, state, mend)
        \/ \E c \in Calls, kind \in Kinds : Dispatch(p, s, c, kind)
  \/ EnterCall(p) \/ Deny(p)
  \/ \E result \in Outcomes : Observe(p, result)
  \/ Wait(p) \/ Replayed(p) \/ Close(p)
  \/ Raise(p) \/ Fail(p) \/ Die(p)

Next ==
  \/ \E p \in Processes : Step(p)
  \/ Ask
  \/ \E op \in Operations : Apply(op)

Spec == Init /\ [][Next]_vars

-----------------------------------------------------------------------------
(* Properties. *)

\* A submission whose marker is saved and whose process is gone never makes a Work
\* afterwards: whatever is repeated, its initialization stays unknown.
\* (_start_submission: "even an incomplete first initialization cannot cause
\* automatic creation, resume or execution".)
SubmissionFenced ==
  [][marker /\ ~Held /\ store = NoWork => store' = NoWork /\ ~Held']_vars

\* A cancellation that is stored is never lost, whoever saves which copy, and a loop
\* begins at most one call after it: the one it had decided on.
\* (_save_snapshot: "fence future admission".)
CancellationHolds ==
  [][store.state = "CANCELLED" =>
       /\ store'.state = "CANCELLED"
       /\ \A p \in Processes :
             runner[p].at = "dispatched" /\ runner'[p].at = "executing" => p \notin late]_vars

\* A loop that is deliberating when the Work is paused, or comes to wait, acts on
\* no decision: it leaves.  (cli.py pause: "at the next Work loop boundary".)
PauseStopsDecision ==
  [][\A p \in Processes :
        runner[p].at = "deliberating" /\ store.state \in Stops =>
           runner'[p].at \in {"deliberating", "failing", "idle"}]_vars

\* An effect that began and whose outcome is not known: it was uncertain, or its
\* process is gone.
InDoubt(c) ==
  /\ calls[c].kind \notin Reading /\ calls[c].entered
  /\ \/ calls[c].came = "uncertain"
     \/ /\ calls[c].came \in {"open", "refused"}
        /\ ~\E p \in Processes : runner[p].at = "executing" /\ runner[p].call = c

\* An effect in doubt blocks every later call of the Work, over deaths, errors,
\* resumptions, approvals and what users do.  (resume: "an effectful tool call has
\* an uncertain outcome; Kernel or manual recovery evidence is required".)
DoubtBlocks ==
  [][~disturbed /\ (\E c \in Calls : InDoubt(c)) =>
        \A p \in Processes : runner[p].at = "dispatched" =>
           runner'[p].at # "executing"]_vars

\* A Work that is told as completed knows what every effect it began came to; if it
\* has a plan or criteria, it was verified after the last of them.
CompletedKnows ==
  store.state = "COMPLETED" /\ ~disturbed =>
     \A c \in Calls : calls[c].entered /\ calls[c].kind \notin Reading =>
        /\ c \in store.observed /\ ~InDoubt(c)
        /\ store.plan \/ Criteria => calls[c].checked
=============================================================================
