--------------------------- MODULE WorkRun_proofs ---------------------------
(***************************************************************************)
(* Submissions are fenced, cancellations hold, a pause stops the decision  *)
(* under way, and no call and no completion passes an effect in doubt, for *)
(* any number of processes and calls and any budget of iterations,         *)
(* resumptions, faults and operations.                                     *)
(*                                                                         *)
(* RunInv says what each process may hold on to (Fits): a copy is called   *)
(* fresh only while it is the latest checkpoint, nobody but the submitter  *)
(* acts before there is a Work, and a process that began a call of a       *)
(* cancelled Work is on its way out.                                       *)
(*                                                                         *)
(* KnowInv says of an undisturbed Work that it has one process, whose copy *)
(* gives the stored account of calls, and that an effect which began and   *)
(* is not known to have come to anything is the pending action, with a     *)
(* process that is about to leave (Account); and that where a passed       *)
(* verification is still among the observations kept, in the checkpoint or *)
(* in the copy, it came after every effect that is known (Vouched).        *)
(***************************************************************************)
EXTENDS WorkRun, TLAPS

\* Where a process can be that began a call of a cancelled Work.
Leaving == {"executing", "replayed", "closing", "top", "waiting", "failing", "idle"}

\* A process in state r suits a checkpoint s.
Fits(r, s) ==
  /\ r \in Runners
  /\ r.at \in {"dispatched", "executing"} => r.call \in Calls
  /\ r.fresh => r.mem = s
  /\ s = NoWork => r.at \in {"idle", "creating"}
  /\ r.at \in {"beginning", "closing"} => r.mem.state # "NONE"
  /\ r.at = "deliberating" => r.mem.state \in {"ACTIVE", "CANCELLED"}

Typed(c, b, d) ==
  /\ c \in [Calls -> CallRecords]
  /\ b \in [starts : 0..MaxStarts, faults : 0..MaxFaults, ops : 0..MaxOps]
  /\ d \in BOOLEAN

Marked ==
  /\ marker \in BOOLEAN
  /\ \A p \in Processes : runner[p].at # "idle" => marker
  /\ store # NoWork => marker

Stored ==
  /\ store \in Snapshots
  /\ store.state = "NONE" => store = NoWork

Asked ==
  /\ user \in Users
  /\ user # NoUser => store # NoWork /\ user.mem.state # "NONE"

Late ==
  /\ late \subseteq Processes
  /\ \A p \in late : store.state = "CANCELLED" /\ runner[p].at \in Leaving

RunInv ==
  /\ Typed(calls, bounds, disturbed)
  /\ Marked /\ Stored /\ Asked /\ Late
  /\ runner \in [Processes -> Runners]
  /\ \A p \in Processes : Fits(runner[p], store)

-----------------------------------------------------------------------------
(* Checkpoints. *)

\* What a checkpoint keeps of the observations, after another one and after a change.
LEMMA WindowIs ==
  ASSUME NEW recent \in Windows
  PROVE  /\ \A entry \in {"tool", "passed", "other"} : Noted(recent, entry) \in Windows
         /\ Lapsed(recent) \in Windows
         /\ \A i \in 1..Window : Lapsed(recent)[i] # "passed"
<1>1. \A entry \in {"tool", "passed", "other"} : Noted(recent, entry) \in Windows
  BY WorkAssumption DEF Windows, Noted
<1>2. Lapsed(recent) \in Windows BY DEF Windows, Lapsed
<1>3. \A i \in 1..Window : Lapsed(recent)[i] # "passed" BY DEF Windows, Lapsed
<1> QED BY <1>1, <1>2, <1>3

LEMMA NoWorkTyped == NoWork \in Snapshots /\ NoWork.state = "NONE"
<1>1. [i \in 1..Window |-> "other"] \in Windows BY DEF Windows
<1> QED BY <1>1 DEF NoWork, Snapshots

LEMMA IdleFits ==
  ASSUME NEW s PROVE Fits(Idle, s)
<1>1. MaxIterations - MaxResumed \in 0..MaxIterations BY WorkAssumption
<1> QED BY <1>1, NoWorkTyped DEF Fits, Idle, Runners

\* What is saved is typed, is a Work, and is cancelled if the Work was.
LEMMA FencedIs ==
  ASSUME RunInv, NEW s \in Snapshots, s.state # "NONE"
  PROVE  /\ Fenced(s) \in Snapshots /\ Fenced(s).state # "NONE" /\ Fenced(s) # NoWork
         /\ store.state = "CANCELLED" => Fenced(s).state = "CANCELLED"
         /\ Fenced(s).state \in {s.state, "CANCELLED"}
<1>1. Fenced(s) \in Snapshots BY DEF Fenced, Snapshots, Ends
<1>2. Fenced(s).state = IF store.state = "CANCELLED" THEN "CANCELLED" ELSE s.state
  BY DEF Fenced, Snapshots
<1> QED BY <1>1, <1>2, NoWorkTyped

\* A step of p: it keeps the invariant and a cancellation, and moves no other process.
Kept(p) ==
  /\ RunInv'
  /\ store.state = "CANCELLED" => store'.state = "CANCELLED"
  /\ \A q \in Processes \ {p} : runner'[q].at = runner[q].at

\* A save by a process that goes on in state r.
LEMMA SaveKeeps ==
  ASSUME RunInv, NEW p \in Processes, NEW s \in Snapshots, s.state # "NONE", NEW r,
         Fits(r, Fenced(s)), runner[p].at # "idle", p \in late => r.at \in Leaving,
         store' = Fenced(s), user' = [user EXCEPT !.fresh = FALSE],
         runner' = [q \in Processes |-> IF q = p THEN r ELSE Stale(q)],
         marker' = marker, late' = late, Typed(calls', bounds', disturbed')
  PROVE  Kept(p)
<1>1. /\ store' \in Snapshots /\ store'.state # "NONE" /\ store' # NoWork
      /\ store.state = "CANCELLED" => store'.state = "CANCELLED"
  BY FencedIs
<1>2. marker /\ marker \in BOOLEAN BY DEF RunInv, Marked
<1>3. ASSUME NEW q \in Processes, q # p
      PROVE  /\ runner'[q] \in Runners /\ runner'[q].at = runner[q].at
             /\ runner'[q].mem = runner[q].mem /\ runner'[q].call = runner[q].call
             /\ ~runner'[q].fresh
  <2>1. runner'[q] = [runner[q] EXCEPT !.fresh = FALSE] BY <1>3 DEF Stale
  <2>2. runner[q] \in Runners BY DEF RunInv
  <2> QED BY <2>1, <2>2 DEF Runners
<1>4. runner'[p] = r /\ r \in Runners BY DEF Fits
<1>5. ASSUME NEW q \in Processes PROVE Fits(runner'[q], store')
  <2>1. CASE q = p BY <2>1, <1>4
  <2>2. CASE q # p
    <3>1. Fits(runner[q], store) BY DEF RunInv
    <3> QED BY <2>2, <3>1, <1>1, <1>3 DEF Fits
  <2> QED BY <2>1, <2>2
<1>6. runner' \in [Processes -> Runners] BY <1>3, <1>4
<1>7. Late' BY <1>1, <1>3, <1>4 DEF RunInv, Late
<1>8. Asked'
  <2>1. user \in Users BY DEF RunInv, Asked
  <2>2. user' \in Users /\ user'.mem = user.mem
    BY <2>1 DEF Users
  <2>3. [NoUser EXCEPT !.fresh = FALSE] = NoUser
    <3>1. \A x \in Users : ~x.fresh => [x EXCEPT !.fresh = FALSE] = x BY DEF Users
    <3>2. NoUser \in Users /\ ~NoUser.fresh BY NoWorkTyped DEF NoUser, Users
    <3> QED BY <3>1, <3>2
  <2>4. user' # NoUser => user # NoUser BY <2>3
  <2> QED BY <2>2, <2>4, <1>1 DEF RunInv, Asked
<1> QED BY <1>1, <1>2, <1>3, <1>5, <1>6, <1>7, <1>8 DEF Kept, RunInv, Marked, Stored

\* A step of a process to state r that saves nothing.
LEMMA MoveKeeps ==
  ASSUME RunInv, NEW p \in Processes, NEW r, Fits(r, store), r.at # "idle" => marker',
         runner' = [runner EXCEPT ![p] = r],
         store' = store, user' = user, marker' \in BOOLEAN, marker => marker',
         Typed(calls', bounds', disturbed'),
         late' \in {late, late \cup {p}},
         p \in late' => store.state = "CANCELLED" /\ r.at \in Leaving
  PROVE  Kept(p)
<1>1. runner'[p] = r /\ \A q \in Processes : q # p => runner'[q] = runner[q]
  BY DEF RunInv
<1>2. runner' \in [Processes -> Runners] BY DEF RunInv, Fits
<1>3. \A q \in Processes : Fits(runner'[q], store') BY <1>1 DEF RunInv
<1>4. Late' BY <1>1 DEF RunInv, Late
<1>5. Asked' /\ Stored' BY DEF RunInv, Asked, Stored
<1>6. Marked' BY <1>1 DEF RunInv, Marked
<1> QED BY <1>1, <1>2, <1>3, <1>4, <1>5, <1>6 DEF Kept, RunInv

\* The process goes on at a place with a copy.
Onwards(r, at, mem, fresh) ==
  [r EXCEPT !.at = at, !.call = Nothing, !.replay = FALSE, !.mem = mem, !.fresh = fresh]

LEMMA OnwardsTyped ==
  ASSUME NEW r \in Runners, NEW at \in {"idle", "resuming", "failing"} \cup Submitting
                                              \cup (Looping \ {"dispatched", "executing"}),
         NEW mem \in Snapshots, NEW fresh \in BOOLEAN
  PROVE  /\ Onwards(r, at, mem, fresh) \in Runners
         /\ Onwards(r, at, mem, fresh).fresh = fresh
         /\ Onwards(r, at, mem, fresh).mem = mem
  BY DEF Runners, Onwards

LEMMA SavesKeep ==
  ASSUME RunInv, NEW p \in Processes, NEW s \in Snapshots, s.state # "NONE",
         NEW at \in {"idle", "resuming", "failing"} \cup Submitting
                      \cup (Looping \ {"dispatched", "executing"}),
         Saves(p, s, at), runner[p].at # "idle",
         at = "deliberating" => s.state = "ACTIVE", p \in late => at \in Leaving,
         marker' = marker, late' = late, Typed(calls', bounds', disturbed')
  PROVE  Kept(p)
<1> DEFINE r == IF at = "idle" THEN Idle
                ELSE [runner[p] EXCEPT !.at = at, !.call = Nothing, !.replay = FALSE,
                        !.mem = IF at \in Rereads THEN NoWork ELSE Fenced(s),
                        !.fresh = at \notin Rereads]
<1>1. runner' = [q \in Processes |-> IF q = p THEN r ELSE Stale(q)]
  BY DEF Saves
<1>2. /\ Fenced(s) \in Snapshots /\ Fenced(s).state # "NONE" /\ Fenced(s) # NoWork
      /\ Fenced(s).state \in {s.state, "CANCELLED"}
  BY FencedIs
<1>3. r.at = at BY DEF Idle, RunInv, Runners
<1>4. /\ r \in Runners
      /\ r.fresh => r.mem = Fenced(s)
      /\ at \notin Rereads \cup {"idle"} => r.mem = Fenced(s)
  <2>1. CASE at = "idle" BY <2>1, IdleFits DEF Fits, Idle
  <2>2. CASE at # "idle"
    <3>1. runner[p] \in Runners BY DEF RunInv
    <3> DEFINE m == IF at \in Rereads THEN NoWork ELSE Fenced(s)
    <3>2. m \in Snapshots /\ (at \notin Rereads => m = Fenced(s)) BY <1>2, NoWorkTyped
    <3> DEFINE f == at \notin Rereads
    <3>3. r = Onwards(runner[p], at, m, f) BY <2>2 DEF Onwards
    <3>4. f \in BOOLEAN OBVIOUS
    <3> HIDE DEF m, r
    <3>5. r \in Runners /\ r.fresh = f /\ r.mem = m
      <4> HIDE DEF f
      <4> QED BY <3>1, <3>2, <3>3, <3>4, OnwardsTyped
    <3> QED BY <3>2, <3>4, <3>5
  <2> QED BY <2>1, <2>2
<1>5. store' = Fenced(s) /\ user' = [user EXCEPT !.fresh = FALSE] BY DEF Saves
<1> HIDE DEF r
<1>6. Fits(r, Fenced(s))
  BY <1>2, <1>3, <1>4 DEF Fits, Rereads, Submitting, Looping
<1> QED BY <1>1, <1>3, <1>5, <1>6, SaveKeeps

\* A process reads the latest checkpoint and goes on at another place.
LEMMA ReadsKeep ==
  ASSUME RunInv, NEW p \in Processes, store # NoWork,
         NEW at \in {"resuming", "failing", "beginning", "top", "closing"},
         Reads(p, at), marker' = marker, store' = store, user' = user, late' = late,
         p \in late => at \in Leaving, Typed(calls', bounds', disturbed')
  PROVE  Kept(p)
<1> DEFINE r == [runner[p] EXCEPT !.at = at, !.mem = store, !.fresh = TRUE]
<1>1. runner' = [runner EXCEPT ![p] = r] BY DEF Reads
<1>2. runner[p] \in Runners /\ store \in Snapshots /\ store.state # "NONE" /\ marker
      /\ marker \in BOOLEAN
  BY DEF RunInv, Stored, Marked
<1>3. r \in Runners /\ r.at = at /\ r.mem = store
  BY <1>2 DEF Runners, Submitting, Looping
<1>4. Fits(r, store) BY <1>2, <1>3 DEF Fits
<1>5. p \in late => store.state = "CANCELLED" BY DEF RunInv, Late
<1> HIDE DEF r
<1> QED BY <1>1, <1>2, <1>3, <1>4, <1>5, MoveKeeps

LEMMA RestKeeps ==
  ASSUME RunInv, NEW p \in Processes, runner' = [runner EXCEPT ![p] = Idle],
         marker' = marker, store' = store, user' = user, late' = late,
         Typed(calls', bounds', disturbed')
  PROVE  Kept(p)
<1>1. Fits(Idle, store) /\ Idle.at = "idle" BY IdleFits DEF Idle
<1>2. marker \in BOOLEAN BY DEF RunInv, Marked
<1>3. p \in late' => store.state = "CANCELLED" /\ Idle.at \in Leaving
  BY <1>1 DEF RunInv, Late, Leaving
<1> QED BY <1>1, <1>2, <1>3, MoveKeeps

LEMMA LeavesKeep ==
  ASSUME RunInv, NEW p \in Processes, NEW s \in Snapshots, s.state # "NONE",
         Leaves(p, s), runner[p].at # "idle",
         marker' = marker, late' = late, Typed(calls', bounds', disturbed')
  PROVE  Kept(p)
<1>1. CASE runner' = [runner EXCEPT ![p] = Idle] /\ UNCHANGED <<store, user>>
  BY <1>1, RestKeeps
<1>2. CASE Saves(p, s, "idle")
  <2>1. "idle" \in Leaving BY DEF Leaving
  <2> QED BY <1>2, <2>1, SavesKeep
<1> QED BY <1>1, <1>2 DEF Leaves

\* What is known of a process that is at work on a Work.
LEMMA AtWork ==
  ASSUME RunInv, NEW p \in Processes
  PROVE  /\ runner[p] \in Runners /\ runner[p].mem \in Snapshots
         /\ runner[p].at \notin {"idle", "creating"} =>
              store # NoWork /\ store.state # "NONE"
         /\ store \in Snapshots
         /\ Latest(p) = store
         /\ p \in late => store.state = "CANCELLED" /\ runner[p].at \in Leaving
<1>1. runner[p] \in Runners /\ Fits(runner[p], store) BY DEF RunInv
<1>2. runner[p].mem \in Snapshots BY <1>1 DEF Runners
<1> QED BY <1>1, <1>2 DEF RunInv, Fits, Stored, Late, Latest

\* Changing fields of a checkpoint leaves a checkpoint.
States == {"ACTIVE"} \cup Stops \cup Ends

LEMMA StateNames ==
  /\ {"PAUSED", "WAITING_FOR_APPROVAL", "BLOCKED", "RECOVERY_REQUIRED"} \subseteq States
  /\ {"ACTIVE", "COMPLETED", "FAILED", "CANCELLED"} \subseteq States
  /\ "NONE" \notin States
  BY DEF States, Stops, Ends

InState(s, state) == [s EXCEPT !.state = state]
InStateMend(s, state, b) == [s EXCEPT !.state = state, !.mend = b]
InStateNoted(s, state, recent) == [s EXCEPT !.state = state, !.recent = recent]
InStatePolicy(s, state, policy) == [s EXCEPT !.state = state, !.policy = policy]
InStatePending(s, state, c, policy) ==
  [s EXCEPT !.state = state, !.pending = c, !.policy = policy]

LEMMA InStateIs ==
  ASSUME NEW s \in Snapshots, NEW state \in States
  PROVE  InState(s, state) \in Snapshots /\ InState(s, state).state = state
  BY DEF Snapshots, States, InState

LEMMA InStateMendIs ==
  ASSUME NEW s \in Snapshots, NEW state \in States, NEW b \in BOOLEAN
  PROVE  InStateMend(s, state, b) \in Snapshots /\ InStateMend(s, state, b).state = state
  BY DEF Snapshots, States, InStateMend

LEMMA InStateNotedIs ==
  ASSUME NEW s \in Snapshots, NEW state \in States, NEW recent \in Windows
  PROVE  /\ InStateNoted(s, state, recent) \in Snapshots
         /\ InStateNoted(s, state, recent).state = state
         /\ InStateNoted(s, state, recent).recent = recent
         /\ InStateNoted(s, state, recent).plan = s.plan
  BY DEF Snapshots, States, InStateNoted

LEMMA InStatePolicyIs ==
  ASSUME NEW s \in Snapshots, NEW state \in States,
         NEW policy \in {"none", "reissue", "manual", "approval", "approved"}
  PROVE  /\ InStatePolicy(s, state, policy) \in Snapshots
         /\ InStatePolicy(s, state, policy).state = state
  BY DEF Snapshots, States, InStatePolicy

LEMMA InStatePendingIs ==
  ASSUME NEW s \in Snapshots, NEW state \in States, NEW c \in Calls \cup {Nothing},
         NEW policy \in {"none", "reissue", "manual", "approval", "approved"}
  PROVE  /\ InStatePending(s, state, c, policy) \in Snapshots
         /\ InStatePending(s, state, c, policy).state = state
  BY DEF Snapshots, States, InStatePending

LEMMA NewWorkIs ==
  ASSUME NEW planned \in Planned
  PROVE  /\ NewWork(planned) \in Snapshots /\ NewWork(planned).state = "ACTIVE"
         /\ NewWork(planned).policy = "none" /\ ~Verified(NewWork(planned))
<1>1. NoWork \in Snapshots /\ NoWork.policy = "none"
      /\ NoWork.recent = [i \in 1..Window |-> "other"]
  BY NoWorkTyped DEF NoWork
<1>2. planned \in BOOLEAN BY WorkAssumption
<1>3. /\ NewWork(planned) \in Snapshots /\ NewWork(planned).state = "ACTIVE"
      /\ NewWork(planned).policy = "none" /\ NewWork(planned).recent = NoWork.recent
  BY <1>1, <1>2 DEF NewWork, Snapshots
<1> QED BY <1>1, <1>3 DEF Verified

LEMMA SubmissionSteps ==
  ASSUME RunInv, NEW p \in Processes, Submit(p) \/ Create(p) \/ Launch(p)
  PROVE  Kept(p)
<1>1. CASE Submit(p)
  <2> DEFINE r == [runner[p] EXCEPT !.at = "creating", !.turn = 0]
  <2>1. runner[p] \in Runners /\ Fits(runner[p], store) BY DEF RunInv
  <2>2. /\ runner' = [runner EXCEPT ![p] = r] /\ marker' = TRUE /\ p \notin late
        /\ UNCHANGED <<store, user, calls, bounds, late, disturbed>>
    BY <1>1, AtWork, NoWorkTyped DEF Submit, history, RunInv, Marked
  <2>3. r \in Runners /\ r.at = "creating" /\ r.fresh = runner[p].fresh
        /\ r.mem = runner[p].mem
    <3>1. 0 \in 0..MaxIterations BY WorkAssumption
    <3> QED BY <2>1, <3>1 DEF Runners, Submitting
  <2>4. Fits(r, store) BY <2>1, <2>3 DEF Fits, Submitting
  <2>5. Typed(calls', bounds', disturbed') BY <2>2 DEF RunInv, Typed
  <2> HIDE DEF r
  <2> QED BY <2>2, <2>4, <2>5, MoveKeeps
<1>2. CASE Create(p)
  <2> PICK planned \in Planned : Saves(p, NewWork(planned), "prepared")
    BY <1>2 DEF Create
  <2>1. NewWork(planned) \in Snapshots /\ NewWork(planned).state = "ACTIVE"
    BY NewWorkIs
  <2>2. /\ runner[p].at = "creating"
        /\ UNCHANGED <<marker, calls, bounds, late, disturbed>>
    BY <1>2 DEF Create, history
  <2>3. Typed(calls', bounds', disturbed') BY <2>2 DEF RunInv, Typed
  <2>4. p \notin late BY <2>2, AtWork DEF Leaving
  <2> QED BY <2>1, <2>2, <2>3, <2>4, SavesKeep DEF Submitting
<1>3. CASE Launch(p)
  <2>1. /\ runner[p].at = "prepared" /\ UNCHANGED <<marker, store, user, late>>
        /\ \/ runner' = [runner EXCEPT ![p].at = "entering"]
           \/ runner' = [runner EXCEPT ![p] = Idle]
    BY <1>3 DEF Launch, history
  <2>2. Typed(calls', bounds', disturbed') BY <1>3 DEF Launch, history, RunInv, Typed
  <2>3. CASE runner' = [runner EXCEPT ![p] = Idle] BY <2>1, <2>2, <2>3, RestKeeps
  <2>4. CASE runner' = [runner EXCEPT ![p].at = "entering"]
    <3> DEFINE r == [runner[p] EXCEPT !.at = "entering"]
    <3>1. runner[p] \in Runners /\ Fits(runner[p], store) /\ p \notin late
      BY <2>1, AtWork DEF RunInv, Leaving
    <3>2. runner' = [runner EXCEPT ![p] = r] BY <2>4
    <3>3. r \in Runners /\ r.at = "entering" /\ r.fresh = runner[p].fresh
          /\ r.mem = runner[p].mem
      BY <3>1 DEF Runners, Looping
    <3>4. store # NoWork BY <2>1, <3>1 DEF Fits
    <3>5. Fits(r, store) BY <3>1, <3>3, <3>4 DEF Fits
    <3>6. marker /\ marker \in BOOLEAN BY <2>1 DEF RunInv, Marked
    <3> HIDE DEF r
    <3> QED BY <2>1, <2>2, <3>1, <3>2, <3>5, <3>6, MoveKeeps
  <2> QED BY <2>1, <2>3, <2>4
<1> QED BY <1>1, <1>2, <1>3

LEMMA ResumptionSteps ==
  ASSUME RunInv, NEW p \in Processes,
         \/ Resume(p) \/ Mend(p) \/ ResumeApproval(p) \/ ResumeDoubt(p) \/ ResumeAfresh(p)
  PROVE  Kept(p)
<1>0. /\ runner[p] \in Runners /\ runner[p].mem \in Snapshots
      /\ p \in late => store.state = "CANCELLED" /\ runner[p].at \in Leaving
  BY AtWork
<1>1. CASE Resume(p)
  <2>1. /\ store # NoWork /\ Reads(p, "resuming")
        /\ UNCHANGED <<marker, store, user, calls, late>>
        /\ bounds' = [bounds EXCEPT !.starts = @ - 1] /\ bounds.starts > 0
        /\ disturbed' = (disturbed \/ Active # {})
    BY <1>1 DEF Resume
  <2>2. Typed(calls', bounds', disturbed') BY <2>1, WorkAssumption DEF RunInv, Typed
  <2>3. p \notin late BY <1>0, <1>1 DEF Resume, Over, Ends
  <2> QED BY <2>1, <2>2, <2>3, ReadsKeep
<1>2. CASE Mend(p)
  <2> DEFINE s == InStateMend(runner[p].mem, "RECOVERY_REQUIRED", FALSE)
  <2>1. /\ runner[p].at = "resuming" /\ Saves(p, s, "resuming")
        /\ UNCHANGED <<marker, calls, bounds, late, disturbed>>
    BY <1>2 DEF Mend, history, InStateMend
  <2>2. s \in Snapshots /\ s.state = "RECOVERY_REQUIRED"
    BY <1>0, StateNames, InStateMendIs
  <2>3. Typed(calls', bounds', disturbed') /\ p \notin late
    BY <1>0, <2>1 DEF RunInv, Typed, Leaving
  <2> HIDE DEF s
  <2> QED BY <2>1, <2>2, <2>3, SavesKeep
<1>3. CASE ResumeApproval(p)
  <2> DEFINE s == InStatePolicy(runner[p].mem, "ACTIVE", "approved")
             t == InState(runner[p].mem, "BLOCKED")
  <2>1. /\ runner[p].at = "resuming" /\ UNCHANGED <<marker, calls, bounds, late, disturbed>>
        /\ \/ runner' = [runner EXCEPT ![p] = Idle] /\ UNCHANGED <<store, user>>
           \/ Saves(p, s, "entering")
           \/ Saves(p, t, "idle")
    BY <1>3 DEF ResumeApproval, history, InState, InStatePolicy
  <2>2. /\ s \in Snapshots /\ s.state = "ACTIVE"
        /\ t \in Snapshots /\ t.state = "BLOCKED"
    <3>1. "ACTIVE" \in States /\ "BLOCKED" \in States BY StateNames
    <3> QED BY <1>0, <3>1, InStateIs, InStatePolicyIs
  <2>3. Typed(calls', bounds', disturbed') /\ p \notin late
    BY <1>0, <2>1 DEF RunInv, Typed, Leaving
  <2> HIDE DEF s, t
  <2>4. "entering" \in Looping \ {"dispatched", "executing"} BY DEF Looping
  <2> QED BY <2>1, <2>2, <2>3, <2>4, RestKeeps, SavesKeep
<1>4. CASE ResumeDoubt(p)
  <2> DEFINE s == InState(runner[p].mem, "RECOVERY_REQUIRED")
  <2>1. /\ runner[p].at = "resuming" /\ Saves(p, s, "idle")
        /\ UNCHANGED <<marker, calls, bounds, late, disturbed>>
    BY <1>4 DEF ResumeDoubt, history, InState
  <2>2. s \in Snapshots /\ s.state = "RECOVERY_REQUIRED" BY <1>0, StateNames, InStateIs
  <2>3. Typed(calls', bounds', disturbed') /\ p \notin late
    BY <1>0, <2>1 DEF RunInv, Typed, Leaving
  <2> HIDE DEF s
  <2> QED BY <2>1, <2>2, <2>3, SavesKeep
<1>5. CASE ResumeAfresh(p)
  <2> DEFINE s == InStatePending(runner[p].mem, "ACTIVE", Nothing, "none")
  <2>1. /\ runner[p].at = "resuming" /\ Saves(p, s, "entering")
        /\ UNCHANGED <<marker, calls, bounds, late, disturbed>>
    BY <1>5 DEF ResumeAfresh, history, InStatePending
  <2>2. s \in Snapshots /\ s.state = "ACTIVE" BY <1>0, StateNames, InStatePendingIs
  <2>3. Typed(calls', bounds', disturbed') /\ p \notin late
    BY <1>0, <2>1 DEF RunInv, Typed, Leaving
  <2> HIDE DEF s
  <2>4. "entering" \in Looping \ {"dispatched", "executing"} BY DEF Looping
  <2> QED BY <2>1, <2>2, <2>3, <2>4, SavesKeep
<1> QED BY <1>1, <1>2, <1>3, <1>4, <1>5

\* A save after which the process rests, and which changes nothing else.
LEMMA SaveAndRest ==
  ASSUME RunInv, NEW p \in Processes, runner[p].at # "idle",
         NEW s \in Snapshots, s.state # "NONE", Saves(p, s, "idle"),
         UNCHANGED <<marker, calls, bounds, late, disturbed>>
  PROVE  Kept(p)
<1>1. Typed(calls', bounds', disturbed') BY DEF RunInv, Typed
<1>2. "idle" \in Leaving BY DEF Leaving
<1> QED BY <1>1, <1>2, SavesKeep

\* A save by a process that goes on, where no late process is.
LEMMA SaveAndGo ==
  ASSUME RunInv, NEW p \in Processes, runner[p].at \notin Leaving,
         NEW s \in Snapshots, s.state # "NONE",
         NEW at \in {"top", "analysing", "deliberating"}, Saves(p, s, at),
         at = "deliberating" => s.state = "ACTIVE",
         UNCHANGED <<marker, calls, bounds, late, disturbed>>
  PROVE  Kept(p)
<1>1. Typed(calls', bounds', disturbed') BY DEF RunInv, Typed
<1>2. p \notin late /\ runner[p].at # "idle" BY AtWork DEF Leaving
<1>3. at \in Looping \ {"dispatched", "executing"} BY DEF Looping
<1> QED BY <1>1, <1>2, <1>3, SavesKeep

LEMMA BeginStep ==
  ASSUME RunInv, NEW p \in Processes, Begin(p) PROVE Kept(p)
<1> DEFINE s == runner[p].mem
           Next1(t, fresh) ==
             IF Over(t) THEN Idle
             ELSE IF t.policy = "approved"
             THEN [runner[p] EXCEPT !.at = "decided", !.mem = t, !.fresh = fresh \/ @,
                                    !.replay = TRUE, !.call = t.pending]
             ELSE [runner[p] EXCEPT !.at = "top", !.mem = t, !.fresh = fresh \/ @]
<1>0. /\ runner[p] \in Runners /\ s \in Snapshots /\ runner[p].at = "beginning"
      /\ s.state # "NONE" /\ Fits(runner[p], store) /\ store # NoWork
      /\ p \notin late /\ UNCHANGED <<marker, calls, bounds, late, disturbed>>
  BY AtWork DEF Begin, history, RunInv, Fits, Leaving
<1>1. Typed(calls', bounds', disturbed') BY <1>0 DEF RunInv, Typed
<1>2. marker /\ marker \in BOOLEAN BY <1>0 DEF RunInv, Marked
<1>3. \A t \in Snapshots, fresh \in BOOLEAN :
        /\ Next1(t, fresh) \in Runners
        /\ Next1(t, fresh).at \in {"idle", "decided", "top"}
        /\ Next1(t, fresh).fresh => Next1(t, fresh).mem = t /\ (fresh \/ runner[p].fresh)
  <2> SUFFICES ASSUME NEW t \in Snapshots, NEW fresh \in BOOLEAN
               PROVE  /\ Next1(t, fresh) \in Runners
                      /\ Next1(t, fresh).at \in {"idle", "decided", "top"}
                      /\ Next1(t, fresh).fresh =>
                           Next1(t, fresh).mem = t /\ (fresh \/ runner[p].fresh)
    OBVIOUS
  <2>1. CASE Over(t)
    BY <2>1, IdleFits DEF Fits, Idle
  <2>2. CASE ~Over(t) /\ t.policy = "approved"
    <3>1. t.pending \in Calls \cup {Nothing} BY DEF Snapshots
    <3>2. (fresh \/ runner[p].fresh) \in BOOLEAN OBVIOUS
    <3> QED BY <1>0, <2>2, <3>1, <3>2 DEF Runners, Looping
  <2>3. CASE ~Over(t) /\ t.policy # "approved"
    BY <1>0, <2>3 DEF Runners, Looping
  <2> QED BY <2>1, <2>2, <2>3
<1>4. \/ /\ runner' = [q \in Processes |-> IF q # p THEN runner[q] ELSE Next1(s, FALSE)]
         /\ UNCHANGED <<store, user>>
      \/ /\ runner' = [q \in Processes |->
                         IF q # p THEN Stale(q) ELSE Next1(Fenced(s), TRUE)]
         /\ store' = Fenced(s) /\ user' = [user EXCEPT !.fresh = FALSE]
  BY DEF Begin
<1>5. Fenced(s) \in Snapshots /\ Fenced(s) # NoWork BY <1>0, FencedIs
<1> HIDE DEF Next1
<1>6. CASE /\ runner' = [q \in Processes |-> IF q # p THEN runner[q] ELSE Next1(s, FALSE)]
           /\ UNCHANGED <<store, user>>
  <2> DEFINE r == Next1(s, FALSE)
  <2>1. runner' = [runner EXCEPT ![p] = r] BY <1>6 DEF RunInv
  <2>2. Fits(r, store) BY <1>0, <1>3 DEF Fits
  <2> HIDE DEF r
  <2> QED BY <1>0, <1>1, <1>2, <1>6, <2>1, <2>2, MoveKeeps
<1>7. CASE /\ runner' = [q \in Processes |->
                           IF q # p THEN Stale(q) ELSE Next1(Fenced(s), TRUE)]
           /\ store' = Fenced(s) /\ user' = [user EXCEPT !.fresh = FALSE]
  <2> DEFINE r == Next1(Fenced(s), TRUE)
  <2>1. runner' = [q \in Processes |-> IF q = p THEN r ELSE Stale(q)] BY <1>7
  <2>2. Fits(r, Fenced(s)) BY <1>3, <1>5 DEF Fits
  <2> HIDE DEF r
  <2> QED BY <1>0, <1>1, <1>7, <2>1, <2>2, SaveKeeps
<1> QED BY <1>4, <1>6, <1>7

LEMMA LoopSteps ==
  ASSUME RunInv, NEW p \in Processes,
         Enter(p) \/ Refresh(p) \/ Exhaust(p) \/ Analyse(p) \/ Unanswered(p) \/ Decide(p)
  PROVE  Kept(p)
<1>0. /\ runner[p] \in Runners /\ runner[p].mem \in Snapshots
      /\ store # NoWork /\ store.state # "NONE" /\ store \in Snapshots
      /\ Latest(p) = store /\ Fits(runner[p], store)
      /\ p \in late => store.state = "CANCELLED" /\ runner[p].at \in Leaving
  BY AtWork DEF Enter, Refresh, Exhaust, Analyse, Unanswered, Decide, RunInv
<1>1. UNCHANGED <<marker, calls, bounds, late, disturbed>>
  BY DEF Enter, Refresh, Exhaust, Analyse, Unanswered, Decide, history
<1>2. Typed(calls', bounds', disturbed') BY <1>1 DEF RunInv, Typed
<1>3. marker /\ marker \in BOOLEAN BY <1>0 DEF RunInv, Marked
<1>4. CASE Enter(p)
  <2>1. /\ runner[p].at = "entering" /\ Reads(p, "beginning")
        /\ UNCHANGED <<store, user>> BY <1>4 DEF Enter
  <2>2. p \notin late BY <1>0, <2>1 DEF Leaving
  <2> QED BY <1>0, <1>1, <1>2, <2>1, <2>2, ReadsKeep
<1>5. CASE Refresh(p)
  <2>1. runner[p].at = "top" BY <1>5 DEF Refresh
  <2>2. CASE Halted(store)
    <3>1. Leaves(p, store) BY <1>0, <1>5, <2>2 DEF Refresh
    <3> QED BY <1>0, <1>1, <1>2, <2>1, <3>1, LeavesKeep
  <2>3. CASE ~Halted(store)
    <3> DEFINE r == [runner[p] EXCEPT !.at = "analysing", !.turn = @ + 1,
                                      !.mem = Latest(p), !.fresh = Latest(p) = store]
    <3>1. /\ runner' = [runner EXCEPT ![p] = r] /\ UNCHANGED <<store, user>>
          /\ runner[p].turn < MaxIterations
      <4>1. ~Halted(Latest(p)) BY <1>0, <2>3
      <4> QED BY <1>5, <4>1 DEF Refresh
    <3>2. r \in Runners /\ r.at = "analysing" /\ r.mem = store
      <4>1. runner[p].turn + 1 \in 0..MaxIterations
        BY <1>0, <3>1, WorkAssumption DEF Runners
      <4>2. (Latest(p) = store) \in BOOLEAN OBVIOUS
      <4> QED BY <1>0, <4>1, <4>2 DEF Runners, Looping
    <3>3. p \notin late BY <1>0, <2>3 DEF Halted, Ends
    <3> HIDE DEF r
    <3>4. Fits(r, store) BY <1>0, <3>2 DEF Fits
    <3> QED BY <1>1, <1>2, <1>3, <3>1, <3>3, <3>4, MoveKeeps
  <2> QED BY <2>2, <2>3
<1>6. CASE Exhaust(p)
  <2> DEFINE s == InState(runner[p].mem, "BLOCKED")
  <2>1. runner[p].at # "idle" /\ Saves(p, s, "idle") BY <1>6 DEF Exhaust, InState
  <2>2. s \in Snapshots /\ s.state = "BLOCKED" BY <1>0, StateNames, InStateIs
  <2> HIDE DEF s
  <2> QED BY <1>1, <2>1, <2>2, SaveAndRest
<1>7. CASE Analyse(p)
  <2> DEFINE s == InState(runner[p].mem, "ACTIVE")
  <2>1. runner[p].at = "analysing" /\ Saves(p, s, "deliberating") BY <1>7 DEF Analyse, InState
  <2>2. s \in Snapshots /\ s.state = "ACTIVE" BY <1>0, StateNames, InStateIs
  <2>3. runner[p].at \notin Leaving BY <2>1 DEF Leaving
  <2> HIDE DEF s
  <2> QED BY <1>1, <2>1, <2>2, <2>3, SaveAndGo
<1>8. CASE Unanswered(p)
  <2> DEFINE s == InState(runner[p].mem, "RECOVERY_REQUIRED")
             t == InState(runner[p].mem, "FAILED")
  <2>1. runner[p].at # "idle" /\ (Saves(p, s, "idle") \/ Saves(p, t, "idle"))
    BY <1>8 DEF Unanswered, InState
  <2>2. s \in Snapshots /\ s.state = "RECOVERY_REQUIRED" BY <1>0, StateNames, InStateIs
  <2>3. t \in Snapshots /\ t.state = "FAILED" BY <1>0, StateNames, InStateIs
  <2> HIDE DEF s, t
  <2> QED BY <1>1, <2>1, <2>2, <2>3, SaveAndRest
<1>9. CASE Decide(p)
  <2>1. runner[p].at = "deliberating" BY <1>9 DEF Decide
  <2>2. p \notin late BY <1>0, <2>1 DEF Leaving
  <2>3. CASE runner[p].fresh
    <3> DEFINE r == [runner[p] EXCEPT !.at = "decided"]
    <3>1. runner' = [runner EXCEPT ![p] = r] /\ UNCHANGED <<store, user>>
      BY <1>9, <2>3 DEF Decide
    <3>2. r \in Runners /\ r.at = "decided" /\ r.fresh = runner[p].fresh
          /\ r.mem = runner[p].mem
      BY <1>0 DEF Runners, Looping
    <3> HIDE DEF r
    <3>3. Fits(r, store) BY <1>0, <3>2 DEF Fits
    <3> QED BY <1>1, <1>2, <1>3, <2>2, <3>1, <3>3, MoveKeeps
  <2>4. CASE ~runner[p].fresh /\ Halted(store)
    <3>1. Leaves(p, store) BY <1>9, <2>4 DEF Decide
    <3> QED BY <1>0, <1>1, <1>2, <2>1, <3>1, LeavesKeep
  <2>5. CASE ~runner[p].fresh /\ ~Halted(store)
    <3>1. Reads(p, "top") /\ UNCHANGED <<store, user>> BY <1>9, <2>5 DEF Decide
    <3> QED BY <1>0, <1>1, <1>2, <2>2, <3>1, ReadsKeep
  <2> QED BY <2>3, <2>4, <2>5
<1> QED BY <1>4, <1>5, <1>6, <1>7, <1>8, <1>9

\* The copies that a decision is carried out on.
LEMMA CopiesAre ==
  ASSUME NEW p \in Processes, runner[p].mem \in Snapshots, NEW s \in Copies(p)
  PROVE  /\ s \in Snapshots /\ s.state = runner[p].mem.state
         /\ s.pending = runner[p].mem.pending /\ s.policy = runner[p].mem.policy
         /\ s.observed = runner[p].mem.observed
         /\ Verified(s) => Verified(runner[p].mem)
<1> DEFINE m == runner[p].mem
<1>1. CASE s = m BY <1>1
<1>2. CASE s = Replanned(m)
  <2>1. m.recent \in Windows BY DEF Snapshots
  <2> DEFINE e == Lapsed(m.recent)
  <2>2. e \in Windows /\ \A i \in 1..Window : e[i] # "passed" BY <2>1, WindowIs
  <2>3. s = [m EXCEPT !.plan = TRUE, !.recent = e] BY <1>2 DEF Replanned
  <2> HIDE DEF e
  <2>4. /\ s \in Snapshots /\ s.state = m.state /\ s.recent = e
        /\ s.pending = m.pending /\ s.policy = m.policy /\ s.observed = m.observed
    BY <2>2, <2>3 DEF Snapshots
  <2>5. ~Verified(s) BY <2>2, <2>4 DEF Verified
  <2> QED BY <2>4, <2>5
<1> QED BY <1>1, <1>2 DEF Copies

LEMMA CheckedTyped ==
  ASSUME NEW s \in Snapshots, calls \in [Calls -> CallRecords]
  PROVE  CheckedIn(s) \in [Calls -> CallRecords]
<1> SUFFICES ASSUME NEW c \in Calls
             PROVE  [calls[c] EXCEPT !.checked = @ \/ (calls[c].entered /\ c \in s.observed)]
                       \in CallRecords
  BY DEF CheckedIn
<1>1. (calls[c].checked \/ (calls[c].entered /\ c \in s.observed)) \in BOOLEAN OBVIOUS
<1> QED BY <1>1 DEF CallRecords

LEMMA DecisionSteps ==
  ASSUME RunInv, NEW p \in Processes,
         \/ Suppress(p)
         \/ \E s \in Copies(p) :
               \/ Think(p, s) \/ Complete(p, s)
               \/ \E ok \in BOOLEAN : Verify(p, s, ok)
               \/ \E state \in {"PAUSED", "WAITING_FOR_APPROVAL", "BLOCKED", "FAILED"},
                     mend \in BOOLEAN : Halt(p, s, state, mend)
  PROVE  Kept(p)
<1>0. /\ runner[p].mem \in Snapshots /\ runner[p].at = "decided"
      /\ UNCHANGED <<marker, bounds, late, disturbed>>
      /\ Typed(calls, bounds, disturbed)
  BY AtWork DEF Suppress, Think, Verify, Halt, Complete, Decided, history, RunInv
<1>1. p \notin late BY <1>0, AtWork DEF Leaving
<1>2. ASSUME NEW t \in Snapshots, t.state # "NONE", NEW at \in {"top", "idle"},
             Saves(p, t, at), calls' \in [Calls -> CallRecords]
      PROVE  Kept(p)
  <2>1. Typed(calls', bounds', disturbed') BY <1>0, <1>2 DEF Typed
  <2>2. at \in {"idle"} \cup (Looping \ {"dispatched", "executing"}) BY DEF Looping
  <2> QED BY <1>0, <1>1, <1>2, <2>1, <2>2, SavesKeep
<1>3. ASSUME NEW s \in Snapshots, NEW state \in {"ACTIVE", "BLOCKED", "COMPLETED"},
             NEW recent \in Windows, NEW at \in {"top", "idle"},
             Saves(p, InStateNoted(s, state, recent), at),
             calls' \in [Calls -> CallRecords]
      PROVE  Kept(p)
  <2>1. state \in States /\ state # "NONE" BY StateNames
  <2> QED BY <1>2, <1>3, <2>1, InStateNotedIs
<1>4. ASSUME NEW s \in Copies(p)
      PROVE  /\ s \in Snapshots /\ s.recent \in Windows
             /\ \A e \in {"tool", "passed", "other"} : Noted(s.recent, e) \in Windows
             /\ CheckedIn(s) \in [Calls -> CallRecords]
             /\ calls \in [Calls -> CallRecords]
  <2>1. s \in Snapshots BY <1>0, <1>4, CopiesAre
  <2>2. s.recent \in Windows BY <2>1 DEF Snapshots
  <2> QED BY <1>0, <2>1, <2>2, WindowIs, CheckedTyped DEF Typed
<1>5. CASE Suppress(p)
  <2> DEFINE m == runner[p].mem
             e == Noted(m.recent, "other")
  <2>1. e \in Windows
    <3>1. m.recent \in Windows BY <1>0 DEF Snapshots
    <3> QED BY <3>1, WindowIs
  <2>2. /\ \/ Saves(p, InStateNoted(m, "ACTIVE", e), "top")
           \/ Saves(p, InStateNoted(m, "BLOCKED", e), "idle")
        /\ calls' = calls
    BY <1>5, <1>0 DEF Suppress, InStateNoted, Snapshots
  <2> HIDE DEF e
  <2> QED BY <1>0, <1>3, <2>1, <2>2 DEF Typed
<1>6. ASSUME NEW s \in Copies(p), Think(p, s) PROVE Kept(p)
  <2>1. Saves(p, InState(s, "ACTIVE"), "top") /\ calls' = calls
    BY <1>6 DEF Think, InState
  <2>2. "ACTIVE" \in States /\ "ACTIVE" # "NONE" BY StateNames
  <2> QED BY <1>2, <1>4, <2>1, <2>2, InStateIs
<1>7. ASSUME NEW s \in Copies(p), NEW ok \in BOOLEAN, Verify(p, s, ok) PROVE Kept(p)
  <2> DEFINE e == Noted(s.recent, IF ok THEN "passed" ELSE "other")
  <2>1. Saves(p, InStateNoted(s, "ACTIVE", e), "top")
        /\ calls' \in {calls, CheckedIn(s)}
    BY <1>7 DEF Verify, InStateNoted
  <2>2. e \in Windows BY <1>4
  <2> HIDE DEF e
  <2> QED BY <1>3, <1>4, <2>1, <2>2
<1>8. ASSUME NEW s \in Copies(p), NEW mend \in BOOLEAN,
             NEW state \in {"PAUSED", "WAITING_FOR_APPROVAL", "BLOCKED", "FAILED"},
             Halt(p, s, state, mend)
      PROVE  Kept(p)
  <2>1. Saves(p, InStateMend(s, state, mend), "idle") /\ calls' = calls
    BY <1>8 DEF Halt, InStateMend
  <2>2. state \in States /\ state # "NONE" BY StateNames
  <2> QED BY <1>2, <1>4, <2>1, <2>2, InStateMendIs
<1>9. ASSUME NEW s \in Copies(p), Complete(p, s) PROVE Kept(p)
  <2> DEFINE e == Noted(s.recent, "passed")
  <2>1. \/ Saves(p, InStateNoted(s, "COMPLETED", e), "idle") /\ calls' = CheckedIn(s)
        \/ Saves(p, InState(s, "COMPLETED"), "idle") /\ calls' = calls
    BY <1>4, <1>9 DEF Complete, InStateNoted, InState, Snapshots
  <2>2. e \in Windows /\ "COMPLETED" \in States /\ "COMPLETED" # "NONE"
    BY <1>4, StateNames
  <2> HIDE DEF e
  <2> QED BY <1>2, <1>3, <1>4, <2>1, <2>2, InStateIs
<1> QED BY <1>5, <1>6, <1>7, <1>8, <1>9

LEMMA DispatchStep ==
  ASSUME RunInv, NEW p \in Processes, NEW t \in Copies(p), NEW c \in Calls,
         NEW kind \in Kinds, Dispatch(p, t, c, kind)
  PROVE  Kept(p)
<1> DEFINE s == InStatePending(t, "ACTIVE", c, PolicyOf(kind))
           r == [runner[p] EXCEPT !.at = "dispatched", !.mem = Fenced(s),
                                  !.fresh = TRUE, !.call = c]
<1>0. /\ runner[p] \in Runners /\ t \in Snapshots
      /\ runner[p].at = "decided"
      /\ UNCHANGED <<marker, bounds, late, disturbed>>
      /\ calls' = [calls EXCEPT ![c].kind = kind]
  BY AtWork, CopiesAre DEF Dispatch, history
<1>1. p \notin late BY <1>0, AtWork DEF Leaving
<1>2. s \in Snapshots /\ s.state = "ACTIVE"
  <2>1. PolicyOf(kind) \in {"none", "reissue", "manual", "approval", "approved"}
    BY DEF PolicyOf
  <2>2. "ACTIVE" \in States /\ c \in Calls \cup {Nothing} BY StateNames
  <2> QED BY <1>0, <2>1, <2>2, InStatePendingIs
<1>3. /\ store' = Fenced(s) /\ user' = [user EXCEPT !.fresh = FALSE]
      /\ runner' = [q \in Processes |-> IF q = p THEN r ELSE Stale(q)]
  BY DEF Dispatch, InStatePending
<1>4. Typed(calls', bounds', disturbed')
  BY <1>0 DEF RunInv, Typed, CallRecords
<1> HIDE DEF s
<1>5. Fenced(s) \in Snapshots /\ Fenced(s) # NoWork BY <1>2, FencedIs
<1>6. /\ r \in Runners /\ r.at = "dispatched" /\ r.mem = Fenced(s) /\ r.call = c
  BY <1>0, <1>5 DEF Runners, Looping
<1> HIDE DEF r
<1>7. Fits(r, Fenced(s)) BY <1>5, <1>6 DEF Fits
<1> QED BY <1>0, <1>1, <1>2, <1>3, <1>4, <1>7, SaveKeeps

\* A result is a checkpoint, and a call of the Work keeps its record.
LEMMA NotedIs ==
  ASSUME NEW s \in Snapshots, NEW c \in Calls
  PROVE  LET t == [s EXCEPT !.observed = @ \cup {c},
                            !.recent = Noted(Lapsed(@), EntryOf(calls[c].kind))] IN
         /\ t \in Snapshots /\ ~Verified(t)
         /\ t.observed = s.observed \cup {c} /\ t.pending = s.pending
         /\ t.policy = s.policy
<1> DEFINE e == Noted(Lapsed(s.recent), EntryOf(calls[c].kind))
           t == [s EXCEPT !.observed = @ \cup {c}, !.recent = e]
<1>1. s.recent \in Windows BY DEF Snapshots
<1>2. EntryOf(calls[c].kind) \in {"tool", "other"} BY DEF EntryOf
<1>3. e \in Windows BY <1>1, <1>2, WindowIs
<1>4. \A i \in 1..Window : e[i] # "passed"
  <2> DEFINE l == Lapsed(s.recent)
  <2>1. \A i \in 1..Window : l[i] # "passed" BY <1>1, WindowIs
  <2>2. \A i \in 1..Window : i # Window => i + 1 \in 1..Window BY WorkAssumption
  <2> HIDE DEF l
  <2> QED BY <1>2, <2>1, <2>2 DEF Noted, l
<1> HIDE DEF e
<1>5. /\ t \in Snapshots /\ t.recent = e /\ t.observed = s.observed \cup {c}
      /\ t.pending = s.pending /\ t.policy = s.policy
  BY <1>3 DEF Snapshots
<1>6. ~Verified(t) BY <1>4, <1>5 DEF Verified
<1> QED BY <1>5, <1>6 DEF e

LEMMA ObservedSnapshot ==
  ASSUME NEW s \in Snapshots, NEW c \in Calls, NEW result \in Outcomes
  PROVE  Observed(s, c, result) \in Snapshots /\ Observed(s, c, result).state # "NONE"
<1> DEFINE t == [s EXCEPT !.observed = @ \cup {c},
                          !.recent = Noted(Lapsed(@), EntryOf(calls[c].kind))]
<1>1. t \in Snapshots BY NotedIs
<1>2. Observed(s, c, result) =
        CASE result = "uncertain" -> InState(t, "RECOVERY_REQUIRED")
          [] result = "refused" -> InStatePolicy(t, "WAITING_FOR_APPROVAL", "approval")
          [] OTHER -> InStatePending(t, "ACTIVE", Nothing, "none")
  BY DEF Observed, InState, InStatePolicy, InStatePending
<1> HIDE DEF t
<1>3. CASE result = "uncertain"
  <2>1. Observed(s, c, result) = InState(t, "RECOVERY_REQUIRED") BY <1>2, <1>3
  <2>2. "RECOVERY_REQUIRED" \in States BY StateNames
  <2> QED BY <1>1, <2>1, <2>2, InStateIs
<1>4. CASE result = "refused"
  <2>1. Observed(s, c, result) = InStatePolicy(t, "WAITING_FOR_APPROVAL", "approval")
    BY <1>2, <1>4
  <2>2. "WAITING_FOR_APPROVAL" \in States BY StateNames
  <2> QED BY <1>1, <2>1, <2>2, InStatePolicyIs
<1>5. CASE result \notin {"uncertain", "refused"}
  <2>1. Observed(s, c, result) = InStatePending(t, "ACTIVE", Nothing, "none")
    BY <1>2, <1>5
  <2>2. "ACTIVE" \in States /\ "ACTIVE" # "NONE" BY StateNames
  <2>3. /\ Nothing \in Calls \cup {Nothing}
        /\ "none" \in {"none", "reissue", "manual", "approval", "approved"}
    OBVIOUS
  <2>4. /\ InStatePending(t, "ACTIVE", Nothing, "none") \in Snapshots
        /\ InStatePending(t, "ACTIVE", Nothing, "none").state = "ACTIVE"
    BY <1>1, <2>2, <2>3, InStatePendingIs
  <2> QED BY <2>1, <2>2, <2>4
<1> QED BY <1>3, <1>4, <1>5

LEMMA CallSteps ==
  ASSUME RunInv, NEW p \in Processes,
         \/ EnterCall(p) \/ Deny(p) \/ Wait(p) \/ Replayed(p) \/ Close(p)
         \/ \E result \in Outcomes : Observe(p, result)
  PROVE  Kept(p)
<1>0. /\ runner[p] \in Runners /\ runner[p].mem \in Snapshots
      /\ store # NoWork /\ store.state # "NONE" /\ store \in Snapshots
      /\ Latest(p) = store /\ Fits(runner[p], store)
      /\ p \in late => store.state = "CANCELLED" /\ runner[p].at \in Leaving
  BY AtWork DEF EnterCall, Deny, Wait, Replayed, Close, Observe, RunInv
<1>1. marker /\ marker \in BOOLEAN BY <1>0 DEF RunInv, Marked
<1>2. calls \in [Calls -> CallRecords] /\ Typed(calls, bounds, disturbed)
  BY DEF RunInv, Typed
<1>3. CASE EnterCall(p)
  <2> DEFINE r == [runner[p] EXCEPT !.at = "executing"]
  <2>1. /\ runner[p].at = "dispatched" /\ runner' = [runner EXCEPT ![p] = r]
        /\ calls' = [calls EXCEPT ![runner[p].call].entered = TRUE]
        /\ late' = IF store.state = "CANCELLED" THEN late \cup {p} ELSE late
        /\ UNCHANGED <<marker, store, user, bounds, disturbed>>
    BY <1>3 DEF EnterCall
  <2>2. runner[p].call \in Calls /\ p \notin late
    BY <1>0, <2>1 DEF Fits, Leaving
  <2>3. Typed(calls', bounds', disturbed')
    <3>1. [calls[runner[p].call] EXCEPT !.entered = TRUE] \in CallRecords
      BY <1>2, <2>2 DEF CallRecords
    <3>2. calls' \in [Calls -> CallRecords] BY <1>2, <2>1, <2>2, <3>1
    <3> QED BY <1>2, <2>1, <3>2 DEF Typed
  <2>4. /\ r \in Runners /\ r.at = "executing" /\ r.call = runner[p].call
        /\ r.fresh = runner[p].fresh /\ r.mem = runner[p].mem
    BY <1>0 DEF Runners, Looping
  <2> HIDE DEF r
  <2>5. Fits(r, store) BY <1>0, <2>2, <2>4 DEF Fits
  <2>6. p \in late' => store.state = "CANCELLED" /\ r.at \in Leaving
    BY <2>1, <2>2, <2>4 DEF Leaving
  <2> QED BY <1>1, <2>1, <2>3, <2>5, <2>6, MoveKeeps
<1>4. CASE Deny(p)
  <2> DEFINE m == runner[p].mem
             c == runner[p].call
             t == [m EXCEPT !.observed = @ \cup {c},
                            !.recent = Noted(Lapsed(@), EntryOf(calls[c].kind))]
             s == InStatePending(t, "ACTIVE", Nothing, "none")
             at == IF runner[p].replay THEN "replayed" ELSE "top"
  <2>1. /\ runner[p].at = "dispatched" /\ Saves(p, s, at)
        /\ calls' = [calls EXCEPT ![runner[p].call] = [NoCall EXCEPT !.came = "known"]]
        /\ UNCHANGED <<marker, bounds, late, disturbed>>
    BY <1>0, <1>4 DEF Deny, history, InStatePending, Snapshots
  <2>2. runner[p].call \in Calls /\ p \notin late
    BY <1>0, <2>1 DEF Fits, Leaving
  <2>3. s \in Snapshots /\ s.state = "ACTIVE"
    <3>1. t \in Snapshots BY <1>0, <2>2, NotedIs
    <3> QED BY <3>1, StateNames, InStatePendingIs
  <2>4. Typed(calls', bounds', disturbed')
    BY <1>2, <2>1, <2>2 DEF Typed, CallRecords, NoCall, Outcomes
  <2>5. at \in Looping \ {"dispatched", "executing"} /\ at # "deliberating"
    BY DEF Looping
  <2> HIDE DEF s, at
  <2> QED BY <2>1, <2>2, <2>3, <2>4, <2>5, SavesKeep
<1>5. ASSUME NEW result \in Outcomes, Observe(p, result) PROVE Kept(p)
  <2> DEFINE c == runner[p].call
             s == Observed(runner[p].mem, c, result)
             at == IF runner[p].replay THEN "replayed"
                   ELSE IF result = "refused" THEN "waiting"
                   ELSE IF Fenced(s).state = "RECOVERY_REQUIRED" THEN "idle"
                   ELSE "top"
  <2>1. /\ runner[p].at = "executing" /\ Saves(p, s, at)
        /\ calls' = [calls EXCEPT ![c].came = result,
                                  ![c].entered = @ /\ result # "refused"]
        /\ UNCHANGED <<marker, bounds, late, disturbed>>
    BY <1>5 DEF Observe, history
  <2>2. c \in Calls BY <1>0, <2>1 DEF Fits
  <2>3. s \in Snapshots /\ s.state # "NONE" BY <1>0, <2>2, ObservedSnapshot
  <2>4. Typed(calls', bounds', disturbed')
    BY <1>2, <2>1, <2>2 DEF Typed, CallRecords
  <2>5. at \in {"idle", "replayed", "waiting", "top"} OBVIOUS
  <2>6. /\ at \in {"idle"} \cup (Looping \ {"dispatched", "executing"})
        /\ at # "deliberating" /\ at \in Leaving
    BY <2>5 DEF Looping, Leaving
  <2> HIDE DEF s, at
  <2> QED BY <2>1, <2>3, <2>4, <2>6, SavesKeep
<1>6. CASE Wait(p)
  <2>1. /\ runner[p].at = "waiting" /\ UNCHANGED <<marker, calls, bounds, late, disturbed>>
    BY <1>6 DEF Wait, history
  <2>2. Typed(calls', bounds', disturbed') BY <1>2, <2>1
  <2>3. CASE Halted(store)
    <3>1. Leaves(p, store) BY <1>0, <1>6, <2>3 DEF Wait
    <3> QED BY <1>0, <2>1, <2>2, <3>1, LeavesKeep
  <2>4. CASE ~Halted(store)
    <3>1. Reads(p, "failing") /\ UNCHANGED <<store, user>>
      BY <1>0, <1>6, <2>4 DEF Wait
    <3>2. "failing" \in Leaving BY DEF Leaving
    <3> QED BY <1>0, <2>1, <2>2, <3>1, <3>2, ReadsKeep
  <2> QED BY <2>3, <2>4
<1>7. CASE Replayed(p)
  <2>1. /\ runner[p].at = "replayed" /\ UNCHANGED <<marker, calls, bounds, late, disturbed>>
        /\ \/ Leaves(p, store)
           \/ Reads(p, "closing") /\ UNCHANGED <<store, user>>
    BY <1>7 DEF Replayed, history
  <2>2. Typed(calls', bounds', disturbed') BY <1>2, <2>1
  <2>3. "closing" \in Leaving BY DEF Leaving
  <2> QED BY <1>0, <2>1, <2>2, <2>3, LeavesKeep, ReadsKeep
<1>8. CASE Close(p)
  <2>1. /\ runner[p].at = "closing" /\ Saves(p, runner[p].mem, "top")
        /\ UNCHANGED <<marker, calls, bounds, late, disturbed>>
    BY <1>8 DEF Close, history
  <2>2. Typed(calls', bounds', disturbed') BY <1>2, <2>1
  <2>3. "top" \in Leaving /\ "top" \in Looping \ {"dispatched", "executing"}
    BY DEF Leaving, Looping
  <2>4. runner[p].mem.state # "NONE" BY <1>0, <2>1 DEF Fits
  <2> QED BY <1>0, <2>1, <2>2, <2>3, <2>4, SavesKeep
<1> QED BY <1>3, <1>4, <1>5, <1>6, <1>7, <1>8

LEMMA FaultSteps ==
  ASSUME RunInv, NEW p \in Processes, Raise(p) \/ Fail(p) \/ Die(p)
  PROVE  Kept(p)
<1>0. /\ runner[p].mem \in Snapshots /\ Fits(runner[p], store)
      /\ p \in late => store.state = "CANCELLED" /\ runner[p].at \in Leaving
  BY AtWork DEF RunInv
<1>1. Typed(calls, bounds, disturbed) BY DEF RunInv
<1>2. ASSUME Fault PROVE bounds' \in [starts : 0..MaxStarts, faults : 0..MaxFaults,
                                      ops : 0..MaxOps]
  BY <1>1, <1>2, WorkAssumption DEF Fault, Typed
<1>3. CASE Raise(p)
  <2>1. /\ runner[p].at \in Looping \cup {"resuming"} /\ Reads(p, "failing")
        /\ UNCHANGED <<marker, store, user, calls, late, disturbed>> /\ Fault
    BY <1>3 DEF Raise, history
  <2>2. store # NoWork BY <2>1, AtWork DEF Looping
  <2>3. Typed(calls', bounds', disturbed') BY <1>1, <1>2, <2>1 DEF Typed
  <2>4. "failing" \in Leaving BY DEF Leaving
  <2> QED BY <2>1, <2>2, <2>3, <2>4, ReadsKeep
<1>4. CASE Fail(p)
  <2>1. /\ runner[p].at = "failing"
        /\ UNCHANGED <<marker, calls, bounds, late, disturbed>>
        /\ \/ runner' = [runner EXCEPT ![p] = Idle] /\ UNCHANGED <<store, user>>
           \/ \E mend \in BOOLEAN :
                 Saves(p, [runner[p].mem EXCEPT !.state = "FAILED", !.mend = mend], "idle")
    BY <1>4 DEF Fail, history
  <2>2. Typed(calls', bounds', disturbed') BY <1>1, <2>1
  <2>3. ASSUME NEW mend \in BOOLEAN,
               Saves(p, [runner[p].mem EXCEPT !.state = "FAILED", !.mend = mend], "idle")
        PROVE  Kept(p)
    <3> DEFINE s == InStateMend(runner[p].mem, "FAILED", mend)
    <3>1. s \in Snapshots /\ s.state = "FAILED" BY <1>0, StateNames, InStateMendIs
    <3>2. Saves(p, s, "idle") BY <2>3 DEF InStateMend
    <3> HIDE DEF s
    <3> QED BY <2>1, <3>1, <3>2, SaveAndRest
  <2> QED BY <2>1, <2>2, <2>3, RestKeeps
<1>5. CASE Die(p)
  <2>1. /\ runner' = [runner EXCEPT ![p] = Idle] /\ Fault
        /\ UNCHANGED <<marker, store, user, calls, late, disturbed>>
    BY <1>5 DEF Die, history
  <2>2. Typed(calls', bounds', disturbed') BY <1>1, <1>2, <2>1 DEF Typed
  <2> QED BY <2>1, <2>2, RestKeeps
<1> QED BY <1>3, <1>4, <1>5

LEMMA UserSnapshot ==
  ASSUME NEW s \in Snapshots, s.state # "NONE", NEW op
  PROVE  Changed(s, op) \in Snapshots /\ Changed(s, op).state # "NONE"
<1>1. CASE op = "pause" BY <1>1 DEF Changed, Snapshots, Stops
<1>2. CASE op = "cancel" BY <1>2 DEF Changed, Snapshots, Ends
<1>3. CASE op = "steer"
  <2> DEFINE e == IF s.plan THEN Lapsed(s.recent) ELSE s.recent
  <2>1. e \in Windows
    <3>1. s.recent \in Windows BY DEF Snapshots
    <3> QED BY <3>1, WindowIs
  <2>2. Changed(s, op) = InStateNoted(s, "ACTIVE", e)
    BY <1>3 DEF Changed, InStateNoted
  <2> HIDE DEF e
  <2>3. "ACTIVE" \in States /\ "ACTIVE" # "NONE" BY StateNames
  <2>4. /\ InStateNoted(s, "ACTIVE", e) \in Snapshots
        /\ InStateNoted(s, "ACTIVE", e).state = "ACTIVE"
    BY <2>1, <2>3, InStateNotedIs
  <2> QED BY <2>2, <2>3, <2>4
<1>4. CASE op \notin {"pause", "cancel", "steer"} BY <1>4 DEF Changed
<1> QED BY <1>1, <1>2, <1>3, <1>4

LEMMA UserSteps ==
  ASSUME RunInv,
         Ask \/ \E op \in Operations : Apply(op)
  PROVE  /\ RunInv'
         /\ store.state = "CANCELLED" => store'.state = "CANCELLED"
         /\ \A q \in Processes : runner'[q].at = runner[q].at
<1>1. ASSUME Ask PROVE RunInv' /\ UNCHANGED <<store, runner>>
  <2>1. /\ store # NoWork /\ user' = [mem |-> store, fresh |-> TRUE]
        /\ bounds.ops > 0 /\ bounds' = [bounds EXCEPT !.ops = @ - 1]
        /\ UNCHANGED <<marker, store, runner, calls, late, disturbed>>
    BY <1>1 DEF Ask, history
  <2>2. Typed(calls', bounds', disturbed')
    BY <2>1, WorkAssumption DEF RunInv, Typed
  <2>3. Asked' BY <2>1 DEF RunInv, Stored, Asked, Users
  <2>4. Marked' /\ Stored' /\ Late' BY <2>1 DEF RunInv, Marked, Stored, Late
  <2> QED BY <2>1, <2>2, <2>3, <2>4 DEF RunInv
<1>2. ASSUME NEW op \in Operations, Apply(op)
      PROVE  /\ RunInv'
             /\ store.state = "CANCELLED" => store'.state = "CANCELLED"
             /\ \A q \in Processes : runner'[q].at = runner[q].at
  <2> DEFINE s == Changed(user.mem, op)
  <2>1. /\ user # NoUser /\ store' = Fenced(s) /\ user' = NoUser
        /\ runner' = [q \in Processes |-> Stale(q)]
        /\ disturbed' = (disturbed \/ Disturbs(op))
        /\ UNCHANGED <<marker, calls, bounds, late>>
    BY <1>2 DEF Apply
  <2>2. /\ user.mem \in Snapshots /\ user.mem.state # "NONE" /\ marker
        /\ marker \in BOOLEAN
    BY <2>1 DEF RunInv, Asked, Users, Marked
  <2>3. s \in Snapshots /\ s.state # "NONE" BY <2>2, UserSnapshot
  <2> HIDE DEF s
  <2>4. /\ store' \in Snapshots /\ store'.state # "NONE" /\ store' # NoWork
        /\ store.state = "CANCELLED" => store'.state = "CANCELLED"
    BY <2>1, <2>3, FencedIs
  <2>5. ASSUME NEW q \in Processes
        PROVE  /\ runner'[q] \in Runners /\ runner'[q].at = runner[q].at
               /\ runner'[q].mem = runner[q].mem /\ runner'[q].call = runner[q].call
               /\ ~runner'[q].fresh
    <3>1. runner'[q] = [runner[q] EXCEPT !.fresh = FALSE] BY <2>1 DEF Stale
    <3>2. runner[q] \in Runners BY DEF RunInv
    <3> QED BY <3>1, <3>2 DEF Runners
  <2>6. ASSUME NEW q \in Processes PROVE Fits(runner'[q], store')
    <3>1. Fits(runner[q], store) BY DEF RunInv
    <3> QED BY <2>4, <2>5, <3>1 DEF Fits
  <2>7. Typed(calls', bounds', disturbed')
    <3>1. (disturbed \/ Disturbs(op)) \in BOOLEAN OBVIOUS
    <3> QED BY <2>1, <3>1 DEF RunInv, Typed
  <2>8. runner' \in [Processes -> Runners] BY <2>1, <2>5
  <2>9. Asked' BY <2>1, NoWorkTyped DEF Asked, NoUser, Users
  <2>10. Late' BY <2>1, <2>4, <2>5 DEF RunInv, Late
  <2>11. Marked' /\ Stored' BY <2>1, <2>2, <2>4 DEF Marked, Stored
  <2> QED BY <2>4, <2>5, <2>6, <2>7, <2>8, <2>9, <2>10, <2>11 DEF RunInv
<1> QED BY <1>1, <1>2

LEMMA InitKeeps == ASSUME Init PROVE RunInv
<1>1. Typed(calls, bounds, disturbed)
  <2>1. NoCall \in CallRecords BY DEF NoCall, CallRecords, Outcomes
  <2>2. MaxStarts \in 0..MaxStarts /\ MaxFaults \in 0..MaxFaults /\ MaxOps \in 0..MaxOps
    BY WorkAssumption
  <2> QED BY <2>1, <2>2 DEF Init, Typed
<1>2. runner = [p \in Processes |-> Idle] /\ store = NoWork /\ user = NoUser BY DEF Init
<1>3. Idle \in Runners /\ Fits(Idle, store) /\ Idle.at = "idle"
  BY IdleFits DEF Fits, Idle
<1>4. runner \in [Processes -> Runners] /\ \A p \in Processes : Fits(runner[p], store)
  BY <1>2, <1>3
<1>5. Marked BY <1>2, <1>3 DEF Init, Marked
<1>6. Stored BY <1>2, NoWorkTyped DEF Stored
<1>7. Asked BY <1>2, NoWorkTyped DEF Asked, NoUser, Users
<1>8. Late BY DEF Init, Late
<1> QED BY <1>1, <1>4, <1>5, <1>6, <1>7, <1>8 DEF RunInv

LEMMA StepKeeps ==
  ASSUME RunInv, NEW p \in Processes, Step(p) PROVE Kept(p)
  BY SubmissionSteps, ResumptionSteps, BeginStep, LoopSteps, DecisionSteps,
     DispatchStep, CallSteps, FaultSteps DEF Step

LEMMA Inductive == Spec => []RunInv
<1>1. Init => RunInv BY InitKeeps
<1>2. ASSUME RunInv, [Next]_vars PROVE RunInv'
  <2>1. ASSUME NEW p \in Processes, Step(p) PROVE RunInv'
    BY <1>2, <2>1, StepKeeps DEF Kept
  <2>2. CASE UNCHANGED vars
    BY <1>2, <2>2 DEF vars, RunInv, Typed, Marked, Stored, Asked, Late
  <2> QED BY <1>2, <2>1, <2>2, UserSteps DEF Next
<1> QED BY <1>1, <1>2, PTL DEF Spec

-----------------------------------------------------------------------------
\* The state of a Work, of its processes and of its users is well-formed; who works
\* on it has its marker, and a copy called fresh is the latest checkpoint.
THEOREM TypeCorrect == Spec => []TypeOK
<1>1. RunInv => TypeOK
  BY DEF RunInv, TypeOK, Typed, Marked, Stored, Asked, Late, Fits
<1> QED BY <1>1, Inductive, PTL

\* Where a process that is idle, or deliberates, can go.
LEMMA FromIdle ==
  ASSUME NEW p \in Processes, Step(p), runner[p].at = "idle"
  PROVE  Submit(p) \/ Resume(p)
  BY DEF Step, Submit, Create, Launch, Resume, Mend, ResumeApproval, ResumeDoubt,
         ResumeAfresh, Enter, Begin, Refresh, Exhaust, Analyse, Unanswered, Decide,
         Suppress, Decided, Think, Verify, Halt, Complete, Dispatch, EnterCall, Deny, Observe,
         Wait, Replayed, Close, Raise, Fail, Die, Looping

LEMMA FromDeliberating ==
  ASSUME NEW p \in Processes, Step(p), runner[p].at = "deliberating"
  PROVE  Unanswered(p) \/ Decide(p) \/ Raise(p) \/ Die(p)
  BY DEF Step, Submit, Create, Launch, Resume, Mend, ResumeApproval, ResumeDoubt,
         ResumeAfresh, Enter, Begin, Refresh, Exhaust, Analyse,
         Suppress, Decided, Think, Verify, Halt, Complete, Dispatch, EnterCall, Deny, Observe,
         Wait, Replayed, Close, Fail

\* A key whose submitter died before there was a Work makes none any more.
THEOREM SubmissionsAreFenced == Spec => SubmissionFenced
<1>1. ASSUME RunInv, [Next]_vars, marker, ~Held, store = NoWork
      PROVE  store' = NoWork /\ ~Held'
  <2>1. \A p \in Processes : runner[p].at = "idle"
    BY <1>1 DEF RunInv, Fits, Held, Submitting
  <2>2. user = NoUser BY <1>1 DEF RunInv, Asked
  <2>3. ASSUME NEW p \in Processes, Step(p) PROVE FALSE
    BY <1>1, <2>1, <2>3, FromIdle DEF Submit, Resume
  <2>4. UNCHANGED vars BY <1>1, <2>2, <2>3 DEF Next, Ask, Apply
  <2> QED BY <1>1, <2>4 DEF vars, Held
<1> QED BY <1>1, Inductive, PTL DEF Spec, SubmissionFenced

\* A cancellation is never lost, and admits one call more of each process at most.
THEOREM CancellationsHold == Spec => CancellationHolds
<1>1. ASSUME RunInv, [Next]_vars, store.state = "CANCELLED"
      PROVE  /\ store'.state = "CANCELLED"
             /\ \A p \in Processes :
                   runner[p].at = "dispatched" /\ runner'[p].at = "executing"
                      => p \notin late
  <2>1. store'.state = "CANCELLED"
    <3>1. ASSUME NEW p \in Processes, Step(p) PROVE store'.state = "CANCELLED"
      BY <1>1, <3>1, StepKeeps DEF Kept
    <3>2. CASE UNCHANGED vars BY <1>1, <3>2 DEF vars
    <3> QED BY <1>1, <3>1, <3>2, UserSteps DEF Next
  <2>2. \A p \in Processes : runner[p].at = "dispatched" => p \notin late
    BY <1>1 DEF RunInv, Late, Leaving
  <2> QED BY <2>1, <2>2
<1> QED BY <1>1, Inductive, PTL DEF Spec, CancellationHolds

\* A loop that deliberates while the Work comes to rest acts on no decision.
THEOREM PausesStopDecisions == Spec => PauseStopsDecision
<1>1. ASSUME RunInv, [Next]_vars, NEW p \in Processes,
             runner[p].at = "deliberating", store.state \in Stops
      PROVE  runner'[p].at \in {"deliberating", "failing", "idle"}
  <2>1. ASSUME NEW q \in Processes, Step(q), q # p
        PROVE  runner'[p].at = "deliberating"
    BY <1>1, <2>1, StepKeeps DEF Kept
  <2>2. runner \in [Processes -> Runners] /\ runner[p] \in Runners BY <1>1 DEF RunInv
  <2>3. Idle.at = "idle" BY DEF Idle
  <2>4. ASSUME NEW s, Saves(p, s, "idle") PROVE runner'[p].at = "idle"
    BY <2>3, <2>4 DEF Saves
  <2>5. ASSUME Step(p) PROVE runner'[p].at \in {"failing", "idle"}
    <3>1. CASE Unanswered(p) BY <2>4, <3>1 DEF Unanswered
    <3>2. CASE Decide(p)
      <4>1. Halted(store) BY <1>1 DEF Halted
      <4>2. ~runner[p].fresh BY <1>1 DEF RunInv, Fits, Stops
      <4>3. Leaves(p, store) BY <3>2, <4>1, <4>2 DEF Decide
      <4> QED BY <2>2, <2>3, <2>4, <4>3 DEF Leaves
    <3>3. CASE Raise(p) BY <2>2, <3>3 DEF Raise, Reads, Runners
    <3>4. CASE Die(p) BY <2>2, <2>3, <3>4 DEF Die
    <3> QED BY <1>1, <2>5, <3>1, <3>2, <3>3, <3>4, FromDeliberating
  <2>6. CASE UNCHANGED vars BY <1>1, <2>6 DEF vars
  <2> QED BY <1>1, <2>1, <2>5, <2>6, UserSteps DEF Next
<1>2. RunInv /\ [Next]_vars =>
        \A p \in Processes :
           runner[p].at = "deliberating" /\ store.state \in Stops =>
              runner'[p].at \in {"deliberating", "failing", "idle"}
  BY <1>1
<1> QED BY <1>2, Inductive, PTL DEF Spec, PauseStopsDecision

-----------------------------------------------------------------------------
(* What a Work knows of its calls. *)

\* Where the copy in memory is what the process goes on with.
Copied == {"resuming", "failing", "beginning", "top", "analysing", "deliberating",
           "decided", "dispatched", "executing", "waiting", "closing"}

\* Two checkpoints give the same account of calls.
SameAccount(s, t) ==
  s.pending = t.pending /\ s.policy = t.policy /\ s.observed = t.observed

\* And s claims no verification that t does not.
Renews(s, t) == SameAccount(s, t) /\ (Verified(s) => Verified(t))

\* A verification that s still has came after every effect of known outcome.
Vouched(s, k) == Verified(s) =>
  \A c \in Calls :
     k[c].entered /\ k[c].kind \notin Reading /\ k[c].came = "known" => k[c].checked

\* What a completed Work must have.
Settled(s) == s.state = "COMPLETED" /\ (s.plan \/ Criteria) => Verified(s)

\* A checkpoint s accounts for the calls k.
Sums(s, k) ==
  /\ s = NoWork => \A c \in Calls : k[c] = NoCall
  /\ s.policy \in {"approval", "approved"} =>
        s.pending \in Calls /\ k[s.pending].came = "refused" /\ ~k[s.pending].entered
  /\ \A c \in Calls :
        k[c].entered /\ k[c].kind \notin Reading /\ k[c].came \in {"known", "uncertain"}
           => c \in s.observed
  /\ Settled(s) /\ Vouched(s, k)

\* What a process in state r knows of the checkpoint s and the calls k.
Knows(r, s, k) ==
  /\ s.state = "COMPLETED" => r.at = "idle"
  /\ r.at = "creating" => s = NoWork
  /\ r.at \in Copied =>
        SameAccount(r.mem, s) /\ r.mem.state # "COMPLETED" /\ Vouched(r.mem, k)
  /\ r.at = "deliberating" => ~r.replay
  /\ r.at = "decided" /\ r.replay => r.call = s.pending /\ s.policy = "approved"
  /\ r.at \in {"dispatched", "executing"} =>
        /\ s.pending = r.call /\ s.policy = PolicyOf(k[r.call].kind)
        /\ k[r.call].came \in {"open", "refused"}
  /\ r.at = "executing" => k[r.call].entered

\* An effect that began and came to nothing that is known.
Away(k, c) == k[c].kind \notin Reading /\ k[c].entered /\ k[c].came # "known"

\* Where a process can be while an effect is in doubt: it is about to leave.
Passes(r, s) ==
  \/ r.at \in {"idle", "resuming", "failing"}
  \/ r.at \in {"replayed", "top"} /\ Halted(s)
  \/ r.at = "closing" /\ Halted(r.mem)

\* The pending action is c, and needs a manual recovery.
Blocks(c, s) == s.pending = c /\ s.policy = "manual" /\ s.state # "COMPLETED"

\* The checkpoint, and the process at work on it, account for the calls.
Account(r, s, k) ==
  /\ Sums(s, k) /\ Knows(r, s, k)
  /\ \A c \in Calls : Away(k, c) =>
        /\ Blocks(c, s)
        /\ Passes(r, s) \/ (r.at = "executing" /\ r.call = c /\ k[c].came # "uncertain")

\* Of a Work that nobody disturbed.
KnowInv == ~disturbed =>
  /\ user.fresh => user.mem = store
  /\ Sums(store, calls)
  /\ \A p \in Processes : runner[p].at # "idle" =>
        /\ \A q \in Processes \ {p} : runner[q].at = "idle"
        /\ Account(runner[p], store, calls)
  /\ Active = {} => \A c \in Calls : Away(calls, c) => Blocks(c, store)
  /\ store.state = "COMPLETED" => Active = {}

LEMMA SameSums ==
  ASSUME NEW s, NEW t, NEW k, Sums(s, k), SameAccount(t, s), t # NoWork,
         Settled(t), Vouched(t, k)
  PROVE  Sums(t, k)
  BY DEF Sums, SameAccount

\* Who is alone accounts for the calls.
LEMMA AccountOf ==
  ASSUME RunInv, KnowInv, ~disturbed, NEW p \in Processes,
         \A q \in Processes \ {p} : runner[q].at = "idle"
  PROVE  Account(runner[p], store, calls)
<1>1. CASE runner[p].at # "idle" BY <1>1 DEF KnowInv
<1>2. CASE runner[p].at = "idle"
  <2>1. Active = {} BY <1>2 DEF Active
  <2>2. Sums(store, calls) /\ \A c \in Calls : Away(calls, c) => Blocks(c, store)
    BY <2>1 DEF KnowInv
  <2>3. Knows(runner[p], store, calls) BY <1>2 DEF Knows, Copied
  <2>4. Passes(runner[p], store) BY <1>2 DEF Passes
  <2> QED BY <2>2, <2>3, <2>4 DEF Account
<1> QED BY <1>1, <1>2

LEMMA Others ==
  ASSUME KnowInv, ~disturbed, NEW p \in Processes, runner[p].at # "idle"
  PROVE  \A q \in Processes \ {p} : runner[q].at = "idle"
  BY DEF KnowInv

\* A step of p, when all others rest.
LEMMA Turn ==
  ASSUME NEW p \in Processes,
         \A q \in Processes \ {p} : runner'[q].at = "idle",
         user'.fresh => user'.mem = store',
         Account(runner'[p], store', calls')
  PROVE  KnowInv'
<1>1. Sums(store', calls') BY DEF Account
<1>2. \A q \in Processes : runner'[q].at # "idle" =>
        /\ \A o \in Processes \ {q} : runner'[o].at = "idle"
        /\ Account(runner'[q], store', calls')
  OBVIOUS
<1>3. \A c \in Calls : Away(calls', c) => Blocks(c, store') BY DEF Account
<1>4. store'.state = "COMPLETED" => Active' = {}
  <2>1. store'.state = "COMPLETED" => runner'[p].at = "idle" BY DEF Account, Knows
  <2> QED BY <2>1 DEF Active
<1> QED BY <1>1, <1>2, <1>3, <1>4 DEF KnowInv

\* A step of p to state r that saves nothing and calls nothing.
LEMMA MoveAccounts ==
  ASSUME RunInv, KnowInv, ~disturbed, NEW p \in Processes,
         \A q \in Processes \ {p} : runner[q].at = "idle",
         NEW r, runner' = [runner EXCEPT ![p] = r],
         UNCHANGED <<store, user, calls>>, Account(r, store, calls)
  PROVE  KnowInv'
<1>1. runner'[p] = r /\ \A q \in Processes : q # p => runner'[q] = runner[q]
  BY DEF RunInv
<1>2. user'.fresh => user'.mem = store' BY DEF KnowInv
<1> QED BY <1>1, <1>2, Turn

LEMMA FencedAccount ==
  ASSUME NEW s \in Snapshots
  PROVE  /\ SameAccount(Fenced(s), s)
         /\ Fenced(s).state = IF store.state = "CANCELLED" THEN "CANCELLED" ELSE s.state
         /\ Settled(s) => Settled(Fenced(s))
         /\ \A k : Vouched(s, k) => Vouched(Fenced(s), k)
         /\ ~Verified(s) => ~Verified(Fenced(s))
<1>1. /\ SameAccount(Fenced(s), s) /\ Fenced(s).recent = s.recent
      /\ Fenced(s).plan = s.plan
      /\ Fenced(s).state = IF store.state = "CANCELLED" THEN "CANCELLED" ELSE s.state
  BY DEF Fenced, SameAccount, Snapshots
<1>2. Verified(Fenced(s)) <=> Verified(s) BY <1>1 DEF Verified
<1>3. Settled(s) => Settled(Fenced(s)) BY <1>1, <1>2 DEF Settled
<1>4. \A k : Vouched(s, k) => Vouched(Fenced(s), k) BY <1>2 DEF Vouched
<1> QED BY <1>1, <1>2, <1>3, <1>4

LEMMA VouchedBy ==
  ASSUME NEW s, NEW t, NEW k, Vouched(t, k), Verified(s) => Verified(t)
  PROVE  Vouched(s, k)
  BY DEF Vouched

LEMMA SavesTo ==
  ASSUME RunInv, KnowInv, ~disturbed, NEW p \in Processes, runner[p].at # "idle",
         NEW s, NEW at, Saves(p, s, at)
  PROVE  /\ runner'[p].at = at /\ ~runner'[p].replay
         /\ at \notin Rereads \cup {"idle"} => runner'[p].mem = Fenced(s)
         /\ \A q \in Processes \ {p} : runner'[q].at = "idle"
         /\ store' = Fenced(s) /\ ~user'.fresh
<1>1. runner[p] \in Runners BY DEF RunInv
<1>2. user \in Users BY DEF RunInv, Asked
<1>3. runner'[p] = IF at = "idle" THEN Idle
                   ELSE [runner[p] EXCEPT !.at = at, !.call = Nothing, !.replay = FALSE,
                               !.mem = IF at \in Rereads THEN NoWork ELSE Fenced(s),
                               !.fresh = at \notin Rereads]
  BY DEF Saves
<1>4. \A q \in Processes \ {p} : runner'[q] = [runner[q] EXCEPT !.fresh = FALSE]
  BY DEF Saves, Stale
<1>5. \A q \in Processes \ {p} : runner[q].at = "idle" /\ runner[q] \in Runners
  BY Others DEF RunInv
<1>6. \A q \in Processes \ {p} : runner'[q].at = "idle"
  <2> TAKE q \in Processes \ {p}
  <2>1. runner'[q] = [runner[q] EXCEPT !.fresh = FALSE] BY <1>4
  <2>2. runner[q] \in Runners /\ runner[q].at = "idle" BY <1>5
  <2> QED BY <2>1, <2>2 DEF Runners
<1>7. store' = Fenced(s) /\ ~user'.fresh BY <1>2 DEF Saves, Users
<1>8. CASE at = "idle" BY <1>3, <1>6, <1>7, <1>8 DEF Idle
<1>9. CASE at # "idle" BY <1>1, <1>3, <1>6, <1>7, <1>9 DEF Runners
<1> QED BY <1>8, <1>9

\* Where a process goes that saved a checkpoint, the call apart.
Landings == {"idle", "resuming", "prepared", "entering", "deliberating", "top",
             "waiting", "replayed"}

LEMMA SavesAccount ==
  ASSUME RunInv, KnowInv, ~disturbed, NEW p \in Processes, runner[p].at # "idle",
         NEW s \in Snapshots,
         NEW at \in Landings, Saves(p, s, at), s.state = "COMPLETED" => at = "idle",
         Sums(Fenced(s), calls'),
         \A c \in Calls : Away(calls', c) =>
            /\ Blocks(c, s)
            /\ at \in {"idle", "resuming"} \/ (at \in {"replayed", "top"} /\ Halted(Fenced(s)))
  PROVE  KnowInv'
<1> DEFINE r == runner'[p]
           t == Fenced(s)
<1>1. /\ r.at = at /\ ~r.replay
      /\ at \notin Rereads \cup {"idle"} => r.mem = t
      /\ \A q \in Processes \ {p} : runner'[q].at = "idle"
      /\ store' = t /\ ~user'.fresh
  BY SavesTo
<1>2. SameAccount(t, s) /\ t.state \in {s.state, "CANCELLED"} BY FencedAccount
<1>3. t.state = "COMPLETED" => at = "idle" BY <1>2
<1>4. Knows(r, t, calls')
  BY <1>1, <1>3 DEF Sums, Knows, Landings, Copied, Rereads, SameAccount
<1>5. \A c \in Calls : Away(calls', c) => Blocks(c, t) /\ Passes(r, t)
  BY <1>1, <1>2 DEF Blocks, Passes, SameAccount
<1>6. Account(runner'[p], store', calls') BY <1>1, <1>4, <1>5 DEF Account
<1>7. \A q \in Processes \ {p} : runner'[q].at = "idle" BY <1>1
<1>8. user'.fresh => user'.mem = store' BY <1>1
<1> HIDE DEF r, t
<1> QED BY <1>6, <1>7, <1>8, Turn

\* A save that gives the account of calls which was given before.
LEMMA SavesSame ==
  ASSUME RunInv, KnowInv, ~disturbed, NEW p \in Processes,
         runner[p].at \notin {"idle", "executing"},
         NEW s \in Snapshots, s.state # "NONE", SameAccount(s, store),
         NEW at \in Landings, Saves(p, s, at), calls' = calls,
         s.state = "COMPLETED" => at = "idle", Settled(s), Vouched(s, calls),
         \A c \in Calls : Away(calls, c) =>
            /\ s.state # "COMPLETED"
            /\ at \in {"idle", "resuming"} \/ (at = "top" /\ Halted(Fenced(s)))
  PROVE  KnowInv'
<1>1. Account(runner[p], store, calls) BY AccountOf, Others
<1>2. SameAccount(Fenced(s), s) /\ Settled(Fenced(s)) /\ Vouched(Fenced(s), calls)
  BY FencedAccount
<1>3. Fenced(s) # NoWork BY FencedIs
<1>4. Sums(Fenced(s), calls')
  <2>1. SameAccount(Fenced(s), store) BY <1>2 DEF SameAccount
  <2>2. Sums(store, calls) BY <1>1 DEF Account
  <2> QED BY <1>2, <1>3, <2>1, <2>2, SameSums
<1>5. \A c \in Calls : Away(calls, c) => Blocks(c, s)
  BY <1>1 DEF Account, Blocks, SameAccount
<1> QED BY <1>4, <1>5, SavesAccount

\* No effect is in doubt before a process that is not on its way out.
LEMMA Clear ==
  ASSUME NEW r, NEW s, NEW k, Account(r, s, k),
         r.at \notin {"idle", "resuming", "failing", "replayed", "top", "closing",
                      "executing"}
  PROVE  \A c \in Calls : ~Away(k, c)
  BY DEF Account, Passes

\* A process that rests, reads, or does not change what it knows.
LEMMA RestAccount ==
  ASSUME NEW r, NEW s, NEW k, Account(r, s, k)
  PROVE  Account(Idle, s, k)
<1>1. Idle.at = "idle" BY DEF Idle
<1>2. Knows(Idle, s, k) BY <1>1 DEF Knows, Copied
<1>3. Passes(Idle, s) BY <1>1 DEF Passes
<1> QED BY <1>2, <1>3 DEF Account

LEMMA RestAccounts ==
  ASSUME RunInv, KnowInv, ~disturbed, NEW p \in Processes, runner[p].at # "idle",
         runner' = [runner EXCEPT ![p] = Idle], UNCHANGED <<store, user, calls>>
  PROVE  KnowInv'
<1>1. Account(Idle, store, calls) BY AccountOf, Others, RestAccount
<1> QED BY <1>1, Others, MoveAccounts

LEMMA ReadAccounts ==
  ASSUME RunInv, KnowInv, ~disturbed, NEW p \in Processes,
         \A q \in Processes \ {p} : runner[q].at = "idle",
         store.state # "COMPLETED",
         NEW at \in {"resuming", "failing", "beginning", "top", "closing"},
         Reads(p, at), UNCHANGED <<store, user, calls>>,
         \A c \in Calls : Away(calls, c) =>
            at \in {"resuming", "failing"} \/ (at = "closing" /\ Halted(store))
  PROVE  KnowInv'
<1> DEFINE r == [runner[p] EXCEPT !.at = at, !.mem = store, !.fresh = TRUE]
<1>1. runner' = [runner EXCEPT ![p] = r] BY DEF Reads
<1>2. runner[p] \in Runners BY DEF RunInv
<1>3. r.at = at /\ r.mem = store BY <1>2 DEF Runners
<1>4. Account(runner[p], store, calls) BY AccountOf
<1> HIDE DEF r
<1>5. Knows(r, store, calls)
  BY <1>3, <1>4 DEF Account, Sums, Knows, SameAccount
<1>6. \A c \in Calls : Away(calls, c) => Passes(r, store) BY <1>3 DEF Passes
<1>7. Account(r, store, calls) BY <1>4, <1>5, <1>6 DEF Account
<1> QED BY <1>1, <1>7, MoveAccounts

LEMMA LeavesAccount ==
  ASSUME RunInv, KnowInv, ~disturbed, NEW p \in Processes,
         runner[p].at \notin {"idle", "creating", "executing"},
         Leaves(p, store), calls' = calls
  PROVE  KnowInv'
<1>1. Account(runner[p], store, calls) BY AccountOf, Others
<1>2. CASE runner' = [runner EXCEPT ![p] = Idle] /\ UNCHANGED <<store, user>>
  BY <1>2, RestAccounts
<1>3. CASE Saves(p, store, "idle")
  <2>1. store \in Snapshots /\ store.state # "NONE" BY AtWork
  <2>2. SameAccount(store, store) BY DEF SameAccount
  <2>3. store.state # "COMPLETED" /\ Settled(store) /\ Vouched(store, calls)
    BY <1>1 DEF Account, Knows, Sums
  <2>4. "idle" \in Landings BY DEF Landings
  <2> QED BY <1>3, <2>1, <2>2, <2>3, <2>4, SavesSame
<1> QED BY <1>2, <1>3 DEF Leaves

\* Where a copy is in memory, it gives the account that is stored.
LEMMA CopyIs ==
  ASSUME RunInv, KnowInv, ~disturbed, NEW p \in Processes, runner[p].at \in Copied
  PROVE  /\ SameAccount(runner[p].mem, store)
         /\ runner[p].mem.state # "COMPLETED" /\ store.state # "COMPLETED"
         /\ runner[p].at # "idle" /\ Account(runner[p], store, calls)
         /\ runner[p] \in Runners /\ runner[p].mem \in Snapshots
         /\ Vouched(runner[p].mem, calls)
<1>1. runner[p].at # "idle" BY DEF Copied
<1>2. Account(runner[p], store, calls) BY <1>1, AccountOf, Others
<1> QED BY <1>1, <1>2, AtWork DEF Account, Knows

\* Changing the state alone, or with what no account depends on.
LEMMA InStateAccount ==
  ASSUME NEW s \in Snapshots, NEW state, NEW b
  PROVE  /\ Renews(InState(s, state), s) /\ InState(s, state).plan = s.plan
         /\ Verified(s) => Verified(InState(s, state))
         /\ Renews(InStateMend(s, state, b), s)
         /\ SameAccount(InStateNoted(s, state, b), s)
<1>1. /\ SameAccount(InState(s, state), s) /\ InState(s, state).recent = s.recent
      /\ InState(s, state).plan = s.plan
      /\ SameAccount(InStateMend(s, state, b), s) /\ InStateMend(s, state, b).recent = s.recent
      /\ SameAccount(InStateNoted(s, state, b), s)
  BY DEF SameAccount, InState, InStateMend, InStateNoted, Snapshots
<1> QED BY <1>1 DEF Renews, Verified

\* A save of the copy in another state.
LEMMA SavesCopy ==
  ASSUME RunInv, KnowInv, ~disturbed, NEW p \in Processes,
         runner[p].at \in Copied \ {"executing"},
         NEW s \in Snapshots, Renews(s, runner[p].mem),
         s.state \notin {"NONE", "COMPLETED"},
         NEW at \in Landings, Saves(p, s, at), calls' = calls,
         \A c \in Calls : Away(calls, c) =>
            at \in {"idle", "resuming"} \/ (at = "top" /\ Halted(Fenced(s)))
  PROVE  KnowInv'
<1>1. SameAccount(s, store) BY CopyIs DEF Renews, SameAccount
<1>2. runner[p].at \notin {"idle", "executing"} BY CopyIs
<1>3. Vouched(s, calls) BY CopyIs, VouchedBy DEF Renews
<1>4. Settled(s) BY DEF Settled
<1> QED BY <1>1, <1>2, <1>3, <1>4, SavesSame

LEMMA SubmissionsAccount ==
  ASSUME RunInv, KnowInv, ~disturbed, NEW p \in Processes,
         Submit(p) \/ Create(p) \/ Launch(p)
  PROVE  KnowInv'
<1>1. CASE Submit(p)
  <2> DEFINE r == [runner[p] EXCEPT !.at = "creating", !.turn = 0]
  <2>1. \A q \in Processes : runner[q].at = "idle" BY <1>1 DEF Submit, RunInv, Marked
  <2>2. Account(runner[p], store, calls) BY <2>1, AccountOf
  <2>3. /\ store = NoWork /\ runner' = [runner EXCEPT ![p] = r]
        /\ UNCHANGED <<store, user, calls>>
    BY <1>1 DEF Submit, RunInv, Marked
  <2>4. r.at = "creating" BY DEF RunInv, Runners
  <2> HIDE DEF r
  <2>5. store.state # "COMPLETED" BY <2>3, NoWorkTyped
  <2>6. Knows(r, store, calls) BY <2>3, <2>4, <2>5 DEF Knows, Copied
  <2>7. \A c \in Calls : ~Away(calls, c)
    BY <2>2, <2>3 DEF Account, Sums, Away, NoCall
  <2>8. Account(r, store, calls) BY <2>2, <2>6, <2>7 DEF Account
  <2> QED BY <2>1, <2>3, <2>8, MoveAccounts
<1>2. CASE Create(p)
  <2> PICK planned \in Planned : Saves(p, NewWork(planned), "prepared")
    BY <1>2 DEF Create
  <2> DEFINE w == NewWork(planned)
  <2>1. runner[p].at = "creating" /\ Saves(p, w, "prepared") /\ calls' = calls
    BY <1>2 DEF Create
  <2>2. Account(runner[p], store, calls) BY <2>1, AccountOf, Others
  <2>3. store = NoWork BY <2>1, <2>2 DEF Account, Knows
  <2>4. \A c \in Calls : calls[c] = NoCall BY <2>2, <2>3 DEF Account, Sums
  <2>5. w \in Snapshots /\ w.state = "ACTIVE" /\ w.policy = "none" /\ ~Verified(w)
    BY NewWorkIs
  <2> HIDE DEF w
  <2>6. Fenced(w) = w BY <2>3, NoWorkTyped DEF Fenced
  <2>7. Sums(Fenced(w), calls')
    <3>1. ~NoCall.entered /\ w # NoWork BY <2>5, NoWorkTyped DEF NoCall
    <3>2. Settled(w) /\ Vouched(w, calls') BY <2>5 DEF Settled, Vouched
    <3> QED BY <2>1, <2>4, <2>5, <2>6, <3>1, <3>2 DEF Sums
  <2>8. \A c \in Calls : ~Away(calls', c) BY <2>1, <2>4 DEF Away, NoCall
  <2>9. "prepared" \in Landings BY DEF Landings
  <2> QED BY <2>1, <2>5, <2>7, <2>8, <2>9, SavesAccount
<1>3. CASE Launch(p)
  <2> DEFINE r == [runner[p] EXCEPT !.at = "entering"]
  <2>1. /\ runner[p].at = "prepared" /\ UNCHANGED <<store, user, calls>>
        /\ runner' = [runner EXCEPT ![p] = r] \/ runner' = [runner EXCEPT ![p] = Idle]
    BY <1>3 DEF Launch
  <2>2. Account(runner[p], store, calls) BY <2>1, AccountOf, Others
  <2>3. r.at = "entering" BY DEF RunInv, Runners
  <2> HIDE DEF r
  <2>4. Knows(r, store, calls) BY <2>1, <2>2, <2>3 DEF Account, Knows, Copied
  <2>5. \A c \in Calls : ~Away(calls, c) BY <2>1, <2>2, Clear
  <2>6. Account(r, store, calls) BY <2>2, <2>4, <2>5 DEF Account
  <2> QED BY <2>1, <2>6, RestAccounts, MoveAccounts, Others
<1> QED BY <1>1, <1>2, <1>3

LEMMA ResumptionsAccount ==
  ASSUME RunInv, KnowInv, ~disturbed, NEW p \in Processes,
         \/ Resume(p) \/ Mend(p) \/ ResumeApproval(p) \/ ResumeDoubt(p) \/ ResumeAfresh(p)
  PROVE  KnowInv'
<1>1. CASE Resume(p)
  <2>1. /\ Reads(p, "resuming") /\ store.state # "COMPLETED"
        /\ UNCHANGED <<store, user, calls>> /\ disturbed' = (disturbed \/ Active # {})
    BY <1>1 DEF Resume, Over, Ends
  <2>2. CASE Active = {}
    <3>1. \A q \in Processes : runner[q].at = "idle" BY <2>2 DEF Active
    <3> QED BY <2>1, <3>1, ReadAccounts
  <2>3. CASE Active # {} BY <2>1, <2>3 DEF KnowInv
  <2> QED BY <2>2, <2>3
<1> DEFINE m == runner[p].mem
<1>2. ASSUME runner[p].at = "resuming"
      PROVE  /\ SameAccount(m, store) /\ m \in Snapshots /\ m.state # "COMPLETED"
             /\ store.state # "COMPLETED" /\ Account(runner[p], store, calls)
             /\ runner[p].at \in Copied \ {"executing"} /\ Vouched(m, calls)
             /\ {"idle", "resuming", "entering"} \subseteq Landings
  BY <1>2, CopyIs DEF Copied, Landings
<1>3. CASE Mend(p)
  <2> DEFINE s == InStateMend(m, "RECOVERY_REQUIRED", FALSE)
  <2>1. runner[p].at = "resuming" /\ Saves(p, s, "resuming") /\ calls' = calls
    BY <1>3 DEF Mend, InStateMend
  <2>2. s \in Snapshots /\ s.state = "RECOVERY_REQUIRED"
    BY <1>2, <2>1, StateNames, InStateMendIs
  <2>3. Renews(s, m) BY <1>2, <2>1, InStateAccount
  <2> HIDE DEF s
  <2> QED BY <1>2, <2>1, <2>2, <2>3, SavesCopy
<1>4. CASE ResumeApproval(p)
  <2> DEFINE s == InStatePolicy(m, "ACTIVE", "approved")
             t == InState(m, "BLOCKED")
  <2>1. /\ runner[p].at = "resuming" /\ m.policy = "approval" /\ calls' = calls
        /\ \/ runner' = [runner EXCEPT ![p] = Idle] /\ UNCHANGED <<store, user>>
           \/ Saves(p, s, "entering")
           \/ Saves(p, t, "idle")
    BY <1>4 DEF ResumeApproval, InState, InStatePolicy
  <2>2. CASE runner' = [runner EXCEPT ![p] = Idle] /\ UNCHANGED <<store, user>>
    BY <2>1, <2>2, RestAccounts
  <2>3. CASE Saves(p, s, "entering")
    <3>1. s \in Snapshots /\ s.state = "ACTIVE"
      BY <1>2, <2>1, StateNames, InStatePolicyIs
    <3>2. /\ s.pending = m.pending /\ s.policy = "approved" /\ s.observed = m.observed
          /\ s.recent = m.recent
      BY <1>2, <2>1 DEF InStatePolicy, Snapshots
    <3> HIDE DEF s
    <3>3. SameAccount(Fenced(s), s) /\ Fenced(s) # NoWork /\ Settled(Fenced(s))
          /\ Vouched(Fenced(s), calls)
      <4>1. Vouched(s, calls) BY <1>2, <2>1, <3>2, VouchedBy DEF Verified
      <4>2. Settled(s) BY <3>1 DEF Settled
      <4> QED BY <3>1, <4>1, <4>2, FencedAccount, FencedIs
    <3>4. Sums(Fenced(s), calls')
      BY <1>2, <2>1, <3>2, <3>3 DEF Sums, SameAccount, Account
    <3>5. \A c \in Calls : ~Away(calls, c)
      BY <1>2, <2>1 DEF Account, Blocks, SameAccount
    <3> QED BY <1>2, <2>1, <2>3, <3>1, <3>4, <3>5, SavesAccount
  <2>4. CASE Saves(p, t, "idle")
    <3>1. t \in Snapshots /\ t.state = "BLOCKED" BY <1>2, <2>1, StateNames, InStateIs
    <3>2. Renews(t, m) BY <1>2, <2>1, InStateAccount
    <3> HIDE DEF t
    <3> QED BY <1>2, <2>1, <2>4, <3>1, <3>2, SavesCopy
  <2> QED BY <2>1, <2>2, <2>3, <2>4
<1>5. CASE ResumeDoubt(p)
  <2> DEFINE s == InState(m, "RECOVERY_REQUIRED")
  <2>1. runner[p].at = "resuming" /\ Saves(p, s, "idle") /\ calls' = calls
    BY <1>5 DEF ResumeDoubt, InState
  <2>2. s \in Snapshots /\ s.state = "RECOVERY_REQUIRED"
    BY <1>2, <2>1, StateNames, InStateIs
  <2>3. Renews(s, m) BY <1>2, <2>1, InStateAccount
  <2> HIDE DEF s
  <2> QED BY <1>2, <2>1, <2>2, <2>3, SavesCopy
<1>6. CASE ResumeAfresh(p)
  <2> DEFINE s == InStatePending(m, "ACTIVE", Nothing, "none")
  <2>1. /\ runner[p].at = "resuming" /\ Saves(p, s, "entering") /\ calls' = calls
        /\ m.policy # "manual"
    BY <1>6 DEF ResumeAfresh, InStatePending
  <2>2. s \in Snapshots /\ s.state = "ACTIVE" BY <1>2, <2>1, StateNames, InStatePendingIs
  <2>3. s.policy = "none" /\ s.observed = m.observed /\ s.recent = m.recent
    BY <1>2, <2>1 DEF InStatePending, Snapshots
  <2> HIDE DEF s
  <2>4. SameAccount(Fenced(s), s) /\ Fenced(s) # NoWork /\ Settled(Fenced(s))
        /\ Vouched(Fenced(s), calls)
    <3>1. Vouched(s, calls) BY <1>2, <2>1, <2>3, VouchedBy DEF Verified
    <3>2. Settled(s) BY <2>2 DEF Settled
    <3> QED BY <2>2, <3>1, <3>2, FencedAccount, FencedIs
  <2>5. Sums(Fenced(s), calls')
    BY <1>2, <2>1, <2>3, <2>4 DEF Sums, SameAccount, Account
  <2>6. \A c \in Calls : ~Away(calls, c)
    BY <1>2, <2>1 DEF Account, Blocks, SameAccount
  <2> QED BY <1>2, <2>1, <2>2, <2>5, <2>6, SavesAccount
<1> QED BY <1>1, <1>3, <1>4, <1>5, <1>6

LEMMA BeginAccounts ==
  ASSUME RunInv, KnowInv, ~disturbed, NEW p \in Processes, Begin(p) PROVE KnowInv'
<1> DEFINE s == runner[p].mem
           Next1(t, fresh) ==
             IF Over(t) THEN Idle
             ELSE IF t.policy = "approved"
             THEN [runner[p] EXCEPT !.at = "decided", !.mem = t, !.fresh = fresh \/ @,
                                    !.replay = TRUE, !.call = t.pending]
             ELSE [runner[p] EXCEPT !.at = "top", !.mem = t, !.fresh = fresh \/ @]
<1>1. /\ runner[p].at = "beginning" /\ calls' = calls
      /\ \/ /\ runner' = [q \in Processes |-> IF q # p THEN runner[q] ELSE Next1(s, FALSE)]
            /\ UNCHANGED <<store, user>>
         \/ /\ runner' = [q \in Processes |->
                            IF q # p THEN Stale(q) ELSE Next1(Fenced(s), TRUE)]
            /\ store' = Fenced(s) /\ user' = [user EXCEPT !.fresh = FALSE]
  BY DEF Begin
<1>2. /\ SameAccount(s, store) /\ s.state # "COMPLETED" /\ store.state # "COMPLETED"
      /\ Account(runner[p], store, calls) /\ runner[p] \in Runners /\ s \in Snapshots
      /\ Vouched(s, calls)
  BY <1>1, CopyIs DEF Copied
<1>3. \A c \in Calls : ~Away(calls, c) BY <1>1, <1>2, Clear
<1>4. \A q \in Processes \ {p} : runner[q].at = "idle" /\ runner[q] \in Runners
  BY <1>1, Others DEF RunInv
<1>5. ASSUME NEW t, NEW u, t.state # "COMPLETED", u.state # "COMPLETED",
             SameAccount(t, u), Vouched(t, calls), NEW fresh
      PROVE  Knows(Next1(t, fresh), u, calls)
  <2>1. CASE Over(t) BY <1>5, <2>1 DEF Idle, Knows, Copied
  <2>2. CASE ~Over(t) /\ t.policy = "approved"
    <3> DEFINE r == Next1(t, fresh)
    <3>1. r.at = "decided" /\ r.mem = t /\ r.call = t.pending
      BY <1>2, <2>2 DEF Runners
    <3> HIDE DEF r, Next1
    <3>2. Knows(r, u, calls) BY <1>5, <2>2, <3>1 DEF Knows, SameAccount
    <3> QED BY <3>2 DEF r
  <2>3. CASE ~Over(t) /\ t.policy # "approved"
    <3> DEFINE r == Next1(t, fresh)
    <3>1. r.at = "top" /\ r.mem = t BY <1>2, <2>3 DEF Runners
    <3> HIDE DEF r, Next1
    <3>2. Knows(r, u, calls) BY <1>5, <3>1 DEF Knows
    <3> QED BY <3>2 DEF r
  <2> QED BY <2>1, <2>2, <2>3
<1>6. /\ SameAccount(Fenced(s), s) /\ Fenced(s).state \in {s.state, "CANCELLED"}
      /\ Vouched(Fenced(s), calls)
  BY <1>2, FencedAccount
<1>7. Fenced(s) # NoWork
  <2>1. s.state # "NONE" BY <1>1 DEF RunInv, Fits
  <2> QED BY <1>2, <2>1, FencedIs
<1> HIDE DEF Next1
<1>8. CASE /\ runner' = [q \in Processes |-> IF q # p THEN runner[q] ELSE Next1(s, FALSE)]
           /\ UNCHANGED <<store, user>>
  <2> DEFINE r == Next1(s, FALSE)
  <2>1. runner' = [runner EXCEPT ![p] = r] BY <1>8 DEF RunInv
  <2>2. Knows(r, store, calls) BY <1>2, <1>5
  <2> HIDE DEF r
  <2>3. Account(r, store, calls) BY <1>2, <1>3, <2>2 DEF Account
  <2> QED BY <1>1, <1>4, <1>8, <2>1, <2>3, MoveAccounts
<1>9. CASE /\ runner' = [q \in Processes |->
                           IF q # p THEN Stale(q) ELSE Next1(Fenced(s), TRUE)]
           /\ store' = Fenced(s) /\ user' = [user EXCEPT !.fresh = FALSE]
  <2>1. runner'[p] = Next1(Fenced(s), TRUE) BY <1>9
  <2>2. SameAccount(Fenced(s), Fenced(s)) BY DEF SameAccount
  <2>3. Knows(Next1(Fenced(s), TRUE), Fenced(s), calls) BY <1>2, <1>5, <1>6, <2>2
  <2>4. Sums(Fenced(s), calls)
    <3>1. SameAccount(Fenced(s), store) BY <1>2, <1>6 DEF SameAccount
    <3>2. Settled(Fenced(s)) BY <1>2, <1>6 DEF Settled
    <3> QED BY <1>2, <1>6, <1>7, <3>1, <3>2, SameSums DEF Account
  <2>5. Account(runner'[p], store', calls')
    BY <1>1, <1>3, <1>9, <2>1, <2>3, <2>4 DEF Account
  <2>6. \A q \in Processes \ {p} : runner'[q].at = "idle"
    BY <1>4, <1>9 DEF Stale, Runners
  <2>7. ~user'.fresh BY <1>9 DEF RunInv, Asked, Users
  <2> QED BY <2>5, <2>6, <2>7, Turn
<1> QED BY <1>1, <1>8, <1>9

LEMMA LoopAccounts ==
  ASSUME RunInv, KnowInv, ~disturbed, NEW p \in Processes,
         Enter(p) \/ Refresh(p) \/ Exhaust(p) \/ Analyse(p) \/ Unanswered(p) \/ Decide(p)
  PROVE  KnowInv'
<1> DEFINE m == runner[p].mem
<1>1. /\ runner[p].at \in {"entering", "top", "waiting", "analysing", "deliberating"}
      /\ calls' = calls
  BY DEF Enter, Refresh, Exhaust, Analyse, Unanswered, Decide
<1>2. /\ runner[p].at # "idle" /\ \A q \in Processes \ {p} : runner[q].at = "idle"
      /\ Account(runner[p], store, calls) /\ store.state # "COMPLETED"
      /\ runner[p] \in Runners /\ Latest(p) = store
  BY <1>1, Others, AccountOf, AtWork DEF Account, Knows
<1>3. {"idle", "deliberating"} \subseteq Landings BY DEF Landings
<1>4. CASE Enter(p)
  <2>1. runner[p].at = "entering" /\ Reads(p, "beginning") /\ UNCHANGED <<store, user>>
    BY <1>4 DEF Enter
  <2>2. \A c \in Calls : ~Away(calls, c) BY <1>2, <2>1, Clear
  <2> QED BY <1>1, <1>2, <2>1, <2>2, ReadAccounts
<1>5. CASE Refresh(p)
  <2>1. runner[p].at = "top" BY <1>5 DEF Refresh
  <2>2. CASE Halted(store)
    <3>1. Leaves(p, store) BY <1>2, <1>5, <2>2 DEF Refresh
    <3> QED BY <1>1, <2>1, <3>1, LeavesAccount
  <2>3. CASE ~Halted(store)
    <3> DEFINE r == [runner[p] EXCEPT !.at = "analysing", !.turn = @ + 1,
                                      !.mem = Latest(p), !.fresh = Latest(p) = store]
    <3>1. runner' = [runner EXCEPT ![p] = r] /\ UNCHANGED <<store, user>>
      <4>1. ~Halted(Latest(p)) BY <1>2, <2>3
      <4> QED BY <1>5, <4>1 DEF Refresh
    <3>2. r.at = "analysing" /\ r.mem = store BY <1>2 DEF Runners
    <3> HIDE DEF r
    <3>3. Knows(r, store, calls) BY <1>2, <3>2 DEF Account, Sums, Knows, SameAccount
    <3>4. \A c \in Calls : ~Away(calls, c) BY <1>2, <2>1, <2>3 DEF Account, Passes
    <3>5. Account(r, store, calls) BY <1>2, <3>3, <3>4 DEF Account
    <3> QED BY <1>1, <1>2, <3>1, <3>5, MoveAccounts
  <2> QED BY <2>2, <2>3
<1>6. ASSUME runner[p].at \in {"top", "waiting", "analysing", "deliberating"},
             NEW state \in States
      PROVE  /\ InState(m, state) \in Snapshots /\ InState(m, state).state = state
             /\ Renews(InState(m, state), m) /\ state # "NONE"
             /\ runner[p].at \in Copied \ {"executing"}
  BY <1>6, CopyIs, InStateIs, InStateAccount, StateNames DEF Copied
<1>7. CASE Exhaust(p)
  <2>1. runner[p].at \in {"top", "waiting"} /\ Saves(p, InState(m, "BLOCKED"), "idle")
    BY <1>7 DEF Exhaust, InState
  <2>2. "BLOCKED" \in States BY StateNames
  <2> QED BY <1>1, <1>3, <1>6, <2>1, <2>2, SavesCopy
<1>8. CASE Analyse(p)
  <2>1. /\ runner[p].at = "analysing" /\ Saves(p, InState(m, "ACTIVE"), "deliberating")
    BY <1>8 DEF Analyse, InState
  <2>2. "ACTIVE" \in States BY StateNames
  <2>3. \A c \in Calls : ~Away(calls, c) BY <1>2, <2>1, Clear
  <2> QED BY <1>1, <1>3, <1>6, <2>1, <2>2, <2>3, SavesCopy
<1>9. CASE Unanswered(p)
  <2>1. /\ runner[p].at = "deliberating"
        /\ \E state \in {"RECOVERY_REQUIRED", "FAILED"} : Saves(p, InState(m, state), "idle")
    BY <1>9 DEF Unanswered, InState
  <2>2. "RECOVERY_REQUIRED" \in States /\ "FAILED" \in States BY StateNames
  <2> QED BY <1>1, <1>3, <1>6, <2>1, <2>2, SavesCopy
<1>10. CASE Decide(p)
  <2>1. runner[p].at = "deliberating" BY <1>10 DEF Decide
  <2>2. \A c \in Calls : ~Away(calls, c) BY <1>2, <2>1, Clear
  <2>3. CASE runner[p].fresh
    <3> DEFINE r == [runner[p] EXCEPT !.at = "decided"]
    <3>1. runner' = [runner EXCEPT ![p] = r] /\ UNCHANGED <<store, user>>
      BY <1>10, <2>3 DEF Decide
    <3>2. r.at = "decided" /\ r.mem = m /\ r.replay = runner[p].replay
      BY <1>2 DEF Runners
    <3> HIDE DEF r
    <3>3. Knows(r, store, calls)
      BY <1>2, <2>1, <3>2 DEF Account, Knows, Copied
    <3>4. Account(r, store, calls) BY <1>2, <2>2, <3>3 DEF Account
    <3> QED BY <1>1, <1>2, <3>1, <3>4, MoveAccounts
  <2>4. CASE ~runner[p].fresh /\ Halted(store)
    <3>1. Leaves(p, store) BY <1>10, <2>4 DEF Decide
    <3> QED BY <1>1, <2>1, <3>1, LeavesAccount
  <2>5. CASE ~runner[p].fresh /\ ~Halted(store)
    <3>1. Reads(p, "top") /\ UNCHANGED <<store, user>> BY <1>10, <2>5 DEF Decide
    <3> QED BY <1>1, <1>2, <2>2, <3>1, ReadAccounts
  <2> QED BY <2>3, <2>4, <2>5
<1> QED BY <1>4, <1>5, <1>7, <1>8, <1>9, <1>10

\* A passed verification is not noted by another observation.
LEMMA NotedPassed ==
  ASSUME NEW s, NEW i \in 1..Window, Noted(s.recent, "other")[i] = "passed"
  PROVE  Verified(s)
<1>1. i # Window /\ s.recent[i + 1] = "passed" BY DEF Noted
<1>2. i + 1 \in 1..Window BY <1>1, WorkAssumption
<1> QED BY <1>1, <1>2 DEF Verified

\* A verification that passed is of the effects whose outcome is known.
LEMMA CheckedSums ==
  ASSUME NEW s, NEW t, NEW u, Sums(t, calls), SameAccount(s, t), SameAccount(u, t),
         u # NoWork, Settled(u), calls \in [Calls -> CallRecords]
  PROVE  Sums(u, CheckedIn(s)) /\ \A c \in Calls : Away(CheckedIn(s), c) => Away(calls, c)
<1> DEFINE k == CheckedIn(s)
<1>1. ASSUME NEW c \in Calls
      PROVE  /\ k[c].kind = calls[c].kind /\ k[c].entered = calls[c].entered
             /\ k[c].came = calls[c].came
             /\ calls[c].entered /\ c \in s.observed => k[c].checked
  BY DEF CheckedIn, CallRecords
<1> HIDE DEF k
<1>2. Vouched(u, k) BY <1>1 DEF Vouched, Sums, SameAccount
<1>3. Sums(u, k) BY <1>1, <1>2 DEF Sums, SameAccount
<1>4. \A c \in Calls : Away(k, c) => Away(calls, c) BY <1>1 DEF Away
<1> QED BY <1>3, <1>4 DEF k

LEMMA DecisionsAccount ==
  ASSUME RunInv, KnowInv, ~disturbed, NEW p \in Processes,
         \/ Suppress(p)
         \/ \E s \in Copies(p) :
               \/ Think(p, s) \/ Complete(p, s)
               \/ \E ok \in BOOLEAN : Verify(p, s, ok)
               \/ \E state \in {"PAUSED", "WAITING_FOR_APPROVAL", "BLOCKED", "FAILED"},
                     mend \in BOOLEAN : Halt(p, s, state, mend)
  PROVE  KnowInv'
<1> DEFINE m == runner[p].mem
<1>1. runner[p].at = "decided"
  BY DEF Suppress, Think, Verify, Halt, Complete, Decided
<1>2. /\ runner[p].at \in Copied \ {"executing"} /\ m \in Snapshots
      /\ Account(runner[p], store, calls) /\ SameAccount(m, store)
      /\ m.state # "COMPLETED" /\ Vouched(m, calls) /\ m.recent \in Windows
      /\ calls \in [Calls -> CallRecords]
  BY <1>1, CopyIs DEF Copied, Snapshots, RunInv, Typed
<1>3. \A c \in Calls : ~Away(calls, c) BY <1>1, <1>2, Clear
<1>4. "idle" \in Landings /\ "top" \in Landings BY DEF Landings
<1>5. ASSUME NEW s \in Copies(p)
      PROVE  /\ s \in Snapshots /\ Renews(s, m) /\ s.recent \in Windows
             /\ \A e \in {"tool", "passed", "other"} : Noted(s.recent, e) \in Windows
  <2>1. s \in Snapshots /\ Renews(s, m)
    BY <1>2, <1>5, CopiesAre DEF Renews, SameAccount
  <2>2. s.recent \in Windows BY <2>1 DEF Snapshots
  <2> QED BY <2>1, <2>2, WindowIs
\* A save that renews the copy, or notes another observation.
<1>6. ASSUME NEW s \in Snapshots, Renews(s, m), s.state \notin {"NONE", "COMPLETED"},
             NEW at \in {"top", "idle"}, Saves(p, s, at), calls' = calls
      PROVE  KnowInv'
  BY <1>2, <1>3, <1>4, <1>6, SavesCopy
<1>7. ASSUME NEW s \in Snapshots, SameAccount(s, m), NEW state \in {"ACTIVE", "BLOCKED"},
             NEW e \in Windows, NEW at \in {"top", "idle"},
             Saves(p, InStateNoted(s, state, e), at), calls' = calls,
             (\E i \in 1..Window : e[i] = "passed") => Verified(m)
      PROVE  KnowInv'
  <2> DEFINE u == InStateNoted(s, state, e)
  <2>1. state \in States /\ state \notin {"NONE", "COMPLETED"} BY StateNames
  <2>2. u \in Snapshots /\ u.state = state /\ u.recent = e /\ SameAccount(u, s)
    BY <1>7, <2>1, InStateNotedIs, InStateAccount
  <2>3. Renews(u, m) BY <1>7, <2>2 DEF Renews, SameAccount, Verified
  <2> HIDE DEF u
  <2> QED BY <1>6, <1>7, <2>1, <2>2, <2>3 DEF u
\* A verification that passed.
<1>8. ASSUME NEW s \in Copies(p), NEW state \in {"ACTIVE", "COMPLETED"},
             NEW at \in {"top", "idle"}, state = "COMPLETED" => at = "idle",
             Saves(p, InStateNoted(s, state, Noted(s.recent, "passed")), at),
             calls' = CheckedIn(s)
      PROVE  KnowInv'
  <2> DEFINE e == Noted(s.recent, "passed")
             u == InStateNoted(s, state, e)
  <2>1. state \in States /\ state # "NONE" /\ e \in Windows BY <1>5, StateNames
  <2>2. e[Window] = "passed" /\ Window \in 1..Window BY WorkAssumption DEF Noted
  <2> HIDE DEF e
  <2>3. u \in Snapshots /\ u.state = state /\ u.recent = e /\ SameAccount(u, s)
    BY <1>5, <2>1, InStateNotedIs, InStateAccount
  <2>4. SameAccount(s, store) BY <1>2, <1>5 DEF Renews, SameAccount
  <2> HIDE DEF u
  <2>5. Settled(u) BY <2>2, <2>3 DEF Settled, Verified
  <2>6. /\ Settled(Fenced(u)) /\ SameAccount(Fenced(u), u)
        /\ Fenced(u) # NoWork
    BY <2>1, <2>3, <2>5, FencedAccount, FencedIs
  <2>7. SameAccount(Fenced(u), store) BY <2>3, <2>4, <2>6 DEF SameAccount
  <2>8. Sums(Fenced(u), calls') /\ \A c \in Calls : ~Away(calls', c)
    BY <1>2, <1>3, <1>8, <2>4, <2>6, <2>7, CheckedSums DEF Account
  <2>9. Saves(p, u, at) BY <1>8 DEF u, e
  <2> QED BY <1>1, <1>4, <1>8, <2>3, <2>8, <2>9, SavesAccount
<1>9. CASE Suppress(p)
  <2> DEFINE e == Noted(m.recent, "other")
  <2>1. e \in Windows BY <1>2, WindowIs
  <2>2. /\ \/ Saves(p, InStateNoted(m, "ACTIVE", e), "top")
           \/ Saves(p, InStateNoted(m, "BLOCKED", e), "idle")
        /\ calls' = calls
    BY <1>9 DEF Suppress, InStateNoted
  <2>3. SameAccount(m, m) BY DEF SameAccount
  <2>4. (\E i \in 1..Window : e[i] = "passed") => Verified(m) BY NotedPassed
  <2> HIDE DEF e
  <2> QED BY <1>2, <1>7, <2>1, <2>2, <2>3, <2>4
<1>10. ASSUME NEW s \in Copies(p), Think(p, s) PROVE KnowInv'
  <2>1. Saves(p, InState(s, "ACTIVE"), "top") /\ calls' = calls
    BY <1>10 DEF Think, InState
  <2>2. "ACTIVE" \in States BY StateNames
  <2>3. Renews(InState(s, "ACTIVE"), m)
    BY <1>5, <1>10, InStateAccount DEF Renews, SameAccount
  <2> QED BY <1>5, <1>6, <2>1, <2>2, <2>3, InStateIs
<1>11. ASSUME NEW s \in Copies(p), NEW ok \in BOOLEAN, Verify(p, s, ok) PROVE KnowInv'
  <2>1. CASE ok
    <3>1. /\ Saves(p, InStateNoted(s, "ACTIVE", Noted(s.recent, "passed")), "top")
          /\ calls' = CheckedIn(s)
      BY <1>11, <2>1 DEF Verify, InStateNoted
    <3> QED BY <1>8, <3>1
  <2>2. CASE ~ok
    <3> DEFINE e == Noted(s.recent, "other")
    <3>1. Saves(p, InStateNoted(s, "ACTIVE", e), "top") /\ calls' = calls
      BY <1>11, <2>2 DEF Verify, InStateNoted
    <3>2. e \in Windows /\ s \in Snapshots /\ SameAccount(s, m) BY <1>5 DEF Renews
    <3>3. (\E i \in 1..Window : e[i] = "passed") => Verified(m)
      BY <1>5, NotedPassed DEF Renews
    <3> HIDE DEF e
    <3> QED BY <1>7, <3>1, <3>2, <3>3
  <2> QED BY <2>1, <2>2
<1>12. ASSUME NEW s \in Copies(p), NEW mend \in BOOLEAN,
              NEW state \in {"PAUSED", "WAITING_FOR_APPROVAL", "BLOCKED", "FAILED"},
              Halt(p, s, state, mend)
       PROVE  KnowInv'
  <2>1. Saves(p, InStateMend(s, state, mend), "idle") /\ calls' = calls
    BY <1>12 DEF Halt, InStateMend
  <2>2. state \in States /\ state \notin {"NONE", "COMPLETED"} BY StateNames
  <2>3. Renews(InStateMend(s, state, mend), m)
    BY <1>5, <1>12, InStateAccount DEF Renews, SameAccount
  <2> QED BY <1>5, <1>6, <2>1, <2>2, <2>3, InStateMendIs
<1>13. ASSUME NEW s \in Copies(p), Complete(p, s) PROVE KnowInv'
  <2>1. s \in Snapshots /\ Renews(s, m) BY <1>5
  <2>2. CASE Required(s) /\ ~Verified(s)
    <3>1. /\ Saves(p, InStateNoted(s, "COMPLETED", Noted(s.recent, "passed")), "idle")
          /\ calls' = CheckedIn(s)
      BY <1>13, <2>1, <2>2 DEF Complete, InStateNoted, Snapshots
    <3> QED BY <1>8, <3>1
  <2>3. CASE ~(Required(s) /\ ~Verified(s))
    <3> DEFINE u == InState(s, "COMPLETED")
    <3>1. Saves(p, u, "idle") /\ calls' = calls BY <1>13, <2>3 DEF Complete, InState
    <3>2. "COMPLETED" \in States BY StateNames
    <3>3. /\ u \in Snapshots /\ u.state = "COMPLETED" /\ u.plan = s.plan
          /\ SameAccount(u, s) /\ (Verified(u) <=> Verified(s))
      BY <2>1, <3>2, InStateIs, InStateAccount DEF Renews
    <3> HIDE DEF u
    <3>4. SameAccount(u, store) BY <1>2, <2>1, <3>3 DEF Renews, SameAccount
    <3>5. Settled(u) BY <2>3, <3>3 DEF Settled, Required
    <3>6. Vouched(u, calls) BY <1>2, <2>1, <3>3, VouchedBy DEF Renews
    <3>7. runner[p].at \notin {"idle", "executing"} BY <1>1
    <3> QED BY <1>3, <1>4, <3>1, <3>3, <3>4, <3>5, <3>6, <3>7, SavesSame
  <2> QED BY <2>2, <2>3
<1> QED BY <1>9, <1>10, <1>11, <1>12, <1>13

LEMMA DispatchAccounts ==
  ASSUME RunInv, KnowInv, ~disturbed, NEW p \in Processes, NEW m \in Copies(p),
         NEW c \in Calls, NEW kind \in Kinds, Dispatch(p, m, c, kind)
  PROVE  KnowInv'
<1> DEFINE s == InStatePending(m, "ACTIVE", c, PolicyOf(kind))
           r == [runner[p] EXCEPT !.at = "dispatched", !.mem = Fenced(s),
                                  !.fresh = TRUE, !.call = c]
<1>1. runner[p].at = "decided" BY DEF Dispatch
<1>2. /\ SameAccount(m, store) /\ Account(runner[p], store, calls)
      /\ runner[p] \in Runners /\ m \in Snapshots /\ Vouched(m, calls)
  <2>1. /\ SameAccount(runner[p].mem, store) /\ Account(runner[p], store, calls)
        /\ runner[p] \in Runners /\ runner[p].mem \in Snapshots
        /\ Vouched(runner[p].mem, calls)
    BY <1>1, CopyIs DEF Copied
  <2>2. m \in Snapshots /\ Renews(m, runner[p].mem)
    BY <2>1, CopiesAre DEF Renews, SameAccount
  <2> QED BY <2>1, <2>2, VouchedBy DEF Renews, SameAccount
<1>3. \A d \in Calls : ~Away(calls, d) BY <1>1, <1>2, Clear
<1>4. /\ store' = Fenced(s) /\ user' = [user EXCEPT !.fresh = FALSE]
      /\ runner' = [q \in Processes |-> IF q = p THEN r ELSE Stale(q)]
      /\ calls' = [calls EXCEPT ![c].kind = kind]
      /\ IF runner[p].replay THEN c = runner[p].call /\ kind = calls[c].kind
         ELSE calls[c] = NoCall
  BY DEF Dispatch, InStatePending
<1>5. PolicyOf(kind) \in {"reissue", "manual"} BY DEF PolicyOf
<1>6. s \in Snapshots /\ s.state = "ACTIVE"
  <2>1. "ACTIVE" \in States /\ c \in Calls \cup {Nothing} BY StateNames
  <2>2. \A policy \in {"reissue", "manual"} :
          /\ InStatePending(m, "ACTIVE", c, policy) \in Snapshots
          /\ InStatePending(m, "ACTIVE", c, policy).state = "ACTIVE"
    BY <1>2, <2>1, InStatePendingIs
  <2> QED BY <1>5, <2>2
<1>7. /\ s.pending = c /\ s.policy = PolicyOf(kind) /\ s.observed = m.observed
      /\ s.recent = m.recent
  BY <1>2 DEF InStatePending, Snapshots
<1> HIDE DEF s
<1>8. /\ SameAccount(Fenced(s), s) /\ Fenced(s).state \in {"ACTIVE", "CANCELLED"}
      /\ Fenced(s) # NoWork /\ Settled(Fenced(s)) /\ Vouched(Fenced(s), calls)
  <2>1. Settled(s) BY <1>6 DEF Settled
  <2>2. Vouched(s, calls) BY <1>2, <1>7, VouchedBy DEF Verified
  <2> QED BY <1>6, <2>1, <2>2, FencedAccount, FencedIs
<1>9. /\ \A d \in Calls : d # c => calls'[d] = calls[d]
      /\ calls'[c].came = calls[c].came /\ calls'[c].entered = calls[c].entered
      /\ calls'[c].kind = kind
  BY <1>4 DEF RunInv, Typed, CallRecords
<1>10. ~calls[c].entered /\ calls[c].came \in {"open", "refused"}
  <2>1. CASE runner[p].replay
    <3>1. c = store.pending /\ store.policy = "approved"
      BY <1>1, <1>2, <1>4, <2>1 DEF Account, Knows
    <3> QED BY <1>2, <3>1 DEF Account, Sums
  <2>2. CASE ~runner[p].replay BY <1>4, <2>2 DEF NoCall
  <2> QED BY <2>1, <2>2
<1>11. Sums(Fenced(s), calls')
  <2>1. \A d \in Calls : calls'[d].entered /\ calls'[d].kind \notin Reading
                         /\ calls'[d].came \in {"known", "uncertain"} => d \in store.observed
    <3> TAKE d \in Calls
    <3>1. CASE d = c BY <1>9, <1>10, <3>1
    <3>2. CASE d # c BY <1>2, <1>9, <3>2 DEF Account, Sums
    <3> QED BY <3>1, <3>2
  <2>2. Vouched(Fenced(s), calls') BY <1>8, <1>9, <1>10 DEF Vouched
  <2> QED BY <1>2, <1>5, <1>7, <1>8, <2>1, <2>2 DEF Sums, SameAccount
<1>12. ASSUME NEW d \in Calls PROVE ~Away(calls', d)
  <2>1. CASE d = c BY <1>9, <1>10, <2>1 DEF Away
  <2>2. CASE d # c BY <1>3, <1>9, <2>2 DEF Away
  <2> QED BY <2>1, <2>2
<1>13. r.at = "dispatched" /\ r.mem = Fenced(s) /\ r.call = c BY <1>2 DEF Runners
<1>14. runner'[p] = r BY <1>4
<1> HIDE DEF r
<1>15. Knows(r, Fenced(s), calls')
  <2>1. Vouched(Fenced(s), calls') BY <1>11 DEF Sums
  <2> QED BY <1>7, <1>8, <1>9, <1>10, <1>13, <2>1 DEF Knows, SameAccount
<1>16. Account(runner'[p], store', calls')
  BY <1>4, <1>11, <1>12, <1>14, <1>15 DEF Account
<1>17. \A q \in Processes \ {p} : runner'[q].at = "idle"
  <2>1. \A q \in Processes \ {p} : runner[q].at = "idle" /\ runner[q] \in Runners
    BY <1>1, Others DEF RunInv
  <2> QED BY <1>4, <2>1 DEF Stale, Runners
<1>18. ~user'.fresh BY <1>4 DEF RunInv, Asked, Users
<1> QED BY <1>16, <1>17, <1>18, Turn

\* The copy after a result.
LEMMA ObservedIs ==
  ASSUME NEW s \in Snapshots, NEW c \in Calls, NEW result \in Outcomes
  PROVE  LET o == Observed(s, c, result) IN
         /\ o.observed = s.observed \cup {c} /\ o.state # "COMPLETED" /\ ~Verified(o)
         /\ result = "uncertain" =>
              o.state = "RECOVERY_REQUIRED" /\ o.pending = s.pending /\ o.policy = s.policy
         /\ result = "refused" => o.pending = s.pending /\ o.policy = "approval"
         /\ result \notin {"uncertain", "refused"} => o.policy = "none"
<1> DEFINE t == [s EXCEPT !.observed = @ \cup {c},
                          !.recent = Noted(Lapsed(@), EntryOf(calls[c].kind))]
<1>1. t \in Snapshots /\ t.observed = s.observed \cup {c} /\ t.pending = s.pending
      /\ t.policy = s.policy /\ ~Verified(t)
  BY NotedIs
<1>2. Observed(s, c, result) =
        CASE result = "uncertain" -> InState(t, "RECOVERY_REQUIRED")
          [] result = "refused" -> InStatePolicy(t, "WAITING_FOR_APPROVAL", "approval")
          [] OTHER -> InStatePending(t, "ACTIVE", Nothing, "none")
  BY DEF Observed, InState, InStatePolicy, InStatePending
<1> HIDE DEF t
<1>3. CASE result = "uncertain"
  BY <1>1, <1>2, <1>3 DEF InState, Snapshots, Verified
<1>4. CASE result = "refused"
  BY <1>1, <1>2, <1>4 DEF InStatePolicy, Snapshots, Verified
<1>5. CASE result \notin {"uncertain", "refused"}
  <2>1. Observed(s, c, result) = InStatePending(t, "ACTIVE", Nothing, "none")
    BY <1>2, <1>5
  <2> QED BY <1>1, <1>5, <2>1 DEF InStatePending, Snapshots, Verified
<1> QED BY <1>3, <1>4, <1>5

LEMMA EnterCallAccounts ==
  ASSUME RunInv, KnowInv, ~disturbed, NEW p \in Processes, EnterCall(p)
  PROVE  KnowInv'
<1> DEFINE c == runner[p].call
           r == [runner[p] EXCEPT !.at = "executing"]
<1>1. /\ runner[p].at = "dispatched" /\ runner' = [runner EXCEPT ![p] = r]
      /\ calls' = [calls EXCEPT ![c].entered = TRUE] /\ UNCHANGED <<store, user>>
  BY DEF EnterCall
<1>2. /\ Account(runner[p], store, calls) /\ runner[p] \in Runners
      /\ store.state # "COMPLETED"
  BY <1>1, CopyIs DEF Copied
<1>3. c \in Calls /\ store # NoWork BY <1>1 DEF RunInv, Fits
<1>4. \A d \in Calls : ~Away(calls, d) BY <1>1, <1>2, Clear
<1>5. /\ store.pending = c /\ store.policy = PolicyOf(calls[c].kind)
      /\ calls[c].came \in {"open", "refused"}
      /\ SameAccount(runner[p].mem, store) /\ runner[p].mem.state # "COMPLETED"
      /\ Vouched(runner[p].mem, calls)
  BY <1>1, <1>2 DEF Account, Knows, Copied
<1>6. /\ \A d \in Calls : d # c => calls'[d] = calls[d]
      /\ calls'[c].came = calls[c].came /\ calls'[c].kind = calls[c].kind
      /\ calls'[c].entered
  BY <1>1, <1>3 DEF RunInv, Typed, CallRecords
<1>7. /\ Vouched(store, calls) => Vouched(store, calls')
      /\ Vouched(runner[p].mem, calls')
  <2>1. \A d \in Calls : calls'[d].came = "known" => calls'[d] = calls[d]
    BY <1>5, <1>6
  <2> QED BY <1>5, <2>1 DEF Vouched
<1>8. Sums(store, calls')
  BY <1>2, <1>3, <1>5, <1>6, <1>7 DEF Account, Sums, PolicyOf
<1>9. r.at = "executing" /\ r.call = c /\ r.mem = runner[p].mem BY <1>2 DEF Runners
<1>10. runner'[p] = r /\ \A q \in Processes \ {p} : runner'[q] = runner[q]
  BY <1>1 DEF RunInv
<1> HIDE DEF r
<1>11. Knows(r, store, calls')
  <2>1. store.policy = PolicyOf(calls'[c].kind) /\ calls'[c].came \in {"open", "refused"}
    BY <1>5, <1>6
  <2> HIDE DEF c
  <2> QED BY <1>2, <1>5, <1>6, <1>7, <1>9, <2>1 DEF Knows
<1>12. ASSUME NEW d \in Calls, Away(calls', d)
       PROVE  Blocks(d, store) /\ r.at = "executing" /\ r.call = d
              /\ calls'[d].came # "uncertain"
  <2>1. d = c BY <1>4, <1>6, <1>12 DEF Away
  <2>2. calls[c].kind \notin Reading BY <1>6, <1>12, <2>1 DEF Away
  <2> QED BY <1>2, <1>5, <1>6, <1>9, <2>1, <2>2 DEF Blocks, PolicyOf
<1>13. Account(runner'[p], store', calls')
  BY <1>1, <1>8, <1>10, <1>11, <1>12 DEF Account
<1>14. \A q \in Processes \ {p} : runner'[q].at = "idle" BY <1>1, <1>10, Others
<1>15. user'.fresh => user'.mem = store' BY <1>1 DEF KnowInv
<1> QED BY <1>13, <1>14, <1>15, Turn

LEMMA DenyAccounts ==
  ASSUME RunInv, KnowInv, ~disturbed, NEW p \in Processes, Deny(p)
  PROVE  KnowInv'
<1> DEFINE c == runner[p].call
           m == runner[p].mem
           t == [m EXCEPT !.observed = @ \cup {c},
                          !.recent = Noted(Lapsed(@), EntryOf(calls[c].kind))]
           s == InStatePending(t, "ACTIVE", Nothing, "none")
           at == IF runner[p].replay THEN "replayed" ELSE "top"
<1>1. /\ runner[p].at = "dispatched" /\ Saves(p, s, at)
      /\ calls' = [calls EXCEPT ![c] = [NoCall EXCEPT !.came = "known"]]
  BY AtWork DEF Deny, InStatePending, Snapshots
<1>2. /\ SameAccount(m, store) /\ Account(runner[p], store, calls) /\ m \in Snapshots
      /\ runner[p].at # "idle"
  BY <1>1, CopyIs DEF Copied
<1>3. c \in Calls BY <1>1 DEF RunInv, Fits
<1>4. s \in Snapshots /\ s.state = "ACTIVE" /\ s.policy = "none"
      /\ s.observed = m.observed \cup {c} /\ ~Verified(s)
  <2>1. t \in Snapshots /\ t.observed = m.observed \cup {c} /\ ~Verified(t)
    BY <1>2, <1>3, NotedIs
  <2> HIDE DEF t
  <2>2. s \in Snapshots /\ s.state = "ACTIVE" BY <2>1, StateNames, InStatePendingIs
  <2>3. s.policy = "none" /\ s.observed = t.observed /\ s.recent = t.recent
    BY <2>1 DEF InStatePending, Snapshots
  <2> QED BY <2>1, <2>2, <2>3 DEF Verified
<1>5. at \in Landings BY DEF Landings
<1> HIDE DEF s, at
<1>6. \A d \in Calls : ~Away(calls, d) BY <1>1, <1>2, Clear
<1>7. ~calls'[c].entered /\ \A d \in Calls : d # c => calls'[d] = calls[d]
  BY <1>1, <1>3 DEF RunInv, Typed, NoCall
<1>8. \A d \in Calls : ~Away(calls', d) BY <1>6, <1>7 DEF Away
<1>9. /\ SameAccount(Fenced(s), s) /\ Fenced(s) # NoWork
      /\ Settled(Fenced(s)) /\ Vouched(Fenced(s), calls')
  <2>1. Settled(s) /\ Vouched(s, calls') BY <1>4 DEF Settled, Vouched
  <2> QED BY <1>4, <2>1, FencedAccount, FencedIs
<1>10. Sums(Fenced(s), calls')
  BY <1>2, <1>4, <1>7, <1>9 DEF Account, Sums, SameAccount
<1> QED BY <1>1, <1>2, <1>4, <1>5, <1>8, <1>10, SavesAccount

LEMMA ObserveAccounts ==
  ASSUME RunInv, KnowInv, ~disturbed, NEW p \in Processes,
         NEW result \in Outcomes, Observe(p, result)
  PROVE  KnowInv'
<1> DEFINE c == runner[p].call
           m == runner[p].mem
           s == Observed(m, c, result)
           at == IF runner[p].replay THEN "replayed"
                 ELSE IF result = "refused" THEN "waiting"
                 ELSE IF Fenced(s).state = "RECOVERY_REQUIRED" THEN "idle"
                 ELSE "top"
<1>1. /\ runner[p].at = "executing" /\ Saves(p, s, at) /\ result \in Results(calls[c].kind)
      /\ calls' = [calls EXCEPT ![c].came = result, ![c].entered = @ /\ result # "refused"]
  BY DEF Observe
<1>2. /\ SameAccount(m, store) /\ Account(runner[p], store, calls) /\ m \in Snapshots
      /\ runner[p].at # "idle"
  BY <1>1, CopyIs DEF Copied
<1>3. c \in Calls BY <1>1 DEF RunInv, Fits
<1>4. s \in Snapshots /\ s.state # "NONE" BY <1>2, <1>3, ObservedSnapshot
<1>5. /\ s.observed = m.observed \cup {c} /\ s.state # "COMPLETED" /\ ~Verified(s)
      /\ result = "uncertain" =>
           s.state = "RECOVERY_REQUIRED" /\ s.pending = m.pending /\ s.policy = m.policy
      /\ result = "refused" => s.pending = m.pending /\ s.policy = "approval"
      /\ result \notin {"uncertain", "refused"} => s.policy = "none"
  BY <1>2, <1>3, ObservedIs
<1>6. at \in Landings /\ (result = "uncertain" /\ at # "idle" =>
         at = "replayed" \/ (at = "top" /\ Fenced(s).state # "RECOVERY_REQUIRED"))
  BY DEF Landings
<1> HIDE DEF s, at
<1>7. /\ SameAccount(Fenced(s), s) /\ Fenced(s) # NoWork
      /\ Fenced(s).state \in {s.state, "CANCELLED"}
      /\ Settled(Fenced(s)) /\ Vouched(Fenced(s), calls')
  <2>1. Settled(s) /\ Vouched(s, calls') BY <1>5 DEF Settled, Vouched
  <2> QED BY <1>4, <2>1, FencedAccount, FencedIs
<1>8. /\ store.pending = c /\ store.policy = PolicyOf(calls[c].kind)
  BY <1>1, <1>2 DEF Account, Knows
<1>9. /\ \A d \in Calls : d # c => calls'[d] = calls[d]
      /\ calls'[c].kind = calls[c].kind /\ calls'[c].came = result
      /\ result = "refused" => ~calls'[c].entered
  BY <1>1, <1>3 DEF RunInv, Typed, CallRecords
<1>10. \A d \in Calls : d # c => ~Away(calls, d)
  BY <1>1, <1>2 DEF Account, Passes
<1>11. result \in {"known", "uncertain", "refused"}
       /\ (result = "uncertain" => PolicyOf(calls[c].kind) = "manual")
  BY <1>1 DEF Results, PolicyOf, Reading
<1>12. Sums(Fenced(s), calls')
  <2>1. ASSUME Fenced(s).policy \in {"approval", "approved"} PROVE result = "refused"
    BY <1>2, <1>5, <1>7, <1>8, <1>11, <2>1 DEF SameAccount, PolicyOf
  <2>2. result = "refused" =>
          Fenced(s).pending = c /\ calls'[c].came = "refused" /\ ~calls'[c].entered
    BY <1>2, <1>5, <1>7, <1>8, <1>9 DEF SameAccount
  <2>3. \A d \in Calls : calls'[d].entered /\ calls'[d].kind \notin Reading
                         /\ calls'[d].came \in {"known", "uncertain"} => d \in Fenced(s).observed
    BY <1>2, <1>5, <1>7, <1>9 DEF Account, Sums, SameAccount
  <2> QED BY <1>3, <1>7, <2>1, <2>2, <2>3 DEF Sums
<1>13. ASSUME NEW d \in Calls, Away(calls', d)
       PROVE  /\ Blocks(d, s)
              /\ at = "idle" \/ (at \in {"replayed", "top"} /\ Halted(Fenced(s)))
  <2>1. d = c /\ result = "uncertain"
    BY <1>9, <1>10, <1>11, <1>13 DEF Away
  <2>2. Blocks(d, s) BY <1>2, <1>5, <1>8, <1>11, <2>1 DEF Blocks, SameAccount
  <2>3. Halted(Fenced(s)) BY <1>5, <1>7, <2>1 DEF Halted, Stops, Ends
  <2> QED BY <1>6, <2>1, <2>2, <2>3
<1> QED BY <1>1, <1>2, <1>4, <1>5, <1>6, <1>12, <1>13, SavesAccount

LEMMA CallsAccount ==
  ASSUME RunInv, KnowInv, ~disturbed, NEW p \in Processes,
         \/ EnterCall(p) \/ Deny(p) \/ Wait(p) \/ Replayed(p) \/ Close(p)
         \/ \E result \in Outcomes : Observe(p, result)
  PROVE  KnowInv'
<1>1. CASE Wait(p)
  <2>1. runner[p].at = "waiting" /\ calls' = calls BY <1>1 DEF Wait
  <2>2. /\ \A q \in Processes \ {p} : runner[q].at = "idle"
        /\ store.state # "COMPLETED" /\ Latest(p) = store
    BY <2>1, Others, AtWork, CopyIs DEF Copied
  <2>3. CASE Halted(store)
    <3>1. Leaves(p, store) BY <1>1, <2>2, <2>3 DEF Wait
    <3> QED BY <2>1, <3>1, LeavesAccount
  <2>4. CASE ~Halted(store)
    <3>1. Reads(p, "failing") /\ UNCHANGED <<store, user>> BY <1>1, <2>2, <2>4 DEF Wait
    <3> QED BY <2>1, <2>2, <3>1, ReadAccounts
  <2> QED BY <2>3, <2>4
<1>2. CASE Replayed(p)
  <2>1. /\ runner[p].at = "replayed" /\ calls' = calls
        /\ Leaves(p, store) \/ (Reads(p, "closing") /\ UNCHANGED <<store, user>>)
    BY <1>2 DEF Replayed
  <2>2. Account(runner[p], store, calls) /\ \A q \in Processes \ {p} : runner[q].at = "idle"
    BY <2>1, AccountOf, Others
  <2>3. /\ store.state # "COMPLETED"
        /\ \A c \in Calls : Away(calls, c) => Halted(store)
    BY <2>1, <2>2 DEF Account, Knows, Passes
  <2> QED BY <2>1, <2>2, <2>3, LeavesAccount, ReadAccounts
<1>3. CASE Close(p)
  <2> DEFINE m == runner[p].mem
  <2>1. runner[p].at = "closing" /\ Saves(p, m, "top") /\ calls' = calls
    BY <1>3 DEF Close
  <2>2. /\ m \in Snapshots /\ m.state # "COMPLETED" /\ Account(runner[p], store, calls)
        /\ runner[p].at \in Copied \ {"executing"}
    BY <2>1, CopyIs DEF Copied
  <2>3. m.state # "NONE" /\ Renews(m, m) BY <2>1 DEF RunInv, Fits, SameAccount, Renews
  <2>4. Fenced(m).state \in {m.state, "CANCELLED"} BY <2>2, FencedAccount
  <2>5. \A c \in Calls : Away(calls, c) => Halted(Fenced(m))
    BY <2>1, <2>2, <2>4 DEF Account, Passes, Halted, Ends
  <2>6. "top" \in Landings BY DEF Landings
  <2> HIDE DEF m
  <2> QED BY <2>1, <2>2, <2>3, <2>5, <2>6, SavesCopy DEF m
<1> QED BY <1>1, <1>2, <1>3, EnterCallAccounts, DenyAccounts, ObserveAccounts

LEMMA FaultsAccount ==
  ASSUME RunInv, KnowInv, ~disturbed, NEW p \in Processes, Raise(p) \/ Fail(p) \/ Die(p)
  PROVE  KnowInv'
<1>1. CASE Raise(p)
  <2>1. /\ runner[p].at \in Looping \cup {"resuming"} /\ Reads(p, "failing")
        /\ UNCHANGED <<store, user, calls>>
    BY <1>1 DEF Raise
  <2>2. runner[p].at # "idle" BY <2>1 DEF Looping
  <2>3. Account(runner[p], store, calls) /\ \A q \in Processes \ {p} : runner[q].at = "idle"
    BY <2>2, AccountOf, Others
  <2>4. store.state # "COMPLETED" BY <2>2, <2>3 DEF Account, Knows
  <2> QED BY <2>1, <2>3, <2>4, ReadAccounts
<1>2. CASE Fail(p)
  <2> DEFINE m == runner[p].mem
  <2>1. /\ runner[p].at = "failing" /\ calls' = calls
        /\ \/ runner' = [runner EXCEPT ![p] = Idle] /\ UNCHANGED <<store, user>>
           \/ \E mend \in BOOLEAN : Saves(p, InStateMend(m, "FAILED", mend), "idle")
    BY <1>2 DEF Fail, InStateMend
  <2>2. m \in Snapshots /\ runner[p].at \in Copied \ {"executing"}
    BY <2>1, CopyIs DEF Copied
  <2>3. \A mend \in BOOLEAN : /\ InStateMend(m, "FAILED", mend) \in Snapshots
                              /\ InStateMend(m, "FAILED", mend).state = "FAILED"
                              /\ Renews(InStateMend(m, "FAILED", mend), m)
    <3>1. "FAILED" \in States BY StateNames
    <3> QED BY <2>2, <3>1, InStateMendIs, InStateAccount
  <2>4. "idle" \in Landings BY DEF Landings
  <2>5. CASE runner' = [runner EXCEPT ![p] = Idle] /\ UNCHANGED <<store, user>>
    BY <2>1, <2>5, RestAccounts
  <2>6. ASSUME NEW mend \in BOOLEAN, Saves(p, InStateMend(m, "FAILED", mend), "idle")
        PROVE  KnowInv'
    BY <2>1, <2>2, <2>3, <2>4, <2>6, SavesCopy
  <2> QED BY <2>1, <2>5, <2>6
<1>3. CASE Die(p)
  BY <1>3, RestAccounts DEF Die
<1> QED BY <1>1, <1>2, <1>3

\* A user replaces the checkpoint that was read, or disturbs the Work.
LEMMA ApplyAccounts ==
  ASSUME RunInv, KnowInv, ~disturbed, ~disturbed', NEW op \in Operations, Apply(op)
  PROVE  KnowInv'
<1> DEFINE s == Changed(user.mem, op)
<1>1. /\ user # NoUser /\ store' = Fenced(s) /\ user' = NoUser /\ calls' = calls
      /\ runner' = [q \in Processes |-> Stale(q)] /\ ~Disturbs(op)
  BY DEF Apply
<1>2. user.fresh /\ user.mem = store BY <1>1 DEF Disturbs, KnowInv
<1>3. store \in Snapshots /\ store.state # "NONE"
  BY <1>1, <1>2 DEF RunInv, Stored, Asked
<1>4. s \in Snapshots /\ s.state # "NONE" BY <1>2, <1>3, UserSnapshot
<1>5. /\ SameAccount(s, store)
      /\ s.state = "COMPLETED" => s = store
      /\ Halted(s) \/ op = "steer" \/ s = store
      /\ Verified(s) => Verified(store)
  <2>1. CASE op = "steer"
    <3> DEFINE e == IF store.plan THEN Lapsed(store.recent) ELSE store.recent
    <3>1. store.recent \in Windows BY <1>3 DEF Snapshots
    <3>2. /\ e \in Windows
          /\ (\E i \in 1..Window : e[i] = "passed") => Verified(store)
      BY <3>1, WindowIs DEF Verified
    <3>3. s = InStateNoted(store, "ACTIVE", e)
      BY <1>2, <2>1 DEF Changed, InStateNoted
    <3> HIDE DEF e, s
    <3>4. s.recent = e /\ s.state = "ACTIVE" /\ SameAccount(s, store)
      <4>1. "ACTIVE" \in States BY StateNames
      <4>2. SameAccount(InStateNoted(store, "ACTIVE", e), store)
        BY <1>3, InStateAccount
      <4>3. /\ InStateNoted(store, "ACTIVE", e).recent = e
            /\ InStateNoted(store, "ACTIVE", e).state = "ACTIVE"
        BY <1>3, <3>2, <4>1, InStateNotedIs
      <4> QED BY <3>3, <4>2, <4>3
    <3> QED BY <2>1, <3>2, <3>4 DEF Verified
  <2>2. CASE op # "steer"
    <3>1. s.recent = store.recent BY <1>2, <1>3, <2>2 DEF Changed, Snapshots
    <3>2. Verified(s) => Verified(store) BY <3>1 DEF Verified
    <3> QED BY <1>2, <1>3, <2>2, <3>2
            DEF Changed, SameAccount, Snapshots, Halted, Stops, Ends
  <2> QED BY <2>1, <2>2
<1> HIDE DEF s
<1>6. /\ SameAccount(Fenced(s), s) /\ Settled(Fenced(s)) /\ Vouched(Fenced(s), calls)
      /\ Fenced(s).state \in {s.state, "CANCELLED"} /\ Fenced(s) # NoWork
  <2>1. Sums(store, calls) BY DEF KnowInv
  <2>2. Settled(s) BY <1>5, <2>1 DEF Sums, Settled
  <2>3. Vouched(s, calls) BY <1>5, <2>1, VouchedBy DEF Sums
  <2> QED BY <1>4, <2>2, <2>3, FencedAccount, FencedIs
<1>7. Sums(store', calls')
  <2>1. SameAccount(Fenced(s), store) BY <1>5, <1>6 DEF SameAccount
  <2>2. Sums(store, calls) BY DEF KnowInv
  <2> QED BY <1>1, <1>6, <2>1, <2>2, SameSums
<1>8. /\ SameAccount(store', store)
      /\ store'.state = "COMPLETED" => store.state = "COMPLETED"
      /\ Halted(store') \/ op = "steer" \/ (Halted(store) => Halted(store'))
  BY <1>1, <1>5, <1>6 DEF SameAccount, Halted, Ends
<1>9. ASSUME NEW q \in Processes
      PROVE  /\ runner'[q].at = runner[q].at /\ runner'[q].mem = runner[q].mem
             /\ runner'[q].call = runner[q].call /\ runner'[q].replay = runner[q].replay
  BY <1>1 DEF Stale, RunInv, Runners
<1>10. ASSUME NEW c \in Calls, Away(calls, c), Blocks(c, store) PROVE Blocks(c, store')
  BY <1>8, <1>10 DEF Blocks, SameAccount
<1>11. ASSUME NEW q \in Processes, runner[q].at # "idle"
       PROVE  Account(runner'[q], store', calls')
  <2>1. Account(runner[q], store, calls) BY <1>11, AccountOf, Others
  <2>2. Knows(runner'[q], store', calls')
    <3>1. runner[q].at # "creating"
      <4>1. store # NoWork BY <1>3, NoWorkTyped
      <4> QED BY <2>1, <4>1 DEF Account, Knows
    <3> QED BY <1>1, <1>8, <1>9, <2>1, <3>1 DEF Account, Knows, SameAccount
  <2>3. ASSUME NEW c \in Calls, Away(calls', c)
        PROVE  /\ Blocks(c, store')
               /\ \/ Passes(runner'[q], store')
                  \/ /\ runner'[q].at = "executing" /\ runner'[q].call = c
                     /\ calls'[c].came # "uncertain"
    <3>1. /\ Blocks(c, store)
          /\ \/ Passes(runner[q], store)
             \/ runner[q].at = "executing" /\ runner[q].call = c /\ calls[c].came # "uncertain"
      BY <1>1, <2>1, <2>3 DEF Account
    <3>2. Blocks(c, store') BY <1>1, <1>10, <2>3, <3>1
    <3>3. runner[q].at \in {"replayed", "top"} => op # "steer"
      BY <1>1, <3>1 DEF Disturbs, Blocks
    <3>4. Passes(runner[q], store) => Passes(runner'[q], store')
      BY <1>8, <1>9, <3>3 DEF Passes
    <3> QED BY <1>1, <1>9, <3>1, <3>2, <3>4
  <2> QED BY <1>7, <2>2, <2>3 DEF Account
<1>12. Active' = Active BY <1>9 DEF Active
<1>13. ~user'.fresh BY <1>1 DEF NoUser
<1>14. \A q \in Processes : runner'[q].at # "idle" =>
          \A o \in Processes \ {q} : runner'[o].at = "idle"
  BY <1>9, Others
<1>15. Active' = {} => \A c \in Calls : Away(calls', c) => Blocks(c, store')
  BY <1>1, <1>10, <1>12 DEF KnowInv
<1>16. store'.state = "COMPLETED" => Active' = {} BY <1>8, <1>12 DEF KnowInv
<1> QED BY <1>7, <1>9, <1>11, <1>13, <1>14, <1>15, <1>16 DEF KnowInv

\* What is disturbed remains so.
LEMMA StaysDisturbed == ASSUME disturbed, [Next]_vars PROVE disturbed'
<1>1. ASSUME NEW p \in Processes,
             \/ Submit(p) \/ Create(p) \/ Launch(p) \/ Mend(p) \/ ResumeApproval(p)
             \/ ResumeDoubt(p) \/ ResumeAfresh(p) \/ Enter(p) \/ Begin(p) \/ Refresh(p)
             \/ Exhaust(p) \/ Analyse(p) \/ Unanswered(p) \/ Decide(p) \/ Suppress(p)
      PROVE  disturbed'
  BY <1>1 DEF history, Submit, Create, Launch, Mend, ResumeApproval, ResumeDoubt,
     ResumeAfresh, Enter, Begin, Refresh, Exhaust, Analyse, Unanswered, Decide, Suppress
<1>2. ASSUME NEW p \in Processes, Resume(p) PROVE disturbed' BY <1>2 DEF Resume
<1>3. ASSUME NEW p \in Processes, NEW s,
             Think(p, s) \/ Complete(p, s) \/ (\E ok \in BOOLEAN : Verify(p, s, ok))
      PROVE  disturbed'
  BY <1>3 DEF Think, Complete, Verify, history
<1>4. ASSUME NEW p \in Processes, NEW s, NEW state, NEW b, Halt(p, s, state, b)
      PROVE  disturbed'
  BY <1>4 DEF Halt, history
<1>5. ASSUME NEW p \in Processes, NEW s, NEW c, NEW kind, Dispatch(p, s, c, kind)
      PROVE  disturbed'
  BY <1>5 DEF Dispatch, history
<1>6. ASSUME NEW p \in Processes, NEW result, Observe(p, result) PROVE disturbed'
  BY <1>6 DEF Observe, history
<1>7. ASSUME NEW p \in Processes,
             \/ EnterCall(p) \/ Deny(p) \/ Wait(p) \/ Replayed(p)
             \/ Close(p) \/ Raise(p) \/ Fail(p) \/ Die(p)
      PROVE  disturbed'
  BY <1>7 DEF history, EnterCall, Deny, Wait, Replayed, Close, Raise, Fail, Die
<1>8. ASSUME NEW p \in Processes, Step(p) PROVE disturbed'
  BY <1>1, <1>2, <1>3, <1>4, <1>5, <1>6, <1>7, <1>8 DEF Step
<1>9. CASE Ask BY <1>9 DEF Ask, history
<1>10. ASSUME NEW op, Apply(op) PROVE disturbed' BY <1>10 DEF Apply
<1> QED BY <1>8, <1>9, <1>10 DEF Next, vars

LEMMA Knowing == Spec => []KnowInv
<1>1. ASSUME Init PROVE KnowInv
  <2>1. /\ store = NoWork /\ runner = [p \in Processes |-> Idle] /\ ~user.fresh
        /\ calls = [c \in Calls |-> NoCall]
    BY <1>1 DEF Init, NoUser
  <2>2. NoWork.state = "NONE" /\ NoWork.policy = "none" /\ ~NoCall.entered
        /\ Idle.at = "idle"
    BY DEF NoWork, NoCall, Idle
  <2>3. Sums(store, calls) BY <2>1, <2>2 DEF Sums, Settled, Vouched
  <2>4. \A c \in Calls : ~Away(calls, c) BY <2>1, <2>2 DEF Away
  <2> QED BY <2>1, <2>2, <2>3, <2>4 DEF KnowInv
<1>2. ASSUME RunInv, KnowInv, [Next]_vars PROVE KnowInv'
  <2>1. CASE ~disturbed
    <3>1. ASSUME NEW p \in Processes, Step(p) PROVE KnowInv'
      BY <1>2, <2>1, <3>1, SubmissionsAccount, ResumptionsAccount, BeginAccounts,
         LoopAccounts, DecisionsAccount, DispatchAccounts, CallsAccount, FaultsAccount
         DEF Step
    <3>2. CASE Ask
      <4>1. /\ user' = [mem |-> store, fresh |-> TRUE]
            /\ UNCHANGED <<store, runner, calls, disturbed>>
        BY <3>2 DEF Ask, history
      <4> QED BY <1>2, <4>1 DEF KnowInv, Active
    <3>3. ASSUME NEW op \in Operations, Apply(op) PROVE KnowInv'
      <4>1. CASE disturbed' BY <4>1 DEF KnowInv
      <4>2. CASE ~disturbed' BY <1>2, <2>1, <3>3, <4>2, ApplyAccounts
      <4> QED BY <4>1, <4>2
    <3>4. CASE UNCHANGED vars BY <1>2, <3>4 DEF vars, KnowInv, Active
    <3> QED BY <1>2, <3>1, <3>2, <3>3, <3>4 DEF Next
  <2>2. CASE disturbed
    <3>1. disturbed' BY <1>2, <2>2, StaysDisturbed
    <3> QED BY <3>1 DEF KnowInv
  <2> QED BY <2>1, <2>2
<1> QED BY <1>1, <1>2, Inductive, PTL DEF Spec

\* An effect in doubt is one that is away.
LEMMA DoubtIsAway ==
  ASSUME RunInv, NEW c \in Calls, InDoubt(c)
  PROVE  Away(calls, c)
  BY DEF InDoubt, Away

\* A Work told as completed knows what every effect came to; with a plan or criteria,
\* a verification passed after the last of them.
THEOREM CompletedWorksKnow == Spec => []CompletedKnows
<1>1. ASSUME RunInv, KnowInv PROVE CompletedKnows
  <2> SUFFICES ASSUME store.state = "COMPLETED", ~disturbed, NEW c \in Calls,
                      calls[c].entered, calls[c].kind \notin Reading
               PROVE  /\ c \in store.observed /\ ~InDoubt(c)
                      /\ store.plan \/ Criteria => calls[c].checked
    BY DEF CompletedKnows
  <2>1. Sums(store, calls) /\ Active = {} BY <1>1 DEF KnowInv
  <2>2. ~Away(calls, c) BY <1>1, <2>1 DEF KnowInv, Blocks
  <2>3. calls[c].came = "known" BY <2>2 DEF Away
  <2>4. c \in store.observed BY <2>1, <2>3 DEF Sums
  <2>5. ~InDoubt(c) BY <1>1, <2>2, DoubtIsAway
  <2>6. ASSUME store.plan \/ Criteria PROVE calls[c].checked
    <3>1. Verified(store) BY <2>1, <2>6 DEF Sums, Settled
    <3> QED BY <2>1, <2>3, <3>1 DEF Sums, Vouched
  <2> QED BY <2>4, <2>5, <2>6
<1> QED BY <1>1, Inductive, Knowing, PTL

\* While the outcome of an effect is in doubt, no call of the Work begins.
THEOREM DoubtsBlock == Spec => DoubtBlocks
<1>1. ASSUME RunInv, KnowInv, ~disturbed, NEW c \in Calls, InDoubt(c),
             NEW p \in Processes, runner[p].at = "dispatched"
      PROVE  FALSE
  <2>1. Account(runner[p], store, calls) BY <1>1, AccountOf, Others
  <2> QED BY <1>1, <2>1, DoubtIsAway DEF Account, Passes
<1>2. RunInv /\ KnowInv =>
        (~disturbed /\ (\E c \in Calls : InDoubt(c)) =>
           \A p \in Processes : runner[p].at = "dispatched" => runner'[p].at # "executing")
  BY <1>1
<1> QED BY <1>2, Inductive, Knowing, PTL DEF Spec, DoubtBlocks
=============================================================================
