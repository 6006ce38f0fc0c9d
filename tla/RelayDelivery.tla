--------------------------- MODULE RelayDelivery ---------------------------
(***************************************************************************)
(* Delivery of workloads and controls to one node: NodeRelayServer of the  *)
(* Controller and NodeRelayClient of the node                              *)
(* (nous_runtime/node_runtime/relay.py).                                   *)
(*                                                                         *)
(* The Controller keeps assignments, controls and results in one file that *)
(* its memory equals, and requests of Works in a spool.  Whatever was not  *)
(* answered is sent again when the node registers.  Everything it sends    *)
(* goes through one first-come lock, so a coroutine that queues a control  *)
(* while the connection handler is resending gets between two of its       *)
(* sends.  The node handles one message at a time; its journal is that of  *)
(* NodeJournal, reduced to what its answers tell.                          *)
(*                                                                         *)
(* A session is lost with any suffix of what the node had sent and with    *)
(* all it had not read.  Two session numbers are enough: one the           *)
(* Controller believes in and one the node has opened since.               *)
(***************************************************************************)
EXTENDS Naturals, Sequences, FiniteSets, SequencesExt

CONSTANTS
  Spooled,    \* at-most-once works, requested through the spool
  Direct,     \* idempotent works, queued by a caller
  Stoppable,  \* works that may be stopped
  Leases,     \* lease identities of the node
  Patient,    \* whether callers await a control's answer before the next
  Torn,       \* whether the Controller may fail between two writes
  MaxQueued,  \* model bound on idempotent works queued
  MaxStops,   \* model bound on stops requested
  MaxLeases,  \* model bound on lease requests
  MaxFaults   \* model bound on lost sessions, crashes and restarts

Works == Spooled \cup Direct

ASSUME DeliveryAssumption ==
  /\ Spooled \cap Direct = {} /\ Stoppable \subseteq Works
  /\ Works \cap Leases = {}
  /\ Patient \in BOOLEAN /\ Torn \in BOOLEAN
  /\ MaxQueued \in Nat /\ MaxStops \in Nat /\ MaxLeases \in Nat /\ MaxFaults \in Nat

Sessions == 1..2
States   == {"COMPLETED", "CANCELLED", "RECOVERY_REQUIRED"}
\* An answer is a state and the stop_result that comes with it.
Answers  == [state : States, stop : {"none", "before", "terminal", "in_flight"}]
NoAnswer == [state |-> "NONE", stop |-> "none"]

\* What the Controller sends; serial tells requests of one name apart and is
\* not part of the message.
Message(type, key, serial) == [type |-> type, key |-> key, serial |-> serial]
Welcome  == Message("WELCOME", "node", 0)
Start(w) == Message("WORKLOAD_START", w, 0)
\* What the node sends.
Register == [type |-> "REGISTER"]
Status(w, answer) == [type |-> "WORKLOAD_STATUS", key |-> w, answer |-> answer]

VARIABLES
  pending,   \* assignments without a result, in order
  controls,  \* controls without an answer, in order
  results,   \* the first result of each work
  spool,     \* works whose request file is in the spool
  conn,      \* the connection of the node, 0 if there is none
  handler,   \* what its handler has yet to send again
  sendq,     \* sends that wait for the lock of the Controller
  down, up,  \* what is on its way in each session
  session,   \* the session of the node, 0 if there is none
  stage,     \* the node's client
  journal,   \* the node's records
  leased,    \* leases the node holds
  requests,  \* what callers have requested so far
  wanted,    \* what was last asked of each lease
  answered,  \* serials of the controls the node has handled
  faults     \* lost sessions, crashes and restarts so far

controller == <<pending, controls, results, spool>>
transport  == <<conn, handler, sendq, down, up>>
node       == <<session, stage, journal, leased, answered>>
callers    == <<requests, wanted>>
vars == <<controller, transport, node, callers, faults>>

Idle == [phase |-> "idle", todo |-> <<>>]

TypeOK ==
  /\ ToSet(pending) \subseteq Works
  /\ \A i, j \in 1..Len(pending) : pending[i] = pending[j] => i = j
  /\ \A i \in 1..Len(controls) :
        /\ controls[i].key \in Stoppable \cup Leases
        /\ \A j \in 1..Len(controls) :
              controls[i].type = controls[j].type /\ controls[i].key = controls[j].key
              => i = j
  /\ results \in [Works -> Answers \cup {NoAnswer}]
  /\ spool \subseteq Spooled
  /\ conn \in Sessions \cup {0} /\ session \in Sessions \cup {0}
  /\ handler.phase \in {"idle", "welcome", "works", "controls", "serve"}
  /\ conn = 0 <=> handler.phase = "idle"
  /\ stage \in {"off", "registering", "ready"}
  /\ session = 0 <=> stage = "off"
  /\ journal \in [Works -> {"ABSENT", "EXECUTING", "COMPLETED", "CANCELLED"}]
  /\ leased \in [Leases -> BOOLEAN]
  /\ faults \in 0..MaxFaults

Init ==
  /\ pending = <<>> /\ controls = <<>>
  /\ results = [w \in Works |-> NoAnswer]
  /\ spool = Spooled
  /\ conn = 0 /\ handler = Idle /\ sendq = <<>>
  /\ down = [s \in Sessions |-> <<>>] /\ up = down
  /\ session = 0 /\ stage = "off"
  /\ journal = [w \in Works |-> "ABSENT"]
  /\ leased = [l \in Leases |-> FALSE]
  /\ requests = [queued |-> 0, stops |-> 0, leases |-> 0] /\ answered = {}
  /\ wanted = [l \in Leases |-> "LEASE_RELEASE"]
  /\ faults = 0

-----------------------------------------------------------------------------
(* Requests of callers and of the spool. *)

\* An entry of pending or controls is found, and removed, by what identifies it;
\* TypeOK says that it has at most one place.
PlaceOf(w) == {i \in 1..Len(pending) : pending[i] = w}
PlacesOf(type, key) ==
  {i \in 1..Len(controls) : controls[i].type = type /\ controls[i].key = key}
Without(s, places) ==
  IF places = {} THEN s ELSE RemoveAt(s, CHOOSE i \in places : TRUE)

\* A coroutine, be it of a caller or of the sweep, waits for the lock to send on
\* the connection it saw.
Send(message, by) ==
  sendq' = IF conn = 0 THEN sendq
           ELSE Append(sendq, [conn |-> conn, message |-> message, by |-> by])

Assign(w, by) ==
  /\ pending' = IF w \in ToSet(pending) THEN pending ELSE Append(pending, w)
  /\ Send(Start(w), by)

\* queue_workload of an idempotent work, be it pending or answered already.
QueueDirect(w) ==
  /\ w \in Direct /\ requests.queued < MaxQueued
  /\ requests' = [requests EXCEPT !.queued = @ + 1]
  /\ Assign(w, "caller")
  /\ UNCHANGED <<controls, results, spool, conn, handler, down, up, node, wanted, faults>>

\* An at-most-once result is accepted with the binding of its assignment; the
\* record of a cancellation has none.
Bound(answer) == answer.state # "CANCELLED"

Sending(by) == \E i \in 1..Len(sendq) : sendq[i].by = by

\* The sweep queues a request without a result, once; it publishes a recorded
\* result and retires the file, or keeps the file of a result it refuses.
Sweep(w) ==
  /\ w \in spool /\ ~Sending("sweep")
  /\ \/ /\ results[w] = NoAnswer /\ w \notin ToSet(pending)
        /\ Assign(w, "sweep")
        /\ UNCHANGED spool
     \/ /\ results[w] # NoAnswer /\ Bound(results[w])
        /\ spool' = spool \ {w}
        /\ UNCHANGED <<pending, sendq>>
  /\ UNCHANGED <<controls, results, conn, handler, down, up, node, callers, faults>>

Serial == requests.stops + requests.leases + 1

\* Mutant: a control is kept only if it cannot be sent at once.
QueueControlSent(type, key) ==
  LET new == Message(type, key, Serial) IN
  /\ Patient => \A i \in 1..Len(controls) : controls[i].key # key
  /\ controls' = IF conn = 0 THEN Append(controls, new) ELSE controls
  /\ Send(new, "caller")

\* A control is added unless one of its type and key waits for an answer, and
\* is sent in any case.
QueueControl(type, key) ==
  LET same == PlacesOf(type, key)
      new  == IF same = {} THEN Message(type, key, Serial)
                           ELSE controls[CHOOSE i \in same : TRUE] IN
  /\ Patient => \A i \in 1..Len(controls) : controls[i].key # key
  /\ controls' = IF same = {} THEN Append(controls, new) ELSE controls
  /\ Send(new, "caller")

\* Mutant: an assignment that is stopped counts as cancelled at once.
QueueStopAssuming(w) ==
  /\ w \in Stoppable /\ requests.stops < MaxStops
  /\ requests' = [requests EXCEPT !.stops = @ + 1]
  /\ QueueControl("WORKLOAD_STOP", w)
  /\ pending' = Without(pending, PlaceOf(w))
  /\ results' = [results EXCEPT ![w] = IF @ = NoAnswer
                    THEN [state |-> "CANCELLED", stop |-> "before"] ELSE @]
  /\ UNCHANGED <<spool, conn, handler, down, up, node, wanted, faults>>

\* Mutant: the assignment is taken away and the stop is not kept.
QueueStopUnkept(w) ==
  /\ w \in Stoppable /\ requests.stops < MaxStops
  /\ requests' = [requests EXCEPT !.stops = @ + 1]
  /\ Send(Message("WORKLOAD_STOP", w, Serial), "caller")
  /\ pending' = Without(pending, PlaceOf(w))
  /\ UNCHANGED <<controls, results, spool, conn, handler, down, up, node, wanted, faults>>

\* A stop takes the assignment away.
QueueStop(w) ==
  /\ w \in Stoppable /\ requests.stops < MaxStops
  /\ requests' = [requests EXCEPT !.stops = @ + 1]
  /\ QueueControl("WORKLOAD_STOP", w)
  /\ pending' = Without(pending, PlaceOf(w))
  /\ UNCHANGED <<results, spool, conn, handler, down, up, node, wanted, faults>>

QueueLease(type, l) ==
  /\ requests.leases < MaxLeases
  /\ requests' = [requests EXCEPT !.leases = @ + 1]
  /\ Patient => wanted[l] # type
  /\ QueueControl(type, l)
  /\ wanted' = [wanted EXCEPT ![l] = type]
  /\ UNCHANGED <<pending, results, spool, conn, handler, down, up, node, faults>>

-----------------------------------------------------------------------------
(* The connection of the Controller. *)

\* The connection is given up: sends that wait for the lock find another one or
\* none and fail before anything later is sent.
HangUp == conn' = 0 /\ handler' = Idle /\ sendq' = <<>>

\* A failed send of the sweep is the NodeProtocolError of a request that it
\* rejects: the file goes unless there is a result.  The assignment remains.
Swept == {w \in spool :
  results[w] = NoAnswer /\ \E i \in 1..Len(sendq) :
                              sendq[i].by = "sweep" /\ sendq[i].message.key = w}

\* A registration supersedes the connection before it; what still arrives on
\* that one is refused.
Accept(s) ==
  /\ s # conn /\ up[s] # <<>> /\ Head(up[s]) = Register
  /\ conn' = s
  /\ handler' = [phase |-> "welcome", todo |-> <<>>]
  /\ sendq' = <<[conn |-> s, message |-> Welcome, by |-> "handler"]>>
  /\ up' = [t \in Sessions |-> IF t = s THEN Tail(up[s]) ELSE <<>>]
  /\ spool' = spool \ Swept
  /\ UNCHANGED <<pending, controls, results, down, node, callers, faults>>

\* The lock is free: the first send in line goes out.
SendNext ==
  /\ sendq # <<>>
  /\ sendq' = Tail(sendq)
  /\ down' = IF Head(sendq).conn = session
             THEN [down EXCEPT ![session] = Append(@, Head(sendq).message)] ELSE down
  /\ UNCHANGED <<controller, conn, handler, up, node, callers, faults>>

Assignments == [i \in 1..Len(pending) |-> Start(pending[i])]

\* Mutant: the handler does not send the assignments again.
ResendControls ==
  LET again == IF handler.phase = "welcome" THEN controls ELSE handler.todo IN
  /\ conn # 0 /\ handler.phase \notin {"idle", "serve"} /\ ~Sending("handler")
  /\ IF again = <<>>
     THEN handler' = [phase |-> "serve", todo |-> <<>>] /\ UNCHANGED sendq
     ELSE /\ handler' = [phase |-> "controls", todo |-> Tail(again)]
          /\ sendq' = Append(sendq, [conn |-> conn, message |-> Head(again), by |-> "handler"])
  /\ UNCHANGED <<controller, conn, down, up, node, callers, faults>>

\* The handler's send is done: it goes on with the next assignment, then with
\* the controls there are when the assignments are through, then serves.
Resend ==
  LET works    == IF handler.phase = "welcome" THEN Assignments
                  ELSE IF handler.phase = "works" THEN handler.todo ELSE <<>>
      again    == IF works # <<>> THEN works
                  ELSE IF handler.phase = "controls" THEN handler.todo ELSE controls
      phase    == IF works # <<>> THEN "works" ELSE "controls" IN
  /\ conn # 0 /\ handler.phase \notin {"idle", "serve"} /\ ~Sending("handler")
  /\ IF again = <<>>
     THEN handler' = [phase |-> "serve", todo |-> <<>>] /\ UNCHANGED sendq
     ELSE /\ handler' = [phase |-> phase, todo |-> Tail(again)]
          /\ sendq' = Append(sendq, [conn |-> conn, message |-> Head(again), by |-> "handler"])
  /\ UNCHANGED <<controller, conn, down, up, node, callers, faults>>

\* The handler takes the next message of its connection.
Receive(type) ==
  /\ conn # 0 /\ handler.phase = "serve"
  /\ up[conn] # <<>> /\ Head(up[conn]).type = type

Served == up' = [up EXCEPT ![conn] = Tail(@)] /\ UNCHANGED <<conn, handler, sendq>>

\* A NodeProtocolError closes the connection and what was still to be read.
Refused ==
  /\ HangUp
  /\ up' = [up EXCEPT ![conn] = <<>>]
  /\ spool' = spool \ Swept

\* Mutant: an answer ends every control of its key.
CompleteAll(type, key) == controls' = SelectSeq(controls, LAMBDA c : c.key # key)

Complete(type, key) ==
  controls' = Without(controls, PlacesOf(type, key))

Stopping(w) == PlacesOf("WORKLOAD_STOP", w) # {}

\* Mutant: a repeated result is compared as it is.
SameResultExactly(w, answer) == answer = results[w]

\* A repeated result is compared with the recorded one.  That a stop found the
\* work terminal is left out of either side, and of the repeated one only if
\* a stop is pending or was recorded so.
SameResult(w, answer) ==
  LET plain(a)  == [a EXCEPT !.stop = IF @ = "terminal" THEN "none" ELSE @]
      control   == Stopping(w) \/ results[w].stop = "terminal" IN
  (IF control THEN plain(answer) ELSE answer) = plain(results[w])

StatusExpected(w) ==
  w \in ToSet(pending) \/ Stopping(w) \/ results[w] # NoAnswer

\* A result is refused if nothing was asked of the node, if it differs from the
\* recorded one, or if it is the first and does not match its assignment.
StatusRefused(w, answer) ==
  \/ ~StatusExpected(w)
  \/ results[w] # NoAnswer /\ ~SameResult(w, answer)
  \/ /\ results[w] = NoAnswer /\ w \in Spooled /\ w \in ToSet(pending)
     /\ ~Bound(answer)

Record(w, answer) ==
  /\ results' = [results EXCEPT ![w] = IF @ = NoAnswer THEN answer ELSE @]
  /\ pending' = Without(pending, PlaceOf(w))

\* The first result stays; the assignment, the spool file and a stop end.
TakeStatus ==
  LET w      == Head(up[conn]).key
      answer == Head(up[conn]).answer IN
  /\ Receive("WORKLOAD_STATUS")
  /\ IF StatusRefused(w, answer)
     THEN Refused /\ UNCHANGED <<pending, controls, results>>
     ELSE /\ Record(w, answer)
          /\ spool' = spool \ {w}
          /\ Complete("WORKLOAD_STOP", w)
          /\ Served
  /\ UNCHANGED <<down, node, callers, faults>>

\* The Controller fails after the result was written: the request file and the
\* stop remain, and so the connection is lost.
TakeStatusTorn ==
  LET w      == Head(up[conn]).key
      answer == Head(up[conn]).answer IN
  /\ Torn /\ faults < MaxFaults
  /\ Receive("WORKLOAD_STATUS")
  /\ ~StatusRefused(w, answer)
  /\ Record(w, answer)
  /\ HangUp /\ up' = [up EXCEPT ![conn] = <<>>]
  /\ faults' = faults + 1
  /\ UNCHANGED <<controls, spool, down, node, callers>>

\* The node's acknowledgement of a lease control carries its type and lease.
TakeLease ==
  LET ack == Head(up[conn]) IN
  /\ \E type \in {"LEASE_ACQUIRE", "LEASE_RELEASE"} : Receive(type)
  /\ Complete(ack.type, ack.key)
  /\ Served
  /\ UNCHANGED <<pending, results, spool, down, node, callers, faults>>

\* The Controller notices that the node's end of the connection is closed.
NoticeClosed ==
  /\ conn # 0 /\ session # conn
  /\ Refused
  /\ UNCHANGED <<pending, controls, results, down, node, callers, faults>>

-----------------------------------------------------------------------------
(* The node. *)

Connect ==
  /\ stage = "off"
  /\ \E s \in Sessions :
       /\ s # conn /\ up[s] = <<>>
       /\ session' = s
       /\ up' = [up EXCEPT ![s] = <<Register>>]
       /\ down' = [down EXCEPT ![s] = <<>>]
  /\ stage' = "registering"
  /\ UNCHANGED <<controller, conn, handler, sendq, journal, leased, answered, callers, faults>>

\* The session ends for the node.
Leave == session' = 0 /\ stage' = "off" /\ down' = [down EXCEPT ![session] = <<>>]

\* The Controller has closed the session.
NoticeRefused ==
  /\ session # 0 /\ session # conn /\ Register \notin ToSet(up[session])
  /\ Leave
  /\ up' = [up EXCEPT ![session] = <<>>]
  /\ UNCHANGED <<controller, conn, handler, sendq, journal, leased, answered, callers, faults>>

Handle(type) ==
  /\ session # 0 /\ down[session] # <<>> /\ Head(down[session]).type = type
  /\ type = "WELCOME" <=> stage = "registering"

Reply(message) ==
  /\ down' = [down EXCEPT ![session] = Tail(@)]
  /\ up' = [up EXCEPT ![session] = Append(@, message)]
  /\ UNCHANGED <<session, stage>>

Welcomed ==
  /\ Handle("WELCOME")
  /\ down' = [down EXCEPT ![session] = Tail(@)]
  /\ stage' = "ready"
  /\ UNCHANGED <<controller, conn, handler, sendq, up, session, journal, leased, answered,
                 callers, faults>>

\* What the journal tells of a work: a cancellation before the start is on
\* record with its stop_result.
Recorded(w) ==
  CASE journal[w] = "COMPLETED" -> [state |-> "COMPLETED", stop |-> "none"]
    [] journal[w] = "CANCELLED" -> [state |-> "CANCELLED", stop |-> "before"]
    [] journal[w] = "EXECUTING" -> [state |-> "RECOVERY_REQUIRED", stop |-> "none"]

\* WORKLOAD_START: a new work is run, a recorded one is answered.  An
\* at-most-once start of a cancelled work raises an error that ends the client's
\* process, which is started again: run_forever catches only errors of
\* transport and protocol.
HandleStart ==
  LET w == Head(down[session]).key IN
  /\ Handle("WORKLOAD_START")
  /\ IF journal[w] = "ABSENT"
     THEN /\ journal' = [journal EXCEPT ![w] = "COMPLETED"]
          /\ Reply(Status(w, [state |-> "COMPLETED", stop |-> "none"]))
     ELSE /\ UNCHANGED journal
          /\ IF w \in Spooled /\ journal[w] = "CANCELLED"
             THEN Leave /\ UNCHANGED up
             ELSE Reply(Status(w, Recorded(w)))
  /\ UNCHANGED <<controller, conn, handler, sendq, leased, answered, callers, faults>>

\* The process dies while the handler of an at-most-once work runs.
DieRunning ==
  LET w == Head(down[session]).key IN
  /\ Handle("WORKLOAD_START") /\ faults < MaxFaults
  /\ w \in Spooled /\ journal[w] = "ABSENT"
  /\ journal' = [journal EXCEPT ![w] = "EXECUTING"]
  /\ Leave
  /\ faults' = faults + 1
  /\ UNCHANGED <<controller, conn, handler, sendq, up, leased, answered, callers>>

\* WORKLOAD_STOP: a work without a record is cancelled, another one reported.
HandleStop ==
  LET w      == Head(down[session]).key
      answer == CASE journal[w] = "ABSENT" -> [state |-> "CANCELLED", stop |-> "before"]
                  [] journal[w] = "EXECUTING" -> [Recorded(w) EXCEPT !.stop = "in_flight"]
                  [] OTHER -> [Recorded(w) EXCEPT !.stop = "terminal"] IN
  /\ Handle("WORKLOAD_STOP")
  /\ journal' = [journal EXCEPT ![w] = IF @ = "ABSENT" THEN "CANCELLED" ELSE @]
  /\ Reply(Status(w, answer))
  /\ answered' = answered \cup {Head(down[session]).serial}
  /\ UNCHANGED <<controller, conn, handler, sendq, leased, callers, faults>>

HandleLease ==
  LET control == Head(down[session]) IN
  /\ \E type \in {"LEASE_ACQUIRE", "LEASE_RELEASE"} : Handle(type)
  /\ leased' = [leased EXCEPT ![control.key] = control.type = "LEASE_ACQUIRE"]
  /\ Reply([type |-> control.type, key |-> control.key])
  /\ answered' = answered \cup {control.serial}
  /\ UNCHANGED <<controller, conn, handler, sendq, journal, callers, faults>>

-----------------------------------------------------------------------------
(* Faults. *)

\* The session breaks, or the process of the node dies between two messages:
\* a suffix of what the node sent is lost.
Break ==
  /\ session # 0 /\ faults < MaxFaults
  /\ \E n \in 0..Len(up[session]) : up' = [up EXCEPT ![session] = SubSeq(@, 1, n)]
  /\ Leave
  /\ faults' = faults + 1
  /\ UNCHANGED <<controller, conn, handler, sendq, journal, leased, answered, callers>>

\* The Controller dies and is started again: its file is its memory.
RestartController ==
  /\ faults < MaxFaults
  /\ HangUp
  /\ up' = [s \in Sessions |-> <<>>]
  /\ faults' = faults + 1
  /\ UNCHANGED <<controller, down, node, callers>>

Call ==
  \/ \E w \in Works : QueueDirect(w) \/ QueueStop(w)
  \/ \E l \in Leases, type \in {"LEASE_ACQUIRE", "LEASE_RELEASE"} : QueueLease(type, l)

Serve ==
  \/ \E s \in Sessions : Accept(s)
  \/ SendNext \/ Resend \/ TakeStatus \/ TakeLease \/ NoticeClosed

Run ==
  \/ Connect \/ NoticeRefused \/ Welcomed
  \/ HandleStart \/ HandleStop \/ HandleLease

Next ==
  \/ Call \/ Serve \/ Run
  \/ \E w \in Works : Sweep(w)
  \/ Break \/ DieRunning \/ TakeStatusTorn \/ RestartController

Spec == Init /\ [][Next]_vars

\* The event loops of both sides go on, the spool is swept, and the node's
\* client is started again when it has ended.
FairSpec ==
  /\ Spec
  /\ WF_vars(\E s \in Sessions : Accept(s)) /\ WF_vars(SendNext) /\ WF_vars(Resend)
  /\ WF_vars(TakeStatus) /\ WF_vars(TakeLease) /\ WF_vars(NoticeClosed)
  /\ WF_vars(Run)
  /\ \A w \in Works : WF_vars(Sweep(w))

-----------------------------------------------------------------------------
(* Properties. *)

\* What the Controller has recorded of a work is what the node's journal says,
\* through lost answers, resent assignments, stops and restarts of both.
ResultIsTheNodes ==
  \A w \in Works : results[w] # NoAnswer =>
     journal[w] # "ABSENT" /\ results[w].state = Recorded(w).state

\* A work that was started on the node is known to the Controller: it is in the
\* spool, assigned, being stopped, or has its result.
StartedIsKnown ==
  \A w \in Works : journal[w] # "ABSENT" =>
     w \in spool \/ w \in ToSet(pending) \/ Stopping(w) \/ results[w] # NoAnswer

\* An assignment is answered, or stopped and then answered, once faults end.
AssignmentAnswered ==
  \A w \in Works :
     w \in ToSet(pending) ~> w \notin ToSet(pending) /\ results[w] # NoAnswer

\* The node's answer to what is pending for the work differs from the result kept:
\* each time it comes, the session ends.  A stop meets a work cancelled before it
\* started, or one found in doubt, and a work cancelled in its handler is assigned
\* again.
Contested(w) ==
  \/ /\ Stopping(w)
     /\ results[w] \in {[state |-> "CANCELLED", stop |-> "before"],
                        [state |-> "RECOVERY_REQUIRED", stop |-> "none"]}
  \/ w \in ToSet(pending) /\ results[w] = [state |-> "CANCELLED", stop |-> "terminal"]

\* The node has cancelled a request: the answer is not bound to it, and each time
\* it comes, the session ends.
Unstartable(w) == w \in Spooled \cap ToSet(pending) /\ journal[w] = "CANCELLED"

\* A stop is answered once faults end: it does not stay pending for ever, whatever
\* was lost or repeated and wherever the Controller failed -- unless some work is
\* one of those for which the session ends again and again.
ControlsEnd ==
  \A w \in Stoppable :
     Stopping(w) ~> ~Stopping(w) \/ \E v \in Works : Contested(v) \/ Unstartable(v)

\* When no control of a lease is pending, the node holds it exactly if the last
\* caller asked for that.
LeaseAsWanted ==
  \A l \in Leases :
     (\A i \in 1..Len(controls) : controls[i].key # l)
     => leased[l] = (wanted[l] = "LEASE_ACQUIRE")

\* "Keep the request and persisted assignment for reconnect" (relay.py
\* _ingest_provider_request): while the Controller lives on, a request file
\* leaves the spool only when its work has a result.
RequestKept ==
  [][\A w \in spool \ spool' : results'[w] # NoAnswer]_vars

\* "Remove a control only after its terminal node response is received."
\* (relay.py _complete_control): a control leaves the list of those pending
\* only when the node has handled it, or when the result of the work it stops is
\* on record.
RemovedIfAnswered ==
  [][\A i \in 1..Len(controls) :
        controls[i] \notin ToSet(controls') =>
          \/ controls[i].serial \in answered
          \/ /\ controls[i].type = "WORKLOAD_STOP"
             /\ results'[controls[i].key] # NoAnswer]_vars

\* What the Controller's processes see of the works they request.
Remote == INSTANCE RemoteExecution WITH
  Works     <- Spooled,
  Effectful <- Spooled,
  started   <- {w \in Spooled : StatusExpected(w)},
  applied   <- {w \in Spooled : journal[w] \in {"EXECUTING", "COMPLETED"}},
  result    <- [w \in Spooled |-> IF results[w] = NoAnswer THEN "none" ELSE results[w].state]

\* Spool, session and node serve requests as RemoteExecution promises, whatever
\* is lost, resent, stopped, overtaken or rejected and whoever dies: a handler
\* runs because it was asked for and not after a result is kept, the result kept
\* is true of it, and a request goes only with a result or by a rejection
\* (relay.py _handle_connection, _ingest_provider_request).
ServesRequests == Remote!RemoteSpec
=============================================================================
