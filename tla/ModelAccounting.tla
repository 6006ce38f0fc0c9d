--------------------------- MODULE ModelAccounting ---------------------------
(***************************************************************************)
(* The ledger that admits calls of paid models and accounts for what they  *)
(* used: CostController (nous_runtime/model_runtime/cost_control.py) and   *)
(* the calls ModelGateway (gateway.py) makes around it, when a request is  *)
(* invoked, retried and reconciled, directly or through the Kernel.        *)
(*                                                                         *)
(* Every operation of the ledger is one immediate SQLite transaction.      *)
(* Processes that share the database interleave between transactions, and  *)
(* die anywhere.  A call that was sent may run late, or never.             *)
(*                                                                         *)
(* One day; token budgets only (a budget of money is the same sum over     *)
(* another column, of a call that is priced).  Every call is estimated at  *)
(* the same size.  What only restricts (windows, resource leases, input    *)
(* admission, circuit breakers) makes a call fail before its dispatch.     *)
(* reconcile_only is left out: it admits less and changes nothing else.    *)
(***************************************************************************)
EXTENDS Naturals, FiniteSets, Functions

CONSTANTS
  Processes,
  Requests,
  Models,        \* a model with the credential that pays for it
  Modes,         \* the paths that gateways take: "direct", "kernel"
  Reservations,  \* model bound: identities of reservations
  Estimate,      \* estimated tokens of a call
  Reports,       \* what a run may charge, and what is reported of it
  RequestTokens, \* policy.max_request_tokens
  DailyTokens,   \* policy.max_daily_tokens
  RetryTokens,   \* policy.max_retry_tokens
  MaxAttempts,   \* policy.max_attempts, and the candidates of a call
  MaxRuns,       \* model bound on the executions of one reservation
  Nothing        \* no reservation, no request, no model

ASSUME AccountingAssumption ==
  /\ Modes \subseteq {"direct", "kernel"}
  /\ Estimate \in Nat \ {0}
  /\ Reports \subseteq [charge : Nat, tokens : Nat, measured : BOOLEAN,
                        valid : BOOLEAN, over : BOOLEAN]
  /\ \A report \in Reports :
        report.measured => report.valid /\ report.tokens = report.charge
  /\ RequestTokens \in Nat /\ DailyTokens \in Nat /\ RetryTokens \in Nat
  /\ Estimate <= RequestTokens
  /\ MaxAttempts \in Nat \ {0} /\ MaxRuns \in Nat \ {0, 1}
  /\ Nothing \notin Reservations \cup Requests \cup Models

\* A day has finitely many reservations.
ASSUME FinitelyMany == IsFiniteSet(Reservations)

VARIABLES
  reservation, \* usage_reservations
  receipt,     \* usage_receipts, by the reservation they are for
  blocked,     \* provider_blocks
  call,        \* the call each process is making
  provider     \* what reached the provider for each reservation, and came of it

vars == <<reservation, receipt, blocked, call, provider>>

Attempts == 1..MaxAttempts

NoReport == [charge |-> 0, tokens |-> 0, measured |-> FALSE, valid |-> FALSE,
             over |-> FALSE]
NoReservation == [status |-> "none", request |-> Nothing, mode |-> "direct",
                  model |-> Nothing, attempt |-> 0, tokens |-> 0]
NoReceipt == [status |-> "none", tokens |-> 0, known |-> FALSE, priced |-> FALSE,
              unsure |-> FALSE]
NoCall == [at |-> "idle", request |-> Nothing, mode |-> "direct", attempt |-> 0,
           reservation |-> Nothing, replayed |-> FALSE]
Untouched == [asked |-> FALSE, runs |-> 0, charge |-> 0, report |-> NoReport]

ReservationRows ==
  [status : {"none", "reserved", "dispatched", "uncertain", "deleted"},
   request : Requests \cup {Nothing}, mode : {"direct", "kernel"},
   model : Models \cup {Nothing}, attempt : Nat, tokens : Nat]
ReceiptRows ==
  [status : {"none", "completed", "usage_unknown", "uncertain", "not_dispatched",
             "policy_violation"},
   tokens : Nat, known : BOOLEAN, priced : BOOLEAN, unsure : BOOLEAN]
Calls ==
  [at : {"idle", "admitted", "sent", "failed"}, request : Requests \cup {Nothing},
   mode : {"direct", "kernel"}, attempt : Nat,
   reservation : Reservations \cup {Nothing}, replayed : BOOLEAN]
Contacts ==
  [asked : BOOLEAN, runs : Nat, charge : Nat, report : Reports \cup {NoReport}]

TypeOK ==
  /\ reservation \in [Reservations -> ReservationRows]
  /\ receipt \in [Reservations -> ReceiptRows]
  /\ blocked \subseteq Models
  /\ call \in [Processes -> Calls]
  /\ \A p \in Processes :
        call[p].at \in {"admitted", "sent"} =>
           /\ call[p].reservation \in Reservations
           /\ reservation[call[p].reservation].status # "none"
  /\ provider \in [Reservations -> Contacts]

Init ==
  /\ reservation = [i \in Reservations |-> NoReservation]
  /\ receipt = [i \in Reservations |-> NoReceipt]
  /\ blocked = {}
  /\ call = [p \in Processes |-> NoCall]
  /\ provider = [i \in Reservations |-> Untouched]

-----------------------------------------------------------------------------
(* What the ledger says. *)

Live(i) == reservation[i].status \in {"reserved", "dispatched", "uncertain"}

\* The sum of a function with values in Nat.
Total(f) == FoldFunction(LAMBDA n, m : n + m, 0, f)

\* _budget_totals: the known tokens of receipts and the estimates of open
\* reservations, of all attempts or of retries.
Weights ==
  [i \in Reservations |->
     (IF receipt[i].known THEN receipt[i].tokens ELSE 0)
     + (IF Live(i) THEN reservation[i].tokens ELSE 0)]

Exposure(weights) == Total(weights)
RetryExposure(weights) ==
  Total([i \in Reservations |->
           IF reservation[i].attempt > 1 THEN weights[i] ELSE 0])

\* Mutant: only open reservations are looked for.
OriginalsOpen(r) == {i \in Reservations : reservation[i].request = r /\ Live(i)}

\* The reservations of a request that may have had an effect.
Originals(r) ==
  {i \in Reservations :
     /\ reservation[i].request = r
     /\ Live(i) \/ receipt[i].status \notin {"none", "not_dispatched"}}

\* Mutant: an open reservation without a receipt is taken for no effect.
UsageKnownFromReceipts(r) ==
  LET mine == {i \in Reservations : /\ reservation[i].request = r
                                    /\ receipt[i].status # "none"} IN
  /\ mine # {}
  /\ \A i \in mine : /\ receipt[i].known
                     /\ receipt[i].status # "uncertain"
                     /\ ~receipt[i].unsure

\* request_usage: the tokens a request used, where they are known.
UsageKnown(r) ==
  LET mine == {i \in Reservations : reservation[i].request = r} IN
  /\ \E i \in mine : receipt[i].status # "none"
  /\ \A i \in mine : /\ ~Live(i)
                     /\ receipt[i].status # "none" =>
                           /\ receipt[i].known
                           /\ receipt[i].status # "uncertain"
                           /\ ~receipt[i].unsure

Usage(r) == Total([i \in Reservations |->
                     IF reservation[i].request = r THEN receipt[i].tokens ELSE 0])

-----------------------------------------------------------------------------
(* Admission. *)

\* The ways a call goes on after it failed: it ends, or tries the next
\* candidate of its route.
Ends(p) == call' = [call EXCEPT ![p] = NoCall]
Retries(p) ==
  /\ call[p].attempt < MaxAttempts
  /\ call' = [call EXCEPT ![p] =
        [at |-> "failed", request |-> @.request, mode |-> @.mode,
         attempt |-> @.attempt, reservation |-> Nothing, replayed |-> FALSE]]

\* The attempt a process makes: the first of a new call, or its next one.
Attempt(p, r, mode, n) ==
  \/ call[p].at = "idle" /\ n = 1
  \/ /\ call[p].at = "failed"
     /\ <<r, mode, n>> = <<call[p].request, call[p].mode, call[p].attempt + 1>>

Holding(r, mode, n, i, replayed) ==
  [at |-> "admitted", request |-> r, mode |-> mode, attempt |-> n,
   reservation |-> i, replayed |-> replayed]

\* authorize of a request that has no original: blocks and budgets are looked at
\* in the transaction that reserves the estimate.
Reserve(p, r, mode, m, n, i) ==
  /\ Attempt(p, r, mode, n)
  /\ reservation[i] = NoReservation
  /\ Originals(r) = {}
  /\ m \notin blocked
  /\ Exposure(Weights) + Estimate <= DailyTokens
  /\ n > 1 => RetryExposure(Weights) + Estimate <= RetryTokens
  /\ reservation' = [reservation EXCEPT ![i] =
        [status |-> "reserved", request |-> r, mode |-> mode, model |-> m,
         attempt |-> n, tokens |-> Estimate]]
  /\ call' = [call EXCEPT ![p] = Holding(r, mode, n, i, FALSE)]
  /\ UNCHANGED <<receipt, blocked, provider>>

\* authorize of a request that has an original in the Kernel: the same call gets
\* the original reservation back, only to reconcile it.  A direct original, or
\* one with another binding, refuses the call.
Replay(p, r, m, n, i) ==
  /\ Attempt(p, r, "kernel", n)
  /\ i \in Originals(r) /\ reservation[i].mode = "kernel" /\ reservation[i].model = m
  /\ call' = [call EXCEPT ![p] = Holding(r, "kernel", n, i, TRUE)]
  /\ UNCHANGED <<reservation, receipt, blocked, provider>>

\* CostLimitExceeded, or no candidate or no time is left.
Refuse(p) ==
  /\ call[p].at = "failed"
  /\ Ends(p)
  /\ UNCHANGED <<reservation, receipt, blocked, provider>>

-----------------------------------------------------------------------------
(* Dispatch. *)

\* mark_dispatched, the fence before the first submission, and the submission to
\* the adapter or the Kernel.  A death between the two is one before the call runs.
Submit(p) ==
  LET i == call[p].reservation IN
  /\ call[p].at = "admitted" /\ ~call[p].replayed
  /\ reservation[i].status = "reserved"
  /\ reservation' = [reservation EXCEPT ![i].status = "dispatched"]
  /\ provider' = [provider EXCEPT ![i].asked = TRUE]
  /\ call' = [call EXCEPT ![p].at = "sent"]
  /\ UNCHANGED <<receipt, blocked>>

\* The workload of a reservation in the Kernel is its request and model.
Workload(i) ==
  {j \in Reservations : /\ reservation[j].mode = "kernel"
                        /\ reservation[j].request = reservation[i].request
                        /\ reservation[j].model = reservation[i].model}
Committed(i) == {j \in Workload(i) : provider[j].runs > 0}

\* Mutant: a missing receipt of the Kernel justifies another submission.
ReconcileUnproved(p) ==
  LET i == call[p].reservation IN
  /\ call[p].at = "admitted" /\ call[p].replayed
  /\ call' = [call EXCEPT ![p].at = "sent"]
  /\ provider' = IF Committed(i) # {} THEN provider
                 ELSE [provider EXCEPT ![i].asked = TRUE]
  /\ UNCHANGED <<reservation, receipt, blocked>>

\* A replayed call is submitted again only if the Kernel shows that the original
\* committed (_nki_original_receipt); it is answered from the Kernel's journal.
Reconcile(p) ==
  /\ call[p].at = "admitted" /\ call[p].replayed
  /\ Committed(call[p].reservation) # {}
  /\ call' = [call EXCEPT ![p].at = "sent"]
  /\ UNCHANGED <<reservation, receipt, blocked, provider>>

\* The provider runs a call it was sent, whoever still waits, and reports what it
\* used: the counter is exact if it is measured; the report may be invalid, or
\* show input or output over the authorized size.
Run(i, report) ==
  /\ provider[i].asked /\ provider[i].runs < MaxRuns
  /\ provider' = [provider EXCEPT ![i] =
        [asked |-> FALSE, runs |-> @.runs + 1, charge |-> @.charge + report.charge,
         report |-> report]]
  /\ UNCHANGED <<reservation, receipt, blocked, call>>

-----------------------------------------------------------------------------
(* Failure. *)

Blocks(m, exhausted) == blocked' = IF exhausted THEN blocked \cup {m} ELSE blocked

\* fail before the dispatch.  Nothing can own the reservation: it is released
\* with a receipt of no effect.  A replayed call releases nothing, and what was
\* dispatched is not released.
FailUndispatched(p, exhausted) ==
  LET i == call[p].reservation IN
  /\ call[p].at = "admitted"
  /\ IF call[p].replayed \/ reservation[i].status # "reserved"
     THEN UNCHANGED <<reservation, receipt, blocked>>
     ELSE /\ receipt' = [receipt EXCEPT ![i] =
                [status |-> "not_dispatched", tokens |-> 0, known |-> TRUE,
                 priced |-> TRUE, unsure |-> FALSE]]
          /\ reservation' = [reservation EXCEPT ![i].status = "deleted"]
          /\ Blocks(reservation[i].model, exhausted)
  /\ Retries(p) \/ Ends(p)
  /\ UNCHANGED provider

\* Mutant: whether the reservation is still open is not looked at.
DoubtedAnyway(i) == receipt[i].status # "policy_violation"

\* fail after the dispatch: the ledger keeps the reservation and writes that it
\* does not know, unless the original is settled.
Doubted(i) == Live(i) /\ receipt[i].status # "policy_violation"

\* Mutant: the estimate of a call with no answer is given back.
DoubtFree(i) ==
  IF Doubted(i)
  THEN /\ receipt' = [receipt EXCEPT ![i].status = "uncertain", ![i].unsure = TRUE]
       /\ reservation' = [reservation EXCEPT ![i].status = "uncertain",
                                             ![i].tokens = 0]
  ELSE UNCHANGED <<reservation, receipt>>

Doubt(i) ==
  IF Doubted(i)
  THEN /\ receipt' = [receipt EXCEPT ![i].status = "uncertain", ![i].unsure = TRUE]
       /\ reservation' = [reservation EXCEPT ![i].status = "uncertain"]
  ELSE UNCHANGED <<reservation, receipt>>

\* A timeout, a cancellation or an error while the call is out.  Only a call of
\* the Kernel goes on to another candidate.
FailDispatched(p, exhausted) ==
  LET i == call[p].reservation IN
  /\ call[p].at = "sent"
  /\ Doubt(i)
  /\ Blocks(reservation[i].model, exhausted /\ Doubted(i))
  /\ \/ call[p].mode = "kernel" /\ Retries(p)
     \/ Ends(p)
  /\ UNCHANGED provider

-----------------------------------------------------------------------------
(* Settlement. *)

Bigger(n, m) == IF n > m THEN n ELSE m

\* Mutant: a call whose tokens were not measured keeps nothing.
KeptNothing(report) == 0

\* What commit keeps of the estimate when a call is not settled.
Kept(report) == IF report.measured THEN 0 ELSE Bigger(Estimate, report.tokens)

Settled(i) == receipt[i].status \in {"completed", "policy_violation"}

\* The evidence of a receipt cannot change or lose certainty.
Contradicts(report, i) ==
  receipt[i].known /\ ~(report.measured /\ report.tokens = receipt[i].tokens)

Overdrawn(weights, i) ==
  \/ Exposure(weights) > DailyTokens
  \/ reservation[i].attempt > 1 /\ RetryExposure(weights) > RetryTokens

\* The ledger after a report: the receipt and the reservation, and a block of the
\* credential if the call or the day is over its budget.
Write(i, report, priced) ==
  LET done == report.measured /\ priced
      left == IF done THEN 0 ELSE Kept(report)
      weights == [Weights EXCEPT ![i] =
                    left + IF report.measured THEN report.tokens ELSE 0]
      over == \/ report.over
              \/ report.tokens > RequestTokens
              \/ Overdrawn(weights, i)
  IN /\ reservation' = [reservation EXCEPT
           ![i].status = IF done THEN "deleted" ELSE "uncertain",
           ![i].tokens = IF done THEN @ ELSE left]
     /\ receipt' = [receipt EXCEPT ![i] =
           [status |-> IF over THEN "policy_violation"
                       ELSE IF done THEN "completed" ELSE "usage_unknown",
            tokens |-> report.tokens, known |-> report.measured,
            priced |-> priced, unsure |-> FALSE]]
     /\ Blocks(reservation[i].model, over)

\* The report a call gets: of its own run, or of the workload the Kernel committed.
Answers(p) ==
  LET i == call[p].reservation IN
  IF call[p].mode = "kernel" THEN {provider[j].report : j \in Committed(i)}
  ELSE IF provider[i].runs > 0 THEN {provider[i].report} ELSE {}

\* commit.  A report that is not read or not believed leaves the usage uncertain;
\* an original that is settled is answered and not written.
Commit(p, report, priced) ==
  LET i == call[p].reservation IN
  /\ call[p].at = "sent"
  /\ report \in Answers(p)
  /\ IF ~report.valid \/ Contradicts(report, i)
     THEN Doubt(i) /\ UNCHANGED blocked
     ELSE IF Live(i) /\ ~Settled(i)
     THEN Write(i, report, priced)
     ELSE UNCHANGED <<reservation, receipt, blocked>>
  /\ Ends(p)
  /\ UNCHANGED provider

-----------------------------------------------------------------------------
\* A process dies, with nothing written of its call.
Die(p) ==
  /\ call[p].at \in {"admitted", "sent"}
  /\ Ends(p)
  /\ UNCHANGED <<reservation, receipt, blocked, provider>>

Next ==
  \/ \E p \in Processes, r \in Requests, m \in Models, n \in Attempts,
        i \in Reservations :
        \/ \E mode \in Modes : Reserve(p, r, mode, m, n, i)
        \/ Replay(p, r, m, n, i)
  \/ \E p \in Processes :
        \/ Refuse(p) \/ Submit(p) \/ Reconcile(p) \/ Die(p)
        \/ \E exhausted \in BOOLEAN :
              FailUndispatched(p, exhausted) \/ FailDispatched(p, exhausted)
        \/ \E report \in Reports, priced \in BOOLEAN : Commit(p, report, priced)
  \/ \E i \in Reservations, report \in Reports : Run(i, report)

Spec == Init /\ [][Next]_vars

-----------------------------------------------------------------------------
(* Properties. *)

\* A reservation whose call reached the provider, or is on its way to it.
Reached(i) == provider[i].asked \/ provider[i].runs > 0

\* A request is sent to a provider once: over its retries, the candidates of its
\* route, concurrent callers, lost answers, crashes and reconciliations, one
\* reservation of the request reaches a provider, with one message.
\* (_original_execution, mark_dispatched and _nki_original_receipt: "a new
\* admission cannot replay that effect".)
BilledOnce ==
  \A i, j \in Reservations :
    /\ Reached(i) /\ Reached(j) /\ reservation[i].request = reservation[j].request
          => i = j
    /\ provider[i].asked => provider[i].runs = 0
    /\ provider[i].runs <= 1

\* What the provider charged for a request.
Charged(r) == Total([i \in Reservations |->
                       IF reservation[i].request = r THEN provider[i].charge ELSE 0])

\* Usage that is reported as known is what the provider charged, whoever died or
\* gave up on the request in between.  (request_usage: "a missing receipt does not
\* prove that an open reservation never reached the Provider".)
UsageIsTrue == \A r \in Requests : UsageKnown(r) => Usage(r) = Charged(r)

\* What providers really charge stays within the budget of the day, and what
\* retries are charged within theirs, as long as no call uses more than it was
\* estimated at: the estimate of a call with no answer is never given back.
BudgetHolds ==
  (\A i \in Reservations : provider[i].charge <= Estimate) =>
     /\ Total([i \in Reservations |-> provider[i].charge]) <= DailyTokens
     /\ Total([i \in Reservations |-> IF reservation[i].attempt > 1
                                      THEN provider[i].charge ELSE 0]) <= RetryTokens

\* Once the usage of a request is settled, by a completed call or by one that
\* broke a budget, no step of another caller changes it or runs the request again.
SettledStays ==
  [][\A i \in Reservations : Settled(i) /\ ~Live(i) =>
        /\ receipt'[i] = receipt[i] /\ reservation'[i] = reservation[i]
        /\ \A j \in Reservations :
              reservation'[j].request = reservation[i].request =>
                 provider'[j].charge = provider[j].charge]_vars
=============================================================================
