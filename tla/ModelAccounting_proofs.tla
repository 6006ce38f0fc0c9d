------------------------ MODULE ModelAccounting_proofs ------------------------
(***************************************************************************)
(* A request is billed once, its known usage is what was charged, settled  *)
(* usage stays, and what providers charge keeps within the budgets, for    *)
(* any number of processes, requests, models and reservations.             *)
(*                                                                         *)
(* The invariant says of each reservation what its receipt proves of the   *)
(* provider (Sound), and that a request has at most one reservation that   *)
(* may have had an effect (Sole).  A replayed call can hold a reservation  *)
(* that was released since: what it does then is harmless because the      *)
(* ledger writes open reservations only.                                   *)
(*                                                                         *)
(* The budgets need sums: the lemmas of Totals prove of FoldFunction, by a *)
(* smallest set that would refute them, what its value is, that it is      *)
(* monotonic, and what one more summand adds.                              *)
(***************************************************************************)
EXTENDS ModelAccounting, FiniteSetTheorems, TLAPS

Original(i) == Live(i) \/ receipt[i].status \notin {"none", "not_dispatched"}

Sole ==
  \A i, j \in Reservations :
    Original(i) /\ Original(j) /\ reservation[i].request = reservation[j].request
       => i = j

Sound(i) ==
  /\ reservation[i].status = "none" =>
        /\ reservation[i] = NoReservation /\ receipt[i] = NoReceipt
        /\ provider[i] = Untouched
  /\ reservation[i].status # "none" => /\ reservation[i].request \in Requests
                                       /\ reservation[i].model \in Models
  /\ reservation[i].status = "reserved" =>
        receipt[i] = NoReceipt /\ provider[i] = Untouched
  /\ reservation[i].status = "deleted" =>
        /\ receipt[i].known
        /\ receipt[i].status \in {"not_dispatched", "completed", "policy_violation"}
  /\ receipt[i].status = "not_dispatched" =>
        /\ reservation[i].status = "deleted" /\ provider[i] = Untouched
        /\ receipt[i].tokens = 0
  /\ receipt[i].known =>
        \/ receipt[i].status = "not_dispatched"
        \/ provider[i].runs = 1 /\ receipt[i].tokens = provider[i].charge
  /\ provider[i].asked => provider[i].runs = 0
  /\ provider[i].runs = 0 => provider[i].charge = 0
  /\ provider[i].runs = 1 => /\ provider[i].report \in Reports
                             /\ provider[i].charge = provider[i].report.charge
  /\ provider[i].runs \in {0, 1}

AccountingInv == TypeOK /\ Sole /\ \A i \in Reservations : Sound(i)

-----------------------------------------------------------------------------
\* Only a reservation that may have had an effect reached the provider.
LEMMA ReachedIsOriginal ==
  ASSUME AccountingInv, NEW i \in Reservations, Reached(i)
  PROVE  Original(i) /\ reservation[i].status \notin {"none", "reserved"}
<1>1. Sound(i) BY DEF AccountingInv
<1>2. provider[i] # Untouched BY DEF Reached, Untouched
<1>3. reservation[i].status \notin {"none", "reserved"} BY <1>1, <1>2 DEF Sound
<1>4. reservation[i].status \in {"dispatched", "uncertain", "deleted"}
  BY <1>3 DEF AccountingInv, TypeOK, ReservationRows, ReceiptRows, Calls, Contacts
<1> QED BY <1>1, <1>2, <1>3, <1>4 DEF Sound, Original, Live

\* The report a call gets for an open reservation is that of its own run.
LEMMA AnswerIsOwn ==
  ASSUME AccountingInv, NEW p \in Processes, NEW report \in Answers(p),
         call[p].reservation \in Reservations, Live(call[p].reservation)
  PROVE  /\ provider[call[p].reservation].runs = 1
         /\ report = provider[call[p].reservation].report
<1> DEFINE i == call[p].reservation
<1>1. PICK j \in Reservations :
        /\ reservation[j].request = reservation[i].request
        /\ provider[j].runs > 0 /\ report = provider[j].report
  BY DEF Answers, Committed, Workload
<1>2. Original(i) BY DEF Original
<1>3. Reached(j) BY <1>1 DEF Reached
<1>4. Original(j) BY <1>3, ReachedIsOriginal
<1>5. i = j BY <1>1, <1>2, <1>4 DEF AccountingInv, Sole
<1>6. Sound(j) BY DEF AccountingInv
<1>7. provider[j].runs = 1 BY <1>1, <1>6 DEF Sound
<1> QED BY <1>1, <1>5, <1>7

\* A report that is answered is a report.
LEMMA AnswerIsReport ==
  ASSUME AccountingInv, NEW p \in Processes, NEW report \in Answers(p),
         call[p].reservation \in Reservations, Live(call[p].reservation)
  PROVE  report \in Reports /\ provider[call[p].reservation].charge = report.charge
<1>1. Sound(call[p].reservation) BY DEF AccountingInv
<1> QED BY <1>1, AnswerIsOwn DEF Sound

\* What an update of one field keeps of a row, a call and a contact.
LEMMA RowUpdate ==
  ASSUME NEW x \in ReservationRows,
         NEW s \in {"reserved", "dispatched", "uncertain", "deleted"}
  PROVE  /\ [x EXCEPT !.status = s] \in ReservationRows
         /\ [x EXCEPT !.status = s].status = s
         /\ [x EXCEPT !.status = s].request = x.request
         /\ [x EXCEPT !.status = s].model = x.model
BY DEF ReservationRows

LEMMA CallUpdate ==
  ASSUME NEW x \in Calls
  PROVE  /\ [x EXCEPT !.at = "sent"] \in Calls
         /\ [x EXCEPT !.at = "sent"].reservation = x.reservation
BY DEF Calls

LEMMA ContactUpdate ==
  ASSUME NEW x \in Contacts
  PROVE  /\ [x EXCEPT !.asked = TRUE] \in Contacts
         /\ [x EXCEPT !.asked = TRUE].asked
         /\ [x EXCEPT !.asked = TRUE].runs = x.runs
         /\ [x EXCEPT !.asked = TRUE].charge = x.charge
BY DEF Contacts

LEMMA InitSound == ASSUME AccountingAssumption, Init PROVE AccountingInv
<1>1. TypeOK
  BY DEF Init, TypeOK, ReservationRows, ReceiptRows, Calls, Contacts, AccountingAssumption, NoReservation, NoReceipt, NoCall,
         Untouched, NoReport
<1>2. \A i \in Reservations : ~Original(i)
  BY DEF Init, Original, Live, NoReservation, NoReceipt
<1>3. Sole BY <1>2 DEF Sole
<1>4. \A i \in Reservations : Sound(i)
  BY DEF Init, Sound, NoReservation, NoReceipt, Untouched, NoReport
<1> QED BY <1>1, <1>3, <1>4 DEF AccountingInv

-----------------------------------------------------------------------------
\* What a step does to reservations it does not name.
LEMMA Others ==
  ASSUME AccountingInv, NEW i \in Reservations,
         reservation'[i] = reservation[i], receipt'[i] = receipt[i],
         provider'[i] = provider[i]
  PROVE  Sound(i)' /\ (Original(i)' <=> Original(i))
<1>1. Sound(i) BY DEF AccountingInv
<1> QED BY <1>1 DEF Sound, Original, Live

\* A step that changes one reservation of the ledger, makes no other one an
\* original and keeps its request, preserves the invariant.
LEMMA OneStep ==
  ASSUME AccountingInv, TypeOK', NEW i \in Reservations,
         \A j \in Reservations \ {i} : /\ reservation'[j] = reservation[j]
                                       /\ receipt'[j] = receipt[j]
                                       /\ provider'[j] = provider[j],
         reservation'[i].request = reservation[i].request,
         Original(i)' => Original(i),
         Sound(i)'
  PROVE  AccountingInv'
<1>1. \A j \in Reservations \ {i} : Sound(j)' /\ (Original(j)' <=> Original(j))
  BY Others
<1>2. Sole'
  <2> SUFFICES ASSUME NEW j \in Reservations, NEW k \in Reservations,
                      Original(j)', Original(k)',
                      reservation'[j].request = reservation'[k].request
               PROVE  j = k
    BY DEF Sole
  <2>1. Original(j) /\ Original(k) BY <1>1
  <2>2. reservation[j].request = reservation[k].request OBVIOUS
  <2> QED BY <2>1, <2>2 DEF AccountingInv, Sole
<1> QED BY <1>1, <1>2 DEF AccountingInv

\* A step of callers only preserves the invariant.
LEMMA CallStep ==
  ASSUME AccountingInv, TypeOK', UNCHANGED <<reservation, receipt, provider>>
  PROVE  AccountingInv'
BY DEF AccountingInv, Sole, Sound, Original, Live

-----------------------------------------------------------------------------
(* Every action preserves the invariant. *)

LEMMA ReserveStep ==
  ASSUME AccountingAssumption, AccountingInv,
         NEW p \in Processes, NEW r \in Requests, NEW mode \in Modes,
         NEW m \in Models, NEW n \in Attempts, NEW i \in Reservations,
         Reserve(p, r, mode, m, n, i)
  PROVE  AccountingInv'
<1>1. /\ reservation[i] = NoReservation /\ receipt[i] = NoReceipt
      /\ provider[i] = Untouched
  BY DEF Reserve, AccountingInv, Sound, NoReservation
<1>2. reservation'[i] = [status |-> "reserved", request |-> r, mode |-> mode,
                         model |-> m, attempt |-> n, tokens |-> Estimate]
  BY DEF Reserve, AccountingInv, TypeOK, ReservationRows, ReceiptRows, Calls, Contacts
<1>3. TypeOK'
  <2>1. mode \in {"direct", "kernel"} BY DEF AccountingAssumption
  <2>2. n \in Nat /\ Estimate \in Nat BY DEF AccountingAssumption, Attempts
  <2>3. reservation' \in [Reservations -> ReservationRows]
    BY <2>1, <2>2 DEF Reserve, AccountingInv, TypeOK, ReservationRows, ReceiptRows, Calls, Contacts
  <2>4. \A j \in Reservations :
          reservation[j].status # "none" => reservation'[j].status # "none"
    BY <1>2 DEF Reserve, AccountingInv, TypeOK, ReservationRows, ReceiptRows, Calls, Contacts
  <2>5. call' \in [Processes -> Calls]
    BY <2>1, <2>2 DEF Reserve, AccountingInv, TypeOK, ReservationRows, ReceiptRows, Calls, Contacts, Holding
  <2>6. \A q \in Processes : call'[q].at \in {"admitted", "sent"} =>
          /\ call'[q].reservation \in Reservations
          /\ reservation'[call'[q].reservation].status # "none"
    <3> SUFFICES ASSUME NEW q \in Processes, call'[q].at \in {"admitted", "sent"}
                 PROVE  /\ call'[q].reservation \in Reservations
                        /\ reservation'[call'[q].reservation].status # "none"
      OBVIOUS
    <3>1. CASE q = p
      <4>1. call'[p] = Holding(r, mode, n, i, FALSE)
        BY DEF Reserve, AccountingInv, TypeOK, ReservationRows, ReceiptRows, Calls, Contacts
      <4> QED BY <3>1, <4>1, <1>2 DEF Holding
    <3>2. CASE q # p
      <4>1. call'[q] = call[q] BY <3>2 DEF Reserve, AccountingInv, TypeOK, ReservationRows, ReceiptRows, Calls, Contacts
      <4> QED BY <4>1, <2>4 DEF AccountingInv, TypeOK, ReservationRows, ReceiptRows, Calls, Contacts
    <3> QED BY <3>1, <3>2
  <2> QED BY <2>3, <2>5, <2>6 DEF TypeOK, ReservationRows, ReceiptRows, Calls, Contacts, Reserve, AccountingInv
<1>4. Sound(i)'
  BY <1>1, <1>2 DEF Sound, Reserve, NoReceipt, Untouched, NoReport
<1>5. \A j \in Reservations \ {i} :
        /\ reservation'[j] = reservation[j] /\ receipt'[j] = receipt[j]
        /\ provider'[j] = provider[j]
  BY DEF Reserve, AccountingInv, TypeOK, ReservationRows, ReceiptRows, Calls, Contacts
<1>6. \A j \in Reservations \ {i} : Sound(j)' /\ (Original(j)' <=> Original(j))
  BY <1>5, Others
<1>7. Sole'
  <2>1. \A j \in Reservations : Original(j) => reservation[j].request # r
    BY DEF Reserve, Originals, Original
  <2> SUFFICES ASSUME NEW j \in Reservations, NEW k \in Reservations,
                      Original(j)', Original(k)',
                      reservation'[j].request = reservation'[k].request
               PROVE  j = k
    BY DEF Sole
  <2>2. CASE j # i /\ k # i
    <3>1. Original(j) /\ Original(k) BY <2>2, <1>6
    <3> QED BY <3>1, <2>2, <1>5 DEF AccountingInv, Sole
  <2>3. CASE j = i /\ k # i
    <3>1. Original(k) /\ reservation[k].request = r BY <2>3, <1>2, <1>5, <1>6
    <3> QED BY <3>1, <2>1
  <2>4. CASE k = i /\ j # i
    <3>1. Original(j) /\ reservation[j].request = r BY <2>4, <1>2, <1>5, <1>6
    <3> QED BY <3>1, <2>1
  <2> QED BY <2>2, <2>3, <2>4
<1> QED BY <1>3, <1>4, <1>6, <1>7 DEF AccountingInv

LEMMA ReplayStep ==
  ASSUME AccountingAssumption, AccountingInv,
         NEW p \in Processes, NEW r \in Requests, NEW m \in Models,
         NEW n \in Attempts, NEW i \in Reservations, Replay(p, r, m, n, i)
  PROVE  AccountingInv'
<1>1. reservation[i].status # "none"
  <2>1. Original(i) BY DEF Replay, Originals, Original
  <2>2. Sound(i) BY DEF AccountingInv
  <2> QED BY <2>1, <2>2 DEF Sound, Original, Live, NoReceipt, NoReservation
<1>2. TypeOK'
  <2>1. n \in Nat BY DEF AccountingAssumption, Attempts
  <2>2. call' = [call EXCEPT ![p] = Holding(r, "kernel", n, i, TRUE)]
    BY DEF Replay
  <2> QED BY <1>1, <2>1, <2>2 DEF Replay, AccountingInv, TypeOK, ReservationRows, ReceiptRows, Calls, Contacts, Holding
<1> QED BY <1>2, CallStep DEF Replay

\* The end of a call, or of an attempt, keeps the type of calls.
LEMMA CallEnds ==
  ASSUME TypeOK, NEW p \in Processes, Ends(p) \/ Retries(p),
         reservation' \in [Reservations -> ReservationRows],
         receipt' \in [Reservations -> ReceiptRows],
         blocked' \subseteq Models, provider' = provider,
         \A j \in Reservations :
            reservation[j].status # "none" => reservation'[j].status # "none"
  PROVE  TypeOK'
<1>1. \A q \in Processes \ {p} : call'[q] = call[q]
  BY DEF Ends, Retries, TypeOK, ReservationRows, ReceiptRows, Calls, Contacts
<1>2. call'[p].at \in {"idle", "failed"}
  BY DEF Ends, Retries, TypeOK, ReservationRows, ReceiptRows, Calls, Contacts, NoCall
<1>3. call' \in [Processes -> Calls]
  <2>1. CASE call' = [call EXCEPT ![p] = NoCall] BY <2>1 DEF TypeOK, ReservationRows, ReceiptRows, Calls, Contacts, NoCall
  <2>2. CASE Retries(p)
    <3> DEFINE c == [at |-> "failed", request |-> call[p].request,
                     mode |-> call[p].mode, attempt |-> call[p].attempt,
                     reservation |-> Nothing, replayed |-> FALSE]
    <3>1. c \in Calls
      BY DEF TypeOK, ReservationRows, ReceiptRows, Calls, Contacts
    <3>2. call' = [call EXCEPT ![p] = c] BY <2>2 DEF Retries
    <3> HIDE DEF c
    <3> QED BY <3>1, <3>2 DEF TypeOK, ReservationRows, ReceiptRows, Calls, Contacts
  <2> QED BY <2>1, <2>2 DEF Ends
<1>4. \A q \in Processes : call'[q].at \in {"admitted", "sent"} =>
        /\ call'[q].reservation \in Reservations
        /\ reservation'[call'[q].reservation].status # "none"
  BY <1>1, <1>2 DEF TypeOK, ReservationRows, ReceiptRows, Calls, Contacts
<1> QED BY <1>3, <1>4 DEF TypeOK, ReservationRows, ReceiptRows, Calls, Contacts

LEMMA RefuseStep ==
  ASSUME AccountingInv, NEW p \in Processes, Refuse(p) \/ Die(p)
  PROVE  AccountingInv'
<1>1. Ends(p) /\ UNCHANGED <<reservation, receipt, blocked, provider>>
  BY DEF Refuse, Die
<1>2. TypeOK' BY <1>1, CallEnds DEF AccountingInv, TypeOK, ReservationRows, ReceiptRows, Calls, Contacts
<1> QED BY <1>1, <1>2, CallStep

LEMMA SubmitStep ==
  ASSUME AccountingInv, NEW p \in Processes, Submit(p)
  PROVE  AccountingInv'
<1>0. PICK i \in Reservations : i = call[p].reservation
  BY DEF Submit, AccountingInv, TypeOK
<1> DEFINE row == [reservation[i] EXCEPT !.status = "dispatched"]
           sent == [call[p] EXCEPT !.at = "sent"]
           contact == [provider[i] EXCEPT !.asked = TRUE]
<1>1. reservation[i].status = "reserved" BY <1>0 DEF Submit
<1>2. /\ reservation' = [reservation EXCEPT ![i] = row]
      /\ provider' = [provider EXCEPT ![i] = contact]
      /\ call' = [call EXCEPT ![p] = sent]
      /\ UNCHANGED <<receipt, blocked>>
  BY <1>0 DEF Submit
<1>3. /\ row \in ReservationRows /\ row.status = "dispatched"
      /\ row.request = reservation[i].request /\ row.model = reservation[i].model
  BY <1>0, RowUpdate DEF AccountingInv, TypeOK
<1>4. sent \in Calls /\ sent.reservation = i
  BY <1>0, CallUpdate DEF AccountingInv, TypeOK
<1>5. /\ contact \in Contacts /\ contact.asked /\ contact.runs = provider[i].runs
      /\ contact.charge = provider[i].charge
  BY <1>0, ContactUpdate DEF AccountingInv, TypeOK
<1>6. Sound(i) BY <1>0 DEF AccountingInv
<1> HIDE DEF row, sent, contact
<1>7. reservation'[i] = row /\ provider'[i] = contact /\ receipt'[i] = receipt[i]
  BY <1>0, <1>2 DEF AccountingInv, TypeOK
<1>8. \A j \in Reservations \ {i} :
        /\ reservation'[j] = reservation[j] /\ receipt'[j] = receipt[j]
        /\ provider'[j] = provider[j]
  BY <1>0, <1>2 DEF AccountingInv, TypeOK
<1>9. TypeOK'
  <2>1. /\ reservation' \in [Reservations -> ReservationRows]
        /\ call' \in [Processes -> Calls]
        /\ provider' \in [Reservations -> Contacts]
    BY <1>0, <1>2, <1>3, <1>4, <1>5 DEF AccountingInv, TypeOK
  <2>2. \A q \in Processes : call'[q].at \in {"admitted", "sent"} =>
          /\ call'[q].reservation \in Reservations
          /\ reservation'[call'[q].reservation].status # "none"
    <3>1. \A j \in Reservations :
            reservation[j].status # "none" => reservation'[j].status # "none"
      BY <1>3, <1>7, <1>8
    <3>2. call'[p] = sent /\ \A q \in Processes \ {p} : call'[q] = call[q]
      BY <1>2 DEF AccountingInv, TypeOK
    <3> QED BY <1>0, <1>1, <1>4, <3>1, <3>2 DEF AccountingInv, TypeOK
  <2> QED BY <1>2, <2>1, <2>2 DEF AccountingInv, TypeOK
<1>10. Sound(i)'
  <2>1. /\ receipt'[i] = NoReceipt /\ provider[i] = Untouched
        /\ reservation[i].request \in Requests /\ reservation[i].model \in Models
    BY <1>1, <1>6, <1>7 DEF Sound
  <2>2. contact.runs = 0 /\ contact.charge = 0
    BY <1>5, <2>1 DEF Untouched
  <2> QED BY <1>3, <1>5, <1>7, <2>1, <2>2 DEF Sound, NoReceipt
<1>11. Original(i) BY <1>1 DEF Original, Live
<1> QED BY <1>0, <1>3, <1>7, <1>8, <1>9, <1>10, <1>11, OneStep

LEMMA ReconcileStep ==
  ASSUME AccountingInv, NEW p \in Processes, Reconcile(p)
  PROVE  AccountingInv'
<1> DEFINE sent == [call[p] EXCEPT !.at = "sent"]
<1>1. /\ call' = [call EXCEPT ![p] = sent] /\ call[p].at = "admitted"
      /\ UNCHANGED <<reservation, receipt, blocked, provider>>
  BY DEF Reconcile
<1>2. sent \in Calls /\ sent.reservation = call[p].reservation
  BY CallUpdate DEF AccountingInv, TypeOK
<1> HIDE DEF sent
<1>3. TypeOK' BY <1>1, <1>2 DEF AccountingInv, TypeOK
<1> QED BY <1>1, <1>3, CallStep

LEMMA RunStep ==
  ASSUME AccountingAssumption, AccountingInv, NEW i \in Reservations,
         NEW report \in Reports, Run(i, report)
  PROVE  AccountingInv'
<1> DEFINE c == [asked |-> FALSE, runs |-> provider[i].runs + 1,
                 charge |-> provider[i].charge + report.charge, report |-> report]
<1>1. provider' = [provider EXCEPT ![i] = c] /\ provider[i].asked
  BY DEF Run
<1>2. UNCHANGED <<reservation, receipt, blocked, call>> BY DEF Run
<1>3. report.charge \in Nat BY DEF AccountingAssumption
<1>4. c \in Contacts
  BY <1>3 DEF AccountingInv, TypeOK, ReservationRows, ReceiptRows, Calls, Contacts
<1>5. provider'[i] = c BY <1>1 DEF AccountingInv, TypeOK, ReservationRows, ReceiptRows, Calls, Contacts
<1>6. Sound(i) BY DEF AccountingInv
<1>7. provider[i].runs = 0 /\ provider[i].charge = 0
  BY <1>1, <1>6 DEF Sound
<1>8. c.asked = FALSE /\ c.runs = 1 /\ c.charge = report.charge /\ c.report = report
  BY <1>3, <1>7
<1> HIDE DEF c
<1>9. TypeOK' BY <1>1, <1>2, <1>4 DEF AccountingInv, TypeOK, ReservationRows, ReceiptRows, Calls, Contacts
<1>10. Original(i) /\ reservation[i].status \notin {"none", "reserved"}
  BY <1>1, ReachedIsOriginal DEF Reached
<1>11. receipt[i].status # "not_dispatched" /\ ~receipt[i].known
  BY <1>1, <1>6, <1>7 DEF Sound, Untouched
<1>12. Sound(i)'
  BY <1>2, <1>5, <1>6, <1>8, <1>10, <1>11 DEF Sound
<1>13. \A j \in Reservations \ {i} : provider'[j] = provider[j]
  BY <1>1 DEF AccountingInv, TypeOK, ReservationRows, ReceiptRows, Calls, Contacts
<1> QED BY <1>2, <1>9, <1>10, <1>12, <1>13, OneStep

\* The end of an attempt whose ledger changed at one reservation, or nowhere.
LEMMA EndStep ==
  ASSUME AccountingInv, NEW p \in Processes, Ends(p) \/ Retries(p),
         NEW i \in Reservations, provider' = provider, blocked' \subseteq Models,
         NEW row \in ReservationRows, NEW paper \in ReceiptRows,
         reservation' = [reservation EXCEPT ![i] = row],
         receipt' = [receipt EXCEPT ![i] = paper],
         row.status # "none", row.request = reservation[i].request,
         Original(i)' => Original(i), Sound(i)'
  PROVE  AccountingInv'
<1>1. /\ reservation' \in [Reservations -> ReservationRows]
      /\ receipt' \in [Reservations -> ReceiptRows]
      /\ reservation'[i] = row
  BY DEF AccountingInv, TypeOK
<1>2. \A j \in Reservations \ {i} :
        /\ reservation'[j] = reservation[j] /\ receipt'[j] = receipt[j]
        /\ provider'[j] = provider[j]
  BY DEF AccountingInv, TypeOK
<1>3. \A j \in Reservations :
        reservation[j].status # "none" => reservation'[j].status # "none"
  BY <1>1, <1>2
<1>4. TypeOK' BY <1>1, <1>3, CallEnds DEF AccountingInv
<1> QED BY <1>1, <1>2, <1>4, OneStep

LEMMA EndUnchanged ==
  ASSUME AccountingInv, NEW p \in Processes, Ends(p) \/ Retries(p),
         UNCHANGED <<reservation, receipt, provider>>, blocked' \subseteq Models
  PROVE  AccountingInv'
<1>1. TypeOK' BY CallEnds DEF AccountingInv, TypeOK
<1> QED BY <1>1, CallStep

LEMMA FailUndispatchedStep ==
  ASSUME AccountingInv, NEW p \in Processes, NEW exhausted \in BOOLEAN,
         FailUndispatched(p, exhausted)
  PROVE  AccountingInv'
<1>0. PICK i \in Reservations : i = call[p].reservation
  BY DEF FailUndispatched, AccountingInv, TypeOK
<1>1. (Ends(p) \/ Retries(p)) /\ provider' = provider BY DEF FailUndispatched
<1>2. CASE UNCHANGED <<reservation, receipt, blocked>>
  BY <1>1, <1>2, EndUnchanged DEF AccountingInv, TypeOK
<1>3. CASE /\ reservation[i].status = "reserved"
           /\ receipt' = [receipt EXCEPT ![i] =
                [status |-> "not_dispatched", tokens |-> 0, known |-> TRUE,
                 priced |-> TRUE, unsure |-> FALSE]]
           /\ reservation' = [reservation EXCEPT ![i].status = "deleted"]
           /\ Blocks(reservation[i].model, exhausted)
  <2> DEFINE row == [reservation[i] EXCEPT !.status = "deleted"]
             paper == [status |-> "not_dispatched", tokens |-> 0, known |-> TRUE,
                       priced |-> TRUE, unsure |-> FALSE]
  <2>1. /\ row \in ReservationRows /\ row.status = "deleted"
        /\ row.request = reservation[i].request /\ row.model = reservation[i].model
    BY RowUpdate DEF AccountingInv, TypeOK
  <2>2. paper \in ReceiptRows BY DEF ReceiptRows
  <2>3. /\ paper.status = "not_dispatched" /\ paper.tokens = 0 /\ paper.known
    OBVIOUS
  <2>4. /\ reservation' = [reservation EXCEPT ![i] = row]
        /\ receipt' = [receipt EXCEPT ![i] = paper]
    BY <1>3
  <2> HIDE DEF row, paper
  <2>5. reservation'[i] = row /\ receipt'[i] = paper
    BY <2>4 DEF AccountingInv, TypeOK
  <2>6. Sound(i) BY DEF AccountingInv
  <2>7. /\ provider[i] = Untouched
        /\ reservation[i].request \in Requests /\ reservation[i].model \in Models
    BY <1>3, <2>6 DEF Sound
  <2>8. Sound(i)'
    BY <1>1, <2>1, <2>3, <2>5, <2>7 DEF Sound, Untouched
  <2>9. ~Original(i)' BY <2>1, <2>3, <2>5 DEF Original, Live
  <2>10. blocked' \subseteq Models
    BY <1>3, <2>7 DEF Blocks, AccountingInv, TypeOK
  <2> QED BY <1>1, <2>1, <2>2, <2>4, <2>8, <2>9, <2>10, EndStep
<1> QED BY <1>0, <1>2, <1>3 DEF FailUndispatched

\* Doubt and Write change one open reservation, and prove what they write.
LEMMA DoubtStep ==
  ASSUME AccountingInv, NEW p \in Processes, Ends(p) \/ Retries(p),
         NEW i \in Reservations, Doubt(i), provider' = provider,
         blocked' \subseteq Models
  PROVE  AccountingInv'
<1>1. CASE ~Doubted(i)
  BY <1>1, EndUnchanged DEF Doubt
<1>2. CASE Doubted(i)
  <2> DEFINE row == [reservation[i] EXCEPT !.status = "uncertain"]
             paper == [receipt[i] EXCEPT !.status = "uncertain", !.unsure = TRUE]
  <2>1. /\ row \in ReservationRows /\ row.status = "uncertain"
        /\ row.request = reservation[i].request /\ row.model = reservation[i].model
    BY RowUpdate DEF AccountingInv, TypeOK
  <2>2. /\ paper \in ReceiptRows /\ paper.status = "uncertain"
        /\ paper.known = receipt[i].known /\ paper.tokens = receipt[i].tokens
    BY DEF ReceiptRows, AccountingInv, TypeOK
  <2>3. /\ reservation' = [reservation EXCEPT ![i] = row]
        /\ receipt' = [receipt EXCEPT ![i] = paper]
    BY <1>2 DEF Doubt
  <2> HIDE DEF row, paper
  <2>4. reservation'[i] = row /\ receipt'[i] = paper
    BY <2>3 DEF AccountingInv, TypeOK
  <2>5. Sound(i) /\ Live(i) /\ Original(i)
    BY <1>2 DEF AccountingInv, Doubted, Original
  <2>6. /\ reservation[i].status \notin {"none", "deleted"}
        /\ receipt[i].status # "not_dispatched"
    BY <2>5 DEF Live, Sound
  <2>7. Sound(i)'
    BY <2>1, <2>2, <2>4, <2>5, <2>6 DEF Sound
  <2> QED BY <2>1, <2>2, <2>3, <2>5, <2>7, EndStep
<1> QED BY <1>1, <1>2

LEMMA FailDispatchedStep ==
  ASSUME AccountingInv, NEW p \in Processes, NEW exhausted \in BOOLEAN,
         FailDispatched(p, exhausted)
  PROVE  AccountingInv'
<1>0. PICK i \in Reservations : i = call[p].reservation
  BY DEF FailDispatched, AccountingInv, TypeOK
<1>1. /\ Ends(p) \/ Retries(p)
      /\ Doubt(i) /\ provider' = provider
      /\ Blocks(reservation[i].model, exhausted /\ Doubted(i))
  BY <1>0 DEF FailDispatched
<1>2. Doubted(i) => reservation[i].model \in Models
  <2>1. Sound(i) BY DEF AccountingInv
  <2> QED BY <2>1 DEF Doubted, Live, Sound
<1>3. blocked' \subseteq Models
  BY <1>1, <1>2 DEF Blocks, AccountingInv, TypeOK
<1> QED BY <1>1, <1>3, DoubtStep

LEMMA SettleStep ==
  ASSUME AccountingInv, NEW p \in Processes, Ends(p), NEW i \in Reservations,
         NEW report, report.tokens \in Nat, report.measured \in BOOLEAN,
         report.measured => report.tokens = provider[i].charge,
         Live(i), provider[i].runs = 1, provider' = provider,
         blocked' \subseteq Models, NEW priced \in BOOLEAN,
         NEW s \in {"uncertain", "deleted"}, NEW t \in Nat,
         NEW outcome \in {"policy_violation", "completed", "usage_unknown"},
         s = "deleted" =>
            report.measured /\ outcome \in {"policy_violation", "completed"},
         reservation' = [reservation EXCEPT
           ![i] = [reservation[i] EXCEPT !.status = s, !.tokens = t]],
         receipt' = [receipt EXCEPT ![i] =
           [status |-> outcome, tokens |-> report.tokens,
            known |-> report.measured, priced |-> priced, unsure |-> FALSE]]
  PROVE  AccountingInv'
<1> DEFINE row == [reservation[i] EXCEPT !.status = s, !.tokens = t]
           paper == [status |-> outcome, tokens |-> report.tokens,
                     known |-> report.measured, priced |-> priced, unsure |-> FALSE]
<1>1. /\ row \in ReservationRows /\ row.status = s
      /\ row.request = reservation[i].request /\ row.model = reservation[i].model
  <2>1. PICK x \in ReservationRows : x = reservation[i]
    BY DEF AccountingInv, TypeOK
  <2>2. [x EXCEPT !.status = s, !.tokens = t] \in ReservationRows
    BY DEF ReservationRows
  <2>3. [x EXCEPT !.status = s, !.tokens = t].status = s BY DEF ReservationRows
  <2>4. /\ [x EXCEPT !.status = s, !.tokens = t].request = x.request
        /\ [x EXCEPT !.status = s, !.tokens = t].model = x.model
    OBVIOUS
  <2> QED BY <2>1, <2>2, <2>3, <2>4
<1>2. /\ paper \in ReceiptRows /\ paper.status = outcome
      /\ paper.tokens = report.tokens /\ paper.known = report.measured
  BY DEF ReceiptRows
<1>3. /\ reservation' = [reservation EXCEPT ![i] = row]
      /\ receipt' = [receipt EXCEPT ![i] = paper]
  OBVIOUS
<1> HIDE DEF row, paper
<1>4. reservation'[i] = row /\ receipt'[i] = paper
  BY <1>3 DEF AccountingInv, TypeOK
<1>5. Sound(i) /\ Original(i) BY DEF AccountingInv, Original
<1>6. Sound(i)' BY <1>1, <1>2, <1>4, <1>5 DEF Sound, Live
<1> QED BY <1>1, <1>2, <1>3, <1>5, <1>6, EndStep

LEMMA WriteStep ==
  ASSUME AccountingAssumption, AccountingInv, NEW p \in Processes, Ends(p),
         NEW i \in Reservations, NEW report \in Reports, NEW priced \in BOOLEAN,
         Write(i, report, priced), Live(i), provider' = provider,
         provider[i].runs = 1, provider[i].charge = report.charge
  PROVE  AccountingInv'
<1> DEFINE done == report.measured /\ priced
           left == IF done THEN 0 ELSE Kept(report)
           weights == [Weights EXCEPT ![i] =
                         left + IF report.measured THEN report.tokens ELSE 0]
           over == \/ report.over
                   \/ report.tokens > RequestTokens
                   \/ Overdrawn(weights, i)
           status == IF done THEN "deleted" ELSE "uncertain"
           tokens == IF done THEN reservation[i].tokens ELSE left
           outcome == IF over THEN "policy_violation"
                      ELSE IF done THEN "completed" ELSE "usage_unknown"
<1>1. /\ reservation' = [reservation EXCEPT
           ![i] = [reservation[i] EXCEPT !.status = status, !.tokens = tokens]]
      /\ receipt' = [receipt EXCEPT ![i] =
           [status |-> outcome, tokens |-> report.tokens,
            known |-> report.measured, priced |-> priced, unsure |-> FALSE]]
      /\ Blocks(reservation[i].model, over)
  BY DEF Write
<1>2. /\ report.charge \in Nat /\ report.tokens \in Nat
      /\ report.measured \in BOOLEAN
      /\ report.measured => report.tokens = report.charge
  BY DEF AccountingAssumption
<1>3. tokens \in Nat
  <2>1. reservation[i].tokens \in Nat /\ Estimate \in Nat
    BY DEF AccountingInv, TypeOK, ReservationRows, AccountingAssumption
  <2>2. left \in Nat BY <1>2, <2>1 DEF Kept, Bigger
  <2> QED BY <2>1, <2>2
<1>4. /\ status \in {"uncertain", "deleted"}
      /\ outcome \in {"policy_violation", "completed", "usage_unknown"}
      /\ status = "deleted" =>
            report.measured /\ outcome \in {"policy_violation", "completed"}
  OBVIOUS
<1>5. reservation[i].model \in Models
  <2>1. Sound(i) BY DEF AccountingInv
  <2> QED BY <2>1 DEF Live, Sound
<1>6. blocked' \subseteq Models
  BY <1>1, <1>5 DEF Blocks, AccountingInv, TypeOK
<1> HIDE DEF status, tokens, outcome
<1> QED BY <1>1, <1>2, <1>3, <1>4, <1>6, SettleStep

LEMMA CommitStep ==
  ASSUME AccountingAssumption, AccountingInv, NEW p \in Processes,
         NEW report \in Reports, NEW priced \in BOOLEAN, Commit(p, report, priced)
  PROVE  AccountingInv'
<1>0. PICK i \in Reservations : i = call[p].reservation
  BY DEF Commit, AccountingInv, TypeOK
<1>1. Ends(p) /\ provider' = provider /\ report \in Answers(p) BY DEF Commit
<1>2. CASE Doubt(i) /\ UNCHANGED blocked
  BY <1>1, <1>2, DoubtStep DEF AccountingInv, TypeOK
<1>3. CASE Live(i) /\ Write(i, report, priced)
  <2>1. provider[i].runs = 1 /\ provider[i].charge = report.charge
    BY <1>0, <1>1, <1>3, AnswerIsOwn, AnswerIsReport
  <2> QED BY <1>1, <1>3, <2>1, WriteStep
<1>4. CASE UNCHANGED <<reservation, receipt, blocked>>
  BY <1>1, <1>4, EndUnchanged DEF AccountingInv, TypeOK
<1> QED BY <1>0, <1>2, <1>3, <1>4 DEF Commit

LEMMA NextStep ==
  ASSUME AccountingAssumption, AccountingInv, [Next]_vars
  PROVE  AccountingInv'
<1>1. CASE UNCHANGED vars
  BY <1>1 DEF vars, AccountingInv, TypeOK, Sole, Sound, Original, Live
<1>2. CASE Next
  <2>1. ASSUME NEW p \in Processes, NEW r \in Requests, NEW m \in Models,
               NEW n \in Attempts, NEW i \in Reservations,
               \/ \E mode \in Modes : Reserve(p, r, mode, m, n, i)
               \/ Replay(p, r, m, n, i)
        PROVE  AccountingInv'
    BY <2>1, ReserveStep, ReplayStep
  <2>2. ASSUME NEW p \in Processes,
               Refuse(p) \/ Submit(p) \/ Reconcile(p) \/ Die(p)
        PROVE  AccountingInv'
    BY <2>2, RefuseStep, SubmitStep, ReconcileStep
  <2>3. ASSUME NEW p \in Processes, NEW exhausted \in BOOLEAN,
               FailUndispatched(p, exhausted) \/ FailDispatched(p, exhausted)
        PROVE  AccountingInv'
    BY <2>3, FailUndispatchedStep, FailDispatchedStep
  <2>4. ASSUME NEW p \in Processes, NEW report \in Reports, NEW priced \in BOOLEAN,
               Commit(p, report, priced)
        PROVE  AccountingInv'
    BY <2>4, CommitStep
  <2>5. ASSUME NEW i \in Reservations, NEW report \in Reports, Run(i, report)
        PROVE  AccountingInv'
    BY <2>5, RunStep
  <2> QED BY <1>2, <2>1, <2>2, <2>3, <2>4, <2>5 DEF Next
<1> QED BY <1>1, <1>2

LEMMA Inductive == ASSUME AccountingAssumption PROVE Spec => []AccountingInv
<1>1. Init => AccountingInv BY InitSound
<1>2. AccountingInv /\ [Next]_vars => AccountingInv' BY NextStep
<1> QED BY <1>1, <1>2, PTL DEF Spec

-----------------------------------------------------------------------------
\* The state of ledger, calls and provider is well-formed.
THEOREM TypeCorrect == ASSUME AccountingAssumption PROVE Spec => []TypeOK
<1>1. AccountingInv => TypeOK BY DEF AccountingInv
<1> QED BY <1>1, Inductive, PTL

\* Retries, concurrent callers, lost answers, crashes and reconciliations of a
\* request send it to a provider once.
THEOREM RequestsAreBilledOnce ==
  ASSUME AccountingAssumption PROVE Spec => []BilledOnce
<1>1. ASSUME AccountingInv PROVE BilledOnce
  <2> SUFFICES ASSUME NEW i \in Reservations, NEW j \in Reservations
               PROVE  /\ /\ Reached(i) /\ Reached(j)
                         /\ reservation[i].request = reservation[j].request
                         => i = j
                      /\ provider[i].asked => provider[i].runs = 0
                      /\ provider[i].runs <= 1
    BY DEF BilledOnce
  <2>1. Sound(i) BY <1>1 DEF AccountingInv
  <2>2. Reached(i) => Original(i) BY <1>1, ReachedIsOriginal
  <2>3. Reached(j) => Original(j) BY <1>1, ReachedIsOriginal
  <2>4. Original(i) /\ Original(j) /\ reservation[i].request = reservation[j].request
           => i = j
    BY <1>1 DEF AccountingInv, Sole
  <2> QED BY <2>1, <2>2, <2>3, <2>4 DEF Sound
<1> QED BY <1>1, Inductive, PTL

\* Usage that the ledger calls known is what the provider charged.
THEOREM KnownUsageIsTrue ==
  ASSUME AccountingAssumption PROVE Spec => []UsageIsTrue
<1>1. ASSUME AccountingInv PROVE UsageIsTrue
  <2> SUFFICES ASSUME NEW r \in Requests, UsageKnown(r)
               PROVE  Usage(r) = Charged(r)
    BY DEF UsageIsTrue
  <2>1. ASSUME NEW i \in Reservations, reservation[i].request = r
        PROVE  receipt[i].tokens = provider[i].charge
    <3>1. Sound(i) BY <1>1 DEF AccountingInv
    <3>2. reservation[i].status # "none"
      BY <2>1, <3>1 DEF Sound, NoReservation, AccountingAssumption
    <3>3. ~Live(i) /\ (receipt[i].status # "none" => receipt[i].known)
      BY <2>1 DEF UsageKnown
    <3>4. reservation[i].status = "deleted"
      BY <1>1, <3>2, <3>3 DEF Live, AccountingInv, TypeOK, ReservationRows
    <3> QED BY <3>1, <3>4 DEF Sound, Untouched
  <2>2. [i \in Reservations |->
           IF reservation[i].request = r THEN receipt[i].tokens ELSE 0]
        = [i \in Reservations |->
             IF reservation[i].request = r THEN provider[i].charge ELSE 0]
    BY <2>1
  <2> QED BY <2>2 DEF Usage, Charged
<1> QED BY <1>1, Inductive, PTL

\* Settled usage stays, and its request is not charged again.
THEOREM SettledUsageStays ==
  ASSUME AccountingAssumption PROVE Spec => SettledStays
<1> DEFINE Stays(i) ==
      /\ receipt'[i] = receipt[i] /\ reservation'[i] = reservation[i]
      /\ \A j \in Reservations :
            reservation'[j].request = reservation[i].request =>
               provider'[j].charge = provider[j].charge
<1>1. ASSUME AccountingInv, [Next]_vars, NEW i \in Reservations,
             Settled(i) /\ ~Live(i)
      PROVE  Stays(i)
  <2>1. Sound(i) /\ Original(i) BY <1>1 DEF AccountingInv, Original, Settled
  <2>2. /\ reservation[i].status = "deleted" /\ reservation[i] # NoReservation
        /\ provider[i].runs = 1 /\ ~provider[i].asked
    <3>1. reservation[i].status \in {"none", "deleted"}
      BY <1>1 DEF Live, AccountingInv, TypeOK, ReservationRows
    <3> QED BY <1>1, <2>1, <3>1 DEF Sound, Settled, NoReceipt, NoReservation
  <2>3. CASE UNCHANGED vars BY <2>3 DEF vars
  <2>4. ASSUME NEW p \in Processes, NEW r \in Requests, NEW mode \in Modes,
               NEW m \in Models, NEW n \in Attempts, NEW j \in Reservations,
               Reserve(p, r, mode, m, n, j)
        PROVE  Stays(i)
    BY <2>2, <2>4 DEF Reserve, AccountingInv, TypeOK
  <2>5. CASE UNCHANGED <<reservation, receipt, provider>> BY <2>5
  <2>6. ASSUME NEW p \in Processes, Submit(p) PROVE Stays(i)
    <3>1. /\ call[p].reservation \in Reservations
          /\ reservation[call[p].reservation].status = "reserved"
      BY <1>1, <2>6 DEF Submit, AccountingInv, TypeOK
    <3>2. reservation'[i] = reservation[i] /\ receipt'[i] = receipt[i]
      BY <1>1, <2>2, <2>6, <3>1 DEF Submit, AccountingInv, TypeOK
    <3>3. \A j \in Reservations : provider'[j].charge = provider[j].charge
      BY <1>1, <2>6, <3>1 DEF Submit, AccountingInv, TypeOK, Contacts
    <3> QED BY <3>2, <3>3
  <2>7. ASSUME NEW p \in Processes, NEW exhausted \in BOOLEAN,
               FailUndispatched(p, exhausted)
        PROVE  Stays(i)
    BY <1>1, <2>2, <2>7 DEF FailUndispatched, AccountingInv, TypeOK
  <2>8. ASSUME NEW p \in Processes, NEW j \in Reservations, Doubt(j),
               provider' = provider
        PROVE  Stays(i)
    BY <1>1, <2>8 DEF Doubt, Doubted, AccountingInv, TypeOK
  <2>9. ASSUME NEW p \in Processes, NEW exhausted \in BOOLEAN,
               FailDispatched(p, exhausted)
        PROVE  Stays(i)
    BY <1>1, <2>8, <2>9 DEF FailDispatched, AccountingInv, TypeOK
  <2>10. ASSUME NEW p \in Processes, NEW report \in Reports, NEW priced \in BOOLEAN,
                Commit(p, report, priced)
         PROVE  Stays(i)
    <3>0. PICK j \in Reservations : j = call[p].reservation
      BY <1>1, <2>10 DEF Commit, AccountingInv, TypeOK
    <3>1. CASE Doubt(j) BY <2>8, <2>10, <3>1 DEF Commit
    <3>2. CASE Live(j) /\ Write(j, report, priced)
      <4>1. i # j BY <1>1, <3>2
      <4>2. provider' = provider BY <2>10 DEF Commit
      <4> QED BY <1>1, <3>2, <4>1, <4>2 DEF Write, AccountingInv, TypeOK
    <3>3. CASE UNCHANGED <<reservation, receipt, blocked>>
      BY <2>10, <3>3 DEF Commit
    <3> QED BY <2>10, <3>0, <3>1, <3>2, <3>3 DEF Commit
  <2>11. ASSUME NEW k \in Reservations, NEW report \in Reports, Run(k, report)
         PROVE  Stays(i)
    <3>1. Original(k)
      BY <1>1, <2>11, ReachedIsOriginal DEF Run, Reached
    <3>2. reservation[k].request # reservation[i].request
      BY <1>1, <2>1, <2>2, <2>11, <3>1 DEF AccountingInv, Sole, Run
    <3>3. \A j \in Reservations \ {k} : provider'[j] = provider[j]
      BY <1>1, <2>11 DEF Run, AccountingInv, TypeOK
    <3> QED BY <2>11, <3>2, <3>3 DEF Run
  <2>12. ASSUME NEW p \in Processes, NEW r \in Requests, NEW m \in Models,
                NEW n \in Attempts, NEW j \in Reservations, Replay(p, r, m, n, j)
         PROVE  Stays(i)
    BY <2>5, <2>12 DEF Replay
  <2>13. ASSUME NEW p \in Processes, Refuse(p) \/ Reconcile(p) \/ Die(p)
         PROVE  Stays(i)
    BY <2>5, <2>13 DEF Refuse, Reconcile, Die
  <2> HIDE DEF Stays
  <2>14. CASE Next
    BY <2>4, <2>6, <2>7, <2>9, <2>10, <2>11, <2>12, <2>13, <2>14 DEF Next
  <2> QED BY <1>1, <2>3, <2>14
<1>2. AccountingInv /\ [Next]_vars =>
        [\A i \in Reservations : Settled(i) /\ ~Live(i) => Stays(i)]_vars
  BY <1>1
<1> QED BY <1>2, Inductive, PTL DEF Spec, SettledStays

-----------------------------------------------------------------------------
(* Totals. *)

\* The element that a sum takes off a set, and what is then left of the set.
First(s) == CHOOSE x \in s : TRUE
Rest(s) == s \ {First(s)}

\* t has the sums of f over the subsets of S.
Sums(t, f, S) ==
  /\ t \in [SUBSET S -> Nat]
  /\ t[{}] = 0
  /\ \A s \in SUBSET S : s # {} => t[s] = f[First(s)] + t[Rest(s)]

LEMMA Smallest ==
  ASSUME NEW S, IsFiniteSet(S), NEW T, T \subseteq SUBSET S, T # {}
  PROVE  \E s \in T : \A u \in T : u \subseteq s => u = s
<1>1. FiniteSubsetsOf(S) = SUBSET S BY FS_FiniteSubsetsOfFinite
<1>2. IsWellFoundedOn(StrictSubsetOrdering(S), SUBSET S)
  BY <1>1, FS_StrictSubsetOrderingWellFounded
<1>3. \E s \in T : \A u \in T : ~(<<u, s>> \in StrictSubsetOrdering(S))
  BY <1>2, WFMin
<1> QED BY <1>3 DEF StrictSubsetOrdering

LEMMA RestIs ==
  ASSUME NEW S, NEW s \in SUBSET S, s # {}
  PROVE  First(s) \in s /\ First(s) \in S /\ Rest(s) \in SUBSET S
         /\ Rest(s) \subseteq s /\ Rest(s) # s
  BY DEF First, Rest

LEMMA SumsAreUnique ==
  ASSUME NEW S, IsFiniteSet(S), NEW A \in SUBSET S, NEW B \in SUBSET S,
         NEW f, NEW t, NEW u, Sums(t, f, A), Sums(u, f, B),
         NEW s \in SUBSET (A \cap B)
  PROVE  t[s] = u[s]
<1> DEFINE D == {x \in SUBSET (A \cap B) : t[x] # u[x]}
<1>1. SUFFICES ASSUME D # {} PROVE FALSE OBVIOUS
<1>2. PICK x \in D : \A y \in D : y \subseteq x => y = x
  <2>1. D \subseteq SUBSET S OBVIOUS
  <2> HIDE DEF D
  <2> QED BY <1>1, <2>1, Smallest
<1>3. x # {} BY DEF Sums
<1>4. Rest(x) \in SUBSET (A \cap B) /\ Rest(x) \subseteq x /\ Rest(x) # x
  BY <1>3, RestIs
<1>5. t[Rest(x)] = u[Rest(x)] BY <1>2, <1>4
<1> QED BY <1>2, <1>3, <1>5 DEF Sums

LEMMA SumsExist ==
  ASSUME NEW S, IsFiniteSet(S), NEW f \in [S -> Nat]
  PROVE  \E t : Sums(t, f, S)
<1> DEFINE Bad == {A \in SUBSET S : ~\E t : Sums(t, f, A)}
<1>1. SUFFICES ASSUME Bad # {} PROVE FALSE OBVIOUS
<1>2. PICK A \in Bad : \A B \in Bad : B \subseteq A => B = A
  <2>1. Bad \subseteq SUBSET S OBVIOUS
  <2> HIDE DEF Bad
  <2> QED BY <1>1, <2>1, Smallest
<1> DEFINE Of(s) == CHOOSE t : Sums(t, f, s)
           t == [s \in SUBSET A |-> IF s = {} THEN 0
                                    ELSE f[First(s)] + Of(Rest(s))[Rest(s)]]
<1>3. ASSUME NEW s \in SUBSET A, s # A PROVE Sums(Of(s), f, s)
  <2>1. \E r : Sums(r, f, s) BY <1>2, <1>3
  <2> QED BY <2>1
<1>4. ASSUME NEW s \in SUBSET A, s # {}
      PROVE  /\ First(s) \in S /\ f[First(s)] \in Nat /\ Rest(s) \in SUBSET A
             /\ Sums(Of(Rest(s)), f, Rest(s)) /\ Of(Rest(s))[Rest(s)] \in Nat
             /\ t[s] = f[First(s)] + Of(Rest(s))[Rest(s)]
  <2>1. /\ First(s) \in A /\ A \subseteq S /\ Rest(s) \in SUBSET A
        /\ Rest(s) # s /\ Rest(s) \subseteq s
    <3> HIDE DEF t, Of
    <3> QED BY <1>4, RestIs
  <2>2. Sums(Of(Rest(s)), f, Rest(s)) BY <1>3, <2>1
  <2> HIDE DEF Of
  <2>3. Of(Rest(s))[Rest(s)] \in Nat BY <2>2 DEF Sums
  <2> QED BY <1>4, <2>1, <2>2, <2>3
<1> HIDE DEF Of
<1>5. t \in [SUBSET A -> Nat] /\ t[{}] = 0
  <2>1. ASSUME NEW s \in SUBSET A, s # {}
        PROVE  f[First(s)] + Of(Rest(s))[Rest(s)] \in Nat
    <3>1. f[First(s)] \in Nat /\ Of(Rest(s))[Rest(s)] \in Nat
      <4> HIDE DEF t
      <4> QED BY <1>4, <2>1
    <3> QED BY <3>1
  <2>2. t \in [SUBSET A -> Nat] BY <2>1
  <2>3. {} \in SUBSET A OBVIOUS
  <2> QED BY <2>2, <2>3
<1>6. ASSUME NEW s \in SUBSET A, s # {} PROVE t[s] = f[First(s)] + t[Rest(s)]
  <2> DEFINE r == Rest(s)
  <2>1. r \in SUBSET A /\ Sums(Of(r), f, r) /\ t[s] = f[First(s)] + Of(r)[r]
    BY <1>4, <1>6
  <2>2. t[r] = Of(r)[r]
    <3>1. CASE r = {} BY <1>5, <2>1, <3>1 DEF Sums
    <3>2. CASE r # {}
      <4>1. /\ Rest(r) \in SUBSET A /\ Sums(Of(Rest(r)), f, Rest(r))
            /\ t[r] = f[First(r)] + Of(Rest(r))[Rest(r)]
        BY <1>4, <2>1, <3>2
      <4>2. Of(r)[r] = f[First(r)] + Of(r)[Rest(r)] BY <2>1, <3>2 DEF Sums
      <4>3. Rest(r) \in SUBSET (r \cap Rest(r)) BY DEF Rest
      <4>4. Of(r)[Rest(r)] = Of(Rest(r))[Rest(r)]
        <5>1. r \in SUBSET S /\ Rest(r) \in SUBSET S BY <2>1, <4>1
        <5> HIDE DEF r
        <5> QED BY <2>1, <4>1, <4>3, <5>1, SumsAreUnique
      <4> QED BY <4>1, <4>2, <4>4
    <3> QED BY <3>1, <3>2
  <2> QED BY <2>1, <2>2
<1> HIDE DEF t
<1>7. Sums(t, f, A) BY <1>5, <1>6 DEF Sums
<1> QED BY <1>2, <1>7

\* The total of f is the last of its sums.
LEMMA TotalIs ==
  ASSUME NEW S, IsFiniteSet(S), NEW f \in [S -> Nat]
  PROVE  \E t : Sums(t, f, S) /\ Total(f) = t[S]
<1> DEFINE Is(t) == t = [s \in SUBSET S |-> IF s = {} THEN 0
                                             ELSE f[First(s)] + t[Rest(s)]]
           sum == CHOOSE t : Is(t)
<1>1. PICK t : Sums(t, f, S) BY SumsExist
<1>2. Is(t)
  <2>1. \A s \in SUBSET S : t[s] = IF s = {} THEN 0 ELSE f[First(s)] + t[Rest(s)]
    BY <1>1 DEF Sums
  <2>2. t \in [SUBSET S -> Nat] BY <1>1 DEF Sums
  <2> QED BY <2>1, <2>2
<1>3. Is(sum) BY <1>2
<1>4. Total(f) = sum[S]
  BY DEF Total, FoldFunction, FoldFunctionOnSet, MapThenFoldSet, First, Rest
<1> HIDE DEF sum
<1>5. Sums(sum, f, S)
  <2>1. \A s \in SUBSET S : sum[s] = IF s = {} THEN 0 ELSE f[First(s)] + sum[Rest(s)]
    BY <1>3
  <2>2. \A s \in SUBSET S : sum[s] \in Nat
    <3> DEFINE D == {x \in SUBSET S : sum[x] \notin Nat}
    <3>1. SUFFICES ASSUME D # {} PROVE FALSE OBVIOUS
    <3>2. PICK x \in D : \A y \in D : y \subseteq x => y = x
      <4>1. D \subseteq SUBSET S OBVIOUS
      <4> HIDE DEF D
      <4> QED BY <3>1, <4>1, Smallest
    <3>3. x # {} BY <2>1
    <3>4. First(x) \in S /\ Rest(x) \in SUBSET S /\ Rest(x) \subseteq x /\ Rest(x) # x
      BY <3>3, RestIs
    <3>5. sum[Rest(x)] \in Nat BY <3>2, <3>4
    <3> QED BY <2>1, <3>2, <3>3, <3>4, <3>5
  <2>3. sum \in [SUBSET S -> Nat] BY <1>3, <2>2
  <2> QED BY <2>1, <2>3 DEF Sums
<1> QED BY <1>4, <1>5

LEMMA TotalOfNothing ==
  ASSUME NEW S, IsFiniteSet(S), NEW z, z = [i \in S |-> 0] PROVE Total(z) = 0
<1>1. z \in [S -> Nat] OBVIOUS
<1>2. PICK t : Sums(t, z, S) /\ Total(z) = t[S] BY <1>1, TotalIs
<1> DEFINE D == {x \in SUBSET S : t[x] # 0}
<1>3. ASSUME D # {} PROVE FALSE
  <2>1. PICK x \in D : \A y \in D : y \subseteq x => y = x
    <3>1. D \subseteq SUBSET S OBVIOUS
    <3> HIDE DEF D
    <3> QED BY <1>3, <3>1, Smallest
  <2>2. x # {}
    <3>1. {} \notin D BY <1>2 DEF Sums
    <3> HIDE DEF D
    <3> QED BY <3>1
  <2>3. First(x) \in S /\ Rest(x) \in SUBSET S /\ Rest(x) \subseteq x /\ Rest(x) # x
    BY <2>2, RestIs
  <2>4. t[Rest(x)] = 0 BY <2>1, <2>3
  <2>5. t[x] = z[First(x)] + t[Rest(x)] BY <1>2, <2>2 DEF Sums
  <2> QED BY <2>1, <2>3, <2>4, <2>5
<1> QED BY <1>2, <1>3

\* A function that is nowhere greater has no greater total.
LEMMA TotalIsMonotonic ==
  ASSUME NEW S, IsFiniteSet(S), NEW f \in [S -> Nat], NEW g \in [S -> Nat],
         \A i \in S : f[i] <= g[i]
  PROVE  Total(f) \in Nat /\ Total(g) \in Nat /\ Total(f) <= Total(g)
<1>1. PICK t : Sums(t, f, S) /\ Total(f) = t[S] BY TotalIs
<1>2. PICK u : Sums(u, g, S) /\ Total(g) = u[S] BY TotalIs
<1>3. \A s \in SUBSET S : t[s] \in Nat /\ u[s] \in Nat BY <1>1, <1>2 DEF Sums
<1> DEFINE D == {x \in SUBSET S : ~(t[x] <= u[x])}
<1>4. ASSUME D # {} PROVE FALSE
  <2>2. PICK x \in D : \A y \in D : y \subseteq x => y = x
    <3>1. D \subseteq SUBSET S OBVIOUS
    <3> HIDE DEF D
    <3> QED BY <1>4, <3>1, Smallest
  <2>3. x # {}
    <3>1. t[{}] = 0 /\ u[{}] = 0 BY <1>1, <1>2 DEF Sums
    <3>2. {} \notin D BY <3>1
    <3> HIDE DEF D
    <3> QED BY <3>2
  <2>4. First(x) \in S /\ Rest(x) \in SUBSET S /\ Rest(x) \subseteq x /\ Rest(x) # x
    BY <2>3, RestIs
  <2>5. t[Rest(x)] <= u[Rest(x)] BY <2>2, <2>4
  <2>6. t[x] = f[First(x)] + t[Rest(x)] /\ u[x] = g[First(x)] + u[Rest(x)]
    BY <1>1, <1>2, <2>3 DEF Sums
  <2> QED BY <1>3, <2>2, <2>4, <2>5, <2>6
<1> QED BY <1>1, <1>2, <1>3, <1>4

\* A function that is greater in one place has a total that is as much greater.
LEMMA TotalAdds ==
  ASSUME NEW S, IsFiniteSet(S), NEW f \in [S -> Nat], NEW g \in [S -> Nat],
         NEW i \in S, NEW d \in Nat, g[i] = f[i] + d,
         \A j \in S \ {i} : g[j] = f[j]
  PROVE  Total(f) \in Nat /\ Total(g) = Total(f) + d
<1>1. PICK t : Sums(t, f, S) /\ Total(f) = t[S] BY TotalIs
<1>2. PICK u : Sums(u, g, S) /\ Total(g) = u[S] BY TotalIs
<1>3. \A s \in SUBSET S : t[s] \in Nat /\ u[s] \in Nat BY <1>1, <1>2 DEF Sums
<1> DEFINE more(s) == IF i \in s THEN d ELSE 0
           D == {x \in SUBSET S : u[x] # t[x] + more(x)}
<1>4. ASSUME D # {} PROVE FALSE
  <2>2. PICK x \in D : \A y \in D : y \subseteq x => y = x
    <3>1. D \subseteq SUBSET S OBVIOUS
    <3> HIDE DEF D
    <3> QED BY <1>4, <3>1, Smallest
  <2>3. x # {}
    <3>1. t[{}] = 0 /\ u[{}] = 0 BY <1>1, <1>2 DEF Sums
    <3>2. more({}) = 0 OBVIOUS
    <3>3. {} \notin D BY <3>1, <3>2
    <3> HIDE DEF D
    <3> QED BY <3>3
  <2>4. /\ First(x) \in S /\ First(x) \in x
        /\ Rest(x) \in SUBSET S /\ Rest(x) \subseteq x /\ Rest(x) # x
    BY <2>3, RestIs
  <2>5. u[Rest(x)] = t[Rest(x)] + more(Rest(x)) BY <2>2, <2>4
  <2>6. t[x] = f[First(x)] + t[Rest(x)] /\ u[x] = g[First(x)] + u[Rest(x)]
    BY <1>1, <1>2, <2>3 DEF Sums
  <2>7. CASE First(x) = i
    <3>1. more(x) = d /\ more(Rest(x)) = 0 BY <2>4, <2>7 DEF Rest
    <3> QED BY <1>3, <2>2, <2>4, <2>5, <2>6, <2>7, <3>1
  <2>8. CASE First(x) # i
    <3>1. more(x) = more(Rest(x)) /\ more(x) \in Nat BY <2>8 DEF Rest
    <3> QED BY <1>3, <2>2, <2>4, <2>5, <2>6, <2>8, <3>1
  <2> QED BY <2>7, <2>8
<1>5. more(S) = d BY DEF more
<1> QED BY <1>1, <1>2, <1>3, <1>4, <1>5

-----------------------------------------------------------------------------
(* The budget.  A reservation stands for at most the estimate: no more than that *)
(* is counted of an unmeasured report that is larger.  Only an admission makes a *)
(* reservation stand for more than before, and it looks at the total first.      *)

Open(row) == row.status \in {"reserved", "dispatched", "uncertain"}

Weight(row, paper) ==
  (IF paper.known THEN paper.tokens ELSE 0) + (IF Open(row) THEN row.tokens ELSE 0)

Cap(row, paper) == IF Weight(row, paper) > Estimate THEN Estimate ELSE Weight(row, paper)

\* The estimate of a call whose usage is not known is kept.
Covered(row, paper) == Open(row) /\ ~paper.known => row.tokens >= Estimate

Caps == [i \in Reservations |-> Cap(reservation[i], receipt[i])]
RetryCaps == [i \in Reservations |-> IF reservation[i].attempt > 1
                                     THEN Cap(reservation[i], receipt[i]) ELSE 0]

Budgeted ==
  /\ \A i \in Reservations : Covered(reservation[i], receipt[i])
  /\ Total(Caps) <= DailyTokens
  /\ Total(RetryCaps) <= RetryTokens

BudgetInv == AccountingInv /\ Budgeted

LEMMA CapIs ==
  ASSUME AccountingAssumption, NEW row \in ReservationRows, NEW paper \in ReceiptRows
  PROVE  /\ Weight(row, paper) \in Nat /\ Cap(row, paper) \in Nat
         /\ Cap(row, paper) <= Weight(row, paper) /\ Cap(row, paper) <= Estimate
         /\ Weight(row, paper) >= Estimate => Cap(row, paper) = Estimate
<1>1. paper.tokens \in Nat /\ row.tokens \in Nat /\ Estimate \in Nat
  BY DEF AccountingAssumption, ReservationRows, ReceiptRows
<1>2. Weight(row, paper) \in Nat BY <1>1 DEF Weight
<1> QED BY <1>1, <1>2 DEF Cap

LEMMA CapGrowsWithWeight ==
  ASSUME AccountingAssumption,
         NEW row \in ReservationRows, NEW paper \in ReceiptRows,
         NEW row2 \in ReservationRows, NEW paper2 \in ReceiptRows,
         Weight(row2, paper2) <= Weight(row, paper)
  PROVE  Cap(row2, paper2) <= Cap(row, paper)
<1>1. /\ Weight(row, paper) \in Nat /\ Weight(row2, paper2) \in Nat
      /\ Estimate \in Nat
  BY CapIs DEF AccountingAssumption
<1> QED BY <1>1 DEF Cap

\* What the caps of a typed ledger are.
LEMMA CapsAre ==
  ASSUME AccountingAssumption, TypeOK
  PROVE  /\ Caps \in [Reservations -> Nat] /\ RetryCaps \in [Reservations -> Nat]
         /\ Weights \in [Reservations -> Nat]
         /\ \A i \in Reservations :
              /\ Weights[i] = Weight(reservation[i], receipt[i])
              /\ Caps[i] <= Weights[i]
              /\ RetryCaps[i] = IF reservation[i].attempt > 1 THEN Caps[i] ELSE 0
<1>1. ASSUME NEW i \in Reservations
      PROVE  /\ Cap(reservation[i], receipt[i]) \in Nat
             /\ Weight(reservation[i], receipt[i]) \in Nat
             /\ Cap(reservation[i], receipt[i]) <= Weight(reservation[i], receipt[i])
  <2>1. reservation[i] \in ReservationRows /\ receipt[i] \in ReceiptRows BY DEF TypeOK
  <2> QED BY <2>1, CapIs
<1>2. Weights = [i \in Reservations |-> Weight(reservation[i], receipt[i])]
  BY DEF Weights, Weight, Live, Open
<1> QED BY <1>1, <1>2 DEF Caps, RetryCaps

\* A reservation stands for no more than it did.
Lighter(i) ==
  /\ Cap(reservation'[i], receipt'[i]) <= Cap(reservation[i], receipt[i])
  /\ reservation'[i].attempt = reservation[i].attempt
  /\ Covered(reservation'[i], receipt'[i])

LEMMA LighterKeeps ==
  ASSUME AccountingAssumption, IsFiniteSet(Reservations), TypeOK, TypeOK', Budgeted,
         \A i \in Reservations : Lighter(i)
  PROVE  Budgeted'
<1> DEFINE f == Caps  g == Caps'  rf == RetryCaps  rg == RetryCaps'
<1>1. f \in [Reservations -> Nat] /\ rf \in [Reservations -> Nat] BY CapsAre
<1>2. g \in [Reservations -> Nat] /\ rg \in [Reservations -> Nat]
  <2>1. \A i \in Reservations : Cap(reservation'[i], receipt'[i]) \in Nat
    BY CapIs DEF TypeOK
  <2> QED BY <2>1 DEF Caps, RetryCaps
<1>3. \A i \in Reservations : g[i] <= f[i] /\ rg[i] <= rf[i]
  BY <1>1 DEF Caps, RetryCaps, Lighter
<1>4. Total(f) \in Nat /\ Total(g) \in Nat /\ Total(g) <= Total(f)
  <2> HIDE DEF f, g
  <2> QED BY <1>1, <1>2, <1>3, TotalIsMonotonic
<1>5. Total(rf) \in Nat /\ Total(rg) \in Nat /\ Total(rg) <= Total(rf)
  <2> HIDE DEF rf, rg
  <2> QED BY <1>1, <1>2, <1>3, TotalIsMonotonic
<1>6. Total(f) <= DailyTokens /\ Total(rf) <= RetryTokens BY DEF Budgeted
<1>7. Total(g) <= DailyTokens /\ Total(rg) <= RetryTokens
  <2> HIDE DEF f, g, rf, rg
  <2> QED BY <1>4, <1>5, <1>6 DEF AccountingAssumption
<1> QED BY <1>7 DEF Budgeted, Lighter

LEMMA SameIsLighter ==
  ASSUME AccountingAssumption, TypeOK, Budgeted, NEW i \in Reservations,
         reservation'[i] = reservation[i], receipt'[i] = receipt[i]
  PROVE  Lighter(i)
<1>1. Cap(reservation[i], receipt[i]) \in Nat BY CapIs DEF TypeOK
<1> QED BY <1>1 DEF Lighter, Budgeted

\* A step that writes one reservation.
LEMMA OneLighter ==
  ASSUME AccountingAssumption, IsFiniteSet(Reservations), TypeOK, TypeOK', Budgeted,
         NEW i \in Reservations, NEW row, NEW paper,
         reservation' = [reservation EXCEPT ![i] = row],
         receipt' = [receipt EXCEPT ![i] = paper],
         Weight(row, paper) <= Weight(reservation[i], receipt[i])
           \/ Weight(reservation[i], receipt[i]) >= Estimate,
         row.attempt = reservation[i].attempt, Covered(row, paper)
  PROVE  Budgeted'
<1>1. reservation'[i] = row /\ receipt'[i] = paper BY DEF TypeOK
<1>2. /\ row \in ReservationRows /\ paper \in ReceiptRows
      /\ reservation[i] \in ReservationRows /\ receipt[i] \in ReceiptRows
  BY <1>1 DEF TypeOK
<1>3. Cap(row, paper) <= Cap(reservation[i], receipt[i])
  <2>1. CASE Weight(row, paper) <= Weight(reservation[i], receipt[i])
    BY <1>2, <2>1, CapGrowsWithWeight
  <2>2. CASE Weight(reservation[i], receipt[i]) >= Estimate
    <3>1. Cap(reservation[i], receipt[i]) = Estimate BY <1>2, <2>2, CapIs
    <3>2. Cap(row, paper) <= Estimate BY <1>2, CapIs
    <3> QED BY <3>1, <3>2
  <2> QED BY <2>1, <2>2
<1>4. Lighter(i) BY <1>1, <1>3 DEF Lighter
<1>5. ASSUME NEW j \in Reservations, j # i PROVE Lighter(j)
  <2>1. reservation'[j] = reservation[j] /\ receipt'[j] = receipt[j]
    BY <1>5 DEF TypeOK
  <2> QED BY <2>1, SameIsLighter
<1> QED BY <1>4, <1>5, LighterKeeps

LEMMA ReserveBudget ==
  ASSUME AccountingAssumption, IsFiniteSet(Reservations), BudgetInv, TypeOK',
         NEW p \in Processes, NEW r \in Requests, NEW mode \in Modes,
         NEW m \in Models, NEW n \in Attempts, NEW i \in Reservations,
         Reserve(p, r, mode, m, n, i)
  PROVE  Budgeted'
<1> DEFINE row == [status |-> "reserved", request |-> r, mode |-> mode, model |-> m,
                   attempt |-> n, tokens |-> Estimate]
           f == Caps  g == Caps'  rf == RetryCaps  rg == RetryCaps'
           rw == [j \in Reservations |-> IF reservation[j].attempt > 1
                                         THEN Weights[j] ELSE 0]
<1>1. TypeOK /\ Budgeted /\ Sound(i) /\ Estimate \in Nat /\ n \in Nat
  BY DEF BudgetInv, AccountingInv, AccountingAssumption, Attempts
<1>2. reservation[i] = NoReservation /\ receipt[i] = NoReceipt
  BY <1>1 DEF Reserve, Sound, NoReservation
<1>3. /\ reservation' = [reservation EXCEPT ![i] = row] /\ receipt' = receipt
      /\ Total(Weights) + Estimate <= DailyTokens
      /\ n > 1 => Total(rw) + Estimate <= RetryTokens
  BY DEF Reserve, Exposure, RetryExposure
<1>4. /\ reservation'[i] = row
      /\ \A j \in Reservations \ {i} : reservation'[j] = reservation[j]
  BY <1>1, <1>3 DEF TypeOK
<1>5. Weight(row, NoReceipt) = Estimate /\ Weight(NoReservation, NoReceipt) = 0
  BY <1>1 DEF Weight, Open, NoReceipt, NoReservation
<1>6. Cap(row, NoReceipt) = Estimate /\ Cap(NoReservation, NoReceipt) = 0
  <2> HIDE DEF row
  <2> QED BY <1>1, <1>5 DEF Cap
<1>7. f \in [Reservations -> Nat] /\ rf \in [Reservations -> Nat]
      /\ Weights \in [Reservations -> Nat]
      /\ \A j \in Reservations : /\ f[j] <= Weights[j]
                                 /\ rf[j] = IF reservation[j].attempt > 1 THEN f[j] ELSE 0
  BY <1>1, CapsAre
<1>8. g \in [Reservations -> Nat] /\ rg \in [Reservations -> Nat]
  <2>1. \A j \in Reservations : Cap(reservation'[j], receipt'[j]) \in Nat
    BY CapIs DEF TypeOK
  <2> QED BY <2>1 DEF Caps, RetryCaps
<1>9. /\ f[i] = 0 /\ g[i] = Estimate /\ \A j \in Reservations \ {i} : g[j] = f[j]
  BY <1>2, <1>3, <1>4, <1>6 DEF Caps
<1>10. /\ rf[i] = 0 /\ rg[i] = IF n > 1 THEN Estimate ELSE 0
       /\ \A j \in Reservations \ {i} : rg[j] = rf[j]
  BY <1>2, <1>3, <1>4, <1>6 DEF RetryCaps
<1> HIDE DEF f, g, rf, rg, rw
<1>11. Total(g) <= DailyTokens
  <2>1. f \in [Reservations -> Nat] /\ g \in [Reservations -> Nat] BY <1>7, <1>8
  <2>2. g[i] = f[i] + Estimate /\ Estimate \in Nat BY <1>1, <1>9
  <2>3. \A j \in Reservations \ {i} : g[j] = f[j] BY <1>9
  <2>4. Total(f) \in Nat /\ Total(g) = Total(f) + Estimate
    BY <2>1, <2>2, <2>3, TotalAdds
  <2>5. Total(Weights) \in Nat /\ Total(f) <= Total(Weights) BY <1>7, TotalIsMonotonic
  <2>6. DailyTokens \in Nat BY DEF AccountingAssumption
  <2> QED BY <1>3, <2>2, <2>4, <2>5, <2>6
<1>12. Total(rg) <= RetryTokens
  <2>1. RetryTokens \in Nat BY DEF AccountingAssumption
  <2>2. CASE n > 1
    <3>1. rg[i] = rf[i] + Estimate BY <1>1, <1>10, <2>2
    <3>2. Total(rf) \in Nat /\ Total(rg) = Total(rf) + Estimate
      BY <1>1, <1>7, <1>8, <1>10, <3>1, TotalAdds
    <3>3. rw \in [Reservations -> Nat] /\ \A j \in Reservations : rf[j] <= rw[j]
      BY <1>7 DEF rw
    <3>4. Total(rw) \in Nat /\ Total(rf) <= Total(rw) BY <1>7, <3>3, TotalIsMonotonic
    <3> QED BY <1>1, <1>3, <2>1, <2>2, <3>2, <3>4
  <2>3. CASE ~(n > 1)
    <3>1. \A j \in Reservations : rg[j] = rf[j] BY <1>10, <2>3
    <3>2. rg = rf BY <1>7, <1>8, <3>1
    <3> QED BY <1>1, <3>2 DEF Budgeted, rf
  <2> QED BY <2>2, <2>3
<1>13. \A j \in Reservations : Covered(reservation'[j], receipt'[j])
  <2>1. Covered(row, NoReceipt) BY <1>1 DEF Covered
  <2> QED BY <1>1, <1>2, <1>3, <1>4, <2>1 DEF Budgeted
<1> QED BY <1>11, <1>12, <1>13 DEF Budgeted, g, rg

LEMMA SubmitBudget ==
  ASSUME AccountingAssumption, IsFiniteSet(Reservations), BudgetInv, TypeOK',
         NEW p \in Processes, Submit(p)
  PROVE  Budgeted'
<1>0. PICK i \in Reservations : i = call[p].reservation
  BY DEF Submit, BudgetInv, AccountingInv, TypeOK
<1> DEFINE row == [reservation[i] EXCEPT !.status = "dispatched"]
<1>1. /\ TypeOK /\ Budgeted /\ reservation[i].status = "reserved"
      /\ reservation' = [reservation EXCEPT ![i] = row] /\ receipt' = receipt
  BY <1>0 DEF Submit, BudgetInv, AccountingInv
<1>2. receipt' = [receipt EXCEPT ![i] = receipt[i]] BY <1>1 DEF TypeOK
<1>3. reservation[i] \in ReservationRows /\ receipt[i] \in ReceiptRows
  BY <1>1 DEF TypeOK
<1>4. /\ row.status = "dispatched" /\ row.tokens = reservation[i].tokens
      /\ row.attempt = reservation[i].attempt
  BY <1>3 DEF ReservationRows
<1> HIDE DEF row
<1>5. Weight(row, receipt[i]) = Weight(reservation[i], receipt[i])
  BY <1>1, <1>4 DEF Weight, Open
<1>6. Weight(reservation[i], receipt[i]) \in Nat BY <1>3, CapIs
<1>7. Covered(row, receipt[i]) BY <1>1, <1>4 DEF Budgeted, Covered, Open
<1>8. Weight(row, receipt[i]) <= Weight(reservation[i], receipt[i]) BY <1>5, <1>6
<1> QED BY <1>1, <1>2, <1>4, <1>7, <1>8, OneLighter

LEMMA SameBudget ==
  ASSUME AccountingAssumption, IsFiniteSet(Reservations), BudgetInv, TypeOK',
         UNCHANGED <<reservation, receipt>>
  PROVE  Budgeted'
<1>1. TypeOK /\ Budgeted BY DEF BudgetInv, AccountingInv
<1> QED BY <1>1, SameIsLighter, LighterKeeps

LEMMA FailUndispatchedBudget ==
  ASSUME AccountingAssumption, IsFiniteSet(Reservations), BudgetInv, TypeOK',
         NEW p \in Processes, NEW exhausted \in BOOLEAN,
         FailUndispatched(p, exhausted)
  PROVE  Budgeted'
<1>0. PICK i \in Reservations : i = call[p].reservation
  BY DEF FailUndispatched, BudgetInv, AccountingInv, TypeOK
<1>1. CASE UNCHANGED <<reservation, receipt>> BY <1>1, SameBudget
<1>2. CASE ~UNCHANGED <<reservation, receipt>>
  <2> DEFINE row == [reservation[i] EXCEPT !.status = "deleted"]
             paper == [status |-> "not_dispatched", tokens |-> 0, known |-> TRUE,
                       priced |-> TRUE, unsure |-> FALSE]
  <2>1. /\ TypeOK /\ Budgeted
        /\ reservation' = [reservation EXCEPT ![i] = row]
        /\ receipt' = [receipt EXCEPT ![i] = paper]
    BY <1>0, <1>2 DEF FailUndispatched, BudgetInv, AccountingInv
  <2>2. reservation[i] \in ReservationRows /\ receipt[i] \in ReceiptRows
    BY <2>1 DEF TypeOK
  <2>3. /\ row.status = "deleted" /\ row.attempt = reservation[i].attempt
        /\ paper.known /\ paper.tokens = 0
    BY <2>2 DEF ReservationRows
  <2> HIDE DEF row, paper
  <2>4. Weight(row, paper) = 0 /\ Covered(row, paper)
    BY <2>3 DEF Weight, Open, Covered
  <2>5. Weight(reservation[i], receipt[i]) \in Nat BY <2>2, CapIs
  <2>6. Weight(row, paper) <= Weight(reservation[i], receipt[i]) BY <2>4, <2>5
  <2> QED BY <2>1, <2>3, <2>4, <2>6, OneLighter
<1> QED BY <1>1, <1>2

LEMMA DoubtBudget ==
  ASSUME AccountingAssumption, IsFiniteSet(Reservations), BudgetInv, TypeOK',
         NEW i \in Reservations, Doubt(i)
  PROVE  Budgeted'
<1>1. CASE UNCHANGED <<reservation, receipt>> BY <1>1, SameBudget
<1>2. CASE ~UNCHANGED <<reservation, receipt>>
  <2> DEFINE row == [reservation[i] EXCEPT !.status = "uncertain"]
             paper == [receipt[i] EXCEPT !.status = "uncertain", !.unsure = TRUE]
  <2>1. /\ TypeOK /\ Budgeted /\ Live(i)
        /\ reservation' = [reservation EXCEPT ![i] = row]
        /\ receipt' = [receipt EXCEPT ![i] = paper]
    BY <1>2 DEF Doubt, Doubted, BudgetInv, AccountingInv
  <2>2. reservation[i] \in ReservationRows /\ receipt[i] \in ReceiptRows
    BY <2>1 DEF TypeOK
  <2>3. /\ row.status = "uncertain" /\ row.attempt = reservation[i].attempt
        /\ row.tokens = reservation[i].tokens
    BY <2>2 DEF ReservationRows
  <2>4. paper.known = receipt[i].known /\ paper.tokens = receipt[i].tokens
    BY <2>2 DEF ReceiptRows
  <2> HIDE DEF row, paper
  <2>5. Open(row) /\ Open(reservation[i]) BY <2>1, <2>3 DEF Live, Open
  <2>6. Weight(row, paper) = Weight(reservation[i], receipt[i])
    BY <2>3, <2>4, <2>5 DEF Weight
  <2>7. Weight(reservation[i], receipt[i]) \in Nat BY <2>2, CapIs
  <2>8. Covered(row, paper)
    BY <2>1, <2>3, <2>4, <2>5 DEF Budgeted, Covered
  <2>9. Weight(row, paper) <= Weight(reservation[i], receipt[i]) BY <2>6, <2>7
  <2> QED BY <2>1, <2>3, <2>8, <2>9, OneLighter
<1> QED BY <1>1, <1>2

LEMMA WriteBudget ==
  ASSUME AccountingAssumption, IsFiniteSet(Reservations), BudgetInv, TypeOK',
         NEW i \in Reservations, NEW report \in Reports, NEW priced \in BOOLEAN,
         Write(i, report, priced), Live(i), ~Contradicts(report, i)
  PROVE  Budgeted'
<1> DEFINE done == report.measured /\ priced
           left == IF done THEN 0 ELSE Kept(report)
           weights == [Weights EXCEPT ![i] =
                         left + IF report.measured THEN report.tokens ELSE 0]
           over == \/ report.over
                   \/ report.tokens > RequestTokens
                   \/ Overdrawn(weights, i)
           outcome == IF over THEN "policy_violation"
                      ELSE IF done THEN "completed" ELSE "usage_unknown"
           status == IF done THEN "deleted" ELSE "uncertain"
           tokens == IF done THEN reservation[i].tokens ELSE left
           row == [reservation[i] EXCEPT !.status = status, !.tokens = tokens]
           paper == [status |-> outcome, tokens |-> report.tokens,
                     known |-> report.measured, priced |-> priced, unsure |-> FALSE]
<1>1. /\ TypeOK /\ Budgeted
      /\ reservation' = [reservation EXCEPT ![i] = row]
      /\ receipt' = [receipt EXCEPT ![i] = paper]
  BY DEF Write, BudgetInv, AccountingInv
<1>2. /\ reservation[i] \in ReservationRows /\ receipt[i] \in ReceiptRows
      /\ reservation[i].tokens \in Nat /\ receipt[i].tokens \in Nat
      /\ report.tokens \in Nat /\ report.measured \in BOOLEAN /\ Estimate \in Nat
  BY <1>1 DEF TypeOK, ReservationRows, ReceiptRows, AccountingAssumption
<1>3. /\ paper.known = report.measured /\ paper.tokens = report.tokens
  OBVIOUS
<1>4. /\ row.status = status /\ row.tokens = tokens
      /\ row.attempt = reservation[i].attempt
  BY <1>2 DEF ReservationRows
<1>5. ~done => left = Kept(report) OBVIOUS
<1> HIDE DEF row, paper, outcome, over, weights, left
<1>6. Open(row) <=> ~done BY <1>4 DEF Open
<1>7. Open(reservation[i]) BY DEF Live, Open
<1>8. Weight(reservation[i], receipt[i]) \in Nat BY <1>2, CapIs
<1>9. CASE report.measured
  <2>1. paper.known /\ Covered(row, paper) BY <1>3, <1>9 DEF Covered
  <2>2. Weight(row, paper) = report.tokens
    <3>1. ~done => tokens = 0 BY <1>5, <1>9 DEF Kept
    <3> HIDE DEF done, tokens
    <3> QED BY <1>2, <1>3, <1>4, <1>6, <2>1, <3>1 DEF Weight
  <2>3. CASE receipt[i].known
    <3>1. receipt[i].tokens = report.tokens BY <2>3 DEF Contradicts
    <3>2. Weight(row, paper) <= Weight(reservation[i], receipt[i])
      BY <1>2, <1>7, <2>2, <2>3, <3>1 DEF Weight
    <3> QED BY <1>1, <1>4, <2>1, <3>2, OneLighter
  <2>4. CASE ~receipt[i].known
    <3>1. reservation[i].tokens >= Estimate BY <1>1, <1>7, <2>4 DEF Budgeted, Covered
    <3>2. Weight(reservation[i], receipt[i]) >= Estimate
      BY <1>2, <1>7, <2>4, <3>1 DEF Weight
    <3> QED BY <1>1, <1>4, <2>1, <3>2, OneLighter
  <2> QED BY <2>3, <2>4
<1>10. CASE ~report.measured
  <2>1. ~receipt[i].known BY <1>10 DEF Contradicts
  <2>2. reservation[i].tokens >= Estimate BY <1>1, <1>7, <2>1 DEF Budgeted, Covered
  <2>3. Weight(reservation[i], receipt[i]) >= Estimate
    BY <1>2, <1>7, <2>1, <2>2 DEF Weight
  <2>4. row.tokens = Bigger(Estimate, report.tokens) BY <1>4, <1>5, <1>10 DEF Kept
  <2>5. row.tokens >= Estimate BY <1>2, <2>4 DEF Bigger
  <2>6. Covered(row, paper) BY <2>5 DEF Covered
  <2> QED BY <1>1, <1>4, <2>3, <2>6, OneLighter
<1> QED BY <1>2, <1>9, <1>10

LEMMA NextBudget ==
  ASSUME AccountingAssumption, IsFiniteSet(Reservations), BudgetInv, [Next]_vars
  PROVE  BudgetInv'
<1>1. AccountingInv' BY NextStep DEF BudgetInv
<1>2. TypeOK' BY <1>1 DEF AccountingInv
<1>3. ASSUME UNCHANGED <<reservation, receipt>> PROVE Budgeted'
  BY <1>2, <1>3, SameBudget
<1>4. ASSUME NEW p \in Processes, NEW r \in Requests, NEW m \in Models,
             NEW n \in Attempts, NEW i \in Reservations, NEW mode \in Modes,
             Reserve(p, r, mode, m, n, i)
      PROVE  Budgeted'
  BY <1>2, <1>4, ReserveBudget
<1>5. ASSUME NEW p \in Processes, Submit(p) PROVE Budgeted'
  BY <1>2, <1>5, SubmitBudget
<1>6. ASSUME NEW p \in Processes, NEW exhausted \in BOOLEAN,
             FailUndispatched(p, exhausted)
      PROVE  Budgeted'
  BY <1>2, <1>6, FailUndispatchedBudget
<1>7. ASSUME NEW p \in Processes, NEW exhausted \in BOOLEAN,
             FailDispatched(p, exhausted)
      PROVE  Budgeted'
  <2>1. PICK i \in Reservations : i = call[p].reservation
    BY <1>7 DEF FailDispatched, BudgetInv, AccountingInv, TypeOK
  <2> QED BY <1>2, <1>7, <2>1, DoubtBudget DEF FailDispatched
<1>8. ASSUME NEW p \in Processes, NEW report \in Reports, NEW priced \in BOOLEAN,
             Commit(p, report, priced)
      PROVE  Budgeted'
  <2>1. PICK i \in Reservations : i = call[p].reservation
    BY <1>8 DEF Commit, BudgetInv, AccountingInv, TypeOK
  <2>2. CASE Doubt(i) BY <1>2, <2>2, DoubtBudget
  <2>3. CASE Write(i, report, priced) /\ Live(i) /\ ~Contradicts(report, i)
    BY <1>2, <2>3, WriteBudget
  <2> QED BY <1>3, <1>8, <2>1, <2>2, <2>3 DEF Commit
<1>9. ASSUME Next PROVE Budgeted'
  <2>1. ASSUME NEW p \in Processes, NEW r \in Requests, NEW m \in Models,
               NEW n \in Attempts, NEW i \in Reservations, Replay(p, r, m, n, i)
        PROVE  Budgeted'
    BY <1>3, <2>1 DEF Replay
  <2>2. ASSUME NEW p \in Processes, Refuse(p) \/ Reconcile(p) \/ Die(p)
        PROVE  Budgeted'
    BY <1>3, <2>2 DEF Refuse, Reconcile, Die
  <2>3. ASSUME NEW i \in Reservations, NEW report \in Reports, Run(i, report)
        PROVE  Budgeted'
    BY <1>3, <2>3 DEF Run
  <2> QED BY <1>4, <1>5, <1>6, <1>7, <1>8, <1>9, <2>1, <2>2, <2>3 DEF Next
<1>10. ASSUME UNCHANGED vars PROVE Budgeted' BY <1>3, <1>10 DEF vars
<1> QED BY <1>1, <1>9, <1>10 DEF BudgetInv

LEMMA InitBudget ==
  ASSUME AccountingAssumption, IsFiniteSet(Reservations), Init PROVE BudgetInv
<1>1. AccountingInv /\ TypeOK BY InitSound DEF AccountingInv
<1> DEFINE z == [i \in Reservations |-> 0]
<1>2. \A i \in Reservations :
        reservation[i] = NoReservation /\ receipt[i] = NoReceipt
  BY DEF Init
<1>3. /\ Cap(NoReservation, NoReceipt) = 0 /\ Covered(NoReservation, NoReceipt)
      /\ ~(NoReservation.attempt > 1)
  BY DEF Cap, Covered, Weight, Open, NoReservation, NoReceipt, AccountingAssumption
<1>4. Caps = z /\ RetryCaps = z BY <1>2, <1>3 DEF Caps, RetryCaps
<1>5. Total(z) = 0 BY TotalOfNothing
<1> QED BY <1>1, <1>2, <1>3, <1>4, <1>5 DEF BudgetInv, Budgeted, AccountingAssumption

\* What providers charge on a day, and charge retries, stays within its budget.
THEOREM ChargesStayInBudget ==
  ASSUME AccountingAssumption, FinitelyMany PROVE Spec => []BudgetHolds
<1>1. ASSUME BudgetInv PROVE BudgetHolds
  <2> DEFINE c == [i \in Reservations |-> provider[i].charge]
             rc == [i \in Reservations |-> IF reservation[i].attempt > 1
                                           THEN provider[i].charge ELSE 0]
  <2>0. TypeOK /\ Budgeted BY <1>1 DEF BudgetInv, AccountingInv
  <2> SUFFICES ASSUME \A i \in Reservations : provider[i].charge <= Estimate
               PROVE  Total(c) <= DailyTokens /\ Total(rc) <= RetryTokens
    BY DEF BudgetHolds
  <2>finite. IsFiniteSet(Reservations) BY DEF FinitelyMany
  <2>1. ASSUME NEW i \in Reservations
        PROVE  provider[i].charge \in Nat /\ provider[i].charge <= Caps[i]
    <3> DEFINE row == reservation[i]  paper == receipt[i]
    <3>1. /\ Sound(i) /\ row \in ReservationRows /\ paper \in ReceiptRows
          /\ provider[i] \in Contacts /\ Covered(row, paper)
      BY <1>1, <2>0 DEF BudgetInv, AccountingInv, TypeOK, Budgeted
    <3>2. /\ provider[i].charge \in Nat /\ Estimate \in Nat
          /\ row.tokens \in Nat /\ paper.tokens \in Nat /\ paper.known \in BOOLEAN
          /\ row.status \in {"none", "reserved", "dispatched", "uncertain", "deleted"}
      BY <3>1 DEF Contacts, ReservationRows, ReceiptRows, AccountingAssumption
    <3>3. Weight(row, paper) \in Nat BY <3>1, CapIs
    <3>4. provider[i].charge <= Weight(row, paper)
      <4>1. CASE provider[i].runs = 0 BY <3>1, <3>3, <4>1 DEF Sound
      <4>2. CASE provider[i].runs # 0 /\ paper.known
        <5>1. paper.tokens = provider[i].charge
          BY <3>1, <4>2 DEF Sound, Untouched
        <5> QED BY <3>2, <4>2, <5>1 DEF Weight
      <4>3. CASE provider[i].runs # 0 /\ ~paper.known
        <5>1. provider[i] # Untouched BY <4>3 DEF Untouched
        <5>2. row.status \in {"dispatched", "uncertain"}
          BY <3>1, <3>2, <4>3, <5>1 DEF Sound
        <5>3. Open(row) BY <5>2 DEF Open
        <5>4. row.tokens >= Estimate BY <3>1, <4>3, <5>3 DEF Covered
        <5> QED BY <3>2, <4>3, <5>3, <5>4 DEF Weight
      <4> QED BY <4>1, <4>2, <4>3
    <3>5. Caps[i] = Cap(row, paper) BY DEF Caps
    <3> HIDE DEF row, paper
    <3> QED BY <3>2, <3>3, <3>4, <3>5 DEF Cap
  <2>2. /\ Caps \in [Reservations -> Nat] /\ RetryCaps \in [Reservations -> Nat]
        /\ \A i \in Reservations :
             RetryCaps[i] = IF reservation[i].attempt > 1 THEN Caps[i] ELSE 0
    BY <2>0, CapsAre
  <2>3. c \in [Reservations -> Nat] /\ rc \in [Reservations -> Nat] BY <2>1
  <2>4. \A i \in Reservations : c[i] <= Caps[i] /\ rc[i] <= RetryCaps[i] BY <2>1, <2>2
  <2> HIDE DEF c, rc
  <2>5. Total(c) \in Nat /\ Total(Caps) \in Nat /\ Total(c) <= Total(Caps)
    BY <2>finite, <2>2, <2>3, <2>4, TotalIsMonotonic
  <2>6. Total(rc) \in Nat /\ Total(RetryCaps) \in Nat /\ Total(rc) <= Total(RetryCaps)
    BY <2>finite, <2>2, <2>3, <2>4, TotalIsMonotonic
  <2> QED BY <2>0, <2>5, <2>6 DEF Budgeted, AccountingAssumption
<1>2. Init => BudgetInv BY InitBudget DEF FinitelyMany
<1>3. BudgetInv /\ [Next]_vars => BudgetInv' BY NextBudget DEF FinitelyMany
<1> QED BY <1>1, <1>2, <1>3, PTL DEF Spec
=============================================================================
