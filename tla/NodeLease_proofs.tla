-------------------------- MODULE NodeLease_proofs --------------------------
(***************************************************************************)
(* NodeLease for every set of leases, resources and threads.  A number is  *)
(* consumed before the lease that carries it is written, hence numbers on  *)
(* file and numbers told are at most the counter (Numbered), distinct      *)
(* (Distinct), and the lease on file carries the largest number told of    *)
(* its resource (Latest).  If the clock only advanced and the file stayed, *)
(* an unexpired grant in a caller's hands is on file (Backed).  Together   *)
(* they give the implementation of FencedGrants.                           *)
(***************************************************************************)
EXTENDS NodeLease, TLAPS

OnFile(l) == file[l] # NoLease

\* Every number told or on file was consumed.
Numbered == \A g \in told : g.record.token <= counter

\* One resource is leased once.
OneHolder ==
  \A l, m \in Leases :
     OnFile(l) /\ OnFile(m) /\ file[l].resource = file[m].resource => l = m

\* A number belongs to one lease, on file and among the grants told.
Distinct ==
  /\ TokensUnique
  /\ \A l, m \in Leases :
        OnFile(l) /\ OnFile(m) /\ file[l].token = file[m].token => l = m
  /\ \A g \in told, l \in Leases :
        OnFile(l) /\ g.record.token = file[l].token
        => g = [lease |-> l, record |-> file[l]]

\* The lease on file is the latest of its resource.
Latest ==
  \A g \in told, l \in Leases :
     OnFile(l) /\ g.record.resource = file[l].resource
     => g.record.token <= file[l].token

Inv == TypeOK /\ Numbered /\ OneHolder /\ Distinct /\ Latest

\* A waiting call read the clock in the past.
PastReads == \A t \in Threads : waiting[t] # NoCall => waiting[t].now <= clock

\* What a caller holds is on file until it ends.
Backed ==
  \A g \in held : clock < g.record.expires => file[g.lease] = g.record

\* Leases only disappear from the file, and nothing new is told.
Shrinks ==
  /\ \A l \in Leases : file'[l] \in {NoLease, file[l]}
  /\ counter <= counter' /\ told' = told

-----------------------------------------------------------------------------
LEMMA RecordFacts ==
  /\ NoLease \notin Records
  /\ NoCall \notin Calls
PROOF
  BY DEF NoLease, Records, NoCall, Calls

\* What Kept leaves is on file already.
LEMMA KeptFacts ==
  ASSUME TypeOK, NEW now
  PROVE  /\ Kept(now) \in Stored
         /\ \A l \in Leases : Kept(now)[l] \in {NoLease, file[l]}
         /\ \A l \in Leases : Kept(now)[l].token <= counter
PROOF
  BY DEF Kept, TypeOK, Stored, NoLease

\* A call that enters the section is well formed.
LEMMA EnterFacts ==
  ASSUME TypeOK, NEW t \in Threads, Enter(t)
  PROVE  /\ waiting[t] \in Calls
         /\ waiting' \in [Threads -> Calls \cup {NoCall}]
PROOF
  BY DEF TypeOK, Enter

-----------------------------------------------------------------------------
LEMMA TypeInit == Init => TypeOK
<1> SUFFICES ASSUME Init PROVE TypeOK
  OBVIOUS
<1>1. file \in Stored /\ cache \in Stored
  BY DEF Init, Nothing, Stored
<1>2. \A l \in Leases : file[l].token <= counter
  <2>1. counter = 0 /\ \A l \in Leases : file[l] = NoLease
    BY DEF Init, Nothing
  <2>2. NoLease.token <= 0
    BY DEF NoLease
  <2> QED
    BY <2>1, <2>2
<1> QED
  BY <1>1, <1>2 DEF Init, TypeOK

LEMMA TypeStep ==
  ASSUME TypeOK, [Next]_vars
  PROVE  TypeOK'
<1> USE DEF Settle
<1>1. CASE UNCHANGED vars
  BY <1>1 DEF vars, TypeOK
<1>2. ASSUME NEW t \in Threads, NEW l \in Leases, NEW r \in Resources, NEW ttl \in TTLs,
             Call(t, l, r, ttl)
      PROVE  TypeOK'
  BY <1>2 DEF Call, TypeOK, Calls
<1>3. ASSUME NEW t \in Threads, NEW write \in Writes, AcquireUnexpired(t, write)
      PROVE  TypeOK'
  BY <1>3, KeptFacts, EnterFacts DEF AcquireUnexpired, Publish, TypeOK
<1>4. ASSUME NEW t \in Threads, AcquireAgain(t)
      PROVE  TypeOK'
  <2>1. waiting[t] \in Calls /\ waiting' \in [Threads -> Calls \cup {NoCall}]
    BY <1>4, EnterFacts DEF AcquireAgain
  <2> DEFINE kept == Kept(waiting[t].now)
  <2>2. /\ kept \in Stored /\ \A l \in Leases : kept[l].token <= counter
    BY KeptFacts
  <2>3. [lease |-> waiting[t].lease, record |-> kept[waiting[t].lease]] \in Grants
    BY <1>4, <2>1, <2>2 DEF AcquireAgain, Grants, Stored, Calls
  <2> QED
    BY <1>4, <2>1, <2>2, <2>3 DEF AcquireAgain, Tell, TypeOK
<1>5. ASSUME NEW t \in Threads, AcquireRefused(t)
      PROVE  TypeOK'
  BY <1>5, KeptFacts, EnterFacts DEF AcquireRefused, TypeOK
<1>6. ASSUME NEW t \in Threads, NEW counting \in Writes, NEW write \in Writes,
             AcquireNew(t, counting, write)
      PROVE  TypeOK'
  <2>1. waiting[t] \in Calls /\ waiting' \in [Threads -> Calls \cup {NoCall}]
    BY <1>6, EnterFacts DEF AcquireNew
  <2> DEFINE call == waiting[t]
             kept == Kept(call.now)
             rec  == [resource |-> call.resource, token |-> NextToken,
                      expires |-> call.now + call.ttl]
  <2>2. kept \in Stored /\ \A l \in Leases : kept[l].token <= counter
    BY KeptFacts
  <2>3. counter \in Nat /\ counter' \in {counter, NextToken} /\ NextToken = counter + 1
    BY <1>6 DEF AcquireNew, NextToken, TypeOK
  <2>4. rec \in Records
    <3>1. call.resource \in Resources /\ call.ttl \in Nat /\ call.now \in Nat
      BY <2>1, LeaseAssumption DEF Calls
    <3>2. NextToken \in Nat \ {0} /\ call.now + call.ttl \in Nat
      BY <3>1, <2>3
    <3> QED
      BY <3>1, <3>2 DEF Records
  <2>5. [kept EXCEPT ![call.lease] = rec] \in Stored
    BY <2>2, <2>4 DEF Stored
  <2>6. [lease |-> call.lease, record |-> rec] \in Grants
    BY <2>1, <2>4 DEF Grants, Calls
  <2>7. /\ file' \in Stored /\ cache' \in Stored /\ present' \in BOOLEAN
        /\ \A l \in Leases : file'[l].token <= counter'
    <3>1. CASE counting # "ok"
      <4>1. file' = kept /\ cache' = kept /\ present' = present
        BY <1>6, <3>1 DEF AcquireNew
      <4> QED
        BY <4>1, <2>2, <2>3 DEF TypeOK, Stored, Records, NoLease
    <3>2. CASE counting = "ok"
      <4>1. counter' = counter + 1
        BY <1>6, <3>2, <2>3 DEF AcquireNew
      <4>2. Publish(kept, [kept EXCEPT ![call.lease] = rec], write)
        BY <1>6, <3>2 DEF AcquireNew
      <4>3. \A l \in Leases : [kept EXCEPT ![call.lease] = rec][l].token <= counter + 1
        BY <2>2, <2>3, <2>4 DEF Stored, Records, NoLease
      <4>4. \A l \in Leases : kept[l].token <= counter + 1
        BY <2>2, <2>3 DEF Stored, Records, NoLease
      <4> QED
        BY <4>1, <4>2, <4>3, <4>4, <2>2, <2>5 DEF Publish, TypeOK
    <3> QED
      BY <3>1, <3>2
  <2>8. told' \subseteq Grants /\ held' \subseteq told'
    BY <1>6, <2>6 DEF AcquireNew, Tell, TypeOK
  <2> QED
    BY <1>6, <2>1, <2>3, <2>7, <2>8 DEF AcquireNew, TypeOK
<1>7. ASSUME NEW l \in Leases, NEW r \in Resources, NEW write \in Writes,
             Release(l, r, write)
      PROVE  TypeOK'
  BY <1>7 DEF Release, Publish, GiveUp, TypeOK, Stored, NoLease
<1>8. ASSUME NEW l \in Leases, NEW r \in Resources, ReleaseNothing(l, r)
      PROVE  TypeOK'
  BY <1>8 DEF ReleaseNothing, GiveUp, TypeOK
<1>9. CASE Tick \/ TurnBack
  <2>1. clock' \in Nat
    BY <1>9, LeaseAssumption DEF Tick, TurnBack, TypeOK
  <2>2. steady' \in BOOLEAN
    BY <1>9 DEF Tick, TurnBack, TypeOK
  <2> QED
    BY <1>9, <2>1, <2>2 DEF Tick, TurnBack, TypeOK
<1>10. CASE LoseFile
  <2>1. file' \in Stored
    BY <1>10 DEF LoseFile, Nothing, Stored
  <2>2. \A l \in Leases : file'[l].token <= counter'
    BY <1>10 DEF LoseFile, Nothing, NoLease, TypeOK
  <2> QED
    BY <1>10, <2>1, <2>2 DEF LoseFile, TypeOK
<1>11. CASE Restart
  BY <1>11 DEF Restart, TypeOK
<1> QED
  BY <1>1, <1>2, <1>3, <1>4, <1>5, <1>6, <1>7, <1>8, <1>9, <1>10, <1>11
  DEF Next, Acquire

\* The leases, the counter, the memory and the grants keep their types, and no
\* lease on file carries a number that was not consumed.
THEOREM TypeCorrect == Spec => []TypeOK
<1>1. TypeOK /\ [Next]_vars => TypeOK'
  BY TypeStep
<1> QED
  BY <1>1, TypeInit, PTL DEF Spec

-----------------------------------------------------------------------------
LEMMA InvInit == Init => Inv
<1> SUFFICES ASSUME Init PROVE Inv
  OBVIOUS
<1>1. told = {} /\ \A l \in Leases : file[l] = NoLease
  BY DEF Init, Nothing
<1> QED
  BY <1>1, TypeInit DEF Inv, Numbered, OneHolder, Distinct, TokensUnique, Latest, OnFile

\* A step that only takes leases off the file keeps the invariant.
LEMMA ShrinkKeeps ==
  ASSUME Inv, TypeOK', Shrinks
  PROVE  Inv'
<1>1. Numbered'
  BY DEF Inv, Numbered, Shrinks, TypeOK, Grants, Records
<1>2. OneHolder'
  BY DEF Inv, OneHolder, Shrinks, OnFile
<1>3. Distinct'
  BY DEF Inv, Distinct, TokensUnique, Shrinks, OnFile
<1>4. Latest'
  BY DEF Inv, Latest, Shrinks, OnFile
<1> QED
  BY <1>1, <1>2, <1>3, <1>4 DEF Inv

\* A grant told again is the lease on file.
LEMMA AgainKeeps ==
  ASSUME Inv, TypeOK', NEW t \in Threads, AcquireAgain(t)
  PROVE  Inv'
<1> DEFINE l0 == waiting[t].lease
           g0 == [lease |-> l0, record |-> file[l0]]
<1>1. waiting[t] \in Calls /\ l0 \in Leases
  BY EnterFacts DEF Inv, AcquireAgain, Calls
<1>2. /\ \A l \in Leases : file'[l] \in {NoLease, file[l]}
      /\ OnFile(l0) /\ file'[l0] = file[l0]
      /\ told' = told \cup {g0} /\ counter' = counter
  BY <1>1, KeptFacts DEF Inv, AcquireAgain, Settle, Tell, OnFile
<1>3. g0.record = file[l0] /\ file[l0] \in Records /\ file[l0].token <= counter
  BY <1>1, <1>2 DEF Inv, TypeOK, Stored, OnFile
<1>4. Numbered'
  BY <1>2, <1>3 DEF Inv, Numbered
<1>5. OneHolder'
  BY <1>2 DEF Inv, OneHolder, OnFile
<1>6. Distinct'
  <2>1. \A g \in told' : g.record.token = file[l0].token => g = g0
    BY <1>1, <1>2, <1>3 DEF Inv, Distinct
  <2>2. TokensUnique'
    BY <1>2, <1>3, <2>1 DEF Inv, Distinct, TokensUnique
  <2>3. \A l \in Leases : OnFile(l)' /\ g0.record.token = file'[l].token
                          => g0 = [lease |-> l, record |-> file'[l]]
    BY <1>1, <1>2, <1>3 DEF Inv, Distinct, OnFile
  <2>4. \A l, m \in Leases :
           OnFile(l)' /\ OnFile(m)' /\ file'[l].token = file'[m].token => l = m
    BY <1>2 DEF Inv, Distinct, OnFile
  <2>5. \A g \in told, l \in Leases :
           OnFile(l)' /\ g.record.token = file'[l].token
           => g = [lease |-> l, record |-> file'[l]]
    BY <1>2 DEF Inv, Distinct, OnFile
  <2> QED
    BY <1>2, <2>2, <2>3, <2>4, <2>5 DEF Distinct
<1>7. Latest'
  <2>1. \A l \in Leases : OnFile(l)' /\ g0.record.resource = file'[l].resource
                          => g0.record.token <= file'[l].token
    BY <1>1, <1>2, <1>3 DEF Inv, OneHolder, OnFile, Records
  <2> QED
    BY <1>2, <2>1 DEF Inv, Latest, OnFile
<1> QED
  BY <1>4, <1>5, <1>6, <1>7 DEF Inv

\* A new lease carries a number beyond all that were told or on file.
LEMMA NewKeeps ==
  ASSUME Inv, TypeOK', NEW t \in Threads,
         NEW write \in Writes, write # "failed", AcquireNew(t, "ok", write)
  PROVE  Inv'
<1> DEFINE call == waiting[t]
           l0   == call.lease
           kept == Kept(call.now)
           rec  == [resource |-> call.resource, token |-> NextToken,
                    expires |-> call.now + call.ttl]
           g0   == [lease |-> l0, record |-> rec]
<1>1. call \in Calls /\ l0 \in Leases
  BY EnterFacts DEF Inv, AcquireNew, Calls
<1>2. kept \in Stored /\ \A l \in Leases : kept[l] \in {NoLease, file[l]}
  BY KeptFacts DEF Inv
<1>3. /\ counter \in Nat /\ NextToken = counter + 1
      /\ rec.token = counter + 1 /\ rec.resource = call.resource
  BY DEF Inv, TypeOK, NextToken
<1>4. /\ counter' = counter + 1
      /\ file'[l0] = rec
      /\ \A l \in Leases : l # l0 => file'[l] = kept[l]
      /\ told' \in {told, told \cup {g0}}
      /\ \A l \in Leases : kept[l].resource # call.resource
  BY <1>1, <1>2, <1>3 DEF AcquireNew, Publish, Stored, Tell, Writes
<1>5. \A l \in Leases : file[l].token \in Nat /\ file[l].token <= counter
  BY DEF Inv, TypeOK, Stored, Records, NoLease
<1>6. \A g \in told : g.record.token \in Nat /\ g.record.token <= counter
  BY DEF Inv, TypeOK, Numbered, Grants, Records
<1>7. rec # NoLease
  BY <1>3 DEF NoLease
<1>8. g0.lease = l0 /\ g0.record = rec
  OBVIOUS
<1> HIDE DEF rec, kept, g0
<1>9. Numbered'
  BY <1>3, <1>4, <1>6, <1>8 DEF Numbered
<1>10. OneHolder'
  BY <1>1, <1>2, <1>3, <1>4 DEF Inv, OneHolder, OnFile
<1>11. Distinct'
  <2>1. TokensUnique'
    BY <1>3, <1>4, <1>6, <1>8 DEF Inv, Distinct, TokensUnique
  <2>2. \A l, m \in Leases :
           OnFile(l)' /\ OnFile(m)' /\ file'[l].token = file'[m].token => l = m
    BY <1>2, <1>3, <1>4, <1>5 DEF Inv, Distinct, OnFile
  <2>3. \A g \in told, l \in Leases :
           OnFile(l)' /\ g.record.token = file'[l].token
           => g = [lease |-> l, record |-> file'[l]]
    BY <1>2, <1>3, <1>4, <1>6 DEF Inv, Distinct, OnFile
  <2>4. \A l \in Leases :
           OnFile(l)' /\ g0.record.token = file'[l].token
           => g0 = [lease |-> l, record |-> file'[l]]
    BY <1>2, <1>3, <1>4, <1>5, <1>8 DEF OnFile, g0
  <2> QED
    BY <1>4, <2>1, <2>2, <2>3, <2>4 DEF Distinct
<1>12. Latest'
  <2>1. \A g \in told, l \in Leases :
           OnFile(l)' /\ g.record.resource = file'[l].resource
           => g.record.token <= file'[l].token
    BY <1>2, <1>3, <1>4, <1>6 DEF Inv, Latest, OnFile
  <2>2. \A l \in Leases :
           OnFile(l)' /\ g0.record.resource = file'[l].resource
           => g0.record.token <= file'[l].token
    BY <1>1, <1>3, <1>4, <1>8 DEF OnFile
  <2> QED
    BY <1>4, <2>1, <2>2 DEF Latest
<1> QED
  BY <1>9, <1>10, <1>11, <1>12 DEF Inv

LEMMA InvStep ==
  ASSUME Inv, [Next]_vars
  PROVE  Inv'
<1>0. TypeOK' /\ TypeOK /\ counter \in Nat
  BY TypeStep DEF Inv, TypeOK
<1>1. CASE UNCHANGED vars
  BY <1>0, <1>1, ShrinkKeeps DEF vars, Shrinks
<1>2. ASSUME NEW t \in Threads, NEW l \in Leases, NEW r \in Resources, NEW ttl \in TTLs,
             Call(t, l, r, ttl)
      PROVE  Inv'
  BY <1>0, <1>2, ShrinkKeeps DEF Call, Shrinks
<1>3. ASSUME NEW t \in Threads, NEW write \in Writes, AcquireUnexpired(t, write)
      PROVE  Inv'
  <2>1. Shrinks
    BY <1>0, <1>3, KeptFacts DEF AcquireUnexpired, Publish, Shrinks
  <2> QED
    BY <1>0, <2>1, ShrinkKeeps
<1>4. ASSUME NEW t \in Threads, AcquireAgain(t)
      PROVE  Inv'
  BY <1>0, <1>4, AgainKeeps
<1>5. ASSUME NEW t \in Threads, AcquireRefused(t)
      PROVE  Inv'
  <2>1. Shrinks
    BY <1>0, <1>5, KeptFacts DEF AcquireRefused, Settle, Shrinks
  <2> QED
    BY <1>0, <2>1, ShrinkKeeps
<1>6. ASSUME NEW t \in Threads, NEW counting \in Writes, NEW write \in Writes,
             AcquireNew(t, counting, write)
      PROVE  Inv'
  <2>1. CASE counting = "ok" /\ write # "failed"
    BY <1>0, <1>6, <2>1, NewKeeps
  <2>2. CASE counting # "ok" \/ write = "failed"
    <3>1. file' = Kept(waiting[t].now) /\ told' = told
      BY <1>6, <2>2 DEF AcquireNew, Publish, Settle
    <3>2. counter <= counter'
      BY <1>0, <1>6 DEF AcquireNew, NextToken
    <3>3. Shrinks
      BY <1>0, <3>1, <3>2, KeptFacts DEF Shrinks
    <3> QED
      BY <1>0, <3>3, ShrinkKeeps
  <2> QED
    BY <2>1, <2>2
<1>7. ASSUME NEW l \in Leases, NEW r \in Resources, NEW write \in Writes,
             Release(l, r, write)
      PROVE  Inv'
  <2>1. Shrinks
    BY <1>0, <1>7 DEF Release, Publish, Shrinks, TypeOK, Stored
  <2> QED
    BY <1>0, <2>1, ShrinkKeeps
<1>8. ASSUME NEW l \in Leases, NEW r \in Resources, ReleaseNothing(l, r)
      PROVE  Inv'
  BY <1>0, <1>8, ShrinkKeeps DEF ReleaseNothing, Settle, Shrinks
<1>9. CASE Tick \/ TurnBack \/ Restart
  BY <1>0, <1>9, ShrinkKeeps DEF Tick, TurnBack, Restart, Shrinks
<1>10. CASE LoseFile
  BY <1>0, <1>10, ShrinkKeeps DEF LoseFile, Nothing, Shrinks
<1> QED
  BY <1>1, <1>2, <1>3, <1>4, <1>5, <1>6, <1>7, <1>8, <1>9, <1>10 DEF Next, Acquire

\* A number is told of one acquisition only, for every set of leases and
\* threads, whatever is lost, repeated or set back.
THEOREM NumbersAreUnique == Spec => []TokensUnique
<1>1. Inv /\ [Next]_vars => Inv'
  BY InvStep
<1>2. Inv => TokensUnique
  BY DEF Inv, Distinct
<1> QED
  BY <1>1, <1>2, InvInit, PTL DEF Spec

\* Only acquire_lease tells anything, and what it tells outnumbers whatever
\* was told of the resource before.
LEMMA FencingStep ==
  ASSUME Inv, [Next]_vars, NEW g \in told' \ told, NEW h \in told,
         g.record.resource = h.record.resource
  PROVE  h.record.token < g.record.token
<1>0. TypeOK
  BY DEF Inv
<1>1. h.record.token \in Nat /\ h.record.token <= counter /\ counter \in Nat
  BY DEF Inv, TypeOK, Numbered, Grants, Records
<1>2. ASSUME NEW t \in Threads, AcquireAgain(t)
      PROVE  h.record.token < g.record.token
  <2> DEFINE l0 == waiting[t].lease
  <2>1. l0 \in Leases
    BY <1>0, <1>2, EnterFacts DEF AcquireAgain, Calls
  <2>2. OnFile(l0) /\ g = [lease |-> l0, record |-> file[l0]]
    BY <1>0, <1>2, <2>1, KeptFacts DEF AcquireAgain, Tell, OnFile
  <2>3. file[l0].token \in Nat /\ g.record = file[l0]
    BY <2>1, <2>2, <1>0 DEF TypeOK, Stored, Records, OnFile
  <2>4. h.record.token <= file[l0].token
    BY <2>1, <2>2, <2>3 DEF Inv, Latest
  <2>5. h.record.token # file[l0].token
    BY <2>1, <2>2 DEF Inv, Distinct
  <2> QED
    BY <1>1, <2>3, <2>4, <2>5
<1>3. ASSUME NEW t \in Threads, NEW counting \in Writes, NEW write \in Writes,
             AcquireNew(t, counting, write)
      PROVE  h.record.token < g.record.token
  <2>1. g.record.token = counter + 1
    BY <1>3 DEF AcquireNew, Tell, NextToken
  <2> QED
    BY <1>1, <2>1
<1> QED
  BY <1>2, <1>3 DEF Next, Acquire, Call, AcquireUnexpired, AcquireRefused, Release,
                    ReleaseNothing, Tick, TurnBack, LoseFile, Restart, vars

\* Of two grants of one resource the one told later has the larger number.
THEOREM LaterIsLarger == Spec => FencingOrder
<1>1. Inv /\ [Next]_vars => Inv'
  BY InvStep
<1>2. Inv /\ [Next]_vars =>
        [\A g \in told' \ told, h \in told :
            g.record.resource = h.record.resource => h.record.token < g.record.token]_vars
  BY FencingStep
<1> QED
  BY <1>1, <1>2, InvInit, PTL DEF Spec, FencingOrder

-----------------------------------------------------------------------------
(* Exclusion, while the clock only advances and the file stays. *)

\* What Kept takes off the file has ended by the clock.
LEMMA KeptEnds ==
  ASSUME TypeOK, PastReads, NEW t \in Threads, waiting[t] # NoCall
  PROVE  \A l \in Leases : OnFile(l) /\ clock < file[l].expires
                           => Kept(waiting[t].now)[l] = file[l]
<1>1. waiting[t].now <= clock /\ waiting[t].now \in Nat /\ clock \in Nat
  BY DEF PastReads, TypeOK, Calls
<1>2. \A l \in Leases : OnFile(l) => file[l].expires \in Nat
  BY DEF TypeOK, Stored, OnFile, Records
<1> QED
  BY <1>1, <1>2 DEF Kept, Expired, OnFile

\* What was unsteady stays so.
LEMMA SteadyBefore ==
  ASSUME [Next]_vars, steady'
  PROVE  steady
BY DEF Next, Acquire, Call, AcquireUnexpired, AcquireAgain, AcquireRefused, AcquireNew,
       Release, ReleaseNothing, Tick, TurnBack, LoseFile, Restart, vars

LEMMA PastStep ==
  ASSUME TypeOK, steady', PastReads, [Next]_vars
  PROVE  PastReads'
<1>1. \A t \in Threads : waiting[t] # NoCall => waiting[t].now \in Nat
  BY DEF TypeOK, Calls
<1>2. ASSUME NEW t \in Threads, NEW l \in Leases, NEW r \in Resources, NEW ttl \in TTLs,
             Call(t, l, r, ttl)
      PROVE  PastReads'
  BY <1>2 DEF Call, PastReads, TypeOK
<1>3. CASE UNCHANGED <<clock, waiting>>
  BY <1>3 DEF PastReads
<1>4. ASSUME NEW t \in Threads, Enter(t), clock' = clock
      PROVE  PastReads'
  BY <1>4 DEF Enter, PastReads, TypeOK
<1>5. CASE Tick
  BY <1>1, <1>5 DEF Tick, PastReads, TypeOK
<1>6. CASE Restart
  BY <1>6 DEF Restart, PastReads
<1> QED
  BY <1>2, <1>3, <1>4, <1>5, <1>6
  DEF Next, Acquire, AcquireUnexpired, AcquireAgain, AcquireRefused, AcquireNew, Release,
      ReleaseNothing, TurnBack, LoseFile, vars

\* A step backs what its callers hold if it keeps the unexpired leases on file
\* and tells nothing.
LEMMA BackedKept ==
  ASSUME TypeOK, Backed, clock' \in Nat, clock <= clock', held' \subseteq held,
         \A l \in Leases : OnFile(l) /\ clock < file[l].expires => file'[l] = file[l]
  PROVE  Backed'
<1> SUFFICES ASSUME NEW g \in held', clock' < g.record.expires
             PROVE  file'[g.lease] = g.record
  BY DEF Backed
<1>1. g \in held /\ g.lease \in Leases /\ g.record \in Records /\ clock \in Nat
  BY DEF TypeOK, Grants
<1>2. clock < g.record.expires
  BY <1>1 DEF Records
<1>3. file[g.lease] = g.record /\ OnFile(g.lease)
  BY <1>1, <1>2, RecordFacts DEF Backed, OnFile
<1> QED
  BY <1>1, <1>2, <1>3

LEMMA BackedStep ==
  ASSUME TypeOK, TypeOK', steady', PastReads, Backed, [Next]_vars
  PROVE  Backed'
<1>0. clock \in Nat
  BY DEF TypeOK
<1>1. CASE UNCHANGED <<clock, file, held>>
  BY <1>1 DEF Backed
<1>2. ASSUME NEW t \in Threads, NEW write \in Writes, AcquireUnexpired(t, write)
      PROVE  Backed'
  <2>1. \A l \in Leases : OnFile(l) /\ clock < file[l].expires => file'[l] = file[l]
    BY <1>2, KeptEnds DEF AcquireUnexpired, Enter, Publish
  <2> QED
    BY <1>0, <1>2, <2>1, BackedKept DEF AcquireUnexpired
<1>3. ASSUME NEW t \in Threads, AcquireAgain(t)
      PROVE  Backed'
  <2> DEFINE l0 == waiting[t].lease
             g0 == [lease |-> l0, record |-> file[l0]]
  <2>1. l0 \in Leases
    BY <1>3, EnterFacts DEF AcquireAgain, Calls
  <2>2. /\ file'[l0] = file[l0] /\ held' = held \cup {g0} /\ clock' = clock
    BY <1>3, <2>1, KeptFacts DEF AcquireAgain, Settle, Tell
  <2>3. \A l \in Leases : OnFile(l) /\ clock < file[l].expires => file'[l] = file[l]
    BY <1>3, KeptEnds DEF AcquireAgain, Enter, Settle
  <2>4. \A g \in held : clock < g.record.expires => file'[g.lease] = g.record
    BY <2>3, RecordFacts DEF Backed, TypeOK, Grants, OnFile
  <2> QED
    BY <2>2, <2>4 DEF Backed
<1>4. ASSUME NEW t \in Threads, AcquireRefused(t)
      PROVE  Backed'
  <2>1. \A l \in Leases : OnFile(l) /\ clock < file[l].expires => file'[l] = file[l]
    BY <1>4, KeptEnds DEF AcquireRefused, Enter, Settle
  <2> QED
    BY <1>0, <1>4, <2>1, BackedKept DEF AcquireRefused
<1>5. ASSUME NEW t \in Threads, NEW counting \in Writes, NEW write \in Writes,
             AcquireNew(t, counting, write)
      PROVE  Backed'
  <2> DEFINE call == waiting[t]
             kept == Kept(call.now)
             rec  == [resource |-> call.resource, token |-> NextToken,
                      expires |-> call.now + call.ttl]
             g0   == [lease |-> call.lease, record |-> rec]
  <2>1. call.lease \in Leases /\ kept \in Stored /\ kept[call.lease] = NoLease
    BY <1>5, EnterFacts, KeptFacts DEF AcquireNew, Calls
  <2>2. \A l \in Leases : OnFile(l) /\ clock < file[l].expires => kept[l] = file[l]
    BY <1>5, KeptEnds DEF AcquireNew, Enter
  <2>3. \A l \in Leases : l # call.lease => file'[l] = kept[l]
    BY <1>5, <2>1 DEF AcquireNew, Publish, Settle, Stored
  <2>4. \A g \in held : clock < g.record.expires => file'[g.lease] = g.record
    BY <2>1, <2>2, <2>3, RecordFacts DEF Backed, TypeOK, Grants, OnFile
  <2>5. held' = held \/ (held' = held \cup {g0} /\ file'[call.lease] = rec)
    BY <1>5, <2>1 DEF AcquireNew, Publish, Tell, Stored
  <2>6. clock' = clock /\ g0.lease = call.lease /\ g0.record = rec
    BY <1>5 DEF AcquireNew
  <2> QED
    BY <2>4, <2>5, <2>6 DEF Backed
<1>6. ASSUME NEW l \in Leases, NEW r \in Resources, NEW write \in Writes,
             Release(l, r, write)
      PROVE  Backed'
  <2> SUFFICES ASSUME NEW g \in held', clock < g.record.expires
               PROVE  file'[g.lease] = g.record
    BY <1>6 DEF Release, Backed
  <2>1. g \in held /\ g.lease \in Leases /\ ~(g.lease = l /\ g.record.resource = r)
    BY <1>6 DEF Release, GiveUp, TypeOK, Grants
  <2>2. file[g.lease] = g.record
    BY <2>1 DEF Backed
  <2>3. g.lease # l
    BY <1>6, <2>1, <2>2 DEF Release
  <2> QED
    BY <1>6, <2>1, <2>2, <2>3 DEF Release, Publish, TypeOK, Stored
<1>7. ASSUME NEW l \in Leases, NEW r \in Resources, ReleaseNothing(l, r)
      PROVE  Backed'
  BY <1>0, <1>7, BackedKept DEF ReleaseNothing, Settle, GiveUp
<1>8. CASE Tick
  BY <1>0, <1>8, BackedKept DEF Tick
<1> QED
  BY <1>1, <1>2, <1>3, <1>4, <1>5, <1>6, <1>7, <1>8
  DEF Next, Acquire, Call, TurnBack, LoseFile, Restart, vars

LeaseInv == Inv /\ (steady => PastReads /\ Backed)

LEMMA LeaseInvInit == Init => LeaseInv
  BY InvInit DEF Init, PastReads, Backed, LeaseInv

LEMMA LeaseInvStep == LeaseInv /\ [Next]_vars => LeaseInv'
<1> SUFFICES ASSUME LeaseInv, [Next]_vars PROVE LeaseInv'
  OBVIOUS
<1>1. Inv'
  BY InvStep DEF LeaseInv
<1>2. ASSUME steady' PROVE PastReads' /\ Backed'
  <2>1. PastReads /\ Backed
    BY <1>2, SteadyBefore DEF LeaseInv
  <2> QED
    BY <1>1, <1>2, <2>1, PastStep, BackedStep DEF Inv, LeaseInv
<1> QED
  BY <1>1, <1>2 DEF LeaseInv

LEMMA OneIfBacked == LeaseInv => OneLiveGrant
<1> SUFFICES ASSUME LeaseInv, steady, NEW g \in held, NEW h \in held,
                    g.record.resource = h.record.resource,
                    clock < g.record.expires, clock < h.record.expires
             PROVE  g = h
  BY DEF OneLiveGrant
<1>1. /\ g \in Grants /\ h \in Grants
      /\ file[g.lease] = g.record /\ file[h.lease] = h.record
  BY DEF LeaseInv, Inv, TypeOK, Backed
<1>2. g.lease = h.lease
  BY <1>1, RecordFacts DEF LeaseInv, Inv, OneHolder, OnFile, Grants
<1> QED
  BY <1>1, <1>2 DEF Grants

\* While the clock has only advanced and the file has stayed, no two callers
\* hold an unexpired lease of one resource, for every set of leases and threads.
THEOREM LeasesExclude == Spec => []OneLiveGrant
  BY LeaseInvInit, LeaseInvStep, OneIfBacked, PTL DEF Spec

-----------------------------------------------------------------------------
(* The mutual exclusion with fencing. *)

\* What a step tells is then on file; other steps tell nothing, and nothing comes
\* into the hands of a caller or, while the clock advances, back into force.
LEMMA ToldIsOnFile ==
  ASSUME TypeOK, [Next]_vars
  PROVE  \/ UNCHANGED told /\ held' \subseteq held /\ (steady' => steady /\ clock <= clock')
         \/ \E g \in Grants :
              /\ told' = told \cup {g} /\ held' = held \cup {g}
              /\ file'[g.lease] = g.record
              /\ UNCHANGED <<clock, steady>>
<1> DEFINE Quiet == UNCHANGED told /\ held' \subseteq held /\ (steady' => steady /\ clock <= clock')
           Tells(g) == /\ told' = told \cup {g} /\ held' = held \cup {g}
                       /\ file'[g.lease] = g.record
                       /\ UNCHANGED <<clock, steady>>
<1>0. clock \in Nat
  BY DEF TypeOK
<1>1. CASE UNCHANGED <<told, held, clock, steady>>
  BY <1>0, <1>1
<1>2. ASSUME NEW t \in Threads, AcquireAgain(t)
      PROVE  \E g \in Grants : Tells(g)
  <2> DEFINE l0 == waiting[t].lease
             g0 == [lease |-> l0, record |-> file[l0]]
  <2>1. l0 \in Leases
    BY <1>2, EnterFacts DEF AcquireAgain, Calls
  <2>2. /\ OnFile(l0) /\ file'[l0] = file[l0]
        /\ told' = told \cup {g0} /\ held' = held \cup {g0}
        /\ UNCHANGED <<clock, steady>>
    BY <1>2, <2>1, KeptFacts DEF AcquireAgain, Settle, Tell, OnFile
  <2>3. g0 \in Grants
    BY <2>1, <2>2 DEF TypeOK, Stored, OnFile, Grants
  <2> QED
    BY <2>2, <2>3
<1>3. ASSUME NEW t \in Threads, NEW counting \in Writes, NEW write \in Writes,
             AcquireNew(t, counting, write)
      PROVE  Quiet \/ \E g \in Grants : Tells(g)
  <2> DEFINE call == waiting[t]
             rec  == [resource |-> call.resource, token |-> NextToken,
                      expires |-> call.now + call.ttl]
             g0   == [lease |-> call.lease, record |-> rec]
  <2>1. ASSUME ~(counting = "ok" /\ write = "ok")
        PROVE  Quiet
    BY <1>0, <1>3, <2>1 DEF AcquireNew
  <2>2. ASSUME counting = "ok", write = "ok"
        PROVE  \E g \in Grants : Tells(g)
    <3>1. call \in Calls /\ Kept(call.now) \in Stored
      BY <1>3, EnterFacts, KeptFacts DEF AcquireNew
    <3>2. rec \in Records
      <4>1. /\ call.resource \in Resources /\ call.now \in Nat
            /\ call.ttl \in TTLs /\ call.ttl \in Nat
        BY <3>1, LeaseAssumption DEF Calls
      <4>2. NextToken \in Nat \ {0} /\ call.now + call.ttl \in Nat
        BY <4>1 DEF TypeOK, NextToken
      <4> QED
        BY <4>1, <4>2 DEF Records
    <3>3. /\ file' = [Kept(call.now) EXCEPT ![call.lease] = rec]
          /\ told' = told \cup {g0} /\ held' = held \cup {g0}
          /\ UNCHANGED <<clock, steady>>
      BY <1>3, <2>2 DEF AcquireNew, Publish, Tell
    <3>4. call.lease \in Leases /\ file'[call.lease] = rec
      BY <3>1, <3>3 DEF Calls, Stored
    <3>5. g0 \in Grants
      BY <3>2, <3>4 DEF Grants
    <3>6. Tells(g0)
      BY <3>3, <3>4
    <3> HIDE DEF Tells, g0
    <3> QED
      BY <3>5, <3>6
  <2> HIDE DEF Quiet, Tells
  <2> QED
    BY <2>1, <2>2
<1>4. ASSUME NEW l \in Leases, NEW r \in Resources, GiveUp(l, r), UNCHANGED <<told, clock, steady>>
      PROVE  Quiet
  BY <1>0, <1>4 DEF GiveUp
<1>5. CASE Tick
  BY <1>0, <1>5 DEF Tick
<1>6. CASE TurnBack \/ LoseFile
  BY <1>6 DEF TurnBack, LoseFile
<1> QED
  BY <1>1, <1>2, <1>3, <1>4, <1>5, <1>6
  DEF Next, Acquire, Call, AcquireUnexpired, AcquireRefused, Release, ReleaseNothing,
      Restart, vars

\* A grant that is told outnumbers the others of its resource, and comes into
\* force beside none of them.
LEMMA TellFences ==
  ASSUME LeaseInv', NEW g \in Grants,
         told' = told \cup {g}, held' = held \cup {g},
         file'[g.lease] = g.record, UNCHANGED <<clock, steady>>
  PROVE  Fence!Tell(g)
<1>1. TypeOK' /\ g.lease \in Leases /\ OnFile(g.lease)'
  BY RecordFacts DEF LeaseInv, Inv, Grants, OnFile
<1>2. ASSUME NEW h \in told \ {g}
      PROVE  /\ g.record.token # h.record.token
             /\ Fence!SameResource(g, h) => Fence!Outnumbers(g, h)
  <2>1. g \in told' /\ h \in told' /\ g # h
    BY <1>2
  <2>2. g.record.token # h.record.token
    BY <2>1 DEF LeaseInv, Inv, Distinct, TokensUnique
  <2>3. g.record.resource = h.record.resource => h.record.token <= g.record.token
    BY <1>1, <2>1 DEF LeaseInv, Inv, Latest
  <2>4. g.record.token \in Nat /\ h.record.token \in Nat
    BY <1>1, <2>1 DEF TypeOK, Grants, Records
  <2> QED
    BY <2>2, <2>3, <2>4 DEF Fence!SameResource, Fence!Outnumbers
<1>3. \/ UNCHANGED InForce
      \/ /\ \A h \in InForce \ {g} : ~Fence!SameResource(g, h)
         /\ InForce' = InForce \cup {g}
  <2>1. CASE ~steady
    BY <2>1 DEF InForce
  <2>2. CASE steady /\ ~(clock < g.record.expires)
    BY <2>2 DEF InForce
  <2>3. CASE steady /\ clock < g.record.expires
    <3>1. InForce' = InForce \cup {g}
      BY <2>3 DEF InForce
    <3>2. \A h \in InForce \ {g} : h \in held' /\ clock' < h.record.expires
      BY <2>3 DEF InForce
    <3>3. OneLiveGrant'
      BY OneIfBacked, PTL
    <3>4. steady' /\ g \in held' /\ clock' < g.record.expires
      BY <2>3
    <3> QED
      BY <3>1, <3>2, <3>3, <3>4 DEF OneLiveGrant, Fence!SameResource
  <2> QED
    BY <2>1, <2>2, <2>3
<1> QED
  BY <1>2, <1>3 DEF Fence!Tell

\* The leases of a node are a mutual exclusion with fencing, for every set of
\* leases, resources, threads and lifetimes (service.py acquire_lease,
\* release_lease).
THEOREM LeasesFence == Spec => KeepsFence
<1>1. Init => Fence!FenceInit
  BY DEF Init, Fence!FenceInit, InForce
<1>2. LeaseInv /\ LeaseInv' /\ [Next]_vars => [Fence!FenceNext]_(Fence!fenceVars)
  <2> SUFFICES ASSUME LeaseInv, LeaseInv', [Next]_vars
               PROVE  [Fence!FenceNext]_(Fence!fenceVars)
    OBVIOUS
  <2>1. TypeOK /\ TypeOK'
    BY DEF LeaseInv, Inv
  <2>2. ASSUME UNCHANGED told, held' \subseteq held, steady' => steady /\ clock <= clock'
        PROVE  \E ended \in SUBSET InForce : Fence!End(ended)
    <3>1. InForce' \subseteq InForce
      <4> SUFFICES ASSUME NEW g \in InForce' PROVE g \in InForce
        OBVIOUS
      <4>1. steady' /\ g \in held' /\ clock' < g.record.expires
        BY DEF InForce
      <4>2. g.record.expires \in Nat /\ clock \in Nat /\ clock' \in Nat
        BY <2>1, <4>1 DEF TypeOK, Grants, Records
      <4> QED
        BY <2>2, <4>1, <4>2 DEF InForce
    <3>2. InForce' = InForce \ (InForce \ InForce')
      BY <3>1
    <3> QED
      BY <2>2, <3>2 DEF Fence!End
  <2>3. ASSUME NEW g \in Grants,
               told' = told \cup {g}, held' = held \cup {g},
               file'[g.lease] = g.record, UNCHANGED <<clock, steady>>
        PROVE  \E h \in told' : Fence!Tell(h)
    BY <2>3, TellFences
  <2> QED
    BY <2>1, <2>2, <2>3, ToldIsOnFile DEF Fence!FenceNext
<1> QED
  BY <1>1, <1>2, LeaseInvInit, LeaseInvStep, PTL DEF Spec, KeepsFence, Fence!FenceSpec

=============================================================================
