------------------------ MODULE RelayDelivery_proofs ------------------------
(***************************************************************************)
(* For any works, leases, callers and faults: the Controller's results are *)
(* what the node's journal says, nothing was started on the node that the  *)
(* Controller does not know of, and a lease is held if that was asked last.*)
(*                                                                         *)
(* The first invariant is about what is on its way.  Every start and stop  *)
(* that waits to be sent, or was sent, names a work the Controller expects *)
(* an answer about (Expected), and whatever the Controller forgets, it     *)
(* goes on expecting that.  Every answer on its way says what the journal  *)
(* says (Told), and goes on saying so, because a record of the node stays. *)
(*                                                                         *)
(* The second one is about its order: on the way from the node's answers   *)
(* over what it has to handle to what waits to be sent, nothing old about  *)
(* a lease follows what is wanted of it now (Faithful), and only the       *)
(* session the Controller accepted has such a way (Paired).                *)
(*                                                                         *)
(* The last part is about who uses the spool.  A work counts as started as *)
(* long as it is pending, waits to be stopped or has a result, so what     *)
(* takes it from one of these to another changes nothing for a requester,  *)
(* and what remains are the steps of RemoteExecution (Serving).            *)
(***************************************************************************)
EXTENDS RelayDelivery, TLAPS, SequenceTheorems

USE DeliveryAssumption

LeaseTypes == {"LEASE_ACQUIRE", "LEASE_RELEASE"}
Controls == [type : {"WORKLOAD_STOP"}, key : Stoppable, serial : Nat]
            \cup [type : LeaseTypes, key : Leases, serial : Nat]
Starts == [type : {"WORKLOAD_START"}, key : Works, serial : {0}]
Messages == {Welcome} \cup Starts \cup Controls

Expected ==
  {m \in Messages : m.type \in {"WORKLOAD_START", "WORKLOAD_STOP"} => StatusExpected(m.key)}
Sends == [conn : Sessions, message : Expected, by : {"caller", "sweep", "handler"}]

Statuses == [type : {"WORKLOAD_STATUS"}, key : Works, answer : Answers]
Acks == [type : LeaseTypes, key : Leases]

\* An answer agrees with the record of its work.
Agrees(w, answer) == journal[w] # "ABSENT" /\ answer.state = Recorded(w).state
Told == {Register} \cup Acks \cup {f \in Statuses : Agrees(f.key, f.answer)}

Stored ==
  /\ pending \in Seq(Works)
  /\ \A i, j \in 1..Len(pending) : pending[i] = pending[j] => i = j
  /\ controls \in Seq(Controls)
  /\ \A i, j \in 1..Len(controls) :
        controls[i].type = controls[j].type /\ controls[i].key = controls[j].key => i = j
  /\ results \in [Works -> Answers \cup {NoAnswer}]
  /\ spool \subseteq Spooled
  /\ requests \in [queued : Nat, stops : Nat, leases : Nat]
  /\ faults \in 0..MaxFaults

Linked ==
  /\ conn \in Sessions \cup {0} /\ session \in Sessions \cup {0}
  /\ handler.phase \in {"idle", "welcome", "works", "controls", "serve"}
  /\ conn = 0 <=> handler.phase = "idle"
  /\ stage \in {"off", "registering", "ready"}
  /\ session = 0 <=> stage = "off"

OnTheWay ==
  /\ handler.todo \in Seq(Expected)
  /\ sendq \in Seq(Sends)
  /\ down \in [Sessions -> Seq(Expected)]
  /\ up \in [Sessions -> Seq(Told)]

Noted ==
  /\ journal \in [Works -> {"ABSENT", "EXECUTING", "COMPLETED", "CANCELLED"}]
  /\ leased \in [Leases -> BOOLEAN]
  /\ \A w \in Works : journal[w] # "ABSENT" => StatusExpected(w)
  /\ \A w \in Works : results[w] # NoAnswer => Agrees(w, results[w])

DeliveryInv == Stored /\ Linked /\ OnTheWay /\ Noted

\* What no step takes back.
Forward ==
  \A w \in Works :
    /\ StatusExpected(w) => StatusExpected(w)'
    /\ journal[w] # "ABSENT" => journal'[w] = journal[w]

-----------------------------------------------------------------------------
(* Dictionaries. *)

LEMMA WithoutIs ==
  ASSUME NEW S, NEW s \in Seq(S), NEW places \in SUBSET (1..Len(s)), places # {}
  PROVE  \E i \in places :
           /\ Without(s, places) \in Seq(S)
           /\ Len(Without(s, places)) = Len(s) - 1
           /\ \A j \in 1..Len(s) - 1 :
                Without(s, places)[j] = IF j < i THEN s[j] ELSE s[j + 1]
<1> DEFINE i == CHOOSE k \in places : TRUE
<1>1. i \in places OBVIOUS
<1> HIDE DEF i
<1>2. i \in 1..Len(s) /\ Len(s) \in Nat BY <1>1, LenProperties
<1> DEFINE a == SubSeq(s, 1, i - 1)
           b == SubSeq(s, i + 1, Len(s))
<1>3. \A k \in 1..Len(s) : s[k] \in S OBVIOUS
<1>4. a \in Seq(S) /\ Len(a) = i - 1 /\ \A k \in 1..i - 1 : a[k] = s[k]
  <2>1. \A k \in 1..i - 1 : s[k] \in S BY <1>2, <1>3
  <2> QED BY <1>2, <2>1, SubSeqProperties
<1>5. b \in Seq(S) /\ Len(b) = Len(s) - i /\ \A k \in 1..Len(s) - i : b[k] = s[i + k]
  <2>1. \A k \in i + 1..Len(s) : s[k] \in S BY <1>2, <1>3
  <2>2. /\ b \in Seq(S)
        /\ Len(b) = IF i + 1 <= Len(s) THEN Len(s) - (i + 1) + 1 ELSE 0
        /\ \A k \in 1..Len(s) - (i + 1) + 1 : b[k] = s[i + 1 + k - 1]
    BY <1>2, <2>1, SubSeqProperties
  <2> QED BY <1>2, <2>2
<1>6. Without(s, places) = a \o b BY DEF Without, RemoveAt, i
<1> HIDE DEF a, b
<1>7. /\ a \o b \in Seq(S) /\ Len(a \o b) = Len(s) - 1
      /\ \A j \in 1..Len(s) - 1 : (a \o b)[j] = IF j <= i - 1 THEN a[j] ELSE b[j - (i - 1)]
  <2>1. /\ a \o b \in Seq(S) /\ Len(a \o b) = Len(a) + Len(b)
        /\ \A j \in 1..Len(a) + Len(b) :
             (a \o b)[j] = IF j <= Len(a) THEN a[j] ELSE b[j - Len(a)]
    <3>1. a \in Seq(S) /\ b \in Seq(S) BY <1>4, <1>5
    <3> QED BY <3>1, ConcatProperties, Zenon
  <2>2. Len(a) + Len(b) = Len(s) - 1 BY <1>2, <1>4, <1>5
  <2>3. Len(a) = i - 1 BY <1>4
  <2>4. ASSUME NEW j \in 1..Len(s) - 1
        PROVE  (a \o b)[j] = IF j <= i - 1 THEN a[j] ELSE b[j - (i - 1)]
    <3>1. j \in 1..Len(a) + Len(b) BY <2>2
    <3>2. (a \o b)[j] = IF j <= Len(a) THEN a[j] ELSE b[j - Len(a)] BY <2>1, <3>1, Zenon
    <3> QED BY <2>3, <3>2, Zenon
  <2>5. Len(a \o b) = Len(s) - 1 BY <2>1, <2>2
  <2> QED BY <2>1, <2>4, <2>5, Zenon
<1>8. ASSUME NEW j \in 1..Len(s) - 1
      PROVE  (a \o b)[j] = IF j < i THEN s[j] ELSE s[j + 1]
  <2>1. CASE j < i BY <1>2, <1>4, <1>7, <2>1
  <2>2. CASE ~(j < i)
    <3>1. j - (i - 1) \in 1..Len(s) - i /\ i + (j - (i - 1)) = j + 1 BY <1>2, <2>2
    <3>2. b[j - (i - 1)] = s[j + 1] BY <1>5, <3>1
    <3> QED BY <1>2, <1>7, <2>2, <3>2
  <2> QED BY <2>1, <2>2
<1> QED BY <1>1, <1>6, <1>7, <1>8

\* t has every entry of s but some of those looked for, each once.
Thinned(t, s, places) ==
  /\ \A k \in 1..Len(s) \ places : \E j \in 1..Len(t) : t[j] = s[k]
  /\ \A j, k \in 1..Len(t) : j # k =>
       \E m, n \in 1..Len(s) : m # n /\ t[j] = s[m] /\ t[k] = s[n]

LEMMA WithoutKeeps ==
  ASSUME NEW S, NEW s \in Seq(S), NEW places \in SUBSET (1..Len(s))
  PROVE  Without(s, places) \in Seq(S) /\ Thinned(Without(s, places), s, places)
<1>1. CASE places = {}
  <2>1. Without(s, places) = s BY <1>1 DEF Without
  <2>2. Thinned(s, s, places) BY <1>1 DEF Thinned
  <2> QED BY <2>1, <2>2
<1>2. CASE places # {}
  <2> DEFINE t == Without(s, places)
  <2>1. PICK i \in places :
           /\ t \in Seq(S) /\ Len(t) = Len(s) - 1
           /\ \A j \in 1..Len(s) - 1 : t[j] = IF j < i THEN s[j] ELSE s[j + 1]
    BY <1>2, WithoutIs
  <2> HIDE DEF t
  <2>2. i \in 1..Len(s) /\ Len(s) \in Nat OBVIOUS
  <2>3. ASSUME NEW k \in 1..Len(s) \ places PROVE \E j \in 1..Len(t) : t[j] = s[k]
    <3>1. CASE k < i BY <2>1, <2>2, <3>1
    <3>2. CASE i < k
      <4>1. k - 1 \in 1..Len(s) - 1 /\ ~(k - 1 < i) /\ (k - 1) + 1 = k BY <2>2, <3>2
      <4>2. t[k - 1] = s[k] BY <2>1, <4>1
      <4> QED BY <2>1, <4>1, <4>2
    <3>3. k # i OBVIOUS
    <3> QED BY <2>2, <3>1, <3>2, <3>3
  <2>4. ASSUME NEW j \in 1..Len(t), NEW k \in 1..Len(t), j # k
        PROVE  \E m, n \in 1..Len(s) : m # n /\ t[j] = s[m] /\ t[k] = s[n]
    <3> DEFINE m == IF j < i THEN j ELSE j + 1
               n == IF k < i THEN k ELSE k + 1
    <3>1. m \in 1..Len(s) /\ n \in 1..Len(s) /\ m # n BY <2>1, <2>2, <2>4
    <3>2. t[j] = s[m] /\ t[k] = s[n] BY <2>1, <2>2
    <3> QED BY <3>1, <3>2
  <2>5. t \in Seq(S) /\ Thinned(t, s, places) BY <2>1, <2>3, <2>4 DEF Thinned
  <2> QED BY <2>5 DEF t
<1> QED BY <1>1, <1>2

LEMMA InSet ==
  ASSUME NEW S, NEW s \in Seq(S), NEW x
  PROVE  x \in ToSet(s) <=> \E i \in 1..Len(s) : s[i] = x
  BY LenProperties DEF ToSet

LEMMA Appended ==
  ASSUME NEW S, NEW s \in Seq(S), NEW x \in S
  PROVE  /\ Append(s, x) \in Seq(S) /\ Len(Append(s, x)) = Len(s) + 1
         /\ \A i \in 1..Len(s) : Append(s, x)[i] = s[i]
         /\ Append(s, x)[Len(s) + 1] = x
         /\ Len(s) \in Nat
  OBVIOUS

-----------------------------------------------------------------------------
(* What goes on being so. *)

LEMMA Keyed ==
  /\ \A m \in Messages : m.type \in {"WORKLOAD_START", "WORKLOAD_STOP"} => m.key \in Works
  /\ \A m \in Messages : m.type = "WORKLOAD_STOP" => m.key \in Stoppable
  /\ \A m \in Messages : m.type \in LeaseTypes => m.key \in Leases
  BY DEF Messages, Controls, Starts, LeaseTypes, Welcome, Message, Works

LEMMA GrowExpected ==
  ASSUME Forward PROVE Expected \subseteq Expected'
<1> SUFFICES ASSUME NEW m \in Expected PROVE m \in Expected'
  OBVIOUS
<1>1. m \in Messages BY DEF Expected
<1>2. ASSUME m.type \in {"WORKLOAD_START", "WORKLOAD_STOP"} PROVE StatusExpected(m.key)'
  BY <1>1, <1>2, Keyed DEF Forward, Expected
<1> QED BY <1>1, <1>2 DEF Expected

LEMMA GrowTold ==
  ASSUME Forward PROVE Told \subseteq Told'
<1> SUFFICES ASSUME NEW f \in Statuses, Agrees(f.key, f.answer) PROVE Agrees(f.key, f.answer)'
  BY DEF Told
<1>1. f.key \in Works BY DEF Statuses
<1>2. journal'[f.key] = journal[f.key] BY <1>1 DEF Forward, Agrees
<1> QED BY <1>2 DEF Agrees, Recorded

LEMMA WaysStay ==
  ASSUME DeliveryInv, Forward
  PROVE  /\ handler.todo \in Seq(Expected') /\ sendq \in Seq(Sends')
         /\ down \in [Sessions -> Seq(Expected')] /\ up \in [Sessions -> Seq(Told')]
         /\ Expected \subseteq Expected' /\ Sends \subseteq Sends' /\ Told \subseteq Told'
<1>1. Expected \subseteq Expected' /\ Told \subseteq Told' BY GrowExpected, GrowTold
<1>2. Sends \subseteq Sends' BY <1>1 DEF Sends
<1>3. handler.todo \in Seq(Expected') BY <1>1, SeqMonotonic DEF DeliveryInv, OnTheWay
<1>4. sendq \in Seq(Sends') BY <1>2, SeqMonotonic DEF DeliveryInv, OnTheWay
<1>5. \A s \in Sessions : down[s] \in Seq(Expected')
  BY <1>1, SeqMonotonic DEF DeliveryInv, OnTheWay
<1>6. \A s \in Sessions : up[s] \in Seq(Told')
  BY <1>1, SeqMonotonic DEF DeliveryInv, OnTheWay
<1> QED BY <1>1, <1>2, <1>3, <1>4, <1>5, <1>6 DEF DeliveryInv, OnTheWay

LEMMA NotedStays ==
  ASSUME DeliveryInv, Forward, UNCHANGED <<journal, results, leased>>
  PROVE  Noted'
<1>1. \A w \in Works : Agrees(w, results[w])' <=> Agrees(w, results[w])
  BY DEF Agrees, Recorded
<1> QED BY <1>1 DEF DeliveryInv, Noted, Forward

\* Nothing the Controller knows of a work, and nothing the node does, changed.
LEMMA ForwardIfSame ==
  ASSUME UNCHANGED <<pending, controls, results, journal>>
  PROVE  Forward
  BY DEF Forward, StatusExpected, Stopping, PlacesOf

-----------------------------------------------------------------------------
(* The Controller's dictionaries. *)

LEMMA SendKeeps ==
  ASSUME DeliveryInv, Forward, NEW m \in Expected', NEW by \in {"caller", "sweep", "handler"},
         Send(m, by)
  PROVE  sendq' \in Seq(Sends')
<1>1. sendq \in Seq(Sends') BY WaysStay
<1>2. CASE conn = 0 BY <1>1, <1>2 DEF Send
<1>3. CASE conn # 0
  <2>1. conn \in Sessions BY <1>3 DEF DeliveryInv, Linked
  <2>2. [conn |-> conn, message |-> m, by |-> by] \in Sends' BY <2>1 DEF Sends
  <2>3. sendq' = Append(sendq, [conn |-> conn, message |-> m, by |-> by]) BY <1>3 DEF Send
  <2> QED BY <1>1, <2>2, <2>3, Appended
<1> QED BY <1>2, <1>3

LEMMA AssignKeeps ==
  ASSUME DeliveryInv, NEW w \in Works, NEW by \in {"caller", "sweep", "handler"},
         Assign(w, by), UNCHANGED <<controls, results, journal>>
  PROVE  /\ pending' \in Seq(Works)
         /\ \A i, j \in 1..Len(pending') : pending'[i] = pending'[j] => i = j
         /\ Forward /\ sendq' \in Seq(Sends')
<1>1. pending \in Seq(Works) /\ Len(pending) \in Nat BY LenProperties DEF DeliveryInv, Stored
<1> DEFINE Keeps ==
      /\ pending' \in Seq(Works)
      /\ \A i, j \in 1..Len(pending') : pending'[i] = pending'[j] => i = j
      /\ Forward
<1>2. ASSUME w \in ToSet(pending) PROVE Keeps
  <2>1. pending' = pending BY <1>2 DEF Assign
  <2>3. Forward BY <2>1, ForwardIfSame
  <2> QED BY <1>1, <2>1, <2>3 DEF DeliveryInv, Stored
<1>3. ASSUME w \notin ToSet(pending) PROVE Keeps
  <2>1. pending' = Append(pending, w) BY <1>3 DEF Assign
  <2>2. /\ pending' \in Seq(Works) /\ Len(pending') = Len(pending) + 1
        /\ \A i \in 1..Len(pending) : pending'[i] = pending[i]
        /\ pending'[Len(pending) + 1] = w
    BY <1>1, <2>1, Appended
  <2>3. \A i \in 1..Len(pending) : pending[i] # w BY <1>1, <1>3, InSet
  <2>4. \A i, j \in 1..Len(pending') : pending'[i] = pending'[j] => i = j
    <3> SUFFICES ASSUME NEW i \in 1..Len(pending'), NEW j \in 1..Len(pending'), i < j
                 PROVE  pending'[i] # pending'[j]
      BY <2>2, LenProperties
    <3>1. i \in 1..Len(pending) BY <1>1, <2>2
    <3>2. CASE j = Len(pending) + 1 BY <2>2, <2>3, <3>1, <3>2
    <3>3. CASE j \in 1..Len(pending) BY <2>2, <3>1, <3>3 DEF DeliveryInv, Stored
    <3> QED BY <1>1, <2>2, <3>2, <3>3
  <2>5. \A v \in ToSet(pending) : v \in ToSet(pending')
    BY <1>1, <2>2, InSet
  <2>6. Forward BY <2>5 DEF Forward, StatusExpected, Stopping, PlacesOf
  <2> QED BY <2>2, <2>4, <2>6
<1>4. Forward /\ pending' \in Seq(Works) BY <1>1, <1>2, <1>3
<1>5. w \in ToSet(pending')
  <2>1. CASE w \in ToSet(pending) BY <2>1 DEF Assign
  <2>2. CASE w \notin ToSet(pending)
    <3>1. pending' = Append(pending, w) BY <2>2 DEF Assign
    <3>2. Len(pending') = Len(pending) + 1 /\ pending'[Len(pending) + 1] = w
      BY <1>1, <3>1, Appended
    <3> QED BY <1>1, <1>4, <3>2, InSet
  <2> QED BY <2>1, <2>2
<1>6. StatusExpected(w)' BY <1>5 DEF StatusExpected
<1>7. Start(w) \in Messages BY DEF Start, Message, Messages, Starts
<1>8. Start(w).key = w BY DEF Start, Message
<1>9. Start(w) \in Expected' BY <1>6, <1>7, <1>8 DEF Expected
<1>10. Send(Start(w), by) BY DEF Assign
<1>11. sendq' \in Seq(Sends') BY <1>4, <1>9, <1>10, SendKeeps
<1> QED BY <1>2, <1>3, <1>11

LEMMA UnassignKeeps ==
  ASSUME DeliveryInv, NEW w \in Works, pending' = Without(pending, PlaceOf(w))
  PROVE  /\ pending' \in Seq(Works)
         /\ \A i, j \in 1..Len(pending') : pending'[i] = pending'[j] => i = j
         /\ \A v \in ToSet(pending) : v # w => v \in ToSet(pending')
<1>1. pending \in Seq(Works) /\ Len(pending) \in Nat
      /\ PlaceOf(w) \in SUBSET (1..Len(pending))
  BY LenProperties DEF DeliveryInv, Stored, PlaceOf
<1>2. pending' \in Seq(Works) /\ Thinned(pending', pending, PlaceOf(w))
  BY <1>1, WithoutKeeps
<1>3. \A i, j \in 1..Len(pending') : pending'[i] = pending'[j] => i = j
  BY <1>2 DEF DeliveryInv, Stored, Thinned
<1>4. ASSUME NEW v \in ToSet(pending), v # w PROVE v \in ToSet(pending')
  <2>1. PICK k \in 1..Len(pending) : pending[k] = v BY <1>1, InSet
  <2>2. k \notin PlaceOf(w) BY <1>4, <2>1 DEF PlaceOf
  <2>3. PICK j \in 1..Len(pending') : pending'[j] = v BY <1>2, <2>1, <2>2 DEF Thinned
  <2> QED BY <1>2, <2>3, InSet
<1> QED BY <1>2, <1>3, <1>4

Control(type, key) ==
  \/ type = "WORKLOAD_STOP" /\ key \in Stoppable
  \/ type \in LeaseTypes /\ key \in Leases

LEMMA QueueKeeps ==
  ASSUME DeliveryInv, NEW type, NEW key, Control(type, key), QueueControl(type, key)
  PROVE  /\ controls' \in Seq(Controls)
         /\ \A i, j \in 1..Len(controls') :
               controls'[i].type = controls'[j].type /\ controls'[i].key = controls'[j].key
               => i = j
         /\ \A v : Stopping(v) => Stopping(v)'
         /\ PlacesOf(type, key)' # {}
         /\ \E m \in Controls : m.type = type /\ m.key = key /\ Send(m, "caller")
<1> DEFINE same == PlacesOf(type, key)
<1>1. controls \in Seq(Controls) /\ Len(controls) \in Nat
  BY LenProperties DEF DeliveryInv, Stored
<1>2. CASE same = {}
  <2> DEFINE new == Message(type, key, Serial)
  <2>1. controls' = Append(controls, new) /\ Send(new, "caller") BY <1>2 DEF QueueControl
  <2>2. Serial \in Nat BY DEF Serial, DeliveryInv, Stored
  <2>3. new \in Controls /\ new.type = type /\ new.key = key
    BY <2>2 DEF Control, Controls, Message
  <2> HIDE DEF new
  <2>4. /\ controls' \in Seq(Controls) /\ Len(controls') = Len(controls) + 1
        /\ \A i \in 1..Len(controls) : controls'[i] = controls[i]
        /\ controls'[Len(controls) + 1] = new
    BY <1>1, <2>1, <2>3, Appended
  <2>5. \A i \in 1..Len(controls) : ~(controls[i].type = type /\ controls[i].key = key)
    BY <1>2 DEF PlacesOf
  <2>6. ASSUME NEW i \in 1..Len(controls'), NEW j \in 1..Len(controls'), i < j
        PROVE  ~(controls'[i].type = controls'[j].type /\ controls'[i].key = controls'[j].key)
    <3>1. i \in 1..Len(controls) BY <1>1, <2>4, <2>6
    <3>2. CASE j = Len(controls) + 1 BY <2>3, <2>4, <2>5, <3>1, <3>2
    <3>3. CASE j \in 1..Len(controls) BY <2>4, <2>6, <3>1, <3>3 DEF DeliveryInv, Stored
    <3> QED BY <1>1, <2>4, <3>2, <3>3
  <2>7. \A i, j \in 1..Len(controls') :
           controls'[i].type = controls'[j].type /\ controls'[i].key = controls'[j].key
           => i = j
    BY <2>4, <2>6, LenProperties
  <2>8. \A v : Stopping(v) => Stopping(v)' BY <1>1, <2>4 DEF Stopping, PlacesOf
  <2>9. PlacesOf(type, key)' # {} BY <1>1, <2>3, <2>4 DEF PlacesOf
  <2> QED BY <2>1, <2>3, <2>4, <2>7, <2>8, <2>9
<1>3. CASE same # {}
  <2> DEFINE new == controls[CHOOSE i \in same : TRUE]
  <2>1. controls' = controls /\ Send(new, "caller") BY <1>3 DEF QueueControl
  <2>2. PICK i \in same : new = controls[i] BY <1>3
  <2>3. new \in Controls /\ new.type = type /\ new.key = key
    BY <1>1, <2>2, ElementOfSeq DEF PlacesOf
  <2> HIDE DEF new
  <2>4. \A v : Stopping(v) => Stopping(v)' BY <2>1 DEF Stopping, PlacesOf
  <2>5. PlacesOf(type, key)' # {} BY <1>3, <2>1 DEF PlacesOf
  <2> QED BY <1>1, <2>1, <2>3, <2>4, <2>5 DEF DeliveryInv, Stored
<1> QED BY <1>2, <1>3

LEMMA CompleteKeeps ==
  ASSUME DeliveryInv, NEW type, NEW key, Complete(type, key)
  PROVE  /\ controls' \in Seq(Controls)
         /\ \A i, j \in 1..Len(controls') :
               controls'[i].type = controls'[j].type /\ controls'[i].key = controls'[j].key
               => i = j
         /\ \A v : Stopping(v) /\ ~(type = "WORKLOAD_STOP" /\ key = v) => Stopping(v)'
<1>1. controls \in Seq(Controls) /\ Len(controls) \in Nat
      /\ PlacesOf(type, key) \in SUBSET (1..Len(controls))
  BY LenProperties DEF DeliveryInv, Stored, PlacesOf
<1>2. controls' \in Seq(Controls) /\ Thinned(controls', controls, PlacesOf(type, key))
  BY <1>1, WithoutKeeps DEF Complete
<1>3. ASSUME NEW i \in 1..Len(controls'), NEW j \in 1..Len(controls'), i # j
      PROVE  ~(controls'[i].type = controls'[j].type /\ controls'[i].key = controls'[j].key)
  <2>1. PICK m, n \in 1..Len(controls) :
           m # n /\ controls'[i] = controls[m] /\ controls'[j] = controls[n]
    BY <1>2, <1>3 DEF Thinned
  <2>2. ~(controls[m].type = controls[n].type /\ controls[m].key = controls[n].key)
    BY <2>1 DEF DeliveryInv, Stored
  <2> QED BY <2>1, <2>2
<1>4. ASSUME NEW v, Stopping(v), ~(type = "WORKLOAD_STOP" /\ key = v) PROVE Stopping(v)'
  <2>1. PICK k \in 1..Len(controls) : controls[k].type = "WORKLOAD_STOP" /\ controls[k].key = v
    BY <1>4 DEF Stopping, PlacesOf
  <2>2. k \notin PlacesOf(type, key) BY <1>4, <2>1 DEF PlacesOf
  <2>3. PICK j \in 1..Len(controls') : controls'[j] = controls[k]
    BY <1>2, <2>1, <2>2 DEF Thinned
  <2> QED BY <2>1, <2>3 DEF Stopping, PlacesOf
<1> QED BY <1>2, <1>3, <1>4

\* What the lemmas of the actions need of every step.
LEMMA KeepsInv ==
  ASSUME DeliveryInv, Forward, Stored', Linked', Noted',
         handler'.todo \in Seq(Expected'), sendq' \in Seq(Sends'),
         down' \in [Sessions -> Seq(Expected')], up' \in [Sessions -> Seq(Told')]
  PROVE  DeliveryInv'
  BY DEF DeliveryInv, OnTheWay

\* Steps that change neither what the Controller keeps nor what the node has on record.
LEMMA PassingOn ==
  ASSUME DeliveryInv, UNCHANGED <<pending, controls, results, journal, leased, requests>>,
         spool' \subseteq spool, faults' \in 0..MaxFaults
  PROVE  Forward /\ Stored' /\ Noted'
<1>1. Forward BY ForwardIfSame
<1>2. Noted' BY <1>1, NotedStays
<1>3. Stored' BY DEF DeliveryInv, Stored
<1> QED BY <1>1, <1>2, <1>3

LEMMA OneFaultMore ==
  ASSUME DeliveryInv, faults < MaxFaults PROVE faults + 1 \in 0..MaxFaults
  BY DEF DeliveryInv, Stored

LEMMA HeadOf ==
  ASSUME NEW S, NEW s \in Seq(S), s # <<>> PROVE Head(s) \in S /\ Tail(s) \in Seq(S)
  BY HeadTailProperties

LEMMA EmptiedStays ==
  ASSUME NEW S, NEW s, NEW f \in [Sessions -> Seq(S)]
  PROVE  [f EXCEPT ![s] = <<>>] \in [Sessions -> Seq(S)]
<1> DEFINE none == <<>>
<1>1. none \in Seq(S) OBVIOUS
<1> HIDE DEF none
<1>2. [f EXCEPT ![s] = none] \in [Sessions -> Seq(S)] BY <1>1
<1> QED BY <1>2 DEF none

LEMMA HangUpKeeps ==
  ASSUME DeliveryInv, HangUp, UNCHANGED <<session, stage>>
  PROVE  Linked' /\ handler'.todo \in Seq(Expected') /\ sendq' \in Seq(Sends')
<1>1. Linked' BY DEF HangUp, Idle, DeliveryInv, Linked
<1>2. handler'.todo = <<>> /\ sendq' = <<>> BY DEF HangUp, Idle
<1> QED BY <1>1, <1>2

-----------------------------------------------------------------------------
(* The requests. *)

LEMMA QueueDirectKeeps ==
  ASSUME DeliveryInv, NEW w \in Works, QueueDirect(w) PROVE DeliveryInv'
<1>1. /\ Assign(w, "caller")
      /\ UNCHANGED <<controls, results, spool, conn, handler, down, up, session, stage,
                     journal, leased, faults>>
  BY DEF QueueDirect, node
<1>counted. requests' \in [queued : Nat, stops : Nat, leases : Nat]
  BY DEF QueueDirect, DeliveryInv, Stored
<1>2. /\ pending' \in Seq(Works)
      /\ \A i, j \in 1..Len(pending') : pending'[i] = pending'[j] => i = j
      /\ Forward /\ sendq' \in Seq(Sends')
  BY <1>1, AssignKeeps
<1>3. Stored' BY <1>1, <1>2, <1>counted DEF DeliveryInv, Stored
<1>4. Linked' BY <1>1 DEF DeliveryInv, Linked
<1>5. Noted' BY <1>1, <1>2, NotedStays
<1> QED BY <1>1, <1>2, <1>3, <1>4, <1>5, WaysStay, KeepsInv

LEMMA SweepKeeps ==
  ASSUME DeliveryInv, NEW w \in Works, Sweep(w) PROVE DeliveryInv'
<1>1. UNCHANGED <<controls, results, conn, handler, down, up, session, stage, journal, leased,
                  requests, faults>>
  BY DEF Sweep, node, callers
<1>2. Linked' BY <1>1 DEF DeliveryInv, Linked
<1>3. CASE Assign(w, "sweep") /\ UNCHANGED spool
  <2>1. /\ pending' \in Seq(Works)
        /\ \A i, j \in 1..Len(pending') : pending'[i] = pending'[j] => i = j
        /\ Forward /\ sendq' \in Seq(Sends')
    BY <1>1, <1>3, AssignKeeps
  <2>2. Stored' BY <1>1, <1>3, <2>1 DEF DeliveryInv, Stored
  <2>3. Noted' BY <1>1, <2>1, NotedStays
  <2> QED BY <1>1, <1>2, <2>1, <2>2, <2>3, WaysStay, KeepsInv
<1>4. CASE spool' = spool \ {w} /\ UNCHANGED <<pending, sendq>>
  <2>1. faults' \in 0..MaxFaults BY <1>1 DEF DeliveryInv, Stored
  <2>2. Forward /\ Stored' /\ Noted' BY <1>1, <1>4, <2>1, PassingOn
  <2> QED BY <1>1, <1>2, <1>4, <2>2, WaysStay, KeepsInv
<1> QED BY <1>3, <1>4 DEF Sweep

LEMMA QueueStopKeeps ==
  ASSUME DeliveryInv, NEW w \in Works, QueueStop(w) PROVE DeliveryInv'
<1>1. /\ QueueControl("WORKLOAD_STOP", w) /\ w \in Stoppable
      /\ pending' = Without(pending, PlaceOf(w))
      /\ UNCHANGED <<results, spool, conn, handler, down, up, session, stage,
                     journal, leased, faults>>
  BY DEF QueueStop, node
<1>counted. requests' \in [queued : Nat, stops : Nat, leases : Nat]
  <2>1. requests' = [requests EXCEPT !.stops = @ + 1] BY Zenon DEF QueueStop
  <2> QED BY <2>1 DEF DeliveryInv, Stored
<1>stoppable. w \in Stoppable BY <1>1
<1>kind. Control("WORKLOAD_STOP", w) BY <1>stoppable, Zenon DEF Control
<1>2. /\ controls' \in Seq(Controls)
      /\ \A i, j \in 1..Len(controls') :
            controls'[i].type = controls'[j].type /\ controls'[i].key = controls'[j].key
            => i = j
      /\ \A v : Stopping(v) => Stopping(v)'
      /\ PlacesOf("WORKLOAD_STOP", w)' # {}
      /\ \E m \in Controls : m.type = "WORKLOAD_STOP" /\ m.key = w /\ Send(m, "caller")
  BY <1>1, <1>kind, QueueKeeps, Zenon
<1>3. /\ pending' \in Seq(Works)
      /\ \A i, j \in 1..Len(pending') : pending'[i] = pending'[j] => i = j
      /\ \A v \in ToSet(pending) : v # w => v \in ToSet(pending')
  BY <1>1, UnassignKeeps
<1>4. Stopping(w)' BY <1>2 DEF Stopping
<1>5. Forward BY <1>1, <1>2, <1>3, <1>4 DEF Forward, StatusExpected
<1>6. sendq' \in Seq(Sends')
  <2>1. PICK m \in Controls : m.type = "WORKLOAD_STOP" /\ m.key = w /\ Send(m, "caller")
    BY <1>2
  <2>2. m \in Expected' BY <1>4, <2>1 DEF Expected, Messages, StatusExpected
  <2> QED BY <1>5, <2>1, <2>2, SendKeeps
<1>7. Stored' BY <1>1, <1>2, <1>3, <1>counted DEF DeliveryInv, Stored
<1>8. Linked' BY <1>1 DEF DeliveryInv, Linked
<1>9. Noted' BY <1>1, <1>5, NotedStays
<1> QED BY <1>1, <1>5, <1>6, <1>7, <1>8, <1>9, WaysStay, KeepsInv

LEMMA QueueLeaseKeeps ==
  ASSUME DeliveryInv, NEW l \in Leases, NEW type \in LeaseTypes, QueueLease(type, l)
  PROVE  DeliveryInv'
<1>1. /\ QueueControl(type, l)
      /\ UNCHANGED <<pending, results, spool, conn, handler, down, up, session, stage,
                     journal, leased, faults>>
  BY DEF QueueLease, node
<1>counted. requests' \in [queued : Nat, stops : Nat, leases : Nat]
  <2>1. requests' = [requests EXCEPT !.leases = @ + 1] BY Zenon DEF QueueLease
  <2> QED BY <2>1 DEF DeliveryInv, Stored
<1>kind. Control(type, l) BY DEF Control
<1>2. /\ controls' \in Seq(Controls)
      /\ \A i, j \in 1..Len(controls') :
            controls'[i].type = controls'[j].type /\ controls'[i].key = controls'[j].key
            => i = j
      /\ \A v : Stopping(v) => Stopping(v)'
      /\ \E m \in Controls : m.type = type /\ m.key = l /\ Send(m, "caller")
  BY <1>1, <1>kind, QueueKeeps, Zenon
<1>3. Forward BY <1>1, <1>2 DEF Forward, StatusExpected
<1>4. sendq' \in Seq(Sends')
  <2>1. PICK m \in Controls : m.type = type /\ m.key = l /\ Send(m, "caller")
    BY <1>2
  <2>2. m \in Expected' BY <2>1 DEF Expected, Messages, LeaseTypes
  <2> QED BY <1>3, <2>1, <2>2, SendKeeps
<1>5. Stored' BY <1>1, <1>2, <1>counted DEF DeliveryInv, Stored
<1>6. Linked' BY <1>1 DEF DeliveryInv, Linked
<1>7. Noted' BY <1>1, <1>3, NotedStays
<1> QED BY <1>1, <1>3, <1>4, <1>5, <1>6, <1>7, WaysStay, KeepsInv

-----------------------------------------------------------------------------
(* The connection. *)

LEMMA AcceptKeeps ==
  ASSUME DeliveryInv, NEW s \in Sessions, Accept(s) PROVE DeliveryInv'
<1>1. /\ UNCHANGED <<pending, controls, results, down, session, stage, journal, leased,
                     requests, faults>>
      /\ conn' = s /\ handler' = [phase |-> "welcome", todo |-> <<>>]
      /\ sendq' = <<[conn |-> s, message |-> Welcome, by |-> "handler"]>>
      /\ up[s] # <<>> /\ up' = [t \in Sessions |-> IF t = s THEN Tail(up[s]) ELSE <<>>]
      /\ spool' \subseteq spool
  BY DEF Accept, node, callers
<1>2. faults' \in 0..MaxFaults BY <1>1 DEF DeliveryInv, Stored
<1>3. Forward /\ Stored' /\ Noted' BY <1>1, <1>2, PassingOn
<1>4. s # 0 BY DEF Sessions
<1>5. Linked' BY <1>1, <1>4 DEF DeliveryInv, Linked
<1>6. Welcome \in Expected' BY DEF Welcome, Message, Expected, Messages
<1>7. [conn |-> s, message |-> Welcome, by |-> "handler"] \in Sends' BY <1>6 DEF Sends
<1>8. sendq' \in Seq(Sends') BY <1>1, <1>7
<1>9. \A t \in Sessions : up[t] \in Seq(Told') BY <1>3, WaysStay
<1>10. Tail(up[s]) \in Seq(Told') BY <1>1, <1>9, HeadOf
<1>11. up' \in [Sessions -> Seq(Told')] BY <1>1, <1>10
<1>12. handler'.todo \in Seq(Expected') BY <1>1
<1> QED BY <1>1, <1>3, <1>5, <1>8, <1>11, <1>12, WaysStay, KeepsInv

LEMMA SendNextKeeps ==
  ASSUME DeliveryInv, SendNext PROVE DeliveryInv'
<1>1. /\ UNCHANGED <<pending, controls, results, spool, conn, handler, up, session, stage,
                     journal, leased, requests, faults>>
      /\ sendq # <<>> /\ sendq' = Tail(sendq)
      /\ down' = IF Head(sendq).conn = session
                 THEN [down EXCEPT ![session] = Append(@, Head(sendq).message)] ELSE down
  BY DEF SendNext, controller, node, callers
<1>2. faults' \in 0..MaxFaults BY <1>1 DEF DeliveryInv, Stored
<1>3. Forward /\ Stored' /\ Noted' BY <1>1, <1>2, PassingOn
<1>4. Linked' BY <1>1 DEF DeliveryInv, Linked
<1>5. Head(sendq) \in Sends' /\ sendq' \in Seq(Sends') BY <1>1, <1>3, WaysStay, HeadOf
<1>6. down \in [Sessions -> Seq(Expected')] BY <1>3, WaysStay
<1>7. down' \in [Sessions -> Seq(Expected')]
  <2>1. CASE Head(sendq).conn = session
    <3>1. Head(sendq).conn \in Sessions /\ Head(sendq).message \in Expected'
      BY <1>5 DEF Sends
    <3>2. Append(down[session], Head(sendq).message) \in Seq(Expected')
      BY <1>6, <2>1, <3>1, Appended
    <3> QED BY <1>1, <1>6, <2>1, <3>2
  <2>2. CASE Head(sendq).conn # session BY <1>1, <1>6, <2>2
  <2> QED BY <2>1, <2>2
<1> QED BY <1>1, <1>3, <1>4, <1>5, <1>7, WaysStay, KeepsInv

LEMMA ResendKeeps ==
  ASSUME DeliveryInv, Resend PROVE DeliveryInv'
<1> DEFINE works == IF handler.phase = "welcome" THEN Assignments
                    ELSE IF handler.phase = "works" THEN handler.todo ELSE <<>>
           again == IF works # <<>> THEN works
                    ELSE IF handler.phase = "controls" THEN handler.todo ELSE controls
           phase == IF works # <<>> THEN "works" ELSE "controls"
           next  == [conn |-> conn, message |-> Head(again), by |-> "handler"]
<1>1. /\ UNCHANGED <<pending, controls, results, spool, conn, down, up, session, stage,
                     journal, leased, requests, faults>>
      /\ conn # 0
      /\ IF again = <<>>
         THEN handler' = [phase |-> "serve", todo |-> <<>>] /\ UNCHANGED sendq
         ELSE /\ handler' = [phase |-> phase, todo |-> Tail(again)]
              /\ sendq' = Append(sendq, next)
  BY DEF Resend, controller, node, callers
<1>2. faults' \in 0..MaxFaults BY <1>1 DEF DeliveryInv, Stored
<1>3. Forward /\ Stored' /\ Noted' BY <1>1, <1>2, PassingOn
<1>4. conn \in Sessions BY <1>1 DEF DeliveryInv, Linked
<1>5. handler'.phase \in {"serve", "works", "controls"} BY <1>1
<1>6. Linked' BY <1>1, <1>4, <1>5 DEF DeliveryInv, Linked
<1>7. Assignments \in Seq(Expected')
  <2>1. pending \in Seq(Works) /\ Len(pending) \in Nat
    BY LenProperties DEF DeliveryInv, Stored
  <2>2. ASSUME NEW i \in 1..Len(pending) PROVE Start(pending[i]) \in Expected'
    <3>1. pending[i] \in Works /\ pending[i] \in ToSet(pending) BY <2>1, InSet
    <3>2. StatusExpected(pending[i])
      BY <3>1 DEF StatusExpected
    <3>3. Start(pending[i]) \in Expected
      BY <3>1, <3>2 DEF Expected, Start, Message, Messages, Starts
    <3> QED BY <1>3, <3>3, GrowExpected
  <2>3. [i \in 1..Len(pending) |-> Start(pending[i])] \in Seq(Expected')
    BY <2>1, <2>2
  <2> QED BY <2>3 DEF Assignments
<1>8. controls \in Seq(Expected')
  <2>1. controls \in Seq(Controls) /\ Len(controls) \in Nat
    BY LenProperties DEF DeliveryInv, Stored
  <2>2. ASSUME NEW i \in 1..Len(controls) PROVE controls[i] \in Expected
    <3>1. controls[i] \in Controls BY <2>1
    <3>2. CASE controls[i].type = "WORKLOAD_STOP"
      <4>1. i \in PlacesOf("WORKLOAD_STOP", controls[i].key)
        BY <2>1, <3>2 DEF PlacesOf
      <4>2. Stopping(controls[i].key) BY <4>1 DEF Stopping
      <4>3. StatusExpected(controls[i].key) BY <4>2 DEF StatusExpected
      <4>4. controls[i] \in Messages BY <3>1 DEF Messages
      <4> QED BY <3>2, <4>3, <4>4 DEF Expected
    <3>3. CASE controls[i].type \in LeaseTypes
      BY <3>1, <3>3 DEF Expected, Messages, LeaseTypes
    <3> QED BY <3>1, <3>2, <3>3 DEF Controls
  <2>3. controls \in Seq(Expected) BY <2>1, <2>2
  <2> QED BY <1>3, <2>3, GrowExpected, SeqMonotonic
<1>9. again \in Seq(Expected') BY <1>3, <1>7, <1>8, WaysStay
<1> HIDE DEF works, again, phase, next
<1>10. sendq \in Seq(Sends') BY <1>3, WaysStay
<1>11. handler'.todo \in Seq(Expected') /\ sendq' \in Seq(Sends')
  <2>1. CASE again = <<>>
    <3>1. handler' = [phase |-> "serve", todo |-> <<>>] /\ sendq' = sendq BY <1>1, <2>1
    <3> QED BY <1>10, <3>1
  <2>2. CASE again # <<>>
    <3>1. Head(again) \in Expected' /\ Tail(again) \in Seq(Expected') BY <1>9, <2>2, HeadOf
    <3>2. next \in Sends' BY <1>4, <3>1 DEF Sends, next
    <3>3. /\ handler' = [phase |-> phase, todo |-> Tail(again)]
          /\ sendq' = Append(sendq, next)
      BY <1>1, <2>2
    <3>4. sendq' \in Seq(Sends') BY <1>10, <3>2, <3>3, Appended
    <3> QED BY <3>1, <3>3, <3>4
  <2> QED BY <2>1, <2>2
<1> QED BY <1>1, <1>3, <1>6, <1>11, WaysStay, KeepsInv

LEMMA NoticeClosedKeeps ==
  ASSUME DeliveryInv, NoticeClosed PROVE DeliveryInv'
<1>1. /\ UNCHANGED <<pending, controls, results, down, session, stage, journal, leased,
                     requests, faults>>
      /\ HangUp /\ spool' \subseteq spool
      /\ up' = [up EXCEPT ![conn] = <<>>]
  BY DEF NoticeClosed, Refused, node, callers
<1>2. faults' \in 0..MaxFaults BY <1>1 DEF DeliveryInv, Stored
<1>3. Forward /\ Stored' /\ Noted' BY <1>1, <1>2, PassingOn
<1>4. up' \in [Sessions -> Seq(Told')] BY <1>1, <1>3, WaysStay, EmptiedStays
<1> QED BY <1>1, <1>3, <1>4, HangUpKeeps, WaysStay, KeepsInv

LEMMA RestartControllerKeeps ==
  ASSUME DeliveryInv, RestartController PROVE DeliveryInv'
<1>1. /\ UNCHANGED <<pending, controls, results, spool, down, session, stage, journal, leased,
                     requests>>
      /\ HangUp /\ up' = [s \in Sessions |-> <<>>]
      /\ faults < MaxFaults /\ faults' = faults + 1
  BY DEF RestartController, controller, node, callers
<1>2. faults' \in 0..MaxFaults BY <1>1, OneFaultMore
<1>3. Forward /\ Stored' /\ Noted' BY <1>1, <1>2, PassingOn
<1>4. up' \in [Sessions -> Seq(Told')] BY <1>1
<1> QED BY <1>1, <1>3, <1>4, HangUpKeeps, WaysStay, KeepsInv

LEMMA TakeLeaseKeeps ==
  ASSUME DeliveryInv, TakeLease PROVE DeliveryInv'
<1> DEFINE ack == Head(up[conn])
<1>1. /\ UNCHANGED <<pending, results, spool, conn, handler, sendq, down, session, stage,
                     journal, leased, requests, faults>>
      /\ conn # 0 /\ up[conn] # <<>> /\ ack.type \in LeaseTypes
      /\ Complete(ack.type, ack.key)
      /\ up' = [up EXCEPT ![conn] = Tail(@)]
  BY DEF TakeLease, Receive, Served, node, callers, LeaseTypes
<1> HIDE DEF ack
<1>2. /\ controls' \in Seq(Controls)
      /\ \A i, j \in 1..Len(controls') :
            controls'[i].type = controls'[j].type /\ controls'[i].key = controls'[j].key
            => i = j
      /\ \A v : Stopping(v) /\ ~(ack.type = "WORKLOAD_STOP" /\ ack.key = v) => Stopping(v)'
  BY <1>1, CompleteKeeps, Zenon
<1>3. \A v : Stopping(v) => Stopping(v)' BY <1>1, <1>2 DEF LeaseTypes
<1>4. Forward BY <1>1, <1>3 DEF Forward, StatusExpected
<1>5. Stored' BY <1>1, <1>2 DEF DeliveryInv, Stored
<1>6. Linked' BY <1>1 DEF DeliveryInv, Linked
<1>7. Noted' BY <1>1, <1>4, NotedStays
<1>8. conn \in Sessions BY <1>1 DEF DeliveryInv, Linked
<1>9. up \in [Sessions -> Seq(Told')] BY <1>4, WaysStay
<1>10. Tail(up[conn]) \in Seq(Told') BY <1>1, <1>8, <1>9, HeadOf
<1>11. up' \in [Sessions -> Seq(Told')] BY <1>1, <1>9, <1>10
<1> QED BY <1>1, <1>4, <1>5, <1>6, <1>7, <1>11, WaysStay, KeepsInv

\* An answer that the handler takes is of a work and agrees with its record.
LEMMA Taken ==
  ASSUME DeliveryInv, Receive("WORKLOAD_STATUS")
  PROVE  /\ conn \in Sessions /\ up[conn] # <<>>
         /\ Head(up[conn]).key \in Works /\ Head(up[conn]).answer \in Answers
         /\ Agrees(Head(up[conn]).key, Head(up[conn]).answer)
<1>1. conn \in Sessions /\ up[conn] # <<>> /\ Head(up[conn]).type = "WORKLOAD_STATUS"
  BY DEF Receive, DeliveryInv, Linked
<1>2. up[conn] \in Seq(Told) BY <1>1 DEF DeliveryInv, OnTheWay
<1>3. Head(up[conn]) \in Told BY <1>1, <1>2, HeadOf
<1> DEFINE f == Head(up[conn])
<1> HIDE DEF f
<1>4. f \in Told /\ f.type = "WORKLOAD_STATUS" BY <1>1, <1>3 DEF f
<1>5. f \in Statuses /\ Agrees(f.key, f.answer)
  BY <1>4 DEF Told, Register, Acks, LeaseTypes
<1>6. f.key \in Works /\ f.answer \in Answers BY <1>5 DEF Statuses
<1> QED BY <1>1, <1>5, <1>6 DEF f

LEMMA RecordKeeps ==
  ASSUME DeliveryInv, NEW w \in Works, NEW answer \in Answers, Agrees(w, answer),
         Record(w, answer), UNCHANGED <<journal, leased>>,
         \A v : v # w /\ Stopping(v) => Stopping(v)'
  PROVE  /\ results' \in [Works -> Answers \cup {NoAnswer}]
         /\ pending' \in Seq(Works)
         /\ \A i, j \in 1..Len(pending') : pending'[i] = pending'[j] => i = j
         /\ Forward /\ Noted'
<1>1. /\ results \in [Works -> Answers \cup {NoAnswer}]
      /\ results' = [results EXCEPT ![w] = IF results[w] = NoAnswer THEN answer ELSE results[w]]
      /\ pending' = Without(pending, PlaceOf(w))
  BY DEF Record, DeliveryInv, Stored
<1>2. answer # NoAnswer BY DEF Answers, NoAnswer, States
<1> HIDE DEF Answers, NoAnswer
<1>3. results' \in [Works -> Answers \cup {NoAnswer}] BY <1>1
<1>4. results'[w] # NoAnswer BY <1>1, <1>2
<1>5. \A v \in Works : v # w => results'[v] = results[v] BY <1>1
<1>6. /\ pending' \in Seq(Works)
      /\ \A i, j \in 1..Len(pending') : pending'[i] = pending'[j] => i = j
      /\ \A v \in ToSet(pending) : v # w => v \in ToSet(pending')
  BY <1>1, UnassignKeeps
<1>7. Forward BY <1>4, <1>5, <1>6 DEF Forward, StatusExpected
<1>8. \A v \in Works : journal'[v] # "ABSENT" => StatusExpected(v)'
  BY <1>7 DEF Forward, DeliveryInv, Noted
<1>9. ASSUME NEW v \in Works, results'[v] # NoAnswer PROVE Agrees(v, results[v])'
  <2>1. Agrees(v, results'[v])
    <3>1. CASE v = w /\ results[w] = NoAnswer BY <1>1, <3>1
    <3>2. CASE ~(v = w /\ results[w] = NoAnswer)
      <4>1. results'[v] = results[v] BY <1>1, <1>5, <3>2
      <4> QED BY <1>9, <4>1 DEF DeliveryInv, Noted
    <3> QED BY <3>1, <3>2
  <2> QED BY <2>1 DEF Agrees, Recorded
<1>10. Noted' BY <1>8, <1>9 DEF DeliveryInv, Noted
<1> QED BY <1>3, <1>6, <1>7, <1>10

LEMMA TakeStatusKeeps ==
  ASSUME DeliveryInv, TakeStatus PROVE DeliveryInv'
<1> DEFINE w == Head(up[conn]).key
           answer == Head(up[conn]).answer
<1>1. /\ Receive("WORKLOAD_STATUS")
      /\ UNCHANGED <<down, session, stage, journal, leased, requests, faults>>
      /\ \/ Refused /\ UNCHANGED <<pending, controls, results>>
         \/ /\ Record(w, answer) /\ Complete("WORKLOAD_STOP", w) /\ Served
            /\ spool' = spool \ {w}
  BY DEF TakeStatus, node, callers
<1>2. /\ conn \in Sessions /\ up[conn] # <<>> /\ w \in Works /\ answer \in Answers
      /\ Agrees(w, answer)
  BY <1>1, Taken
<1> HIDE DEF w, answer
<1>3. faults' \in 0..MaxFaults BY <1>1 DEF DeliveryInv, Stored
<1>4. CASE Refused /\ UNCHANGED <<pending, controls, results>>
  <2>1. HangUp /\ spool' \subseteq spool /\ up' = [up EXCEPT ![conn] = <<>>]
    BY <1>4 DEF Refused
  <2>2. Forward /\ Stored' /\ Noted' BY <1>1, <1>3, <1>4, <2>1, PassingOn
  <2>3. up' \in [Sessions -> Seq(Told')] BY <2>1, <2>2, WaysStay, EmptiedStays
  <2> QED BY <1>1, <2>1, <2>2, <2>3, HangUpKeeps, WaysStay, KeepsInv
<1>5. CASE /\ Record(w, answer) /\ Complete("WORKLOAD_STOP", w) /\ Served
           /\ spool' = spool \ {w}
  <2>1. /\ controls' \in Seq(Controls)
        /\ \A i, j \in 1..Len(controls') :
              controls'[i].type = controls'[j].type /\ controls'[i].key = controls'[j].key
              => i = j
        /\ \A v : Stopping(v) /\ ~("WORKLOAD_STOP" = "WORKLOAD_STOP" /\ w = v) => Stopping(v)'
    BY <1>5, CompleteKeeps, Zenon
  <2>2. \A v : v # w /\ Stopping(v) => Stopping(v)' BY <2>1, Zenon
  <2>3. /\ results' \in [Works -> Answers \cup {NoAnswer}]
        /\ pending' \in Seq(Works)
        /\ \A i, j \in 1..Len(pending') : pending'[i] = pending'[j] => i = j
        /\ Forward /\ Noted'
    BY <1>1, <1>2, <1>5, <2>2, RecordKeeps
  <2>4. Stored' BY <1>1, <1>5, <2>1, <2>3 DEF DeliveryInv, Stored
  <2>5. /\ UNCHANGED <<conn, handler, sendq>>
        /\ up' = [up EXCEPT ![conn] = Tail(@)]
    BY <1>5 DEF Served
  <2>6. Linked' BY <1>1, <2>5 DEF DeliveryInv, Linked
  <2>7. up \in [Sessions -> Seq(Told')] BY <2>3, WaysStay
  <2>8. Tail(up[conn]) \in Seq(Told') BY <1>2, <2>7, HeadOf
  <2>9. up' \in [Sessions -> Seq(Told')] BY <2>5, <2>7, <2>8
  <2> QED BY <1>1, <2>3, <2>4, <2>5, <2>6, <2>9, WaysStay, KeepsInv
<1> QED BY <1>1, <1>4, <1>5

LEMMA TakeStatusTornKeeps ==
  ASSUME DeliveryInv, TakeStatusTorn PROVE DeliveryInv'
<1> DEFINE w == Head(up[conn]).key
           answer == Head(up[conn]).answer
<1>1. /\ Receive("WORKLOAD_STATUS") /\ Record(w, answer) /\ HangUp
      /\ UNCHANGED <<controls, spool, down, session, stage, journal, leased, requests>>
      /\ up' = [up EXCEPT ![conn] = <<>>]
      /\ faults < MaxFaults /\ faults' = faults + 1
  BY DEF TakeStatusTorn, node, callers
<1>2. /\ w \in Works /\ answer \in Answers /\ Agrees(w, answer)
  BY <1>1, Taken
<1> HIDE DEF w, answer
<1>3. faults' \in 0..MaxFaults BY <1>1, OneFaultMore
<1>4. \A v : v # w /\ Stopping(v) => Stopping(v)' BY <1>1 DEF Stopping, PlacesOf
<1>5. /\ results' \in [Works -> Answers \cup {NoAnswer}]
      /\ pending' \in Seq(Works)
      /\ \A i, j \in 1..Len(pending') : pending'[i] = pending'[j] => i = j
      /\ Forward /\ Noted'
  BY <1>1, <1>2, <1>4, RecordKeeps
<1>6. Stored' BY <1>1, <1>3, <1>5 DEF DeliveryInv, Stored
<1>7. up' \in [Sessions -> Seq(Told')] BY <1>1, <1>5, WaysStay, EmptiedStays
<1> QED BY <1>1, <1>5, <1>6, <1>7, HangUpKeeps, WaysStay, KeepsInv

-----------------------------------------------------------------------------
(* The node. *)

LEMMA StoredStays ==
  ASSUME DeliveryInv, UNCHANGED <<pending, controls, results, spool, requests>>,
         faults' \in 0..MaxFaults
  PROVE  Stored'
  BY DEF DeliveryInv, Stored

LEMMA Handled ==
  ASSUME DeliveryInv, NEW type, Handle(type)
  PROVE  /\ session \in Sessions /\ down[session] # <<>>
         /\ Head(down[session]) \in Expected /\ Head(down[session]).type = type
<1>1. session \in Sessions /\ down[session] # <<>> /\ Head(down[session]).type = type
  BY DEF Handle, DeliveryInv, Linked
<1>2. down[session] \in Seq(Expected) BY <1>1 DEF DeliveryInv, OnTheWay
<1> QED BY <1>1, <1>2, HeadOf

LEMMA ReplyKeeps ==
  ASSUME DeliveryInv, Forward, session \in Sessions, down[session] # <<>>,
         NEW m \in Told', Reply(m)
  PROVE  down' \in [Sessions -> Seq(Expected')] /\ up' \in [Sessions -> Seq(Told')]
<1>1. down \in [Sessions -> Seq(Expected')] /\ up \in [Sessions -> Seq(Told')]
  BY WaysStay
<1>2. Tail(down[session]) \in Seq(Expected') BY <1>1, HeadOf
<1>3. Append(up[session], m) \in Seq(Told') BY <1>1, Appended
<1>4. /\ down' = [down EXCEPT ![session] = Tail(down[session])]
      /\ up' = [up EXCEPT ![session] = Append(up[session], m)]
  BY DEF Reply
<1> QED BY <1>1, <1>2, <1>3, <1>4

LEMMA LeaveKeeps ==
  ASSUME DeliveryInv, Forward, Leave, UNCHANGED <<conn, handler>>
  PROVE  Linked' /\ down' \in [Sessions -> Seq(Expected')]
<1>1. Linked' BY DEF Leave, DeliveryInv, Linked
<1>2. down' = [down EXCEPT ![session] = <<>>] BY DEF Leave
<1> QED BY <1>1, <1>2, WaysStay, EmptiedStays

\* A record that is made of a work the Controller expects an answer about.
LEMMA RecordMade ==
  ASSUME DeliveryInv, NEW w \in Works, StatusExpected(w), journal[w] = "ABSENT",
         NEW record \in {"EXECUTING", "COMPLETED", "CANCELLED"},
         journal' = [journal EXCEPT ![w] = record],
         UNCHANGED <<pending, controls, results, leased>>
  PROVE  Forward /\ Noted' /\ journal'[w] = record
<1>1. /\ journal' \in [Works -> {"ABSENT", "EXECUTING", "COMPLETED", "CANCELLED"}]
      /\ journal'[w] = record
      /\ \A v \in Works : v # w => journal'[v] = journal[v]
  BY DEF DeliveryInv, Noted
<1>2. \A v \in Works : StatusExpected(v) => StatusExpected(v)'
  BY DEF StatusExpected, Stopping, PlacesOf
<1>3. Forward BY <1>1, <1>2 DEF Forward
<1>4. \A v \in Works : journal'[v] # "ABSENT" => StatusExpected(v)'
  BY <1>1, <1>2 DEF DeliveryInv, Noted
<1>5. ASSUME NEW v \in Works, results'[v] # NoAnswer PROVE Agrees(v, results[v])'
  <2>1. Agrees(v, results[v]) BY <1>5 DEF DeliveryInv, Noted
  <2>2. v # w BY <2>1 DEF Agrees
  <2>3. journal'[v] = journal[v] BY <1>1, <2>2
  <2> QED BY <2>1, <2>3 DEF Agrees, Recorded
<1>6. Noted' BY <1>1, <1>4, <1>5 DEF DeliveryInv, Noted
<1> QED BY <1>1, <1>3, <1>6

\* The two fields of what the journal tells.
LEMMA RecordedIs ==
  ASSUME NEW w \in Works, journal[w] \in {"EXECUTING", "COMPLETED", "CANCELLED"}
  PROVE  /\ Recorded(w) \in Answers
         /\ \A stop \in {"none", "before", "terminal", "in_flight"} :
              /\ [Recorded(w) EXCEPT !.stop = stop] \in Answers
              /\ [Recorded(w) EXCEPT !.stop = stop].state = Recorded(w).state
<1>1. CASE journal[w] = "COMPLETED" BY <1>1 DEF Recorded, Answers, States
<1>2. CASE journal[w] = "CANCELLED" BY <1>2 DEF Recorded, Answers, States
<1>3. CASE journal[w] = "EXECUTING" BY <1>3 DEF Recorded, Answers, States
<1> QED BY <1>1, <1>2, <1>3

LEMMA ConnectKeeps ==
  ASSUME DeliveryInv, Connect PROVE DeliveryInv'
<1>1. PICK s \in Sessions :
        /\ UNCHANGED <<pending, controls, results, spool, conn, handler, sendq, journal, leased,
                       requests, faults>>
        /\ session' = s /\ stage' = "registering"
        /\ up' = [up EXCEPT ![s] = <<Register>>]
        /\ down' = [down EXCEPT ![s] = <<>>]
  BY DEF Connect, controller, callers
<1>2. faults' \in 0..MaxFaults BY <1>1 DEF DeliveryInv, Stored
<1>3. Forward /\ Stored' /\ Noted' BY <1>1, <1>2, PassingOn
<1>4. s # 0 BY DEF Sessions
<1>5. Linked' BY <1>1, <1>4 DEF DeliveryInv, Linked
<1>6. down' \in [Sessions -> Seq(Expected')] BY <1>1, <1>3, WaysStay, EmptiedStays
<1>7. <<Register>> \in Seq(Told')
  <2>1. Register \in Told' BY DEF Told
  <2> QED BY <2>1
<1>8. up \in [Sessions -> Seq(Told')] BY <1>3, WaysStay
<1> DEFINE first == <<Register>>
<1> HIDE DEF first
<1>9. up' \in [Sessions -> Seq(Told')]
  <2>1. up' = [up EXCEPT ![s] = first] /\ first \in Seq(Told') BY <1>1, <1>7 DEF first
  <2> QED BY <1>8, <2>1
<1> QED BY <1>1, <1>3, <1>5, <1>6, <1>9, WaysStay, KeepsInv

LEMMA NoticeRefusedKeeps ==
  ASSUME DeliveryInv, NoticeRefused PROVE DeliveryInv'
<1>1. /\ UNCHANGED <<pending, controls, results, spool, conn, handler, sendq, journal, leased,
                     requests, faults>>
      /\ Leave /\ up' = [up EXCEPT ![session] = <<>>]
  BY DEF NoticeRefused, controller, callers
<1>2. faults' \in 0..MaxFaults BY <1>1 DEF DeliveryInv, Stored
<1>3. Forward /\ Stored' /\ Noted' BY <1>1, <1>2, PassingOn
<1>4. up' \in [Sessions -> Seq(Told')] BY <1>1, <1>3, WaysStay, EmptiedStays
<1> QED BY <1>1, <1>3, <1>4, LeaveKeeps, WaysStay, KeepsInv

LEMMA WelcomedKeeps ==
  ASSUME DeliveryInv, Welcomed PROVE DeliveryInv'
<1>1. /\ UNCHANGED <<pending, controls, results, spool, conn, handler, sendq, up, session,
                     journal, leased, requests, faults>>
      /\ Handle("WELCOME") /\ stage' = "ready"
      /\ down' = [down EXCEPT ![session] = Tail(down[session])]
  BY DEF Welcomed, controller, callers
<1>2. faults' \in 0..MaxFaults BY <1>1 DEF DeliveryInv, Stored
<1>3. Forward /\ Stored' /\ Noted' BY <1>1, <1>2, PassingOn
<1>4. session \in Sessions /\ down[session] # <<>> BY <1>1, Handled
<1>5. session # 0 BY <1>4 DEF Sessions
<1>6. Linked' BY <1>1, <1>5 DEF DeliveryInv, Linked
<1>7. down \in [Sessions -> Seq(Expected')] BY <1>3, WaysStay
<1>8. Tail(down[session]) \in Seq(Expected') BY <1>4, <1>7, HeadOf
<1>9. down' \in [Sessions -> Seq(Expected')] BY <1>1, <1>7, <1>8
<1> QED BY <1>1, <1>3, <1>6, <1>9, WaysStay, KeepsInv

LEMMA HandleLeaseKeeps ==
  ASSUME DeliveryInv, HandleLease PROVE DeliveryInv'
<1> DEFINE control == Head(down[session])
           granted == control.type = "LEASE_ACQUIRE"
<1>1. PICK type \in LeaseTypes :
        /\ UNCHANGED <<pending, controls, results, spool, conn, handler, sendq, journal,
                       requests, faults>>
        /\ Handle(type)
        /\ leased' = [leased EXCEPT ![control.key] = granted]
        /\ Reply([type |-> control.type, key |-> control.key])
  BY DEF HandleLease, controller, callers, LeaseTypes
<1>2. /\ session \in Sessions /\ down[session] # <<>>
      /\ control \in Expected /\ control.type \in LeaseTypes
  BY <1>1, Handled
<1>3. Forward BY <1>1, ForwardIfSame
<1>4. [type |-> control.type, key |-> control.key] \in Told'
  <2>1. control.key \in Leases BY <1>2, Keyed DEF Expected
  <2> QED BY <1>2, <2>1 DEF Told, Acks
<1>5. down' \in [Sessions -> Seq(Expected')] /\ up' \in [Sessions -> Seq(Told')]
  BY <1>1, <1>2, <1>3, <1>4, ReplyKeeps
<1>6. Stored' BY <1>1, StoredStays DEF DeliveryInv, Stored
<1>7. Linked' BY <1>1 DEF Reply, DeliveryInv, Linked
<1>8. leased' \in [Leases -> BOOLEAN]
  <2>1. granted \in BOOLEAN OBVIOUS
  <2>2. leased \in [Leases -> BOOLEAN] BY DEF DeliveryInv, Noted
  <2> HIDE DEF granted, control
  <2> QED BY <1>1, <2>1, <2>2, Zenon
<1>9. \A w \in Works : StatusExpected(w) => StatusExpected(w)' BY <1>3 DEF Forward
<1>10. \A w \in Works : Agrees(w, results[w])' <=> Agrees(w, results[w])
  BY <1>1 DEF Agrees, Recorded
<1>11. Noted' BY <1>1, <1>8, <1>9, <1>10 DEF DeliveryInv, Noted
<1> QED BY <1>1, <1>3, <1>5, <1>6, <1>7, <1>11, WaysStay, KeepsInv

LEMMA StopAnswered ==
  ASSUME DeliveryInv, NEW w \in Works, StatusExpected(w),
         journal' = [journal EXCEPT ![w] = IF journal[w] = "ABSENT" THEN "CANCELLED"
                                           ELSE journal[w]],
         UNCHANGED <<pending, controls, results, leased>>,
         NEW answer,
         answer = CASE journal[w] = "ABSENT" -> [state |-> "CANCELLED", stop |-> "before"]
                    [] journal[w] = "EXECUTING" -> [Recorded(w) EXCEPT !.stop = "in_flight"]
                    [] OTHER -> [Recorded(w) EXCEPT !.stop = "terminal"]
  PROVE  Forward /\ Noted' /\ Status(w, answer) \in Told'
<1>1. journal \in [Works -> {"ABSENT", "EXECUTING", "COMPLETED", "CANCELLED"}]
  BY DEF DeliveryInv, Noted
<1>2. CASE journal[w] = "ABSENT"
  <2>1. journal' = [journal EXCEPT ![w] = "CANCELLED"] BY <1>2
  <2>2. Forward /\ Noted' /\ journal'[w] = "CANCELLED" BY <1>2, <2>1, RecordMade
  <2>3. answer = [state |-> "CANCELLED", stop |-> "before"] BY <1>2
  <2>4. answer \in Answers BY <2>3 DEF Answers, States
  <2>5. Agrees(w, answer)' BY <2>2, <2>3 DEF Agrees, Recorded
  <2> QED BY <2>2, <2>4, <2>5 DEF Told, Status, Statuses
<1>3. CASE journal[w] # "ABSENT"
  <2>1. journal[w] \in {"EXECUTING", "COMPLETED", "CANCELLED"} BY <1>1, <1>3
  <2>2. journal' = journal BY <1>1, <1>3
  <2>3. Forward BY <2>2, ForwardIfSame
  <2>4. Noted' BY <2>2, <2>3, NotedStays
  <2>5. \/ answer = [Recorded(w) EXCEPT !.stop = "in_flight"]
        \/ answer = [Recorded(w) EXCEPT !.stop = "terminal"]
    BY <1>3
  <2>6. answer \in Answers /\ answer.state = Recorded(w).state
    BY <2>1, <2>5, RecordedIs
  <2>7. Agrees(w, answer)' BY <2>1, <2>2, <2>6 DEF Agrees, Recorded
  <2> QED BY <2>3, <2>4, <2>6, <2>7 DEF Told, Status, Statuses
<1> QED BY <1>2, <1>3

LEMMA HandleStopKeeps ==
  ASSUME DeliveryInv, HandleStop PROVE DeliveryInv'
<1> DEFINE w == Head(down[session]).key
           answer == CASE journal[w] = "ABSENT" -> [state |-> "CANCELLED", stop |-> "before"]
                       [] journal[w] = "EXECUTING" -> [Recorded(w) EXCEPT !.stop = "in_flight"]
                       [] OTHER -> [Recorded(w) EXCEPT !.stop = "terminal"]
<1>1. /\ UNCHANGED <<pending, controls, results, spool, conn, handler, sendq, leased,
                     requests, faults>>
      /\ Handle("WORKLOAD_STOP")
      /\ journal' = [journal EXCEPT ![w] = IF journal[w] = "ABSENT" THEN "CANCELLED"
                                           ELSE journal[w]]
      /\ Reply(Status(w, answer))
  BY DEF HandleStop, controller, callers
<1>2. /\ session \in Sessions /\ down[session] # <<>>
      /\ w \in Works /\ StatusExpected(w)
  BY <1>1, Handled, Keyed DEF Expected
<1> HIDE DEF w
<1>3. Forward /\ Noted' /\ Status(w, answer) \in Told' BY <1>1, <1>2, StopAnswered
<1> HIDE DEF answer
<1>4. down' \in [Sessions -> Seq(Expected')] /\ up' \in [Sessions -> Seq(Told')]
  BY <1>1, <1>2, <1>3, ReplyKeeps
<1>5. Stored' BY <1>1, StoredStays DEF DeliveryInv, Stored
<1>6. Linked' BY <1>1 DEF Reply, DeliveryInv, Linked
<1> QED BY <1>1, <1>3, <1>4, <1>5, <1>6, WaysStay, KeepsInv

LEMMA StartAnswered ==
  ASSUME DeliveryInv, NEW w \in Works, StatusExpected(w),
         UNCHANGED <<pending, controls, results, leased>>
  PROVE  /\ journal[w] = "ABSENT" /\ journal' = [journal EXCEPT ![w] = "COMPLETED"]
            => Forward /\ Noted'
               /\ Status(w, [state |-> "COMPLETED", stop |-> "none"]) \in Told'
         /\ journal[w] # "ABSENT" /\ UNCHANGED journal
            => Forward /\ Noted' /\ Status(w, Recorded(w)) \in Told'
<1>1. ASSUME journal[w] = "ABSENT", journal' = [journal EXCEPT ![w] = "COMPLETED"]
      PROVE  Forward /\ Noted'
             /\ Status(w, [state |-> "COMPLETED", stop |-> "none"]) \in Told'
  <2> DEFINE answer == [state |-> "COMPLETED", stop |-> "none"]
  <2>1. Forward /\ Noted' /\ journal'[w] = "COMPLETED" BY <1>1, RecordMade
  <2>2. answer \in Answers BY DEF Answers, States
  <2>3. Agrees(w, answer)' BY <2>1 DEF Agrees, Recorded
  <2> QED BY <2>1, <2>2, <2>3 DEF Told, Status, Statuses
<1>2. ASSUME journal[w] # "ABSENT", UNCHANGED journal
      PROVE  Forward /\ Noted' /\ Status(w, Recorded(w)) \in Told'
  <2>1. Forward BY <1>2, ForwardIfSame
  <2>2. Noted' BY <1>2, <2>1, NotedStays
  <2>3. journal[w] \in {"EXECUTING", "COMPLETED", "CANCELLED"} BY <1>2 DEF DeliveryInv, Noted
  <2>4. Recorded(w) \in Answers BY <2>3, RecordedIs
  <2>5. PICK answer \in Answers : answer = Recorded(w) BY <2>4
  <2>6. Agrees(w, answer)' BY <1>2, <2>5 DEF Agrees, Recorded
  <2>7. Status(w, answer) \in Told' BY <2>6 DEF Told, Status, Statuses
  <2> QED BY <2>1, <2>2, <2>5, <2>7
<1> QED BY <1>1, <1>2

LEMMA HandleStartKeeps ==
  ASSUME DeliveryInv, HandleStart PROVE DeliveryInv'
<1> DEFINE w == Head(down[session]).key
           done == [state |-> "COMPLETED", stop |-> "none"]
<1>1. /\ UNCHANGED <<pending, controls, results, spool, conn, handler, sendq, leased,
                     requests, faults>>
      /\ Handle("WORKLOAD_START")
      /\ \/ /\ journal[w] = "ABSENT" /\ journal' = [journal EXCEPT ![w] = "COMPLETED"]
            /\ Reply(Status(w, done))
         \/ /\ journal[w] # "ABSENT" /\ UNCHANGED journal
            /\ (Leave /\ UNCHANGED up) \/ Reply(Status(w, Recorded(w)))
  BY DEF HandleStart, controller, callers
<1>2. /\ session \in Sessions /\ down[session] # <<>>
      /\ w \in Works /\ StatusExpected(w)
  BY <1>1, Handled, Keyed DEF Expected
<1> HIDE DEF w
<1>3. /\ journal[w] = "ABSENT" /\ journal' = [journal EXCEPT ![w] = "COMPLETED"]
         => Forward /\ Noted' /\ Status(w, done) \in Told'
      /\ journal[w] # "ABSENT" /\ UNCHANGED journal
         => Forward /\ Noted' /\ Status(w, Recorded(w)) \in Told'
  BY <1>1, <1>2, StartAnswered
<1> HIDE DEF done
<1>4. Forward /\ Noted' BY <1>1, <1>3
<1>5. Stored' BY <1>1, StoredStays DEF DeliveryInv, Stored
<1>6. CASE Leave /\ UNCHANGED up BY <1>1, <1>4, <1>5, <1>6, LeaveKeeps, WaysStay, KeepsInv
<1>7. ASSUME NEW m, m \in Told', Reply(m) PROVE DeliveryInv'
  <2>1. down' \in [Sessions -> Seq(Expected')] /\ up' \in [Sessions -> Seq(Told')]
    BY <1>2, <1>4, <1>7, ReplyKeeps
  <2>2. Linked' BY <1>1, <1>7 DEF Reply, DeliveryInv, Linked
  <2> QED BY <1>1, <1>4, <1>5, <2>1, <2>2, WaysStay, KeepsInv
<1> QED BY <1>1, <1>3, <1>6, <1>7

LEMMA DieRunningKeeps ==
  ASSUME DeliveryInv, DieRunning PROVE DeliveryInv'
<1> DEFINE w == Head(down[session]).key
<1>1. /\ UNCHANGED <<pending, controls, results, spool, conn, handler, sendq, up, leased,
                     requests>>
      /\ Handle("WORKLOAD_START") /\ journal[w] = "ABSENT"
      /\ journal' = [journal EXCEPT ![w] = "EXECUTING"]
      /\ Leave
      /\ faults < MaxFaults /\ faults' = faults + 1
  BY DEF DieRunning, controller, callers
<1>2. w \in Works /\ StatusExpected(w) BY <1>1, Handled, Keyed DEF Expected
<1> HIDE DEF w
<1>3. Forward /\ Noted' BY <1>1, <1>2, RecordMade
<1>4. Stored' BY <1>1, OneFaultMore, StoredStays
<1> QED BY <1>1, <1>3, <1>4, LeaveKeeps, WaysStay, KeepsInv

LEMMA BreakKeeps ==
  ASSUME DeliveryInv, Break PROVE DeliveryInv'
<1>1. PICK n \in 0..Len(up[session]) :
        /\ UNCHANGED <<pending, controls, results, spool, conn, handler, sendq, journal, leased,
                       requests>>
        /\ session # 0 /\ up' = [up EXCEPT ![session] = SubSeq(up[session], 1, n)]
        /\ Leave
        /\ faults < MaxFaults /\ faults' = faults + 1
  BY DEF Break, controller, callers
<1>2. faults' \in 0..MaxFaults BY <1>1, OneFaultMore
<1>3. Forward /\ Stored' /\ Noted' BY <1>1, <1>2, PassingOn
<1>4. session \in Sessions BY <1>1 DEF DeliveryInv, Linked
<1>5. up \in [Sessions -> Seq(Told')] BY <1>3, WaysStay
<1>6. SubSeq(up[session], 1, n) \in Seq(Told')
  <2>1. up[session] \in Seq(Told') /\ Len(up[session]) \in Nat BY <1>4, <1>5, LenProperties
  <2>2. \A i \in 1..n : up[session][i] \in Told' BY <2>1
  <2> QED BY <2>1, <2>2, SubSeqProperties
<1>7. up' \in [Sessions -> Seq(Told')] BY <1>1, <1>5, <1>6
<1> QED BY <1>1, <1>3, <1>7, LeaveKeeps, WaysStay, KeepsInv

-----------------------------------------------------------------------------
(* The invariant. *)

LEMMA InitKeeps == Init => DeliveryInv
<1> SUFFICES ASSUME Init PROVE DeliveryInv
  OBVIOUS
<1>1. Stored
  <2>1. NoAnswer \in Answers \cup {NoAnswer} OBVIOUS
  <2>2. pending = <<>> /\ controls = <<>> /\ results = [w \in Works |-> NoAnswer]
        /\ spool = Spooled /\ requests = [queued |-> 0, stops |-> 0, leases |-> 0]
        /\ faults = 0
    BY DEF Init
  <2>3. results \in [Works -> Answers \cup {NoAnswer}] BY <2>1, <2>2
  <2> QED BY <2>2, <2>3 DEF Stored
<1>2. Linked BY DEF Init, Linked, Idle
<1>3. OnTheWay
  <2>1. handler.todo = <<>> /\ sendq = <<>> /\ down = [s \in Sessions |-> <<>>] /\ up = down
    BY DEF Init, Idle
  <2> QED BY <2>1 DEF OnTheWay
<1>4. Noted
  <2>1. /\ journal = [w \in Works |-> "ABSENT"] /\ leased = [l \in Leases |-> FALSE]
        /\ results = [w \in Works |-> NoAnswer]
    BY DEF Init
  <2>2. leased \in [Leases -> BOOLEAN] BY <2>1, Zenon
  <2>3. \A w \in Works : journal[w] = "ABSENT" /\ results[w] = NoAnswer BY <2>1
  <2> QED BY <2>1, <2>2, <2>3 DEF Noted
<1> QED BY <1>1, <1>2, <1>3, <1>4 DEF DeliveryInv

LEMMA StutterKeeps == DeliveryInv /\ UNCHANGED vars => DeliveryInv'
<1> SUFFICES ASSUME DeliveryInv, UNCHANGED vars PROVE DeliveryInv'
  OBVIOUS
<1>1. UNCHANGED <<pending, controls, results, spool, conn, handler, sendq, down, up, session,
                  stage, journal, leased, requests, faults>>
  BY DEF vars, controller, transport, node, callers
<1>2. faults' \in 0..MaxFaults BY <1>1 DEF DeliveryInv, Stored
<1>3. Forward /\ Stored' /\ Noted' BY <1>1, <1>2, PassingOn
<1>4. Linked' BY <1>1 DEF DeliveryInv, Linked
<1> QED BY <1>1, <1>3, <1>4, WaysStay, KeepsInv

LEMMA NextKeeps == DeliveryInv /\ [Next]_vars => DeliveryInv'
<1> SUFFICES ASSUME DeliveryInv, [Next]_vars PROVE DeliveryInv'
  OBVIOUS
<1>1. CASE Call
  <2>1. ASSUME NEW w \in Works, QueueDirect(w) PROVE DeliveryInv'
    BY <2>1, QueueDirectKeeps
  <2>2. ASSUME NEW w \in Works, QueueStop(w) PROVE DeliveryInv'
    BY <2>2, QueueStopKeeps
  <2>3. ASSUME NEW l \in Leases, NEW type \in LeaseTypes, QueueLease(type, l)
        PROVE  DeliveryInv'
    BY <2>3, QueueLeaseKeeps
  <2> QED BY <1>1, <2>1, <2>2, <2>3 DEF Call, LeaseTypes
<1>2. CASE Serve
  <2>1. ASSUME NEW s \in Sessions, Accept(s) PROVE DeliveryInv' BY <2>1, AcceptKeeps
  <2>2. CASE SendNext BY <2>2, SendNextKeeps
  <2>3. CASE Resend BY <2>3, ResendKeeps
  <2>4. CASE TakeStatus BY <2>4, TakeStatusKeeps
  <2>5. CASE TakeLease BY <2>5, TakeLeaseKeeps
  <2>6. CASE NoticeClosed BY <2>6, NoticeClosedKeeps
  <2> QED BY <1>2, <2>1, <2>2, <2>3, <2>4, <2>5, <2>6 DEF Serve
<1>3. CASE Run
  <2>1. CASE Connect BY <2>1, ConnectKeeps
  <2>2. CASE NoticeRefused BY <2>2, NoticeRefusedKeeps
  <2>3. CASE Welcomed BY <2>3, WelcomedKeeps
  <2>4. CASE HandleStart BY <2>4, HandleStartKeeps
  <2>5. CASE HandleStop BY <2>5, HandleStopKeeps
  <2>6. CASE HandleLease BY <2>6, HandleLeaseKeeps
  <2> QED BY <1>3, <2>1, <2>2, <2>3, <2>4, <2>5, <2>6 DEF Run
<1>4. ASSUME NEW w \in Works, Sweep(w) PROVE DeliveryInv' BY <1>4, SweepKeeps
<1>5. CASE Break BY <1>5, BreakKeeps
<1>6. CASE DieRunning BY <1>6, DieRunningKeeps
<1>7. CASE TakeStatusTorn BY <1>7, TakeStatusTornKeeps
<1>8. CASE RestartController BY <1>8, RestartControllerKeeps
<1>9. CASE UNCHANGED vars BY <1>9, StutterKeeps
<1> QED BY <1>1, <1>2, <1>3, <1>4, <1>5, <1>6, <1>7, <1>8, <1>9 DEF Next

LEMMA AlwaysDelivering == Spec => []DeliveryInv
<1>1. Init => DeliveryInv BY InitKeeps
<1>2. DeliveryInv /\ [Next]_vars => DeliveryInv' BY NextKeeps
<1> QED BY <1>1, <1>2, PTL DEF Spec

\* Every variable keeps its type: no work is assigned twice, no control of one
\* type and key is pending twice, and the connection and its handler go
\* together (NodeRelayServer, NodeRelayClient of relay.py).
THEOREM TypeCorrect == Spec => []TypeOK
<1>1. DeliveryInv => TypeOK
  <2> SUFFICES ASSUME DeliveryInv PROVE TypeOK
    OBVIOUS
  <2>1. pending \in Seq(Works) /\ controls \in Seq(Controls) BY DEF DeliveryInv, Stored
  <2>2. ToSet(pending) \subseteq Works BY <2>1, InSet
  <2>3. \A i \in 1..Len(controls) : controls[i].key \in Stoppable \cup Leases
    <3>1. \A c \in Controls : c.key \in Stoppable \cup Leases BY DEF Controls
    <3>2. \A i \in 1..Len(controls) : controls[i] \in Controls BY <2>1, ElementOfSeq
    <3> QED BY <3>1, <3>2
  <2> QED BY <2>2, <2>3 DEF DeliveryInv, Stored, Linked, Noted, TypeOK
<1> QED BY <1>1, AlwaysDelivering, PTL

\* What the Controller has recorded of a work is what the node's journal says,
\* for any works, callers, losses of the session and restarts of both sides
\* (_handle_message and _load_workload_state of NodeRelayServer, execute_workload
\* and stop_workload of the node).
THEOREM ResultsAreTheNodes == Spec => []ResultIsTheNodes
<1>1. DeliveryInv => ResultIsTheNodes
  BY DEF DeliveryInv, Noted, ResultIsTheNodes, Agrees
<1> QED BY <1>1, AlwaysDelivering, PTL

\* No work has a record on the node that the Controller has lost sight of,
\* however the request file, the assignment, the stop and the result follow one
\* another (queue_workload, queue_workload_stop and _handle_message of NodeRelayServer).
THEOREM StartedWorksAreKnown == Spec => []StartedIsKnown
<1>1. DeliveryInv => StartedIsKnown
  BY DEF DeliveryInv, Noted, StartedIsKnown, StatusExpected
<1> QED BY <1>1, AlwaysDelivering, PTL

-----------------------------------------------------------------------------
(* What is on its way about one lease.                                      *)
(*                                                                          *)
(* t is the type of the control last asked for.  A sequence of messages or  *)
(* of acknowledgements tells the lease t (For) or its opposite (Old); it is *)
(* in order if nothing old follows what is asked for.                       *)

For(m, l, t) == m.type = t /\ m.key = l
Old(m, l, t) == m.type \in LeaseTypes \ {t} /\ m.key = l

InOrder(s, l, t) ==
  \A i, j \in 1..Len(s) : i < j /\ For(s[i], l, t) => ~Old(s[j], l, t)
Has(s, l, t)  == \E m \in ToSet(s) : For(m, l, t)
Free(s, l, t) == \A m \in ToSet(s) : ~Old(m, l, t)
Leads(s, r, l, t) == Has(s, l, t) => Free(r, l, t)

\* The acknowledgements u come before the messages d sent before those of q.
Lane(u, d, q, l, t) ==
  /\ InOrder(u, l, t) /\ InOrder(d, l, t) /\ InOrder(q, l, t)
  /\ Leads(u, d, l, t) /\ Leads(u, q, l, t) /\ Leads(d, q, l, t)

\* asks are the controls of the lease that are pending, held says whether the
\* node holds it, done are the serials it has handled.
Faithful(u, d, q, asks, l, t, held, done) ==
  /\ Lane(u, d, q, l, t)
  /\ asks = {} => /\ Free(u, l, t) /\ Free(d, l, t) /\ Free(q, l, t)
                  /\ held = (t = "LEASE_ACQUIRE")
  /\ Has(u, l, t) => /\ held = (t = "LEASE_ACQUIRE")
                     /\ \A c \in asks : c.serial \in done
  /\ \A c \in asks :
       /\ c.type = t
       /\ \A m \in ToSet(d) \cup ToSet(q) : For(m, l, t) => m.serial = c.serial

\* r says no more of the lease than s, and in the same order.
PartOf(r, s, l, t) ==
  /\ \A m \in ToSet(r) : For(m, l, t) \/ Old(m, l, t) => m \in ToSet(s)
  /\ InOrder(s, l, t) => InOrder(r, l, t)

LEMMA Entries ==
  ASSUME NEW S, NEW s \in Seq(S)
  PROVE  /\ ToSet(s) = {s[i] : i \in 1..Len(s)}
         /\ ToSet(s) \subseteq S /\ Len(s) \in Nat
<1>1. DOMAIN s = 1..Len(s) /\ Len(s) \in Nat BY LenProperties
<1>2. \A i \in 1..Len(s) : s[i] \in S BY ElementOfSeq
<1> QED BY <1>1, <1>2 DEF ToSet

LEMMA EntriesOfNone ==
  ASSUME NEW l, NEW t
  PROVE  ToSet(<<>>) = {} /\ InOrder(<<>>, l, t) /\ \A s : PartOf(<<>>, s, l, t)
<1>1. Len(<<>>) = 0 /\ DOMAIN <<>> = 1..0 OBVIOUS
<1>2. ToSet(<<>>) = {} BY <1>1 DEF ToSet
<1>3. InOrder(<<>>, l, t) BY <1>1 DEF InOrder
<1> QED BY <1>2, <1>3 DEF PartOf

LEMMA EntriesOfTail ==
  ASSUME NEW S, NEW s \in Seq(S), s # <<>>, NEW l, NEW t
  PROVE  /\ Tail(s) \in Seq(S) /\ Head(s) \in ToSet(s)
         /\ ToSet(s) = ToSet(Tail(s)) \cup {Head(s)}
         /\ PartOf(Tail(s), s, l, t)
         /\ InOrder(s, l, t) /\ For(Head(s), l, t) => Free(Tail(s), l, t)
<1> DEFINE r == Tail(s)
<1>1. /\ r \in Seq(S) /\ Len(s) \in Nat \ {0} /\ Len(r) = Len(s) - 1
      /\ Head(s) = s[1]
      /\ \A i \in 1..Len(s) - 1 : r[i] = s[i + 1]
  OBVIOUS
<1> HIDE DEF r
<1>2. /\ ToSet(s) = {s[i] : i \in 1..Len(s)}
      /\ ToSet(r) = {r[i] : i \in 1..Len(s) - 1}
  BY <1>1, Entries
<1>3. ToSet(s) = ToSet(r) \cup {Head(s)}
  <2>1. ASSUME NEW m \in ToSet(s) PROVE m \in ToSet(r) \cup {Head(s)}
    <3>1. PICK i \in 1..Len(s) : m = s[i] BY <1>2
    <3>2. CASE i = 1 BY <1>1, <3>1, <3>2
    <3>3. CASE i # 1
      <4>1. i - 1 \in 1..Len(s) - 1 /\ (i - 1) + 1 = i BY <1>1, <3>3
      <4>2. r[i - 1] = m BY <1>1, <3>1, <4>1
      <4> QED BY <1>2, <4>1, <4>2
    <3> QED BY <3>2, <3>3
  <2>2. ASSUME NEW m \in ToSet(r) PROVE m \in ToSet(s)
    <3>1. PICK i \in 1..Len(s) - 1 : m = r[i] BY <1>2
    <3>2. i + 1 \in 1..Len(s) /\ m = s[i + 1] BY <1>1, <3>1
    <3> QED BY <1>2, <3>2
  <2>3. Head(s) \in ToSet(s) BY <1>1, <1>2
  <2> QED BY <2>1, <2>2, <2>3
<1>4. InOrder(s, l, t) => InOrder(r, l, t)
  <2> SUFFICES ASSUME InOrder(s, l, t),
                      NEW i \in 1..Len(s) - 1, NEW j \in 1..Len(s) - 1, i < j,
                      For(r[i], l, t)
               PROVE  ~Old(r[j], l, t)
    BY <1>1 DEF InOrder
  <2>1. i + 1 \in 1..Len(s) /\ j + 1 \in 1..Len(s) /\ i + 1 < j + 1 BY <1>1
  <2>2. r[i] = s[i + 1] /\ r[j] = s[j + 1] BY <1>1
  <2> QED BY <2>1, <2>2 DEF InOrder
<1>5. InOrder(s, l, t) /\ For(Head(s), l, t) => Free(r, l, t)
  <2> SUFFICES ASSUME InOrder(s, l, t), For(s[1], l, t), NEW i \in 1..Len(s) - 1
               PROVE  ~Old(r[i], l, t)
    BY <1>1, <1>2 DEF Free
  <2>1. 1 \in 1..Len(s) /\ i + 1 \in 1..Len(s) /\ 1 < i + 1 BY <1>1
  <2>2. r[i] = s[i + 1] BY <1>1
  <2> QED BY <2>1, <2>2 DEF InOrder
<1>6. PartOf(r, s, l, t) BY <1>3, <1>4 DEF PartOf
<1> QED BY <1>1, <1>3, <1>5, <1>6 DEF r

LEMMA EntriesOfAppend ==
  ASSUME NEW S, NEW s \in Seq(S), NEW x \in S, NEW l, NEW t
  PROVE  /\ Append(s, x) \in Seq(S) /\ ToSet(Append(s, x)) = ToSet(s) \cup {x}
         /\ InOrder(s, l, t) /\ (Has(s, l, t) => ~Old(x, l, t))
            => InOrder(Append(s, x), l, t)
         /\ ~For(x, l, t) /\ ~Old(x, l, t) => PartOf(Append(s, x), s, l, t)
<1> DEFINE r == Append(s, x)
<1>1. /\ r \in Seq(S) /\ Len(s) \in Nat /\ Len(r) = Len(s) + 1
      /\ \A i \in 1..Len(s) : r[i] = s[i]
      /\ r[Len(s) + 1] = x
  BY Appended
<1> HIDE DEF r
<1>2. ToSet(s) = {s[i] : i \in 1..Len(s)} /\ ToSet(r) = {r[i] : i \in 1..Len(s) + 1}
  BY <1>1, Entries
<1>3. \A i \in 1..Len(s) + 1 : i \in 1..Len(s) \/ i = Len(s) + 1 BY <1>1
<1>4. 1..Len(s) \subseteq 1..Len(s) + 1 /\ Len(s) + 1 \in 1..Len(s) + 1 BY <1>1
<1>5. ToSet(r) = ToSet(s) \cup {x}
  <2>1. ASSUME NEW m \in ToSet(r) PROVE m \in ToSet(s) \cup {x}
    BY <1>1, <1>2, <1>3
  <2>2. ASSUME NEW m \in ToSet(s) PROVE m \in ToSet(r) BY <1>1, <1>2, <1>4
  <2>3. x \in ToSet(r) BY <1>1, <1>2, <1>4
  <2> QED BY <2>1, <2>2, <2>3
<1>6. ASSUME InOrder(s, l, t), Has(s, l, t) => ~Old(x, l, t) PROVE InOrder(r, l, t)
  <2> SUFFICES ASSUME NEW i \in 1..Len(s) + 1, NEW j \in 1..Len(s) + 1, i < j,
                      For(r[i], l, t)
               PROVE  ~Old(r[j], l, t)
    BY <1>1 DEF InOrder
  <2>1. i \in 1..Len(s) /\ r[i] = s[i] BY <1>1
  <2>2. CASE j = Len(s) + 1
    <3>1. Has(s, l, t) BY <1>2, <2>1 DEF Has
    <3> QED BY <1>1, <1>6, <2>2, <3>1
  <2>3. CASE j \in 1..Len(s)
    <3>1. r[j] = s[j] BY <1>1, <2>3
    <3> QED BY <1>6, <2>1, <2>3, <3>1 DEF InOrder
  <2> QED BY <1>3, <2>2, <2>3
<1>7. ASSUME ~For(x, l, t), ~Old(x, l, t) PROVE PartOf(r, s, l, t)
  BY <1>5, <1>6, <1>7 DEF PartOf
<1> QED BY <1>1, <1>5, <1>6, <1>7 DEF r

LEMMA EntriesOfPrefix ==
  ASSUME NEW S, NEW s \in Seq(S), NEW n \in 0..Len(s), NEW l, NEW t
  PROVE  /\ ToSet(SubSeq(s, 1, n)) \subseteq ToSet(s)
         /\ PartOf(SubSeq(s, 1, n), s, l, t)
<1>1. Len(s) \in Nat /\ \A i \in 1..n : s[i] \in S BY LenProperties, ElementOfSeq
<1> DEFINE r == SubSeq(s, 1, n)
<1>2. r \in Seq(S) /\ Len(r) = n /\ \A i \in 1..n : r[i] = s[i]
  <2>1. n \in Nat BY <1>1
  <2>2. /\ r \in Seq(S) /\ Len(r) = IF 1 <= n THEN n - 1 + 1 ELSE 0
        /\ \A i \in 1..n - 1 + 1 : r[i] = s[1 + i - 1]
    BY <1>1, <2>1, SubSeqProperties
  <2> QED BY <2>1, <2>2
<1> HIDE DEF r
<1>3. 1..n \subseteq 1..Len(s) BY <1>1
<1>4. ToSet(r) = {r[i] : i \in 1..n} /\ ToSet(s) = {s[i] : i \in 1..Len(s)} BY <1>2, Entries
<1>5. ToSet(r) \subseteq ToSet(s) BY <1>2, <1>3, <1>4
<1>6. InOrder(s, l, t) => InOrder(r, l, t) BY <1>2, <1>3 DEF InOrder
<1> QED BY <1>5, <1>6 DEF PartOf, r

LEMMA SamePart ==
  ASSUME NEW s, NEW l, NEW t PROVE PartOf(s, s, l, t)
  BY DEF PartOf

-----------------------------------------------------------------------------
(* What keeps the order. *)

\* Parts are lost, and more is handled.
LEMMA FaithfulIfFewer ==
  ASSUME NEW u, NEW d, NEW q, NEW uu, NEW dd, NEW qq, NEW asks, NEW l, NEW t \in LeaseTypes,
         NEW held, NEW done, NEW more, done \subseteq more,
         PartOf(uu, u, l, t), PartOf(dd, d, l, t), PartOf(qq, q, l, t),
         Faithful(u, d, q, asks, l, t, held, done)
  PROVE  Faithful(uu, dd, qq, asks, l, t, held, more)
<1>1. Lane(uu, dd, qq, l, t)
  BY DEF Faithful, Lane, PartOf, Leads, Has, Free
<1>2. (asks = {} => /\ Free(uu, l, t) /\ Free(dd, l, t) /\ Free(qq, l, t)
                    /\ held = (t = "LEASE_ACQUIRE"))
  BY DEF Faithful, PartOf, Free
<1>3. (Has(uu, l, t) => /\ held = (t = "LEASE_ACQUIRE")
                        /\ \A c \in asks : c.serial \in more)
  <2>1. Has(uu, l, t) => Has(u, l, t) BY DEF PartOf, Has
  <2> QED BY <2>1 DEF Faithful
<1>4. \A c \in asks :
         /\ c.type = t
         /\ \A m \in ToSet(dd) \cup ToSet(qq) : For(m, l, t) => m.serial = c.serial
  BY DEF Faithful, PartOf
<1> QED BY <1>1, <1>2, <1>3, <1>4 DEF Faithful

\* The first of q is sent.
LEMMA FaithfulIfSent ==
  ASSUME NEW S, NEW u, NEW d \in Seq(S), NEW q \in Seq(S), q # <<>>,
         NEW asks, NEW l, NEW t \in LeaseTypes, NEW held, NEW done,
         Faithful(u, d, q, asks, l, t, held, done)
  PROVE  Faithful(u, Append(d, Head(q)), Tail(q), asks, l, t, held, done)
<1> DEFINE x == Head(q)
           r == Tail(q)
           e == Append(d, x)
<1>1. /\ x \in ToSet(q) /\ ToSet(q) = ToSet(r) \cup {x} /\ PartOf(r, q, l, t)
      /\ InOrder(q, l, t) /\ For(x, l, t) => Free(r, l, t)
  BY EntriesOfTail
<1>2. x \in S BY HeadOf
<1>3. /\ ToSet(e) = ToSet(d) \cup {x}
      /\ InOrder(d, l, t) /\ (Has(d, l, t) => ~Old(x, l, t)) => InOrder(e, l, t)
  BY <1>2, EntriesOfAppend
<1> HIDE DEF x, r, e
<1>4. Lane(u, d, q, l, t) BY DEF Faithful
<1>5. Has(d, l, t) => ~Old(x, l, t) BY <1>1, <1>4 DEF Lane, Leads, Free
<1>6. InOrder(e, l, t) /\ InOrder(r, l, t) /\ InOrder(u, l, t)
  BY <1>1, <1>3, <1>4, <1>5 DEF Lane, PartOf
<1>7. Leads(u, e, l, t) /\ Leads(u, r, l, t)
  BY <1>1, <1>3, <1>4 DEF Lane, Leads, Free
<1>8. Leads(e, r, l, t)
  <2> SUFFICES ASSUME Has(e, l, t) PROVE Free(r, l, t)
    BY DEF Leads
  <2>1. CASE Has(d, l, t) BY <1>1, <1>4, <2>1 DEF Lane, Leads, Free
  <2>2. CASE For(x, l, t) BY <1>1, <1>4, <2>2 DEF Lane
  <2> QED BY <1>3, <2>1, <2>2 DEF Has
<1>9. Lane(u, e, r, l, t) BY <1>6, <1>7, <1>8 DEF Lane
<1>10. ToSet(e) \cup ToSet(r) = ToSet(d) \cup ToSet(q) BY <1>1, <1>3
<1>11. Free(d, l, t) /\ Free(q, l, t) => Free(e, l, t) /\ Free(r, l, t)
  BY <1>1, <1>3 DEF Free
<1>12. Faithful(u, e, r, asks, l, t, held, done)
  BY <1>9, <1>10, <1>11 DEF Faithful
<1> QED BY <1>12 DEF x, r, e

-----------------------------------------------------------------------------
(* The ways of the connection. *)

Posts == [conn : Sessions, message : Messages, by : {"caller", "sweep", "handler"}]
Heard == {Register} \cup Acks \cup Statuses

QueueOf(s) == [i \in 1..Len(s) |-> s[i].message]

\* What the connection of the Controller has yet to take, what the node has yet
\* to handle and what waits to be sent.
Acked  == IF conn = 0 THEN <<>> ELSE up[conn]
Coming == IF session = 0 THEN <<>> ELSE down[session]
Queued == QueueOf(sendq)

\* Only the accepted session gets anything, nothing of an earlier one is sent
\* or taken, and the handler serves when it has sent all again.
Paired ==
  /\ \A i \in 1..Len(sendq) : sendq[i].conn = conn
  /\ \A s \in Sessions : Register \in ToSet(up[s]) =>
        /\ up[s] = <<Register>> /\ Coming = <<>> /\ s # conn
        /\ session # 0 => session # conn
  /\ conn # 0 /\ session # conn => Coming = <<>>
  /\ handler.phase = "serve" => handler.todo = <<>>
  /\ \A m \in ToSet(handler.todo) : m.type \in LeaseTypes => m \in ToSet(controls)

AsksOf(l) == {c \in ToSet(controls) : c.key = l}

LeaseInv ==
  /\ wanted \in [Leases -> LeaseTypes]
  /\ \A l \in Leases :
       Faithful(Acked, Coming, Queued, AsksOf(l), l, wanted[l], leased[l], answered)

LaneInv == Paired /\ LeaseInv

LEMMA QueueOfIs ==
  ASSUME NEW s \in Seq(Posts)
  PROVE  /\ QueueOf(s) \in Seq(Messages) /\ Len(QueueOf(s)) = Len(s) /\ Len(s) \in Nat
         /\ \A i \in 1..Len(s) : QueueOf(s)[i] = s[i].message
<1>1. Len(s) \in Nat /\ \A i \in 1..Len(s) : s[i] \in Posts BY LenProperties, ElementOfSeq
<1>2. \A i \in 1..Len(s) : s[i].message \in Messages BY <1>1 DEF Posts
<1>3. [i \in 1..Len(s) |-> s[i].message] \in Seq(Messages) BY <1>1, <1>2
<1> QED BY <1>1, <1>3 DEF QueueOf

LEMMA QueueOfNone == QueueOf(<<>>) = <<>>
  BY DEF QueueOf

LEMMA QueueOfAppend ==
  ASSUME NEW s \in Seq(Posts), NEW x \in Posts
  PROVE  QueueOf(Append(s, x)) = Append(QueueOf(s), x.message)
<1> DEFINE r == Append(s, x)
           q == QueueOf(s)
           a == Append(q, x.message)
<1>1. /\ r \in Seq(Posts) /\ Len(r) = Len(s) + 1 /\ Len(s) \in Nat
      /\ \A i \in 1..Len(s) : r[i] = s[i]
      /\ r[Len(s) + 1] = x
  BY Appended
<1>2. q \in Seq(Messages) /\ Len(q) = Len(s) /\ \A i \in 1..Len(s) : q[i] = s[i].message
  BY QueueOfIs
<1>3. x.message \in Messages BY DEF Posts
<1> HIDE DEF r, q
<1>4. /\ a \in Seq(Messages) /\ Len(a) = Len(s) + 1
      /\ \A i \in 1..Len(s) : a[i] = q[i]
      /\ a[Len(s) + 1] = x.message
  BY <1>2, <1>3, Appended
<1> HIDE DEF a
<1>5. QueueOf(r) \in Seq(Messages) /\ Len(QueueOf(r)) = Len(s) + 1
      /\ \A i \in 1..Len(s) + 1 : QueueOf(r)[i] = r[i].message
  BY <1>1, QueueOfIs
<1>6. ASSUME NEW i \in 1..Len(s) + 1 PROVE QueueOf(r)[i] = a[i]
  <2>1. CASE i \in 1..Len(s) BY <1>1, <1>2, <1>4, <1>5, <2>1
  <2>2. CASE i = Len(s) + 1 BY <1>1, <1>4, <1>5, <2>2
  <2> QED BY <1>1, <2>1, <2>2
<1>7. QueueOf(r) = a BY <1>4, <1>5, <1>6, SeqEqual
<1> QED BY <1>7 DEF r, q, a

LEMMA QueueOfTail ==
  ASSUME NEW s \in Seq(Posts), s # <<>>
  PROVE  /\ QueueOf(s) # <<>> /\ Head(QueueOf(s)) = Head(s).message
         /\ Tail(QueueOf(s)) = QueueOf(Tail(s))
<1> DEFINE r == Tail(s)
           q == QueueOf(s)
<1>1. /\ r \in Seq(Posts) /\ Len(s) \in Nat \ {0} /\ Len(r) = Len(s) - 1
      /\ Head(s) = s[1]
      /\ \A i \in 1..Len(s) - 1 : r[i] = s[i + 1]
  OBVIOUS
<1>2. q \in Seq(Messages) /\ Len(q) = Len(s) /\ \A i \in 1..Len(s) : q[i] = s[i].message
  BY QueueOfIs
<1> HIDE DEF r, q
<1>3. q # <<>> BY <1>1, <1>2
<1> DEFINE a == Tail(q)
<1>4. /\ a \in Seq(Messages) /\ Len(a) = Len(s) - 1 /\ Head(q) = q[1]
      /\ \A i \in 1..Len(s) - 1 : a[i] = q[i + 1]
  BY <1>1, <1>2, <1>3
<1> HIDE DEF a
<1>5. QueueOf(r) \in Seq(Messages) /\ Len(QueueOf(r)) = Len(s) - 1
      /\ \A i \in 1..Len(s) - 1 : QueueOf(r)[i] = r[i].message
  BY <1>1, QueueOfIs
<1>6. ASSUME NEW i \in 1..Len(s) - 1 PROVE QueueOf(r)[i] = a[i]
  <2>1. i + 1 \in 1..Len(s) BY <1>1
  <2> QED BY <1>1, <1>2, <1>4, <1>5, <2>1
<1>7. QueueOf(r) = a BY <1>4, <1>5, <1>6, SeqEqual
<1>8. Head(q) = Head(s).message
  <2>1. 1 \in 1..Len(s) BY <1>1
  <2> QED BY <1>1, <1>2, <1>4, <2>1
<1> QED BY <1>3, <1>7, <1>8 DEF r, q, a

LEMMA Typed ==
  ASSUME DeliveryInv
  PROVE  /\ handler.todo \in Seq(Messages) /\ sendq \in Seq(Posts)
         /\ down \in [Sessions -> Seq(Messages)] /\ up \in [Sessions -> Seq(Heard)]
         /\ controls \in Seq(Controls)
         /\ conn \in Sessions \cup {0} /\ session \in Sessions \cup {0} /\ 0 \notin Sessions
         /\ Acked \in Seq(Heard) /\ Coming \in Seq(Messages) /\ Queued \in Seq(Messages)
<1>1. Expected \subseteq Messages /\ Sends \subseteq Posts BY DEF Expected, Sends, Posts
<1>2. Told \subseteq Heard BY DEF Told, Heard
<1>3. handler.todo \in Seq(Messages) BY <1>1, SeqMonotonic DEF DeliveryInv, OnTheWay
<1>4. sendq \in Seq(Posts) BY <1>1, SeqMonotonic DEF DeliveryInv, OnTheWay
<1>5. \A s \in Sessions : down[s] \in Seq(Messages)
  BY <1>1, SeqMonotonic DEF DeliveryInv, OnTheWay
<1>6. \A s \in Sessions : up[s] \in Seq(Heard)
  BY <1>2, SeqMonotonic DEF DeliveryInv, OnTheWay
<1>7. down \in [Sessions -> Seq(Messages)] /\ up \in [Sessions -> Seq(Heard)]
  BY <1>5, <1>6 DEF DeliveryInv, OnTheWay
<1>8. conn \in Sessions \cup {0} /\ session \in Sessions \cup {0} /\ 0 \notin Sessions
  BY DEF DeliveryInv, Linked, Sessions
<1>9. Acked \in Seq(Heard) /\ Coming \in Seq(Messages) BY <1>7, <1>8 DEF Acked, Coming
<1>10. Queued \in Seq(Messages) BY <1>4, QueueOfIs DEF Queued
<1> QED BY <1>3, <1>4, <1>7, <1>8, <1>9, <1>10 DEF DeliveryInv, Stored

LEMMA NotOfLeases ==
  ASSUME NEW m, m.type \notin LeaseTypes, NEW l, NEW t \in LeaseTypes
  PROVE  ~For(m, l, t) /\ ~Old(m, l, t)
  BY DEF For, Old

LEMMA LeaseInvIfFewer ==
  ASSUME LeaseInv, UNCHANGED <<wanted, leased>>, answered \subseteq answered',
         ASSUME NEW l \in Leases
         PROVE  /\ AsksOf(l)' = AsksOf(l)
                /\ PartOf(Acked', Acked, l, wanted[l])
                /\ PartOf(Coming', Coming, l, wanted[l])
                /\ PartOf(Queued', Queued, l, wanted[l])
  PROVE  LeaseInv'
<1>1. ASSUME NEW l \in Leases
      PROVE  Faithful(Acked', Coming', Queued', AsksOf(l)', l, wanted'[l], leased'[l], answered')
  <2>1. wanted[l] \in LeaseTypes BY DEF LeaseInv
  <2>2. Faithful(Acked, Coming, Queued, AsksOf(l), l, wanted[l], leased[l], answered)
    BY DEF LeaseInv
  <2>3. /\ AsksOf(l)' = AsksOf(l)
        /\ PartOf(Acked', Acked, l, wanted[l])
        /\ PartOf(Coming', Coming, l, wanted[l])
        /\ PartOf(Queued', Queued, l, wanted[l])
    OBVIOUS
  <2>4. Faithful(Acked', Coming', Queued', AsksOf(l), l, wanted[l], leased[l], answered')
    BY <2>1, <2>2, <2>3, FaithfulIfFewer, Zenon
  <2> QED BY <2>3, <2>4
<1>2. wanted' \in [Leases -> LeaseTypes] BY DEF LeaseInv
<1> QED BY <1>1, <1>2 DEF LeaseInv

\* Whatever waits to be sent is for the connection there is.
LEMMA SendIs ==
  ASSUME DeliveryInv, Paired, NEW m \in Messages, NEW by \in {"caller", "sweep", "handler"},
         Send(m, by), conn' = conn
  PROVE  /\ Queued' = Queued \/ (conn # 0 /\ Queued' = Append(Queued, m))
         /\ \A i \in 1..Len(sendq') : sendq'[i].conn = conn'
<1>1. CASE conn = 0
  <2>1. sendq' = sendq BY <1>1 DEF Send
  <2>2. Queued' = Queued BY <2>1 DEF Queued
  <2>3. \A i \in 1..Len(sendq') : sendq'[i].conn = conn' BY <2>1 DEF Paired
  <2> QED BY <2>2, <2>3
<1>2. CASE conn # 0
  <2> DEFINE x == [conn |-> conn, message |-> m, by |-> by]
  <2>1. sendq \in Seq(Posts) /\ x \in Posts BY <1>2, Typed DEF Posts
  <2>2. sendq' = Append(sendq, x) BY <1>2 DEF Send
  <2>3. x.message = m /\ x.conn = conn OBVIOUS
  <2> HIDE DEF x
  <2>4. Queued' = Append(Queued, m) BY <2>1, <2>2, <2>3, QueueOfAppend DEF Queued
  <2>5. /\ Len(sendq') = Len(sendq) + 1 /\ Len(sendq) \in Nat
        /\ \A i \in 1..Len(sendq) : sendq'[i] = sendq[i]
        /\ sendq'[Len(sendq) + 1] = x
    BY <2>1, <2>2, Appended
  <2>6. ASSUME NEW i \in 1..Len(sendq') PROVE sendq'[i].conn = conn
    <3>1. CASE i \in 1..Len(sendq) BY <2>5, <3>1 DEF Paired
    <3>2. CASE i = Len(sendq) + 1 BY <2>3, <2>5, <3>2
    <3> QED BY <2>5, <3>1, <3>2
  <2> QED BY <1>2, <2>4, <2>6
<1> QED BY <1>1, <1>2

\* The dictionary of controls after a control was added or an answer removed one.
LEMMA ControlsRemoved ==
  ASSUME DeliveryInv, NEW type, NEW key, Complete(type, key)
  PROVE  ToSet(controls') = {c \in ToSet(controls) : ~(c.type = type /\ c.key = key)}
<1> DEFINE places == PlacesOf(type, key)
<1>1. controls \in Seq(Controls) /\ Len(controls) \in Nat /\ places \in SUBSET (1..Len(controls))
  BY LenProperties DEF DeliveryInv, Stored, PlacesOf
<1>2. controls' = Without(controls, places) BY DEF Complete
<1>3. \A i \in 1..Len(controls) :
        i \in places <=> controls[i].type = type /\ controls[i].key = key
  BY DEF PlacesOf
<1>4. \A i, j \in places : i = j BY <1>1, <1>3 DEF DeliveryInv, Stored
<1> HIDE DEF places
<1>5. ToSet(controls) = {controls[i] : i \in 1..Len(controls)} BY <1>1, Entries
<1>6. CASE places = {}
  <2>1. controls' = controls BY <1>2, <1>6 DEF Without
  <2>2. \A c \in ToSet(controls) : ~(c.type = type /\ c.key = key) BY <1>3, <1>5, <1>6
  <2> QED BY <2>1, <2>2
<1>7. CASE places # {}
  <2>1. PICK i \in places :
           /\ controls' \in Seq(Controls)
           /\ Len(controls') = Len(controls) - 1
           /\ \A j \in 1..Len(controls) - 1 :
                controls'[j] = IF j < i THEN controls[j] ELSE controls[j + 1]
    BY <1>1, <1>2, <1>7, WithoutIs
  <2>2. i \in 1..Len(controls) BY <1>1
  <2>3. ToSet(controls') = {controls'[j] : j \in 1..Len(controls) - 1} BY <2>1, Entries
  <2>4. ASSUME NEW c \in ToSet(controls')
        PROVE  c \in ToSet(controls) /\ ~(c.type = type /\ c.key = key)
    <3>1. PICK j \in 1..Len(controls) - 1 : c = controls'[j] BY <2>3
    <3> DEFINE k == IF j < i THEN j ELSE j + 1
    <3>2. k \in 1..Len(controls) /\ k # i /\ c = controls[k] BY <1>1, <2>1, <2>2, <3>1
    <3>3. k \notin places BY <1>4, <3>2
    <3> QED BY <1>3, <1>5, <3>2, <3>3
  <2>5. ASSUME NEW c \in ToSet(controls), ~(c.type = type /\ c.key = key)
        PROVE  c \in ToSet(controls')
    <3>1. PICK k \in 1..Len(controls) : c = controls[k] BY <1>5
    <3>2. k # i BY <1>3, <2>5, <3>1
    <3>3. CASE k < i
      <4>1. k \in 1..Len(controls) - 1 /\ controls'[k] = c BY <1>1, <2>1, <2>2, <3>1, <3>3
      <4> QED BY <2>3, <4>1
    <3>4. CASE i < k
      <4>1. k - 1 \in 1..Len(controls) - 1 /\ ~(k - 1 < i) /\ (k - 1) + 1 = k
        BY <1>1, <2>2, <3>4
      <4>2. controls'[k - 1] = c BY <2>1, <3>1, <4>1
      <4> QED BY <2>3, <4>1, <4>2
    <3> QED BY <1>1, <2>2, <3>2, <3>3, <3>4
  <2> QED BY <2>4, <2>5
<1> QED BY <1>6, <1>7

LEMMA ControlsAdded ==
  ASSUME DeliveryInv, NEW type, NEW key, Control(type, key), QueueControl(type, key)
  PROVE  \E new \in Controls :
           /\ new.type = type /\ new.key = key /\ Send(new, "caller")
           /\ ToSet(controls') = ToSet(controls) \cup {new}
           /\ Patient => \A c \in ToSet(controls) : c.key # key
<1> DEFINE same  == PlacesOf(type, key)
           fresh == Message(type, key, Serial)
           new   == IF same = {} THEN fresh ELSE controls[CHOOSE i \in same : TRUE]
<1>1. /\ controls' = IF same = {} THEN Append(controls, new) ELSE controls
      /\ Send(new, "caller")
      /\ Patient => \A i \in 1..Len(controls) : controls[i].key # key
  BY DEF QueueControl
<1>2. controls \in Seq(Controls) /\ Len(controls) \in Nat
      /\ ToSet(controls) = {controls[i] : i \in 1..Len(controls)}
  BY Entries, LenProperties DEF DeliveryInv, Stored
<1>3. Patient => \A c \in ToSet(controls) : c.key # key BY <1>1, <1>2
<1>4. CASE same = {}
  <2>1. Serial \in Nat BY DEF Serial, DeliveryInv, Stored
  <2>2. fresh \in Controls /\ fresh.type = type /\ fresh.key = key
    BY <2>1 DEF Message, Controls, Control
  <2>3. new = fresh /\ controls' = Append(controls, fresh) BY <1>1, <1>4
  <2> HIDE DEF fresh, new
  <2>4. ToSet(controls') = ToSet(controls) \cup {fresh} BY <1>2, <2>2, <2>3, EntriesOfAppend
  <2> QED BY <1>1, <1>3, <2>2, <2>3, <2>4
<1>5. CASE same # {}
  <2> DEFINE i == CHOOSE k \in same : TRUE
  <2>1. i \in same BY <1>5
  <2> HIDE DEF i
  <2>2. i \in 1..Len(controls) /\ controls[i].type = type /\ controls[i].key = key
    BY <2>1 DEF PlacesOf
  <2>3. new = controls[i] /\ controls' = controls BY <1>1, <1>5 DEF i
  <2> HIDE DEF new
  <2>4. new \in Controls /\ new \in ToSet(controls) BY <1>2, <2>2, <2>3
  <2> QED BY <1>1, <1>3, <2>2, <2>3, <2>4
<1> QED BY <1>4, <1>5

LEMMA AsksStay ==
  ASSUME controls' = controls, NEW l PROVE AsksOf(l)' = AsksOf(l)
  BY DEF AsksOf

-----------------------------------------------------------------------------
(* The requests. *)

\* A start or a stop is asked for.
LEMMA AskingKeeps ==
  ASSUME DeliveryInv, LaneInv,
         UNCHANGED <<conn, handler, down, up, session, wanted, leased, answered>>,
         ToSet(controls) \subseteq ToSet(controls'),
         \A l \in Leases : AsksOf(l)' = AsksOf(l),
         NEW m \in Messages, m.type \notin LeaseTypes, NEW by \in {"caller", "sweep", "handler"},
         Send(m, by) \/ sendq' = sendq
  PROVE  LaneInv'
<1>0. Paired /\ LeaseInv BY DEF LaneInv
<1>1. /\ Queued' = Queued \/ Queued' = Append(Queued, m)
      /\ \A i \in 1..Len(sendq') : sendq'[i].conn = conn'
  <2>1. CASE Send(m, by) BY <1>0, <2>1, SendIs
  <2>2. CASE sendq' = sendq
    <3>1. Queued' = Queued BY <2>2 DEF Queued
    <3>2. \A i \in 1..Len(sendq') : sendq'[i].conn = conn' BY <1>0, <2>2 DEF Paired
    <3> QED BY <3>1, <3>2
  <2> QED BY <2>1, <2>2
<1>2. Acked' = Acked /\ Coming' = Coming BY DEF Acked, Coming
<1>3. Paired' BY <1>0, <1>1, <1>2 DEF Paired
<1>4. ASSUME NEW l \in Leases
      PROVE  /\ AsksOf(l)' = AsksOf(l)
             /\ PartOf(Acked', Acked, l, wanted[l])
             /\ PartOf(Coming', Coming, l, wanted[l])
             /\ PartOf(Queued', Queued, l, wanted[l])
  <2>1. wanted[l] \in LeaseTypes BY <1>0 DEF LeaseInv
  <2>2. ~For(m, l, wanted[l]) /\ ~Old(m, l, wanted[l]) BY <2>1, NotOfLeases
  <2>3. Queued \in Seq(Messages) BY Typed
  <2>4. PartOf(Append(Queued, m), Queued, l, wanted[l]) BY <2>2, <2>3, EntriesOfAppend
  <2>6. PartOf(Queued', Queued, l, wanted[l]) BY <1>1, <2>4, SamePart
  <2>5. PartOf(Acked', Acked, l, wanted[l]) /\ PartOf(Coming', Coming, l, wanted[l])
    BY <1>2, SamePart
  <2> QED BY <2>5, <2>6
<1>5. LeaseInv' BY <1>0, <1>4, LeaseInvIfFewer, Zenon
<1> QED BY <1>3, <1>5 DEF LaneInv

LEMMA AssignKeepsOrder ==
  ASSUME DeliveryInv, LaneInv, NEW w \in Works, NEW by \in {"caller", "sweep", "handler"},
         Send(Start(w), by) \/ sendq' = sendq,
         UNCHANGED <<controls, conn, handler, down, up, session, wanted, leased, answered>>
  PROVE  LaneInv'
<1>1. Start(w) \in Messages /\ Start(w).type \notin LeaseTypes
  BY DEF Start, Message, Messages, Starts, LeaseTypes
<1>2. \A l \in Leases : AsksOf(l)' = AsksOf(l) BY AsksStay
<1>3. ToSet(controls) \subseteq ToSet(controls') OBVIOUS
<1> QED BY <1>1, <1>2, <1>3, AskingKeeps

LEMMA QueueDirectKeepsOrder ==
  ASSUME DeliveryInv, LaneInv, NEW w \in Works, QueueDirect(w) PROVE LaneInv'
<1>1. /\ Send(Start(w), "caller")
      /\ UNCHANGED <<controls, conn, handler, down, up, session, wanted, leased, answered>>
  BY DEF QueueDirect, Assign, node
<1> QED BY <1>1, AssignKeepsOrder

LEMMA SweepKeepsOrder ==
  ASSUME DeliveryInv, LaneInv, NEW w \in Works, Sweep(w) PROVE LaneInv'
<1>1. /\ Send(Start(w), "sweep") \/ sendq' = sendq
      /\ UNCHANGED <<controls, conn, handler, down, up, session, wanted, leased, answered>>
  BY DEF Sweep, Assign, node, callers
<1> QED BY <1>1, AssignKeepsOrder

LEMMA QueueStopKeepsOrder ==
  ASSUME DeliveryInv, LaneInv, NEW w \in Works, QueueStop(w) PROVE LaneInv'
<1>1. /\ QueueControl("WORKLOAD_STOP", w) /\ w \in Stoppable
      /\ UNCHANGED <<conn, handler, down, up, session, wanted, leased, answered>>
  BY DEF QueueStop, node
<1>2. Control("WORKLOAD_STOP", w) BY <1>1 DEF Control
<1>3. PICK new \in Controls :
         /\ new.type = "WORKLOAD_STOP" /\ new.key = w /\ Send(new, "caller")
         /\ ToSet(controls') = ToSet(controls) \cup {new}
         /\ Patient => \A c \in ToSet(controls) : c.key # w
  BY <1>1, <1>2, ControlsAdded, Zenon
<1>4. new \in Messages /\ new.type \notin LeaseTypes BY <1>3 DEF Messages, LeaseTypes
<1>5. w \notin Leases BY DEF Works
<1>6. \A l \in Leases : AsksOf(l)' = AsksOf(l) BY <1>3, <1>5 DEF AsksOf
<1>7. ToSet(controls) \subseteq ToSet(controls') BY <1>3
<1> QED BY <1>1, <1>3, <1>4, <1>6, <1>7, AskingKeeps

LEMMA InOrderIfNone ==
  ASSUME NEW S, NEW s \in Seq(S), NEW l, NEW t, ~Has(s, l, t) PROVE InOrder(s, l, t)
  BY Entries DEF Has, InOrder

\* The opposite of what was wanted is asked for when the control before it has
\* been answered: what is still on its way is all old.
LEMMA FaithfulIfTurned ==
  ASSUME NEW H, NEW S, NEW u \in Seq(H), NEW d \in Seq(S), NEW q \in Seq(S), NEW m \in S,
         NEW l, NEW t \in LeaseTypes, NEW n \in LeaseTypes, t # n, For(m, l, n),
         NEW r, r = q \/ r = Append(q, m), NEW held, NEW done,
         Faithful(u, d, q, {}, l, t, held, done)
  PROVE  Faithful(u, d, r, {m}, l, n, held, done)
<1>1. Free(u, l, t) /\ Free(d, l, t) /\ Free(q, l, t) BY DEF Faithful
<1>2. ~Has(u, l, n) /\ ~Has(d, l, n) /\ ~Has(q, l, n) BY <1>1 DEF Free, Has, For, Old
<1>3. ~Old(m, l, n) BY DEF For, Old
<1>4. InOrder(u, l, n) /\ InOrder(d, l, n) /\ InOrder(q, l, n) BY <1>2, InOrderIfNone
<1>5. /\ ToSet(Append(q, m)) = ToSet(q) \cup {m}
      /\ InOrder(q, l, n) /\ (Has(q, l, n) => ~Old(m, l, n)) => InOrder(Append(q, m), l, n)
  BY EntriesOfAppend
<1>6. InOrder(r, l, n) /\ ToSet(r) \subseteq ToSet(q) \cup {m} BY <1>3, <1>4, <1>5
<1>7. Lane(u, d, r, l, n) BY <1>2, <1>4, <1>6 DEF Lane, Leads
<1>8. \A x \in ToSet(d) \cup ToSet(r) : For(x, l, n) => x = m BY <1>2, <1>6 DEF Has
<1> QED BY <1>2, <1>7, <1>8 DEF Faithful, For

LEMMA QueueLeaseKeepsOrder ==
  ASSUME DeliveryInv, LaneInv, Patient,
         NEW k \in Leases, NEW type \in LeaseTypes, QueueLease(type, k)
  PROVE  LaneInv'
<1>1. /\ QueueControl(type, k) /\ wanted[k] # type /\ wanted' = [wanted EXCEPT ![k] = type]
      /\ UNCHANGED <<conn, handler, down, up, session, leased, answered>>
  BY DEF QueueLease, node
<1>2. Control(type, k) BY DEF Control
<1>3. PICK new \in Controls :
         /\ new.type = type /\ new.key = k /\ Send(new, "caller")
         /\ ToSet(controls') = ToSet(controls) \cup {new}
         /\ Patient => \A c \in ToSet(controls) : c.key # k
  BY <1>1, <1>2, ControlsAdded, Zenon
<1>4. Paired /\ LeaseInv BY DEF LaneInv
<1>5. new \in Messages BY DEF Messages
<1>6. /\ Queued' = Queued \/ Queued' = Append(Queued, new)
      /\ \A i \in 1..Len(sendq') : sendq'[i].conn = conn'
  BY <1>1, <1>3, <1>4, <1>5, SendIs
<1>7. Acked' = Acked /\ Coming' = Coming BY <1>1 DEF Acked, Coming
<1>8. Paired' BY <1>1, <1>3, <1>4, <1>6, <1>7 DEF Paired
<1>9. wanted' \in [Leases -> LeaseTypes] /\ wanted'[k] = type
      /\ \A l \in Leases : l # k => wanted'[l] = wanted[l]
  BY <1>1, <1>4 DEF LeaseInv
<1>10. Acked \in Seq(Heard) /\ Coming \in Seq(Messages) /\ Queued \in Seq(Messages) BY Typed
<1>11. ASSUME NEW l \in Leases
       PROVE  Faithful(Acked', Coming', Queued', AsksOf(l)', l, wanted'[l], leased'[l], answered')
  <2>1. /\ wanted[l] \in LeaseTypes
        /\ Faithful(Acked, Coming, Queued, AsksOf(l), l, wanted[l], leased[l], answered)
    BY <1>4 DEF LeaseInv
  <2>2. CASE l = k
    <3>1. AsksOf(l) = {} /\ AsksOf(l)' = {new} BY <1>3, <2>2 DEF AsksOf
    <3>2. For(new, l, type) BY <1>3, <2>2 DEF For
    <3>3. wanted[l] # type /\ wanted'[l] = type BY <1>1, <1>9, <2>2
    <3>4. Faithful(Acked, Coming, Queued', {new}, l, type, leased[l], answered)
      <4>1. Faithful(Acked, Coming, Queued, {}, l, wanted[l], leased[l], answered)
        BY <2>1, <3>1
      <4> QED BY <1>5, <1>6, <1>10, <2>1, <3>2, <3>3, <4>1, FaithfulIfTurned
    <3> QED BY <1>1, <1>7, <3>1, <3>3, <3>4
  <2>3. CASE l # k
    <3>1. AsksOf(l)' = AsksOf(l) BY <1>3, <2>3 DEF AsksOf
    <3>2. ~For(new, l, wanted[l]) /\ ~Old(new, l, wanted[l]) BY <1>3, <2>3 DEF For, Old
    <3>3. PartOf(Append(Queued, new), Queued, l, wanted[l])
      BY <1>5, <1>10, <3>2, EntriesOfAppend
    <3>4. /\ PartOf(Queued', Queued, l, wanted[l]) /\ PartOf(Acked, Acked, l, wanted[l])
          /\ PartOf(Coming, Coming, l, wanted[l])
      BY <1>6, <3>3, SamePart
    <3>5. Faithful(Acked, Coming, Queued', AsksOf(l), l, wanted[l], leased[l], answered)
      BY <2>1, <3>4, FaithfulIfFewer
    <3> QED BY <1>1, <1>7, <1>9, <2>3, <3>1, <3>5
  <2> QED BY <2>2, <2>3
<1>12. LeaseInv' BY <1>9, <1>11 DEF LeaseInv
<1> QED BY <1>8, <1>12 DEF LaneInv

-----------------------------------------------------------------------------
(* The connection and the order. *)

\* Each lease has at most one control that is pending.
LEMMA AskedOnce ==
  ASSUME DeliveryInv, LeaseInv, NEW l \in Leases, NEW b \in AsksOf(l), NEW c \in AsksOf(l)
  PROVE  b = c
<1>1. /\ controls \in Seq(Controls)
      /\ ToSet(controls) = {controls[i] : i \in 1..Len(controls)}
  BY Entries DEF DeliveryInv, Stored
<1>2. PICK i \in 1..Len(controls) : b = controls[i] BY <1>1 DEF AsksOf
<1>3. PICK j \in 1..Len(controls) : c = controls[j] BY <1>1 DEF AsksOf
<1>4. b.type = wanted[l] /\ c.type = wanted[l] BY DEF LeaseInv, Faithful
<1>5. b.key = l /\ c.key = l BY DEF AsksOf
<1>6. i = j BY <1>2, <1>3, <1>4, <1>5 DEF DeliveryInv, Stored
<1> QED BY <1>2, <1>3, <1>6

\* A control that is pending is sent once more.
LEMMA FaithfulIfAsked ==
  ASSUME NEW S, NEW u, NEW d, NEW q \in Seq(S), NEW m \in S,
         NEW l, NEW t \in LeaseTypes, NEW asks, m \in asks, m.key = l,
         \A c \in asks : c = m, NEW held, NEW done,
         Faithful(u, d, q, asks, l, t, held, done)
  PROVE  Faithful(u, d, Append(q, m), asks, l, t, held, done)
<1> DEFINE r == Append(q, m)
<1>1. m.type = t BY DEF Faithful
<1>2. ~Old(m, l, t) BY <1>1 DEF Old
<1>3. ToSet(r) = ToSet(q) \cup {m} /\ (InOrder(q, l, t) => InOrder(r, l, t))
  BY <1>2, EntriesOfAppend
<1> HIDE DEF r
<1>4. Free(q, l, t) => Free(r, l, t) BY <1>2, <1>3 DEF Free
<1>5. Lane(u, d, r, l, t) BY <1>3, <1>4 DEF Faithful, Lane, Leads
<1>6. asks # {} OBVIOUS
<1>7. \A c \in asks : c.type = t
      /\ \A x \in ToSet(d) \cup ToSet(r) : For(x, l, t) => x.serial = c.serial
  BY <1>3 DEF Faithful
<1>8. Faithful(u, d, r, asks, l, t, held, done) BY <1>5, <1>6, <1>7 DEF Faithful
<1> QED BY <1>8 DEF r

\* The acknowledgement of what is wanted ends the control.
LEMMA FaithfulIfAnswered ==
  ASSUME NEW H, NEW u \in Seq(H), u # <<>>, NEW d, NEW q, NEW asks, NEW l,
         NEW t \in LeaseTypes, NEW held, NEW done, For(Head(u), l, t),
         Faithful(u, d, q, asks, l, t, held, done)
  PROVE  Faithful(Tail(u), d, q, {}, l, t, held, done)
<1> DEFINE r == Tail(u)
<1>1. /\ Head(u) \in ToSet(u) /\ PartOf(r, u, l, t)
      /\ InOrder(u, l, t) /\ For(Head(u), l, t) => Free(r, l, t)
  BY EntriesOfTail
<1>2. Has(u, l, t) BY <1>1 DEF Has
<1>3. Free(r, l, t) /\ Free(d, l, t) /\ Free(q, l, t) /\ held = (t = "LEASE_ACQUIRE")
  BY <1>1, <1>2 DEF Faithful, Lane, Leads
<1> HIDE DEF r
<1>4. Lane(r, d, q, l, t) BY <1>1, <1>3 DEF Faithful, Lane, Leads, PartOf
<1>5. Faithful(r, d, q, {}, l, t, held, done) BY <1>3, <1>4 DEF Faithful
<1> QED BY <1>5 DEF r

LEMMA AcceptKeepsOrder ==
  ASSUME DeliveryInv, LaneInv, NEW s \in Sessions, Accept(s) PROVE LaneInv'
<1> DEFINE x == [conn |-> s, message |-> Welcome, by |-> "handler"]
           none == <<>>
<1>0. Paired /\ LeaseInv BY DEF LaneInv
<1>1. /\ up[s] # <<>> /\ Head(up[s]) = Register
      /\ conn' = s /\ handler' = [phase |-> "welcome", todo |-> <<>>]
      /\ sendq' = <<x>>
      /\ up' = [t \in Sessions |-> IF t = s THEN Tail(up[s]) ELSE <<>>]
      /\ UNCHANGED <<controls, down, session, wanted, leased, answered>>
  BY DEF Accept, node, callers
<1>2. up[s] \in Seq(Heard) BY Typed
<1>3. Register \in ToSet(up[s]) BY <1>1, <1>2, EntriesOfTail
<1>4. up[s] = <<Register>> /\ Coming = <<>> BY <1>0, <1>3 DEF Paired
<1>5. up' = [t \in Sessions |-> <<>>] BY <1>1, <1>4
<1>6. Acked' = <<>> /\ Coming' = Coming BY <1>1, <1>5, Typed DEF Acked, Coming
<1>7. Queued' = Append(none, Welcome)
  <2>1. Welcome \in Messages BY DEF Messages
  <2>2. x \in Posts /\ none \in Seq(Posts) BY <2>1 DEF Posts
  <2>3. sendq' = Append(none, x) BY <1>1
  <2>4. x.message = Welcome OBVIOUS
  <2> HIDE DEF x, none
  <2>5. QueueOf(Append(none, x)) = Append(QueueOf(none), x.message) BY <2>2, QueueOfAppend
  <2>6. QueueOf(none) = none BY QueueOfNone DEF none
  <2> QED BY <2>3, <2>4, <2>5, <2>6 DEF Queued
<1>8. Paired'
  <2>1. \A t \in Sessions : ToSet(up'[t]) = {} BY <1>5, EntriesOfNone
  <2>2. \A i \in 1..Len(sendq') : sendq'[i].conn = conn' BY <1>1
  <2>3. handler'.phase # "serve" /\ ToSet(handler'.todo) = {} BY <1>1, EntriesOfNone
  <2>4. Coming' = <<>> BY <1>4, <1>6
  <2> QED BY <2>1, <2>2, <2>3, <2>4 DEF Paired
<1>9. ASSUME NEW l \in Leases
      PROVE  /\ AsksOf(l)' = AsksOf(l)
             /\ PartOf(Acked', Acked, l, wanted[l])
             /\ PartOf(Coming', Coming, l, wanted[l])
             /\ PartOf(Queued', Queued, l, wanted[l])
  <2>1. wanted[l] \in LeaseTypes BY <1>0 DEF LeaseInv
  <2>2. Welcome \in Messages /\ Welcome.type \notin LeaseTypes
    BY DEF Messages, Welcome, Message, LeaseTypes
  <2>3. ~For(Welcome, l, wanted[l]) /\ ~Old(Welcome, l, wanted[l]) BY <2>1, <2>2, NotOfLeases
  <2>4. none \in Seq(Messages) OBVIOUS
  <2>5. PartOf(Append(none, Welcome), none, l, wanted[l])
    BY <2>2, <2>3, <2>4, EntriesOfAppend
  <2>6. PartOf(Queued', Queued, l, wanted[l])
    BY <1>7, <2>5, EntriesOfNone DEF PartOf
  <2>7. PartOf(Acked', Acked, l, wanted[l]) /\ PartOf(Coming', Coming, l, wanted[l])
    BY <1>6, EntriesOfNone, SamePart
  <2>8. AsksOf(l)' = AsksOf(l) BY <1>1, AsksStay
  <2> QED BY <2>6, <2>7, <2>8
<1>10. LeaseInv' BY <1>0, <1>1, <1>9, LeaseInvIfFewer, Zenon
<1> QED BY <1>8, <1>10 DEF LaneInv

LEMMA SendNextKeepsOrder ==
  ASSUME DeliveryInv, LaneInv, SendNext PROVE LaneInv'
<1>0. Paired /\ LeaseInv BY DEF LaneInv
<1>1. /\ sendq # <<>> /\ sendq' = Tail(sendq)
      /\ down' = IF Head(sendq).conn = session
                 THEN [down EXCEPT ![session] = Append(@, Head(sendq).message)] ELSE down
      /\ UNCHANGED <<controls, conn, handler, up, session, wanted, leased, answered>>
  BY DEF SendNext, controller, node, callers
<1>2. sendq \in Seq(Posts) /\ down \in [Sessions -> Seq(Messages)] BY Typed
<1>3. /\ Len(sendq) \in Nat \ {0} /\ Head(sendq) = sendq[1] /\ Len(sendq') = Len(sendq) - 1
      /\ \A i \in 1..Len(sendq) - 1 : sendq'[i] = sendq[i + 1]
  BY <1>1, <1>2
<1>4. Head(sendq).conn = conn BY <1>0, <1>3 DEF Paired
<1>5. Head(sendq).conn \in Sessions
  <2>1. Head(sendq) \in Posts BY <1>1, <1>2, HeadOf
  <2> QED BY <2>1 DEF Posts
<1>6. /\ Queued # <<>> /\ Head(Queued) = Head(sendq).message /\ Tail(Queued) = Queued'
  BY <1>1, <1>2, QueueOfTail DEF Queued
<1>7. Acked' = Acked BY <1>1 DEF Acked
<1>8. \A l : AsksOf(l)' = AsksOf(l) BY <1>1, AsksStay
<1>9. \A i \in 1..Len(sendq') : sendq'[i].conn = conn'
  <2>1. ASSUME NEW i \in 1..Len(sendq') PROVE sendq'[i].conn = conn
    <3>1. i + 1 \in 1..Len(sendq) /\ sendq'[i] = sendq[i + 1] BY <1>3
    <3> QED BY <1>0, <3>1 DEF Paired
  <2> QED BY <1>1, <2>1
<1>10. Acked \in Seq(Heard) /\ Coming \in Seq(Messages) /\ Queued \in Seq(Messages) BY Typed
<1>11. CASE conn = session
  <2>1. session \in Sessions /\ session # 0 BY <1>4, <1>5, <1>11, Typed
  <2>2. down' = [down EXCEPT ![session] = Append(down[session], Head(Queued))]
    BY <1>1, <1>4, <1>6, <1>11
  <2>3. Coming' = Append(Coming, Head(Queued)) BY <1>1, <1>2, <2>1, <2>2 DEF Coming
  <2>4. \A s \in Sessions : Register \notin ToSet(up[s]) BY <1>0, <1>11, <2>1 DEF Paired
  <2>5. Paired' BY <1>0, <1>1, <1>9, <1>11, <2>4 DEF Paired
  <2>6. ASSUME NEW l \in Leases
        PROVE  Faithful(Acked', Coming', Queued', AsksOf(l)', l, wanted'[l], leased'[l],
                        answered')
    <3>1. /\ wanted[l] \in LeaseTypes
          /\ Faithful(Acked, Coming, Queued, AsksOf(l), l, wanted[l], leased[l], answered)
      BY <1>0 DEF LeaseInv
    <3>2. Faithful(Acked, Append(Coming, Head(Queued)), Tail(Queued), AsksOf(l), l, wanted[l],
                   leased[l], answered)
      BY <1>6, <1>10, <3>1, FaithfulIfSent
    <3> QED BY <1>1, <1>6, <1>7, <1>8, <2>3, <3>2
  <2>7. LeaseInv' BY <1>0, <1>1, <2>6 DEF LeaseInv
  <2> QED BY <2>5, <2>7 DEF LaneInv
<1>12. CASE conn # session
  <2>1. down' = down BY <1>1, <1>4, <1>12
  <2>2. Coming' = Coming BY <1>1, <2>1 DEF Coming
  <2>3. Paired' BY <1>0, <1>1, <1>9, <2>2 DEF Paired
  <2>4. ASSUME NEW l \in Leases
        PROVE  /\ AsksOf(l)' = AsksOf(l)
               /\ PartOf(Acked', Acked, l, wanted[l])
               /\ PartOf(Coming', Coming, l, wanted[l])
               /\ PartOf(Queued', Queued, l, wanted[l])
    <3>1. PartOf(Tail(Queued), Queued, l, wanted[l]) BY <1>6, <1>10, EntriesOfTail
    <3> QED BY <1>6, <1>7, <1>8, <2>2, <3>1, SamePart
  <2>5. LeaseInv' BY <1>0, <1>1, <2>4, LeaseInvIfFewer, Zenon
  <2> QED BY <2>3, <2>5 DEF LaneInv
<1> QED BY <1>11, <1>12

LEMMA ResendKeepsOrder ==
  ASSUME DeliveryInv, LaneInv, Resend PROVE LaneInv'
<1> DEFINE works == IF handler.phase = "welcome" THEN Assignments
                    ELSE IF handler.phase = "works" THEN handler.todo ELSE <<>>
           again == IF works # <<>> THEN works
                    ELSE IF handler.phase = "controls" THEN handler.todo ELSE controls
           phase == IF works # <<>> THEN "works" ELSE "controls"
           next  == [conn |-> conn, message |-> Head(again), by |-> "handler"]
<1>0. Paired /\ LeaseInv BY DEF LaneInv
<1>1. /\ conn # 0
      /\ IF again = <<>>
         THEN handler' = [phase |-> "serve", todo |-> <<>>] /\ UNCHANGED sendq
         ELSE /\ handler' = [phase |-> phase, todo |-> Tail(again)]
              /\ sendq' = Append(sendq, next)
      /\ UNCHANGED <<controls, conn, down, up, session, wanted, leased, answered>>
  BY DEF Resend, controller, node, callers
<1>2. /\ handler.todo \in Seq(Messages) /\ controls \in Seq(Controls)
      /\ Controls \subseteq Messages /\ pending \in Seq(Works) /\ Len(pending) \in Nat
  BY Typed, LenProperties DEF Messages, DeliveryInv, Stored
<1>3. /\ Assignments \in Seq(Messages)
      /\ \A m \in ToSet(Assignments) : m.type \notin LeaseTypes
  <2>1. \A w \in Works : Start(w) \in Messages /\ Start(w).type \notin LeaseTypes
    BY DEF Start, Message, Messages, Starts, LeaseTypes
  <2>2. \A i \in 1..Len(pending) : pending[i] \in Works BY <1>2
  <2>3. [i \in 1..Len(pending) |-> Start(pending[i])] \in Seq(Messages)
    BY <1>2, <2>1, <2>2
  <2>4. Assignments \in Seq(Messages) /\ Len(Assignments) = Len(pending)
        /\ \A i \in 1..Len(pending) : Assignments[i] = Start(pending[i])
    BY <1>2, <2>3 DEF Assignments
  <2> QED BY <2>1, <2>2, <2>4, Entries
<1>4. /\ again \in Seq(Messages)
      /\ \A m \in ToSet(again) : m.type \in LeaseTypes => m \in ToSet(controls)
  <2>1. controls \in Seq(Messages) BY <1>2, SeqMonotonic
  <2>2. again \in {Assignments, handler.todo, controls} OBVIOUS
  <2> HIDE DEF again
  <2> QED BY <1>0, <1>2, <1>3, <2>1, <2>2 DEF Paired
<1>5. phase # "serve" OBVIOUS
<1> HIDE DEF works, again, phase
<1>6. Acked' = Acked /\ Coming' = Coming BY <1>1 DEF Acked, Coming
<1>7. \A l : AsksOf(l)' = AsksOf(l) BY <1>1, AsksStay
<1>8. sendq \in Seq(Posts) /\ Queued \in Seq(Messages) BY Typed
<1>9. CASE again = <<>>
  <2>1. handler' = [phase |-> "serve", todo |-> <<>>] /\ sendq' = sendq BY <1>1, <1>9
  <2>2. Queued' = Queued BY <2>1 DEF Queued
  <2>3. ToSet(handler'.todo) = {} BY <2>1, EntriesOfNone
  <2>4. \A i \in 1..Len(sendq') : sendq'[i].conn = conn' BY <1>0, <1>1, <2>1 DEF Paired
  <2>5. handler'.todo = <<>> BY <2>1
  <2>6. Paired' BY <1>0, <1>1, <1>6, <2>3, <2>4, <2>5 DEF Paired
  <2>7. LeaseInv' BY <1>0, <1>1, <1>6, <1>7, <2>2, SamePart, LeaseInvIfFewer
  <2> QED BY <2>6, <2>7 DEF LaneInv
<1>10. CASE again # <<>>
  <2>1. /\ handler' = [phase |-> phase, todo |-> Tail(again)]
        /\ sendq' = Append(sendq, next)
    BY <1>1, <1>10
  <2>2. Head(again) \in Messages /\ Head(again) \in ToSet(again)
        /\ ToSet(Tail(again)) \subseteq ToSet(again)
    BY <1>4, <1>10, HeadOf, EntriesOfTail
  <2>3. next \in Posts /\ next.message = Head(again) /\ next.conn = conn
    BY <1>1, <2>2, Typed DEF Posts
  <2> HIDE DEF next
  <2>4. Queued' = Append(Queued, Head(again))
    BY <1>8, <2>1, <2>3, QueueOfAppend DEF Queued
  <2>5. /\ Len(sendq') = Len(sendq) + 1 /\ Len(sendq) \in Nat
        /\ \A i \in 1..Len(sendq) : sendq'[i] = sendq[i]
        /\ sendq'[Len(sendq) + 1] = next
    BY <1>8, <2>1, <2>3, Appended
  <2>6. ASSUME NEW i \in 1..Len(sendq') PROVE sendq'[i].conn = conn
    <3>1. CASE i \in 1..Len(sendq) BY <1>0, <2>5, <3>1 DEF Paired
    <3>2. CASE i = Len(sendq) + 1 BY <2>3, <2>5, <3>2
    <3> QED BY <2>5, <3>1, <3>2
  <2>7. \A m \in ToSet(handler'.todo) : m.type \in LeaseTypes => m \in ToSet(controls')
    BY <1>1, <1>4, <2>1, <2>2
  <2>8. handler'.phase # "serve" BY <1>5, <2>1
  <2>9. \A i \in 1..Len(sendq') : sendq'[i].conn = conn' BY <1>1, <2>6
  <2>10. Paired' BY <1>0, <1>1, <1>6, <2>7, <2>8, <2>9 DEF Paired
  <2>11. ASSUME NEW l \in Leases
         PROVE  Faithful(Acked', Coming', Queued', AsksOf(l)', l, wanted'[l], leased'[l],
                         answered')
    <3> DEFINE m == Head(again)
    <3>1. /\ wanted[l] \in LeaseTypes
          /\ Faithful(Acked, Coming, Queued, AsksOf(l), l, wanted[l], leased[l], answered)
      BY <1>0 DEF LeaseInv
    <3>2. m \in Messages BY <2>2
    <3>3. m.type \in LeaseTypes => m \in ToSet(controls) BY <1>4, <2>2
    <3> HIDE DEF m
    <3>4. CASE m.type \in LeaseTypes /\ m.key = l
      <4>1. m \in AsksOf(l) BY <3>3, <3>4 DEF AsksOf
      <4>2. \A c \in AsksOf(l) : c = m BY <1>0, <4>1, AskedOnce
      <4>3. Faithful(Acked, Coming, Append(Queued, m), AsksOf(l), l, wanted[l], leased[l],
                     answered)
        BY <1>8, <3>1, <3>2, <3>4, <4>1, <4>2, FaithfulIfAsked
      <4> QED BY <1>1, <1>6, <1>7, <2>4, <4>3 DEF m
    <3>5. CASE ~(m.type \in LeaseTypes /\ m.key = l)
      <4>1. ~For(m, l, wanted[l]) /\ ~Old(m, l, wanted[l]) BY <3>1, <3>5 DEF For, Old
      <4>2. PartOf(Append(Queued, m), Queued, l, wanted[l])
        BY <1>8, <3>2, <4>1, EntriesOfAppend
      <4>3. Faithful(Acked, Coming, Append(Queued, m), AsksOf(l), l, wanted[l], leased[l],
                     answered)
        BY <3>1, <4>2, SamePart, FaithfulIfFewer
      <4> QED BY <1>1, <1>6, <1>7, <2>4, <4>3 DEF m
    <3> QED BY <3>4, <3>5
  <2>12. LeaseInv' BY <1>0, <1>1, <2>11 DEF LeaseInv
  <2> QED BY <2>10, <2>12 DEF LaneInv
<1> QED BY <1>9, <1>10

\* The connection is given up.
LEMMA HangUpKeepsOrder ==
  ASSUME DeliveryInv, LaneInv, HangUp, \A s \in Sessions : up'[s] \in {up[s], <<>>},
         UNCHANGED <<controls, down, session, wanted, leased, answered>>
  PROVE  LaneInv'
<1>0. Paired /\ LeaseInv BY DEF LaneInv
<1>1. conn' = 0 /\ handler' = [phase |-> "idle", todo |-> <<>>] /\ sendq' = <<>>
  BY DEF HangUp, Idle
<1>2. Acked' = <<>> /\ Coming' = Coming /\ Queued' = <<>>
  BY <1>1, QueueOfNone DEF Acked, Coming, Queued
<1>3. ToSet(<<>>) = {} BY EntriesOfNone
<1>4. \A s \in Sessions : Register \in ToSet(up'[s]) => up'[s] = up[s] BY <1>3
<1>5. \A s \in Sessions : s # 0 BY Typed
<1>6. \A i \in 1..Len(sendq') : sendq'[i].conn = conn' BY <1>1
<1>7. Paired' BY <1>0, <1>1, <1>2, <1>3, <1>4, <1>5, <1>6 DEF Paired
<1>8. \A l : AsksOf(l)' = AsksOf(l) BY AsksStay
<1>9. LeaseInv' BY <1>0, <1>2, <1>8, EntriesOfNone, SamePart, LeaseInvIfFewer
<1> QED BY <1>7, <1>9 DEF LaneInv

LEMMA NoticeClosedKeepsOrder ==
  ASSUME DeliveryInv, LaneInv, NoticeClosed PROVE LaneInv'
<1>1. /\ HangUp /\ up' = [up EXCEPT ![conn] = <<>>]
      /\ UNCHANGED <<controls, down, session, wanted, leased, answered>>
  BY DEF NoticeClosed, Refused, node, callers
<1>2. \A s \in Sessions : up'[s] \in {up[s], <<>>} BY <1>1, Typed
<1> QED BY <1>1, <1>2, HangUpKeepsOrder

LEMMA RestartControllerKeepsOrder ==
  ASSUME DeliveryInv, LaneInv, RestartController PROVE LaneInv'
<1>1. /\ HangUp /\ up' = [s \in Sessions |-> <<>>]
      /\ UNCHANGED <<controls, down, session, wanted, leased, answered>>
  BY DEF RestartController, controller, node, callers
<1>2. \A s \in Sessions : up'[s] \in {up[s], <<>>} BY <1>1
<1> QED BY <1>1, <1>2, HangUpKeepsOrder

LEMMA TakeStatusTornKeepsOrder ==
  ASSUME DeliveryInv, LaneInv, TakeStatusTorn PROVE LaneInv'
<1>1. /\ HangUp /\ up' = [up EXCEPT ![conn] = <<>>]
      /\ UNCHANGED <<controls, down, session, wanted, leased, answered>>
  BY DEF TakeStatusTorn, node, callers
<1>2. \A s \in Sessions : up'[s] \in {up[s], <<>>} BY <1>1, Typed
<1> QED BY <1>1, <1>2, HangUpKeepsOrder

\* The handler has taken the first message of its connection.
LEMMA ServedKeepsPaired ==
  ASSUME DeliveryInv, Paired, handler.phase = "serve", conn # 0, up[conn] # <<>>, Served,
         UNCHANGED <<down, session>>
  PROVE  /\ Paired' /\ Acked # <<>> /\ Head(Acked) = Head(up[conn])
         /\ Acked' = Tail(Acked) /\ Coming' = Coming /\ Queued' = Queued
<1>1. /\ up' = [up EXCEPT ![conn] = Tail(up[conn])] /\ UNCHANGED <<conn, handler, sendq>>
  BY DEF Served
<1>2. up \in [Sessions -> Seq(Heard)] /\ conn \in Sessions BY Typed
<1>3. Acked = up[conn] /\ Acked' = Tail(Acked) BY <1>1, <1>2 DEF Acked
<1>4. Coming' = Coming /\ Queued' = Queued BY <1>1 DEF Coming, Queued
<1>5. ToSet(Tail(up[conn])) \subseteq ToSet(up[conn])
  <2>1. up[conn] \in Seq(Heard) BY <1>2
  <2> QED BY <2>1, EntriesOfTail
<1>6. Register \notin ToSet(up[conn]) BY <1>2 DEF Paired
<1>7. \A s \in Sessions : Register \in ToSet(up'[s]) => s # conn /\ up'[s] = up[s]
  BY <1>1, <1>2, <1>5, <1>6
<1>8. handler'.todo = <<>> BY <1>1 DEF Paired
<1>9. ToSet(handler'.todo) = {} BY <1>8, EntriesOfNone
<1>10. \A i \in 1..Len(sendq') : sendq'[i].conn = conn' BY <1>1 DEF Paired
<1>11. Paired' BY <1>1, <1>4, <1>7, <1>8, <1>9, <1>10 DEF Paired
<1> QED BY <1>3, <1>4, <1>11

LEMMA TakeStatusKeepsOrder ==
  ASSUME DeliveryInv, LaneInv, TakeStatus PROVE LaneInv'
<1> DEFINE w == Head(up[conn]).key
           answer == Head(up[conn]).answer
<1>0. Paired /\ LeaseInv BY DEF LaneInv
<1>1. /\ Receive("WORKLOAD_STATUS")
      /\ IF StatusRefused(w, answer)
         THEN Refused /\ UNCHANGED controls
         ELSE Complete("WORKLOAD_STOP", w) /\ Served
      /\ UNCHANGED <<down, session, wanted, leased, answered>>
  BY DEF TakeStatus, node, callers
<1> HIDE DEF w, answer
<1>2. CASE StatusRefused(w, answer)
  <2>1. HangUp /\ up' = [up EXCEPT ![conn] = <<>>] /\ controls' = controls
    BY <1>1, <1>2 DEF Refused
  <2>2. \A s \in Sessions : up'[s] \in {up[s], <<>>} BY <2>1, Typed
  <2> QED BY <1>1, <2>1, <2>2, HangUpKeepsOrder
<1>3. CASE ~StatusRefused(w, answer)
  <2>1. Complete("WORKLOAD_STOP", w) /\ Served BY <1>1, <1>3
  <2>2. conn # 0 /\ handler.phase = "serve" /\ up[conn] # <<>> BY <1>1 DEF Receive
  <2>3. Paired' /\ Acked # <<>> /\ Acked' = Tail(Acked) /\ Coming' = Coming /\ Queued' = Queued
    BY <1>0, <1>1, <2>1, <2>2, ServedKeepsPaired
  <2>4. ASSUME NEW l \in Leases PROVE AsksOf(l)' = AsksOf(l)
    <3>1. ToSet(controls') = {c \in ToSet(controls) : ~(c.type = "WORKLOAD_STOP" /\ c.key = w)}
      BY <2>1, ControlsRemoved
    <3>2. ToSet(controls) \subseteq Controls BY Entries, Typed
    <3>3. \A c \in Controls : c.key = l => c.type # "WORKLOAD_STOP"
      BY DEF Controls, LeaseTypes, Works
    <3> QED BY <3>1, <3>2, <3>3 DEF AsksOf
  <2>5. \A l : PartOf(Acked', Acked, l, wanted[l]) BY <2>3, Typed, EntriesOfTail
  <2>6. LeaseInv' BY <1>0, <1>1, <2>3, <2>4, <2>5, SamePart, LeaseInvIfFewer
  <2> QED BY <2>3, <2>6 DEF LaneInv
<1> QED BY <1>2, <1>3

LEMMA TakeLeaseKeepsOrder ==
  ASSUME DeliveryInv, LaneInv, TakeLease PROVE LaneInv'
<1> DEFINE ack == Head(up[conn])
<1>0. Paired /\ LeaseInv BY DEF LaneInv
<1>1. /\ conn # 0 /\ handler.phase = "serve" /\ up[conn] # <<>> /\ ack.type \in LeaseTypes
      /\ Complete(ack.type, ack.key) /\ Served
      /\ UNCHANGED <<down, session, wanted, leased, answered>>
  BY DEF TakeLease, Receive, node, callers, LeaseTypes
<1>2. /\ Paired' /\ Acked # <<>> /\ Head(Acked) = ack
      /\ Acked' = Tail(Acked) /\ Coming' = Coming /\ Queued' = Queued
  BY <1>0, <1>1, ServedKeepsPaired
<1> HIDE DEF ack
<1>3. ToSet(controls') = {c \in ToSet(controls) : ~(c.type = ack.type /\ c.key = ack.key)}
  BY <1>1, ControlsRemoved
<1>4. Acked \in Seq(Heard) BY Typed
<1>5. ASSUME NEW l \in Leases
      PROVE  Faithful(Acked', Coming', Queued', AsksOf(l)', l, wanted'[l], leased'[l],
                      answered')
  <2>1. /\ wanted[l] \in LeaseTypes
        /\ Faithful(Acked, Coming, Queued, AsksOf(l), l, wanted[l], leased[l], answered)
    BY <1>0 DEF LeaseInv
  <2>2. \A c \in AsksOf(l) : c.type = wanted[l] BY <2>1 DEF Faithful
  <2>3. CASE For(ack, l, wanted[l])
    <3>1. AsksOf(l)' = {} BY <1>3, <2>2, <2>3 DEF AsksOf, For
    <3>2. Faithful(Tail(Acked), Coming, Queued, {}, l, wanted[l], leased[l], answered)
      BY <1>2, <1>4, <2>1, <2>3, FaithfulIfAnswered
    <3> QED BY <1>1, <1>2, <3>1, <3>2
  <2>4. CASE ~For(ack, l, wanted[l])
    <3>1. AsksOf(l)' = AsksOf(l) BY <1>3, <2>2, <2>4 DEF AsksOf, For
    <3>2. PartOf(Acked', Acked, l, wanted[l]) BY <1>2, <1>4, EntriesOfTail
    <3>3. Faithful(Acked', Coming, Queued, AsksOf(l), l, wanted[l], leased[l], answered)
      BY <2>1, <3>2, SamePart, FaithfulIfFewer
    <3> QED BY <1>1, <1>2, <3>1, <3>3
  <2> QED BY <2>3, <2>4
<1>6. LeaseInv' BY <1>0, <1>1, <1>5 DEF LeaseInv
<1> QED BY <1>2, <1>6 DEF LaneInv

-----------------------------------------------------------------------------
(* The node and the order. *)

\* The first control of d is handled and acknowledged.
LEMMA FaithfulIfHandled ==
  ASSUME NEW H, NEW S, NEW u \in Seq(H), NEW d \in Seq(S), d # <<>>, NEW q, NEW a \in H,
         NEW asks, NEW l, NEW t \in LeaseTypes, NEW held, NEW done,
         NEW now, now = (Head(d).type = "LEASE_ACQUIRE"),
         a.type = Head(d).type, a.key = Head(d).key,
         Head(d).type \in LeaseTypes, Head(d).key = l,
         Faithful(u, d, q, asks, l, t, held, done)
  PROVE  Faithful(Append(u, a), Tail(d), q, asks, l, t, now, done \cup {Head(d).serial})
<1> DEFINE x == Head(d)
           r == Tail(d)
           e == Append(u, a)
           more == done \cup {x.serial}
<1>1. /\ x \in ToSet(d) /\ ToSet(d) = ToSet(r) \cup {x} /\ PartOf(r, d, l, t)
      /\ InOrder(d, l, t) /\ For(x, l, t) => Free(r, l, t)
  BY EntriesOfTail
<1>2. /\ ToSet(e) = ToSet(u) \cup {a}
      /\ InOrder(u, l, t) /\ (Has(u, l, t) => ~Old(a, l, t)) => InOrder(e, l, t)
  BY EntriesOfAppend
<1>3. (For(a, l, t) <=> For(x, l, t)) /\ (Old(a, l, t) <=> Old(x, l, t))
  BY DEF For, Old
<1>4. For(x, l, t) \/ Old(x, l, t) BY DEF For, Old
<1>5. ~(For(x, l, t) /\ Old(x, l, t)) BY DEF For, Old
<1>6. For(x, l, t) => now = (t = "LEASE_ACQUIRE") BY DEF For
<1> HIDE DEF x, r, e
<1>7. Lane(u, d, q, l, t) BY DEF Faithful
<1>8. Has(u, l, t) => ~Old(a, l, t) BY <1>1, <1>3, <1>7 DEF Lane, Leads, Free
<1>9. InOrder(e, l, t) /\ InOrder(r, l, t) /\ InOrder(q, l, t)
  BY <1>1, <1>2, <1>7, <1>8 DEF Lane, PartOf
<1>10. Has(e, l, t) => Has(u, l, t) \/ For(x, l, t) BY <1>2, <1>3 DEF Has
<1>11. Has(r, l, t) => Has(d, l, t) BY <1>1 DEF Has
<1>12. For(x, l, t) => Has(d, l, t) BY <1>1 DEF Has
<1>13. Free(d, l, t) => Free(r, l, t) BY <1>1 DEF Free
<1>14. Lane(e, r, q, l, t)
  BY <1>1, <1>7, <1>9, <1>10, <1>11, <1>12, <1>13 DEF Lane, Leads
<1>15. CASE For(x, l, t)
  <2>1. \A c \in asks : c.serial \in more BY <1>1, <1>15 DEF Faithful
  <2>2. ~Old(a, l, t) BY <1>3, <1>5, <1>15
  <2>3. Free(u, l, t) => Free(e, l, t) BY <1>2, <2>2 DEF Free
  <2>4. \A c \in asks :
          /\ c.type = t
          /\ \A m \in ToSet(r) \cup ToSet(q) : For(m, l, t) => m.serial = c.serial
    BY <1>1 DEF Faithful
  <2>5. asks = {} => Free(e, l, t) /\ Free(r, l, t) /\ Free(q, l, t)
    BY <1>13, <2>3 DEF Faithful
  <2> HIDE DEF more
  <2>6. Faithful(e, r, q, asks, l, t, now, more)
    BY <1>6, <1>14, <1>15, <2>1, <2>4, <2>5 DEF Faithful
  <2> QED BY <2>6 DEF x, r, e, more
<1>16. CASE Old(x, l, t)
  <2>1. ~For(x, l, t) /\ ~Free(d, l, t) BY <1>1, <1>5, <1>16 DEF Free
  <2>2. ~Has(u, l, t) BY <1>7, <2>1 DEF Lane, Leads
  <2>3. ~Has(e, l, t) BY <1>10, <2>1, <2>2
  <2>4. asks # {} BY <2>1 DEF Faithful
  <2>5. \A c \in asks :
          /\ c.type = t
          /\ \A m \in ToSet(r) \cup ToSet(q) : For(m, l, t) => m.serial = c.serial
    BY <1>1 DEF Faithful
  <2> HIDE DEF more
  <2>6. Faithful(e, r, q, asks, l, t, now, more)
    BY <1>14, <2>3, <2>4, <2>5 DEF Faithful
  <2> QED BY <2>6 DEF x, r, e, more
<1> QED BY <1>4, <1>15, <1>16

\* What the node has to handle came in the session that the Controller accepted,
\* unless that was given up.
LEMMA ReplyKeepsPaired ==
  ASSUME DeliveryInv, Paired, session \in Sessions, down[session] # <<>>,
         NEW m \in Heard, m # Register, Reply(m), UNCHANGED <<conn, handler, sendq, controls>>
  PROVE  /\ Paired' /\ Coming # <<>> /\ Head(Coming) = Head(down[session])
         /\ Coming' = Tail(Coming) /\ Queued' = Queued
         /\ Acked' = Append(Acked, m) \/ (Acked = <<>> /\ Acked' = <<>>)
<1>1. /\ down' = [down EXCEPT ![session] = Tail(down[session])]
      /\ up' = [up EXCEPT ![session] = Append(up[session], m)]
      /\ UNCHANGED <<session, stage>>
  BY DEF Reply
<1>2. /\ down \in [Sessions -> Seq(Messages)] /\ up \in [Sessions -> Seq(Heard)]
      /\ session # 0
  BY Typed
<1>3. Coming = down[session] /\ Coming' = Tail(Coming) BY <1>1, <1>2 DEF Coming
<1>4. Coming # <<>> BY <1>3
<1>5. conn = 0 \/ conn = session BY <1>4 DEF Paired
<1>6. \A s \in Sessions : Register \notin ToSet(up[s]) BY <1>4 DEF Paired
<1>7. ToSet(Append(up[session], m)) = ToSet(up[session]) \cup {m}
  BY <1>2, EntriesOfAppend
<1>8. \A s \in Sessions : Register \notin ToSet(up'[s]) BY <1>1, <1>2, <1>6, <1>7
<1>9. Queued' = Queued BY DEF Queued
<1>10. \A i \in 1..Len(sendq') : sendq'[i].conn = conn' BY DEF Paired
<1>11. conn' # 0 /\ session' # conn' => Coming' = <<>> BY <1>1, <1>5
<1>12. Paired' BY <1>8, <1>10, <1>11 DEF Paired
<1>13. Acked' = Append(Acked, m) \/ (Acked = <<>> /\ Acked' = <<>>)
  BY <1>1, <1>2, <1>5 DEF Acked
<1> QED BY <1>3, <1>4, <1>9, <1>12, <1>13

\* An answer of a work.
LEMMA StatusKeepsOrder ==
  ASSUME DeliveryInv, LaneInv, session \in Sessions, down[session] # <<>>,
         NEW m \in Heard, m.type = "WORKLOAD_STATUS", Reply(m), answered \subseteq answered',
         UNCHANGED <<conn, handler, sendq, controls, wanted, leased>>
  PROVE  LaneInv'
<1>0. Paired /\ LeaseInv BY DEF LaneInv
<1>1. m \in Heard /\ m # Register /\ m.type \notin LeaseTypes
  BY DEF Register, LeaseTypes
<1>2. /\ Paired' /\ Coming # <<>> /\ Coming' = Tail(Coming) /\ Queued' = Queued
      /\ Acked' = Append(Acked, m) \/ Acked' = Acked
  BY <1>0, <1>1, ReplyKeepsPaired
<1>3. Acked \in Seq(Heard) /\ Coming \in Seq(Messages) BY Typed
<1>4. ASSUME NEW l \in Leases
      PROVE  /\ AsksOf(l)' = AsksOf(l)
             /\ PartOf(Acked', Acked, l, wanted[l])
             /\ PartOf(Coming', Coming, l, wanted[l])
             /\ PartOf(Queued', Queued, l, wanted[l])
  <2>1. wanted[l] \in LeaseTypes BY <1>0 DEF LeaseInv
  <2>2. ~For(m, l, wanted[l]) /\ ~Old(m, l, wanted[l]) BY <1>1, <2>1, NotOfLeases
  <2>3. PartOf(Append(Acked, m), Acked, l, wanted[l])
    BY <1>1, <1>3, <2>2, EntriesOfAppend
  <2>4. PartOf(Tail(Coming), Coming, l, wanted[l]) BY <1>2, <1>3, EntriesOfTail
  <2> QED BY <1>2, <2>3, <2>4, SamePart, AsksStay
<1>5. LeaseInv' BY <1>0, <1>4, LeaseInvIfFewer, Zenon
<1> QED BY <1>2, <1>5 DEF LaneInv

\* The session ends for the node.
LEMMA LeaveKeepsOrder ==
  ASSUME DeliveryInv, LaneInv, Leave,
         UNCHANGED <<conn, handler, sendq, controls, wanted, leased, answered>>,
         \A s \in Sessions : Register \in ToSet(up'[s]) => up'[s] = up[s],
         \A l \in Leases : PartOf(Acked', Acked, l, wanted[l])
  PROVE  LaneInv'
<1>0. Paired /\ LeaseInv BY DEF LaneInv
<1>1. session' = 0 /\ Coming' = <<>> BY DEF Leave, Coming
<1>2. Queued' = Queued BY DEF Queued
<1>3. \A i \in 1..Len(sendq') : sendq'[i].conn = conn' BY <1>0 DEF Paired
<1>4. \A s \in Sessions : Register \in ToSet(up'[s]) => Register \in ToSet(up[s])
  OBVIOUS
<1>5. Paired' BY <1>0, <1>1, <1>3, <1>4 DEF Paired
<1>6. LeaseInv' BY <1>0, <1>1, <1>2, EntriesOfNone, SamePart, AsksStay, LeaseInvIfFewer
<1> QED BY <1>5, <1>6 DEF LaneInv

LEMMA ConnectKeepsOrder ==
  ASSUME DeliveryInv, LaneInv, Connect PROVE LaneInv'
<1> DEFINE first == <<Register>>
<1>0. Paired /\ LeaseInv BY DEF LaneInv
<1>1. PICK s \in Sessions :
        /\ stage = "off" /\ s # conn
        /\ session' = s
        /\ up' = [up EXCEPT ![s] = first]
        /\ down' = [down EXCEPT ![s] = <<>>]
        /\ UNCHANGED <<controls, conn, handler, sendq, wanted, leased, answered>>
  BY DEF Connect, controller, callers
<1>2. /\ down \in [Sessions -> Seq(Messages)] /\ up \in [Sessions -> Seq(Heard)]
      /\ conn \in Sessions \cup {0} /\ s # 0
  BY Typed
<1> HIDE DEF first
<1>3. session = 0 BY <1>1 DEF DeliveryInv, Linked
<1>4. Coming = <<>> /\ Coming' = <<>> BY <1>1, <1>2, <1>3 DEF Coming
<1>5. Acked' = Acked /\ Queued' = Queued BY <1>1, <1>2 DEF Acked, Queued
<1>6. up'[s] = first /\ \A r \in Sessions : r # s => up'[r] = up[r] BY <1>1, <1>2
<1>7. \A i \in 1..Len(sendq') : sendq'[i].conn = conn' BY <1>0, <1>1 DEF Paired
<1>8. \A r \in Sessions : Register \in ToSet(up'[r]) => up'[r] = first /\ r # conn'
  BY <1>0, <1>1, <1>6 DEF Paired, first
<1>9. Paired' BY <1>0, <1>1, <1>4, <1>7, <1>8 DEF Paired, first
<1>10. LeaseInv' BY <1>0, <1>1, <1>4, <1>5, SamePart, AsksStay, LeaseInvIfFewer
<1> QED BY <1>9, <1>10 DEF LaneInv

LEMMA NoticeRefusedKeepsOrder ==
  ASSUME DeliveryInv, LaneInv, NoticeRefused PROVE LaneInv'
<1>1. /\ Leave /\ up' = [up EXCEPT ![session] = <<>>] /\ session # conn
      /\ UNCHANGED <<conn, handler, sendq, controls, wanted, leased, answered>>
  BY DEF NoticeRefused, controller, callers
<1>2. up \in [Sessions -> Seq(Heard)] /\ conn \in Sessions \cup {0} BY Typed
<1>3. \A s \in Sessions : up'[s] = up[s] \/ up'[s] = <<>> BY <1>1, <1>2
<1>4. \A s \in Sessions : Register \in ToSet(up'[s]) => up'[s] = up[s]
  BY <1>3, EntriesOfNone
<1>5. Acked' = Acked BY <1>1, <1>2 DEF Acked
<1> QED BY <1>1, <1>4, <1>5, SamePart, LeaveKeepsOrder

LEMMA DieRunningKeepsOrder ==
  ASSUME DeliveryInv, LaneInv, DieRunning PROVE LaneInv'
<1>1. /\ Leave /\ up' = up
      /\ UNCHANGED <<conn, handler, sendq, controls, wanted, leased, answered>>
  BY DEF DieRunning, controller, callers
<1>2. Acked' = Acked BY <1>1 DEF Acked
<1> QED BY <1>1, <1>2, SamePart, LeaveKeepsOrder

LEMMA BreakKeepsOrder ==
  ASSUME DeliveryInv, LaneInv, Break PROVE LaneInv'
<1>0. Paired BY DEF LaneInv
<1>1. PICK n \in 0..Len(up[session]) :
        /\ session # 0 /\ up' = [up EXCEPT ![session] = SubSeq(up[session], 1, n)]
        /\ Leave
        /\ UNCHANGED <<conn, handler, sendq, controls, wanted, leased, answered>>
  BY DEF Break, controller, callers
<1>2. /\ up \in [Sessions -> Seq(Heard)] /\ conn \in Sessions \cup {0}
      /\ session \in Sessions /\ 0 \notin Sessions
  BY <1>1, Typed
<1> DEFINE rest == SubSeq(up[session], 1, n)
<1>3. ToSet(rest) \subseteq ToSet(up[session]) /\ \A l, t : PartOf(rest, up[session], l, t)
  BY <1>2, EntriesOfPrefix
<1>4. Register \in ToSet(rest) => rest = up[session]
  <2> SUFFICES ASSUME Register \in ToSet(rest) PROVE rest = up[session]
    OBVIOUS
  <2>1. up[session] = <<Register>> BY <1>0, <1>2, <1>3 DEF Paired
  <2>2. n = 0 \/ n = 1 BY <2>1
  <2>3. CASE n = 0
    <3>1. rest = <<>> BY <2>1, <2>3
    <3> QED BY <3>1, EntriesOfNone
  <2>4. CASE n = 1
    <3>1. up[session] \in Seq(Heard) /\ Len(up[session]) = n BY <1>2, <2>1, <2>4
    <3> QED BY <3>1, SubSeqFull
  <2> QED BY <2>2, <2>3, <2>4
<1> HIDE DEF rest
<1>5. up'[session] = rest /\ \A s \in Sessions : s # session => up'[s] = up[s]
  BY <1>1, <1>2 DEF rest
<1>6. \A s \in Sessions : Register \in ToSet(up'[s]) => up'[s] = up[s] BY <1>4, <1>5
<1>7. \A l : PartOf(Acked', Acked, l, wanted[l])
  <2>1. CASE conn = session
    <3>1. Acked' = rest /\ Acked = up[session] BY <1>1, <1>2, <1>5, <2>1 DEF Acked
    <3> QED BY <1>3, <3>1
  <2>2. CASE conn # session
    <3>1. Acked' = Acked BY <1>1, <1>2, <1>5, <2>2 DEF Acked
    <3> QED BY <3>1, SamePart
  <2> QED BY <2>1, <2>2
<1> QED BY <1>1, <1>6, <1>7, LeaveKeepsOrder

LEMMA WelcomedKeepsOrder ==
  ASSUME DeliveryInv, LaneInv, Welcomed PROVE LaneInv'
<1>0. Paired /\ LeaseInv BY DEF LaneInv
<1>1. /\ Handle("WELCOME") /\ down' = [down EXCEPT ![session] = Tail(down[session])]
      /\ UNCHANGED <<controls, conn, handler, sendq, up, session, wanted, leased, answered>>
  BY DEF Welcomed, controller, callers
<1>2. session \in Sessions /\ down[session] # <<>> BY <1>1, Handled
<1>3. down \in [Sessions -> Seq(Messages)] /\ session # 0 BY <1>2, Typed
<1>4. Coming = down[session] /\ Coming' = Tail(Coming) BY <1>1, <1>2, <1>3 DEF Coming
<1>5. Coming # <<>> /\ Coming \in Seq(Messages) BY <1>2, <1>4, Typed
<1>6. conn = 0 \/ session = conn BY <1>0, <1>5 DEF Paired
<1>7. \A s \in Sessions : Register \notin ToSet(up[s]) BY <1>0, <1>5 DEF Paired
<1>8. \A i \in 1..Len(sendq') : sendq'[i].conn = conn' BY <1>0, <1>1 DEF Paired
<1>9. Paired' BY <1>0, <1>1, <1>6, <1>7, <1>8 DEF Paired
<1>10. Acked' = Acked /\ Queued' = Queued BY <1>1 DEF Acked, Queued
<1>11. \A l : PartOf(Coming', Coming, l, wanted[l]) BY <1>4, <1>5, EntriesOfTail
<1>12. LeaseInv' BY <1>0, <1>1, <1>10, <1>11, SamePart, AsksStay, LeaseInvIfFewer
<1> QED BY <1>9, <1>12 DEF LaneInv

LEMMA HandleStartKeepsOrder ==
  ASSUME DeliveryInv, LaneInv, HandleStart PROVE LaneInv'
<1> DEFINE w == Head(down[session]).key
           done == [state |-> "COMPLETED", stop |-> "none"]
<1>1. /\ UNCHANGED <<pending, controls, results, conn, handler, sendq, leased, wanted, answered>>
      /\ Handle("WORKLOAD_START")
      /\ \/ /\ journal[w] = "ABSENT" /\ journal' = [journal EXCEPT ![w] = "COMPLETED"]
            /\ Reply(Status(w, done))
         \/ /\ journal[w] # "ABSENT" /\ UNCHANGED journal
            /\ (Leave /\ UNCHANGED up) \/ Reply(Status(w, Recorded(w)))
  BY DEF HandleStart, controller, callers
<1>2. /\ session \in Sessions /\ down[session] # <<>>
      /\ w \in Works /\ StatusExpected(w)
  BY <1>1, Handled, Keyed DEF Expected
<1> HIDE DEF w
<1>3. /\ journal[w] = "ABSENT" /\ journal' = [journal EXCEPT ![w] = "COMPLETED"]
         => Status(w, done) \in Told'
      /\ journal[w] # "ABSENT" /\ UNCHANGED journal => Status(w, Recorded(w)) \in Told'
  BY <1>1, <1>2, StartAnswered
<1> HIDE DEF done
<1>4. Told' \subseteq Heard BY DEF Told, Heard
<1>5. CASE Leave /\ UNCHANGED up
  <2>1. Acked' = Acked BY <1>1, <1>5 DEF Acked
  <2> QED BY <1>1, <1>5, <2>1, SamePart, LeaveKeepsOrder
<1>6. ASSUME NEW answer, Status(w, answer) \in Told', Reply(Status(w, answer)) PROVE LaneInv'
  <2>1. Status(w, answer) \in Heard /\ Status(w, answer).type = "WORKLOAD_STATUS"
    BY <1>4, <1>6 DEF Status
  <2> QED BY <1>1, <1>2, <1>6, <2>1, StatusKeepsOrder
<1> QED BY <1>1, <1>3, <1>5, <1>6

LEMMA HandleStopKeepsOrder ==
  ASSUME DeliveryInv, LaneInv, HandleStop PROVE LaneInv'
<1> DEFINE w == Head(down[session]).key
           answer == CASE journal[w] = "ABSENT" -> [state |-> "CANCELLED", stop |-> "before"]
                       [] journal[w] = "EXECUTING" -> [Recorded(w) EXCEPT !.stop = "in_flight"]
                       [] OTHER -> [Recorded(w) EXCEPT !.stop = "terminal"]
<1>1. /\ UNCHANGED <<pending, controls, results, conn, handler, sendq, leased, wanted>>
      /\ answered \subseteq answered'
      /\ Handle("WORKLOAD_STOP")
      /\ journal' = [journal EXCEPT ![w] = IF journal[w] = "ABSENT" THEN "CANCELLED"
                                           ELSE journal[w]]
      /\ Reply(Status(w, answer))
  BY DEF HandleStop, controller, callers
<1>2. /\ session \in Sessions /\ down[session] # <<>>
      /\ w \in Works /\ StatusExpected(w)
  BY <1>1, Handled, Keyed DEF Expected
<1> HIDE DEF w
<1>3. Status(w, answer) \in Told' BY <1>1, <1>2, StopAnswered
<1> HIDE DEF answer
<1>4. Told' \subseteq Heard BY DEF Told, Heard
<1>5. Status(w, answer) \in Heard /\ Status(w, answer).type = "WORKLOAD_STATUS"
  BY <1>3, <1>4 DEF Status
<1> QED BY <1>1, <1>2, <1>5, StatusKeepsOrder

LEMMA HandleLeaseKeepsOrder ==
  ASSUME DeliveryInv, LaneInv, HandleLease PROVE LaneInv'
<1> DEFINE control == Head(down[session])
           granted == control.type = "LEASE_ACQUIRE"
           ack == [type |-> control.type, key |-> control.key]
<1>0. Paired /\ LeaseInv BY DEF LaneInv
<1>1. PICK type \in LeaseTypes :
        /\ Handle(type)
        /\ leased' = [leased EXCEPT ![control.key] = granted]
        /\ Reply(ack)
        /\ answered' = answered \cup {control.serial}
        /\ UNCHANGED <<controls, conn, handler, sendq, wanted>>
  BY DEF HandleLease, controller, callers, LeaseTypes
<1>2. /\ session \in Sessions /\ down[session] # <<>>
      /\ control \in Expected /\ control.type \in LeaseTypes
  BY <1>1, Handled
<1>3. control.key \in Leases BY <1>2, Keyed DEF Expected
<1>4. ack \in Heard /\ ack # Register BY <1>2, <1>3 DEF Heard, Acks, Register, LeaseTypes
<1>5. /\ Paired' /\ Coming # <<>> /\ Head(Coming) = control
      /\ Coming' = Tail(Coming) /\ Queued' = Queued
      /\ Acked' = Append(Acked, ack) \/ (Acked = <<>> /\ Acked' = <<>>)
  BY <1>0, <1>1, <1>2, <1>4, ReplyKeepsPaired
<1>6. ack.type = control.type /\ ack.key = control.key OBVIOUS
<1>7. leased \in [Leases -> BOOLEAN] BY DEF DeliveryInv, Noted
<1>8. /\ leased'[control.key] = granted
      /\ \A l \in Leases : l # control.key => leased'[l] = leased[l]
  <2>1. granted \in BOOLEAN OBVIOUS
  <2> HIDE DEF granted, control
  <2> QED BY <1>1, <1>3, <1>7, <2>1, Zenon
<1>9. Acked \in Seq(Heard) /\ Coming \in Seq(Messages) BY Typed
<1>10. granted = (control.type = "LEASE_ACQUIRE") OBVIOUS
<1> HIDE DEF control, granted, ack
<1>11. ASSUME NEW l \in Leases
       PROVE  Faithful(Acked', Coming', Queued', AsksOf(l)', l, wanted'[l], leased'[l],
                       answered')
  <2>1. /\ wanted[l] \in LeaseTypes
        /\ Faithful(Acked, Coming, Queued, AsksOf(l), l, wanted[l], leased[l], answered)
    BY <1>0 DEF LeaseInv
  <2>2. AsksOf(l)' = AsksOf(l) BY <1>1, AsksStay
  <2>3. PartOf(Acked', Append(Acked, ack), l, wanted[l])
    BY <1>5, EntriesOfNone, SamePart
  <2>4. CASE l = control.key
    <3>1. Faithful(Append(Acked, ack), Tail(Coming), Queued, AsksOf(l), l, wanted[l], granted,
                   answered \cup {control.serial})
      BY <1>2, <1>4, <1>5, <1>6, <1>9, <1>10, <2>1, <2>4, FaithfulIfHandled
    <3>2. Faithful(Acked', Tail(Coming), Queued, AsksOf(l), l, wanted[l], granted,
                   answered \cup {control.serial})
      BY <2>1, <2>3, <3>1, SamePart, FaithfulIfFewer
    <3> QED BY <1>1, <1>5, <1>8, <2>2, <2>4, <3>2
  <2>5. CASE l # control.key
    <3>1. ~For(ack, l, wanted[l]) /\ ~Old(ack, l, wanted[l]) BY <1>6, <2>5 DEF For, Old
    <3>2. PartOf(Append(Acked, ack), Acked, l, wanted[l])
      BY <1>4, <1>9, <3>1, EntriesOfAppend
    <3>3. PartOf(Acked', Acked, l, wanted[l]) BY <1>5, <3>2, SamePart
    <3>4. PartOf(Tail(Coming), Coming, l, wanted[l]) BY <1>5, <1>9, EntriesOfTail
    <3>5. answered \subseteq answered' BY <1>1
    <3>6. Faithful(Acked', Tail(Coming), Queued, AsksOf(l), l, wanted[l], leased[l], answered')
      BY <2>1, <3>3, <3>4, <3>5, SamePart, FaithfulIfFewer
    <3> QED BY <1>1, <1>5, <1>8, <2>2, <2>5, <3>6
  <2> QED BY <2>4, <2>5
<1>12. LeaseInv' BY <1>0, <1>1, <1>11 DEF LeaseInv
<1> QED BY <1>5, <1>12 DEF LaneInv

-----------------------------------------------------------------------------
(* What holds of leases. *)

LEMMA InitOrdered == Init => LaneInv
<1> SUFFICES ASSUME Init PROVE LaneInv
  OBVIOUS
<1>1. /\ controls = <<>> /\ conn = 0 /\ handler = Idle /\ sendq = <<>>
      /\ up = [s \in Sessions |-> <<>>] /\ session = 0
      /\ leased = [l \in Leases |-> FALSE]
      /\ wanted = [l \in Leases |-> "LEASE_RELEASE"]
  BY DEF Init
<1>2. Acked = <<>> /\ Coming = <<>> /\ Queued = <<>>
  BY <1>1, QueueOfNone DEF Acked, Coming, Queued
<1>3. \A s \in Sessions : ToSet(up[s]) = {} BY <1>1, EntriesOfNone
<1>4. handler.todo = <<>> BY <1>1 DEF Idle
<1>5. Paired BY <1>1, <1>2, <1>3, <1>4, EntriesOfNone DEF Paired
<1>6. ASSUME NEW l \in Leases
      PROVE  Faithful(Acked, Coming, Queued, AsksOf(l), l, wanted[l], leased[l], answered)
  <2>1. leased[l] = FALSE /\ wanted[l] = "LEASE_RELEASE" BY <1>1
  <2>2. AsksOf(l) = {} BY <1>1, EntriesOfNone DEF AsksOf
  <2>3. Lane(<<>>, <<>>, <<>>, l, wanted[l])
    BY EntriesOfNone DEF Lane, Leads, Has
  <2>4. Free(<<>>, l, wanted[l]) /\ ~Has(<<>>, l, wanted[l]) BY EntriesOfNone DEF Free, Has
  <2> QED BY <1>2, <2>1, <2>2, <2>3, <2>4 DEF Faithful
<1>7. wanted \in [Leases -> LeaseTypes] BY <1>1 DEF LeaseTypes
<1> QED BY <1>5, <1>6, <1>7 DEF LaneInv, LeaseInv

LEMMA NextKeepsOrder ==
  ASSUME Patient, DeliveryInv, LaneInv, [Next]_vars PROVE LaneInv'
<1>1. CASE Call
  <2>1. ASSUME NEW w \in Works, QueueDirect(w) PROVE LaneInv'
    BY <2>1, QueueDirectKeepsOrder
  <2>2. ASSUME NEW w \in Works, QueueStop(w) PROVE LaneInv'
    BY <2>2, QueueStopKeepsOrder
  <2>3. ASSUME NEW l \in Leases, NEW type \in LeaseTypes, QueueLease(type, l)
        PROVE  LaneInv'
    BY <2>3, QueueLeaseKeepsOrder
  <2> QED BY <1>1, <2>1, <2>2, <2>3 DEF Call, LeaseTypes
<1>2. CASE Serve
  <2>1. ASSUME NEW s \in Sessions, Accept(s) PROVE LaneInv' BY <2>1, AcceptKeepsOrder
  <2>2. CASE SendNext BY <2>2, SendNextKeepsOrder
  <2>3. CASE Resend BY <2>3, ResendKeepsOrder
  <2>4. CASE TakeStatus BY <2>4, TakeStatusKeepsOrder
  <2>5. CASE TakeLease BY <2>5, TakeLeaseKeepsOrder
  <2>6. CASE NoticeClosed BY <2>6, NoticeClosedKeepsOrder
  <2> QED BY <1>2, <2>1, <2>2, <2>3, <2>4, <2>5, <2>6 DEF Serve
<1>3. CASE Run
  <2>1. CASE Connect BY <2>1, ConnectKeepsOrder
  <2>2. CASE NoticeRefused BY <2>2, NoticeRefusedKeepsOrder
  <2>3. CASE Welcomed BY <2>3, WelcomedKeepsOrder
  <2>4. CASE HandleStart BY <2>4, HandleStartKeepsOrder
  <2>5. CASE HandleStop BY <2>5, HandleStopKeepsOrder
  <2>6. CASE HandleLease BY <2>6, HandleLeaseKeepsOrder
  <2> QED BY <1>3, <2>1, <2>2, <2>3, <2>4, <2>5, <2>6 DEF Run
<1>4. ASSUME NEW w \in Works, Sweep(w) PROVE LaneInv' BY <1>4, SweepKeepsOrder
<1>5. CASE Break BY <1>5, BreakKeepsOrder
<1>6. CASE DieRunning BY <1>6, DieRunningKeepsOrder
<1>7. CASE TakeStatusTorn BY <1>7, TakeStatusTornKeepsOrder
<1>8. CASE RestartController BY <1>8, RestartControllerKeepsOrder
<1>9. CASE UNCHANGED vars
  <2>1. UNCHANGED <<controls, conn, handler, sendq, down, up, session, wanted, leased, answered>>
    BY <1>9 DEF vars, controller, transport, node, callers
  <2>2. /\ Acked' = Acked /\ Coming' = Coming /\ Queued' = Queued
    BY <2>1 DEF Acked, Coming, Queued
  <2>3. Paired' BY <2>1, <2>2 DEF LaneInv, Paired
  <2>4. LeaseInv' BY <2>1, <2>2, AsksStay, SamePart, LeaseInvIfFewer DEF LaneInv
  <2> QED BY <2>3, <2>4 DEF LaneInv
<1> QED BY <1>1, <1>2, <1>3, <1>4, <1>5, <1>6, <1>7, <1>8, <1>9 DEF Next

LEMMA AlwaysOrdered == ASSUME Patient PROVE Spec => [](DeliveryInv /\ LaneInv)
<1>1. Init => DeliveryInv /\ LaneInv BY InitKeeps, InitOrdered
<1>2. DeliveryInv /\ LaneInv /\ [Next]_vars => (DeliveryInv /\ LaneInv)'
  BY NextKeeps, NextKeepsOrder
<1> QED BY <1>1, <1>2, PTL DEF Spec

\* When no control of a lease is pending the node holds it exactly if that was
\* asked for last, for any losses of sessions, copies of controls and restarts, as
\* long as callers await the answer of one control before the next (queue_lease_acquire,
\* queue_lease_release and _complete_control of NodeRelayServer; the messages
\* LEASE_ACQUIRE and LEASE_RELEASE of NodeRelayClient).
THEOREM LeasesAreAsWanted == ASSUME Patient PROVE Spec => []LeaseAsWanted
<1>1. DeliveryInv /\ LaneInv => LeaseAsWanted
  <2> SUFFICES ASSUME DeliveryInv, LaneInv, NEW l \in Leases,
                      \A i \in 1..Len(controls) : controls[i].key # l
               PROVE  leased[l] = (wanted[l] = "LEASE_ACQUIRE")
    BY DEF LeaseAsWanted
  <2>1. ToSet(controls) = {controls[i] : i \in 1..Len(controls)} BY Entries, Typed
  <2>2. AsksOf(l) = {} BY <2>1 DEF AsksOf
  <2> QED BY <2>2 DEF LaneInv, LeaseInv, Faithful
<1> QED BY <1>1, AlwaysOrdered, PTL

\* A control leaves the list of those pending only when the node has handled it
\* or, if it is a stop, with the result of its work (_complete_control of
\* NodeRelayServer), as long as callers await one answer before the next request.
THEOREM ControlsAwaitTheirAnswer == ASSUME Patient PROVE Spec => RemovedIfAnswered
<1> DEFINE Ends ==
      \A c \in ToSet(controls) : c \notin ToSet(controls') =>
         \/ c.serial \in answered
         \/ c.type = "WORKLOAD_STOP" /\ results'[c.key] # NoAnswer
<1>1. ASSUME DeliveryInv, LaneInv, [Next]_vars PROVE Ends
  <2>1. CASE TakeLease
    <3> DEFINE ack == Head(up[conn])
    <3>1. /\ conn # 0 /\ handler.phase = "serve" /\ up[conn] # <<>> /\ ack.type \in LeaseTypes
          /\ Complete(ack.type, ack.key) /\ Served /\ UNCHANGED <<down, session>>
      BY <2>1 DEF TakeLease, Receive, node, LeaseTypes
    <3>2. Acked # <<>> /\ Head(Acked) = ack
      BY <1>1, <3>1, ServedKeepsPaired DEF LaneInv
    <3> HIDE DEF ack
    <3>3. ack \in ToSet(Acked) /\ ack \in Heard
      BY <1>1, <3>2, Typed, EntriesOfTail, HeadOf
    <3>4. ack.key \in Leases BY <3>1, <3>3 DEF Heard, Acks, Statuses, Register, LeaseTypes
    <3>5. ToSet(controls') = {c \in ToSet(controls) : ~(c.type = ack.type /\ c.key = ack.key)}
      BY <1>1, <3>1, ControlsRemoved
    <3>6. ASSUME NEW c \in ToSet(controls), c.type = ack.type, c.key = ack.key
          PROVE  c.serial \in answered
      <4>1. c \in AsksOf(ack.key) BY <3>6 DEF AsksOf
      <4>2. Faithful(Acked, Coming, Queued, AsksOf(ack.key), ack.key, wanted[ack.key],
                     leased[ack.key], answered)
        BY <1>1, <3>4 DEF LaneInv, LeaseInv
      <4>3. c.type = wanted[ack.key] BY <4>1, <4>2 DEF Faithful
      <4>4. Has(Acked, ack.key, wanted[ack.key]) BY <3>3, <3>6, <4>3 DEF Has, For
      <4> QED BY <4>1, <4>2, <4>4 DEF Faithful
    <3> QED BY <3>5, <3>6
  <2>2. CASE TakeStatus
    <3> DEFINE w == Head(up[conn]).key
               answer == Head(up[conn]).answer
    <3>1. /\ Receive("WORKLOAD_STATUS")
          /\ IF StatusRefused(w, answer)
             THEN UNCHANGED controls
             ELSE Record(w, answer) /\ Complete("WORKLOAD_STOP", w)
      BY <2>2 DEF TakeStatus
    <3>2. w \in Works /\ answer \in Answers BY <1>1, <3>1, Taken
    <3> HIDE DEF w, answer
    <3>3. CASE StatusRefused(w, answer) BY <3>1, <3>3
    <3>4. CASE ~StatusRefused(w, answer)
      <4>1. ToSet(controls') = {c \in ToSet(controls) : ~(c.type = "WORKLOAD_STOP" /\ c.key = w)}
        BY <1>1, <3>1, <3>4, ControlsRemoved
      <4>2. results' = [results EXCEPT ![w] = IF results[w] = NoAnswer THEN answer
                                              ELSE results[w]]
        BY <3>1, <3>4 DEF Record
      <4>3. answer # NoAnswer BY <3>2 DEF Answers, States, NoAnswer
      <4>4. results'[w] # NoAnswer BY <1>1, <3>2, <4>2, <4>3 DEF DeliveryInv, Stored
      <4> QED BY <4>1, <4>4
    <3> QED BY <3>3, <3>4
  <2>3. ASSUME NEW type, NEW key, Control(type, key), QueueControl(type, key) PROVE Ends
    BY <1>1, <2>3, ControlsAdded
  <2>4. ASSUME NEW w \in Works, QueueStop(w) PROVE Ends
    <3>1. QueueControl("WORKLOAD_STOP", w) /\ Control("WORKLOAD_STOP", w)
      BY <2>4 DEF QueueStop, Control
    <3> QED BY <2>3, <3>1
  <2>5. ASSUME NEW l \in Leases, NEW type \in LeaseTypes, QueueLease(type, l) PROVE Ends
    <3>1. QueueControl(type, l) /\ Control(type, l) BY <2>5 DEF QueueLease, Control
    <3> QED BY <2>3, <3>1
  <2>6. CASE UNCHANGED controls BY <2>6
  <2>7. CASE Call
    <3>1. ASSUME NEW w \in Works, QueueDirect(w) PROVE UNCHANGED controls
      BY <3>1 DEF QueueDirect
    <3> QED BY <2>4, <2>5, <2>6, <2>7, <3>1 DEF Call, LeaseTypes
  <2>8. CASE Serve
    <3>1. ASSUME NEW s \in Sessions, Accept(s) PROVE UNCHANGED controls BY <3>1 DEF Accept
    <3>2. SendNext \/ Resend \/ NoticeClosed => UNCHANGED controls
      BY DEF SendNext, Resend, NoticeClosed, controller
    <3> QED BY <2>1, <2>2, <2>6, <2>8, <3>1, <3>2 DEF Serve
  <2>9. CASE Run
    <3>1. UNCHANGED controls
      BY <2>9 DEF Run, Connect, NoticeRefused, Welcomed, HandleStart, HandleStop, HandleLease,
                  controller
    <3> QED BY <2>6, <3>1
  <2>10. ASSUME NEW w \in Works, Sweep(w) PROVE UNCHANGED controls BY <2>10 DEF Sweep
  <2>11. Break \/ DieRunning \/ TakeStatusTorn \/ RestartController \/ UNCHANGED vars
         => UNCHANGED controls
    BY DEF Break, DieRunning, TakeStatusTorn, RestartController, controller, vars
  <2> QED BY <1>1, <2>6, <2>7, <2>8, <2>9, <2>10, <2>11 DEF Next
<1>2. ASSUME DeliveryInv, LaneInv, [Next]_vars
      PROVE  [\A i \in 1..Len(controls) :
                controls[i] \notin ToSet(controls') =>
                  \/ controls[i].serial \in answered
                  \/ /\ controls[i].type = "WORKLOAD_STOP"
                     /\ results'[controls[i].key] # NoAnswer]_vars
  <2>1. Ends BY <1>1, <1>2
  <2>2. ToSet(controls) = {controls[i] : i \in 1..Len(controls)} BY <1>2, Entries, Typed
  <2> QED BY <2>1, <2>2
<1> HIDE DEF Ends
<1>3. [](DeliveryInv /\ LaneInv) /\ [][Next]_vars => RemovedIfAnswered
  BY <1>2, PTL DEF RemovedIfAnswered
<1> QED BY <1>3, AlwaysOrdered, PTL DEF Spec

-----------------------------------------------------------------------------
(* What the relay promises to those who leave requests in its spool.  What  *)
(* they see is the spool, the works an answer is expected about (Asked),    *)
(* those that ran or may have run (Effects) and the results (Outcome).  A   *)
(* request is in the spool or has been asked for (Kept), for a rejection    *)
(* follows the queueing whose send it is about (SweepsStart).               *)

Asked   == {w \in Spooled : StatusExpected(w)}
Effects == {w \in Spooled : journal[w] \in {"EXECUTING", "COMPLETED"}}
Outcome == [w \in Spooled |-> IF results[w] = NoAnswer THEN "none" ELSE results[w].state]

Kept == \A w \in Spooled : w \in spool \/ StatusExpected(w)
SweepsStart ==
  \A i \in 1..Len(sendq) : sendq[i].by = "sweep" => sendq[i].message.type = "WORKLOAD_START"

ServeInv == DeliveryInv /\ Kept /\ SweepsStart

\* A step as the spool's users see it: nothing but a work's progress or the
\* rejection of what the sweep was sending.
Serving ==
  \/ UNCHANGED Remote!remoteVars
  \/ \E w \in Spooled :
       \/ Remote!Queue(w) \/ Remote!Apply(w) \/ Remote!Retire(w)
       \/ \E r \in Remote!RemoteResults : Remote!Keep(w, r)
  \/ Remote!Reject(Swept)

LEMMA ServingIsRemote == Serving => [Remote!RemoteNext]_(Remote!remoteVars)
<1>1. Swept \in SUBSET spool BY DEF Swept
<1> QED BY <1>1 DEF Serving, Remote!RemoteNext

LEMMA StoppingIs ==
  ASSUME DeliveryInv, DeliveryInv', NEW v
  PROVE  /\ Stopping(v) <=> \E c \in ToSet(controls) : c.type = "WORKLOAD_STOP" /\ c.key = v
         /\ Stopping(v)' <=> \E c \in ToSet(controls') : c.type = "WORKLOAD_STOP" /\ c.key = v
<1>1. /\ ToSet(controls) = {controls[i] : i \in 1..Len(controls)}
      /\ ToSet(controls') = {controls'[i] : i \in 1..Len(controls')}
  BY Entries DEF DeliveryInv, Stored
<1> QED BY <1>1 DEF Stopping, PlacesOf

LEMMA UnassignedIs ==
  ASSUME DeliveryInv, NEW w, pending' = Without(pending, PlaceOf(w))
  PROVE  ToSet(pending') \subseteq ToSet(pending)
<1> DEFINE S == ToSet(pending)
<1>1. S = {pending[i] : i \in 1..Len(pending)} /\ pending \in Seq(Works)
      /\ Len(pending) \in Nat
  BY Entries DEF DeliveryInv, Stored
<1>2. pending \in Seq(S) BY <1>1
<1>3. PlaceOf(w) \in SUBSET (1..Len(pending)) BY DEF PlaceOf
<1> HIDE DEF S
<1>4. pending' \in Seq(S) BY <1>2, <1>3, WithoutKeeps
<1>5. ToSet(pending') \subseteq S BY <1>4, Entries
<1> QED BY <1>5 DEF S

\* What an answer is expected about, after a request or an answer.
LEMMA AssignExpects ==
  ASSUME DeliveryInv, NEW w \in Works, NEW by, Assign(w, by), UNCHANGED <<controls, results>>
  PROVE  \A v \in Works : StatusExpected(v)' <=> StatusExpected(v) \/ v = w
<1>1. pending \in Seq(Works) BY DEF DeliveryInv, Stored
<1>2. ToSet(pending') = ToSet(pending) \cup {w}
  <2>1. CASE w \in ToSet(pending) BY <2>1 DEF Assign
  <2>2. CASE w \notin ToSet(pending)
    <3>1. pending' = Append(pending, w) BY <2>2 DEF Assign
    <3>2. /\ pending' \in Seq(Works) /\ Len(pending') = Len(pending) + 1
          /\ \A i \in 1..Len(pending) : pending'[i] = pending[i]
          /\ pending'[Len(pending) + 1] = w /\ Len(pending) \in Nat
      BY <1>1, <3>1, Appended
    <3>3. /\ ToSet(pending) = {pending[i] : i \in 1..Len(pending)}
          /\ ToSet(pending') = {pending'[i] : i \in 1..Len(pending')}
      BY <1>1, <3>2, Entries
    <3>4. 1..Len(pending') = 1..Len(pending) \cup {Len(pending) + 1}
      BY <3>2
    <3> QED BY <3>2, <3>3, <3>4
  <2> QED BY <2>1, <2>2
<1> QED BY <1>2 DEF StatusExpected, Stopping, PlacesOf

LEMMA QueueExpects ==
  ASSUME DeliveryInv, DeliveryInv', NEW type, NEW key, Control(type, key),
         QueueControl(type, key), UNCHANGED results
  PROVE  \A v : Stopping(v)' <=> Stopping(v) \/ (type = "WORKLOAD_STOP" /\ v = key)
<1>1. PICK new \in Controls :
        /\ new.type = type /\ new.key = key
        /\ ToSet(controls') = ToSet(controls) \cup {new}
  BY ControlsAdded
<1> QED BY <1>1, StoppingIs

\* Queueing tells the relay of one work at most.
LEMMA QueuedServes ==
  ASSUME ServeInv, NEW w \in Works, UNCHANGED <<results, journal, spool>>,
         \A v \in Works : StatusExpected(v)' <=> StatusExpected(v) \/ v = w
  PROVE  Serving
<1>1. UNCHANGED <<Effects, Outcome>> BY DEF Effects, Outcome
<1>2. CASE w \in Spooled /\ ~StatusExpected(w)
  <2>1. Asked' = Asked \cup {w} /\ w \notin Asked BY <1>2 DEF Asked, Works
  <2>2. w \in spool BY <1>2 DEF ServeInv, Kept
  <2>3. Outcome[w] = "none" BY <1>2 DEF Outcome, StatusExpected
  <2>4. Remote!Queue(w)
    BY <1>1, <2>1, <2>2, <2>3 DEF Remote!Queue, Asked, Effects, Outcome
  <2> QED BY <1>2, <2>4 DEF Serving
<1>3. CASE ~(w \in Spooled /\ ~StatusExpected(w))
  <2>1. Asked' = Asked BY <1>3 DEF Asked, Works
  <2> QED BY <1>1, <2>1 DEF Serving, Remote!remoteVars, Asked, Effects, Outcome
<1> QED BY <1>2, <1>3

\* A step after which nothing is expected that was not, nothing is answered and
\* nothing has run.
LEMMA SameServes ==
  ASSUME UNCHANGED <<results, journal, spool>>,
         \A v \in Works : StatusExpected(v)' <=> StatusExpected(v)
  PROVE  Serving
<1>1. UNCHANGED <<Asked, Effects, Outcome>> BY DEF Asked, Effects, Outcome, Works
<1> QED BY <1>1 DEF Serving, Remote!remoteVars, Asked, Effects, Outcome

LEMMA RejectServes ==
  ASSUME DeliveryInv, UNCHANGED <<pending, controls, results, journal>>,
         spool' = spool \ Swept
  PROVE  Serving
<1>1. \A v : StatusExpected(v)' <=> StatusExpected(v)
  BY DEF StatusExpected, Stopping, PlacesOf
<1>2. UNCHANGED <<Asked, Effects, Outcome>> BY <1>1 DEF Asked, Effects, Outcome
<1>3. \A w \in Swept : Outcome[w] = "none"
  BY DEF Swept, Outcome, DeliveryInv, Stored
<1>4. Remote!Reject(Swept)
  BY <1>2, <1>3 DEF Remote!Reject, Asked, Effects, Outcome
<1> QED BY <1>4 DEF Serving

\* An answer that is accepted.
LEMMA AnswerExpects ==
  ASSUME DeliveryInv, DeliveryInv', NEW w \in Works, NEW answer \in Answers,
         StatusExpected(w), Record(w, answer), Forward, ToSet(controls') \subseteq ToSet(controls)
  PROVE  \A v \in Works : StatusExpected(v)' <=> StatusExpected(v)
<1>1. ToSet(pending') \subseteq ToSet(pending) BY UnassignedIs DEF Record
<1>2. \A v : Stopping(v)' => Stopping(v) BY StoppingIs
<1>3. \A v \in Works : v # w => results'[v] = results[v]
  BY DEF Record, DeliveryInv, Stored
<1> QED BY <1>1, <1>2, <1>3 DEF Forward, StatusExpected

LEMMA AnswerServes ==
  ASSUME DeliveryInv, DeliveryInv', NEW w \in Works, NEW answer \in Answers,
         Agrees(w, answer), StatusExpected(w), Record(w, answer), UNCHANGED <<journal, leased>>,
         \A v : v # w /\ Stopping(v) => Stopping(v)', ToSet(controls') \subseteq ToSet(controls),
         \/ spool' = spool \ {w}
         \/ results[w] = NoAnswer /\ UNCHANGED spool
  PROVE  Serving
<1>1. /\ results' = [results EXCEPT ![w] = IF results[w] = NoAnswer THEN answer ELSE results[w]]
      /\ results \in [Works -> Answers \cup {NoAnswer}]
      /\ spool \subseteq Spooled
  BY DEF Record, DeliveryInv, Stored
<1>2. Forward BY RecordKeeps
<1>3. \A v \in Works : StatusExpected(v)' <=> StatusExpected(v) BY <1>2, AnswerExpects
<1>4. UNCHANGED <<Asked, Effects>> BY <1>3 DEF Asked, Effects, Works
<1>5. answer # NoAnswer BY DEF Answers, NoAnswer, States
<1>6. answer.state \in States /\ answer.state # "none" BY DEF Answers, States
<1>7. journal[w] \in {"EXECUTING", "COMPLETED", "CANCELLED"} /\ answer.state = Recorded(w).state
  BY DEF Agrees, DeliveryInv, Noted
<1> HIDE DEF Answers, NoAnswer
<1>8. CASE w \notin Spooled
  <2>1. UNCHANGED spool BY <1>1, <1>8
  <2>2. \A v \in Spooled : results'[v] = results[v] BY <1>1, <1>8 DEF Works
  <2>3. Outcome' = Outcome BY <2>2 DEF Outcome
  <2> QED BY <1>4, <2>1, <2>3 DEF Serving, Remote!remoteVars, Asked, Effects, Outcome
<1>9. CASE w \in Spooled /\ results[w] = NoAnswer
  <2>1. \A v \in Spooled : results'[v] = IF v = w THEN answer ELSE results[v]
    BY <1>1, <1>9 DEF Works
  <2>2. Outcome' = [Outcome EXCEPT ![w] = answer.state] BY <1>5, <1>9, <2>1 DEF Outcome
  <2>3. Outcome[w] = "none" BY <1>9 DEF Outcome
  <2>4. w \in Asked BY <1>9 DEF Asked
  <2>5. /\ answer.state = "COMPLETED" => w \in Effects
        /\ answer.state = "CANCELLED" => w \notin Effects
    BY <1>7, <1>9 DEF Effects, Recorded
  <2>6. spool' \in {spool, spool \ {w}} OBVIOUS
  <2>7. Remote!Keep(w, answer.state)
    BY <1>4, <2>2, <2>3, <2>4, <2>5, <2>6 DEF Remote!Keep, Asked, Effects, Outcome
  <2>8. answer.state \in Remote!RemoteResults BY <1>6 DEF States, Remote!RemoteResults
  <2> QED BY <1>9, <2>7, <2>8 DEF Serving
<1>10. CASE w \in Spooled /\ results[w] # NoAnswer
  <2>1. UNCHANGED results BY <1>1, <1>10
  <2>2. Outcome' = Outcome BY <2>1 DEF Outcome
  <2>3. spool' = spool \ {w} BY <1>10
  <2>4. CASE w \in spool
    <3>1. results[w] \in Answers BY <1>1, <1>10
    <3>2. results[w].state # "none" BY <3>1 DEF Answers, States
    <3>3. Outcome[w] # "none" BY <1>10, <3>2 DEF Outcome
    <3>4. Remote!Retire(w)
      BY <1>4, <2>2, <2>3, <2>4, <3>3 DEF Remote!Retire, Asked, Effects, Outcome
    <3> QED BY <1>10, <3>4 DEF Serving
  <2>5. CASE w \notin spool
    BY <1>4, <2>2, <2>3, <2>5 DEF Serving, Remote!remoteVars, Asked, Effects, Outcome
  <2> QED BY <2>4, <2>5
<1> QED BY <1>8, <1>9, <1>10

\* A record that the node makes of a work it was asked about.
LEMMA EffectServes ==
  ASSUME DeliveryInv, NEW w \in Works, StatusExpected(w), journal[w] = "ABSENT",
         NEW record \in {"EXECUTING", "COMPLETED", "CANCELLED"},
         journal' = [journal EXCEPT ![w] = record],
         UNCHANGED <<pending, controls, results, spool>>
  PROVE  Serving
<1>1. \A v : StatusExpected(v)' <=> StatusExpected(v)
  BY DEF StatusExpected, Stopping, PlacesOf
<1>2. UNCHANGED <<Asked, Outcome>> BY <1>1 DEF Asked, Outcome
<1>3. /\ journal'[w] = record
      /\ \A v \in Works : v # w => journal'[v] = journal[v]
  BY DEF DeliveryInv, Noted
<1>4. CASE w \in Spooled /\ record # "CANCELLED"
  <2>1. Effects' = Effects \cup {w} /\ w \notin Effects BY <1>3, <1>4 DEF Effects, Works
  <2>2. results[w] = NoAnswer BY DEF DeliveryInv, Noted, Agrees
  <2>3. Outcome[w] = "none" /\ w \in Asked BY <1>4, <2>2 DEF Outcome, Asked
  <2>4. Remote!Apply(w)
    BY <1>2, <1>4, <2>1, <2>3 DEF Remote!Apply, Asked, Effects, Outcome
  <2> QED BY <1>4, <2>4 DEF Serving
<1>5. CASE ~(w \in Spooled /\ record # "CANCELLED")
  <2>1. Effects' = Effects BY <1>3, <1>5 DEF Effects, Works
  <2> QED BY <1>2, <2>1 DEF Serving, Remote!remoteVars, Asked, Effects, Outcome
<1> QED BY <1>4, <1>5

\* Each action, as the spool's users see it.
LEMMA CallServes ==
  ASSUME ServeInv, DeliveryInv', Call PROVE Serving
<1>0. DeliveryInv BY DEF ServeInv
<1>1. ASSUME NEW w \in Works, QueueDirect(w) PROVE Serving
  <2>1. Assign(w, "caller") /\ UNCHANGED <<controls, results, spool, journal>>
    BY <1>1 DEF QueueDirect, node
  <2> QED BY <1>0, <2>1, AssignExpects, QueuedServes
<1>2. ASSUME NEW w \in Works, QueueStop(w) PROVE Serving
  <2>1. /\ QueueControl("WORKLOAD_STOP", w) /\ Control("WORKLOAD_STOP", w)
        /\ pending' = Without(pending, PlaceOf(w))
        /\ UNCHANGED <<results, spool, journal>>
    BY <1>2 DEF QueueStop, Control, node
  <2>2. \A v : Stopping(v)' <=> Stopping(v) \/ v = w BY <1>0, <2>1, QueueExpects
  <2>3. /\ ToSet(pending') \subseteq ToSet(pending)
        /\ \A v \in ToSet(pending) : v # w => v \in ToSet(pending')
    BY <1>0, <2>1, UnassignedIs, UnassignKeeps
  <2>4. \A v \in Works : StatusExpected(v)' <=> StatusExpected(v) \/ v = w
    BY <2>1, <2>2, <2>3 DEF StatusExpected
  <2> QED BY <2>1, <2>4, QueuedServes
<1>3. ASSUME NEW l \in Leases, NEW type \in LeaseTypes, QueueLease(type, l) PROVE Serving
  <2>1. /\ QueueControl(type, l) /\ Control(type, l) /\ type # "WORKLOAD_STOP"
        /\ UNCHANGED <<pending, results, spool, journal>>
    BY <1>3 DEF QueueLease, Control, node, LeaseTypes
  <2>2. \A v : Stopping(v)' <=> Stopping(v) BY <1>0, <2>1, QueueExpects
  <2>3. \A v \in Works : StatusExpected(v)' <=> StatusExpected(v)
    BY <2>1, <2>2 DEF StatusExpected
  <2> QED BY <2>1, <2>3, SameServes
<1> QED BY <1>1, <1>2, <1>3 DEF Call, LeaseTypes

LEMMA SweepServes ==
  ASSUME ServeInv, NEW w \in Works, Sweep(w) PROVE Serving
<1>0. DeliveryInv BY DEF ServeInv
<1>1. UNCHANGED <<controls, results, journal>> BY DEF Sweep, node
<1>2. CASE Assign(w, "sweep") /\ UNCHANGED spool
  BY <1>0, <1>1, <1>2, AssignExpects, QueuedServes
<1>3. CASE results[w] # NoAnswer /\ spool' = spool \ {w} /\ UNCHANGED pending
  <2>1. w \in spool /\ w \in Spooled /\ results[w] \in Answers
    BY <1>0, <1>3 DEF Sweep, DeliveryInv, Stored
  <2>2. results[w].state # "none" BY <2>1 DEF Answers, States
  <2>3. Outcome[w] # "none" BY <1>3, <2>1, <2>2 DEF Outcome
  <2>4. \A v : StatusExpected(v)' <=> StatusExpected(v)
    BY <1>1, <1>3 DEF StatusExpected, Stopping, PlacesOf
  <2>5. UNCHANGED <<Asked, Effects, Outcome>> BY <1>1, <2>4 DEF Asked, Effects, Outcome
  <2>6. Remote!Retire(w)
    BY <1>3, <2>1, <2>3, <2>5 DEF Remote!Retire, Asked, Effects, Outcome
  <2> QED BY <2>1, <2>6 DEF Serving
<1> QED BY <1>2, <1>3 DEF Sweep

LEMMA TakeStatusServes ==
  ASSUME DeliveryInv, DeliveryInv', TakeStatus \/ TakeStatusTorn PROVE Serving
<1> DEFINE w == Head(up[conn]).key
           answer == Head(up[conn]).answer
<1>1. Receive("WORKLOAD_STATUS") /\ UNCHANGED <<journal, leased>>
  BY DEF TakeStatus, TakeStatusTorn, node
<1>2. w \in Works /\ answer \in Answers /\ Agrees(w, answer) BY <1>1, Taken
<1>3. \/ StatusRefused(w, answer) /\ Refused /\ UNCHANGED <<pending, controls, results>>
      \/ /\ ~StatusRefused(w, answer) /\ Record(w, answer)
         /\ \/ Complete("WORKLOAD_STOP", w) /\ spool' = spool \ {w}
            \/ UNCHANGED <<controls, spool>>
  BY DEF TakeStatus, TakeStatusTorn
<1> HIDE DEF w, answer
<1>4. CASE Refused /\ UNCHANGED <<pending, controls, results>>
  BY <1>1, <1>4, RejectServes DEF Refused
<1>5. CASE /\ ~StatusRefused(w, answer) /\ Record(w, answer)
           /\ Complete("WORKLOAD_STOP", w) /\ spool' = spool \ {w}
  <2>1. StatusExpected(w) BY <1>5 DEF StatusRefused
  <2>2. ToSet(controls') = {c \in ToSet(controls) : ~(c.type = "WORKLOAD_STOP" /\ c.key = w)}
    BY <1>5, ControlsRemoved
  <2>3. \A v : v # w /\ Stopping(v) => Stopping(v)' BY <2>2, StoppingIs
  <2>4. ToSet(controls') \subseteq ToSet(controls) BY <2>2
  <2> QED BY <1>1, <1>2, <1>5, <2>1, <2>3, <2>4, AnswerServes
<1>6. CASE ~StatusRefused(w, answer) /\ Record(w, answer) /\ UNCHANGED <<controls, spool>>
  <2>1. StatusExpected(w) BY <1>6 DEF StatusRefused
  <2>2. \A v : Stopping(v)' <=> Stopping(v) BY <1>6 DEF Stopping, PlacesOf
  <2>3. CASE results[w] = NoAnswer
    BY <1>1, <1>2, <1>6, <2>1, <2>2, <2>3, AnswerServes
  <2>4. CASE results[w] # NoAnswer
    <3>1. UNCHANGED results BY <1>2, <1>6, <2>4 DEF Record, DeliveryInv, Stored
    <3>2. Forward BY <1>1, <1>2, <1>6, <2>2, RecordKeeps
    <3>3. \A v \in Works : StatusExpected(v)' <=> StatusExpected(v)
      BY <1>2, <1>6, <2>1, <3>2, AnswerExpects
    <3> QED BY <1>1, <1>6, <3>1, <3>3, SameServes
  <2> QED BY <2>3, <2>4
<1> QED BY <1>3, <1>4, <1>5, <1>6

LEMMA ServeServes ==
  ASSUME DeliveryInv, DeliveryInv', Serve PROVE Serving
<1>1. ASSUME NEW s \in Sessions, Accept(s) PROVE Serving
  BY <1>1, RejectServes DEF Accept, node
<1>2. CASE NoticeClosed BY <1>2, RejectServes DEF NoticeClosed, Refused, node
<1>3. CASE SendNext \/ Resend
  <2>1. UNCHANGED <<pending, controls, results, journal, spool>>
    BY <1>3 DEF SendNext, Resend, controller, node
  <2> QED BY <2>1, SameServes DEF StatusExpected, Stopping, PlacesOf
<1>4. CASE TakeStatus BY <1>4, TakeStatusServes
<1>5. CASE TakeLease
  <2> DEFINE ack == Head(up[conn])
  <2>1. /\ ack.type \in LeaseTypes /\ Complete(ack.type, ack.key)
        /\ UNCHANGED <<pending, results, spool, journal>>
    BY <1>5 DEF TakeLease, Receive, node, LeaseTypes
  <2> HIDE DEF ack
  <2>2. ToSet(controls') = {c \in ToSet(controls) : ~(c.type = ack.type /\ c.key = ack.key)}
    BY <2>1, ControlsRemoved
  <2>3. \A v : Stopping(v)' <=> Stopping(v) BY <2>1, <2>2, StoppingIs DEF LeaseTypes
  <2> QED BY <2>1, <2>3, SameServes DEF StatusExpected
<1> QED BY <1>1, <1>2, <1>3, <1>4, <1>5 DEF Serve

LEMMA RunServes ==
  ASSUME DeliveryInv, Run \/ DieRunning PROVE Serving
<1>0. UNCHANGED <<pending, controls, results, spool>>
  BY DEF Run, Connect, NoticeRefused, Welcomed, HandleStart, HandleStop, HandleLease,
         DieRunning, controller
<1>1. CASE UNCHANGED journal
  BY <1>0, <1>1, SameServes DEF StatusExpected, Stopping, PlacesOf
<1>2. CASE HandleStart \/ HandleStop \/ DieRunning
  <2> DEFINE w == Head(down[session]).key
  <2>1. /\ \E type \in {"WORKLOAD_START", "WORKLOAD_STOP"} : Handle(type)
        /\ \/ UNCHANGED journal
           \/ /\ journal[w] = "ABSENT"
              /\ \E record \in {"EXECUTING", "COMPLETED", "CANCELLED"} :
                    journal' = [journal EXCEPT ![w] = record]
    <3>1. CASE HandleStart BY <3>1 DEF HandleStart
    <3>2. CASE HandleStop
      <4>1. Handle("WORKLOAD_STOP")
            /\ journal' = [journal EXCEPT ![w] = IF journal[w] = "ABSENT" THEN "CANCELLED"
                                                 ELSE journal[w]]
        BY <3>2 DEF HandleStop
      <4>2. CASE journal[w] = "ABSENT" BY <4>1, <4>2
      <4>3. CASE journal[w] # "ABSENT"
        <5>1. journal' = [journal EXCEPT ![w] = journal[w]] BY <4>1, <4>3
        <5>2. UNCHANGED journal BY <5>1 DEF DeliveryInv, Noted
        <5> QED BY <4>1, <5>2
      <4> QED BY <4>2, <4>3
    <3>3. CASE DieRunning BY <3>3 DEF DieRunning
    <3> QED BY <1>2, <3>1, <3>2, <3>3
  <2>2. w \in Works /\ StatusExpected(w) BY <2>1, Handled, Keyed DEF Expected
  <2> HIDE DEF w
  <2> QED BY <1>0, <1>1, <2>1, <2>2, EffectServes
<1>3. CASE Connect \/ NoticeRefused \/ Welcomed \/ HandleLease
  BY <1>1, <1>3 DEF Connect, NoticeRefused, Welcomed, HandleLease
<1> QED BY <1>2, <1>3 DEF Run

LEMMA NextServes ==
  ASSUME ServeInv, DeliveryInv', [Next]_vars PROVE Serving
<1>0. DeliveryInv BY DEF ServeInv
<1>1. CASE Break \/ RestartController \/ UNCHANGED vars
  <2>1. UNCHANGED <<pending, controls, results, journal, spool>>
    BY <1>1 DEF Break, RestartController, controller, node, vars
  <2> QED BY <2>1, SameServes DEF StatusExpected, Stopping, PlacesOf
<1> QED
  BY <1>0, <1>1, CallServes, ServeServes, RunServes, SweepServes, TakeStatusServes DEF Next

-----------------------------------------------------------------------------
(* No request is lost sight of. *)

\* Only the sweep sends on behalf of the spool, and it sends assignments.
LEMMA SweepsStartKept ==
  ASSUME ServeInv, [Next]_vars PROVE SweepsStart'
<1>0. /\ sendq \in Seq(Sends) /\ Len(sendq) \in Nat
      /\ \A i \in 1..Len(sendq) : sendq[i].by = "sweep" => sendq[i].message.type = "WORKLOAD_START"
  BY LenProperties DEF ServeInv, DeliveryInv, OnTheWay, SweepsStart
<1>1. CASE UNCHANGED sendq BY <1>0, <1>1 DEF SweepsStart
<1>2. CASE sendq' = <<>> BY <1>2 DEF SweepsStart
<1>3. ASSUME NEW post, sendq' = Append(sendq, post),
             post.by = "sweep" => post.message.type = "WORKLOAD_START"
      PROVE  SweepsStart'
  <2> DEFINE S == Sends \cup {post}
  <2>1. sendq \in Seq(S) /\ post \in S BY <1>0, SeqMonotonic
  <2> HIDE DEF S
  <2>2. /\ Len(sendq') = Len(sendq) + 1 /\ sendq'[Len(sendq) + 1] = post
        /\ \A i \in 1..Len(sendq) : sendq'[i] = sendq[i]
    BY <1>3, <2>1, Appended
  <2> QED BY <1>0, <1>3, <2>2 DEF SweepsStart
<1>4. ASSUME NEW message, NEW by, Send(message, by),
             by = "sweep" => message.type = "WORKLOAD_START"
      PROVE  SweepsStart'
  BY <1>1, <1>3, <1>4 DEF Send
<1>5. CASE Call
  <2>1. ASSUME NEW w \in Works, QueueDirect(w) PROVE SweepsStart'
    BY <1>4, <2>1 DEF QueueDirect, Assign
  <2>2. ASSUME NEW type, NEW key, QueueControl(type, key) PROVE SweepsStart'
    BY <1>4, <2>2 DEF QueueControl
  <2> QED BY <1>5, <2>1, <2>2 DEF Call, QueueStop, QueueLease
<1>6. ASSUME NEW w \in Works, Sweep(w) PROVE SweepsStart'
  <2>1. Start(w).type = "WORKLOAD_START" BY DEF Start, Message
  <2> QED BY <1>1, <1>4, <1>6, <2>1 DEF Sweep, Assign
<1>7. ASSUME NEW s \in Sessions, Accept(s) PROVE SweepsStart'
  <2>1. sendq' = <<[conn |-> s, message |-> Welcome, by |-> "handler"]>> BY <1>7 DEF Accept
  <2> QED BY <2>1 DEF SweepsStart
<1>8. CASE SendNext
  <2>1. sendq # <<>> /\ sendq' = Tail(sendq) BY <1>8 DEF SendNext
  <2>2. Len(sendq') = Len(sendq) - 1 /\ \A i \in 1..Len(sendq') : sendq'[i] = sendq[i + 1]
    BY <1>0, <2>1, HeadTailProperties
  <2> QED BY <1>0, <2>2 DEF SweepsStart
<1>9. CASE Resend
  <2>1. UNCHANGED sendq \/ \E m : sendq' = Append(sendq, [conn |-> conn, message |-> m,
                                                         by |-> "handler"])
    BY <1>9 DEF Resend
  <2> QED BY <1>1, <1>3, <2>1
<1>10. CASE TakeStatus \/ TakeStatusTorn \/ TakeLease \/ NoticeClosed \/ RestartController
  <2>1. UNCHANGED sendq \/ sendq' = <<>>
    BY <1>10 DEF TakeStatus, TakeStatusTorn, TakeLease, NoticeClosed, RestartController,
                 Refused, HangUp, Served
  <2> QED BY <1>1, <1>2, <2>1
<1>11. CASE Run \/ Break \/ DieRunning \/ UNCHANGED vars
  <2>1. UNCHANGED sendq
    BY <1>11 DEF Run, Connect, NoticeRefused, Welcomed, HandleStart, HandleStop, HandleLease,
                 Break, DieRunning, vars, transport
  <2> QED BY <1>1, <2>1
<1> QED BY <1>5, <1>6, <1>7, <1>8, <1>9, <1>10, <1>11 DEF Next, Serve

\* A request goes when its work has a result, or when the sweep could not send
\* what it had queued; an answer about it is expected either way.
LEMMA KeptStep ==
  ASSUME ServeInv, DeliveryInv', Serving PROVE Kept'
<1>1. \A w \in Swept : w \in Asked
  <2> SUFFICES ASSUME NEW w \in Swept PROVE w \in Asked
    OBVIOUS
  <2>1. PICK i \in 1..Len(sendq) : sendq[i].by = "sweep" /\ sendq[i].message.key = w
    BY DEF Swept
  <2>2. sendq[i].message \in Expected /\ w \in Spooled
    <3>1. sendq \in Seq(Sends) /\ spool \subseteq Spooled
      BY DEF ServeInv, DeliveryInv, OnTheWay, Stored
    <3>2. sendq[i] \in Sends BY <3>1, ElementOfSeq
    <3> QED BY <3>1, <3>2 DEF Sends, Swept
  <2>3. sendq[i].message.type = "WORKLOAD_START" BY <2>1 DEF ServeInv, SweepsStart
  <2> QED BY <2>1, <2>2, <2>3 DEF Expected, Asked
<1>2. \A w \in Spooled : Outcome[w] # "none" => w \in Asked
  BY DEF Outcome, Asked, StatusExpected
<1>3. Asked \subseteq Asked' /\ spool \ spool' \subseteq Asked'
  <2>1. CASE UNCHANGED Remote!remoteVars
    BY <2>1 DEF Remote!remoteVars, Asked
  <2>2. ASSUME NEW w \in Spooled, Remote!Queue(w) \/ Remote!Apply(w) \/ Remote!Retire(w)
        PROVE  Asked \subseteq Asked' /\ spool \ spool' \subseteq Asked'
    <3>1. Remote!Queue(w) => Asked' = Asked \cup {w} /\ spool' = spool
      BY DEF Remote!Queue, Asked
    <3>2. Remote!Apply(w) => Asked' = Asked /\ spool' = spool
      BY DEF Remote!Apply, Asked
    <3>3. Remote!Retire(w) => Asked' = Asked /\ spool' = spool \ {w} /\ Outcome[w] # "none"
      BY DEF Remote!Retire, Asked, Outcome
    <3> QED BY <1>2, <2>2, <3>1, <3>2, <3>3
  <2>3. ASSUME NEW w \in Spooled, NEW r, Remote!Keep(w, r)
        PROVE  Asked \subseteq Asked' /\ spool \ spool' \subseteq Asked'
    <3>1. w \in Asked /\ Asked' = Asked /\ spool' \in {spool, spool \ {w}}
      BY <2>3 DEF Remote!Keep, Asked
    <3> QED BY <3>1
  <2>4. CASE Remote!Reject(Swept)
    <3>1. Asked' = Asked /\ spool' = spool \ Swept BY <2>4 DEF Remote!Reject, Asked
    <3> QED BY <1>1, <3>1
  <2> QED BY <2>1, <2>2, <2>3, <2>4 DEF Serving
<1> QED BY <1>3 DEF ServeInv, Kept, Asked

\* Spool, session and node serve requests as RemoteExecution promises, for any
\* works, callers and faults (NodeRelayServer._handle_connection and
\* _ingest_provider_request, NodeRelayClient, execute_workload, stop_workload).
THEOREM RequestsAreServed == Spec => ServesRequests
<1>1. Init => Remote!RemoteInit
  <2> SUFFICES ASSUME Init PROVE Remote!RemoteInit
    OBVIOUS
  <2>1. /\ spool = Spooled /\ ToSet(pending) = {} /\ controls = <<>>
        /\ results = [w \in Works |-> NoAnswer] /\ journal = [w \in Works |-> "ABSENT"]
    BY EntriesOfNone DEF Init
  <2>2. \A w \in Spooled : ~StatusExpected(w)
    BY <2>1 DEF StatusExpected, Stopping, PlacesOf, Works
  <2>3. Asked = {} /\ Effects = {} /\ Outcome = [w \in Spooled |-> "none"]
    BY <2>1, <2>2 DEF Asked, Effects, Outcome, Works
  <2> QED BY <2>1, <2>3 DEF Remote!RemoteInit, Asked, Effects, Outcome
<1>2. Init => ServeInv
  BY InitKeeps DEF Init, ServeInv, Kept, SweepsStart
<1>3. ServeInv /\ [Next]_vars => ServeInv'
  BY NextKeeps, NextServes, KeptStep, SweepsStartKept DEF ServeInv
<1>4. ServeInv /\ [Next]_vars => [Remote!RemoteNext]_(Remote!remoteVars)
  BY NextKeeps, NextServes, ServingIsRemote DEF ServeInv
<1> QED
  BY <1>1, <1>2, <1>3, <1>4, PTL DEF Spec, ServesRequests, Remote!RemoteSpec
=============================================================================
