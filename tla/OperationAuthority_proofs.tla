--------------------- MODULE OperationAuthority_proofs ---------------------
(***************************************************************************)
(* OperationAuthority for every set of operations, processes and grants,   *)
(* every scope and every bound.                                            *)
(*                                                                         *)
(* The consumption of a grant for an operation is written before its       *)
(* effect and never taken back.  So a process that works on an operation   *)
(* which needs a grant is the only one (Alone), stands on a consumption    *)
(* (Backed) and has not begun its effect while it is only reserved         *)
(* (Unbegun): EffectOnce.  The lock belongs to the process whose effect    *)
(* runs (Locked), so no revocation falls within an effect:                 *)
(* EffectUnderAuthority.                                                   *)
(***************************************************************************)
EXTENDS OperationAuthority, FiniteSetTheorems, TLAPS

USE AuthorityAssumption

\* o needs a grant.
Bound(o) == o \in Operations \ AutoAllowed
HasConsumed(o) == \E g \in Grants : <<g, o>> \in consumed
Works(p, o) == process[p].at # "idle" /\ process[p].operation = o

\* A grant that was never stored is blank, and nothing was consumed of it.
Fresh ==
  \A g \in Grants : grant[g].status = "none" =>
     /\ grant[g] = NoGrant
     /\ \A o \in Operations : <<g, o>> \notin consumed

Backed ==
  \A o \in Operations \ AutoAllowed :
     (\E p \in Processes : Works(p, o)) \/ begun[o] > 0 => HasConsumed(o)

Alone ==
  \A o \in Operations \ AutoAllowed : \A p, q \in Processes :
     Works(p, o) /\ Works(q, o) => p = q

Unbegun ==
  \A o \in Operations \ AutoAllowed : \A p \in Processes :
     Works(p, o) /\ process[p].at = "reserved" => begun[o] = 0

Locked == \A p \in Processes : process[p].at = "effect" <=> writer = p

Held == Fresh /\ Backed /\ Alone /\ Unbegun /\ Locked /\ EffectOnce
AuthorityInv == TypeOK /\ Held

-----------------------------------------------------------------------------
(* Steps, by what they leave alone. *)

\* Human decisions, revocations and the clock.
Aside == UNCHANGED <<consumed, process, writer, begun>>

\* The stored grants only lose status, or one blank grant is filled.
Kept ==
  \A g \in Grants : grant'[g].status = "none" => grant'[g] = grant[g]

LEMMA GrantParts ==
  ASSUME TypeOK, NEW g \in Grants
  PROVE  /\ grant[g].status \in {"none", "ACTIVE", "EXHAUSTED", "REVOKED"}
         /\ grant[g].max \in Nat /\ grant[g].remaining \in Nat
         /\ grant[g].expires \in Nat /\ grant[g].approved \in BOOLEAN
         /\ grant[g].scope \in {"ONCE", "WORK", "SESSION", "RESOURCE", "CAPABILITY"}
         /\ grant[g].of \in Operations \cup {NoOne}
PROOF
  BY DEF TypeOK

LEMMA InsertType ==
  ASSUME TypeOK, NEW g \in Grants, NEW scope \in Scopes, NEW o \in Operations,
         NEW approved \in BOOLEAN, NEW uses \in Nat, NEW expires \in Nat,
         Insert(g, scope, o, approved, uses, expires)
  PROVE  /\ grant' \in [Grants -> [status : {"none", "ACTIVE", "EXHAUSTED", "REVOKED"},
                           scope : Scopes, of : Operations \cup {NoOne},
                           approved : BOOLEAN, max : Nat, remaining : Nat,
                           expires : Nat]]
         /\ Kept
PROOF
  BY DEF TypeOK, Insert, Kept

LEMMA InitAuthority == Init => AuthorityInv
<1> SUFFICES ASSUME Init PROVE AuthorityInv
  OBVIOUS
<1>1. TypeOK
  BY DEF Init, TypeOK, NoGrant, Idle
<1>2. Held
  BY DEF Init, Held, Fresh, Backed, Alone, Unbegun, Locked, EffectOnce, Works, Idle, NoGrant
<1>3. QED
  BY <1>1, <1>2 DEF AuthorityInv

LEMMA AsideHeld ==
  ASSUME Held, Aside, Kept
  PROVE  Held'
PROOF
  BY DEF Held, Aside, Kept, Fresh, Backed, Alone, Unbegun, Locked, EffectOnce,
         Works, HasConsumed

\* A step of the human or of the clock.
Governs == (\E o \in Operations : Govern(o)) \/ (\E g \in Grants : RevokeGrant(g)) \/ Tick

LEMMA GovernAside ==
  ASSUME TypeOK, Governs
  PROVE  Aside /\ Kept /\ TypeOK'
<1>1. ASSUME NEW o \in Operations, RequestApproval(o) PROVE Aside /\ Kept /\ TypeOK'
  <2>1. clock + Validity \in Nat
    BY DEF TypeOK
  <2>2. QED
    BY <1>1, <2>1 DEF RequestApproval, TypeOK, Aside, Kept
<1>2. ASSUME NEW o \in Operations, NEW approve \in BOOLEAN, Respond(o, approve)
      PROVE  Aside /\ Kept /\ TypeOK'
  <2>1. approval' \in [Operations -> [status : {"none", "PENDING", "APPROVED", "DENIED"},
                                  expires : Nat]] /\ approval[o].expires \in Nat
    BY <1>2 DEF Respond, TypeOK
  <2>2. Kept /\ grant' \in [Grants -> [status : {"none", "ACTIVE", "EXHAUSTED", "REVOKED"},
                           scope : Scopes, of : Operations \cup {NoOne},
                           approved : BOOLEAN, max : Nat, remaining : Nat,
                           expires : Nat]]
    <3>1. CASE approve
      <4>1. PICK g \in Grants : Insert(g, "ONCE", o, TRUE, 1, approval[o].expires)
        BY <1>2, <3>1 DEF Respond
      <4>2. QED
        BY <2>1, <4>1, InsertType
    <3>2. CASE ~approve
      BY <1>2, <3>2 DEF Respond, TypeOK, Kept
    <3>3. QED
      BY <3>1, <3>2
  <2>3. QED
    BY <1>2, <2>1, <2>2 DEF Respond, TypeOK, Aside
<1>3. ASSUME NEW o \in Operations, NEW scope \in Scopes, NEW uses \in Uses,
             NEW validity \in 1..Validity, IssueGrant(o, scope, uses, validity)
      PROVE  Aside /\ Kept /\ TypeOK'
  <2>1. uses \in Nat /\ clock + validity \in Nat
    BY DEF TypeOK
  <2>2. PICK g \in Grants : Insert(g, scope, o, FALSE, uses, clock + validity)
    BY <1>3 DEF IssueGrant
  <2>3. QED
    BY <1>3, <2>1, <2>2, InsertType DEF IssueGrant, TypeOK, Aside
<1>4. ASSUME NEW o \in Operations, RevokeResource(o) \/ Interrupt(o)
      PROVE  Aside /\ Kept /\ TypeOK'
  BY <1>4 DEF RevokeResource, Interrupt, Revoke, TypeOK, Aside, Kept
<1>5. ASSUME NEW g \in Grants, RevokeGrant(g) PROVE Aside /\ Kept /\ TypeOK'
  BY <1>5 DEF RevokeGrant, Revoke, TypeOK, Aside, Kept
<1>6. ASSUME Tick PROVE Aside /\ Kept /\ TypeOK'
  BY <1>6 DEF Tick, TypeOK, Aside, Kept
<1>7. QED
  BY <1>1, <1>2, <1>3, <1>4, <1>5, <1>6 DEF Governs, Govern

-----------------------------------------------------------------------------
(* Admission. *)

LEMMA ReserveType ==
  ASSUME TypeOK, NEW p \in Processes, NEW o \in Operations, Reserve(p, o)
  PROVE  TypeOK' /\ Kept
<1>1. ASSUME NEW g \in Grants, ReserveGrant(p, o, g) PROVE TypeOK' /\ Kept
  <2>1. grant[g].remaining - 1 \in Nat
    BY <1>1, GrantParts DEF ReserveGrant, Usable
  <2> DEFINE left == grant[g].remaining - 1
             status == IF left = 0 THEN "EXHAUSTED" ELSE "ACTIVE"
  <2>2. /\ grant' = [grant EXCEPT ![g].remaining = left, ![g].status = status]
        /\ consumed' = consumed \cup {<<g, o>>} /\ Become(p, "reserved", o)
        /\ UNCHANGED <<approval, revoked, writer, clock, begun>>
    BY <1>1 DEF Reserve, ReserveGrant
  <2>3. left \in Nat /\ status \in {"EXHAUSTED", "ACTIVE"} BY <2>1
  <2> HIDE DEF left, status
  <2> DEFINE Records == [status : {"none", "ACTIVE", "EXHAUSTED", "REVOKED"},
                         scope : Scopes, of : Operations \cup {NoOne},
                         approved : BOOLEAN, max : Nat, remaining : Nat, expires : Nat]
  <2>4. grant' \in [Grants -> Records]
    <3>1. grant' = [grant EXCEPT ![g] = [@ EXCEPT !.remaining = left, !.status = status]]
      BY <2>2 DEF TypeOK
    <3>2. grant \in [Grants -> Records] /\ grant[g] \in Records BY DEF TypeOK
    <3>3. [grant[g] EXCEPT !.remaining = left, !.status = status] \in Records
      BY <2>3, <3>2
    <3> HIDE DEF Records
    <3> QED BY <3>1, <3>2, <3>3
  <2>5. process' \in [Processes -> {Idle} \cup
                        [at : {"reserved", "effect"}, operation : Operations]]
    BY <2>2 DEF Become, TypeOK
  <2>6. Kept BY <2>2, <2>3 DEF TypeOK, Kept
  <2>7. consumed' \subseteq Grants \X Operations BY <2>2 DEF TypeOK
  <2>8. QED
    BY <2>2, <2>4, <2>5, <2>6, <2>7 DEF TypeOK
<1>2. CASE ReserveFree(p, o)
  BY <1>2 DEF Reserve, ReserveFree, Become, TypeOK, Kept
<1>3. QED
  BY <1>1, <1>2 DEF Reserve

LEMMA ReserveHeld ==
  ASSUME AuthorityInv, NEW p \in Processes, NEW o \in Operations, Reserve(p, o)
  PROVE  Held'
<1>1. TypeOK' /\ Kept
  BY ReserveType DEF AuthorityInv
<1>2. /\ process[p].at = "idle" /\ writer = NoOne
      /\ process' = [process EXCEPT ![p] = [at |-> "reserved", operation |-> o]]
      /\ process \in [Processes -> {Idle} \cup
           [at : {"reserved", "effect"}, operation : Operations]]
      /\ UNCHANGED <<writer, begun>>
  <2>1. process[p] = Idle /\ writer = NoOne /\ UNCHANGED <<writer, begun>>
    BY DEF Reserve, Unlocked
  <2>2. Become(p, "reserved", o)
    BY DEF Reserve, ReserveGrant, ReserveFree
  <2>3. process \in [Processes -> {Idle} \cup
           [at : {"reserved", "effect"}, operation : Operations]]
    BY DEF AuthorityInv, TypeOK
  <2>4. QED
    BY <2>1, <2>2, <2>3 DEF Become, Idle
<1>3. /\ consumed \subseteq consumed'
      /\ \A g \in Grants, t \in Operations :
           <<g, t>> \in consumed' => <<g, t>> \in consumed \/ grant'[g].status # "none"
  <2>1. ASSUME NEW h \in Grants, ReserveGrant(p, o, h)
        PROVE  consumed' = consumed \cup {<<h, o>>} /\ grant'[h].status # "none"
    BY <2>1 DEF ReserveGrant, AuthorityInv, TypeOK
  <2>2. CASE ReserveFree(p, o)
    BY <2>2 DEF ReserveFree
  <2>3. QED
    BY <2>1, <2>2 DEF Reserve
<1>4. o \notin AutoAllowed =>
        /\ ~HasConsumed(o)
        /\ \E g \in Grants : <<g, o>> \in consumed'
  BY DEF Reserve, ReserveGrant, ReserveFree, Unused, HasConsumed
<1>5. o \notin AutoAllowed => begun[o] = 0 /\ \A q \in Processes : ~Works(q, o)
  BY <1>4 DEF AuthorityInv, TypeOK, Held, Backed
<1>6. Fresh'
  BY <1>1, <1>3 DEF AuthorityInv, Held, Fresh, Kept
<1>7. Backed'
  BY <1>2, <1>3, <1>4 DEF AuthorityInv, Held, Backed, Works, HasConsumed
<1>8. Alone' /\ Unbegun'
  BY <1>2, <1>5 DEF AuthorityInv, Held, Alone, Unbegun, Works
<1>9. Locked' /\ EffectOnce'
  BY <1>2 DEF AuthorityInv, Held, Locked, EffectOnce
<1>10. QED
  BY <1>6, <1>7, <1>8, <1>9 DEF Held

LEMMA BeginKeeps ==
  ASSUME AuthorityInv, NEW p \in Processes, BeginEffect(p)
  PROVE  AuthorityInv'
<1> DEFINE o == process[p].operation
<1>1. /\ o \in Operations /\ process[p].at = "reserved" /\ writer = NoOne
      /\ process' = [process EXCEPT ![p] = [at |-> "effect", operation |-> o]]
      /\ process \in [Processes -> {Idle} \cup
           [at : {"reserved", "effect"}, operation : Operations]]
      /\ writer' = p /\ begun' = [begun EXCEPT ![o] = @ + 1]
      /\ begun \in [Operations -> Nat]
      /\ UNCHANGED <<grant, consumed>>
  BY DEF BeginEffect, Become, Unlocked, Idle, AuthorityInv, TypeOK
<1>2. TypeOK'
  BY <1>1 DEF BeginEffect, AuthorityInv, TypeOK
<1>3. o \notin AutoAllowed => begun[o] = 0 /\ HasConsumed(o)
  BY <1>1 DEF AuthorityInv, Held, Unbegun, Backed, Works
<1>4. Fresh' /\ Backed'
  BY <1>1, <1>3 DEF AuthorityInv, Held, Fresh, Backed, Works, HasConsumed
<1>5. Alone' /\ Unbegun'
  BY <1>1 DEF AuthorityInv, Held, Alone, Unbegun, Works
<1>6. Locked'
  BY <1>1 DEF AuthorityInv, Held, Locked
<1>7. EffectOnce'
  BY <1>1, <1>3 DEF AuthorityInv, Held, EffectOnce
<1>8. QED
  BY <1>2, <1>4, <1>5, <1>6, <1>7 DEF AuthorityInv, Held

LEMMA LetGoKeeps ==
  ASSUME AuthorityInv, NEW p \in Processes, LetGo(p)
  PROVE  AuthorityInv'
<1>1. /\ process' = [process EXCEPT ![p] = Idle] /\ Idle.at = "idle"
      /\ process \in [Processes -> {Idle} \cup
           [at : {"reserved", "effect"}, operation : Operations]]
      /\ writer' = IF writer = p THEN NoOne ELSE writer
      /\ UNCHANGED <<grant, consumed, begun>>
  BY DEF LetGo, Idle, AuthorityInv, TypeOK
<1>2. TypeOK'
  BY <1>1 DEF LetGo, AuthorityInv, TypeOK
<1>3. Fresh' /\ Backed'
  BY <1>1 DEF AuthorityInv, Held, Fresh, Backed, Works, HasConsumed
<1>4. Alone' /\ Unbegun' /\ EffectOnce'
  BY <1>1 DEF AuthorityInv, Held, Alone, Unbegun, EffectOnce, Works
<1>5. Locked'
  BY <1>1 DEF AuthorityInv, Held, Locked
<1>6. QED
  BY <1>2, <1>3, <1>4, <1>5 DEF AuthorityInv, Held

LEMMA NextSplit ==
  ASSUME Next
  PROVE  \/ Governs
         \/ \E p \in Processes : (\E o \in Operations : Reserve(p, o)) \/ BeginEffect(p) \/ LetGo(p)
PROOF
  BY DEF Next, Governs, Act

LEMMA AuthorityInvariant == AuthorityInv /\ [Next]_vars => AuthorityInv'
<1> SUFFICES ASSUME AuthorityInv, [Next]_vars PROVE AuthorityInv'
  OBVIOUS
<1>1. CASE Governs
  BY <1>1, GovernAside, AsideHeld DEF AuthorityInv
<1>2. ASSUME NEW p \in Processes, NEW o \in Operations, Reserve(p, o) PROVE AuthorityInv'
  BY <1>2, ReserveType, ReserveHeld DEF AuthorityInv
<1>3. ASSUME NEW p \in Processes, BeginEffect(p) \/ LetGo(p) PROVE AuthorityInv'
  BY <1>3, BeginKeeps, LetGoKeeps
<1>4. CASE UNCHANGED vars
  <2>1. TypeOK'
    BY <1>4 DEF vars, AuthorityInv, TypeOK
  <2>2. Aside /\ Kept
    BY <1>4 DEF vars, Aside, Kept
  <2>3. QED
    BY <2>1, <2>2, AsideHeld DEF AuthorityInv
<1>5. QED
  BY <1>1, <1>2, <1>3, <1>4, NextSplit

-----------------------------------------------------------------------------
(* Theorems. *)

\* Every variable keeps its type, for every instance of the gate.
THEOREM TypeCorrect == Spec => []TypeOK
<1>1. AuthorityInv => TypeOK
  BY DEF AuthorityInv
<1>2. QED
  BY <1>1, InitAuthority, AuthorityInvariant, PTL DEF Spec

\* An operation that needs a grant has its effect at most once
\* (operation_gate.py admit_operation).
THEOREM EffectsHappenOnce == Spec => []EffectOnce
<1>1. AuthorityInv => EffectOnce
  BY DEF AuthorityInv, Held
<1>2. QED
  BY <1>1, InitAuthority, AuthorityInvariant, PTL DEF Spec

-----------------------------------------------------------------------------
(* Effects run under authority. *)

LEMMA InitUnder == Init => EffectUnderAuthority
PROOF
  BY DEF Init, EffectUnderAuthority, Idle

\* What an effect needs of the stored facts.
Covered(o) ==
  /\ Resource[o] \notin revoked /\ o \notin revoked
  /\ approval[o].status # "DENIED"
  /\ o \notin AutoAllowed => \E g \in Grants : <<g, o>> \in consumed /\ g \notin revoked

LEMMA UnderIsCovered ==
  EffectUnderAuthority <=>
    \A p \in Processes : process[p].at = "effect" => Covered(process[p].operation)
PROOF
  BY DEF EffectUnderAuthority, IsRevoked, Covered

LEMMA UnderInvariant ==
  AuthorityInv /\ EffectUnderAuthority /\ [Next]_vars => EffectUnderAuthority'
<1> SUFFICES ASSUME AuthorityInv, EffectUnderAuthority, [Next]_vars,
                    NEW p \in Processes, process'[p].at = "effect"
             PROVE  Covered(process[p].operation)'
  BY DEF EffectUnderAuthority, IsRevoked, Covered
<1>1. process \in [Processes -> {Idle} \cup [at : {"reserved", "effect"}, operation : Operations]]
      /\ Idle.at = "idle"
  BY DEF AuthorityInv, TypeOK, Idle
<1>2. ASSUME process'[p] = process[p], UNCHANGED <<approval, revoked>>, consumed \subseteq consumed'
      PROVE  Covered(process[p].operation)'
  <2>1. Covered(process[p].operation)
    BY <1>2, UnderIsCovered
  <2>2. QED
    BY <1>2, <2>1 DEF Covered
<1>3. ~Unlocked \/ process[p].at # "effect"
  BY DEF Unlocked, AuthorityInv, Held, Locked
<1>4. CASE Governs
  <2>1. process[p].at = "effect" /\ process' = process /\ consumed' = consumed
    BY <1>4, GovernAside DEF AuthorityInv, Aside
  <2>2. CASE Tick
    BY <1>2, <2>1, <2>2 DEF Tick
  <2>3. QED
    BY <1>3, <1>4, <2>1, <2>2 DEF Governs, Govern, RequestApproval, Respond, IssueGrant,
                               RevokeResource, Interrupt, RevokeGrant
<1>5. ASSUME NEW q \in Processes, NEW t \in Operations, Reserve(q, t)
      PROVE  Covered(process[p].operation)'
  <2>1. Become(q, "reserved", t) /\ consumed \subseteq consumed' /\ UNCHANGED <<approval, revoked>>
    BY <1>5 DEF Reserve, ReserveGrant, ReserveFree
  <2>2. QED
    BY <1>1, <1>2, <2>1 DEF Become
<1>6. ASSUME NEW q \in Processes, LetGo(q) PROVE Covered(process[p].operation)'
  <2>1. process'[p] = process[p] /\ UNCHANGED <<approval, revoked, consumed>>
    BY <1>1, <1>6 DEF LetGo
  <2>2. QED
    BY <1>2, <2>1
<1>7. ASSUME NEW q \in Processes, BeginEffect(q), p # q PROVE Covered(process[p].operation)'
  <2>1. process'[p] = process[p] /\ UNCHANGED <<approval, revoked, consumed>>
    BY <1>1, <1>7 DEF BeginEffect, Become
  <2>2. QED
    BY <1>2, <2>1
<1>8. CASE BeginEffect(p)
  <2>1. /\ process'[p].operation = process[p].operation
        /\ UNCHANGED <<approval, revoked, consumed>>
    BY <1>1, <1>8 DEF BeginEffect, Become
  <2>2. Covered(process[p].operation)
    BY <1>8 DEF BeginEffect, Admitted, Open, IsRevoked, Consumed, InForce, Covered
  <2>3. QED
    BY <2>1, <2>2 DEF Covered
<1>9. CASE UNCHANGED vars
  BY <1>2, <1>9 DEF vars
<1>10. QED
  BY <1>4, <1>5, <1>6, <1>7, <1>8, <1>9, NextSplit

\* While an effect runs nothing that covers it is revoked, interrupted or
\* denied (operation_gate.py admit_operation, revoke_operation_authority).
THEOREM EffectsRunUnderAuthority == Spec => []EffectUnderAuthority
  BY InitAuthority, AuthorityInvariant, InitUnder, UnderInvariant, PTL DEF Spec

\* Nothing denied or interrupted is begun afterwards (operation_gate.py
\* _evaluate_operation, _respond_operation_approval, interrupt_operation).
THEOREM RefusalIsFinal == Spec => RefusedForGood
<1> DEFINE Final == \A o \in Operations :
        approval[o].status = "DENIED" \/ o \in revoked =>
          begun'[o] = begun[o] /\ (approval'[o].status = "DENIED" \/ o \in revoked')
<1>1. AuthorityInv /\ [Next]_vars => [Final]_vars
  <2> SUFFICES ASSUME AuthorityInv, Next, NEW o \in Operations,
                      approval[o].status = "DENIED" \/ o \in revoked
               PROVE  begun'[o] = begun[o] /\ (approval'[o].status = "DENIED" \/ o \in revoked')
    OBVIOUS
  <2>1. CASE Governs
    <3>1. begun' = begun
      BY <2>1, GovernAside DEF AuthorityInv, Aside
    <3>2. revoked \subseteq revoked'
      BY <2>1 DEF Governs, Govern, RequestApproval, Respond, IssueGrant, RevokeResource,
                  Interrupt, RevokeGrant, Revoke, Tick
    <3>3. approval[o].status = "DENIED" => approval'[o] = approval[o]
      BY <2>1 DEF Governs, Govern, RequestApproval, Respond, IssueGrant, RevokeResource,
                  Interrupt, RevokeGrant, Revoke, Tick, AuthorityInv, TypeOK
    <3>4. QED
      BY <3>1, <3>2, <3>3
  <2>2. ASSUME NEW p \in Processes, NEW t \in Operations, Reserve(p, t)
        PROVE  UNCHANGED <<approval, revoked, begun>>
    BY <2>2 DEF Reserve
  <2>3. ASSUME NEW p \in Processes, LetGo(p) PROVE UNCHANGED <<approval, revoked, begun>>
    BY <2>3 DEF LetGo
  <2>4. ASSUME NEW p \in Processes, BeginEffect(p)
        PROVE  UNCHANGED <<approval, revoked>> /\ begun'[o] = begun[o]
    <3>1. process[p].operation # o
      BY <2>4 DEF BeginEffect, Admitted, Open, IsRevoked
    <3>2. QED
      BY <2>4, <3>1 DEF BeginEffect, AuthorityInv, TypeOK
  <2>5. QED
    BY <2>1, <2>2, <2>3, <2>4, NextSplit
<1>2. QED
  BY <1>1, InitAuthority, AuthorityInvariant, PTL DEF Spec, RefusedForGood

-----------------------------------------------------------------------------
(* Grants. *)

UsesOf(g) == {o \in Operations : <<g, o>> \in consumed}

\* What human decisions, revocations and time do to a grant: it is filled in,
\* marked revoked or left alone.
Touched(g) ==
  \/ grant[g].status = "none" /\ grant'[g].max = grant'[g].remaining
  \/ grant'[g].max = grant[g].max /\ grant'[g].remaining = grant[g].remaining

LEMMA GovernTouches ==
  ASSUME TypeOK, Governs, NEW g \in Grants
  PROVE  Touched(g)
<1>1. ASSUME NEW o \in Operations, NEW approve \in BOOLEAN, Respond(o, approve)
      PROVE  Touched(g)
  BY <1>1 DEF Respond, Insert, Touched, TypeOK
<1>2. ASSUME NEW o \in Operations, NEW scope \in Scopes, NEW uses \in Uses,
             NEW validity \in 1..Validity, IssueGrant(o, scope, uses, validity)
      PROVE  Touched(g)
  BY <1>2 DEF IssueGrant, Insert, Touched, TypeOK
<1>3. ASSUME NEW h \in Grants, RevokeGrant(h) PROVE Touched(g)
  BY <1>3 DEF RevokeGrant, Touched, TypeOK
<1>4. ASSUME UNCHANGED grant PROVE Touched(g)
  BY <1>4 DEF Touched
<1>5. QED
  BY <1>1, <1>2, <1>3, <1>4 DEF Governs, Govern, RequestApproval, RevokeResource, Interrupt, Tick

LEMMA InitUses == Init => UsesAddUp
<1> SUFFICES ASSUME Init, NEW g \in Grants
             PROVE  grant[g].remaining + Cardinality(UsesOf(g)) = grant[g].max
  BY DEF UsesAddUp, UsesOf
<1>1. UsesOf(g) = {}
  BY DEF Init, UsesOf
<1>2. Cardinality(UsesOf(g)) = 0
  BY <1>1, FS_EmptySet
<1>3. QED
  BY <1>2 DEF Init, NoGrant

LEMMA UsesInvariant == AuthorityInv /\ UsesAddUp /\ [Next]_vars => UsesAddUp'
<1> SUFFICES ASSUME AuthorityInv, UsesAddUp, [Next]_vars, NEW g \in Grants
             PROVE  grant'[g].remaining + Cardinality(UsesOf(g)') = grant'[g].max
  BY DEF UsesAddUp, UsesOf
<1>1. grant[g].remaining + Cardinality(UsesOf(g)) = grant[g].max
  BY DEF UsesAddUp, UsesOf
<1>2. IsFiniteSet(UsesOf(g))
  BY FS_Subset DEF UsesOf
<1>3. ASSUME UNCHANGED consumed, Touched(g)
      PROVE  grant'[g].remaining + Cardinality(UsesOf(g)') = grant'[g].max
  <2>1. UsesOf(g)' = UsesOf(g)
    BY <1>3 DEF UsesOf
  <2>2. CASE grant[g].status = "none" /\ grant'[g].max = grant'[g].remaining
    <3>1. UsesOf(g) = {}
      BY <2>2 DEF UsesOf, AuthorityInv, Held, Fresh
    <3>2. Cardinality(UsesOf(g)) = 0
      BY <3>1, FS_EmptySet
    <3>3. grant'[g].max \in Nat
      BY <1>3, AuthorityInvariant, GrantParts DEF AuthorityInv, TypeOK
    <3>4. QED
      BY <2>1, <2>2, <3>2, <3>3
  <2>3. QED
    BY <1>1, <1>3, <2>1, <2>2 DEF Touched
<1>4. CASE Governs
  BY <1>3, <1>4, GovernAside, GovernTouches DEF AuthorityInv, Aside
<1>5. ASSUME NEW p \in Processes, NEW o \in Operations, NEW h \in Grants, ReserveGrant(p, o, h)
      PROVE  grant'[g].remaining + Cardinality(UsesOf(g)') = grant'[g].max
  <2>1. CASE h # g
    <3>1. Touched(g) /\ UsesOf(g)' = UsesOf(g)
      BY <1>5, <2>1 DEF ReserveGrant, Touched, UsesOf, AuthorityInv, TypeOK
    <3>2. grant'[g] = grant[g]
      BY <1>5, <2>1 DEF ReserveGrant, AuthorityInv, TypeOK
    <3>3. QED
      BY <1>1, <3>1, <3>2
  <2>2. CASE h = g
    <3>1. o \notin UsesOf(g) /\ UsesOf(g)' = UsesOf(g) \cup {o}
      BY <1>5, <2>2 DEF ReserveGrant, Unused, UsesOf
    <3>2. Cardinality(UsesOf(g)') = Cardinality(UsesOf(g)) + 1
      BY <1>2, <3>1, FS_AddElement
    <3>3. grant'[g].remaining = grant[g].remaining - 1 /\ grant'[g].max = grant[g].max
      BY <1>5, <2>2 DEF ReserveGrant, AuthorityInv, TypeOK
    <3>4. Cardinality(UsesOf(g)) \in Nat /\ grant[g].remaining \in Nat
      BY <1>2, FS_CardinalityType, GrantParts DEF AuthorityInv
    <3>5. QED
      BY <1>1, <3>2, <3>3, <3>4
  <2>3. QED
    BY <2>1, <2>2
<1>6. ASSUME UNCHANGED <<consumed, grant>>
      PROVE  grant'[g].remaining + Cardinality(UsesOf(g)') = grant'[g].max
  BY <1>3, <1>6 DEF Touched
<1>7. ASSUME NEW p \in Processes, NEW o \in Operations, Reserve(p, o)
      PROVE  grant'[g].remaining + Cardinality(UsesOf(g)') = grant'[g].max
  BY <1>5, <1>6, <1>7 DEF Reserve, ReserveFree
<1>8. ASSUME NEW p \in Processes, BeginEffect(p) \/ LetGo(p)
      PROVE  grant'[g].remaining + Cardinality(UsesOf(g)') = grant'[g].max
  BY <1>6, <1>8 DEF BeginEffect, LetGo
<1>9. CASE UNCHANGED vars
  BY <1>6, <1>9 DEF vars
<1>10. QED
  BY <1>4, <1>7, <1>8, <1>9, NextSplit

\* The uses of a grant are given out once each (operation_gate.py
\* admit_operation, _insert_grant).
THEOREM UsesAreConserved == Spec => []UsesAddUp
  BY InitAuthority, AuthorityInvariant, InitUses, UsesInvariant, PTL DEF Spec

-----------------------------------------------------------------------------
(* Approvals. *)

\* The operation of an approved grant is known.
Sourced == \A g \in Grants : grant[g].approved => grant[g].of \in Operations
ApprovedInv == ApprovedOnce /\ Sourced

LEMMA ApprovedInvariant == AuthorityInv /\ ApprovedInv /\ [Next]_vars => ApprovedInv'
<1> SUFFICES ASSUME AuthorityInv, ApprovedInv, [Next]_vars PROVE ApprovedInv'
  OBVIOUS
<1>1. ASSUME \A g \in Grants : grant'[g].approved = grant[g].approved /\ grant'[g].of = grant[g].of,
             \A o \in Operations : approval[o].status = "APPROVED" => approval'[o].status = "APPROVED"
      PROVE  ApprovedInv'
  <2>1. \A g \in Grants : grant[g].approved => grant[g].of \in Operations
    BY DEF ApprovedInv, Sourced
  <2>2. QED
    BY <1>1, <2>1 DEF ApprovedInv, Sourced, ApprovedOnce
<1>2. ASSUME NEW h \in Grants, NEW scope, NEW o \in Operations, NEW approved \in BOOLEAN,
             NEW uses, NEW expires, Insert(h, scope, o, approved, uses, expires),
             approved => approval[o].status = "PENDING" /\ approval'[o].status = "APPROVED",
             \A u \in Operations : approval[u].status = "APPROVED" => approval'[u].status = "APPROVED"
      PROVE  ApprovedInv'
  <2>1. /\ grant'[h].approved = approved /\ grant'[h].of = o
        /\ \A g \in Grants : g # h => grant'[g] = grant[g]
    BY <1>2 DEF Insert, AuthorityInv, TypeOK
  <2>2. \A g \in Grants : grant[g].approved => approval[grant[g].of].status = "APPROVED"
    BY DEF ApprovedInv, ApprovedOnce
  <2>3. \A g \in Grants : g # h /\ approved => ~(grant[g].approved /\ grant[g].of = o)
    BY <1>2, <2>2
  <2>4. Sourced'
    BY <2>1 DEF ApprovedInv, Sourced
  <2>5. \A g \in Grants : grant'[g].approved => approval'[grant'[g].of].status = "APPROVED"
    BY <1>2, <2>1, <2>2 DEF ApprovedInv, Sourced
  <2>6. \A g, k \in Grants :
          grant'[g].approved /\ grant'[k].approved /\ grant'[g].of = grant'[k].of => g = k
    <3>1. SUFFICES ASSUME NEW g \in Grants, NEW k \in Grants, g # k, grant'[g].approved,
                          grant'[k].approved, grant'[g].of = grant'[k].of PROVE FALSE
      OBVIOUS
    <3>2. CASE g # h /\ k # h
      BY <2>1, <3>1, <3>2 DEF ApprovedInv, ApprovedOnce
    <3>3. CASE g = h \/ k = h
      BY <2>1, <2>3, <3>1, <3>3
    <3>4. QED
      BY <3>2, <3>3
  <2>7. QED
    BY <2>4, <2>5, <2>6 DEF ApprovedInv, ApprovedOnce
<1>3. ASSUME NEW o \in Operations, NEW approve \in BOOLEAN, Respond(o, approve)
      PROVE  ApprovedInv'
  <2>1. \A u \in Operations : approval[u].status = "APPROVED" => approval'[u].status = "APPROVED"
    BY <1>3 DEF Respond, AuthorityInv, TypeOK
  <2>2. CASE approve
    <3>1. PICK g \in Grants : Insert(g, "ONCE", o, TRUE, 1, approval[o].expires)
      BY <1>3, <2>2 DEF Respond
    <3>2. approval[o].status = "PENDING" /\ approval'[o].status = "APPROVED"
      BY <1>3, <2>2 DEF Respond, AuthorityInv, TypeOK
    <3>3. QED
      BY <1>2, <2>1, <3>1, <3>2
  <2>3. CASE ~approve
    BY <1>1, <1>3, <2>1, <2>3 DEF Respond
  <2>4. QED
    BY <2>2, <2>3
<1>4. ASSUME NEW o \in Operations, NEW scope \in Scopes, NEW uses \in Uses,
             NEW validity \in 1..Validity, IssueGrant(o, scope, uses, validity)
      PROVE  ApprovedInv'
  BY <1>2, <1>4 DEF IssueGrant
<1>5. ASSUME NEW h \in Grants, RevokeGrant(h) PROVE ApprovedInv'
  BY <1>1, <1>5 DEF RevokeGrant, Revoke, AuthorityInv, TypeOK
<1>6. ASSUME NEW o \in Operations, RequestApproval(o) PROVE ApprovedInv'
  BY <1>1, <1>6 DEF RequestApproval, AuthorityInv, TypeOK
<1>7. ASSUME UNCHANGED <<approval, grant>> PROVE ApprovedInv'
  BY <1>1, <1>7
<1>8. CASE Governs
  BY <1>3, <1>4, <1>5, <1>6, <1>7, <1>8 DEF Governs, Govern, RevokeResource, Interrupt, Revoke, Tick
<1>9. ASSUME NEW p \in Processes, NEW o \in Operations, Reserve(p, o) PROVE ApprovedInv'
  <2>1. \A g \in Grants : grant'[g].approved = grant[g].approved /\ grant'[g].of = grant[g].of
    <3>1. ASSUME NEW h \in Grants, ReserveGrant(p, o, h), NEW g \in Grants
          PROVE  grant'[g].approved = grant[g].approved /\ grant'[g].of = grant[g].of
      BY <3>1 DEF ReserveGrant, AuthorityInv, TypeOK
    <3>2. CASE ReserveFree(p, o)
      BY <3>2 DEF ReserveFree
    <3>3. QED
      BY <1>9, <3>1, <3>2 DEF Reserve
  <2>2. QED
    BY <1>1, <1>9, <2>1 DEF Reserve
<1>10. ASSUME NEW p \in Processes, BeginEffect(p) \/ LetGo(p) PROVE ApprovedInv'
  BY <1>7, <1>10 DEF BeginEffect, LetGo
<1>11. CASE UNCHANGED vars
  BY <1>7, <1>11 DEF vars
<1>12. QED
  BY <1>8, <1>9, <1>10, <1>11, NextSplit

LEMMA InitApproved == Init => ApprovedInv
PROOF
  BY DEF Init, ApprovedInv, ApprovedOnce, Sourced, NoGrant

\* An approval gives one grant, and no other way gives one of its kind
\* (operation_gate.py _respond_operation_approval).
THEOREM ApprovalsGrantOnce == Spec => []ApprovedOnce
<1>1. ApprovedInv => ApprovedOnce
  BY DEF ApprovedInv
<1>2. QED
  BY <1>1, InitAuthority, AuthorityInvariant, InitApproved, ApprovedInvariant, PTL DEF Spec
=============================================================================
