------------------------- MODULE OperationAuthority -------------------------
(***************************************************************************)
(* The authority of one Operation to have its effect: registration, human  *)
(* approval, grants, revocation, interruption and admission, in            *)
(* OperationAuthorizationMixin (nous_runtime/governance/operation_gate.py) *)
(* over the SQLite GovernanceStore (store.py).                             *)
(*                                                                         *)
(* Every operation of the gate is a transaction that holds the writer lock *)
(* of the database.  Admission takes two: the first evaluates the request  *)
(* and consumes one use of a grant, the second evaluates it again and      *)
(* keeps the lock while the effect runs.  Processes may die anywhere, and  *)
(* a wait for the lock may time out.                                       *)
(*                                                                         *)
(* The identity of the human, secret handles and the audit chain are left  *)
(* out.  Permissions, contracts, the constitution, external policy and the *)
(* check of the device only restrict: any evaluation may be refused on     *)
(* their account.  Requests are immutable and registered before all else.  *)
(***************************************************************************)
EXTENDS Naturals, FiniteSets

CONSTANTS
  Operations,
  Processes,
  Grants,      \* identities of grants
  Resources,
  Resource,    \* the resource of an operation
  Session,     \* its agent session, or NoSession
  NoSession,
  Holder,      \* its subject, capability and node
  AutoAllowed, \* operations of an idempotent read-only capability that the
               \* gate's own policy allows
  Scopes,      \* the scopes of issued grants
  Uses,        \* the uses issued grants are given; 1 to 1000 in the code
  Validity,    \* model bound on lifetimes, and the lifetime of an approval
  LastTime,    \* model bound on the clock
  MaxEffects,  \* model bound on the effects of an operation
  NoOne        \* no process, and no grant

ASSUME AuthorityAssumption ==
  /\ Resource \in [Operations -> Resources]
  /\ AutoAllowed \subseteq Operations
  /\ {"ONCE"} \subseteq Scopes
  /\ Scopes \subseteq {"ONCE", "WORK", "SESSION", "RESOURCE", "CAPABILITY"}
  /\ Uses \subseteq Nat \ {0} /\ Validity \in Nat \ {0} /\ LastTime \in Nat
  /\ MaxEffects \in Nat \ {0, 1}
  /\ NoOne \notin Processes \cup Grants
  /\ IsFiniteSet(Operations)
  /\ Grants \cap Resources = {} /\ Grants \cap Operations = {}
  /\ Resources \cap Operations = {}

VARIABLES
  approval,   \* the approval request of each operation
  grant,      \* the stored grants
  revoked,    \* targets of revocations: grants, resources, operations
  consumed,   \* which grant was consumed for which operation
  process,    \* what each process is doing
  writer,     \* the process that holds the writer lock while an effect runs
  clock,
  begun       \* effects begun of each operation

vars == <<approval, grant, revoked, consumed, process, writer, clock, begun>>

NoGrant == [status |-> "none", scope |-> "ONCE", of |-> NoOne, approved |-> FALSE,
            max |-> 0, remaining |-> 0, expires |-> 0]
Idle == [at |-> "idle", operation |-> NoOne]

TypeOK ==
  /\ approval \in [Operations -> [status : {"none", "PENDING", "APPROVED", "DENIED"},
                                  expires : Nat]]
  /\ grant \in [Grants -> [status : {"none", "ACTIVE", "EXHAUSTED", "REVOKED"},
                           scope : Scopes, of : Operations \cup {NoOne},
                           approved : BOOLEAN, max : Nat, remaining : Nat,
                           expires : Nat]]
  /\ revoked \subseteq Grants \cup Resources \cup Operations
  /\ consumed \subseteq Grants \X Operations
  /\ process \in [Processes -> {Idle} \cup
        [at : {"reserved", "effect"}, operation : Operations]]
  /\ writer \in Processes \cup {NoOne}
  /\ clock \in 0..LastTime
  /\ begun \in [Operations -> Nat]

Init ==
  /\ approval = [o \in Operations |-> [status |-> "none", expires |-> 0]]
  /\ grant = [g \in Grants |-> NoGrant]
  /\ revoked = {} /\ consumed = {}
  /\ process = [p \in Processes |-> Idle]
  /\ writer = NoOne
  /\ clock = 0
  /\ begun = [o \in Operations |-> 0]

-----------------------------------------------------------------------------
(* Evaluation. *)

IsRevoked(o) == Resource[o] \in revoked \/ o \in revoked

\* _evaluate_operation up to the search of a grant.
Open(o) ==
  /\ ~IsRevoked(o)
  /\ approval[o].status # "none" => approval[o].expires > clock
  /\ approval[o].status # "DENIED"

\* What a grant reaches.  A Work has one Operation, so WORK reaches no further
\* than ONCE.
Reaches(g, o) ==
  LET from == grant[g].of IN
  /\ Holder[from] = Holder[o]
  /\ CASE grant[g].scope \in {"ONCE", "WORK"} -> from = o
       [] grant[g].scope = "SESSION" -> /\ Session[o] # NoSession
                                        /\ Session[from] = Session[o]
                                        /\ Resource[from] = Resource[o]
       [] grant[g].scope = "RESOURCE" -> Resource[from] = Resource[o]
       [] grant[g].scope = "CAPABILITY" -> TRUE

InForce(g, o) == grant[g].expires > clock /\ g \notin revoked /\ Reaches(g, o)

\* _matching_grant, before admission and after it.  It takes the first row; the
\* order of the rows is not fixed.
Usable(g, o) == grant[g].status = "ACTIVE" /\ grant[g].remaining > 0 /\ InForce(g, o)
Consumed(g, o) ==
  grant[g].status \in {"ACTIVE", "EXHAUSTED"} /\ <<g, o>> \in consumed /\ InForce(g, o)

\* Mutant: what was admitted is not evaluated again.
AdmittedOnce(o) == TRUE

\* _evaluate_operation at the effect boundary.
Admitted(o) == Open(o) /\ (o \in AutoAllowed \/ \E g \in Grants : Consumed(g, o))

-----------------------------------------------------------------------------
(* Registration, approval, grants. *)

\* No transaction holds the writer lock.
Unlocked == writer = NoOne

\* An operation has one approval request, found again ever after.
RequestApproval(o) ==
  /\ Unlocked /\ approval[o].status = "none"
  /\ approval' = [approval EXCEPT ![o] = [status |-> "PENDING", expires |-> clock + Validity]]
  /\ UNCHANGED <<grant, revoked, consumed, process, writer, clock, begun>>

Insert(g, scope, o, approved, uses, expires) ==
  /\ grant[g].status = "none"
  /\ grant' = [grant EXCEPT ![g] =
       [status |-> "ACTIVE", scope |-> scope, of |-> o, approved |-> approved,
        max |-> uses, remaining |-> uses, expires |-> expires]]

\* The human's answer and the grant that comes with an approval.
Respond(o, approve) ==
  /\ Unlocked
  /\ approval[o].status = "PENDING" /\ approval[o].expires > clock /\ ~IsRevoked(o)
  /\ approval' = [approval EXCEPT ![o].status = IF approve THEN "APPROVED" ELSE "DENIED"]
  /\ IF approve THEN \E g \in Grants : Insert(g, "ONCE", o, TRUE, 1, approval[o].expires)
                ELSE UNCHANGED grant
  /\ UNCHANGED <<revoked, consumed, process, writer, clock, begun>>

IssueGrant(o, scope, uses, validity) ==
  /\ Unlocked /\ ~IsRevoked(o)
  /\ scope = "ONCE" => uses = 1
  /\ \E g \in Grants : Insert(g, scope, o, FALSE, uses, clock + validity)
  /\ UNCHANGED <<approval, revoked, consumed, process, writer, clock, begun>>

-----------------------------------------------------------------------------
(* Revocation and interruption. *)

Revoke(target) ==
  /\ revoked' = revoked \cup {target}
  /\ UNCHANGED <<approval, consumed, process, writer, clock, begun>>

\* revoke_operation_authority; a grant is also marked.
RevokeGrant(g) ==
  /\ Unlocked /\ grant[g].status # "none" /\ Revoke(g)
  /\ grant' = [grant EXCEPT ![g].status = "REVOKED"]

\* Mutant: the revocation of a resource does not wait for the writer lock.
RevokeResourceAtOnce(o) == Revoke(Resource[o]) /\ UNCHANGED grant

RevokeResource(o) ==
  /\ Unlocked /\ Revoke(Resource[o]) /\ UNCHANGED grant

Interrupt(o) ==
  /\ Unlocked /\ Revoke(o) /\ UNCHANGED grant

-----------------------------------------------------------------------------
(* Admission. *)

Become(p, at, o) == process' = [process EXCEPT ![p] = [at |-> at, operation |-> o]]

\* Mutant: one grant is not consumed twice for an operation, two are.
UnusedOf(g, o) == <<g, o>> \notin consumed
Unused(g, o) == \A h \in Grants : <<h, o>> \notin consumed

\* Mutant: the use is not written back to the grant.
ReserveGrantFree(p, o, g) ==
  /\ Usable(g, o) /\ Unused(g, o) /\ UNCHANGED grant
  /\ consumed' = consumed \cup {<<g, o>>}
  /\ Become(p, "reserved", o)

\* The first transaction, on a grant: one of its uses is consumed.
ReserveGrant(p, o, g) ==
  /\ Usable(g, o) /\ Unused(g, o)
  /\ LET left == grant[g].remaining - 1 IN
     grant' = [grant EXCEPT ![g].remaining = left,
                            ![g].status = IF left = 0 THEN "EXHAUSTED" ELSE "ACTIVE"]
  /\ consumed' = consumed \cup {<<g, o>>}
  /\ Become(p, "reserved", o)

\* On the gate's own policy nothing is consumed.
ReserveFree(p, o) ==
  /\ o \in AutoAllowed /\ \A g \in Grants : <<g, o>> \notin consumed
  /\ Become(p, "reserved", o)
  /\ UNCHANGED <<grant, consumed>>

Reserve(p, o) ==
  /\ Unlocked /\ process[p] = Idle
  /\ Open(o)
  /\ ReserveFree(p, o) \/ \E g \in Grants : ReserveGrant(p, o, g)
  /\ UNCHANGED <<approval, revoked, writer, clock, begun>>

\* The second transaction: evaluated again, the effect begins under the lock.
BeginEffect(p) ==
  LET o == process[p].operation IN
  /\ Unlocked /\ process[p].at = "reserved"
  /\ Admitted(o)
  /\ begun[o] < MaxEffects
  /\ writer' = p
  /\ Become(p, "effect", o)
  /\ begun' = [begun EXCEPT ![o] = @ + 1]
  /\ UNCHANGED <<approval, grant, revoked, consumed, clock>>

\* The process lets go: its effect ended, the second evaluation or a later
\* revalidation refused it, it waited too long for the lock, or it died.
LetGo(p) ==
  /\ process[p] # Idle
  /\ process' = [process EXCEPT ![p] = Idle]
  /\ writer' = IF writer = p THEN NoOne ELSE writer
  /\ UNCHANGED <<approval, grant, revoked, consumed, clock, begun>>

Tick ==
  /\ clock < LastTime /\ clock' = clock + 1
  /\ UNCHANGED <<approval, grant, revoked, consumed, process, writer, begun>>

Govern(o) ==
  \/ RequestApproval(o) \/ RevokeResource(o) \/ Interrupt(o)
  \/ \E approve \in BOOLEAN : Respond(o, approve)
  \/ \E scope \in Scopes, uses \in Uses, validity \in 1..Validity :
        IssueGrant(o, scope, uses, validity)

Act(p) == (\E o \in Operations : Reserve(p, o)) \/ BeginEffect(p) \/ LetGo(p)

Next ==
  \/ \E o \in Operations : Govern(o)
  \/ \E g \in Grants : RevokeGrant(g)
  \/ \E p \in Processes : Act(p)
  \/ Tick

Spec == Init /\ [][Next]_vars

-----------------------------------------------------------------------------
(* Properties. *)

\* An operation that needs a grant has its effect at most once, whatever
\* grants reach it, however often and by whom it is admitted again after a
\* death ("A crash never licenses replay", operation_gate.py).
EffectOnce == \A o \in Operations \ AutoAllowed : begun[o] <= 1

\* The uses of a grant add up over races and deaths: none is given twice.
UsesAddUp ==
  \A g \in Grants :
     grant[g].remaining + Cardinality({o \in Operations : <<g, o>> \in consumed}) = grant[g].max

\* "A second write transaction serializes effect admission with revocation"
\* (operation_gate.py): while an effect runs, nothing that covers it is
\* revoked, interrupted or denied.
EffectUnderAuthority ==
  \A p \in Processes : process[p].at = "effect" =>
     LET o == process[p].operation IN
     /\ ~IsRevoked(o) /\ approval[o].status # "DENIED"
     /\ o \notin AutoAllowed =>
          \E g \in Grants : <<g, o>> \in consumed /\ g \notin revoked

\* One approval gives one grant, and only an approval does.
ApprovedOnce ==
  /\ \A g, h \in Grants :
       grant[g].approved /\ grant[h].approved /\ grant[g].of = grant[h].of => g = h
  /\ \A g \in Grants : grant[g].approved => approval[grant[g].of].status = "APPROVED"

\* What a human denied, or what was interrupted, never has an effect after
\* that, whatever is granted later.
RefusedForGood ==
  [][\A o \in Operations :
        approval[o].status = "DENIED" \/ o \in revoked =>
          begun'[o] = begun[o] /\ (approval'[o].status = "DENIED" \/ o \in revoked')]_vars
=============================================================================
