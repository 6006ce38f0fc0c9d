----------------------------- MODULE NodeLease -----------------------------
(***************************************************************************)
(* The resource leases of one node: NodeRuntimeService.acquire_lease and   *)
(* release_lease (nous_runtime/node_runtime/service.py).                   *)
(*                                                                         *)
(* Leases live in one file, the counter that numbers them in another.  A   *)
(* section of the lock rereads the leases, may write them without those    *)
(* that expired, advances the counter, and writes the new lease: up to     *)
(* three publications, each of which can succeed, fail before its rename,  *)
(* or take effect and still raise.  A raise ends the section and a death   *)
(* between two publications leaves what a lost one leaves, so a section is *)
(* one step.  The wall clock is read before the lock is taken.             *)
(***************************************************************************)
EXTENDS Naturals

CONSTANTS
  Leases,     \* lease identities
  Resources,  \* resource labels of the node
  Threads,    \* threads of the process that may call the service
  TTLs,       \* lifetimes callers ask for
  MaxClock,   \* model bound on the clock
  MaxToken    \* model bound on the counter

ASSUME LeaseAssumption ==
  /\ TTLs \subseteq Nat \ {0}
  /\ MaxClock \in Nat /\ MaxToken \in Nat

NoLease == [resource |-> "none", token |-> 0, expires |-> 0]
NoCall  == [lease |-> "none"]

Records == [resource : Resources, token : Nat \ {0}, expires : Nat]
Stored  == [Leases -> Records \cup {NoLease}]
Calls   == [lease : Leases, resource : Resources, ttl : TTLs, now : Nat]
Grants  == [lease : Leases, record : Records]
Nothing == [l \in Leases |-> NoLease]

\* What publishing a file can do: take effect and return, take effect and
\* raise, or raise before the rename.
Writes == {"ok", "lost", "failed"}

VARIABLES
  clock,    \* time.time()
  present,  \* whether leases_path exists
  file,     \* leases_path: the durable leases
  cache,    \* _leases: the leases in memory
  counter,  \* lease_counter_path
  waiting,  \* acquisitions that have read the clock and want the lock
  told,     \* every grant returned to a caller so far
  held,     \* those whose callers have not asked for their release
  steady    \* whether the clock has only advanced and the file has stayed

vars == <<clock, present, file, cache, counter, waiting, told, held, steady>>

TypeOK ==
  /\ clock \in Nat /\ present \in BOOLEAN
  /\ counter \in Nat
  /\ file \in Stored /\ \A l \in Leases : file[l].token <= counter
  /\ cache \in Stored
  /\ waiting \in [Threads -> Calls \cup {NoCall}]
  /\ told \subseteq Grants /\ held \subseteq told
  /\ steady \in BOOLEAN

Init ==
  /\ clock = 0 /\ present = FALSE
  /\ file = Nothing /\ cache = Nothing
  /\ counter = 0
  /\ waiting = [t \in Threads |-> NoCall]
  /\ told = {} /\ held = {} /\ steady = TRUE

-----------------------------------------------------------------------------
(* The files and the memory. *)

\* _refresh_leases raises when memory knows a lease and there is no file.
Refreshable == present \/ cache = Nothing

Expired(l, now) == file[l] # NoLease /\ file[l].expires <= now

\* The leases that _expire_leases leaves.
Kept(now) == [l \in Leases |-> IF Expired(l, now) THEN NoLease ELSE file[l]]

\* _atomic_write_json of staged over base, then the assignment of memory,
\* which is skipped when the write raises.
Publish(base, staged, write) ==
  /\ file' = IF write = "failed" THEN base ELSE staged
  /\ cache' = IF write = "ok" THEN staged ELSE base
  /\ present' = (present \/ write # "failed")

\* The section ends without a lease of its own: base is in file and memory.
Settle(base) == file' = base /\ cache' = base /\ UNCHANGED present

\* Mutant: numbers continue from the leases on file.
NextOnFile == 1 + CHOOSE n \in 0..MaxToken :
                    /\ \A l \in Leases : file[l].token <= n
                    /\ n = 0 \/ \E l \in Leases : file[l].token = n

\* _next_fencing_token, before it is published.
NextToken == counter + 1

Tell(l, rec) ==
  LET grant == [lease |-> l, record |-> rec] IN
  /\ told' = told \cup {grant}
  /\ held' = held \cup {grant}

-----------------------------------------------------------------------------
(* acquire_lease *)

\* The clock is read; the lock is not yet taken.
Call(t, l, r, ttl) ==
  /\ waiting[t] = NoCall
  /\ waiting' = [waiting EXCEPT ![t] =
                   [lease |-> l, resource |-> r, ttl |-> ttl, now |-> clock]]
  /\ UNCHANGED <<clock, present, file, cache, counter, told, held, steady>>

\* The lock is taken by a waiting call, which leaves it by return or raise.
Enter(t) ==
  /\ waiting[t] # NoCall /\ Refreshable
  /\ waiting' = [waiting EXCEPT ![t] = NoCall]

\* Publishing the leases without the expired ones raises.
AcquireUnexpired(t, write) ==
  LET now == waiting[t].now IN
  /\ Enter(t)
  /\ write # "ok" /\ \E l \in Leases : Expired(l, now)
  /\ Publish(file, Kept(now), write)
  /\ UNCHANGED <<clock, counter, told, held, steady>>

\* Mutant: a repeated acquisition is answered with a renewed end that is not
\* written.
AcquireRenewed(t) ==
  LET call == waiting[t]
      kept == Kept(call.now) IN
  /\ Enter(t)
  /\ kept[call.lease] # NoLease /\ kept[call.lease].resource = call.resource
  /\ Settle(kept)
  /\ Tell(call.lease, [kept[call.lease] EXCEPT !.expires = call.now + call.ttl])
  /\ UNCHANGED <<clock, counter, steady>>

\* A repeated acquisition is answered with the lease on file.
AcquireAgain(t) ==
  LET call == waiting[t]
      kept == Kept(call.now) IN
  /\ Enter(t)
  /\ kept[call.lease] # NoLease /\ kept[call.lease].resource = call.resource
  /\ Settle(kept)
  /\ Tell(call.lease, kept[call.lease])
  /\ UNCHANGED <<clock, counter, steady>>

\* Refused: the identity holds another resource, or the resource is leased.
AcquireRefused(t) ==
  LET call == waiting[t]
      kept == Kept(call.now) IN
  /\ Enter(t)
  /\ IF kept[call.lease] # NoLease
     THEN kept[call.lease].resource # call.resource
     ELSE \E l \in Leases : kept[l].resource = call.resource
  /\ Settle(kept)
  /\ UNCHANGED <<clock, counter, told, held, steady>>

\* A new lease: the counter is published, then the leases with the new one,
\* whose lifetime starts at the clock read before the lock.
AcquireNew(t, counting, write) ==
  LET call == waiting[t]
      kept == Kept(call.now)
      rec  == [resource |-> call.resource, token |-> NextToken,
               expires |-> call.now + call.ttl] IN
  /\ Enter(t) /\ counter < MaxToken
  /\ kept[call.lease] = NoLease
  /\ \A l \in Leases : kept[l].resource # call.resource
  /\ counter' = IF counting = "failed" THEN counter ELSE NextToken
  /\ IF counting = "ok"
     THEN Publish(kept, [kept EXCEPT ![call.lease] = rec], write)
     ELSE write = "failed" /\ Settle(kept)
  /\ IF counting = "ok" /\ write = "ok" THEN Tell(call.lease, rec)
                                        ELSE UNCHANGED <<told, held>>
  /\ UNCHANGED <<clock, steady>>

-----------------------------------------------------------------------------
(* release_lease: its caller gives up whatever the identity held of r. *)

GiveUp(l, r) ==
  held' = {g \in held : ~(g.lease = l /\ g.record.resource = r)}

Release(l, r, write) ==
  /\ Refreshable
  /\ file[l] # NoLease /\ file[l].resource = r
  /\ Publish(file, [file EXCEPT ![l] = NoLease], write)
  /\ GiveUp(l, r)
  /\ UNCHANGED <<clock, counter, waiting, told, steady>>

\* There is no such lease, or it is one of another resource (a raise).
ReleaseNothing(l, r) ==
  /\ Refreshable
  /\ file[l] = NoLease \/ file[l].resource # r
  /\ Settle(file)
  /\ GiveUp(l, r)
  /\ UNCHANGED <<clock, counter, waiting, told, steady>>

-----------------------------------------------------------------------------
(* The surroundings. *)

Tick ==
  /\ clock < MaxClock /\ clock' = clock + 1
  /\ UNCHANGED <<present, file, cache, counter, waiting, told, held, steady>>

TurnBack ==
  /\ \E c \in 0..MaxClock : c < clock /\ clock' = c
  /\ steady' = FALSE
  /\ UNCHANGED <<present, file, cache, counter, waiting, told, held>>

\* The leases file disappears.
LoseFile ==
  /\ present
  /\ present' = FALSE /\ file' = Nothing
  /\ steady' = FALSE
  /\ UNCHANGED <<clock, cache, counter, waiting, told, held>>

\* The process dies anywhere and is started again: memory is loaded from the
\* file by the constructor, waiting calls are gone.
Restart ==
  /\ cache' = file
  /\ waiting' = [t \in Threads |-> NoCall]
  /\ UNCHANGED <<clock, present, file, counter, told, held, steady>>

Acquire(t) ==
  \/ \E l \in Leases, r \in Resources, ttl \in TTLs : Call(t, l, r, ttl)
  \/ \E write \in Writes : AcquireUnexpired(t, write)
  \/ AcquireAgain(t)
  \/ AcquireRefused(t)
  \/ \E counting, write \in Writes : AcquireNew(t, counting, write)

Next ==
  \/ \E t \in Threads : Acquire(t)
  \/ \E l \in Leases, r \in Resources : \/ \E write \in Writes : Release(l, r, write)
                                        \/ ReleaseNothing(l, r)
  \/ Tick \/ TurnBack \/ LoseFile \/ Restart

Spec == Init /\ [][Next]_vars

-----------------------------------------------------------------------------
(* Properties. *)

\* While the clock has only advanced and the file stayed, two callers never both
\* hold an unexpired, unreleased lease of one resource, whatever writes were
\* lost, however long a call waited for the lock, and across restarts.
OneLiveGrant ==
  steady => \A g, h \in held :
     /\ g.record.resource = h.record.resource
     /\ clock < g.record.expires /\ clock < h.record.expires
     => g = h

\* "Lease publication never reuses a consumed fencing token"
\* (ENGINEERING_REVIEW.md): a number told to one caller is told to no other,
\* for the same resource or another one, even if the clock is set back, the
\* file of leases is lost, or the lease it numbered was never published.
TokensUnique ==
  \A g, h \in told : g.record.token = h.record.token => g = h

\* Whoever is told of a resource later has the larger number: a grant that
\* comes new to its callers outnumbers all that were told of its resource.
FencingOrder ==
  [][\A g \in told' \ told, h \in told :
        g.record.resource = h.record.resource => h.record.token < g.record.token]_vars

\* What the holders may rely on: nothing once the clock was set back or the file
\* was lost.
InForce == IF steady THEN {g \in held : clock < g.record.expires} ELSE {}
Fence == INSTANCE FencedGrants WITH live <- InForce

\* The leases of a node are the mutual exclusion with fencing of FencedGrants: a
\* grant comes into force only where none is and above all numbers told of its
\* resource, whatever writes were lost, calls waited, processes died or
\* acquisitions were repeated; so the one in force passes every fence and those
\* that ended do not (service.py acquire_lease, release_lease).
KeepsFence == Fence!FenceSpec
=============================================================================
