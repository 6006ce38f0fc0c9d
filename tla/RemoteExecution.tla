-------------------------- MODULE RemoteExecution --------------------------
(***************************************************************************)
(* What a relay with a node at its other end promises to the processes     *)
(* that leave requests in its spool: a work is run because it was asked    *)
(* for, its effect happens at most once and not after a result is kept,    *)
(* the first result is kept for good and is true of the effect, and a      *)
(* request disappears when there is a result, or by a rejection, which may *)
(* come although the work was queued.  ControllerWork relies on it and     *)
(* RelayDelivery keeps it.                                                 *)
(***************************************************************************)

CONSTANTS
  Works,     \* works delivered at-most-once
  Effectful  \* those whose effect is followed

VARIABLES
  spool,    \* works with a request in the spool
  started,  \* works the node was, or will be, asked about
  applied,  \* works whose effect may have happened
  result    \* the result kept of each work

remoteVars == <<spool, started, applied, result>>

RemoteResults == {"COMPLETED", "FAILED", "RECOVERY_REQUIRED", "CANCELLED"}

RemoteInit ==
  /\ spool \subseteq Works
  /\ started = {} /\ applied = {}
  /\ result = [w \in Works |-> "none"]

\* A process leaves a request, maybe again.
Request(w) ==
  /\ spool' = spool \cup {w}
  /\ UNCHANGED <<started, applied, result>>

Queue(w) ==
  /\ w \in spool /\ w \notin started /\ result[w] = "none"
  /\ started' = started \cup {w}
  /\ UNCHANGED <<spool, applied, result>>

Apply(w) ==
  /\ w \in (Effectful \cap started) \ applied /\ result[w] = "none"
  /\ applied' = applied \cup {w}
  /\ UNCHANGED <<spool, started, result>>

\* The request may go with the result or later.
Keep(w, r) ==
  /\ w \in started /\ result[w] = "none"
  /\ r = "COMPLETED" /\ w \in Effectful => w \in applied
  /\ r = "CANCELLED" => w \notin applied
  /\ result' = [result EXCEPT ![w] = r]
  /\ spool' \in {spool, spool \ {w}}
  /\ UNCHANGED <<started, applied>>

Retire(w) ==
  /\ w \in spool /\ result[w] # "none"
  /\ spool' = spool \ {w}
  /\ UNCHANGED <<started, applied, result>>

Reject(rejected) ==
  /\ \A w \in rejected : result[w] = "none"
  /\ spool' = spool \ rejected
  /\ UNCHANGED <<started, applied, result>>

RemoteNext ==
  \/ \E w \in Works :
       \/ Request(w) \/ Queue(w) \/ Apply(w) \/ Retire(w)
       \/ \E r \in RemoteResults : Keep(w, r)
  \/ \E rejected \in SUBSET spool : Reject(rejected)

RemoteSpec == RemoteInit /\ [][RemoteNext]_remoteVars
=============================================================================
