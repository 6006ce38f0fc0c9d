-------------------------- MODULE MCNodeJournal --------------------------
(***************************************************************************)
(* NodeJournal on two identities.  The first is only asked for with        *)
(* at-most-once delivery, under two bindings; the second also idempotently *)
(* and for a capability the node does not have.                            *)
(***************************************************************************)
EXTENDS NodeJournal

CONSTANTS effect, mixed

MCWorks       == {effect, mixed}
MCBodies      == {"echo", "firmware", "unknown"}
MCUnavailable == {"unknown"}
MCProtected   == {"firmware"}

Ask(semantics, body) == [semantics |-> semantics, body |-> body]

MCAsked ==
  [w \in MCWorks |->
     IF w = effect
     THEN {Ask("at_most_once", "firmware"), Ask("at_most_once", "echo")}
     ELSE {Ask("idempotent", "echo"), Ask("idempotent", "firmware"),
           Ask("at_most_once", "unknown")}]
=============================================================================
