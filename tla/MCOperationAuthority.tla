----------------------- MODULE MCOperationAuthority -----------------------
(***************************************************************************)
(* OperationAuthority on two operations: an effect of an agent session on  *)
(* one resource, and a read of the same session that the policy allows.    *)
(***************************************************************************)
EXTENDS OperationAuthority, TLC

CONSTANTS set, read, plc, session, p1, p2, g1, g2

MCResource == [o \in Operations |-> plc]
MCSession == [o \in Operations |-> session]
MCHolder == [o \in Operations |-> "agent"]
Symmetry == Permutations(Processes) \cup Permutations(Grants)
=============================================================================
