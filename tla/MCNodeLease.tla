--------------------------- MODULE MCNodeLease ---------------------------
(***************************************************************************)
(* NodeLease with identities, resources and threads that differ in nothing *)
(* but their names.                                                        *)
(***************************************************************************)
EXTENDS NodeLease, TLC

Symmetry == Permutations(Leases) \cup Permutations(Resources) \cup Permutations(Threads)
=============================================================================
