------------------------- MODULE MCRelayDelivery -------------------------
(***************************************************************************)
(* RelayDelivery with the works and leases that a run chooses.             *)
(***************************************************************************)
EXTENDS RelayDelivery
=============================================================================
