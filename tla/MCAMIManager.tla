--------------------------- MODULE MCAMIManager ----------------------------
(* Instances of AMIManager for TLC. *)
EXTENDS AMIManager
=============================================================================
