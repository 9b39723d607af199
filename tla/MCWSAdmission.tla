--------------------------- MODULE MCWSAdmission ---------------------------
(* Instances of WSAdmission for TLC: the clients are model values. *)
EXTENDS WSAdmission
=============================================================================
