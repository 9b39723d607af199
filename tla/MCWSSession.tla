---------------------------- MODULE MCWSSession ----------------------------
(* Instances of WSSession for TLC; all parameters are numbers. *)
EXTENDS WSSession
=============================================================================
