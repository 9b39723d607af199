---------------------------- MODULE MCAMIClient ----------------------------
(* Instances of AMIClient for TLC. *)
EXTENDS AMIClient, TLC

CONSTANTS p1, p2

MCProcs == {p1, p2}
MCSymmetry == Permutations(MCProcs)
=============================================================================
