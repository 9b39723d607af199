---------------------------- MODULE MCRTPManager ----------------------------
(* Instances of RTPManager for TLC. *)
EXTENDS RTPManager, TLC

CONSTANTS p1, p2, c1

MCProcs == {p1, p2}
MCCalls == {c1}
MCAddress == [e \in Engines |-> e]
MCSymmetry == Permutations(MCProcs)
=============================================================================
