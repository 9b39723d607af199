--------------------------- MODULE MCCoordinator ---------------------------
(* Instances of Coordinator for TLC. *)
EXTENDS Coordinator, TLC

CONSTANTS i1, i2

MCInstances == {i1, i2}
MCSymmetry == Permutations(MCInstances)
=============================================================================
