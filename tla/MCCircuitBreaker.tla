-------------------------- MODULE MCCircuitBreaker --------------------------
(* Instances of CircuitBreaker for TLC. *)
EXTENDS CircuitBreaker, TLC

CONSTANTS p1, p2, p3

MCProcs == {p1, p2, p3}
MCAbandoners == {p3}
MCSymmetry == Permutations({p1, p2})
=============================================================================
