---------------------------- MODULE MCRTPEngine ----------------------------
(* Instances of RTPEngine for TLC: callers and cookies are model values    *)
(* that only equality tells apart.                                         *)
EXTENDS RTPEngine, TLC

Symmetry == Permutations(Callers) \cup Permutations(Cookies)
=============================================================================
