---------------------------- MODULE MCRateLimit ----------------------------
(* Symmetry for the model-checking run of RateLimit. *)
EXTENDS RateLimit, TLC

Symmetry == Permutations(Request)
=============================================================================
