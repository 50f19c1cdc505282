---------------------------- MODULE MCWildMatch ----------------------------
(* Constants of the model-checking runs of WildMatch. *)
EXTENDS WildMatch

CONSTANTS a, b, star, nul
=============================================================================
