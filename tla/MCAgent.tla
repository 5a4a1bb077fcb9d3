------------------------------ MODULE MCAgent ------------------------------
(* Instances of the agent: the pool is a symmetric set of model values. *)
EXTENDS Agent, TLC

Symmetry == Permutations(Workers)
=============================================================================
