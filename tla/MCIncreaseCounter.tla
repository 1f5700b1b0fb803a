-------------------------- MODULE MCIncreaseCounter --------------------------
(* Model checking of IncreaseCounter: model values for the adders.          *)
EXTENDS IncreaseCounter, TLC

Symmetry == Permutations(Adders)
==============================================================================
