---------------------------- MODULE MCCondBuffer -----------------------------
(* Model checking of CondBuffer: model values for the threads.              *)
EXTENDS CondBuffer, TLC

Symmetry == Permutations(Consumers)
==============================================================================
