-------------------------- MODULE MCThreadFunctions --------------------------
(* Model checking of ThreadFunctions: model values for the threads.         *)
EXTENDS ThreadFunctions, TLC

Symmetry == Permutations(Adders) \cup Permutations(Consumers)
==============================================================================
