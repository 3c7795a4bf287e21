--------------------------- MODULE MCEcsAllocator ---------------------------
(* Model-checking instance of EcsAllocator: interchangeable runs.           *)
EXTENDS EcsAllocator, TLC

Symmetry == Permutations(Runs)
=============================================================================
