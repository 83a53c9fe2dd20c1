-------------------------- MODULE MCPlateRegistry --------------------------
(* The registry; plate numbers and worker threads are interchangeable. *)
EXTENDS PlateRegistry, TLC

Symmetry == Permutations(Number) \cup Permutations(Thread)
=============================================================================
