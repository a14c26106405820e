----------------------------- MODULE MCDbMemEnv -----------------------------
(* Threads, paths and addresses are interchangeable: no action orders them. *)
EXTENDS DbMemEnv, TLC
Symmetry == Permutations(Buffers) \cup Permutations(Envs) \cup Permutations(Paths) \cup Permutations(Threads)
=============================================================================
