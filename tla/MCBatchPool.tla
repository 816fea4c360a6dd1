---------------------------- MODULE MCBatchPool ----------------------------
(* Symmetry for the safety check of BatchPool. *)
EXTENDS BatchPool, TLC

Symmetry == Permutations(Procs) \cup Permutations(Ops) \cup Permutations(Pools)
=============================================================================
