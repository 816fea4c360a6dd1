----------------------------- MODULE MCHandles -----------------------------
(* Handles for TLC: threads and open files are interchangeable. *)
EXTENDS Handles, TLC

MCSymmetry == Permutations(Threads) \cup Permutations(Handles)

============================================================================
