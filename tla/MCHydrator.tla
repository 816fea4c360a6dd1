----------------------------- MODULE MCHydrator -----------------------------
(* Symmetry for the checks of Hydrator that look at safety only. *)
EXTENDS Hydrator, TLC

Symmetry == Permutations(Keys) \cup Permutations(Openers) \cup Permutations(Readers)
              \cup Permutations(Workers) \cup Permutations(Verifiers)
              \cup Permutations(FileIds)
=============================================================================
