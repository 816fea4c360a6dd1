------------------------------ MODULE MCSource ------------------------------
(* Source on small instances: two paths, which are alike, and bounds that let *)
(* a repository with a required commit be acquired, fetched into and fetched  *)
(* into again.                                                               *)
EXTENDS Source, TLC

MCEdits    == [k \in Kinds |-> IF k = "fixed" THEN 2 ELSE 3]
MCAttempts == [k \in Kinds |-> IF k = "fixed" THEN 3 ELSE 4]

Alike == Permutations(Paths)

=============================================================================
