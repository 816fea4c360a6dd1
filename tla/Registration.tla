--------------------------- MODULE Registration ----------------------------
(***************************************************************************)
(* What registering a repository promises.  Every add and every prepare     *)
(* makes a new configuration; what is found out about it is a result of     *)
(* that configuration alone; and a mount serves files only of a             *)
(* configuration that became usable, never of two in turn without being     *)
(* withdrawn in between.                                                   *)
(***************************************************************************)
EXTENDS Naturals

VARIABLES
    config,   \* the configuration in force; 0: none
    result,   \* what is known of it: "none", "pending", "usable", "failed"
    usable,   \* the configurations that became usable
    served    \* the configuration whose files are served; 0: none

vars == <<config, result, usable, served>>

Init == config = 0 /\ result = "none" /\ usable = {} /\ served = 0

(* add-repo and prepare: a configuration nobody has seen before. *)
Configure ==
    /\ config' \in Nat \ ({0, config} \cup usable) /\ result' = "pending"
    /\ UNCHANGED <<usable, served>>

Remove == config' = 0 /\ result' = "none" /\ UNCHANGED <<usable, served>>

(* Also after a failure: a second attempt at the same configuration.       *)
Succeed ==
    /\ result \in {"pending", "failed"} /\ result' = "usable" /\ usable' = usable \cup {config}
    /\ UNCHANGED <<config, served>>

(* Also of a usable configuration, unless its files are served already. *)
Fail ==
    /\ result = "pending" \/ (result = "usable" /\ served # config)
    /\ result' = "failed" /\ UNCHANGED <<config, usable, served>>

(* The configuration may have been replaced already. *)
Serve == served = 0 /\ served' \in usable /\ UNCHANGED <<config, result, usable>>

Withdraw == served # 0 /\ served' = 0 /\ UNCHANGED <<config, result, usable>>

Next == Configure \/ Remove \/ Succeed \/ Fail \/ Serve \/ Withdraw

Spec == Init /\ [][Next]_vars
=============================================================================
