----------------------------- MODULE Namespace -----------------------------
(***************************************************************************)
(* What a mount promises: a tree of files that belongs to the user.  It     *)
(* starts as the tree of the selected commit; every operation changes just  *)
(* what it names; and when HEAD moves to another commit the paths the user  *)
(* has work on keep it and all others take over the new commit.            *)
(***************************************************************************)
EXTENDS Sequences, SequencesExt

CONSTANTS
    Paths,    \* the paths: non-empty sequences of names, closed under prefixes
    Node,     \* files, symbolic links and directories
    Dir,      \* the directory among them
    Absent    \* no such path

VARIABLES
    base,     \* the tree of the commit HEAD names
    tree,     \* the tree the user sees
    touched,  \* the paths the user has work on
    done      \* the operation that was done last

vars == <<base, tree, touched, done>>

Above(p) == {SubSeq(p, 1, n) : n \in 1 .. Len(p) - 1}
Under(p) == {r \in Paths : IsPrefix(p, r)}

Tree == [Paths -> Node \cup {Absent}]

(* Where r ends up when p becomes q. *)
Rebase(r, p, q) == q \o SubSeq(r, Len(p) + 1, Len(r))

Init == base \in Tree /\ tree = base /\ touched = {} /\ done = <<"mount">>

(* A file, a link or a directory is made, written or given another mode. *)
Put(p, n) == done' = <<"put", p, n>> /\ tree' = [tree EXCEPT ![p] = n] /\ UNCHANGED base

Erase(p) == done' = <<"remove", p>> /\ tree' = [tree EXCEPT ![p] = Absent] /\ UNCHANGED base

(* What was p, with all that is in it, becomes q. *)
Move(p, q) ==
    /\ done' = <<"move", p, q>>
    /\ p # q /\ tree[p] # Absent
    /\ tree' = [r \in Paths |->
                  IF r \in Under(q)
                  THEN LET s == Rebase(r, q, p) IN IF s \in Paths THEN tree[s] ELSE Absent
                  ELSE IF r \in Under(p) THEN Absent ELSE tree[r]]
    /\ UNCHANGED base

(* What makes the tree of the user differ from the commit. *)
Work == {p \in touched : tree[p] # base[p]}

(* HEAD names another commit. *)
Checkout ==
    /\ done' = <<"checkout">>
    /\ base' \in Tree
    /\ LET laid == [p \in Paths |-> IF p \in Work \cup touched' THEN tree[p] ELSE base'[p]]
       IN tree' = [p \in Paths |-> IF \A d \in Above(p) : laid[d] = Dir
                                   THEN laid[p] ELSE Absent]
    /\ touched' \subseteq touched

(* An operation that fails, or concerns attributes that are not modelled. *)
Nothing == done' = <<"nothing">> /\ UNCHANGED <<base, tree>>

(* Only work of the user makes the tree differ from the commit. *)
Accounted == \A p \in Paths : tree'[p] # base'[p] => \E d \in Above(p) \cup {p} : d \in touched'

Next ==
    /\ Accounted
    /\ \/ \E p \in Paths, n \in Node : Put(p, n)
       \/ \E p \in Paths : Erase(p)
       \/ \E p, q \in Paths : Move(p, q)
       \/ Checkout
       \/ Nothing

Spec == Init /\ [][Next]_vars
=============================================================================
