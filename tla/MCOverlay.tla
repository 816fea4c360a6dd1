----------------------------- MODULE MCOverlay -----------------------------
(* Small trees for the checks of Overlay: two directories that may hold one   *)
(* file each, and files next to them.                                        *)
EXTENDS Overlay

MCPaths == {<<"f">>, <<"g">>, <<"d">>, <<"d", "x">>, <<"e">>, <<"e", "x">>}

File(c) == [type |-> "file", oid |-> c, mode |-> "rw"]
Link(c) == [type |-> "symlink", oid |-> c, mode |-> "link"]
Empty   == [p \in MCPaths |-> Absent]

First  == [Empty EXCEPT ![<<"f">>] = File("c1"), ![<<"g">>] = Link("c2"),
                        ![<<"d">>] = Dir, ![<<"d", "x">>] = File("c1")]
Second == [Empty EXCEPT ![<<"f">>] = File("c2"), ![<<"d">>] = Dir, ![<<"d", "x">>] = File("c1"),
                        ![<<"e">>] = Dir, ![<<"e", "x">>] = File("c1")]
MCTrees == {First, Second}
=============================================================================
