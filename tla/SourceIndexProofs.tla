------------------------- MODULE SourceIndexProofs --------------------------
(* What is staged after a preparation and why one is refused, for any number  *)
(* of paths, pushes, steps of the user, attempts and failures, outside of the *)
(* windows of AnyTime.                                                       *)
EXTENDS SourceProofs

Here    == TreeOf(HEAD)
Tip     == TreeOf(upstream)
OldTree == TreeOf(a.old)

(* What HEAD was when the index was moved, and will be when all is rolled back. *)
BackTree == TreeOf(IF pc \in {"head", "unref"} /\ dir.head = "main" THEN a.expected ELSE HEAD)

Moving == {"refs", "head", "unref", "unmerge"}

-----------------------------------------------------------------------------
(* Facts *)

(* Commits keep their trees and histories. *)
LEMMA TreesStay ==
    ASSUME TypeOK, [Next]_vars
    PROVE  /\ \A c \in Commits : TreeOf(c)' = TreeOf(c) /\ Past(c)' = Past(c)
           /\ Commits \subseteq Commits' /\ Dirs \subseteq Dirs'
<1> DEFINE Stay == /\ \A c \in Commits : TreeOf(c)' = TreeOf(c) /\ Past(c)' = Past(c)
                   /\ Commits \subseteq Commits' /\ Dirs \subseteq Dirs'
<1>0. Objects /\ upstream \in Commits /\ HEAD \in Commits /\ dir.index \in Trees
  BY DirFields DEF TypeOK, HEAD
<1>1. ASSUME UNCHANGED objects PROVE Stay
  BY <1>1 DEF TreeOf, Past, Commits, Dirs
<1>2. ASSUME NEW c \in Commits, NEW t \in Trees,
             objects' = Append(objects, [past |-> Past(c) \cup {Len(objects) + 1}, tree |-> t])
      PROVE  Stay
  <2> DEFINE o == [past |-> Past(c) \cup {Len(objects) + 1}, tree |-> t]
  <2>1. o \in Object /\ Len(objects) + 1 \in o.past /\ o.past \subseteq 1 .. Len(objects) + 1
    BY <1>0, CommitFacts, NewObject
  <2>2. objects' = Append(objects, o)
    BY <1>2
  <2> HIDE DEF o
  <2>3. /\ Commits \subseteq Commits' /\ Dirs \subseteq Dirs'
        /\ \A i \in 1 .. Len(objects) : objects'[i] = objects[i]
    BY <1>0, <2>1, <2>2, NewCommit
  <2>4. \A i \in Commits : i = 0 \/ i \in 1 .. Len(objects)
    BY <1>0 DEF Commits, Objects
  <2> QED
    BY <2>3, <2>4 DEF TreeOf, Past
<1>3. CASE Push
  BY <1>0, <1>2, <1>3, PushedTree DEF Push
<1>4. CASE Commit
  BY <1>0, <1>2, <1>4 DEF Commit, UserDoes
<1>5. CASE ~Push /\ ~Commit
  BY <1>1, <1>5 DEF Next, vars, Require, Stage, Switch, UserDoes, Begin, Retries, StepFails, Crash, Clone,
     Rename, Fetch, Resolve, Expect, MergeIndex, MoveRef, MoveRefFails, MoveHead, MoveHeadFails, RestoreRef,
     RestoreIndex, Receipt, Acquire, Install, Swap, SwapFails, Record, FetchDone, To, Ends
<1> QED
  BY <1>3, <1>4, <1>5

(* The commits and trees that a state talks about. *)
LEMMA StateFacts ==
    ASSUME TypeOK
    PROVE  /\ HEAD \in Commits /\ upstream \in Commits /\ a.oid \in Commits /\ a.old \in Commits
           /\ a.expected \in Commits /\ 0 \in Commits /\ a.dead \in BOOLEAN
           /\ dir.refs \in [Refs -> Commits] /\ dir.head \in Refs /\ dir.there \in BOOLEAN
           /\ dir.tracking \in Commits /\ dir.got \in Commits
           /\ \A r \in Refs : dir.refs[r] \in Commits
           /\ dir.index \in Trees
           /\ \A c \in Commits : TreeOf(c) \in Trees
           /\ dir = [there |-> dir.there, refs |-> dir.refs, head |-> dir.head, tracking |-> dir.tracking,
                     index |-> dir.index, got |-> dir.got]
           /\ a.want \in Commits
           /\ a = [want |-> a.want, read |-> a.read, oid |-> a.oid, old |-> a.old, expected |-> a.expected,
                   tries |-> a.tries, dead |-> a.dead]
           /\ "main" \in Refs /\ "HEAD" \in Refs
<1>1. dir \in Dirs /\ a \in Attempts /\ Objects /\ upstream \in Commits /\ 0 \in Commits
  BY DEF TypeOK, Objects, Commits
<1>2. /\ a.oid \in Commits /\ a.old \in Commits /\ a.expected \in Commits /\ a.dead \in BOOLEAN
      /\ a.want \in Commits
      /\ a = [want |-> a.want, read |-> a.read, oid |-> a.oid, old |-> a.old, expected |-> a.expected,
              tries |-> a.tries, dead |-> a.dead]
  BY <1>1 DEF Attempts
<1>3. dir = [there |-> dir.there, refs |-> dir.refs, head |-> dir.head, tracking |-> dir.tracking,
             index |-> dir.index, got |-> dir.got]
  BY <1>1 DEF Dirs
<1> QED
  BY <1>1, <1>2, <1>3, DirFields, CommitFacts, RefNames DEF HEAD

(* The user commits what is in the index, and it is of HEAD then. *)
LEMMA CommitEffect ==
    ASSUME TypeOK, Commit
    PROVE  /\ dir.there /\ dir'.there /\ dir'.index = dir.index /\ dir'.head = dir.head
           /\ dir'.tracking = dir.tracking /\ dir'.got = dir.got
           /\ dir'.refs = [dir.refs EXCEPT ![dir.head] = Len(objects) + 1]
           /\ Here' = dir.index
           /\ result' = "none"
           /\ UNCHANGED <<kind, upstream, required, receipt, candidate, backup, pc, a>>
<1> USE StateFacts
<1>1. /\ objects' = Append(objects, [past |-> Past(HEAD) \cup {Len(objects) + 1}, tree |-> dir.index])
      /\ dir' = [dir EXCEPT !.refs[dir.head] = Len(objects) + 1]
      /\ dir.there /\ result' = "none"
      /\ UNCHANGED <<kind, upstream, required, receipt, candidate, backup, pc, a>>
  BY DEF Commit, UserDoes
<1>2. /\ dir'.there = dir.there /\ dir'.index = dir.index /\ dir'.head = dir.head
      /\ dir'.tracking = dir.tracking /\ dir'.got = dir.got
      /\ dir'.refs = [dir.refs EXCEPT ![dir.head] = Len(objects) + 1]
  BY <1>1
<1>3. Len(objects) \in Nat /\ objects \in Seq(Object)
  BY DEF TypeOK, Objects
<1>5. Here' = dir.index
  <2>1. HEAD' = Len(objects) + 1
    BY <1>2 DEF HEAD
  <2> QED
    BY <1>3, <1>1, <2>1 DEF Here, TreeOf
<1> QED
  BY <1>1, <1>2, <1>5

(* Checkout of a branch takes its tree to the index. *)
LEMMA SwitchEffect ==
    ASSUME TypeOK, NEW b \in Branches, Switch(b)
    PROVE  /\ dir.there /\ dir'.there /\ dir'.head = b /\ Here' = dir'.index
           /\ dir'.tracking = dir.tracking /\ dir'.got = dir.got
           /\ \E c \in Commits : /\ c # 0 /\ dir'.refs = [dir.refs EXCEPT ![b] = c] /\ dir'.index = TreeOf(c)
                                 /\ \E r \in Refs : c = dir.refs[r]
           /\ result' = "none"
           /\ UNCHANGED <<kind, objects, upstream, required, receipt, candidate, backup, pc, a>>
<1> USE StateFacts
<1> DEFINE c == IF dir.refs[b] = 0 THEN HEAD ELSE dir.refs[b]
<1>1. b \in Refs
  BY RefNames
<1>2. c \in Commits /\ c # 0 /\ \E r \in Refs : c = dir.refs[r]
  BY <1>1 DEF Switch, HEAD
<1>3. /\ dir' = [dir EXCEPT !.head = b, !.refs[b] = c, !.index = TreeOf(c)]
      /\ dir.there /\ result' = "none"
      /\ UNCHANGED <<kind, objects, upstream, required, receipt, candidate, backup, pc, a>>
  BY DEF Switch, UserDoes
<1> HIDE DEF c
<1>4. /\ dir'.there = dir.there /\ dir'.index = TreeOf(c) /\ dir'.head = b
      /\ dir'.tracking = dir.tracking /\ dir'.got = dir.got
      /\ dir'.refs = [dir.refs EXCEPT ![b] = c]
  BY <1>3
<1>5. HEAD' = c
  BY <1>1, <1>4 DEF HEAD
<1>6. Here' = dir'.index
  BY <1>3, <1>4, <1>5 DEF Here, TreeOf
<1> QED
  BY <1>2, <1>3, <1>4, <1>6

(* git add *)
LEMMA StageEffect ==
    ASSUME TypeOK, NEW q \in Paths, Stage(q)
    PROVE  /\ dir.there /\ dir'.there /\ dir'.refs = dir.refs /\ dir'.head = dir.head
           /\ dir'.tracking = dir.tracking /\ dir'.got = dir.got
           /\ dir'.index = [dir.index EXCEPT ![q] = Mine] /\ result' = "none"
           /\ UNCHANGED <<kind, objects, upstream, required, receipt, candidate, backup, pc, a>>
<1>1. /\ dir' = [dir EXCEPT !.index[q] = Mine] /\ dir.there /\ result' = "none"
      /\ UNCHANGED <<kind, objects, upstream, required, receipt, candidate, backup, pc, a>>
  BY DEF Stage, UserDoes
<1> QED
  BY <1>1, StateFacts

(* What a tree is stays, and what names it is the only thing a step can change. *)
LEMMA SameTrees ==
    ASSUME TypeOK, [Next]_vars
    PROVE  /\ UNCHANGED upstream => Tip' = Tip
           /\ dir'.refs[dir'.head] = HEAD => Here' = Here
           /\ dir' = dir => Here' = Here
           /\ a'.old = a.old => OldTree' = OldTree
           /\ a' = a => OldTree' = OldTree
           /\ \A c \in Commits : dir'.refs[dir'.head] = c => Here' = TreeOf(c)
           /\ \A c \in Commits : a'.old = c => OldTree' = TreeOf(c)
<1>1. /\ \A c \in Commits : TreeOf(c)' = TreeOf(c)
      /\ HEAD \in Commits /\ upstream \in Commits /\ a.old \in Commits
  BY TreesStay, StateFacts
<1>2. \A c \in Commits : dir'.refs[dir'.head] = c => Here' = TreeOf(c)
  BY <1>1 DEF Here, HEAD, TreeOf
<1>3. \A c \in Commits : a'.old = c => OldTree' = TreeOf(c)
  BY <1>1 DEF OldTree, TreeOf
<1>4. UNCHANGED upstream => Tip' = Tip
  BY <1>1 DEF Tip, TreeOf
<1>5. dir' = dir => dir'.refs[dir'.head] = HEAD
  BY DEF HEAD
<1> QED
  BY <1>1, <1>2, <1>3, <1>4, <1>5 DEF Here, OldTree

-----------------------------------------------------------------------------
(* The index of a branch that is prepared *)

(* What is staged is of the user or of upstream, where no preparation left it   *)
(* to be committed: upstream never has what the user wrote.                    *)
SeenInv ==
    /\ dir.there => \A p \in Paths : dir.index[p] \in {Here[p], Mine, Tip[p]}
    /\ \A p \in Paths : Tip[p] # Mine

(* What is fetched is not overtaken by a push, and what is renamed is whole. *)
StepInv ==
    /\ pc \in {"fetch", "resolve", "expect", "merge"} \cup Moving => dir.there
    /\ pc \in {"resolve", "expect", "merge"} \cup Moving => dir.tracking = upstream
    /\ pc \in {"expect", "merge"} \cup Moving => a.oid = upstream
    /\ pc \in {"head", "unref"} => dir.refs["main"] = upstream
    /\ pc = "rename" => candidate.index = TreeOf(candidate.refs[candidate.head])

(* HEAD was read: where it moved since, the user has staged. *)
ReadInv ==
    pc \in {"expect", "merge"} => \A p \in Paths : Here[p] # OldTree[p] => dir.index[p] = Mine

(* The index was moved: it goes back to what the user has, if it goes back. *)
MovedInv ==
    pc \in Moving =>
        /\ \A p \in Paths : dir.index[p] \in {Tip[p], Mine}
        /\ \/ pc = "unmerge" /\ a.dead
           \/ \A p \in Paths : OldTree[p] # Tip[p] => OldTree[p] \in {Mine, BackTree[p]}

BranchInv == kind # "fixed" => SeenInv /\ StepInv /\ ReadInv /\ MovedInv

(* What kind of repository it is does not change. *)
LEMMA KindStays == [Next]_vars => kind' = kind
  BY DEF Next, vars, Push, Commit, Require, Stage, Switch, UserDoes, Begin, Retries, StepFails, Crash, Clone,
     Rename, Fetch, Resolve, Expect, MergeIndex, MoveRef, MoveRefFails, MoveHead, MoveHeadFails, RestoreRef,
     RestoreIndex, Receipt, Acquire, Install, Swap, SwapFails, Record, FetchDone, To, Ends

(* The steps of a repository without a required commit. *)
LEMMA OtherSteps ==
    ASSUME kind # "fixed", PlaceInv, [Next]_vars
    PROVE  \/ UNCHANGED vars \/ Push \/ Commit \/ (\E p \in Paths : Stage(p)) \/ (\E b \in Branches : Switch(b))
           \/ Begin \/ Retries \/ StepFails \/ Crash \/ Clone \/ Rename \/ BranchStep
<1>1. pc \notin OfCommit
  BY DEF PlaceInv
<1> QED
  BY <1>1 DEF Next, BranchStep, OfCommit, Require, Receipt, Acquire, Install, Swap, SwapFails, Record

(* The steps of a preparation of the directory that is in place keep the four; one *)
(* step of the proof per action.                                                 *)
LEMMA BranchStepKeeps ==
    ASSUME AnyTime = {}, kind # "fixed", TypeOK, SeenInv, StepInv, ReadInv, MovedInv, BranchStep
    PROVE  SeenInv' /\ StepInv' /\ ReadInv' /\ MovedInv'
<1>n. [Next]_vars
  BY DEF BranchStep, Next
<1>t. dir.index \in Trees /\ Here \in Trees /\ Tip \in Trees /\ OldTree \in Trees
  BY StateFacts DEF Here, Tip, OldTree
<1>0. /\ UNCHANGED <<objects, upstream, candidate>> /\ dir'.there = dir.there /\ Tip' = Tip
      /\ pc' # "rename"
  BY <1>n, InPlace, SameTrees DEF OfBranch
<1> USE DEF SeenInv, StepInv, ReadInv, MovedInv, Moving
<1>1. CASE Fetch
  <2>1. pc = "fetch" /\ pc' = "resolve" /\ a' = a /\ dir' = [dir EXCEPT !.tracking = upstream]
    BY <1>1 DEF Fetch, To
  <2>2. dir'.index = dir.index /\ dir'.tracking = upstream /\ dir'.refs = dir.refs /\ dir'.head = dir.head
    BY <2>1, StateFacts
  <2>3. Here' = Here
    BY <1>n, <2>2, SameTrees DEF HEAD
  <2> QED
    BY <1>0, <2>1, <2>2, <2>3
<1>2. CASE Resolve
  <2>1. pc = "resolve" /\ pc' = "expect" /\ dir' = dir /\ a' = [a EXCEPT !.oid = dir.tracking, !.old = HEAD]
    BY <1>2 DEF Resolve, To
  <2>2. a'.oid = dir.tracking /\ a'.old = HEAD
    BY <2>1, StateFacts
  <2>3. Here' = Here /\ OldTree' = Here
    BY <1>n, <2>1, <2>2, SameTrees, StateFacts DEF Here
  <2> QED
    BY <1>0, <2>1, <2>2, <2>3
<1>3. CASE Expect
  <2>1. pc = "expect" /\ pc' \in {"idle", "merge"} /\ dir' = dir
    BY <1>3 DEF Expect, Ends, To
  <2>2. pc' = "merge" => a'.oid = a.oid /\ a'.old = a.old
    BY <1>3, StateFacts DEF Expect, Ends, To
  <2>3. Here' = Here /\ (pc' = "merge" => OldTree' = OldTree)
    BY <1>n, <2>1, <2>2, SameTrees
  <2> QED
    BY <1>0, <2>1, <2>2, <2>3
<1>4. CASE MergeIndex
  <2>1. /\ pc = "merge" /\ dir.there /\ a.oid = upstream /\ TreeOf(a.oid) = Tip /\ TreeOf(a.old) = OldTree
        /\ dir.tracking = upstream
    BY <1>4 DEF MergeIndex, Tip, OldTree
  <2>2. CASE ~Merges(dir.index, OldTree, Tip)
    <3>1. pc' = "idle" /\ dir' = dir
      BY <1>4, <2>1, <2>2 DEF MergeIndex, Ends, To
    <3>2. Here' = Here
      BY <1>n, <3>1, SameTrees
    <3> QED
      BY <1>0, <3>1, <3>2
  <2>3. CASE Merges(dir.index, OldTree, Tip)
    <3>1. pc' = "refs" /\ a' = a /\ dir' = [dir EXCEPT !.index = Merged(dir.index, OldTree, Tip)]
      BY <1>4, <2>1, <2>3 DEF MergeIndex, Ends, To
    <3>2. /\ dir'.refs = dir.refs /\ dir'.head = dir.head /\ dir'.tracking = dir.tracking
          /\ dir'.index = Merged(dir.index, OldTree, Tip)
      BY <3>1, StateFacts
    <3>3. Here' = Here /\ OldTree' = OldTree /\ BackTree' = Here
      <4>1. Here' = Here /\ OldTree' = OldTree
        BY <1>n, <3>1, <3>2, SameTrees DEF HEAD
      <4> QED
        BY <3>1, <4>1 DEF BackTree, Here
    <3>4. \A p \in Paths : dir'.index[p] = IF OldTree[p] = Tip[p] THEN dir.index[p] ELSE Tip[p]
      BY <3>2 DEF Merged
    <3>5. \A p \in Paths : dir'.index[p] \in {Tip[p], Mine}
      BY <2>1, <3>4
    <3>6. \A p \in Paths : OldTree[p] # Tip[p] => OldTree[p] \in {Mine, Here[p]}
      BY <2>1, <2>3 DEF Merges
    <3> QED
      BY <1>0, <2>1, <3>1, <3>2, <3>3, <3>5, <3>6
  <2> QED
    BY <2>2, <2>3
<1>5. CASE MoveRef
  <2>0. pc = "refs" /\ BackTree = Here
    BY <1>5 DEF MoveRef, BackTree, Here
  <2>1. CASE kind = "ref"
    <3>1. pc' = "idle" /\ dir' = [dir EXCEPT !.refs["HEAD"] = a.oid, !.head = "HEAD"]
      BY <1>5, <2>1 DEF MoveRef, FetchDone, Ends, To
    <3>2. dir'.index = dir.index
      BY <3>1, StateFacts
    <3> QED
      BY <1>0, <2>0, <3>1, <3>2
  <2>2. CASE kind # "ref" /\ dir.refs["main"] = a.expected
    <3>1. pc' = "head" /\ a' = a /\ dir' = [dir EXCEPT !.refs["main"] = a.oid]
      BY <1>5, <2>2 DEF MoveRef, Ends, To
    <3>2. /\ dir'.index = dir.index /\ dir'.head = dir.head /\ dir'.tracking = dir.tracking
          /\ dir'.refs = [dir.refs EXCEPT !["main"] = a.oid]
      BY <3>1, StateFacts
    <3>3. dir'.refs["main"] = upstream
      BY <2>0, <3>2, StateFacts
    <3>4. OldTree' = OldTree
      BY <1>n, <3>1, SameTrees
    <3>5. BackTree' = Here
      <4>1. dir.head # "main" => HEAD' = HEAD
        BY <3>2, StateFacts DEF HEAD
      <4>2. dir.head = "main" => HEAD = a.expected
        BY <2>2 DEF HEAD
      <4>3. BackTree' = TreeOf(HEAD)
        BY <1>0, <3>1, <3>2, <4>1, <4>2 DEF BackTree, TreeOf
      <4> QED
        BY <4>3 DEF Here
    <3> QED
      BY <1>0, <2>0, <3>1, <3>2, <3>3, <3>4, <3>5
  <2>3. CASE kind # "ref" /\ dir.refs["main"] # a.expected
    <3>1. pc' = "unmerge" /\ a' = a /\ dir' = dir
      BY <1>5, <2>3 DEF MoveRef, Ends, To
    <3>2. OldTree' = OldTree /\ Here' = Here /\ BackTree' = Here'
      BY <1>n, <3>1, SameTrees DEF BackTree, Here
    <3> QED
      BY <1>0, <2>0, <3>1, <3>2
  <2> QED
    BY <2>1, <2>2, <2>3
<1>6. CASE MoveRefFails \/ MoveHeadFails
  <2>1. /\ dir' = dir /\ a'.oid = a.oid /\ a'.old = a.old /\ a'.expected = a.expected
        /\ \/ pc = "refs" /\ pc' = "unmerge"
           \/ pc = "head" /\ pc' = "unref"
    BY <1>6, StateFacts DEF MoveRefFails, MoveHeadFails, Fails, Fault, To
  <2>2. Here' = Here /\ OldTree' = OldTree /\ BackTree' = BackTree
    <3>1. Here' = Here /\ OldTree' = OldTree
      BY <1>n, <2>1, SameTrees
    <3> QED
      BY <1>0, <2>1 , <3>1 DEF BackTree, TreeOf, HEAD
  <2> QED
    BY <1>0, <2>1, <2>2
<1>7. CASE MoveHead
  <2>1. pc = "head" /\ pc' = "idle" /\ dir' = [dir EXCEPT !.head = "main"]
    BY <1>7 DEF MoveHead, FetchDone, Ends, To
  <2>2. dir'.index = dir.index
    BY <2>1, StateFacts
  <2> QED
    BY <1>0, <2>1, <2>2
<1>8. CASE RestoreRef
  <2>1. pc = "unref" /\ pc' = "unmerge" /\ dir.refs["main"] = a.oid /\ a' = a
    BY <1>8 DEF RestoreRef, To
  <2>2. OldTree' = OldTree
    BY <1>n, <2>1, SameTrees
  <2>3. CASE a.dead /\ dir' = dir
    BY <1>0, <1>n, <2>1, <2>2, <2>3, SameTrees
  <2>4. CASE dir' = [dir EXCEPT !.refs["main"] = a.expected]
    <3>1. /\ dir'.index = dir.index /\ dir'.head = dir.head /\ dir'.tracking = dir.tracking
          /\ dir'.refs = [dir.refs EXCEPT !["main"] = a.expected]
      BY <2>4, StateFacts
    <3>2. BackTree' = BackTree
      <4>1. HEAD' = IF dir.head = "main" THEN a.expected ELSE HEAD
        BY <3>1, StateFacts DEF HEAD
      <4> QED
        BY <1>0, <2>1, <4>1 DEF BackTree, TreeOf
    <3> QED
      BY <1>0, <2>1, <2>2, <3>1, <3>2
  <2> QED
    BY <1>8, <2>1, <2>3, <2>4 DEF RestoreRef
<1>9. CASE RestoreIndex
  <2>1. pc = "unmerge" /\ pc' = "idle" /\ TreeOf(a.oid) = Tip /\ TreeOf(a.old) = OldTree /\ BackTree = Here
    BY <1>9 DEF RestoreIndex, Ends, To, Tip, OldTree, BackTree, Here
  <2>2. CASE dir' = dir
    BY <1>0, <1>n, <2>1, <2>2, SameTrees
  <2>3. CASE ~a.dead /\ dir' = [dir EXCEPT !.index = Merged(dir.index, Tip, OldTree)]
    <3>1. /\ dir'.index = Merged(dir.index, Tip, OldTree)
          /\ dir'.head = dir.head /\ dir'.refs = dir.refs
      BY <2>3, StateFacts
    <3>2. Here' = Here
      BY <1>n, <3>1, SameTrees DEF HEAD
    <3>3. \A p \in Paths : dir'.index[p] = IF Tip[p] = OldTree[p] THEN dir.index[p] ELSE OldTree[p]
      BY <3>1 DEF Merged
    <3> QED
      BY <1>0, <2>1, <2>3, <3>2, <3>3
  <2> QED
    BY <1>9, <2>1, <2>2, <2>3 DEF RestoreIndex, Runs
<1> QED
  BY <1>1, <1>2, <1>3, <1>4, <1>5, <1>6, <1>7, <1>8, <1>9 DEF BranchStep

(* Every step keeps BranchInv, outside of the windows of AnyTime. *)
LEMMA BranchInvNext ==
    ASSUME AnyTime = {}, TypeOK, PlaceInv, BranchInv, [Next]_vars
    PROVE  BranchInv'
<1> SUFFICES ASSUME kind # "fixed" PROVE SeenInv' /\ StepInv' /\ ReadInv' /\ MovedInv'
  <2>1. kind' = kind
    BY KindStays
  <2> QED
    BY <2>1 DEF BranchInv
<1>0. /\ SeenInv /\ StepInv /\ ReadInv /\ MovedInv
      /\ pc \in OfBranch \cup {"idle"}
  BY DEF BranchInv, PlaceInv, OfBranch, OfCommit, TypeOK, PCs
<1>t. dir.index \in Trees /\ Here \in Trees /\ Tip \in Trees /\ OldTree \in Trees
  BY StateFacts DEF Here, Tip, OldTree
<1> USE DEF SeenInv, StepInv, ReadInv, MovedInv, Moving
<1>1. CASE UNCHANGED vars
  <2>1. UNCHANGED <<Here, Tip, OldTree, BackTree>>
    <3>1. Here' = Here /\ Tip' = Tip /\ OldTree' = OldTree
      BY <1>1, SameTrees DEF vars
    <3>2. TreeOf(a.expected)' = TreeOf(a.expected) /\ TreeOf(HEAD)' = TreeOf(HEAD)
      BY <1>1 DEF vars, TreeOf, HEAD
    <3> QED
      BY <1>1, <3>1 DEF vars, BackTree, TreeOf, HEAD
  <2> QED
    BY <1>0, <1>1, <2>1 DEF vars, TreeOf
<1>2. CASE Push
  <2>1. /\ pc = "idle" /\ ~Torn /\ UNCHANGED <<dir, pc, a, candidate>>
    BY <1>2 DEF Push
  <2>2. \A p \in Paths : Tip'[p] # Mine
    <3>1. PICK P \in SUBSET Paths :
            objects' = Append(objects, [past |-> Past(upstream) \cup {Len(objects) + 1},
               tree |-> [p \in Paths |-> IF p \in P THEN spent.pushes + 3 ELSE TreeOf(upstream)[p]]])
      BY <1>2 DEF Push
    <3>2. objects \in Seq(Object) /\ Len(objects) \in Nat /\ spent.pushes \in Nat
      BY DEF TypeOK, Objects, Spending
    <3>3. upstream' = Len(objects) + 1
      BY <1>2, <3>1, <3>2 DEF Push
    <3>4. Tip' = [p \in Paths |-> IF p \in P THEN spent.pushes + 3 ELSE Tip[p]]
      BY <3>1, <3>2, <3>3 DEF Tip, TreeOf
    <3> QED
      BY <1>0, <3>2, <3>4 DEF Mine
  <2>3. Here' = Here
    BY <2>1, SameTrees
  <2>4. dir.there => \A p \in Paths : dir.index[p] \in {Here[p], Mine}
    BY <2>1 DEF Torn, Staged, Here
  <2> QED
    BY <1>0, <2>1, <2>2, <2>3, <2>4
<1>3. CASE Commit
  <2>1. /\ dir'.there /\ dir'.index = dir.index /\ dir'.tracking = dir.tracking /\ dir.there
        /\ Here' = dir.index /\ UNCHANGED <<upstream, candidate, pc, a>>
    BY <1>3, CommitEffect
  <2>2. pc \notin Moving /\ (pc \in {"expect", "merge"} => ~Torn)
    BY <1>3 DEF Commit, Between
  <2>3. Tip' = Tip /\ OldTree' = OldTree
    BY <2>1, SameTrees
  <2>4. ~Torn => \A p \in Paths : dir.index[p] # Here[p] => dir.index[p] = Mine
    BY <2>1 DEF Torn, Staged, Here
  <2>5. pc = "rename" => candidate'.index = TreeOf(candidate.refs[candidate.head])'
    <3>1. candidate.refs[candidate.head] \in Commits
      BY DirFields DEF TypeOK
    <3> QED
      BY <1>0, <2>1, <3>1, TreesStay
  <2>6. ReadInv'
    BY <1>0, <2>1, <2>2, <2>3, <2>4
  <2> QED
    BY <1>0, <2>1, <2>2, <2>3, <2>5, <2>6 DEF TreeOf
<1>4. ASSUME NEW b \in Branches, Switch(b) PROVE SeenInv' /\ StepInv' /\ ReadInv' /\ MovedInv'
  <2>1. /\ dir'.there /\ dir'.tracking = dir.tracking
        /\ Here' = dir'.index /\ UNCHANGED <<upstream, objects, candidate, pc, a>>
    BY <1>4, SwitchEffect
  <2>2. pc \notin Moving \cup {"expect", "merge"}
    BY <1>4 DEF Switch, Between
  <2>3. Tip' = Tip
    BY <2>1, SameTrees
  <2> QED
    BY <1>0, <2>1, <2>2, <2>3 DEF TreeOf
<1>5. ASSUME NEW q \in Paths, Stage(q) PROVE SeenInv' /\ StepInv' /\ ReadInv' /\ MovedInv'
  <2>1. /\ dir'.there /\ dir'.tracking = dir.tracking /\ dir'.refs = dir.refs /\ dir'.head = dir.head
        /\ dir'.index = [dir.index EXCEPT ![q] = Mine] /\ dir.there
        /\ UNCHANGED <<upstream, objects, candidate, pc, a>>
    BY <1>5, StageEffect
  <2>2. \A p \in Paths : dir'.index[p] = IF p = q THEN Mine ELSE dir.index[p]
    BY <1>t, <2>1 DEF Trees
  <2>3. Here' = Here /\ Tip' = Tip /\ OldTree' = OldTree /\ BackTree' = BackTree
    <3>1. Here' = Here /\ Tip' = Tip /\ OldTree' = OldTree
      BY <2>1, SameTrees DEF HEAD
    <3> QED
      BY <2>1, <3>1 DEF BackTree, TreeOf, HEAD
  <2>4. SeenInv' /\ ReadInv' /\ MovedInv'
    BY <1>0, <2>1, <2>2, <2>3
  <2> QED
    BY <1>0, <2>1, <2>4 DEF TreeOf
<1>6. CASE Begin \/ Retries \/ StepFails \/ Crash \/ Clone
  <2>1. /\ UNCHANGED <<dir, objects, upstream>>
        /\ pc' \in {"idle", "clone", "fetch", "rename"} /\ (pc' = "fetch" => dir.there)
    BY <1>0, <1>6 DEF Begin, Retries, StepFails, Crash, Clone, Ends, To, OfBranch
  <2>2. Here' = Here /\ Tip' = Tip
    BY <2>1, SameTrees
  <2>3. pc' = "rename" => candidate'.index = TreeOf(candidate'.refs[candidate'.head])
    <3>1. pc' = "rename" => Clone
      BY <1>0, <1>6 DEF Begin, Retries, StepFails, Crash, Clone, Ends, To, OfBranch
    <3>2. ASSUME Clone PROVE candidate'.index = TreeOf(candidate'.refs[candidate'.head])
      <4>1. PICK r \in Refs : candidate' = Fresh(r, upstream)
        BY <3>2, RefNames DEF Clone
      <4>2. Fresh(r, upstream).refs[Fresh(r, upstream).head] = upstream
        BY DEF Fresh, NoDir
      <4>3. Fresh(r, upstream).index = TreeOf(upstream)
        BY DEF Fresh
      <4> QED
        BY <4>1, <4>2, <4>3
    <3> QED
      BY <3>1, <3>2
  <2> QED
    BY <1>0, <2>1, <2>2, <2>3 DEF TreeOf
<1>7. CASE Rename
  <2>1. dir' = candidate /\ pc' = "idle" /\ UNCHANGED <<objects, upstream>> /\ pc = "rename"
    BY <1>7 DEF Rename, Ends, To
  <2>2. candidate.refs[candidate.head] \in Commits
    BY DirFields DEF TypeOK
  <2>3. Here' = dir'.index /\ Tip' = Tip
    BY <1>0, <2>1, <2>2, SameTrees
  <2> QED
    BY <1>0, <2>1, <2>3
<1>8. CASE BranchStep
  BY <1>0, <1>8, BranchStepKeeps
<1> QED
  BY <1>1, <1>2, <1>3, <1>4, <1>5, <1>6, <1>7, <1>8, OtherSteps

(* BranchInv holds in every state. *)
LEMMA BranchInvHolds == AnyTime = {} => (Spec => []BranchInv)
<1> SUFFICES ASSUME AnyTime = {} PROVE Spec => []BranchInv
  OBVIOUS
<1>1. Init => BranchInv
  <2> SUFFICES ASSUME Init PROVE BranchInv
    OBVIOUS
  <2>1. /\ Len(objects) = 1 /\ objects[1].tree = [p \in Paths |-> 2] /\ upstream = 1 /\ pc = "idle"
    BY DEF Init
  <2>2. Tip = [p \in Paths |-> 2]
    BY <2>1 DEF Tip, TreeOf
  <2>3. dir.index = Empty /\ HEAD = 0
    BY RefNames DEF Init, NoDir, Made, HEAD
  <2> QED
    BY <2>1, <2>2, <2>3 DEF BranchInv, SeenInv, StepInv, ReadInv, MovedInv, Moving, Here, TreeOf, Mine
<1>2. TypeOK /\ PlaceInv /\ BranchInv /\ [Next]_vars => BranchInv'
  BY BranchInvNext
<1> QED
  BY <1>1, <1>2, TypeCorrect, PlaceInvHolds, PTL DEF Spec

-----------------------------------------------------------------------------
(* A directory that was acquired for a commit *)

TreeIn(o, c) == IF c = 0 THEN Empty ELSE o[c].tree

(* What a tree has is of the commit the directory was acquired for, or of the user. *)
Near(o, d, t) == \A p \in Paths : t[p] \in {TreeIn(o, d.got)[p], Mine}

(* So it is with its index and its commits. *)
Own(o, d) ==
    /\ Near(o, d, d.index)
    /\ \A r \in Refs : d.refs[r] # 0 => Near(o, d, TreeIn(o, d.refs[r]))
    /\ d.got # 0 => d.refs[d.head] # 0

Whole(o, d) == d.index = TreeIn(o, d.refs[d.head])

(* Where no other commit was fetched; where one was, none will be the first again. *)
Alone(o, u, d) == d.there => IF d.tracking = d.got THEN Own(o, d) ELSE u # d.got

(* What a fetch moves, and moves back, is so too. *)
FetchInv ==
    /\ pc \in {"fetch", "resolve", "expect", "merge"} \cup Moving => dir.there
    /\ pc \in {"expect", "merge"} \cup Moving =>
         /\ a.oid = dir.tracking
         /\ dir.tracking = dir.got => Near(objects, dir, TreeIn(objects, a.old))
    /\ pc \in {"head", "unref"} => dir.refs["main"] = a.oid
    /\ pc \in {"head", "unref"} /\ dir.tracking = dir.got =>
         /\ a.expected # 0 => Near(objects, dir, TreeIn(objects, a.expected))
         /\ dir.got # 0 /\ dir.head = "main" => a.expected # 0

OwnInv ==
    kind = "fixed" =>
        /\ Alone(objects, upstream, dir) /\ Alone(objects, upstream, backup)
        /\ candidate.there => /\ Own(objects, candidate) /\ Whole(objects, candidate)
                              /\ candidate.tracking = candidate.got
        /\ FetchInv

(* Commits that are added change none of it. *)
LEMMA OwnStays ==
    ASSUME TypeOK, [Next]_vars, NEW d \in Dirs
    PROVE  /\ \A t : Near(objects', d, t) <=> Near(objects, d, t)
           /\ \A c \in Commits : TreeIn(objects', c) = TreeIn(objects, c)
           /\ Own(objects, d) => Own(objects', d)
           /\ Whole(objects, d) => Whole(objects', d)
<1>1. d.got \in Commits /\ d.refs[d.head] \in Commits /\ \A r \in Refs : d.refs[r] \in Commits
  BY DirFields
<1>2. \A c \in Commits : TreeIn(objects', c) = TreeIn(objects, c)
  BY TreesStay DEF TreeOf, TreeIn
<1> QED
  BY <1>1, <1>2 DEF Own, Near, Whole

(* The user's steps leave it so. *)
LEMMA OwnOfUser ==
    ASSUME TypeOK, Own(objects, dir),
           Commit \/ (\E p \in Paths : Stage(p)) \/ (\E b \in Branches : Switch(b))
    PROVE  Own(objects', dir')
<1>n. [Next]_vars
  BY DEF Next
<1>0. /\ \A c \in Commits : TreeIn(objects', c) = TreeIn(objects, c)
      /\ dir.got \in Commits /\ \A r \in Refs : dir.refs[r] \in Commits
  BY <1>n, TreesStay, StateFacts DEF TreeOf, TreeIn
<1>1. CASE Commit
  <2>1. /\ dir'.index = dir.index /\ dir'.got = dir.got /\ Here' = dir.index /\ dir'.head = dir.head
        /\ dir'.refs = [dir.refs EXCEPT ![dir.head] = Len(objects) + 1]
    BY <1>1, CommitEffect
  <2>2. TreeIn(objects', dir'.refs[dir.head]) = dir.index
    BY <2>1 DEF Here, HEAD, TreeOf, TreeIn
  <2>3. \A r \in Refs : r # dir.head => dir'.refs[r] = dir.refs[r]
    BY <2>1, StateFacts
  <2>4. dir'.refs[dir'.head] # 0
    BY <2>1, StateFacts DEF TypeOK, Objects
  <2> QED
    BY <1>0, <2>1, <2>2, <2>3, <2>4 DEF Own, Near
<1>2. ASSUME NEW q \in Paths, Stage(q) PROVE Own(objects', dir')
  <2>1. /\ dir'.index = [dir.index EXCEPT ![q] = Mine] /\ dir'.got = dir.got /\ dir'.refs = dir.refs
        /\ dir'.head = dir.head /\ UNCHANGED objects /\ dir.index \in [Paths -> Content]
    BY <1>2, StageEffect, StateFacts DEF Trees
  <2> QED
    BY <2>1 DEF Own, Near
<1>3. ASSUME NEW b \in Branches, Switch(b) PROVE Own(objects', dir')
  <2>1. dir'.got = dir.got /\ dir'.head = b /\ UNCHANGED objects
    BY <1>3, SwitchEffect
  <2>2. PICK c \in Commits : /\ c # 0 /\ dir'.refs = [dir.refs EXCEPT ![b] = c] /\ dir'.index = TreeIn(objects, c)
                             /\ \E r \in Refs : c = dir.refs[r]
    BY <1>3, SwitchEffect DEF TreeOf, TreeIn
  <2>3. \A r \in Refs : dir'.refs[r] = IF r = b THEN c ELSE dir.refs[r]
    BY <2>2, StateFacts
  <2>4. Near(objects, dir, TreeIn(objects, c))
    BY <2>2 DEF Own
  <2>5. dir'.refs[dir'.head] # 0
    BY <2>1, <2>2, <2>3, RefNames
  <2> QED
    BY <2>1, <2>2, <2>3, <2>4, <2>5 DEF Own, Near
<1> QED
  BY <1>1, <1>2, <1>3

(* What was just acquired is so, and whole. *)
LEMMA FreshIsOwn ==
    ASSUME TypeOK, NEW c \in Commits
    PROVE  /\ Own(objects, Fresh("HEAD", c)) /\ Whole(objects, Fresh("HEAD", c))
           /\ Fresh("HEAD", c).tracking = Fresh("HEAD", c).got
<1>1. /\ Fresh("HEAD", c).index = TreeIn(objects, c) /\ Fresh("HEAD", c).got = c
      /\ Fresh("HEAD", c).refs = [[r \in Refs |-> 0] EXCEPT !["HEAD"] = c] /\ Fresh("HEAD", c).head = "HEAD"
      /\ Fresh("HEAD", c).tracking = c
  BY DEF Fresh, NoDir, TreeOf, TreeIn
<1>2. \A r \in Refs : Fresh("HEAD", c).refs[r] = IF r = "HEAD" THEN c ELSE 0
  BY <1>1
<1>3. Fresh("HEAD", c).refs["HEAD"] = c
  BY <1>2, RefNames
<1> QED
  BY <1>1, <1>2, <1>3 DEF Own, Near, Whole

(* The steps of a fetch into the directory; one step of the proof per action. *)
LEMMA FetchKeepsOwn ==
    ASSUME AnyTime = {}, kind = "fixed", TypeOK, OwnInv, BranchStep
    PROVE  Alone(objects, upstream, dir') /\ FetchInv'
<1>0. /\ UNCHANGED <<objects, upstream>> /\ dir.there /\ dir'.there /\ dir'.got = dir.got
      /\ FetchInv /\ (dir.tracking = dir.got => Own(objects, dir))
      /\ dir.tracking # dir.got => upstream # dir.got
  BY InPlace DEF OwnInv, Alone, FetchInv, OfBranch, Moving
<1> DEFINE Pure == dir.tracking = dir.got
           Far  == {"expect", "merge"} \cup Moving
<1>1. CASE Fetch
  <2>1. pc' = "resolve" /\ dir' = [dir EXCEPT !.tracking = upstream]
    BY <1>1 DEF Fetch, To
  <2>2. dir'.index = dir.index /\ dir'.tracking = upstream /\ dir'.refs = dir.refs /\ dir'.head = dir.head
    BY <2>1, StateFacts
  <2> QED
    BY <1>0, <2>1, <2>2 DEF Alone, Own, Near, FetchInv, Moving
<1>2. CASE ~Fetch
  <2>1. /\ dir'.tracking = dir.tracking
        /\ pc' \in Far => a'.oid = dir.tracking
        /\ Pure => Own(objects, dir')
        /\ pc' \in Far /\ Pure => Near(objects, dir, TreeIn(objects, a'.old))
        /\ pc' \in {"head", "unref"} => dir'.refs["main"] = a'.oid
        /\ pc' \in {"head", "unref"} /\ Pure =>
             /\ a'.expected # 0 => Near(objects, dir, TreeIn(objects, a'.expected))
             /\ dir.got # 0 /\ dir'.head = "main" => a'.expected # 0
    <3>1. CASE Resolve
      <4>1. dir' = dir /\ pc' = "expect" /\ a' = [a EXCEPT !.oid = dir.tracking, !.old = HEAD]
        BY <3>1 DEF Resolve, To
      <4>2. a'.oid = dir.tracking /\ a'.old = HEAD
        BY <4>1, StateFacts
      <4>3. Pure => Near(objects, dir, TreeIn(objects, HEAD))
        <5>1. CASE HEAD = 0
          <6>1. Pure => dir.got = 0
            BY <1>0, <5>1 DEF Own, HEAD
          <6> QED
            BY <5>1, <6>1 DEF Near
        <5>2. CASE HEAD # 0
          BY <1>0, <5>2, StateFacts DEF Own, HEAD
        <5> QED
          BY <5>1, <5>2
      <4> QED
        BY <1>0, <4>1, <4>2, <4>3
    <3>2. CASE Expect
      <4>1. dir' = dir /\ pc = "expect" /\ pc' \in {"idle", "merge"}
        BY <3>2 DEF Expect, Ends, To
      <4>2. pc' = "merge" => a'.oid = a.oid /\ a'.old = a.old
        BY <3>2, StateFacts DEF Expect, Ends, To
      <4> QED
        BY <1>0, <4>1, <4>2 DEF FetchInv, Moving
    <3>3. CASE MergeIndex
      <4>1. /\ pc = "merge" /\ pc' \in {"idle", "refs"} /\ (pc' = "refs" => a' = a)
            /\ dir' = dir \/ dir' = [dir EXCEPT !.index = Merged(dir.index, TreeOf(a.old), TreeOf(a.oid))]
        BY <3>3 DEF MergeIndex, Ends, To
      <4>2. CASE dir' = dir
        BY <1>0, <4>1, <4>2 DEF FetchInv, Moving
      <4>3. CASE dir' = [dir EXCEPT !.index = Merged(dir.index, TreeOf(a.old), TreeOf(a.oid))]
        <5>1. /\ dir'.index = Merged(dir.index, TreeOf(a.old), TreeOf(a.oid))
              /\ dir'.tracking = dir.tracking /\ dir'.refs = dir.refs /\ dir'.head = dir.head
          BY <4>3, StateFacts
        <5>2. \A p \in Paths : dir'.index[p] \in {dir.index[p], TreeIn(objects, a.oid)[p]}
          BY <5>1 DEF Merged, TreeIn, TreeOf
        <5>3. Pure => Near(objects, dir, dir'.index)
          BY <1>0, <4>1, <5>2 DEF Near, Own, FetchInv
        <5>4. Pure => Own(objects, dir')
          BY <1>0, <5>1, <5>3 DEF Own, Near
        <5> QED
          BY <1>0, <4>1, <5>1, <5>4 DEF FetchInv, Moving
      <4> QED
        BY <4>1, <4>2, <4>3
    <3>4. CASE MoveRef
      <4>1. /\ pc = "refs"
            /\ \/ dir' = dir /\ pc' = "unmerge" /\ a' = a
               \/ /\ dir' = [dir EXCEPT !.refs["main"] = a.oid] /\ pc' = "head" /\ a' = a
                  /\ dir.refs["main"] = a.expected
        BY <3>4 DEF MoveRef, To
      <4>2. CASE dir' = dir /\ pc' = "unmerge" /\ a' = a
        BY <1>0, <4>1, <4>2 DEF FetchInv, Moving
      <4>3. CASE pc' = "head"
        <5>1. /\ dir'.index = dir.index /\ dir'.tracking = dir.tracking /\ dir'.head = dir.head
              /\ dir'.refs = [dir.refs EXCEPT !["main"] = a.oid]
          BY <4>1, <4>3, StateFacts
        <5>2. a' = a /\ a.oid = dir.tracking /\ dir.refs["main"] = a.expected
              /\ (Pure => Near(objects, dir, TreeIn(objects, a.old)))
          BY <1>0, <4>1, <4>3 DEF FetchInv, Moving
        <5>3. \A r \in Refs : dir'.refs[r] = IF r = "main" THEN dir.tracking ELSE dir.refs[r]
          BY <5>1, <5>2, StateFacts
        <5>4. Pure => Own(objects, dir')
          BY <1>0, <5>1, <5>3, StateFacts DEF Own, Near
        <5>5. Pure => /\ a.expected # 0 => Near(objects, dir, TreeIn(objects, a.expected))
                      /\ dir.got # 0 /\ dir.head = "main" => a.expected # 0
          BY <1>0, <5>2, RefNames DEF Own
        <5> QED
          BY <4>3, <5>1, <5>2, <5>3, <5>4, <5>5, RefNames
      <4> QED
        BY <4>1, <4>2, <4>3
    <3>5. CASE MoveRefFails \/ MoveHeadFails
      <4>1. /\ dir' = dir /\ a'.oid = a.oid /\ a'.old = a.old /\ a'.expected = a.expected
            /\ \/ pc = "refs" /\ pc' = "unmerge"
               \/ pc = "head" /\ pc' = "unref"
        BY <3>5, StateFacts DEF MoveRefFails, MoveHeadFails, Fails, Fault, To
      <4> QED
        BY <1>0, <4>1 DEF FetchInv, Moving
    <3>6. CASE MoveHead
      <4>1. pc = "head" /\ pc' \in {"idle", "receipt"} /\ dir' = [dir EXCEPT !.head = "main"]
        BY <3>6 DEF MoveHead, FetchDone, Ends, To
      <4>2. /\ dir'.index = dir.index /\ dir'.tracking = dir.tracking /\ dir'.refs = dir.refs
            /\ dir'.head = "main"
        BY <4>1, StateFacts
      <4>3. dir.got # 0 /\ Pure => dir.refs["main"] # 0
        BY <1>0, <4>1 DEF FetchInv, Moving
      <4> QED
        BY <1>0, <4>1, <4>2, <4>3 DEF Own, Near, Moving
    <3>7. CASE RestoreRef
      <4>1. /\ pc = "unref" /\ pc' = "unmerge" /\ a'.oid = a.oid /\ a'.old = a.old
            /\ dir' = dir \/ dir' = [dir EXCEPT !.refs["main"] = a.expected]
        BY <3>7 DEF RestoreRef, To
      <4>2. CASE dir' = dir
        BY <1>0, <4>1, <4>2 DEF FetchInv, Moving
      <4>3. CASE dir' = [dir EXCEPT !.refs["main"] = a.expected]
        <5>1. /\ dir'.index = dir.index /\ dir'.tracking = dir.tracking /\ dir'.head = dir.head
              /\ dir'.refs = [dir.refs EXCEPT !["main"] = a.expected]
          BY <4>3, StateFacts
        <5>2. \A r \in Refs : dir'.refs[r] = IF r = "main" THEN a.expected ELSE dir.refs[r]
          BY <5>1, StateFacts
        <5>3. Pure => /\ a.expected # 0 => Near(objects, dir, TreeIn(objects, a.expected))
                      /\ dir.got # 0 /\ dir.head = "main" => a.expected # 0
          BY <1>0, <4>1 DEF FetchInv
        <5>4. Pure => Own(objects, dir')
          BY <1>0, <5>1, <5>2, <5>3, StateFacts DEF Own, Near
        <5> QED
          BY <1>0, <4>1, <5>1, <5>4 DEF FetchInv, Moving
      <4> QED
        BY <4>1, <4>2, <4>3
    <3>8. CASE RestoreIndex
      <4>1. /\ pc = "unmerge" /\ pc' = "idle"
            /\ dir' = dir \/ dir' = [dir EXCEPT !.index = Merged(dir.index, TreeOf(a.oid), TreeOf(a.old))]
        BY <3>8 DEF RestoreIndex, Ends, To
      <4>2. CASE dir' = dir
        BY <1>0, <4>1, <4>2 DEF Moving
      <4>3. CASE dir' = [dir EXCEPT !.index = Merged(dir.index, TreeOf(a.oid), TreeOf(a.old))]
        <5>1. /\ dir'.index = Merged(dir.index, TreeOf(a.oid), TreeOf(a.old))
              /\ dir'.tracking = dir.tracking /\ dir'.refs = dir.refs /\ dir'.head = dir.head
          BY <4>3, StateFacts
        <5>2. \A p \in Paths : dir'.index[p] \in {dir.index[p], TreeIn(objects, a.old)[p]}
          BY <5>1 DEF Merged, TreeIn, TreeOf
        <5>3. Pure => Near(objects, dir, dir'.index)
          BY <1>0, <4>1, <5>2 DEF Near, Own, FetchInv, Moving
        <5>4. Pure => Own(objects, dir')
          BY <1>0, <5>1, <5>3 DEF Own, Near
        <5> QED
          BY <4>1, <5>1, <5>4 DEF Moving
      <4> QED
        BY <4>1, <4>2, <4>3
    <3> QED
      BY <1>2, <3>1, <3>2, <3>3, <3>4, <3>5, <3>6, <3>7, <3>8 DEF BranchStep
  <2>2. Alone(objects, upstream, dir')
    BY <1>0, <2>1 DEF Alone
  <2>3. FetchInv'
    BY <1>0, <2>1 DEF FetchInv, Near, Moving
  <2> QED
    BY <2>2, <2>3
<1> QED
  BY <1>1, <1>2

(* Every step keeps OwnInv. *)
LEMMA OwnInvNext ==
    ASSUME AnyTime = {}, TypeOK, PlaceInv, FixedInv, OwnInv, [Next]_vars
    PROVE  OwnInv'
<1> SUFFICES ASSUME kind = "fixed" PROVE OwnInv'
  BY KindStays DEF OwnInv
<1>0. /\ Alone(objects, upstream, dir) /\ Alone(objects', upstream, dir)
      /\ Alone(objects, upstream, backup) /\ Alone(objects', upstream, backup)
      /\ candidate.there => /\ Own(objects', candidate) /\ Whole(objects', candidate)
                            /\ candidate.tracking = candidate.got
      /\ FetchInv /\ ~NoDir.there
  <2>1. dir \in Dirs /\ backup \in Dirs /\ candidate \in Dirs
    BY DEF TypeOK
  <2>2. /\ Own(objects, dir) => Own(objects', dir)
        /\ Own(objects, backup) => Own(objects', backup)
        /\ Own(objects, candidate) => Own(objects', candidate)
        /\ Whole(objects, candidate) => Whole(objects', candidate)
    BY <2>1, OwnStays
  <2>3. /\ Alone(objects, upstream, dir) /\ Alone(objects, upstream, backup) /\ FetchInv
        /\ candidate.there => /\ Own(objects, candidate) /\ Whole(objects, candidate)
                              /\ candidate.tracking = candidate.got
    BY DEF OwnInv
  <2>4. Alone(objects', upstream, dir) /\ Alone(objects', upstream, backup)
    BY <2>2, <2>3 DEF Alone
  <2> QED
    BY <2>2, <2>3, <2>4 DEF NoDir
<1> DEFINE Leaves == pc' \notin {"fetch", "resolve", "expect", "merge"} \cup Moving
<1>1. CASE Push
  <2>1. upstream' = Len(objects) + 1 /\ Len(objects) \in Nat /\ UNCHANGED <<dir, candidate, backup, pc, a>>
    BY <1>1 DEF Push, TypeOK, Objects
  <2>2. upstream' # dir.got /\ upstream' # backup.got
    BY <2>1, DirFields DEF TypeOK, Commits
  <2>3. FetchInv'
    <3>1. /\ \A t : Near(objects', dir, t) <=> Near(objects, dir, t)
          /\ \A c \in Commits : TreeIn(objects', c) = TreeIn(objects, c)
      BY OwnStays DEF TypeOK
    <3> QED
      BY <1>0, <2>1, <3>1, StateFacts DEF FetchInv
  <2> QED
    BY <1>0, <2>1, <2>2, <2>3 DEF OwnInv, Alone
<1>2. CASE Require \/ UNCHANGED vars
  BY <1>0, <1>2 DEF Require, vars, OwnInv, FetchInv
<1>3. CASE Commit \/ (\E p \in Paths : Stage(p)) \/ (\E b \in Branches : Switch(b))
  <2>1. /\ dir.there /\ dir'.there /\ dir'.got = dir.got /\ UNCHANGED <<backup, candidate, upstream, pc, a>>
        /\ dir'.tracking = dir.tracking
        /\ pc \in {"head", "unref"} => dir'.head = dir.head /\ dir'.refs = dir.refs
    <3>1. CASE Commit
      <4>1. pc \notin {"head", "unref"}
        BY <3>1 DEF Commit, Between
      <4> QED
        BY <3>1, <4>1, CommitEffect, UserStep
    <3>2. ASSUME NEW p \in Paths, Stage(p)
          PROVE  dir'.tracking = dir.tracking /\ dir'.head = dir.head /\ dir'.refs = dir.refs
      BY <3>2, StageEffect
    <3>3. ASSUME NEW b \in Branches, Switch(b)
          PROVE  dir'.tracking = dir.tracking /\ pc \notin {"head", "unref"}
      BY <3>3, SwitchEffect DEF Switch, Between
    <3> QED
      BY <1>3, <3>1, <3>2, <3>3, UserStep
  <2>2. Alone(objects', upstream, dir')
    BY <1>0, <1>3, <2>1, OwnOfUser DEF Alone
  <2>3. FetchInv'
    <3>1. /\ \A t : Near(objects', dir, t) <=> Near(objects, dir, t)
          /\ \A c \in Commits : TreeIn(objects', c) = TreeIn(objects, c)
      BY OwnStays DEF TypeOK
    <3>2. \A t : Near(objects', dir', t) <=> Near(objects', dir, t)
      BY <2>1 DEF Near
    <3> QED
      BY <1>0, <2>1, <3>1, <3>2, StateFacts DEF FetchInv
  <2> QED
    BY <1>0, <2>1, <2>2, <2>3 DEF OwnInv
<1>4. CASE Begin \/ StepFails \/ Crash \/ Record \/ Retries
  <2>1. /\ UNCHANGED <<dir, backup, objects, upstream>> /\ candidate' \in {candidate, NoDir}
        /\ Leaves \/ (pc' = "fetch" /\ dir.there)
    BY <1>0, <1>4 DEF Begin, StepFails, Crash, Record, Retries, Ends, To, Moving, FetchInv
  <2>2. FetchInv'
    BY <2>1 DEF FetchInv, Moving
  <2> QED
    BY <1>0, <2>1, <2>2 DEF OwnInv
<1>5. CASE Receipt
  <2>1. UNCHANGED <<backup, candidate, objects, upstream>> /\ Leaves
    BY <1>5 DEF Receipt, To, Moving
  <2>2. CASE dir' = dir
    BY <1>0, <2>1, <2>2 DEF OwnInv, FetchInv, Moving
  <2>3. CASE Acquired /\ dir' = [dir EXCEPT !.refs["HEAD"] = a.want, !.head = "HEAD"]
    <3>1. dir.there /\ dir.got = a.want
      BY <2>3 DEF Acquired
    <3>2. /\ dir'.index = dir.index /\ dir'.got = dir.got /\ dir'.there /\ dir'.tracking = dir.tracking
          /\ dir'.refs = [dir.refs EXCEPT !["HEAD"] = a.want] /\ dir'.head = "HEAD"
      BY <2>3, <3>1, StateFacts
    <3>3. \A r \in Refs : dir'.refs[r] = IF r = "HEAD" THEN dir.got ELSE dir.refs[r]
      BY <3>1, <3>2, StateFacts
    <3>4. Own(objects, dir) => Own(objects, dir')
      BY <3>2, <3>3, StateFacts DEF Own, Near
    <3>5. Alone(objects', upstream', dir')
      <4>1. dir.tracking = dir.got => Own(objects, dir)
        BY <1>0, <3>1 DEF Alone
      <4>2. dir.tracking = dir.got => Own(objects, dir')
        BY <3>4, <4>1
      <4>3. objects' = objects /\ upstream' = upstream
        BY <2>1
      <4> QED
        BY <1>0, <3>1, <3>2, <4>2, <4>3 DEF Alone
    <3> QED
      BY <1>0, <2>1, <3>5 DEF OwnInv, FetchInv, Moving
  <2> QED
    BY <1>5, <2>2, <2>3 DEF Receipt
<1>6. CASE Acquire
  <2>1. /\ UNCHANGED <<dir, backup, objects, upstream>> /\ Leaves
        /\ candidate' \in {NoDir, Fresh("HEAD", a.want)}
    BY <1>6 DEF Acquire, Ends, To, Moving
  <2>2. candidate'.there => /\ Own(objects', candidate') /\ Whole(objects', candidate')
                            /\ candidate'.tracking = candidate'.got
    BY <1>0, <2>1, FreshIsOwn, StateFacts
  <2> QED
    BY <1>0, <2>1, <2>2 DEF OwnInv, FetchInv, Moving
<1>7. CASE Install \/ Swap \/ SwapFails
  <2>1. /\ UNCHANGED <<objects, upstream>> /\ Leaves
        /\ {dir', backup'} \subseteq {dir, backup, candidate, NoDir} /\ candidate' \in {candidate, NoDir}
        /\ candidate \in {dir', backup'} => candidate.there
    BY <1>7 DEF Install, Swap, SwapFails, Ends, To, PlaceInv, Moving
  <2>2. \A d \in {dir, backup, candidate, NoDir} : Alone(objects', upstream, d)
    BY <1>0 DEF Alone
  <2> QED
    BY <1>0, <2>1, <2>2 DEF OwnInv, FetchInv, Moving
<1>8. CASE BranchStep
  <2>1. UNCHANGED <<objects, upstream, backup, candidate>>
    BY <1>8, InPlace
  <2>2. Alone(objects, upstream, dir') /\ FetchInv'
    BY <1>8, FetchKeepsOwn
  <2> QED
    BY <1>0, <2>1, <2>2 DEF OwnInv
<1>9. CASE Clone \/ Rename
  BY <1>9 DEF Clone, Rename, PlaceInv
<1> QED
  BY <1>1, <1>2, <1>3, <1>4, <1>5, <1>6, <1>7, <1>8, <1>9 DEF Next, BranchStep

(* OwnInv holds in every state. *)
LEMMA OwnInvHolds == AnyTime = {} => (Spec => []OwnInv)
<1> SUFFICES ASSUME AnyTime = {} PROVE Spec => []OwnInv
  OBVIOUS
<1>1. Init => OwnInv
  <2> SUFFICES ASSUME Init PROVE OwnInv
    OBVIOUS
  <2>1. /\ dir \in {NoDir, Made} /\ candidate = NoDir /\ backup = NoDir /\ pc = "idle"
        /\ dir.index = Empty /\ dir.got = 0 /\ dir.tracking = 0 /\ ~NoDir.there
        /\ \A r \in Refs : dir.refs[r] = 0
    BY DEF Init, NoDir, Made
  <2>2. Own(objects, dir)
    BY <2>1 DEF Own, Near, TreeIn
  <2> QED
    BY <2>1, <2>2 DEF OwnInv, Alone, FetchInv, Moving
<1>2. TypeOK /\ PlaceInv /\ FixedInv /\ OwnInv /\ [Next]_vars => OwnInv'
  BY OwnInvNext
<1> QED
  BY <1>1, <1>2, TypeCorrect, PlaceInvHolds, FixedInvHolds, PTL DEF Spec

-----------------------------------------------------------------------------
(* How a preparation ends *)

PastIn(o, c) == IF c = 0 THEN {} ELSE o[c].past

EndInv ==
    /\ result \in {"ok", "placed"} =>
         dir.there /\ (IndexAlone => \A p \in Paths : dir.index[p] \in {Here[p], Mine})
    /\ result \in {"ok", "refused"} => pc = "idle"
    /\ result = "placed" => pc \in {"record", "idle"}
    /\ RefusedForCause

(* The result stays true of a directory that is left alone. *)
LEMMA EndStays ==
    ASSUME TypeOK, EndInv, [Next]_vars, UNCHANGED dir,
           result' \in {result, "none", "failed"},
           result' \in {"ok", "refused"} => pc' = "idle",
           result' = "placed" => pc' \in {"record", "idle"}
    PROVE  EndInv'
<1>1. Here' = Here /\ kind' = kind
  BY SameTrees, KindStays
<1>2. PastIn(objects', dir.tracking) = PastIn(objects, dir.tracking)
  BY TreesStay, StateFacts DEF Past, PastIn
<1> QED
  BY <1>1, <1>2 DEF EndInv, IndexAlone, RefusedForCause, Past, PastIn

(* What a preparation that succeeds, or puts a directory in place, leaves. *)
LEMMA EndsWell ==
    ASSUME result' \in {"ok", "placed"}, dir'.there,
           IndexAlone' => \A p \in Paths : dir'.index[p] \in {Here'[p], Mine},
           result' = "ok" => pc' = "idle", result' = "placed" => pc' \in {"record", "idle"}
    PROVE  EndInv'
  BY DEF EndInv, RefusedForCause

(* A refusal is for what the user did, and leaves the directory alone. *)
LEMMA RefusalInv ==
    ASSUME TypeOK, BranchInv, OwnInv, Expect \/ MergeIndex, result' = "refused", result # "refused"
    PROVE  RefusedForCause' /\ pc' = "idle" /\ dir' = dir
<1>0. UNCHANGED <<objects, kind>>
  BY DEF Expect, MergeIndex, Ends, To
<1>1. CASE Expect
  <2>1. /\ pc = "expect" /\ pc' = "idle" /\ dir' = dir /\ kind = "prepared"
        /\ dir.refs["main"] \notin {0} \cup Past(a.oid)
    BY <1>1 DEF Expect, Ends, To
  <2>2. dir.tracking = a.oid
    BY <2>1 DEF BranchInv, StepInv
  <2> QED
    BY <1>0, <2>1, <2>2 DEF RefusedForCause, Past
<1>2. CASE MergeIndex
  <2>1. pc = "merge" /\ pc' = "idle" /\ dir' = dir /\ ~Merges(dir.index, OldTree, TreeOf(a.oid))
    BY <1>2 DEF MergeIndex, Ends, To, OldTree
  <2>2. PICK p \in Paths : OldTree[p] # TreeOf(a.oid)[p] /\ dir.index[p] \notin {OldTree[p], TreeOf(a.oid)[p]}
    BY <2>1 DEF Merges
  <2>3. CASE kind # "fixed"
    <3>1. SeenInv /\ StepInv /\ ReadInv
      BY <2>3 DEF BranchInv
    <3>2. TreeOf(a.oid) = Tip /\ dir.there
      BY <2>1, <3>1 DEF StepInv, Tip
    <3>3. dir.index[p] = Mine
      BY <2>1, <2>2, <3>1, <3>2 DEF SeenInv, ReadInv
    <3> QED
      BY <2>1, <3>3 DEF RefusedForCause
  <2>4. CASE kind = "fixed" /\ IndexAlone
    <3>1. dir.tracking = dir.got /\ a.oid = dir.got /\ Own(objects, dir)
      BY <2>1, <2>4 DEF IndexAlone, OwnInv, Alone, FetchInv
    <3>2. TreeOf(a.oid) = TreeIn(objects, dir.got)
      BY <3>1 DEF TreeOf, TreeIn
    <3>3. dir.index[p] = Mine
      BY <2>2, <3>1, <3>2 DEF Own, Near
    <3> QED
      BY <2>1, <3>3 DEF RefusedForCause
  <2>5. CASE ~IndexAlone
    BY <1>0, <2>1, <2>5 DEF RefusedForCause, IndexAlone
  <2> QED
    BY <2>1, <2>3, <2>4, <2>5
<1> QED
  BY <1>1, <1>2

(* Every step keeps EndInv. *)
LEMMA EndInvNext ==
    ASSUME AnyTime = {}, TypeOK, PlaceInv, ReceiptInv, FixedInv, BranchInv, OwnInv, EndInv, [Next]_vars
    PROVE  EndInv'
<1> USE DEF To
<1>i. pc # "idle" => result \notin {"ok", "refused"} /\ (result = "placed" => pc = "record")
  BY DEF EndInv
<1>1. CASE Push \/ Require \/ Begin \/ UNCHANGED vars
  <2>1. /\ UNCHANGED dir /\ result' \in {result, "none"}
        /\ result' = "none" \/ (result' = result /\ pc' = pc)
    BY <1>1 DEF Push, Require, Begin, vars
  <2> QED
    BY <2>1, EndStays DEF EndInv
<1>2. CASE Commit \/ (\E p \in Paths : Stage(p)) \/ (\E b \in Branches : Switch(b))
  BY <1>2, UserStep DEF EndInv, RefusedForCause
<1>3. CASE Retries \/ StepFails \/ Crash \/ Clone \/ Resolve \/ MoveRefFails \/ MoveHeadFails
  <2>1. /\ UNCHANGED dir /\ result' \in {result, "failed"} /\ pc # "idle"
        /\ result' = "placed" => pc' \in {"record", "idle"}
    BY <1>i, <1>3 DEF Retries, StepFails, Crash, Clone, Resolve, MoveRefFails, MoveHeadFails, Ends
  <2> QED
    BY <1>i, <2>1, EndStays
<1>4. CASE Fetch \/ RestoreRef \/ RestoreIndex \/ SwapFails
  BY <1>i, <1>4 DEF Fetch, RestoreRef, RestoreIndex, SwapFails, Ends, EndInv, RefusedForCause
<1>5. CASE Rename
  <2>1. dir' = candidate /\ pc = "rename" /\ pc' = "idle" /\ result' = "ok" /\ kind # "fixed"
    BY <1>5 DEF Rename, Ends, PlaceInv, OfBranch
  <2>2. dir'.there /\ candidate.index = TreeOf(candidate.refs[candidate.head])
    BY <2>1 DEF PlaceInv, BranchInv, StepInv
  <2>3. Here' = dir'.index
    BY <2>1, <2>2, SameTrees, DirFields DEF TypeOK
  <2> QED
    BY <2>1, <2>2, <2>3, EndsWell
<1>6. CASE Expect \/ MergeIndex
  <2>2. CASE result' = "refused"
    <3>1. result # "refused"
      BY <1>i, <1>6 DEF Expect, MergeIndex
    <3>2. RefusedForCause' /\ pc' = "idle"
      BY <1>6, <2>2, <3>1, RefusalInv
    <3> QED
      BY <2>2, <3>2 DEF EndInv
  <2>3. CASE result' # "refused"
    BY <1>i, <1>6, <2>3 DEF Expect, MergeIndex, Ends, EndInv, RefusedForCause
  <2> QED
    BY <2>2, <2>3
<1>7. CASE MoveRef \/ MoveHead
  <2>0. pc \in Moving /\ UNCHANGED <<objects, upstream>> /\ result \notin {"ok", "refused", "placed"}
    BY <1>i, <1>7 DEF MoveRef, MoveHead, FetchDone, Moving, Ends
  <2>3. CASE result' = "ok"
    <3>1. /\ pc' = "idle" /\ kind # "fixed"
          /\ \/ dir' = [dir EXCEPT !.refs["HEAD"] = a.oid, !.head = "HEAD"]
             \/ pc = "head" /\ dir' = [dir EXCEPT !.head = "main"]
      BY <1>7, <2>0, <2>3 DEF MoveRef, MoveHead, FetchDone, Ends
    <3>0. /\ dir.there /\ \A p \in Paths : dir.index[p] \in {Tip[p], Mine}
          /\ a.oid = upstream /\ (pc = "head" => dir.refs["main"] = upstream)
      BY <2>0, <3>1 DEF BranchInv, StepInv, MovedInv
    <3>2. dir'.index = dir.index /\ dir'.there /\ dir'.refs[dir'.head] = upstream
      <4>1. ASSUME dir' = [dir EXCEPT !.refs["HEAD"] = a.oid, !.head = "HEAD"]
            PROVE  dir'.index = dir.index /\ dir'.there /\ dir'.refs[dir'.head] = upstream
        BY <3>0, <4>1, StateFacts
      <4>2. ASSUME pc = "head", dir' = [dir EXCEPT !.head = "main"]
            PROVE  dir'.index = dir.index /\ dir'.there /\ dir'.refs[dir'.head] = upstream
        BY <3>0, <4>2, StateFacts
      <4> QED
        BY <3>1, <4>1, <4>2
    <3>3. Here' = Tip
      BY <3>2, SameTrees, StateFacts DEF Tip
    <3> QED
      BY <2>3, <3>0, <3>1, <3>2, <3>3, EndsWell
  <2>4. CASE result' # "ok"
    <3>1. result' = result
      BY <1>7, <2>4 DEF MoveRef, MoveHead, FetchDone, Ends
    <3> QED
      BY <2>0, <3>1 DEF EndInv, RefusedForCause
  <2> QED
    BY <2>3, <2>4
<1>8. CASE Receipt
  <2>1. CASE result' = "placed"
    <3>1. Acquired /\ pc' = "record" /\ dir' = [dir EXCEPT !.refs["HEAD"] = a.want, !.head = "HEAD"]
      BY <1>i, <1>8, <2>1 DEF Receipt
    <3>2. dir.there /\ dir.got = a.want /\ kind = "fixed"
      BY <1>8, <3>1 DEF Acquired, Receipt, PlaceInv, OfCommit
    <3>3. /\ dir'.index = dir.index /\ dir'.there /\ dir'.refs[dir'.head] = a.want
          /\ dir'.tracking = dir.tracking /\ dir'.got = dir.got /\ kind' = kind
      BY <3>1, <3>2, StateFacts, KindStays
    <3>4. Here' = TreeIn(objects, dir.got)
      BY <3>2, <3>3, SameTrees, StateFacts DEF TreeIn, TreeOf
    <3>5. IndexAlone' => Near(objects, dir, dir.index)
      BY <3>2, <3>3 DEF IndexAlone, OwnInv, Alone, Own
    <3>6. IndexAlone' => \A p \in Paths : dir'.index[p] \in {Here'[p], Mine}
      BY <3>3, <3>4, <3>5 DEF Near
    <3> QED
      BY <2>1, <3>1, <3>3, <3>6, EndsWell
  <2>2. CASE result' # "placed"
    <3>1. result' = result /\ result \notin {"ok", "refused"}
      BY <1>i, <1>8, <2>2 DEF Receipt
    <3> QED
      BY <2>2, <3>1 DEF EndInv, RefusedForCause
  <2> QED
    BY <2>1, <2>2
<1>9. CASE Acquire
  BY <1>i, <1>9, EndStays DEF Acquire, Ends
<1>10. CASE Install \/ Swap
  <2>1. CASE result' # "placed"
    BY <1>i, <1>10, <2>1 DEF Install, Swap, EndInv, RefusedForCause
  <2>2. CASE result' = "placed"
    <3>1. dir' = candidate /\ pc' = "record" /\ candidate.there /\ kind = "fixed"
      BY <1>i, <1>10, <2>2 DEF Install, Swap, PlaceInv, OfCommit
    <3>2. candidate.index = TreeOf(candidate.refs[candidate.head])
      BY <3>1 DEF OwnInv, Whole, TreeIn, TreeOf
    <3>3. Here' = dir'.index
      BY <3>1, <3>2, SameTrees, DirFields DEF TypeOK
    <3> QED
      BY <2>2, <3>1, <3>3, EndsWell
  <2> QED
    BY <2>1, <2>2
<1>11. CASE Record
  <2>1. CASE result' = "ok"
    <3>1. result = "placed" /\ pc' = "idle" /\ dir' = dir
      BY <1>11, <2>1 DEF Record, Ends
    <3>2. Here' = Here
      BY <3>1, SameTrees
    <3>3. IndexAlone' = IndexAlone
      BY <3>1, KindStays DEF IndexAlone
    <3> QED
      BY <2>1, <3>1, <3>2, <3>3, EndsWell DEF EndInv
  <2>2. CASE result' # "ok"
    BY <1>11, <2>2, EndStays DEF Record, Ends
  <2> QED
    BY <2>1, <2>2
<1> QED
  BY <1>1, <1>2, <1>3, <1>4, <1>5, <1>6, <1>7, <1>8, <1>9, <1>10, <1>11 DEF Next

(* EndInv holds in every state. *)
LEMMA EndInvHolds == AnyTime = {} => (Spec => []EndInv)
<1> SUFFICES ASSUME AnyTime = {} PROVE Spec => []EndInv
  OBVIOUS
<1>1. Init => EndInv
  BY DEF Init, EndInv, RefusedForCause
<1>2. TypeOK /\ PlaceInv /\ ReceiptInv /\ FixedInv /\ BranchInv /\ OwnInv /\ EndInv /\ [Next]_vars => EndInv'
  BY EndInvNext
<1>3. Spec => []BranchInv
  BY BranchInvHolds
<1>4. Spec => []OwnInv
  BY OwnInvHolds
<1> QED
  BY <1>1, <1>2, <1>3, <1>4, TypeCorrect, PlaceInvHolds, ReceiptInvHolds, FixedInvHolds, PTL DEF Spec

(* After a preparation that succeeded nothing is staged but what the user       *)
(* staged, whatever stopped the ones before it, if the user does not commit or  *)
(* check out and upstream does not move while the index is ahead of HEAD; but   *)
(* for a required commit only as long as no other one was fetched into its      *)
(* directory (PrepareFetchedBranch, PrepareSource).                             *)
THEOREM StagedIsUsersHolds == AnyTime = {} => (Spec => []StagedIsUsers)
<1>1. EndInv => StagedIsUsers
  BY DEF EndInv, StagedIsUsers, Staged, Here
<1>2. (AnyTime = {} => (Spec => []EndInv)) => (AnyTime = {} => (Spec => []StagedIsUsers))
  BY <1>1, PTL
<1> QED
  BY <1>2, EndInvHolds

(* A preparation is refused only for what the user staged or committed, under   *)
(* the same hypothesis and with the same exception (preparedBranchExpectedOID,  *)
(* read-tree -m).                                                              *)
THEOREM RefusedForCauseHolds == AnyTime = {} => (Spec => []RefusedForCause)
<1>1. EndInv => RefusedForCause
  BY DEF EndInv
<1>2. (AnyTime = {} => (Spec => []EndInv)) => (AnyTime = {} => (Spec => []RefusedForCause))
  BY <1>1, PTL
<1> QED
  BY <1>2, EndInvHolds
=============================================================================
