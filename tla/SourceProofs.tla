---------------------------- MODULE SourceProofs ----------------------------
(* What holds of the git directory for any number of paths, commits, steps of *)
(* the user, attempts and failures.                                          *)
EXTENDS Source, TLAPS

-----------------------------------------------------------------------------
(* Directories, trees and commits *)

(* A directory stays one when commits are added. *)
LEMMA DirsGrow ==
    ASSUME Commits \subseteq Commits'
    PROVE  Dirs \subseteq Dirs'
<1> SUFFICES ASSUME NEW d \in Dirs PROVE d \in Dirs'
  OBVIOUS
<1>1. d.refs \in [Refs -> Commits']
  BY DEF Dirs
<1>2. d = [there |-> d.there, refs |-> d.refs, head |-> d.head, tracking |-> d.tracking,
           index |-> d.index, got |-> d.got]
  BY DEF Dirs
<1>3. /\ d.there \in BOOLEAN /\ d.head \in Refs /\ d.tracking \in Commits'
      /\ d.index \in Trees /\ d.got \in Commits'
  BY DEF Dirs
<1> QED
  BY <1>1, <1>2, <1>3 DEF Dirs

(* What the steps change of a directory. *)
LEMMA DirEdit ==
    ASSUME NEW d \in Dirs
    PROVE  /\ \A r \in Refs, c \in Commits : [d EXCEPT !.refs[r] = c] \in Dirs
           /\ \A r \in Refs, c \in Commits, h \in Refs : [d EXCEPT !.refs[r] = c, !.head = h] \in Dirs
           /\ \A h \in Refs : [d EXCEPT !.head = h] \in Dirs
           /\ \A x \in Trees : [d EXCEPT !.index = x] \in Dirs
           /\ \A c \in Commits : [d EXCEPT !.tracking = c] \in Dirs
           /\ \A r \in Refs, c \in Commits, h \in Refs, x \in Trees :
                [d EXCEPT !.head = h, !.refs[r] = c, !.index = x] \in Dirs
<1>1. \A r \in Refs, c \in Commits : [d.refs EXCEPT ![r] = c] \in [Refs -> Commits]
  BY DEF Dirs
<1> QED
  BY <1>1 DEF Dirs

(* What the fields of a directory are. *)
LEMMA DirFields ==
    ASSUME NEW d \in Dirs
    PROVE  /\ d.there \in BOOLEAN /\ d.refs \in [Refs -> Commits] /\ d.head \in Refs
           /\ d.tracking \in Commits /\ d.index \in Trees /\ d.got \in Commits
           /\ d.refs[d.head] \in Commits
           /\ \A r \in Refs : d.refs[r] \in Commits
  BY DEF Dirs

(* The names the preparation and the user move are refs. *)
LEMMA RefNames == "main" \in Refs /\ "HEAD" \in Refs /\ Branches \subseteq Refs
  BY DEF Refs, Branches

(* No directory, and an empty one, are directories. *)
LEMMA NoDirIsDir == Len(objects) \in Nat => NoDir \in Dirs /\ Made \in Dirs
<1> SUFFICES ASSUME Len(objects) \in Nat PROVE NoDir \in Dirs /\ Made \in Dirs
  OBVIOUS
<1>1. 0 \in Commits /\ Nothing \in Content
  BY ConstantsAssumption DEF Commits, Content, Nothing
<1>2. Empty \in Trees /\ [r \in Refs |-> 0] \in [Refs -> Commits]
  BY <1>1 DEF Empty, Trees
<1>3. NoDir \in Dirs
  BY <1>1, <1>2, RefNames DEF NoDir, Dirs
<1>4. \A d \in Dirs : [d EXCEPT !.there = TRUE] \in Dirs
  BY DEF Dirs
<1> QED
  BY <1>3, <1>4 DEF Made

(* What a commit is. *)
LEMMA CommitFacts ==
    ASSUME Objects, NEW c \in Commits
    PROVE  TreeOf(c) \in Trees /\ Past(c) \subseteq 1 .. Len(objects)
<1>1. Empty \in Trees
  BY ConstantsAssumption DEF Empty, Trees, Content, Nothing
<1>2. CASE c = 0
  BY <1>1, <1>2 DEF TreeOf, Past
<1>3. CASE c # 0
  <2>1. c \in 1 .. Len(objects) /\ Len(objects) \in Nat
    BY <1>3 DEF Commits, Objects
  <2>2. objects[c] \in Object
    BY <2>1 DEF Objects
  <2>5. objects[c].past \subseteq 1 .. c
    BY <2>1 DEF Objects
  <2>3. objects[c].tree \in Trees
    BY <2>2 DEF Object
  <2>4. objects[c].past \subseteq 1 .. Len(objects)
    BY <2>1, <2>5
  <2> QED
    BY <1>3, <2>3, <2>4 DEF TreeOf, Past
<1> QED
  BY <1>2, <1>3

(* A commit on top of a history that is known is one, and itself in its history. *)
LEMMA NewObject ==
    ASSUME Objects, NEW P, P \subseteq 1 .. Len(objects), NEW t \in Trees
    PROVE  LET o == [past |-> P \cup {Len(objects) + 1}, tree |-> t] IN
             o \in Object /\ Len(objects) + 1 \in o.past /\ o.past \subseteq 1 .. Len(objects) + 1
<1> DEFINE Q == P \cup {Len(objects) + 1}
<1>1. Len(objects) \in Nat
  BY DEF Objects
<1>2. \A i \in Q : i \in Nat /\ i \in 1 .. Len(objects) + 1
  BY <1>1
<1>3. Len(objects) + 1 \in Q /\ Q \in SUBSET Nat /\ Q \subseteq 1 .. Len(objects) + 1
  BY <1>2
<1> HIDE DEF Q
<1>4. [past |-> Q, tree |-> t] \in Object /\ [past |-> Q, tree |-> t].past = Q
  BY <1>3 DEF Object
<1> QED
  BY <1>3, <1>4 DEF Q

(* A commit that is added has the next number, and all others stay as they are. *)
LEMMA NewCommit ==
    ASSUME Objects, NEW o \in Object, Len(objects) + 1 \in o.past, o.past \subseteq 1 .. Len(objects) + 1,
           objects' = Append(objects, o)
    PROVE  /\ Objects' /\ Len(objects') = Len(objects) + 1 /\ Len(objects) \in Nat
           /\ \A i \in 1 .. Len(objects) : objects'[i] = objects[i]
           /\ objects'[Len(objects) + 1] = o
           /\ Commits \subseteq Commits' /\ Len(objects) + 1 \in Commits'
           /\ Dirs \subseteq Dirs'
<1>1. objects \in Seq(Object) /\ Len(objects) \in Nat
  BY DEF Objects
<1>3. /\ objects' \in Seq(Object) /\ Len(objects') = Len(objects) + 1
      /\ objects'[Len(objects) + 1] = o /\ \A i \in 1 .. Len(objects) : objects'[i] = objects[i]
  BY <1>1
<1>4. ASSUME NEW i \in 1 .. Len(objects') PROVE i \in objects'[i].past /\ objects'[i].past \subseteq 1 .. i
  <2>1. CASE i = Len(objects) + 1
    BY <1>1, <1>3, <2>1
  <2>2. CASE i # Len(objects) + 1
    <3>1. i \in 1 .. Len(objects)
      BY <1>1, <1>3, <2>2
    <3> QED
      BY <1>3, <3>1 DEF Objects
  <2> QED
    BY <2>1, <2>2
<1>5. Commits \subseteq Commits' /\ Len(objects) + 1 \in Commits'
  BY <1>1, <1>3 DEF Commits
<1> QED
  BY <1>1, <1>3, <1>4, <1>5, DirsGrow DEF Objects

(* What a push leaves is a tree. *)
LEMMA PushedTree ==
    ASSUME TypeOK, Push, NEW P \in SUBSET Paths
    PROVE  [p \in Paths |-> IF p \in P THEN spent.pushes + 3 ELSE TreeOf(upstream)[p]] \in Trees
<1>1. spent.pushes \in 0 .. MaxPushes /\ spent.pushes < MaxPushes
  BY DEF Push, Spend, TypeOK, Spending
<1>2. spent.pushes + 3 \in Content
  BY <1>1, ConstantsAssumption DEF Content
<1>3. TreeOf(upstream) \in Trees
  BY CommitFacts DEF TypeOK
<1> QED
  BY <1>2, <1>3 DEF Trees

(* What git read-tree -m leaves is a tree. *)
LEMMA MergedTree ==
    ASSUME NEW x \in Trees, NEW y \in Trees, NEW z \in Trees
    PROVE  Merged(x, y, z) \in Trees
  BY DEF Merged, Trees

(* A directory cloned or acquired anew is one. *)
LEMMA FreshIsDir ==
    ASSUME Objects, NEW r \in Refs, NEW c \in Commits
    PROVE  Fresh(r, c) \in Dirs /\ Fresh(r, c).there /\ Fresh(r, c).got = c
<1>1. NoDir \in Dirs
  BY NoDirIsDir DEF Objects
<1>2. [NoDir.refs EXCEPT ![r] = c] \in [Refs -> Commits]
  BY <1>1, DirFields
<1> QED
  BY <1>2, CommitFacts DEF Fresh, Dirs

-----------------------------------------------------------------------------
(* Types *)

(* A step that adds no commit. *)
LEMMA StepTypes ==
    ASSUME TypeOK, UNCHANGED <<kind, objects>>,
           upstream' \in Commits, required' \in Commits, receipt' \in Commits,
           dir' \in Dirs, candidate' \in Dirs, backup' \in Dirs,
           pc' \in PCs, a' \in Attempts, result' \in Results,
           mine' \subseteq Commits \ {0}, spent' \in Spending
    PROVE  TypeOK'
<1>1. Commits' = Commits
  BY DEF Commits
<1>2. Dirs' = Dirs /\ Attempts' = Attempts
  BY <1>1 DEF Dirs, Attempts
<1>3. Objects'
  BY DEF TypeOK, Objects
<1>4. Spending' = Spending
  BY DEF Spending
<1> QED
  BY <1>1, <1>2, <1>3, <1>4 DEF TypeOK

(* What a bound still allows is used up by one. *)
LEMMA SpendTypes ==
    ASSUME TypeOK
    PROVE  /\ Spend("pushes", MaxPushes) \/ Spend("edits", MaxEdits[kind]) \/ Spend("attempts", MaxAttempts[kind])
              \/ Spend("faults", MaxFaults) => spent' \in Spending
           /\ \A dead \in BOOLEAN : Fault(dead) => spent' \in Spending /\ a' \in Attempts
           /\ Fails => spent' \in Spending /\ a' \in Attempts
           /\ spent \in Spending
<1>1. /\ spent \in Spending /\ a \in Attempts
      /\ {MaxPushes, MaxFaults, MaxEdits[kind], MaxAttempts[kind]} \subseteq Nat
  BY ConstantsAssumption DEF TypeOK
<1>2. Spend("pushes", MaxPushes) \/ Spend("edits", MaxEdits[kind]) \/ Spend("attempts", MaxAttempts[kind])
        \/ Spend("faults", MaxFaults) => spent' \in Spending
  BY <1>1 DEF Spend, Spending
<1>3. \A dead \in BOOLEAN : Fault(dead) => spent' \in Spending /\ a' \in Attempts
  BY <1>1, <1>2 DEF Fault, Attempts
<1> QED
  BY <1>1, <1>2, <1>3 DEF Fails

(* No attempt is an attempt's record. *)
LEMMA IdleIsAttempt == Objects => Idle \in Attempts
  BY ConstantsAssumption DEF Idle, Attempts, Commits, Objects

(* The first state has the types. *)
LEMMA TypeInit == Init => TypeOK
<1> SUFFICES ASSUME Init PROVE TypeOK
  OBVIOUS
<1> DEFINE tree == [p \in Paths |-> 2]
<1>1. tree \in Trees
  BY ConstantsAssumption DEF Trees, Content
<1>2. [past |-> {1}, tree |-> tree] \in Object
  BY <1>1 DEF Object
<1> DEFINE o == [past |-> {1}, tree |-> tree]
<1>3. objects = <<o>> /\ o.past = {1}
  BY DEF Init
<1>4. Objects /\ Len(objects) = 1
  <2> HIDE DEF o
  <2> QED
    BY <1>2, <1>3 DEF Objects, o
<1>5. NoDir \in Dirs /\ Made \in Dirs
  BY <1>4, NoDirIsDir
<1>6. Idle \in Attempts
  BY <1>4, IdleIsAttempt
<1>7. spent \in Spending
  <2>1. MaxEdits[kind] \in Nat /\ MaxAttempts[kind] \in Nat
    BY ConstantsAssumption DEF Init
  <2> QED
    BY <2>1, ConstantsAssumption DEF Init, Spending
<1>8. 0 \in Commits /\ 1 \in Commits
  BY <1>4 DEF Commits
<1> QED
  BY <1>4, <1>5, <1>6, <1>7, <1>8 DEF Init, TypeOK, PCs, Results

(* Every step keeps the types; one step of the proof per action. *)
LEMMA TypeNext == TypeOK /\ [Next]_vars => TypeOK'
<1> SUFFICES ASSUME TypeOK, [Next]_vars PROVE TypeOK'
  OBVIOUS
<1> USE DEF To, Runs
<1>0. /\ Objects /\ Len(objects) \in Nat /\ Commits = 0 .. Len(objects) /\ 0 \in Commits
      /\ kind \in Kinds /\ upstream \in Commits /\ required \in Commits /\ receipt \in Commits
      /\ dir \in Dirs /\ candidate \in Dirs /\ backup \in Dirs
      /\ pc \in PCs /\ a \in Attempts /\ result \in Results
      /\ mine \subseteq Commits \ {0} /\ spent \in Spending
      /\ NoDir \in Dirs /\ Idle \in Attempts
      /\ HEAD \in Commits /\ dir.index \in Trees /\ dir.tracking \in Commits /\ dir.head \in Refs
      /\ \A r \in Refs : dir.refs[r] \in Commits
  BY NoDirIsDir, IdleIsAttempt, DirFields DEF TypeOK, Objects, Commits, HEAD
<1>a. /\ a.oid \in Commits /\ a.old \in Commits /\ a.expected \in Commits /\ a.tries \in 0 .. Tries - 1
      /\ \A c \in Commits : [a EXCEPT !.oid = c] \in Attempts /\ [a EXCEPT !.expected = c] \in Attempts
      /\ \A c, d \in Commits : [a EXCEPT !.oid = c, !.old = d] \in Attempts
      /\ \A c, d \in Commits : [Idle EXCEPT !.want = c, !.read = d] \in Attempts
      /\ a.want \in Commits /\ a.read \in Commits
      /\ [Idle EXCEPT !.want = a.want, !.read = a.read] \in Attempts
  <2>1. /\ a.oid \in Commits /\ a.old \in Commits /\ a.expected \in Commits /\ a.tries \in 0 .. Tries - 1
        /\ a.want \in Commits /\ a.read \in Commits
    BY <1>0 DEF Attempts
  <2>2. \A x \in Attempts : \A c, d \in Commits :
          /\ [x EXCEPT !.oid = c] \in Attempts /\ [x EXCEPT !.expected = c] \in Attempts
          /\ [x EXCEPT !.oid = c, !.old = d] \in Attempts
          /\ [x EXCEPT !.want = c, !.read = d] \in Attempts
    BY DEF Attempts
  <2> QED
    BY <1>0, <2>1, <2>2
<1>1. CASE Push
  <2>1. PICK P \in (SUBSET Paths) \ {{}} :
          objects' = Append(objects, [past |-> Past(upstream) \cup {Len(objects) + 1},
             tree |-> [p \in Paths |-> IF p \in P THEN spent.pushes + 3 ELSE TreeOf(upstream)[p]]])
    BY <1>1 DEF Push
  <2>2. spent' \in Spending
    BY <1>1, SpendTypes DEF Push
  <2>3. [p \in Paths |-> IF p \in P THEN spent.pushes + 3 ELSE TreeOf(upstream)[p]] \in Trees
    BY <1>1, PushedTree
  <2>4. Past(upstream) \in SUBSET (1 .. Len(objects))
    BY <1>0, CommitFacts
  <2>5. Objects' /\ Len(objects') \in Nat \ {0} /\ Commits \subseteq Commits' /\ Dirs \subseteq Dirs'
    <3> DEFINE t == [p \in Paths |-> IF p \in P THEN spent.pushes + 3 ELSE TreeOf(upstream)[p]]
               o == [past |-> Past(upstream) \cup {Len(objects) + 1}, tree |-> t]
    <3>1. t \in Trees /\ objects' = Append(objects, o)
      BY <2>1, <2>3
    <3>2. o \in Object /\ Len(objects) + 1 \in o.past /\ o.past \subseteq 1 .. Len(objects) + 1
      <4> HIDE DEF t
      <4> QED
        BY <1>0, <2>4, <3>1, NewObject
    <3> HIDE DEF o
    <3> QED
      BY <1>0, <3>1, <3>2, NewCommit
  <2>6. Attempts \subseteq Attempts' /\ Len(objects') \in Commits'
    BY <2>5 DEF Attempts, Commits
  <2>7. Spending' = Spending
    BY <1>1 DEF Push, Spending
  <2> QED
    BY <1>0, <1>1, <2>2, <2>5, <2>6, <2>7 DEF Push, TypeOK
<1>2. CASE Require
  BY <1>0, <1>2, StepTypes DEF Require, Results
<1>3. ASSUME NEW p \in Paths, Stage(p) PROVE TypeOK'
  <2>1. [dir.index EXCEPT ![p] = Mine] \in Trees
    BY <1>0, ConstantsAssumption DEF Trees, Content, Mine
  <2>2. dir' \in Dirs
    BY <1>0, <1>3, <2>1 DEF Stage, UserDoes, Dirs
  <2> QED
    BY <1>0, <1>3, <2>2, StepTypes, SpendTypes DEF Stage, UserDoes, Results
<1>4. CASE Commit
  <2> DEFINE c == Len(objects) + 1
  <2>1. /\ dir' = [dir EXCEPT !.refs[dir.head] = c]
        /\ objects' = Append(objects, [past |-> Past(HEAD) \cup {c}, tree |-> dir.index])
        /\ mine' \subseteq mine \cup {c}
        /\ UNCHANGED <<kind, upstream, required, receipt, candidate, backup, pc, a>>
        /\ result' = "none" /\ Spend("edits", MaxEdits[kind])
    BY <1>4 DEF Commit, UserDoes
  <2>2. Past(HEAD) \in SUBSET (1 .. Len(objects))
    BY <1>0, CommitFacts
  <2>3. Objects' /\ Commits \subseteq Commits' /\ Dirs \subseteq Dirs' /\ c \in Commits' /\ c # 0
    <3> DEFINE o == [past |-> Past(HEAD) \cup {c}, tree |-> dir.index]
    <3>1. o \in Object /\ c \in o.past /\ o.past \subseteq 1 .. c
      BY <1>0, <2>2, NewObject
    <3>2. objects' = Append(objects, o)
      BY <2>1
    <3> HIDE DEF o
    <3> QED
      BY <1>0, <3>1, <3>2, NewCommit
  <2>4. dir' \in Dirs'
    <3>1. dir \in Dirs' /\ c \in Commits'
      BY <1>0, <2>3
    <3>2. [dir.refs EXCEPT ![dir.head] = c] \in [Refs -> Commits']
      BY <3>1 DEF Dirs
    <3> QED
      BY <2>1, <3>1, <3>2 DEF Dirs
  <2>5. Attempts \subseteq Attempts'
    BY <2>3 DEF Attempts
  <2>6. Spending' = Spending
    BY <2>1 DEF Spending
  <2> QED
    BY <1>0, <2>1, <2>3, <2>4, <2>5, <2>6, SpendTypes DEF TypeOK, Results
<1>5. ASSUME NEW b \in Branches, Switch(b) PROVE TypeOK'
  <2> DEFINE c == IF dir.refs[b] = 0 THEN HEAD ELSE dir.refs[b]
  <2>1. c \in Commits /\ b \in Refs
    BY <1>0, RefNames
  <2>2. dir' \in Dirs
    BY <1>0, <1>5, <2>1, CommitFacts, DirEdit DEF Switch, UserDoes
  <2> QED
    BY <1>0, <1>5, <2>2, StepTypes, SpendTypes DEF Switch, UserDoes, Results
<1>6. CASE Begin
  <2>1. a' \in Attempts
    <3>1. PICK read \in {0, receipt} :
            a' = [Idle EXCEPT !.want = IF kind = "fixed" THEN required ELSE 0, !.read = read]
      BY <1>6 DEF Begin
    <3>2. (IF kind = "fixed" THEN required ELSE 0) \in Commits /\ read \in Commits
      BY <1>0
    <3> QED
      BY <1>a, <3>1, <3>2
  <2>2. pc' \in PCs
    BY <1>6 DEF Begin, PCs
  <2> QED
    BY <1>0, <1>6, <2>1, <2>2, StepTypes, SpendTypes DEF Begin, Results
<1>7. CASE Retries
  <2>1. a' \in Attempts
    <3>1. a.tries + 1 \in 0 .. Tries - 1
      <4>1. a.tries + 1 < Tries
        BY <1>7 DEF Retries
      <4>2. a.tries \in 0 .. Tries - 1
        BY <1>a
      <4>3. Tries \in Nat
        BY ConstantsAssumption
      <4> QED
        BY <4>1, <4>2, <4>3
    <3> QED
      BY <1>0, <1>7, <3>1 DEF Retries, Attempts
  <2> QED
    BY <1>0, <1>7, <2>1, StepTypes, SpendTypes DEF Retries
<1>8. CASE StepFails
  <2>1. spent' \in Spending
    <3>1. spent.faults \in 0 .. MaxFaults
      BY <1>0 DEF Spending
    <3>2. (IF a.dead THEN spent.faults ELSE spent.faults + 1) \in 0 .. MaxFaults
      BY <1>8, <3>1, ConstantsAssumption DEF StepFails
    <3> QED
      BY <1>0, <1>8, <3>2 DEF StepFails, Spending
  <2> QED
    BY <1>0, <1>8, <2>1, StepTypes DEF StepFails, Ends, PCs, Results
<1>9. CASE Crash
  BY <1>0, <1>9, StepTypes, SpendTypes DEF Crash, PCs
<1>10. CASE Clone
  BY <1>0, <1>10, StepTypes, FreshIsDir, RefNames DEF Clone, PCs
<1>11. CASE Rename
  BY <1>0, <1>11, StepTypes DEF Rename, Ends, PCs, Results
<1>12. CASE Fetch
  BY <1>0, <1>12, StepTypes, DirEdit, RefNames DEF Fetch, PCs
<1>13. CASE Resolve
  BY <1>0, <1>13, <1>a, StepTypes DEF Resolve, PCs
<1>14. CASE Expect
  BY <1>0, <1>14, <1>a, StepTypes, RefNames DEF Expect, Ends, Target, PCs, Results
<1>15. CASE MergeIndex
  <2>1. Merged(dir.index, TreeOf(a.old), TreeOf(a.oid)) \in Trees
    BY <1>0, <1>a, MergedTree, CommitFacts
  <2>2. dir' \in Dirs
    <3>1. dir' = dir \/ dir' = [dir EXCEPT !.index = Merged(dir.index, TreeOf(a.old), TreeOf(a.oid))]
      BY <1>15 DEF MergeIndex
    <3>2. [dir EXCEPT !.index = Merged(dir.index, TreeOf(a.old), TreeOf(a.oid))] \in Dirs
      BY <1>0, <2>1, DirEdit
    <3> QED
      BY <1>0, <3>1, <3>2
  <2> QED
    BY <1>0, <1>15, <2>2, StepTypes DEF MergeIndex, Ends, PCs, Results
<1>16. CASE MoveRef
  <2>1. dir' \in Dirs
    <3>1. \/ dir' = dir
          \/ dir' = [dir EXCEPT !.refs["HEAD"] = a.oid, !.head = "HEAD"]
          \/ dir' = [dir EXCEPT !.refs["main"] = a.oid]
      BY <1>16 DEF MoveRef
    <3>2. /\ [dir EXCEPT !.refs["HEAD"] = a.oid, !.head = "HEAD"] \in Dirs
          /\ [dir EXCEPT !.refs["main"] = a.oid] \in Dirs
      BY <1>0, <1>a, DirEdit, RefNames
    <3> QED
      BY <1>0, <3>1, <3>2
  <2>2. a' \in Attempts
    BY <1>0, <1>16, <1>a DEF MoveRef, FetchDone, Ends
  <2> QED
    BY <1>0, <1>16, <2>1, <2>2, StepTypes DEF MoveRef, FetchDone, Ends, PCs, Results
<1>17. CASE MoveRefFails
  BY <1>0, <1>17, StepTypes, SpendTypes DEF MoveRefFails, PCs
<1>18. CASE MoveHead
  <2>1. dir' \in Dirs
    BY <1>0, <1>18, DirEdit, RefNames DEF MoveHead
  <2>2. a' \in Attempts
    BY <1>0, <1>18, <1>a DEF MoveHead, FetchDone, Ends
  <2> QED
    BY <1>0, <1>18, <2>1, <2>2, StepTypes DEF MoveHead, FetchDone, Ends, PCs, Results
<1>19. CASE MoveHeadFails
  BY <1>0, <1>19, StepTypes, SpendTypes DEF MoveHeadFails, PCs
<1>20. CASE RestoreRef
  <2>1. dir' \in Dirs
    <3>1. dir' = dir \/ dir' = [dir EXCEPT !.refs["main"] = a.expected]
      BY <1>20 DEF RestoreRef
    <3>2. [dir EXCEPT !.refs["main"] = a.expected] \in Dirs
      BY <1>0, <1>a, DirEdit, RefNames
    <3> QED
      BY <1>0, <3>1, <3>2
  <2>2. a' \in Attempts /\ spent' \in Spending
    BY <1>0, <1>20, SpendTypes DEF RestoreRef
  <2> QED
    BY <1>0, <1>20, <2>1, <2>2, StepTypes DEF RestoreRef, PCs
<1>21. CASE RestoreIndex
  <2>1. Merged(dir.index, TreeOf(a.oid), TreeOf(a.old)) \in Trees
    BY <1>0, <1>a, MergedTree, CommitFacts
  <2>2. dir' \in Dirs
    <3>1. \/ dir' = dir
          \/ dir' = [dir EXCEPT !.index = Merged(dir.index, TreeOf(a.oid), TreeOf(a.old))]
      BY <1>21 DEF RestoreIndex
    <3>2. [dir EXCEPT !.index = Merged(dir.index, TreeOf(a.oid), TreeOf(a.old))] \in Dirs
      BY <1>0, <2>1, DirEdit
    <3> QED
      BY <1>0, <3>1, <3>2
  <2>3. spent' \in Spending
    BY <1>0, <1>21, SpendTypes DEF RestoreIndex
  <2> QED
    BY <1>0, <1>21, <2>2, <2>3, StepTypes DEF RestoreIndex, Ends, PCs, Results
<1>22. CASE Receipt
  <2>1. dir' \in Dirs
    <3>1. dir' = dir \/ dir' = [dir EXCEPT !.refs["HEAD"] = a.want, !.head = "HEAD"]
      BY <1>22 DEF Receipt
    <3>2. [dir EXCEPT !.refs["HEAD"] = a.want, !.head = "HEAD"] \in Dirs
      BY <1>0, <1>a, DirEdit, RefNames
    <3> QED
      BY <1>0, <3>1, <3>2
  <2>2. a' \in Attempts /\ spent' \in Spending
    BY <1>0, <1>22, SpendTypes DEF Receipt, Ends
  <2> QED
    BY <1>0, <1>22, <2>1, <2>2, StepTypes DEF Receipt, Ends, PCs, Results
<1>23. CASE Acquire
  <2>1. Fresh("HEAD", a.want) \in Dirs
    BY <1>0, <1>a, FreshIsDir, RefNames
  <2>2. candidate' \in Dirs /\ a' \in Attempts /\ pc' \in PCs
    BY <1>0, <1>23, <2>1 DEF Acquire, Ends, PCs
  <2> QED
    BY <1>0, <1>23, <2>2, StepTypes DEF Acquire, Ends, Results
<1>24. CASE Install
  BY <1>0, <1>24, StepTypes DEF Install, PCs, Results
<1>25. CASE Swap
  BY <1>0, <1>25, StepTypes DEF Swap, PCs, Results
<1>26. CASE SwapFails
  BY <1>0, <1>26, StepTypes, SpendTypes DEF SwapFails, Ends, PCs, Results
<1>27. CASE Record
  BY <1>0, <1>27, <1>a, StepTypes DEF Record, Ends, PCs, Results
<1>28. CASE UNCHANGED vars
  BY <1>0, <1>28, StepTypes DEF vars
<1> QED
  BY <1>1, <1>2, <1>3, <1>4, <1>5, <1>6, <1>7, <1>8, <1>9, <1>10, <1>11, <1>12, <1>13, <1>14,
     <1>15, <1>16, <1>17, <1>18, <1>19, <1>20, <1>21, <1>22, <1>23, <1>24, <1>25, <1>26, <1>27, <1>28
     DEF Next

(* Every variable of the preparation, the user and the directories stays in    *)
(* its type: what is fetched, moved and rolled back are commits and trees.     *)
THEOREM TypeCorrect == Spec => []TypeOK
  BY TypeInit, TypeNext, PTL DEF Spec

-----------------------------------------------------------------------------
(* What is where *)

OfBranch == {"clone", "rename", "fetch", "resolve", "expect", "merge", "refs", "head", "unref", "unmerge"}
OfCommit == {"receipt", "acquire", "install", "swap", "record"}

(* A candidate is there when it is about to be put in place, where nothing is   *)
(* then; and only what is prepared for a required commit has a receipt, and    *)
(* another directory beside it.                                              *)
PlaceInv ==
    /\ pc \in {"rename", "install", "swap"} => candidate.there
    /\ pc \in {"clone", "rename", "swap"} => ~dir.there
    /\ kind = "fixed" => pc \notin {"clone", "rename"}
    /\ kind # "fixed" => pc \notin OfCommit /\ receipt = 0 /\ ~backup.there

(* The user changes the directory only as it is in place. *)
LEMMA UserStep ==
    ASSUME TypeOK, Commit \/ (\E p \in Paths : Stage(p)) \/ (\E b \in Branches : Switch(b))
    PROVE  /\ dir.there /\ dir'.there /\ dir'.got = dir.got /\ result' = "none"
           /\ UNCHANGED <<kind, upstream, required, receipt, candidate, backup, pc, a>>
<1>1. dir = [there |-> dir.there, refs |-> dir.refs, head |-> dir.head, tracking |-> dir.tracking,
             index |-> dir.index, got |-> dir.got]
  BY DEF TypeOK, Dirs
<1>2. CASE Commit
  BY <1>1, <1>2 DEF Commit, UserDoes
<1>3. ASSUME NEW p \in Paths, Stage(p)
      PROVE  /\ dir.there /\ dir'.there /\ dir'.got = dir.got /\ result' = "none"
             /\ UNCHANGED <<kind, upstream, required, receipt, candidate, backup, pc, a>>
  BY <1>1, <1>3 DEF Stage, UserDoes
<1>4. ASSUME NEW b \in Branches, Switch(b)
      PROVE  /\ dir.there /\ dir'.there /\ dir'.got = dir.got /\ result' = "none"
             /\ UNCHANGED <<kind, upstream, required, receipt, candidate, backup, pc, a>>
  BY <1>1, <1>4 DEF Switch, UserDoes
<1> QED
  BY <1>2, <1>3, <1>4

(* The steps of a preparation of a branch on the directory that is in place. *)
BranchStep ==
    \/ Fetch \/ Resolve \/ Expect \/ MergeIndex \/ MoveRef \/ MoveRefFails \/ MoveHead \/ MoveHeadFails
    \/ RestoreRef \/ RestoreIndex

(* They change branches, HEAD, index and tracking branch, and nothing else. *)
LEMMA InPlace ==
    ASSUME TypeOK, BranchStep
    PROVE  /\ pc \in OfBranch \ {"clone", "rename"}
           /\ pc' \in (OfBranch \ {"clone", "rename"}) \cup {"idle", "receipt"}
           /\ pc' = "receipt" => kind = "fixed"
           /\ pc' # "idle" => a'.want = a.want /\ a'.read = a.read
           /\ dir'.there = dir.there /\ dir'.got = dir.got
           /\ UNCHANGED <<kind, objects, upstream, required, mine, receipt, candidate, backup>>
<1> DEFINE Same == dir'.there = dir.there /\ dir'.got = dir.got
<1>1. dir = [there |-> dir.there, refs |-> dir.refs, head |-> dir.head, tracking |-> dir.tracking,
             index |-> dir.index, got |-> dir.got]
  BY DEF TypeOK, Dirs
<1>2. Same
  <2>1. CASE UNCHANGED dir
    BY <2>1
  <2>2. CASE Fetch \/ MoveHead
    BY <1>1, <2>2 DEF Fetch, MoveHead
  <2>3. CASE MergeIndex \/ RestoreIndex
    BY <1>1, <2>3 DEF MergeIndex, RestoreIndex
  <2>4. CASE MoveRef
    BY <1>1, <2>4 DEF MoveRef
  <2>5. CASE RestoreRef
    BY <1>1, <2>5 DEF RestoreRef
  <2> QED
    BY <2>1, <2>2, <2>3, <2>4, <2>5 DEF BranchStep, Resolve, Expect, MoveRefFails, MoveHeadFails
<1>3. /\ pc \in OfBranch \ {"clone", "rename"}
      /\ pc' \in (OfBranch \ {"clone", "rename"}) \cup {"idle", "receipt"}
      /\ pc' = "receipt" => kind = "fixed"
      /\ UNCHANGED <<kind, objects, upstream, required, mine, receipt, candidate, backup>>
  BY DEF BranchStep, Fetch, Resolve, Expect, MergeIndex, MoveRef, MoveRefFails, MoveHead, MoveHeadFails,
         RestoreRef, RestoreIndex, FetchDone, Ends, To, OfBranch
<1>4. pc' # "idle" => a'.want = a.want /\ a'.read = a.read
  <2>0. a \in Attempts
    BY DEF TypeOK
  <2>1. /\ \A c, d \in Commits : /\ [a EXCEPT !.oid = c, !.old = d].want = a.want
                                 /\ [a EXCEPT !.oid = c, !.old = d].read = a.read
        /\ \A dead \in BOOLEAN : Fault(dead) => a'.want = a.want /\ a'.read = a.read
    BY DEF TypeOK, Attempts, Fault
  <2>2. HEAD \in Commits /\ dir.tracking \in Commits /\ \A r \in Refs : dir.refs[r] \in Commits
    BY DirFields DEF TypeOK, HEAD
  <2>3. CASE Fetch \/ MergeIndex \/ RestoreIndex
    BY <2>3 DEF Fetch, MergeIndex, RestoreIndex, Ends, To
  <2>4. CASE Resolve
    <3>1. a' = [a EXCEPT !.oid = dir.tracking, !.old = HEAD]
      BY <2>4 DEF Resolve
    <3> QED
      BY <2>1, <2>2, <3>1
  <2>7. CASE Expect
    <3>1. pc' = "idle" \/ a' = [a EXCEPT !.expected = dir.refs[Target]]
      BY <2>7 DEF Expect, Ends, To
    <3>3. CASE a' = [a EXCEPT !.expected = dir.refs[Target]]
      BY <2>0, <3>3 DEF Attempts
    <3> QED
      BY <3>1, <3>3
  <2>5. CASE MoveRef \/ MoveHead
    BY <2>5 DEF MoveRef, MoveHead, FetchDone, Idle, Ends, To
  <2>6. CASE MoveRefFails \/ MoveHeadFails \/ RestoreRef
    BY <2>1, <2>6 DEF MoveRefFails, MoveHeadFails, RestoreRef, Fails
  <2> QED
    BY <2>3, <2>4, <2>5, <2>6, <2>7 DEF BranchStep
<1> QED
  BY <1>2, <1>3, <1>4

(* Every step keeps PlaceInv. *)
LEMMA PlaceInvNext == TypeOK /\ PlaceInv /\ [Next]_vars => PlaceInv'
<1> SUFFICES ASSUME TypeOK, PlaceInv, [Next]_vars PROVE PlaceInv'
  OBVIOUS
<1> USE DEF PlaceInv, To, OfBranch, OfCommit
<1>1. CASE Push \/ Require \/ UNCHANGED vars
  BY <1>1 DEF Push, Require, vars
<1>2. CASE Commit \/ (\E p \in Paths : Stage(p)) \/ (\E b \in Branches : Switch(b))
  BY <1>2, UserStep
<1>3. CASE Begin
  BY <1>3 DEF Begin
<1>4. CASE Retries \/ StepFails \/ Crash
  BY <1>4 DEF Retries, StepFails, Crash, Ends
<1>5. CASE Clone
  <2>1. candidate'.there
    BY <1>5, FreshIsDir, RefNames DEF Clone, TypeOK
  <2> QED
    BY <1>5, <2>1 DEF Clone
<1>6. CASE Rename
  BY <1>6 DEF Rename, Ends
<1>7. CASE BranchStep
  BY <1>7, InPlace
<1>8. CASE Receipt \/ Swap \/ SwapFails \/ Record
  BY <1>8 DEF Receipt, Swap, SwapFails, Record, Ends
<1>10. CASE Install
  BY <1>10 DEF Install, NoDir
<1>9. CASE Acquire
  <2>1. pc' = "install" => candidate'.there
    BY <1>9, FreshIsDir, RefNames DEF Acquire, Ends, TypeOK
  <2> QED
    BY <1>9, <2>1 DEF Acquire, Ends
<1> QED
  BY <1>1, <1>2, <1>3, <1>4, <1>5, <1>6, <1>7, <1>8, <1>9, <1>10 DEF Next, BranchStep

(* PlaceInv holds in every state. *)
LEMMA PlaceInvHolds == Spec => []PlaceInv
<1>1. Init => PlaceInv
  BY DEF Init, PlaceInv, OfBranch, OfCommit, NoDir
<1> QED
  BY <1>1, PlaceInvNext, TypeCorrect, PTL DEF Spec

-----------------------------------------------------------------------------
(* Receipts *)

(* A receipt is that of the required commit, and what is about to be put in     *)
(* place, was put there or may have to be put back is what it will be or is of. *)
ReceiptInv ==
    /\ receipt # 0 => receipt = required /\ (pc # "idle" => a.want = receipt)
    /\ pc \in {"install", "swap"} => candidate.got = a.want
    /\ pc = "record" /\ dir.there => dir.got = a.want
    /\ pc = "swap" /\ receipt # 0 /\ backup.there => backup.got = receipt
    /\ ReceiptIsTrue

(* Every step keeps ReceiptInv. *)
LEMMA ReceiptInvNext == TypeOK /\ PlaceInv /\ ReceiptInv /\ [Next]_vars => ReceiptInv'
<1> SUFFICES ASSUME TypeOK, PlaceInv, ReceiptInv, [Next]_vars PROVE ReceiptInv'
  OBVIOUS
<1> USE DEF ReceiptInv, ReceiptIsTrue, To, OfCommit
<1>1. CASE Push \/ Require \/ UNCHANGED vars
  BY <1>1 DEF Push, Require, vars
<1>2. CASE Commit \/ (\E p \in Paths : Stage(p)) \/ (\E b \in Branches : Switch(b))
  BY <1>2, UserStep
<1>3. CASE Begin
  <2>1. kind = "fixed" => a'.want = required
    BY <1>3 DEF Begin, Idle
  <2> QED
    BY <1>3, <2>1 DEF Begin, PlaceInv
<1>4. CASE Retries
  <2>1. a'.want = a.want
    BY <1>4 DEF Retries, TypeOK, Attempts
  <2> QED
    BY <1>4, <2>1 DEF Retries
<1>5. CASE StepFails \/ Crash
  BY <1>5 DEF StepFails, Crash, Ends
<1>6. CASE Clone
  BY <1>6 DEF Clone
<1>7. CASE Rename
  BY <1>7 DEF Rename, Ends, PlaceInv, OfBranch
<1>8. CASE BranchStep
  BY <1>8, InPlace DEF OfBranch
<1>9. CASE Receipt
  <2>1. dir'.there = dir.there /\ dir'.got = dir.got
    <3>1. dir = [there |-> dir.there, refs |-> dir.refs, head |-> dir.head, tracking |-> dir.tracking,
                 index |-> dir.index, got |-> dir.got]
      BY DEF TypeOK, Dirs
    <3> QED
      BY <1>9, <3>1 DEF Receipt
  <2>2. a'.want = a.want
    BY <1>9 DEF Receipt, Fault, TypeOK, Attempts
  <2>3. pc' \in {"record", "acquire"} /\ UNCHANGED <<receipt, required>>
    BY <1>9 DEF Receipt
  <2>4. pc' = "record" => dir.got = a.want
    BY <1>9 DEF Receipt, Acquired
  <2> QED
    BY <1>9, <2>1, <2>2, <2>3, <2>4 DEF Receipt
<1>10. CASE Acquire
  <2>1. pc' = "install" => candidate'.got = a.want
    BY <1>10, FreshIsDir, RefNames DEF Acquire, Ends, TypeOK, Attempts
  <2> QED
    BY <1>10, <2>1 DEF Acquire, Ends
<1>11. CASE Install
  <2>1. NoDir.there = FALSE
    BY DEF NoDir
  <2> QED
    BY <1>11, <2>1 DEF Install
<1>12. CASE Swap
  BY <1>12 DEF Swap
<1>13. CASE SwapFails
  BY <1>13 DEF SwapFails, Ends
<1>14. CASE Record
  BY <1>14 DEF Record, Ends
<1> QED
  BY <1>1, <1>2, <1>3, <1>4, <1>5, <1>6, <1>7, <1>8, <1>9, <1>10, <1>11, <1>12, <1>13, <1>14
     DEF Next, BranchStep

(* ReceiptInv holds in every state. *)
LEMMA ReceiptInvHolds == Spec => []ReceiptInv
<1>1. Init => ReceiptInv
  BY DEF Init, ReceiptInv, ReceiptIsTrue, OfCommit
<1> QED
  BY <1>1, ReceiptInvNext, TypeCorrect, PlaceInvHolds, PTL DEF Spec

(* The acquisition the registry tells is that of the directory in place, though *)
(* the row may be written anew between any two steps (RecordAcquisition).      *)
THEOREM ReceiptIsTrueHolds == Spec => []ReceiptIsTrue
<1>1. ReceiptInv => ReceiptIsTrue
  BY DEF ReceiptInv
<1> QED
  BY <1>1, ReceiptInvHolds, PTL

-----------------------------------------------------------------------------
(* Required commits *)

(* HEAD is detached at a commit. *)
At(x, c) == x.there /\ x.head = "HEAD" /\ x.refs["HEAD"] = c

FixedInv ==
    /\ upstream # 0 /\ required # 0 /\ (kind = "fixed" /\ pc # "idle" => a.want # 0)
    /\ pc \in {"install", "swap"} => At(candidate, a.want)
    /\ pc = "record" /\ result = "placed" => At(dir, a.want)
    /\ result = "ok" => pc = "idle" /\ (kind = "fixed" => At(dir, required) /\ receipt = required)

(* Every step keeps FixedInv. *)
LEMMA FixedInvNext == TypeOK /\ PlaceInv /\ ReceiptInv /\ FixedInv /\ [Next]_vars => FixedInv'
<1> SUFFICES ASSUME TypeOK, PlaceInv, ReceiptInv, FixedInv, [Next]_vars PROVE FixedInv'
  OBVIOUS
<1> USE DEF FixedInv, To
<1>1. CASE Push
  <2>1. upstream' # 0
    BY <1>1 DEF Push, TypeOK, Objects
  <2> QED
    BY <1>1, <2>1 DEF Push, At
<1>2. CASE Require \/ UNCHANGED vars
  BY <1>2 DEF Require, At, vars
<1>3. CASE Commit \/ (\E p \in Paths : Stage(p)) \/ (\E b \in Branches : Switch(b))
  BY <1>3, UserStep DEF At
<1>4. CASE Begin
  <2>1. kind = "fixed" => a'.want = required
    BY <1>4 DEF Begin, Idle
  <2> QED
    BY <1>4, <2>1 DEF Begin
<1>5. CASE Retries
  <2>1. a'.want = a.want
    BY <1>5 DEF Retries, TypeOK, Attempts
  <2> QED
    BY <1>5, <2>1 DEF Retries
<1>6. CASE StepFails \/ Crash
  BY <1>6 DEF StepFails, Crash, Ends, OfCommit
<1>7. CASE Clone
  BY <1>7 DEF Clone, OfCommit
<1>8. CASE Rename
  BY <1>8 DEF Rename, Ends, PlaceInv, OfBranch, OfCommit
<1>9. CASE BranchStep
  <2>1. /\ pc # "idle" /\ pc' \notin {"install", "swap", "record"} /\ UNCHANGED <<kind, upstream, required>>
        /\ pc' # "idle" => a'.want = a.want
    BY <1>9, InPlace DEF OfBranch
  <2>2. result' = "ok" => pc' = "idle" /\ kind # "fixed"
    BY <1>9 DEF BranchStep, Fetch, Resolve, Expect, MergeIndex, MoveRef, MoveRefFails, MoveHead, MoveHeadFails,
         RestoreRef, RestoreIndex, FetchDone, Ends
  <2> QED
    BY <1>9, <2>1, <2>2
<1>10. CASE Receipt
  <2>1. pc' \in {"record", "acquire"} /\ pc = "receipt" /\ UNCHANGED <<kind, receipt, required, upstream>>
    BY <1>10 DEF Receipt
  <2>2. a'.want = a.want
    BY <1>10 DEF Receipt, Fault, TypeOK, Attempts
  <2>3. pc' = "record" => At(dir', a.want)
    <3>1. pc' = "record" => Acquired /\ dir' = [dir EXCEPT !.refs["HEAD"] = a.want, !.head = "HEAD"]
      BY <1>10 DEF Receipt
    <3>2. dir.refs \in [Refs -> Commits] /\ dir = [there |-> dir.there, refs |-> dir.refs,
            head |-> dir.head, tracking |-> dir.tracking, index |-> dir.index, got |-> dir.got]
      BY DEF TypeOK, Dirs
    <3> QED
      BY <3>1, <3>2, RefNames DEF Acquired, At
  <2>4. result' = "ok" => FALSE
    BY <1>10, <2>1 DEF Receipt
  <2> QED
    BY <2>1, <2>2, <2>3, <2>4
<1>11. CASE Acquire
  <2>1. At(Fresh("HEAD", a.want), a.want)
    <3>1. NoDir.refs \in [Refs -> Commits]
      BY NoDirIsDir, DirFields DEF TypeOK, Objects
    <3> QED
      BY <3>1, RefNames DEF At, Fresh
  <2> QED
    BY <1>11, <2>1 DEF Acquire, Ends, OfCommit
<1>12. CASE Install
  BY <1>12 DEF Install, At, OfCommit
<1>13. CASE Swap
  BY <1>13 DEF Swap, At, OfCommit
<1>14. CASE SwapFails
  BY <1>14 DEF SwapFails, Ends, OfCommit
<1>15. CASE Record
  BY <1>15 DEF Record, Ends, At, OfCommit
<1> QED
  BY <1>1, <1>2, <1>3, <1>4, <1>5, <1>6, <1>7, <1>8, <1>9, <1>10, <1>11, <1>12, <1>13, <1>14, <1>15
     DEF Next, BranchStep

(* FixedInv holds in every state. *)
LEMMA FixedInvHolds == Spec => []FixedInv
<1>1. Init => FixedInv
  BY DEF Init, FixedInv, At, OfCommit
<1> QED
  BY <1>1, FixedInvNext, TypeCorrect, PlaceInvHolds, ReceiptInvHolds, PTL DEF Spec

(* Where a commit is required it is the one HEAD is detached at after a         *)
(* preparation, and the one the registry tells (PrepareSource).               *)
THEOREM FixedIsRequiredHolds == Spec => []FixedIsRequired
<1>1. FixedInv => FixedIsRequired
  BY DEF FixedInv, FixedIsRequired, At, HEAD
<1> QED
  BY <1>1, FixedInvHolds, PTL

-----------------------------------------------------------------------------
(* Directories that are replaced *)

(* The step that takes the old directory away keeps it beside the new one, and  *)
(* the one that drops it has put one at the verified commit in its place       *)
(* (installGitDir).                                                            *)
THEOREM DirKeptHolds == Spec => DirKept
<1> DEFINE Kept ==
      /\ dir.there => backup' = dir \/ (dir'.there /\ dir'.got = dir.got)
      /\ ~dir.there /\ backup.there =>
           \/ backup \in {dir', backup'}
           \/ dir'.there /\ dir'.head = "HEAD" /\ {dir'.refs["HEAD"], dir'.got} = {a.want}
<1>1. TypeOK /\ PlaceInv /\ ReceiptInv /\ FixedInv /\ [Next]_vars => [Kept]_vars
  <2> SUFFICES ASSUME TypeOK, PlaceInv, ReceiptInv, FixedInv, Next PROVE Kept
    OBVIOUS
  <2>1. CASE Push \/ Require \/ Begin \/ Retries \/ StepFails \/ Crash \/ Clone \/ Acquire \/ Record
    BY <2>1 DEF Push, Require, Begin, Retries, StepFails, Crash, Clone, Acquire, Record
  <2>2. CASE Commit \/ (\E p \in Paths : Stage(p)) \/ (\E b \in Branches : Switch(b))
    BY <2>2, UserStep
  <2>3. CASE BranchStep
    BY <2>3, InPlace
  <2>4. CASE Rename
    BY <2>4 DEF Rename, PlaceInv
  <2>5. CASE Install
    BY <2>5 DEF Install, PlaceInv
  <2>6. CASE Swap
    <3>1. dir' = candidate /\ pc = "swap" /\ candidate.got = a.want /\ At(candidate, a.want) /\ ~dir.there
      BY <2>6 DEF Swap, PlaceInv, ReceiptInv, FixedInv
    <3> QED
      BY <3>1 DEF At
  <2>7. CASE SwapFails
    BY <2>7 DEF SwapFails, PlaceInv
  <2>8. CASE Receipt
    <3>1. dir = [there |-> dir.there, refs |-> dir.refs, head |-> dir.head, tracking |-> dir.tracking,
                 index |-> dir.index, got |-> dir.got]
      BY DEF TypeOK, Dirs
    <3> QED
      BY <2>8, <3>1 DEF Receipt
  <2> QED
    BY <2>1, <2>2, <2>3, <2>4, <2>5, <2>6, <2>7, <2>8 DEF Next, BranchStep
<1> QED
  BY <1>1, TypeCorrect, PlaceInvHolds, ReceiptInvHolds, FixedInvHolds, PTL DEF Spec, DirKept

-----------------------------------------------------------------------------
(* The user's commits *)

(* Histories are closed, and a new commit whose history is that of another one  *)
(* changes none of those there are.                                          *)
Closed ==
    \A i \in 1 .. Len(objects) : \A j \in objects[i].past : objects[j].past \subseteq objects[i].past

LEMMA ClosedGrows ==
    ASSUME Objects, Closed, NEW b \in Commits, NEW o \in Object,
           o.past = Past(b) \cup {Len(objects) + 1}, objects' = Append(objects, o)
    PROVE  /\ Closed' /\ \A d \in Commits : Past(d)' = Past(d)
           /\ \A d \in Nat : d = Len(objects) + 1 => Past(d)' = Past(b) \cup {d}
<1> DEFINE c == Len(objects) + 1
<1>1. Past(b) \subseteq 1 .. Len(objects) /\ Len(objects) \in Nat
  BY CommitFacts DEF Objects
<1>2. c \in o.past /\ o.past \subseteq 1 .. c
  BY <1>1
<1>3. /\ Len(objects') = c /\ objects'[c] = o
      /\ \A i \in 1 .. Len(objects) : objects'[i] = objects[i]
  BY <1>2, NewCommit
<1>4. \A d \in Commits : Past(d)' = Past(d)
  BY <1>3 DEF Past, Commits
<1>5. \A d \in Nat : d = c => Past(d)' = Past(b) \cup {d}
  BY <1>1, <1>3 DEF Past
<1>6. ASSUME NEW i \in 1 .. Len(objects'), NEW j \in objects'[i].past
      PROVE  objects'[j].past \subseteq objects'[i].past
  <2>1. CASE i # c
    <3>1. i \in 1 .. Len(objects) /\ objects'[i] = objects[i] /\ j \in objects[i].past
      BY <1>1, <1>3, <2>1
    <3>2. j \in 1 .. i
      BY <3>1 DEF Objects
    <3>3. j \in 1 .. Len(objects)
      BY <1>1, <3>1, <3>2
    <3> QED
      BY <1>3, <3>1, <3>3 DEF Closed
  <2>2. CASE i = c /\ j = c
    BY <2>2
  <2>3. CASE i = c /\ j # c
    <3>1. j \in Past(b) /\ objects'[i].past = Past(b) \cup {c}
      BY <1>3, <2>3
    <3>2. j \in 1 .. Len(objects) /\ b \in 1 .. Len(objects) /\ Past(b) = objects[b].past
      BY <1>1, <3>1 DEF Past, Commits
    <3>3. objects[j].past \subseteq Past(b)
      BY <3>1, <3>2 DEF Closed
    <3> QED
      BY <1>3, <3>1, <3>2, <3>3
  <2> QED
    BY <2>1, <2>2, <2>3
<1> QED
  BY <1>3, <1>4, <1>5, <1>6 DEF Closed

(* What a branch was expected to be is in the history of what it is moved to,   *)
(* and the user's commits are in the history of what it may be moved back to.  *)
CommitsInv ==
    /\ kind = "prepared" => dir.there /\ pc \notin {"clone", "rename"}
    /\ Closed
    /\ kind = "prepared" /\ pc \in {"merge", "refs"} => a.expected \in {0} \cup Past(a.oid)
    /\ kind = "prepared" /\ pc \in {"head", "unref"} /\ dir.refs["main"] = a.oid
       => mine \subseteq Past(a.expected)
    /\ CommitsKept

(* What is in the history of a commit is so with all its own history. *)
LEMMA PastGrows ==
    ASSUME TypeOK, Closed, NEW c \in Commits, c # 0
    PROVE  \A d \in {0} \cup Past(c) : Past(d) \subseteq Past(c)
<1>1. c \in 1 .. Len(objects)
  BY DEF Commits, TypeOK, Objects
<1> QED
  BY <1>1 DEF Closed, Past, TypeOK, Objects

(* Every step keeps CommitsInv. *)
LEMMA CommitsInvNext == TypeOK /\ PlaceInv /\ CommitsInv /\ [Next]_vars => CommitsInv'
<1> SUFFICES ASSUME TypeOK, PlaceInv, CommitsInv, [Next]_vars PROVE CommitsInv'
  OBVIOUS
<1> USE DEF CommitsInv, CommitsKept, To
<1>0. /\ a.oid \in Commits /\ a.expected \in Commits /\ HEAD \in Commits /\ upstream \in Commits
      /\ 0 \in Commits /\ Past(0) = {} /\ Objects /\ Len(objects) \in Nat
      /\ dir.refs \in [Refs -> Commits] /\ dir.head \in Refs /\ dir.refs["main"] \in Commits
      /\ \A r \in Refs : dir.refs[r] \in Commits
      /\ Commits = 0 .. Len(objects)
      /\ dir = [there |-> dir.there, refs |-> dir.refs, head |-> dir.head, tracking |-> dir.tracking,
             index |-> dir.index, got |-> dir.got]
  <2>1. dir \in Dirs /\ a \in Attempts /\ upstream \in Commits /\ Objects /\ Len(objects) \in Nat
        /\ Commits = 0 .. Len(objects)
    BY DEF TypeOK, Objects, Commits
  <2>2. a.oid \in Commits /\ a.expected \in Commits /\ Past(0) = {} /\ 0 \in Commits
    BY <2>1 DEF Attempts, Past
  <2>3. dir = [there |-> dir.there, refs |-> dir.refs, head |-> dir.head, tracking |-> dir.tracking,
               index |-> dir.index, got |-> dir.got]
    BY <2>1 DEF Dirs
  <2> QED
    BY <2>1, <2>2, <2>3, DirFields, RefNames DEF HEAD
<1>1. ASSUME UNCHANGED objects PROVE Closed' /\ \A d : Past(d)' = Past(d)
  BY <1>1 DEF Closed, Past
<1>2. CASE Push
  <2>1. Closed' /\ \A d \in Commits : Past(d)' = Past(d)
    <3>1. PICK P \in (SUBSET Paths) \ {{}} :
            objects' = Append(objects, [past |-> Past(upstream) \cup {Len(objects) + 1},
               tree |-> [p \in Paths |-> IF p \in P THEN spent.pushes + 3 ELSE TreeOf(upstream)[p]]])
      BY <1>2 DEF Push
    <3> DEFINE t == [p \in Paths |-> IF p \in P THEN spent.pushes + 3 ELSE TreeOf(upstream)[p]]
               o == [past |-> Past(upstream) \cup {Len(objects) + 1}, tree |-> t]
    <3>2. t \in Trees /\ objects' = Append(objects, o)
      BY <1>2, <3>1, PushedTree
    <3>3. o \in Object /\ o.past = Past(upstream) \cup {Len(objects) + 1}
      <4> HIDE DEF t
      <4> QED
        BY <1>0, <3>2, CommitFacts, NewObject
    <3> HIDE DEF o
    <3> QED
      BY <1>0, <3>2, <3>3, ClosedGrows
  <2> QED
    BY <1>0, <1>2, <2>1 DEF Push
<1>3. CASE Require \/ UNCHANGED vars
  BY <1>1, <1>3 DEF Require, vars
<1>4. ASSUME NEW p \in Paths, Stage(p) PROVE CommitsInv'
  <2>1. dir'.refs = dir.refs /\ UNCHANGED <<kind, objects, mine, pc, a>> /\ dir'.there
    BY <1>0, <1>4 DEF Stage, UserDoes
  <2> QED
    BY <1>1, <2>1
<1>5. CASE Commit
  <2> DEFINE c == Len(objects) + 1
             o == [past |-> Past(HEAD) \cup {c}, tree |-> dir.index]
  <2>1. /\ dir'.there /\ dir'.refs = [dir.refs EXCEPT ![dir.head] = c] /\ objects' = Append(objects, o)
        /\ mine' = (IF dir.head = "main" THEN mine \cup {c} ELSE mine)
        /\ UNCHANGED <<kind, pc, a>>
    BY <1>0, <1>5 DEF Commit, UserDoes
  <2>2. o \in Object /\ o.past = Past(HEAD) \cup {c}
    BY <1>0, CommitFacts, NewObject DEF TypeOK, Dirs
  <2>3. /\ Closed' /\ \A d \in Commits : Past(d)' = Past(d)
        /\ \A d \in Nat : d = c => Past(d)' = Past(HEAD) \cup {d}
    <3> HIDE DEF o
    <3> QED
      BY <1>0, <2>1, <2>2, ClosedGrows
  <2>4. CASE dir.head = "main"
    <3>1. \A d \in Nat : d = c => dir'.refs["main"] = d
      BY <1>0, <2>1, <2>4, RefNames
    <3>2. kind = "prepared" => mine' \subseteq Past(dir.refs["main"]) \cup {c}
      BY <2>1, <2>4
    <3>3. HEAD = dir.refs["main"]
      BY <2>4 DEF HEAD
    <3>4. CommitsKept'
      BY <1>0, <2>1, <2>3, <3>1, <3>2, <3>3
    <3>5. dir'.refs["main"] # a.oid
      BY <1>0, <3>1
    <3> QED
      BY <1>0, <2>1, <2>3, <3>4, <3>5
  <2>5. CASE dir.head # "main"
    <3>1. dir'.refs["main"] = dir.refs["main"] /\ mine' = mine
      BY <1>0, <2>1, <2>5, RefNames
    <3> QED
      BY <1>0, <2>1, <2>3, <3>1
  <2> QED
    BY <2>4, <2>5
<1>6. ASSUME NEW b \in Branches, Switch(b) PROVE CommitsInv'
  <2> DEFINE c == IF dir.refs[b] = 0 THEN HEAD ELSE dir.refs[b]
  <2>1. /\ dir'.there /\ dir'.refs = [dir.refs EXCEPT ![b] = c] /\ UNCHANGED <<kind, objects, mine, pc, a>>
    BY <1>0, <1>6 DEF Switch, UserDoes
  <2>2. dir'.refs["main"] = dir.refs["main"] \/ dir.refs["main"] = 0
    BY <1>0, <2>1, RefNames
  <2>3. dir.refs["main"] = 0 /\ kind = "prepared" => mine = {}
    BY <1>0
  <2> QED
    BY <1>1, <2>1, <2>2, <2>3
<1>7. CASE Begin
  BY <1>1, <1>7 DEF Begin, TypeOK
<1>8. CASE Retries
  <2>1. pc' \in {"clone", "acquire", "fetch"} /\ UNCHANGED <<kind, objects, dir, mine, pc>>
    BY <1>8 DEF Retries
  <2> QED
    BY <1>1, <2>1
<1>9. CASE StepFails \/ Crash
  BY <1>1, <1>9 DEF StepFails, Crash, Ends
<1>10. CASE Clone \/ Fetch \/ Resolve
  <2>1. /\ kind = "prepared" => pc' \notin {"clone", "rename"}
        /\ pc' \notin {"merge", "refs", "head", "unref"} /\ UNCHANGED <<kind, objects, mine>>
        /\ dir'.there = dir.there /\ dir'.refs = dir.refs
    BY <1>0, <1>10 DEF Clone, Fetch, Resolve
  <2> QED
    BY <1>1, <2>1
<1>11. CASE Rename \/ Receipt \/ Acquire \/ Install \/ Swap \/ SwapFails \/ Record
  <2>1. kind # "prepared" /\ UNCHANGED <<kind, objects>>
    BY <1>11 DEF Rename, Receipt, Acquire, Install, Swap, SwapFails, Record, Ends, PlaceInv, OfCommit
  <2> QED
    BY <1>1, <2>1
<1>12. CASE Expect
  <2>1. UNCHANGED <<kind, objects, mine, dir>> /\ pc' \in {"idle", "merge"} /\ pc = "expect"
    BY <1>12 DEF Expect, Ends
  <2>2. kind = "prepared" /\ pc' = "merge" => a'.expected \in {0} \cup Past(a.oid) /\ a'.oid = a.oid
    BY <1>12 DEF Expect, Ends, Target, TypeOK, Attempts
  <2> QED
    BY <1>1, <2>1, <2>2
<1>13. CASE MergeIndex \/ MoveRefFails \/ MoveHead \/ MoveHeadFails \/ RestoreIndex
  <2>1. /\ UNCHANGED <<kind, objects, mine>> /\ dir'.there = dir.there /\ dir'.refs = dir.refs
        /\ \/ pc' \notin {"clone", "rename", "merge", "refs", "head", "unref"}
           \/ pc = "merge" /\ pc' = "refs" /\ a' = a
           \/ pc = "head" /\ pc' = "unref" /\ a'.oid = a.oid /\ a'.expected = a.expected
    <3>1. \A dead \in BOOLEAN : Fault(dead) => a'.oid = a.oid /\ a'.expected = a.expected
      BY DEF Fault, TypeOK, Attempts
    <3> QED
      BY <1>0, <1>13, <3>1 DEF MergeIndex, MoveRefFails, MoveHead, MoveHeadFails, RestoreIndex, FetchDone, Ends, Fails
  <2> QED
    BY <1>1, <2>1
<1>14. CASE MoveRef /\ kind = "prepared"
  <2>1. /\ UNCHANGED <<kind, objects, mine>> /\ dir'.there /\ pc = "refs"
        /\ \/ pc' = "unmerge" /\ dir' = dir
           \/ /\ pc' = "head" /\ a' = a /\ dir'.refs["main"] = a.oid
              /\ dir.refs["main"] = a.expected
    BY <1>0, <1>14, RefNames DEF MoveRef
  <2>2. CASE pc' = "unmerge"
    BY <1>1, <2>1, <2>2
  <2>3. CASE pc' = "head"
    <3>1. mine \subseteq Past(a.expected)
      BY <1>14, <2>1, <2>3
    <3>2. Past(a.expected) \subseteq Past(a.oid)
      <4>1. CASE a.oid = 0
        BY <1>0, <1>14, <2>1, <4>1
      <4>2. CASE a.oid # 0
        BY <1>0, <1>14, <2>1, <4>2, PastGrows
      <4> QED
        BY <4>1, <4>2
    <3> QED
      BY <1>1, <2>1, <2>3, <3>1, <3>2
  <2> QED
    BY <2>1, <2>2, <2>3
<1>15. CASE RestoreRef
  <2>1. /\ UNCHANGED <<kind, objects, mine>> /\ dir'.there = dir.there /\ pc = "unref" /\ pc' = "unmerge"
        /\ dir'.refs["main"] = dir.refs["main"]
           \/ (dir.refs["main"] = a.oid /\ dir'.refs["main"] = a.expected)
    BY <1>0, <1>15, RefNames DEF RestoreRef
  <2> QED
    BY <1>1, <2>1
<1>16. CASE MoveRef /\ kind # "prepared"
  BY <1>1, <1>16 DEF MoveRef, FetchDone, Ends
<1> QED
  BY <1>2, <1>3, <1>4, <1>5, <1>6, <1>7, <1>8, <1>9, <1>10, <1>11, <1>12, <1>13, <1>14, <1>15, <1>16
     DEF Next

(* CommitsInv holds in every state. *)
LEMMA CommitsInvHolds == Spec => []CommitsInv
<1>1. Init => CommitsInv
  <2> SUFFICES ASSUME Init PROVE CommitsInv
    OBVIOUS
  <2>1. Closed
    BY DEF Init, Closed
  <2>2. kind = "prepared" => dir.there
    BY DEF Init, NoDir, Made
  <2> QED
    BY <2>1, <2>2 DEF Init, CommitsInv, CommitsKept
<1> QED
  BY <1>1, CommitsInvNext, TypeCorrect, PlaceInvHolds, PTL DEF Spec

(* A commit the user made on the branch of a directory of their own stays in    *)
(* its history, for any number of preparations, failures and commits          *)
(* (preparedBranchExpectedOID, update-ref with the old value, restoreRef).     *)
THEOREM CommitsKeptHolds == Spec => []CommitsKept
<1>1. CommitsInv => CommitsKept
  BY DEF CommitsInv
<1> QED
  BY <1>1, CommitsInvHolds, PTL
=============================================================================
