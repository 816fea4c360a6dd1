--------------------------- MODULE PrepareProofs ---------------------------
(***************************************************************************)
(* Prepare, for any number of configurations, changes of the refresh        *)
(* setting and faults: types, the three safety invariants of the model, and *)
(* the refinement of Registration.                                          *)
(*                                                                         *)
(* The question behind them: how can a row say "ready" although nobody      *)
(* holds a lock when it is written, and the row that a reader decides by    *)
(* may be old?  The answer is Vouched below: from the moment on at which a  *)
(* tree of the current configuration is published by somebody who will      *)
(* report it, whoever holds the prepare lock to publish works for that      *)
(* configuration too, so that its tree stays the last one.                  *)
(***************************************************************************)
EXTENDS Prepare, SequenceTheorems, TLAPS

-----------------------------------------------------------------------------
(* The inductive invariant *)

(* Where the command and the worker hold the prepare lock, and where the     *)
(* worker is after it published.                                             *)
CommandHolds == {"check", "source", "clock", "publish"}
WorkerHolds ==
    {"check", "source", "clock", "publish", "recheck", "ready", "match", "current", "show",
     "confirm", "activate", "open", "prune"}
Afterwards ==
    {"recheck", "ready", "match", "current", "show", "confirm", "activate", "open", "prune"}

(* Who holds a lock is where it holds it.  A worker that failed gives the    *)
(* prepare lock back only once it has recorded so.                           *)
LockInv ==
    /\ plock = "loop" <=> dpc \in {"check", "clock", "publish"}
    /\ plock = "command" <=> cpc \in CommandHolds
    /\ wpc \in WorkerHolds => plock = "worker"
    /\ plock = "worker" => wpc \in WorkerHolds \cup {"fail", "failGate"}
    /\ clock = "loop" <=> dpc = "publish"
    /\ clock = "command" <=> cpc = "publish"
    /\ clock = "worker" <=> wpc = "publish"

(* The loop stops a runtime that there is and starts one where there is      *)
(* none; a worker belongs to the runtime, and works on until its gate is     *)
(* open.                                                                     *)
RuntimeInv ==
    /\ rt.up => daemon # "down" /\ rt.ver > 0
    /\ dpc \in {"restart", "judge", "unmount", "cancel", "drain"} => rt.up
    /\ dpc \in {"mount", "lock", "check", "clock", "publish", "start"} => ~rt.up
    /\ wpc # "none" => rt.up /\ rt.ver = w.ver
    /\ rt.up /\ rt.gate = "none" => rt.active /\ wpc = "none"
    /\ rt.up /\ rt.gate = "ready" => wpc \in {"none", "prune"}

(* The row is of the last configuration that was made or there is none, and  *)
(* what the loop and the command read before was a row.                      *)
RowInv ==
    /\ row.ver \in {0, made} /\ (row.ver = 0 => row = Absent)
    /\ (d.row.ver = 0) = (d.row.state = "absent")
    /\ dpc \notin {"off", "idle", "unmount", "cancel", "drain", "exit"} => d.row.ver > 0
    /\ d.then = "mount" => d.row.ver > 0
    /\ cpc # "idle" => c.ver > 0
    /\ dpc = "judge" => d.row.state = "preparing"
    /\ dpc \in {"lock", "check"} => d.row.state \in {"ready", "synced", "broken"}

(* A configuration is prepared in the background or by a command, for good:  *)
(* an old reading of the current configuration is wrong about the result at  *)
(* most.                                                                     *)
KindInv ==
    /\ d.row.ver = row.ver => IsAsync(d.row.state) = IsAsync(row.state)
    /\ wpc # "none" /\ Current(w) => IsAsync(row.state)
    /\ cpc \notin {"idle", "begin"} /\ Current(c) => row.state = "sync_preparing"

(* The loop mounts at once what it read as "ready": that the configuration   *)
(* still is.  Only the worker of a runtime for it could have changed that.   *)
ReadInv ==
    Current(d.row) /\ d.row.state = "ready" =>
        /\ dpc = "look" => row.state = "ready" \/ (rt.up /\ rt.ver = d.row.ver)
        /\ dpc \in {"unmount", "cancel", "drain"} /\ d.then = "mount" =>
             row.state = "ready" /\ rt.ver # d.row.ver
        /\ dpc \in {"mount", "lock", "check"} => row.state = "ready"

(* What is known of rows that were read before. *)
StaleInv == RowInv /\ KindInv /\ ReadInv

(* The result of the current configuration is good, or will be said to be    *)
(* by somebody who is past publishing its tree.                              *)
Vouched ==
    \/ row.state \in {"ready", "synced"}
    \/ cpc = "persist" /\ Current(c)
    \/ wpc \in Afterwards /\ Current(w)

(* Then the git directory and the last tree are of that configuration ...    *)
VouchedInv == Vouched => git = row.ver /\ Latest > 0 /\ trees[Latest] = row.ver

(* ... and so is whoever may still write the one or publish the other.       *)
HolderInv ==
    Vouched =>
        /\ cpc \in {"source", "clock", "publish"} => Current(c)
        /\ wpc \in {"source", "clock", "publish"} => Current(w)
        /\ dpc \in {"clock", "publish"} => Current(d.row)

(* Whoever publishes finds the git directory prepared for its configuration. *)
GitInv ==
    /\ cpc \in {"clock", "publish"} => git = c.ver
    /\ wpc \in {"clock", "publish"} => git = w.ver
    /\ dpc \in {"clock", "publish"} => git = d.row.ver

(* What is mounted at once, or opened by a worker, became usable before.     *)
UsableInv ==
    /\ row.state \in {"ready", "synced"} => row.ver \in usable
    /\ dpc \in {"clock", "publish", "start"} => d.row.ver \in usable
    /\ wpc \in {"match", "current", "show", "confirm", "activate", "open", "prune"} =>
         w.ver \in usable

(* What is known of git directory, generations and results. *)
TreeInv == VouchedInv /\ HolderInv /\ GitInv /\ UsableInv

(* The generation that the loop mounts, or that a worker is about to show,   *)
(* is of its configuration and not pruned; no other one is published while a *)
(* worker finishes.                                                          *)
KeptInv ==
    /\ kept >= 1 /\ (kept = 1 \/ kept <= Latest)
    /\ dpc = "start" => d.gen \in 1 .. Latest /\ d.gen >= kept /\ trees[d.gen] = d.row.ver
    /\ wpc \in Afterwards => w.gen = Latest /\ w.gen >= kept /\ w.gen > 0 /\ trees[w.gen] = w.ver

(* The tree behind an open gate, and the one that a worker is about to open. *)
ShownInv ==
    /\ KeptInv
    /\ wpc \in {"confirm", "activate", "open", "prune"} => rt.shown = w.gen /\ basis = w.gen
    /\ OpenShowsOwnTree
    /\ rt.up /\ rt.gate \in {"ready", "none"} => rt.shown > 0

(* The inductive invariant. *)
Inv == TypeOK /\ LockInv /\ RuntimeInv /\ StaleInv /\ TreeInv /\ ShownInv

-----------------------------------------------------------------------------
(* What steps leave alone, and types *)

(* What the commands, the loop and the worker leave alone. *)
LEMMA Frames ==
    /\ User => UNCHANGED <<disk, usable, locks, loop, rt, worker>>
    /\ Command => UNCHANGED <<kept, basis, loop, rt, worker, op>>
    /\ Loop => UNCHANGED <<registry, git, usable, daemon, command>>
    /\ Worker => UNCHANGED <<made, loop, command>>
<1> USE DEF registry, disk, locks, loop, worker, command
<1>1. User => UNCHANGED <<disk, usable, locks, loop, rt, worker>>
  BY DEF User, AddAsync, AddSync, RemoveRepo, SetRefresh, ReadForPrepare, Arrive, Interrupt
<1>2. Command => UNCHANGED <<kept, basis, loop, rt, worker, op>>
  BY DEF Command, CommandTo, BeginPrepare, CommandLock, CommandCheck, CommandSource,
     CommandConfigLock, CommandPublish, CommandFails, CommandPersist
<1>3. Loop => UNCHANGED <<registry, git, usable, daemon, command>>
  BY DEF Loop, LoopTo, LoopWith, List, Look, Restart, Judge, MountAsync, MountBegin,
     MountLock, MountCheck, MountConfigLock, MountPublish, MountStart, MountFails, Detach,
     UnmountFails, Cancel, Drain
<1>4. Worker => UNCHANGED <<made, loop, command>>
  BY DEF Worker, WorkerTo, WorkerEnds, WorkerWith, WorkerLock, WorkerCheck, WorkerSource,
     WorkerConfigLock, WorkerPublish, WorkerRecheck, WorkerReady, WorkerCompares, WorkerShow,
     WorkerActivate, WorkerOpen, WorkerPrune, WorkerFails, WorkerFail, WorkerFailGate
<1> QED BY <1>1, <1>2, <1>3, <1>4

(* The types of records, by the numbers of configurations and generations.  *)
Configs(m) == [ver : 0 .. m, state : RowStates, off : BOOLEAN]
Passes(m, n) == [row : Configs(m), busy : BOOLEAN,
                 gen : 0 .. n, then : {"idle", "mount", "exit"}]
Runtimes(m, n) ==
    [up : BOOLEAN, ver : 0 .. m, off : BOOLEAN, mounted : BOOLEAN,
     gate : {"none", "undecided", "ready", "failed"}, shown : 0 .. n, active : BOOLEAN]
Works(m, n) == [ver : 0 .. m, off : BOOLEAN, gen : 0 .. n, prev : 0 .. n]
Commands(m) == [ver : 0 .. m, off : BOOLEAN, async : BOOLEAN]

(* The types of the registry and of the disk. *)
RegistryTypes ==
    /\ row \in [ver : 0 .. made, state : RowStates, off : BOOLEAN]
    /\ (row.ver = 0) = (row.state = "absent")
    /\ made \in 0 .. MaxVersions
    /\ usable \subseteq 1 .. made
    /\ git \in 0 .. made
    /\ trees \in Seq(1 .. made) /\ kept \in Nat /\ basis \in 0 .. Len(trees)

(* The types of places, locks and counters. *)
PlaceTypes ==
    /\ plock \in {"none", "loop", "worker", "command"}
    /\ clock \in {"none", "loop", "worker", "command"}
    /\ daemon \in {"down", "up", "closing"}
    /\ dpc \in LoopPCs /\ (daemon = "down") = (dpc = "off")
    /\ wpc \in WorkerPCs
    /\ cpc \in CommandPCs
    /\ op \in {"out", "waiting", "woken"}
    /\ spent \in [toggles : 0 .. MaxToggles, faults : 0 .. MaxFaults]

(* TypeOK, in the parts below. *)
LEMMA TypeParts ==
    TypeOK <=>
    /\ RegistryTypes /\ PlaceTypes
    /\ d \in Passes(made, Len(trees))
    /\ rt \in Runtimes(made, Len(trees)) /\ (rt.up \/ rt = NoRuntime)
    /\ w \in Works(made, Len(trees)) /\ c \in Commands(made)
BY DEF TypeOK, RegistryTypes, PlaceTypes, Passes, Runtimes, Works, Commands, Configs

(* The types grow with the configurations and the generations. *)
LEMMA Wider ==
    ASSUME NEW m \in Nat, NEW n \in Nat, NEW mm \in Nat, NEW nn \in Nat, m <= mm, n <= nn
    PROVE  /\ Configs(m) \subseteq Configs(mm)
           /\ Passes(m, n) \subseteq Passes(mm, nn) /\ Runtimes(m, n) \subseteq Runtimes(mm, nn)
           /\ Works(m, n) \subseteq Works(mm, nn) /\ Commands(m) \subseteq Commands(mm)
<1>1. 0 .. m \subseteq 0 .. mm /\ 0 .. n \subseteq 0 .. nn
  OBVIOUS
<1>0. Configs(m) \subseteq Configs(mm)
  BY <1>1 DEF Configs
<1>2. Passes(m, n) \subseteq Passes(mm, nn)
  BY <1>0, <1>1 DEF Passes
<1>3. Runtimes(m, n) \subseteq Runtimes(mm, nn)
  BY <1>1 DEF Runtimes
<1>4. Works(m, n) \subseteq Works(mm, nn)
  BY <1>1 DEF Works
<1>5. Commands(m) \subseteq Commands(mm)
  BY <1>1 DEF Commands
<1> QED BY <1>0, <1>2, <1>3, <1>4, <1>5

(* A sequence with one more element. *)
LEMMA PublishTypes ==
    ASSUME NEW S, NEW s \in Seq(S), NEW v \in S
    PROVE  /\ Append(s, v) \in Seq(S) /\ Len(Append(s, v)) = Len(s) + 1
           /\ Append(s, v)[Len(s) + 1] = v
           /\ \A i \in 1 .. Len(s) : Append(s, v)[i] = s[i]
BY AppendProperties

(* Generations stay generations when there is one configuration more. *)
LEMMA MoreTrees ==
    ASSUME NEW m \in Nat, NEW n \in Nat, m <= n
    PROVE  Seq(1 .. m) \subseteq Seq(1 .. n)
<1> SUFFICES ASSUME NEW s \in Seq(1 .. m) PROVE s \in Seq(1 .. n)
  OBVIOUS
<1>1. s \in [1 .. Len(s) -> 1 .. n] /\ Len(s) \in Nat
  BY SMT
<1> QED BY <1>1, SeqDef

(* AddRepo and BeginPrepare make a row of a new configuration. *)
LEMMA ConfiguredTypes ==
    ASSUME RegistryTypes, NEW s \in RowStates \ {"absent"}, NEW o \in BOOLEAN, Configured(s, o),
           UNCHANGED <<git, trees, kept, basis, usable>>
    PROVE  RegistryTypes' /\ made <= made' /\ Len(trees) <= Len(trees')
<1>1. /\ made' = made + 1 /\ row' = [ver |-> made + 1, state |-> s, off |-> o]
      /\ made < MaxVersions
  BY DEF Configured
<1>2. trees' \in Seq(1 .. made')
  BY <1>1, MoreTrees DEF RegistryTypes
<1>3. /\ row' \in [ver : 0 .. made', state : RowStates, off : BOOLEAN]
      /\ (row'.ver = 0) = (row'.state = "absent")
  BY <1>1 DEF RegistryTypes
<1>4. made' \in 0 .. MaxVersions /\ usable' \subseteq 1 .. made' /\ git' \in 0 .. made'
  BY <1>1, ConstantsAssumption DEF RegistryTypes
<1> QED BY <1>1, <1>2, <1>3, <1>4 DEF RegistryTypes

(* UpdatePrepareStateForConfig records a result of the configuration. *)
LEMMA StoredTypes ==
    ASSUME RegistryTypes, NEW s \in RowStates \ {"absent"}, row.ver > 0, Stored(s),
           UNCHANGED <<made, git, trees, kept, basis>>
    PROVE  RegistryTypes' /\ made <= made' /\ Len(trees) <= Len(trees')
<1>1. row' = [row EXCEPT !.state = s] /\ usable' \subseteq usable \cup {row.ver}
  BY DEF Stored
<1>2. /\ row' \in [ver : 0 .. made', state : RowStates, off : BOOLEAN] /\ row'.ver = row.ver
      /\ row'.state = s
  BY <1>1 DEF RegistryTypes
<1>3. usable' \subseteq 1 .. made'
  BY <1>1 DEF RegistryTypes
<1> QED BY <1>2, <1>3 DEF RegistryTypes

(* RemoveRepo leaves no row. *)
LEMMA RemovedTypes ==
    ASSUME RegistryTypes, row' = Absent, UNCHANGED <<made, usable, git, trees, kept, basis>>
    PROVE  RegistryTypes' /\ made <= made' /\ Len(trees) <= Len(trees')
BY DEF RegistryTypes, Absent, RowStates

(* UpdateRefresh changes the setting only. *)
LEMMA RefreshTypes ==
    ASSUME RegistryTypes, row' = [row EXCEPT !.off = ~@],
           UNCHANGED <<made, usable, git, trees, kept, basis>>
    PROVE  RegistryTypes' /\ made <= made' /\ Len(trees) <= Len(trees')
<1>1. /\ row' \in [ver : 0 .. made', state : RowStates, off : BOOLEAN] /\ row'.ver = row.ver
      /\ row'.state = row.state
  BY DEF RegistryTypes
<1> QED BY <1>1 DEF RegistryTypes

(* Generations are added at the end, for the configuration that the git      *)
(* directory was prepared for, unless the last one is of it already          *)
(* (PublishGeneration).                                                      *)
LEMMA PublishedTypes ==
    ASSUME RegistryTypes, git > 0
    PROVE  /\ Published \in Seq(1 .. made) /\ Len(Published) >= Len(trees)
           /\ Len(Published) \in Nat /\ Len(Published) > 0 /\ Published[Len(Published)] = git
           /\ \A i \in 1 .. Len(trees) : Published[i] = trees[i]
<1>1. git \in 1 .. made /\ trees \in Seq(1 .. made) /\ Len(trees) \in Nat
  BY DEF RegistryTypes
<1>2. CASE Published = trees /\ Len(trees) > 0 /\ trees[Len(trees)] = git
  BY <1>1, <1>2
<1>3. CASE Published = Append(trees, git)
  BY <1>1, <1>3, PublishTypes
<1> QED
  BY <1>1, <1>2, <1>3 DEF Published, Latest

(* Steps keep the types of the registry and of the disk, and the counts of   *)
(* configurations and of generations only grow.                              *)
LEMMA RegistryNext ==
    TypeOK /\ RuntimeInv /\ RowInv /\ LockInv /\ TreeInv /\ [Next]_vars =>
        RegistryTypes' /\ made <= made' /\ Len(trees) <= Len(trees')
<1> SUFFICES ASSUME TypeOK, RuntimeInv, RowInv, LockInv, TreeInv, [Next]_vars
             PROVE  RegistryTypes' /\ made <= made' /\ Len(trees) <= Len(trees')
  OBVIOUS
<1> USE ConstantsAssumption DEF registry, disk, locks, loop, worker, command, Happens,
        CommandTo, LoopTo, LoopWith, WorkerTo, WorkerWith, WorkerEnds, Gone, NoWork,
        NoCommand, NoRuntime, NoPass, Absent
<1>0. RegistryTypes /\ made \in Nat /\ Len(trees) \in Nat
  BY DEF TypeOK, RegistryTypes
<1>99. ASSUME UNCHANGED <<registry, usable, disk>>
      PROVE  RegistryTypes' /\ made <= made' /\ Len(trees) <= Len(trees')
  BY <1>99, <1>0 DEF RegistryTypes
<1>1. CASE AddAsync
  BY <1>1, <1>0, ConfiguredTypes DEF AddAsync, RowStates
<1>2. CASE AddSync
  BY <1>2, <1>0, ConfiguredTypes DEF AddSync, RowStates
<1>3. CASE RemoveRepo
  BY <1>3, <1>0, RemovedTypes DEF RemoveRepo
<1>4. CASE SetRefresh
  BY <1>4, <1>0, RefreshTypes DEF SetRefresh
<1>5. CASE ReadForPrepare
  BY <1>5, <1>99 DEF ReadForPrepare, IsAsync
<1>6. CASE Arrive
  BY <1>6, <1>99 DEF Arrive
<1>7. CASE Interrupt
  BY <1>7, <1>99 DEF Interrupt
<1>8. CASE BeginPrepare
  <2>1. CASE UNCHANGED registry
    BY <1>8, <2>1, <1>99 DEF BeginPrepare
  <2>2. CASE Configured(IF c.async THEN "preparing" ELSE "sync_preparing", row.off)
    BY <1>8, <2>2, <1>0, ConfiguredTypes DEF BeginPrepare, RowStates, RegistryTypes
  <2> QED BY <1>8, <2>1, <2>2 DEF BeginPrepare
<1>9. CASE CommandLock
  BY <1>9, <1>99 DEF CommandLock
<1>10. CASE CommandCheck
  BY <1>10, <1>99 DEF CommandCheck, Current
<1>11. CASE CommandSource
  BY <1>11, <1>0 DEF CommandSource, RegistryTypes, TypeOK
<1>12. CASE CommandConfigLock
  BY <1>12, <1>99 DEF CommandConfigLock, Current
<1>13. CASE CommandPublish
  <2>1. UNCHANGED <<registry, usable, git, basis, kept>> /\ trees' = Published
    BY <1>13 DEF CommandPublish
  <2>2. git > 0
    BY <1>13 DEF CommandPublish, TreeInv, GitInv, RowInv
  <2> QED BY <2>1, <2>2, <1>0, PublishedTypes DEF RegistryTypes
<1>14. CASE CommandFails
  BY <1>14, <1>99 DEF CommandFails
<1>15. CASE CommandPersist
  <2>1. CASE UNCHANGED <<row, usable>>
    BY <1>15, <2>1, <1>99 DEF CommandPersist
  <2>2. CASE Same(row, c) /\ Stored(IF cpc = "persist" THEN "synced" ELSE "broken")
    <3>1. row.ver > 0
      BY <1>15, <2>2 DEF CommandPersist, RowInv, Same
    <3> QED BY <1>15, <3>1, <2>2, <1>0, StoredTypes DEF CommandPersist, RowStates
  <2> QED BY <1>15, <2>1, <2>2 DEF CommandPersist
<1>16. CASE List
  BY <1>16, <1>99 DEF List
<1>17. CASE Look
  BY <1>17, <1>99 DEF Look
<1>18. CASE Restart
  BY <1>18, <1>99 DEF Restart, WithRefresh
<1>19. CASE Judge
  BY <1>19, <1>99 DEF Judge, Same, NewWorker, Resets
<1>20. CASE MountAsync
  BY <1>20, <1>99 DEF MountAsync, NewWorker, Latest
<1>21. CASE MountBegin
  BY <1>21, <1>99 DEF MountBegin
<1>22. CASE MountLock
  BY <1>22, <1>99 DEF MountLock
<1>23. CASE MountCheck
  BY <1>23, <1>99 DEF MountCheck, Current
<1>24. CASE MountConfigLock
  BY <1>24, <1>99 DEF MountConfigLock, Current
<1>25. CASE MountPublish
  <2>1. UNCHANGED <<registry, usable, git, basis>> /\ trees' = Published /\ kept' = Len(trees')
    BY <1>25 DEF MountPublish
  <2>2. git > 0
    BY <1>25 DEF MountPublish, TreeInv, GitInv, RowInv
  <2> QED BY <2>1, <2>2, <1>0, PublishedTypes DEF RegistryTypes
<1>26. CASE MountStart
  <2>1. UNCHANGED <<registry, usable, git, trees, kept>> /\ basis' = d.gen
    BY <1>26 DEF MountStart
  <2> QED BY <2>1, <1>0 DEF RegistryTypes, TypeOK
<1>27. CASE MountFails
  BY <1>27, <1>99 DEF MountFails
<1>28. CASE Detach
  BY <1>28, <1>99 DEF Detach
<1>29. CASE UnmountFails
  BY <1>29, <1>99 DEF UnmountFails
<1>30. CASE Cancel
  BY <1>30, <1>99 DEF Cancel, Wakes
<1>31. CASE Drain
  BY <1>31, <1>99 DEF Drain
<1>32. CASE WorkerLock
  BY <1>32, <1>99 DEF WorkerLock
<1>33. CASE WorkerCheck
  BY <1>33, <1>99 DEF WorkerCheck, Current
<1>34. CASE WorkerSource
  BY <1>34, <1>0 DEF WorkerSource, RegistryTypes, TypeOK
<1>35. CASE WorkerConfigLock
  BY <1>35, <1>99 DEF WorkerConfigLock, Current
<1>36. CASE WorkerPublish
  <2>1. UNCHANGED <<registry, usable, git, basis, kept>> /\ trees' = Append(trees, w.ver)
    BY <1>36 DEF WorkerPublish
  <2>2. w.ver \in 1 .. made
    <3>1. w.ver \in 0 .. made
      BY DEF TypeOK
    <3>2. w.ver > 0
      BY <1>36, <3>1 DEF WorkerPublish, RuntimeInv
    <3> QED
      BY <3>1, <3>2, <1>0
  <2> QED BY <2>1, <2>2, <1>0, PublishTypes DEF RegistryTypes
<1>37. CASE WorkerRecheck
  BY <1>37, <1>99 DEF WorkerRecheck, Same
<1>38. CASE WorkerReady
  <2>1. CASE UNCHANGED <<row, usable>>
    BY <1>38, <2>1, <1>99 DEF WorkerReady
  <2>2. CASE Same(row, w) /\ Stored("ready")
    <3>1. row.ver > 0
      BY <1>38, <2>2 DEF WorkerReady, RuntimeInv, Same
    <3> QED BY <1>38, <3>1, <2>2, <1>0, StoredTypes DEF WorkerReady, RowStates
  <2> QED BY <1>38, <2>1, <2>2 DEF WorkerReady
<1>39. CASE WorkerCompares
  BY <1>39, <1>99 DEF WorkerCompares, Same
<1>40. CASE WorkerShow
  <2>1. UNCHANGED <<registry, usable, git, trees, kept>> /\ basis' = w.gen
    BY <1>40 DEF WorkerShow
  <2> QED BY <2>1, <1>0 DEF RegistryTypes, TypeOK
<1>41. CASE WorkerActivate
  BY <1>41, <1>99 DEF WorkerActivate, Same
<1>42. CASE WorkerOpen
  BY <1>42, <1>99 DEF WorkerOpen, Wakes, Stopping
<1>43. CASE WorkerPrune
  <2>1. UNCHANGED <<registry, usable, git, basis, trees>>
    BY <1>43 DEF WorkerPrune
  <2>2. kept' \in Nat
    <3>1. kept' = kept \/ kept' = PrunedBelow(Lesser(w.prev, w.gen - 1))
      BY <1>43 DEF WorkerPrune
    <3>2. w.prev \in Nat /\ w.gen \in Nat /\ kept \in Nat
      BY <1>0 DEF TypeOK
    <3> QED
      BY <3>1, <3>2 DEF PrunedBelow, Lesser, RegistryTypes
  <2> QED BY <2>1, <2>2, <1>0 DEF RegistryTypes
<1>44. CASE WorkerFails
  BY <1>44, <1>99 DEF WorkerFails, Cancelable
<1>45. CASE WorkerFail
  <2>1. CASE UNCHANGED <<row, usable>>
    BY <1>45, <2>1, <1>99 DEF WorkerFail
  <2>2. CASE Same(row, w) /\ Stored("failed")
    <3>1. row.ver > 0
      BY <1>45, <2>2 DEF WorkerFail, RuntimeInv, Same
    <3> QED BY <1>45, <3>1, <2>2, <1>0, StoredTypes DEF WorkerFail, RowStates
  <2> QED BY <1>45, <2>1, <2>2 DEF WorkerFail
<1>46. CASE WorkerFailGate
  BY <1>46, <1>99 DEF WorkerFailGate, Same, Wakes
<1>47. CASE Leave
  BY <1>47, <1>99 DEF Leave
<1>48. CASE Exit
  BY <1>48, <1>99 DEF Exit, Down
<1>49. CASE Start
  BY <1>49, <1>99 DEF Start
<1>50. CASE Lost
  BY <1>50, <1>99 DEF Lost, Stopping
<1>51. CASE Signal
  BY <1>51, <1>99 DEF Signal
<1>52. CASE Crash
  BY <1>52, <1>99 DEF Crash, Down
<1>53. CASE CommandCrash
  BY <1>53, <1>99 DEF CommandCrash
<1>54. CASE UNCHANGED vars
  BY <1>54, <1>99 DEF vars
<1> QED
  BY <1>1, <1>2, <1>3, <1>4, <1>5, <1>6, <1>7, <1>8, <1>9, <1>10, <1>11, <1>12, <1>13, <1>14,
     <1>15, <1>16, <1>17, <1>18, <1>19, <1>20, <1>21, <1>22, <1>23, <1>24, <1>25, <1>26,
     <1>27, <1>28, <1>29, <1>30, <1>31, <1>32, <1>33, <1>34, <1>35, <1>36, <1>37, <1>38,
     <1>39, <1>40, <1>41, <1>42, <1>43, <1>44, <1>45, <1>46, <1>47, <1>48, <1>49, <1>50,
     <1>51, <1>52, <1>53, <1>54 DEF Next, User, Command, Loop, Worker, Faults

(* The same, of the counts alone. *)
LEMMA Growth ==
    TypeOK /\ RuntimeInv /\ RowInv /\ LockInv /\ TreeInv /\ [Next]_vars =>
        /\ made \in Nat /\ made' \in Nat /\ made <= made'
        /\ Len(trees) \in Nat /\ Len(trees') \in Nat /\ Len(trees) <= Len(trees')
<1> SUFFICES ASSUME TypeOK, RuntimeInv, RowInv, LockInv, TreeInv, [Next]_vars
             PROVE  /\ made \in Nat /\ made' \in Nat /\ made <= made'
                    /\ Len(trees) \in Nat /\ Len(trees') \in Nat /\ Len(trees) <= Len(trees')
  OBVIOUS
<1>1. RegistryTypes' /\ made <= made' /\ Len(trees) <= Len(trees')
  BY RegistryNext
<1>2. made \in Nat /\ Len(trees) \in Nat
  BY DEF TypeOK
<1>3. made' \in Nat /\ Len(trees') \in Nat
  BY <1>1 DEF RegistryTypes
<1> QED BY <1>1, <1>2, <1>3

(* Steps keep the type of what the loop read. *)
LEMMA PassNext ==
    TypeOK /\ RuntimeInv /\ RowInv /\ LockInv /\ TreeInv /\ [Next]_vars =>
        d' \in Passes(made', Len(trees'))
<1> SUFFICES ASSUME TypeOK, RuntimeInv, RowInv, LockInv, TreeInv, [Next]_vars
             PROVE  d' \in Passes(made', Len(trees'))
  OBVIOUS
<1>1. /\ made \in Nat /\ made' \in Nat /\ made <= made'
      /\ Len(trees) \in Nat /\ Len(trees') \in Nat /\ Len(trees) <= Len(trees')
  BY Growth
<1>2. /\ d \in Passes(made, Len(trees)) /\ row \in Configs(made)
      /\ NoPass \in Passes(made, Len(trees))
  BY <1>1 DEF TypeOK, Passes, Configs, NoPass, Absent, RowStates
<1>3. /\ d \in Passes(made', Len(trees')) /\ row \in Configs(made')
      /\ NoPass \in Passes(made', Len(trees'))
  BY <1>1, <1>2, Wider
<1>4. \/ d' = d \/ d' = NoPass \/ d' = [NoPass EXCEPT !.row = row] \/ d' = [d EXCEPT !.row = row]
      \/ \E t \in {"idle", "mount"} : d' = [d EXCEPT !.then = t]
      \/ d' = [NoPass EXCEPT !.then = "exit"]
      \/ \E b \in BOOLEAN : d' = [d EXCEPT !.busy = b]
      \/ d' = [d EXCEPT !.gen = Len(trees')]
  <2> USE DEF loop, LoopTo, LoopWith
  <2>1. CASE Loop
    BY <2>1 DEF Loop, List, Look, Restart, Judge, MountAsync, MountBegin, MountLock,
       MountCheck, MountConfigLock, MountPublish, MountStart, MountFails, Detach,
       UnmountFails, Cancel, Drain
  <2>2. CASE User \/ Command \/ Worker
    BY <2>2, Frames
  <2>3. CASE Leave \/ Exit \/ Start \/ Faults \/ UNCHANGED vars
    BY <2>3 DEF Leave, Exit, Start, Faults, Lost, Signal, Crash, Down, CommandCrash, vars
  <2> QED
    BY <2>1, <2>2, <2>3 DEF Next
<1>5. /\ [d EXCEPT !.row = row] \in Passes(made', Len(trees'))
      /\ [NoPass EXCEPT !.row = row] \in Passes(made', Len(trees'))
  BY <1>3 DEF Passes
<1>6. [d EXCEPT !.gen = Len(trees')] \in Passes(made', Len(trees'))
  BY <1>1, <1>3 DEF Passes
<1>7. /\ \A t \in {"idle", "mount"} : [d EXCEPT !.then = t] \in Passes(made', Len(trees'))
      /\ \A b \in BOOLEAN : [d EXCEPT !.busy = b] \in Passes(made', Len(trees'))
      /\ [NoPass EXCEPT !.then = "exit"] \in Passes(made', Len(trees'))
  BY <1>3 DEF Passes
<1> QED
  BY <1>3, <1>4, <1>5, <1>6, <1>7

(* Steps keep the type of the runtime. *)
LEMMA RuntimeTypesNext ==
    TypeOK /\ RuntimeInv /\ RowInv /\ LockInv /\ TreeInv /\ [Next]_vars =>
        rt' \in Runtimes(made', Len(trees')) /\ (rt'.up \/ rt' = NoRuntime)
<1> SUFFICES ASSUME TypeOK, RuntimeInv, RowInv, LockInv, TreeInv, [Next]_vars
             PROVE  rt' \in Runtimes(made', Len(trees')) /\ (rt'.up \/ rt' = NoRuntime)
  OBVIOUS
<1> DEFINE Good(r) == r \in Runtimes(made', Len(trees')) /\ (r.up \/ r = NoRuntime)
<1>1. /\ made \in Nat /\ made' \in Nat /\ made <= made'
      /\ Len(trees) \in Nat /\ Len(trees') \in Nat /\ Len(trees) <= Len(trees')
  BY Growth
<1>2. Good(rt) /\ Good(NoRuntime)
  <2>1. rt \in Runtimes(made, Len(trees)) /\ (rt.up \/ rt = NoRuntime)
    BY DEF TypeOK, Runtimes
  <2> QED
    BY <2>1, <1>1, Wider DEF Runtimes, NoRuntime
<1>3. /\ d.row.ver \in 0 .. made' /\ d.row.off \in BOOLEAN /\ d.gen \in 0 .. Len(trees')
      /\ Latest \in 0 .. Len(trees')
  BY <1>1 DEF TypeOK, Latest
<1>4. w.gen \in 0 .. Len(trees')
  BY <1>1 DEF TypeOK
<1>5. CASE rt' = rt \/ rt' = NoRuntime
  BY <1>2, <1>5
<1>6. /\ \A o, m \in BOOLEAN : 
           rt.up => Good([rt EXCEPT !.off = o]) /\ Good([rt EXCEPT !.off = o, !.mounted = m])
      /\ \A m \in BOOLEAN : rt.up => Good([rt EXCEPT !.mounted = m])
      /\ \A g \in {"undecided", "ready", "failed"}, a \in BOOLEAN :
           rt.up => Good([rt EXCEPT !.gate = g]) /\ Good([rt EXCEPT !.gate = g, !.active = a])
      /\ \A s \in 0 .. Len(trees') : rt.up => Good([rt EXCEPT !.shown = s])
      /\ \A v \in 0 .. made', o \in BOOLEAN :
           rt.up => Good([rt EXCEPT !.gate = "undecided", !.ver = v, !.off = o])
  BY <1>2 DEF Runtimes
<1>7. ASSUME NEW o \in BOOLEAN, NEW m \in BOOLEAN, NEW a \in BOOLEAN,
             NEW g \in {"none", "undecided", "failed"}, NEW s \in 0 .. Len(trees'),
             NEW v \in 0 .. made',
             rt' = [up |-> TRUE, ver |-> v, off |-> o, mounted |-> m,
                    shown |-> s, gate |-> g, active |-> a]
      PROVE  Good(rt')
  BY <1>7 DEF Runtimes
<1>8. CASE Loop
  <2> USE DEF loop, LoopTo, LoopWith
  <2>1. CASE MountAsync
    BY <2>1, <1>3, <1>7 DEF MountAsync
  <2>2. CASE MountStart
    BY <2>2, <1>3, <1>7 DEF MountStart
  <2>3. CASE Restart
    BY <2>3, <1>2, <1>3, <1>6 DEF Restart, WithRefresh, RuntimeInv
  <2>4. CASE Judge
    <3>1. \/ rt' = rt
          \/ rt.up /\ rt' = [rt EXCEPT !.gate = "undecided", !.ver = d.row.ver, !.off = d.row.off]
      BY <2>4 DEF Judge, Resets, RuntimeInv
    <3>2. CASE /\ rt.up
               /\ rt' = [rt EXCEPT !.gate = "undecided", !.ver = d.row.ver, !.off = d.row.off]
      BY <3>2, <1>3, <1>6
    <3> QED BY <3>1, <3>2, <1>5
  <2>5. CASE Detach \/ Cancel
    <3>1. /\ rt.up
          /\ (rt' = rt \/ rt' = [rt EXCEPT !.mounted = FALSE] \/ rt' = [rt EXCEPT !.gate = "failed"])
      BY <2>5 DEF Detach, Cancel, RuntimeInv
    <3> QED BY <3>1, <1>5, <1>6
  <2>6. CASE \/ List \/ Look \/ MountBegin \/ MountLock \/ MountCheck \/ MountConfigLock
             \/ MountPublish \/ MountFails \/ UnmountFails \/ Drain
    BY <2>6, <1>5 DEF List, Look, MountBegin, MountLock, MountCheck, MountConfigLock,
       MountPublish, MountFails, UnmountFails, Drain
  <2> QED
    BY <1>8, <2>1, <2>2, <2>3, <2>4, <2>5, <2>6 DEF Loop
<1>9. CASE Worker
  <2>1. rt' # rt => rt.up
    BY <1>9 DEF Worker, WorkerLock, WorkerCheck, WorkerSource, WorkerConfigLock,
       WorkerPublish, WorkerRecheck, WorkerReady, WorkerCompares, WorkerShow, WorkerActivate,
       WorkerOpen, WorkerPrune, WorkerFails, WorkerFail, WorkerFailGate, RuntimeInv
  <2>2. CASE WorkerShow
    <3>1. rt' = rt \/ (rt.up /\ rt' = [rt EXCEPT !.shown = w.gen])
      BY <2>1, <2>2 DEF WorkerShow
    <3> QED BY <3>1, <1>4, <1>5, <1>6
  <2>3. CASE WorkerOpen
    <3>1. (rt.active \/ ~Stopping) \in BOOLEAN
      BY DEF TypeOK
    <3>2. \/ rt' = rt
          \/ rt.up /\ rt' = [rt EXCEPT !.gate = "ready", !.active = rt.active \/ ~Stopping]
      BY <2>1, <2>3 DEF WorkerOpen
    <3> QED BY <3>1, <3>2, <1>5, <1>6
  <2>4. CASE WorkerFailGate
    <3>1. rt' = rt \/ (rt.up /\ rt' = [rt EXCEPT !.gate = "failed"])
      BY <2>1, <2>4 DEF WorkerFailGate
    <3> QED BY <3>1, <1>5, <1>6
  <2>5. CASE ~(WorkerShow \/ WorkerOpen \/ WorkerFailGate)
    BY <1>9, <2>5, <1>5 DEF Worker, WorkerLock, WorkerCheck, WorkerSource, WorkerConfigLock,
       WorkerPublish, WorkerRecheck, WorkerReady, WorkerCompares, WorkerActivate, WorkerPrune,
       WorkerFails, WorkerFail
  <2> QED
    BY <2>2, <2>3, <2>4, <2>5
<1>10. CASE Lost
  <2>1. rt.up
    BY <1>10 DEF Lost, TypeOK, NoRuntime
  <2>2. rt' = [rt EXCEPT !.mounted = FALSE]
    BY <1>10 DEF Lost
  <2> QED BY <2>1, <2>2, <1>6
<1>11. CASE User \/ Command
  BY <1>11, <1>5, Frames
<1>12. CASE Leave \/ Exit \/ Start \/ Signal \/ Crash \/ CommandCrash \/ UNCHANGED vars
  BY <1>12, <1>5 DEF Leave, Exit, Start, Signal, Crash, CommandCrash, Down, vars
<1> QED
  BY <1>8, <1>9, <1>10, <1>11, <1>12 DEF Next, Faults

(* Steps keep the type of the worker's record. *)
LEMMA WorkNext ==
    TypeOK /\ RuntimeInv /\ RowInv /\ LockInv /\ TreeInv /\ [Next]_vars =>
        w' \in Works(made', Len(trees'))
<1> SUFFICES ASSUME TypeOK, RuntimeInv, RowInv, LockInv, TreeInv, [Next]_vars
             PROVE  w' \in Works(made', Len(trees'))
  OBVIOUS
<1>1. /\ made \in Nat /\ made' \in Nat /\ made <= made'
      /\ Len(trees) \in Nat /\ Len(trees') \in Nat /\ Len(trees) <= Len(trees')
  BY Growth
<1>2. w \in Works(made', Len(trees')) /\ NoWork \in Works(made', Len(trees'))
  <2>1. w \in Works(made, Len(trees))
    BY DEF TypeOK, Works
  <2> QED
    BY <2>1, <1>1, Wider DEF Works, NoWork
<1>3. \/ w' = w \/ w' = NoWork
      \/ w' = [ver |-> d.row.ver, off |-> d.row.off, gen |-> 0, prev |-> 0]
      \/ w' = [w EXCEPT !.gen = Len(trees'), !.prev = Len(trees)]
  <2>1. CASE Loop
    BY <2>1 DEF worker, Loop, List, Look, Restart, Judge, MountAsync, MountBegin, MountLock,
       MountCheck, NewWorker, MountConfigLock, MountPublish, MountStart, MountFails, Detach,
       UnmountFails, Cancel, Drain
  <2>2. CASE Worker
    BY <2>2 DEF WorkerEnds, WorkerTo, WorkerWith, Worker, WorkerLock, WorkerCheck,
       WorkerSource, WorkerConfigLock, WorkerPublish, WorkerRecheck, WorkerReady,
       WorkerCompares, WorkerShow, WorkerActivate, WorkerOpen, WorkerPrune, WorkerFails,
       WorkerFail, WorkerFailGate, Latest
  <2>3. CASE User \/ Command
    BY <2>3, Frames DEF worker
  <2>4. CASE Leave \/ Exit \/ Start \/ Faults \/ UNCHANGED vars
    BY <2>4 DEF Leave, Exit, Start, Faults, Lost, Signal, Crash, CommandCrash, Down, vars,
       worker
  <2> QED
    BY <2>1, <2>2, <2>3, <2>4 DEF Next
<1>4. d.row.ver \in 0 .. made' /\ d.row.off \in BOOLEAN
  BY <1>1 DEF TypeOK
<1>5. [w EXCEPT !.gen = Len(trees'), !.prev = Len(trees)] \in Works(made', Len(trees'))
  <2>1. Len(trees) \in 0 .. Len(trees') /\ Len(trees') \in 0 .. Len(trees')
    BY <1>1
  <2> QED BY <2>1, <1>2 DEF Works
<1>6. [ver |-> d.row.ver, off |-> d.row.off, gen |-> 0, prev |-> 0] \in Works(made', Len(trees'))
  BY <1>1, <1>4 DEF Works
<1> QED
  BY <1>2, <1>3, <1>5, <1>6

(* Steps keep the type of the command's record. *)
LEMMA CommandTypesNext ==
    TypeOK /\ RuntimeInv /\ RowInv /\ LockInv /\ TreeInv /\ [Next]_vars =>
        c' \in Commands(made')
<1> SUFFICES ASSUME TypeOK, RuntimeInv, RowInv, LockInv, TreeInv, [Next]_vars
             PROVE  c' \in Commands(made')
  OBVIOUS
<1>1. made \in Nat /\ made' \in Nat /\ made <= made' /\ Len(trees) \in Nat
  BY Growth
<1>2. c \in Commands(made') /\ NoCommand \in Commands(made')
  <2>1. c \in Commands(made)
    BY DEF TypeOK, Commands
  <2> QED
    BY <2>1, <1>1, Wider DEF Commands, NoCommand
<1>3. ASSUME NEW v \in 0 .. made', NEW o \in BOOLEAN, NEW a \in BOOLEAN,
             c' = [ver |-> v, off |-> o, async |-> a] \/ c' = [c EXCEPT !.ver = v]
      PROVE  c' \in Commands(made')
  BY <1>2, <1>3 DEF Commands
<1>4. CASE c' = c \/ c' = NoCommand
  BY <1>2, <1>4
<1>5. CASE AddSync
  <2>1. made + 1 \in 0 .. made'
    BY <1>1, <1>5 DEF AddSync, Configured
  <2> QED BY <2>1, <1>5, <1>3 DEF AddSync
<1>6. CASE ReadForPrepare
  <2>1. row.ver \in 0 .. made' /\ row.off \in BOOLEAN /\ IsAsync(row.state) \in BOOLEAN
    BY <1>1 DEF TypeOK, IsAsync
  <2> QED BY <2>1, <1>6, <1>3 DEF ReadForPrepare
<1>7. CASE BeginPrepare
  <2>1. CASE c' = [c EXCEPT !.ver = made + 1] /\ made' = made + 1
    <3>1. made + 1 \in 0 .. made'
      BY <1>1, <2>1
    <3> QED BY <2>1, <3>1, <1>3
  <2>2. CASE c' = NoCommand
    BY <1>4, <2>2
  <2> QED
    BY <1>7, <2>1, <2>2 DEF BeginPrepare, Configured
<1>8. CASE (User \/ Command) /\ ~AddSync /\ ~ReadForPrepare /\ ~BeginPrepare
  BY <1>8, <1>4 DEF command, CommandTo, User, AddAsync, RemoveRepo, SetRefresh, Arrive,
     Interrupt, Command, CommandLock, CommandCheck, CommandSource, CommandConfigLock,
     CommandPublish, CommandFails, CommandPersist
<1>9. CASE Loop \/ Worker
  BY <1>9, <1>4, Frames DEF command
<1>10. CASE Leave \/ Exit \/ Start \/ Faults \/ UNCHANGED vars
  BY <1>10, <1>4 DEF Leave, Exit, Start, Faults, Lost, Signal, Crash, CommandCrash, Down,
     vars, command
<1> QED
  BY <1>5, <1>6, <1>7, <1>8, <1>9, <1>10 DEF Next

(* Steps keep the types of places, locks and counters. *)
LEMMA PlaceNext ==
    TypeOK /\ [Next]_vars => PlaceTypes'
<1> SUFFICES ASSUME TypeOK, [Next]_vars
             PROVE  PlaceTypes'
  OBVIOUS
<1> USE ConstantsAssumption DEF registry, disk, locks, loop, worker, command, Happens,
        CommandTo, LoopTo, LoopWith, WorkerTo, WorkerWith, WorkerEnds, Gone, NoWork,
        NoCommand, NoRuntime, NoPass, Absent, PlaceTypes, LoopPCs, WorkerPCs, CommandPCs
<1>98. PlaceTypes /\ d.then \in {"idle", "mount", "exit"}
  BY DEF TypeOK
<1>1. CASE AddAsync
  BY <1>1, <1>98 DEF AddAsync, Configured
<1>2. CASE AddSync
  BY <1>2, <1>98 DEF AddSync, Configured
<1>3. CASE RemoveRepo
  BY <1>3, <1>98 DEF RemoveRepo
<1>4. CASE SetRefresh
  BY <1>4, <1>98 DEF SetRefresh
<1>5. CASE ReadForPrepare
  BY <1>5, <1>98 DEF ReadForPrepare, IsAsync
<1>6. CASE Arrive
  BY <1>6, <1>98 DEF Arrive
<1>7. CASE Interrupt
  BY <1>7, <1>98 DEF Interrupt
<1>8. CASE BeginPrepare
  BY <1>8, <1>98 DEF BeginPrepare, Configured, Current, IsAsync
<1>9. CASE CommandLock
  BY <1>9, <1>98 DEF CommandLock
<1>10. CASE CommandCheck
  BY <1>10, <1>98 DEF CommandCheck, Current
<1>11. CASE CommandSource
  BY <1>11, <1>98 DEF CommandSource
<1>12. CASE CommandConfigLock
  BY <1>12, <1>98 DEF CommandConfigLock, Current
<1>13. CASE CommandPublish
  BY <1>13, <1>98 DEF CommandPublish, Published, Latest
<1>14. CASE CommandFails
  BY <1>14, <1>98 DEF CommandFails
<1>15. CASE CommandPersist
  BY <1>15, <1>98 DEF CommandPersist, Same, Stored
<1>16. CASE List
  BY <1>16, <1>98 DEF List
<1>17. CASE Look
  BY <1>17, <1>98 DEF Look
<1>18. CASE Restart
  BY <1>18, <1>98 DEF Restart, WithRefresh
<1>19. CASE Judge
  BY <1>19, <1>98 DEF Judge, Same, NewWorker, Resets
<1>20. CASE MountAsync
  BY <1>20, <1>98 DEF MountAsync, NewWorker, Latest
<1>21. CASE MountBegin
  BY <1>21, <1>98 DEF MountBegin
<1>22. CASE MountLock
  BY <1>22, <1>98 DEF MountLock
<1>23. CASE MountCheck
  BY <1>23, <1>98 DEF MountCheck, Current
<1>24. CASE MountConfigLock
  BY <1>24, <1>98 DEF MountConfigLock, Current
<1>25. CASE MountPublish
  BY <1>25, <1>98 DEF MountPublish, Published, Latest
<1>26. CASE MountStart
  BY <1>26, <1>98 DEF MountStart
<1>27. CASE MountFails
  BY <1>27, <1>98 DEF MountFails
<1>28. CASE Detach
  BY <1>28, <1>98 DEF Detach
<1>29. CASE UnmountFails
  BY <1>29, <1>98 DEF UnmountFails
<1>30. CASE Cancel
  BY <1>30, <1>98 DEF Cancel, Wakes
<1>31. CASE Drain
  BY <1>31, <1>98 DEF Drain
<1>32. CASE WorkerLock
  BY <1>32, <1>98 DEF WorkerLock
<1>33. CASE WorkerCheck
  BY <1>33, <1>98 DEF WorkerCheck, Current
<1>34. CASE WorkerSource
  BY <1>34, <1>98 DEF WorkerSource
<1>35. CASE WorkerConfigLock
  BY <1>35, <1>98 DEF WorkerConfigLock, Current
<1>36. CASE WorkerPublish
  BY <1>36, <1>98 DEF WorkerPublish, Latest
<1>37. CASE WorkerRecheck
  BY <1>37, <1>98 DEF WorkerRecheck, Same
<1>38. CASE WorkerReady
  BY <1>38, <1>98 DEF WorkerReady, Same, Stored
<1>39. CASE WorkerCompares
  BY <1>39, <1>98 DEF WorkerCompares, Same
<1>40. CASE WorkerShow
  BY <1>40, <1>98 DEF WorkerShow
<1>41. CASE WorkerActivate
  BY <1>41, <1>98 DEF WorkerActivate, Same
<1>42. CASE WorkerOpen
  BY <1>42, <1>98 DEF WorkerOpen, Wakes, Stopping
<1>43. CASE WorkerPrune
  BY <1>43, <1>98 DEF WorkerPrune, Current, PrunedBelow, Lesser
<1>44. CASE WorkerFails
  BY <1>44, <1>98 DEF WorkerFails, Cancelable
<1>45. CASE WorkerFail
  BY <1>45, <1>98 DEF WorkerFail, Same, Stored
<1>46. CASE WorkerFailGate
  BY <1>46, <1>98 DEF WorkerFailGate, Same, Wakes
<1>47. CASE Leave
  BY <1>47, <1>98 DEF Leave
<1>48. CASE Exit
  BY <1>48, <1>98 DEF Exit, Down
<1>49. CASE Start
  BY <1>49, <1>98 DEF Start
<1>50. CASE Lost
  BY <1>50, <1>98 DEF Lost, Stopping
<1>51. CASE Signal
  BY <1>51, <1>98 DEF Signal
<1>52. CASE Crash
  BY <1>52, <1>98 DEF Crash, Down
<1>53. CASE CommandCrash
  BY <1>53, <1>98 DEF CommandCrash
<1>54. CASE UNCHANGED vars
  BY <1>54, <1>98 DEF vars
<1> QED
  BY <1>1, <1>2, <1>3, <1>4, <1>5, <1>6, <1>7, <1>8, <1>9, <1>10, <1>11, <1>12, <1>13, <1>14,
     <1>15, <1>16, <1>17, <1>18, <1>19, <1>20, <1>21, <1>22, <1>23, <1>24, <1>25, <1>26,
     <1>27, <1>28, <1>29, <1>30, <1>31, <1>32, <1>33, <1>34, <1>35, <1>36, <1>37, <1>38,
     <1>39, <1>40, <1>41, <1>42, <1>43, <1>44, <1>45, <1>46, <1>47, <1>48, <1>49, <1>50,
     <1>51, <1>52, <1>53, <1>54 DEF Next, User, Command, Loop, Worker, Faults

(* Steps keep the types. *)
LEMMA TypeNext ==
    TypeOK /\ RuntimeInv /\ RowInv /\ LockInv /\ TreeInv /\ [Next]_vars => TypeOK'
BY RegistryNext, PlaceNext, PassNext, RuntimeTypesNext, WorkNext, CommandTypesNext DEF TypeOK,
   RegistryTypes, PlaceTypes, Passes, Runtimes, Works, Commands, Configs

-----------------------------------------------------------------------------
(* Locks, runtime and rows *)

(* The versions and the kinds of records, without their types. *)
LEMMA Versions ==
    ASSUME TypeOK
    PROVE  /\ made \in Nat /\ row.ver \in 0 .. made /\ (row.ver = 0) = (row.state = "absent")
           /\ d.row.ver \in 0 .. made /\ w.ver \in 0 .. made /\ c.ver \in 0 .. made
           /\ rt.ver \in 0 .. made
           /\ row.state \in RowStates /\ d.row.state \in RowStates
           /\ (rt.up \/ rt = NoRuntime)
           /\ (daemon = "down") = (dpc = "off") /\ d.then \in {"idle", "mount", "exit"}
BY DEF TypeOK

(* What a recorded result and a new configuration do to the row. *)
LEMMA RowChange ==
    ASSUME TypeOK
    PROVE  /\ \A s : Stored(s) => row'.ver = row.ver /\ row'.state = s /\ row'.off = row.off
           /\ \A s, o : Configured(s, o) =>
                made' = made + 1 /\ row'.ver = made + 1 /\ row'.state = s /\ row'.off = o
BY DEF TypeOK, Stored, Configured

(* Steps keep the locks with their holders: syncRepos, runPrepareAttempt and *)
(* prepareRepo take the prepare lock before the config lock.                 *)
LEMMA LockNext ==
    TypeOK /\ RuntimeInv /\ LockInv /\ [Next]_vars => LockInv'
<1> SUFFICES ASSUME TypeOK, RuntimeInv, LockInv, [Next]_vars
             PROVE  LockInv'
  OBVIOUS
<1> USE ConstantsAssumption DEF registry, disk, locks, loop, worker, command, Happens,
        CommandTo, LoopTo, LoopWith, WorkerTo, WorkerWith, WorkerEnds, Gone, NoWork,
        NoCommand, NoRuntime, NoPass, Absent, LockInv, RuntimeInv, WorkerHolds, CommandHolds
<1>1. CASE AddAsync
  BY <1>1 DEF AddAsync, Configured
<1>2. CASE AddSync
  BY <1>2 DEF AddSync, Configured
<1>3. CASE RemoveRepo
  BY <1>3 DEF RemoveRepo
<1>4. CASE SetRefresh
  BY <1>4 DEF SetRefresh
<1>5. CASE ReadForPrepare
  BY <1>5 DEF ReadForPrepare, IsAsync
<1>6. CASE Arrive
  BY <1>6 DEF Arrive
<1>7. CASE Interrupt
  BY <1>7 DEF Interrupt
<1>8. CASE BeginPrepare
  BY <1>8 DEF BeginPrepare, Configured, Current, IsAsync
<1>9. CASE CommandLock
  BY <1>9 DEF CommandLock
<1>10. CASE CommandCheck
  BY <1>10 DEF CommandCheck, Current
<1>11. CASE CommandSource
  BY <1>11 DEF CommandSource
<1>12. CASE CommandConfigLock
  BY <1>12 DEF CommandConfigLock, Current
<1>13. CASE CommandPublish
  BY <1>13 DEF CommandPublish, Published, Latest
<1>14. CASE CommandFails
  BY <1>14 DEF CommandFails
<1>15. CASE CommandPersist
  BY <1>15 DEF CommandPersist, Same, Stored
<1>16. CASE List
  BY <1>16 DEF List
<1>17. CASE Look
  BY <1>17 DEF Look
<1>18. CASE Restart
  BY <1>18 DEF Restart, WithRefresh
<1>19. CASE Judge
  BY <1>19 DEF Judge, Same, NewWorker, Resets
<1>20. CASE MountAsync
  BY <1>20 DEF MountAsync, NewWorker, Latest
<1>21. CASE MountBegin
  BY <1>21 DEF MountBegin
<1>22. CASE MountLock
  BY <1>22 DEF MountLock
<1>23. CASE MountCheck
  BY <1>23 DEF MountCheck, Current
<1>24. CASE MountConfigLock
  BY <1>24 DEF MountConfigLock, Current
<1>25. CASE MountPublish
  BY <1>25 DEF MountPublish, Published, Latest
<1>26. CASE MountStart
  BY <1>26 DEF MountStart
<1>27. CASE MountFails
  BY <1>27 DEF MountFails
<1>28. CASE Detach
  BY <1>28 DEF Detach
<1>29. CASE UnmountFails
  BY <1>29 DEF UnmountFails
<1>30. CASE Cancel
  BY <1>30 DEF Cancel, Wakes
<1>31. CASE Drain
  BY <1>31 DEF Drain, TypeOK
<1>32. CASE WorkerLock
  BY <1>32 DEF WorkerLock
<1>33. CASE WorkerCheck
  BY <1>33 DEF WorkerCheck, Current
<1>34. CASE WorkerSource
  BY <1>34 DEF WorkerSource
<1>35. CASE WorkerConfigLock
  BY <1>35 DEF WorkerConfigLock, Current
<1>36. CASE WorkerPublish
  BY <1>36 DEF WorkerPublish, Latest
<1>37. CASE WorkerRecheck
  BY <1>37 DEF WorkerRecheck, Same
<1>38. CASE WorkerReady
  BY <1>38 DEF WorkerReady, Same, Stored
<1>39. CASE WorkerCompares
  BY <1>39 DEF WorkerCompares, Same
<1>40. CASE WorkerShow
  BY <1>40 DEF WorkerShow
<1>41. CASE WorkerActivate
  BY <1>41 DEF WorkerActivate, Same
<1>42. CASE WorkerOpen
  BY <1>42 DEF WorkerOpen, Wakes, Stopping
<1>43. CASE WorkerPrune
  BY <1>43 DEF WorkerPrune, Current, PrunedBelow, Lesser
<1>44. CASE WorkerFails
  BY <1>44 DEF WorkerFails, Cancelable
<1>45. CASE WorkerFail
  BY <1>45 DEF WorkerFail, Same, Stored
<1>46. CASE WorkerFailGate
  BY <1>46 DEF WorkerFailGate, Same, Wakes
<1>47. CASE Leave
  BY <1>47 DEF Leave
<1>48. CASE Exit
  BY <1>48 DEF Exit, Down
<1>49. CASE Start
  BY <1>49 DEF Start, TypeOK
<1>50. CASE Lost
  BY <1>50 DEF Lost, Stopping
<1>51. CASE Signal
  BY <1>51 DEF Signal
<1>52. CASE Crash
  BY <1>52 DEF Crash, Down
<1>53. CASE CommandCrash
  BY <1>53 DEF CommandCrash
<1>54. CASE UNCHANGED vars
  BY <1>54 DEF vars
<1> QED
  BY <1>1, <1>2, <1>3, <1>4, <1>5, <1>6, <1>7, <1>8, <1>9, <1>10, <1>11, <1>12, <1>13, <1>14,
     <1>15, <1>16, <1>17, <1>18, <1>19, <1>20, <1>21, <1>22, <1>23, <1>24, <1>25, <1>26,
     <1>27, <1>28, <1>29, <1>30, <1>31, <1>32, <1>33, <1>34, <1>35, <1>36, <1>37, <1>38,
     <1>39, <1>40, <1>41, <1>42, <1>43, <1>44, <1>45, <1>46, <1>47, <1>48, <1>49, <1>50,
     <1>51, <1>52, <1>53, <1>54 DEF Next, User, Command, Loop, Worker, Faults

(* Steps keep the order of runtime, worker and gate. *)
LEMMA RuntimeNext ==
    TypeOK /\ RuntimeInv /\ RowInv /\ [Next]_vars => RuntimeInv'
<1> SUFFICES ASSUME TypeOK, RuntimeInv, RowInv, [Next]_vars
             PROVE  RuntimeInv'
  OBVIOUS
<1> USE DEF registry, disk, locks, loop, worker, command, Happens, CommandTo, LoopTo,
        LoopWith, WorkerTo, WorkerWith, WorkerEnds, Gone, NoWork, NoCommand, NoRuntime,
        NoPass, Absent
<1>1. CASE AddAsync
  BY <1>1 DEF AddAsync, Configured, RuntimeInv, RowInv, TypeOK
<1>2. CASE AddSync
  BY <1>2 DEF AddSync, Configured, RuntimeInv, RowInv, TypeOK
<1>3. CASE RemoveRepo
  BY <1>3 DEF RemoveRepo, RuntimeInv, RowInv, TypeOK
<1>4. CASE SetRefresh
  BY <1>4 DEF SetRefresh, RuntimeInv, RowInv, TypeOK
<1>5. CASE ReadForPrepare
  BY <1>5 DEF ReadForPrepare, IsAsync, RuntimeInv, RowInv, TypeOK
<1>6. CASE Arrive
  BY <1>6 DEF Arrive, RuntimeInv, RowInv, TypeOK
<1>7. CASE Interrupt
  BY <1>7 DEF Interrupt, RuntimeInv, RowInv, TypeOK
<1>8. CASE BeginPrepare
  BY <1>8 DEF BeginPrepare, Configured, Current, IsAsync, RuntimeInv, RowInv, TypeOK
<1>9. CASE CommandLock
  BY <1>9 DEF CommandLock, RuntimeInv, RowInv, TypeOK
<1>10. CASE CommandCheck
  BY <1>10 DEF CommandCheck, Current, RuntimeInv, RowInv, TypeOK
<1>11. CASE CommandSource
  BY <1>11 DEF CommandSource, RuntimeInv, RowInv, TypeOK
<1>12. CASE CommandConfigLock
  BY <1>12 DEF CommandConfigLock, Current, RuntimeInv, RowInv, TypeOK
<1>13. CASE CommandPublish
  BY <1>13 DEF CommandPublish, Published, Latest, RuntimeInv, RowInv, TypeOK
<1>14. CASE CommandFails
  BY <1>14 DEF CommandFails, RuntimeInv, RowInv, TypeOK
<1>15. CASE CommandPersist
  BY <1>15 DEF CommandPersist, Same, Stored, RuntimeInv, RowInv, TypeOK
<1>16. CASE List
  BY <1>16 DEF List, RuntimeInv, RowInv, TypeOK
<1>17. CASE Look
  BY <1>17 DEF Look, RuntimeInv, RowInv, TypeOK
<1>18. CASE Restart
  <2>1. /\ dpc = "restart" /\ dpc' \in {"judge", "idle"} /\ UNCHANGED <<daemon, worker>>
        /\ rt'.up = rt.up /\ rt'.ver = rt.ver /\ rt'.gate = rt.gate /\ rt'.active = rt.active
    BY <1>18 DEF Restart, WithRefresh, TypeOK
  <2> QED
    BY <1>18, <2>1 DEF RuntimeInv, RowInv
<1>19. CASE Judge
  <2>1. CASE UNCHANGED <<rt, worker>>
    BY <1>19, <2>1 DEF Judge, Same, NewWorker, Resets, RuntimeInv
  <2>2. CASE Same(rt, d.row) /\ ~rt.active /\ Resets /\ NewWorker(d.row) /\ dpc' = "idle"
    <3>1. rt'.up = rt.up /\ rt'.ver = rt.ver /\ rt'.gate = "undecided" /\ rt'.active = rt.active
      BY <2>2 DEF Resets, Same, TypeOK
    <3>2. IF wpc = "none" THEN wpc' = "lock" /\ w'.ver = rt.ver ELSE UNCHANGED worker
      BY <2>2 DEF NewWorker, Same
    <3> QED
      BY <1>19, <2>2, <3>1, <3>2 DEF Judge, RuntimeInv, RowInv
  <2> QED
    BY <1>19, <2>1, <2>2 DEF Judge, Resets
<1>20. CASE MountAsync
  BY <1>20 DEF MountAsync, NewWorker, Latest, RuntimeInv, RowInv, TypeOK
<1>21. CASE MountBegin
  BY <1>21 DEF MountBegin, RuntimeInv, RowInv, TypeOK
<1>22. CASE MountLock
  BY <1>22 DEF MountLock, RuntimeInv, RowInv, TypeOK
<1>23. CASE MountCheck
  BY <1>23 DEF MountCheck, Current, RuntimeInv, RowInv, TypeOK
<1>24. CASE MountConfigLock
  BY <1>24 DEF MountConfigLock, Current, RuntimeInv, RowInv, TypeOK
<1>25. CASE MountPublish
  BY <1>25 DEF MountPublish, Published, Latest, RuntimeInv, RowInv, TypeOK
<1>26. CASE MountStart
  BY <1>26 DEF MountStart, RuntimeInv, RowInv, TypeOK
<1>27. CASE MountFails
  BY <1>27 DEF MountFails, RuntimeInv, RowInv, TypeOK
<1>28. CASE Detach
  BY <1>28 DEF Detach, RuntimeInv, RowInv, TypeOK
<1>29. CASE UnmountFails
  BY <1>29 DEF UnmountFails, RuntimeInv, RowInv, TypeOK
<1>30. CASE Cancel
  <2>1. /\ dpc = "cancel" /\ dpc' = "drain" /\ UNCHANGED <<daemon, worker>>
        /\ rt'.up = rt.up /\ rt'.ver = rt.ver /\ (rt'.gate = rt.gate \/ rt'.gate = "failed")
        /\ rt'.active = rt.active
    BY <1>30 DEF Cancel, Wakes, TypeOK
  <2> QED
    BY <1>30, <2>1 DEF RuntimeInv, RowInv
<1>31. CASE Drain
  BY <1>31 DEF Drain, RuntimeInv, RowInv, TypeOK
<1>32. CASE WorkerLock
  BY <1>32 DEF WorkerLock, RuntimeInv, RowInv, TypeOK
<1>33. CASE WorkerCheck
  BY <1>33 DEF WorkerCheck, Current, RuntimeInv, RowInv, TypeOK
<1>34. CASE WorkerSource
  BY <1>34 DEF WorkerSource, RuntimeInv, RowInv, TypeOK
<1>35. CASE WorkerConfigLock
  BY <1>35 DEF WorkerConfigLock, Current, RuntimeInv, RowInv, TypeOK
<1>36. CASE WorkerPublish
  BY <1>36 DEF WorkerPublish, Latest, RuntimeInv, RowInv, TypeOK
<1>37. CASE WorkerRecheck
  BY <1>37 DEF WorkerRecheck, Same, RuntimeInv, RowInv, TypeOK
<1>38. CASE WorkerReady
  BY <1>38 DEF WorkerReady, Same, Stored, RuntimeInv, RowInv, TypeOK
<1>39. CASE WorkerCompares
  BY <1>39 DEF WorkerCompares, Same, RuntimeInv, RowInv, TypeOK
<1>40. CASE WorkerShow
  BY <1>40 DEF WorkerShow, RuntimeInv, RowInv, TypeOK
<1>41. CASE WorkerActivate
  BY <1>41 DEF WorkerActivate, Same, RuntimeInv, RowInv, TypeOK
<1>42. CASE WorkerOpen
  BY <1>42 DEF WorkerOpen, Wakes, Stopping, RuntimeInv, RowInv, TypeOK
<1>43. CASE WorkerPrune
  BY <1>43 DEF WorkerPrune, Current, PrunedBelow, Lesser, RuntimeInv, RowInv, TypeOK
<1>44. CASE WorkerFails
  BY <1>44 DEF WorkerFails, Cancelable, RuntimeInv, RowInv, TypeOK
<1>45. CASE WorkerFail
  BY <1>45 DEF WorkerFail, Same, Stored, RuntimeInv, RowInv, TypeOK
<1>46. CASE WorkerFailGate
  <2>1. /\ wpc = "failGate" /\ wpc' = "none" /\ UNCHANGED loop
        /\ rt'.up = rt.up /\ rt'.ver = rt.ver /\ (rt'.gate = rt.gate \/ rt'.gate = "failed")
        /\ rt'.active = rt.active
    BY <1>46 DEF WorkerFailGate, Same, Wakes, TypeOK
  <2> QED
    BY <1>46, <2>1 DEF RuntimeInv, RowInv
<1>47. CASE Leave
  BY <1>47 DEF Leave, RuntimeInv, RowInv, TypeOK
<1>48. CASE Exit
  BY <1>48 DEF Exit, Down, RuntimeInv, RowInv, TypeOK
<1>49. CASE Start
  BY <1>49 DEF Start, RuntimeInv, RowInv, TypeOK
<1>50. CASE Lost
  BY <1>50 DEF Lost, Stopping, RuntimeInv, RowInv, TypeOK
<1>51. CASE Signal
  BY <1>51 DEF Signal, RuntimeInv, RowInv, TypeOK
<1>52. CASE Crash
  BY <1>52 DEF Crash, Down, RuntimeInv, RowInv, TypeOK
<1>53. CASE CommandCrash
  BY <1>53 DEF CommandCrash, RuntimeInv, RowInv, TypeOK
<1>54. CASE UNCHANGED vars
  BY <1>54 DEF vars, RuntimeInv, RowInv, TypeOK
<1> QED
  BY <1>1, <1>2, <1>3, <1>4, <1>5, <1>6, <1>7, <1>8, <1>9, <1>10, <1>11, <1>12, <1>13, <1>14,
     <1>15, <1>16, <1>17, <1>18, <1>19, <1>20, <1>21, <1>22, <1>23, <1>24, <1>25, <1>26,
     <1>27, <1>28, <1>29, <1>30, <1>31, <1>32, <1>33, <1>34, <1>35, <1>36, <1>37, <1>38,
     <1>39, <1>40, <1>41, <1>42, <1>43, <1>44, <1>45, <1>46, <1>47, <1>48, <1>49, <1>50,
     <1>51, <1>52, <1>53, <1>54 DEF Next, User, Command, Loop, Worker, Faults

(* Steps keep what was read a row. *)
LEMMA RowNext ==
    TypeOK /\ RuntimeInv /\ RowInv /\ [Next]_vars => RowInv'
<1> SUFFICES ASSUME TypeOK, RuntimeInv, RowInv, [Next]_vars
             PROVE  RowInv'
  OBVIOUS
<1> USE DEF registry, disk, locks, loop, worker, command, Happens, CommandTo, LoopTo,
        LoopWith, WorkerTo, WorkerWith, WorkerEnds, Gone, NoWork, NoCommand, NoRuntime,
        NoPass, Absent
<1>1. CASE AddAsync
  BY <1>1 DEF AddAsync, Configured, RowInv, TypeOK, RuntimeInv
<1>2. CASE AddSync
  BY <1>2 DEF AddSync, Configured, RowInv, TypeOK, RuntimeInv
<1>3. CASE RemoveRepo
  BY <1>3 DEF RemoveRepo, RowInv, TypeOK, RuntimeInv
<1>4. CASE SetRefresh
  BY <1>4 DEF SetRefresh, RowInv, TypeOK, RuntimeInv
<1>5. CASE ReadForPrepare
  <2>1. /\ row # Absent /\ c'.ver = row.ver /\ UNCHANGED <<registry, loop>>
    BY <1>5 DEF ReadForPrepare
  <2>2. row.ver \in Nat
    BY DEF TypeOK
  <2> QED
    BY <2>1, <2>2 DEF RowInv
<1>6. CASE Arrive
  <2>1. UNCHANGED <<registry, loop, command>>
    BY <1>6 DEF Arrive, registry, loop
  <2> QED
    BY <1>6, <2>1 DEF RowInv
<1>7. CASE Interrupt
  <2>1. UNCHANGED <<registry, loop, command>>
    BY <1>7 DEF Interrupt, registry, loop
  <2> QED
    BY <1>7, <2>1 DEF RowInv
<1>8. CASE BeginPrepare
  BY <1>8 DEF BeginPrepare, Configured, Current, IsAsync, RowInv, TypeOK, RuntimeInv
<1>9. CASE CommandLock
  BY <1>9 DEF CommandLock, RowInv, TypeOK, RuntimeInv
<1>10. CASE CommandCheck
  BY <1>10 DEF CommandCheck, Current, RowInv, TypeOK, RuntimeInv
<1>11. CASE CommandSource
  BY <1>11 DEF CommandSource, RowInv, TypeOK, RuntimeInv
<1>12. CASE CommandConfigLock
  BY <1>12 DEF CommandConfigLock, Current, RowInv, TypeOK, RuntimeInv
<1>13. CASE CommandPublish
  BY <1>13 DEF CommandPublish, Published, Latest, RowInv, TypeOK, RuntimeInv
<1>14. CASE CommandFails
  BY <1>14 DEF CommandFails, RowInv, TypeOK, RuntimeInv
<1>15. CASE CommandPersist
  <2>1. CASE UNCHANGED row
    BY <1>15, <2>1 DEF CommandPersist, Same, Stored, RowInv
  <2>2. CASE Same(row, c) /\ \E s \in {"synced", "broken"} : Stored(s)
    <3>1. row'.ver = row.ver /\ row'.state \in {"synced", "broken"}
      BY <2>2, RowChange
    <3> QED
      BY <1>15, <2>2, <3>1 DEF CommandPersist, Same, RowInv, Absent
  <2> QED
    BY <1>15, <2>1, <2>2 DEF CommandPersist, Same, Stored
<1>16. CASE List
  <2>1. /\ dpc = "idle" /\ UNCHANGED <<registry, command>> /\ d'.row = row /\ d'.then = "idle"
        /\ dpc' = IF row = Absent THEN "unmount" ELSE "look"
    BY <1>16 DEF List, TypeOK
  <2>2. (row.ver = 0) = (row.state = "absent") /\ row.ver \in Nat
    BY DEF TypeOK
  <2> QED
    BY <1>16, <2>1, <2>2 DEF RowInv
<1>17. CASE Look
  <2>1. /\ dpc = "look" /\ dpc' \in {"unmount", "restart", "mount"}
        /\ UNCHANGED <<registry, rt, worker, command>>
        /\ d'.row = d.row
        /\ (dpc' = "unmount" => d'.then = "mount" /\ rt.up /\ rt.ver # d.row.ver)
        /\ (dpc' # "unmount" => d'.then = d.then) /\ (dpc' = "restart" => rt.up)
        /\ (dpc' = "mount" => ~rt.up)
    BY <1>17 DEF Look, TypeOK
  <2> QED
    BY <1>17, <2>1 DEF RowInv, RuntimeInv
<1>18. CASE Restart
  <2>1. /\ dpc = "restart" /\ dpc' \in {"judge", "idle"}
        /\ UNCHANGED <<registry, worker, command>>
        /\ rt'.up = rt.up /\ rt'.ver = rt.ver
        /\ dpc' = "judge" => d'.row = row /\ d'.then = d.then /\ row.state = "preparing"
        /\ dpc' = "idle" => d' = NoPass
    BY <1>18 DEF Restart, WithRefresh, TypeOK
  <2> QED
    BY <1>18, <2>1 DEF RowInv, TypeOK, RowStates
<1>19. CASE Judge
  <2>1. /\ dpc = "judge" /\ dpc' \in {"unmount", "idle"} /\ UNCHANGED <<registry, command>>
        /\ dpc' = "unmount" => d'.row = d.row /\ d'.then = "mount" /\ UNCHANGED <<rt, worker>>
        /\ dpc' = "idle" => d' = NoPass
        /\ \/ w' = w /\ wpc' = wpc
           \/ w'.ver = d.row.ver
    BY <1>19 DEF Judge, Resets, NewWorker, TypeOK
  <2> QED
    BY <1>19, <2>1 DEF RowInv, TypeOK
<1>20. CASE MountAsync
  BY <1>20 DEF MountAsync, NewWorker, Latest, RowInv, TypeOK, RuntimeInv
<1>21. CASE MountBegin
  <2>1. /\ dpc = "mount" /\ UNCHANGED <<registry, command>>
        /\ d.row.state \notin {"preparing", "failed"}
        /\ \/ dpc' = "idle" /\ d' = NoPass
           \/ dpc' = "lock" /\ d' = d /\ d.row.state # "sync_preparing"
    BY <1>21 DEF MountBegin
  <2>2. d.row.state \in RowStates
    BY DEF TypeOK
  <2> QED
    BY <1>21, <2>1, <2>2 DEF RowInv, RowStates
<1>22. CASE MountLock
  BY <1>22 DEF MountLock, RowInv, TypeOK, RuntimeInv
<1>23. CASE MountCheck
  BY <1>23 DEF MountCheck, Current, RowInv, TypeOK, RuntimeInv
<1>24. CASE MountConfigLock
  <2>1. /\ dpc = "clock" /\ UNCHANGED <<registry, command>>
        /\ \/ dpc' = "idle" /\ d' = NoPass
           \/ dpc' = "publish" /\ d' = d
    BY <1>24 DEF MountConfigLock, Current, Current
  <2> QED
    BY <1>24, <2>1 DEF RowInv
<1>25. CASE MountPublish
  BY <1>25 DEF MountPublish, Published, Latest, RowInv, TypeOK, RuntimeInv
<1>26. CASE MountStart
  BY <1>26 DEF MountStart, RowInv, TypeOK, RuntimeInv
<1>27. CASE MountFails
  BY <1>27 DEF MountFails, RowInv, TypeOK, RuntimeInv
<1>28. CASE Detach
  BY <1>28 DEF Detach, RowInv, TypeOK, RuntimeInv
<1>29. CASE UnmountFails
  BY <1>29 DEF UnmountFails, RowInv, TypeOK, RuntimeInv
<1>30. CASE Cancel
  BY <1>30 DEF Cancel, Wakes, RowInv, TypeOK, RuntimeInv
<1>31. CASE Drain
  BY <1>31 DEF Drain, RowInv, TypeOK, RuntimeInv
<1>32. CASE WorkerLock
  <2>1. UNCHANGED <<registry, loop, command>>
    BY <1>32 DEF WorkerLock, registry, loop
  <2> QED
    BY <1>32, <2>1 DEF RowInv
<1>33. CASE WorkerCheck
  <2>1. UNCHANGED <<registry, loop, command>>
    BY <1>33 DEF WorkerCheck, Current, registry, loop
  <2> QED
    BY <1>33, <2>1 DEF RowInv
<1>34. CASE WorkerSource
  <2>1. UNCHANGED <<registry, loop, command>>
    BY <1>34 DEF WorkerSource, registry, loop
  <2> QED
    BY <1>34, <2>1 DEF RowInv
<1>35. CASE WorkerConfigLock
  <2>1. UNCHANGED <<registry, loop, command>>
    BY <1>35 DEF WorkerConfigLock, Current, registry, loop
  <2> QED
    BY <1>35, <2>1 DEF RowInv
<1>36. CASE WorkerPublish
  <2>1. UNCHANGED <<registry, loop, command>>
    BY <1>36 DEF WorkerPublish, Latest, registry, loop
  <2> QED
    BY <1>36, <2>1 DEF RowInv
<1>37. CASE WorkerRecheck
  <2>1. UNCHANGED <<registry, loop, command>>
    BY <1>37 DEF WorkerRecheck, Same, registry, loop
  <2> QED
    BY <1>37, <2>1 DEF RowInv
<1>38. CASE WorkerReady
  <2>1. CASE UNCHANGED row
    BY <1>38, <2>1 DEF WorkerReady, Same, Stored, RowInv, RuntimeInv, Absent
  <2>2. CASE Stored("ready") /\ Same(row, w)
    <3>1. row'.ver = row.ver /\ row'.state = "ready"
      BY <2>2, RowChange
    <3> QED
      BY <1>38, <2>2, <3>1, Versions DEF WorkerReady, Same, RowInv, RuntimeInv, Absent
  <2> QED
    BY <1>38, <2>1, <2>2 DEF WorkerReady, Same, Stored
<1>39. CASE WorkerCompares
  <2>1. UNCHANGED <<registry, loop, command>>
    BY <1>39 DEF WorkerCompares, Same, registry, loop
  <2> QED
    BY <1>39, <2>1 DEF RowInv
<1>40. CASE WorkerShow
  <2>1. UNCHANGED <<registry, loop, command>>
    BY <1>40 DEF WorkerShow, registry, loop
  <2> QED
    BY <1>40, <2>1 DEF RowInv
<1>41. CASE WorkerActivate
  <2>1. UNCHANGED <<registry, loop, command>>
    BY <1>41 DEF WorkerActivate, Same, registry, loop
  <2> QED
    BY <1>41, <2>1 DEF RowInv
<1>42. CASE WorkerOpen
  <2>1. UNCHANGED <<registry, loop, command>>
    BY <1>42 DEF WorkerOpen, Wakes, Stopping, registry, loop
  <2> QED
    BY <1>42, <2>1 DEF RowInv
<1>43. CASE WorkerPrune
  <2>1. UNCHANGED <<registry, loop, command>>
    BY <1>43 DEF WorkerPrune, Current, PrunedBelow, Lesser, registry, loop
  <2> QED
    BY <1>43, <2>1 DEF RowInv
<1>44. CASE WorkerFails
  <2>1. UNCHANGED <<registry, loop, command>>
    BY <1>44 DEF WorkerFails, Cancelable, registry, loop
  <2> QED
    BY <1>44, <2>1 DEF RowInv
<1>45. CASE WorkerFail
  <2>1. CASE UNCHANGED row
    BY <1>45, <2>1 DEF WorkerFail, Same, Stored, RowInv, RuntimeInv, Absent
  <2>2. CASE Stored("failed") /\ Same(row, w)
    <3>1. row'.ver = row.ver /\ row'.state = "failed"
      BY <2>2, RowChange
    <3> QED
      BY <1>45, <2>2, <3>1, Versions DEF WorkerFail, Same, RowInv, RuntimeInv, Absent
  <2> QED
    BY <1>45, <2>1, <2>2 DEF WorkerFail, Same, Stored
<1>46. CASE WorkerFailGate
  <2>1. UNCHANGED <<registry, loop, command>>
    BY <1>46 DEF WorkerFailGate, Same, Wakes, registry, loop
  <2> QED
    BY <1>46, <2>1 DEF RowInv
<1>47. CASE Leave
  <2>1. UNCHANGED <<registry, loop, command>>
    BY <1>47 DEF Leave, registry, loop
  <2> QED
    BY <1>47, <2>1 DEF RowInv
<1>48. CASE Exit
  BY <1>48 DEF Exit, Down, RowInv, TypeOK, RuntimeInv
<1>49. CASE Start
  BY <1>49 DEF Start, RowInv, TypeOK, RuntimeInv
<1>50. CASE Lost
  <2>1. UNCHANGED <<registry, loop, command>>
    BY <1>50 DEF Lost, Stopping, registry, loop
  <2> QED
    BY <1>50, <2>1 DEF RowInv
<1>51. CASE Signal
  BY <1>51 DEF Signal, RowInv, TypeOK, RuntimeInv
<1>52. CASE Crash
  BY <1>52 DEF Crash, Down, RowInv, TypeOK, RuntimeInv
<1>53. CASE CommandCrash
  BY <1>53 DEF CommandCrash, RowInv, TypeOK, RuntimeInv
<1>54. CASE UNCHANGED vars
  BY <1>54 DEF vars, RowInv, TypeOK, RuntimeInv
<1> QED
  BY <1>1, <1>2, <1>3, <1>4, <1>5, <1>6, <1>7, <1>8, <1>9, <1>10, <1>11, <1>12, <1>13, <1>14,
     <1>15, <1>16, <1>17, <1>18, <1>19, <1>20, <1>21, <1>22, <1>23, <1>24, <1>25, <1>26,
     <1>27, <1>28, <1>29, <1>30, <1>31, <1>32, <1>33, <1>34, <1>35, <1>36, <1>37, <1>38,
     <1>39, <1>40, <1>41, <1>42, <1>43, <1>44, <1>45, <1>46, <1>47, <1>48, <1>49, <1>50,
     <1>51, <1>52, <1>53, <1>54 DEF Next, User, Command, Loop, Worker, Faults

(* Steps keep the kind of a configuration. *)
LEMMA KindNext ==
    TypeOK /\ RuntimeInv /\ RowInv /\ KindInv /\ [Next]_vars => KindInv'
<1> SUFFICES ASSUME TypeOK, RuntimeInv, RowInv, KindInv, [Next]_vars
             PROVE  KindInv'
  OBVIOUS
<1> USE DEF registry, disk, locks, loop, worker, command, Happens, CommandTo, LoopTo,
        LoopWith, WorkerTo, WorkerWith, WorkerEnds, Gone, NoWork, NoCommand, NoRuntime,
        NoPass, Absent
<1>1. CASE AddAsync
  BY <1>1 DEF AddAsync, Configured, RowInv, KindInv, TypeOK, RuntimeInv, IsAsync, Current
<1>2. CASE AddSync
  BY <1>2 DEF AddSync, Configured, RowInv, KindInv, TypeOK, RuntimeInv, IsAsync, Current
<1>3. CASE RemoveRepo
  BY <1>3 DEF RemoveRepo, RowInv, KindInv, TypeOK, RuntimeInv, IsAsync, Current
<1>4. CASE SetRefresh
  BY <1>4 DEF SetRefresh, RowInv, KindInv, TypeOK, RuntimeInv, IsAsync, Current
<1>5. CASE ReadForPrepare
  BY <1>5 DEF ReadForPrepare, IsAsync, RowInv, KindInv, TypeOK, RuntimeInv, IsAsync, Current
<1>6. CASE Arrive
  BY <1>6 DEF Arrive, RowInv, KindInv, TypeOK, RuntimeInv, IsAsync, Current
<1>7. CASE Interrupt
  BY <1>7 DEF Interrupt, RowInv, KindInv, TypeOK, RuntimeInv, IsAsync, Current
<1>8. CASE BeginPrepare
  BY <1>8 DEF BeginPrepare, Configured, Current, IsAsync, RowInv, KindInv, TypeOK, RuntimeInv,
     IsAsync, Current
<1>9. CASE CommandLock
  BY <1>9 DEF CommandLock, RowInv, KindInv, TypeOK, RuntimeInv, IsAsync, Current
<1>10. CASE CommandCheck
  BY <1>10 DEF CommandCheck, Current, RowInv, KindInv, TypeOK, RuntimeInv, IsAsync, Current
<1>11. CASE CommandSource
  BY <1>11 DEF CommandSource, RowInv, KindInv, TypeOK, RuntimeInv, IsAsync, Current
<1>12. CASE CommandConfigLock
  BY <1>12 DEF CommandConfigLock, Current, RowInv, KindInv, TypeOK, RuntimeInv, IsAsync,
     Current
<1>13. CASE CommandPublish
  BY <1>13 DEF CommandPublish, Published, Latest, RowInv, KindInv, TypeOK, RuntimeInv,
     IsAsync, Current
<1>14. CASE CommandFails
  BY <1>14 DEF CommandFails, RowInv, KindInv, TypeOK, RuntimeInv, IsAsync, Current
<1>15. CASE CommandPersist
  <2>1. CASE UNCHANGED row
    BY <1>15, <2>1 DEF CommandPersist, Same, Stored, KindInv, IsAsync, Current
  <2>2. CASE Same(row, c) /\ \E s \in {"synced", "broken"} : Stored(s)
    <3>1. row'.ver = row.ver /\ row'.state \in {"synced", "broken"}
      BY <2>2, RowChange
    <3>2. row.state = "sync_preparing"
      BY <1>15, <2>2 DEF CommandPersist, KindInv, Current, Same
    <3> QED
      BY <1>15, <2>2, <3>1, <3>2, Versions DEF CommandPersist, Same, KindInv, IsAsync, Current
  <2> QED
    BY <1>15, <2>1, <2>2 DEF CommandPersist, Same, Stored
<1>16. CASE List
  BY <1>16 DEF List, RowInv, KindInv, TypeOK, RuntimeInv, IsAsync, Current
<1>17. CASE Look
  <2>1. /\ dpc = "look" /\ dpc' \in {"unmount", "restart", "mount"}
        /\ UNCHANGED <<registry, rt, worker, command>>
        /\ d'.row = d.row
        /\ (dpc' = "unmount" => d'.then = "mount" /\ rt.up /\ rt.ver # d.row.ver)
        /\ (dpc' # "unmount" => d'.then = d.then) /\ (dpc' = "restart" => rt.up)
        /\ (dpc' = "mount" => ~rt.up)
    BY <1>17 DEF Look, TypeOK
  <2> QED
    BY <1>17, <2>1 DEF KindInv, Current
<1>18. CASE Restart
  BY <1>18 DEF Restart, WithRefresh, RowInv, KindInv, TypeOK, RuntimeInv, IsAsync, Current
<1>19. CASE Judge
  <2>1. /\ dpc = "judge" /\ dpc' \in {"unmount", "idle"} /\ UNCHANGED <<registry, command>>
        /\ dpc' = "unmount" => d'.row = d.row /\ d'.then = "mount" /\ UNCHANGED <<rt, worker>>
        /\ dpc' = "idle" => d' = NoPass
        /\ \/ w' = w /\ wpc' = wpc
           \/ w'.ver = d.row.ver
    BY <1>19 DEF Judge, Resets, NewWorker, TypeOK
  <2> QED
    BY <1>19, <2>1 DEF RowInv, KindInv, Current, IsAsync
<1>20. CASE MountAsync
  BY <1>20 DEF MountAsync, NewWorker, Latest, RowInv, KindInv, TypeOK, RuntimeInv, IsAsync,
     Current
<1>21. CASE MountBegin
  BY <1>21 DEF MountBegin, RowInv, KindInv, TypeOK, RuntimeInv, IsAsync, Current
<1>22. CASE MountLock
  BY <1>22 DEF MountLock, RowInv, KindInv, TypeOK, RuntimeInv, IsAsync, Current
<1>23. CASE MountCheck
  BY <1>23 DEF MountCheck, Current, RowInv, KindInv, TypeOK, RuntimeInv, IsAsync, Current
<1>24. CASE MountConfigLock
  BY <1>24 DEF MountConfigLock, Current, RowInv, KindInv, TypeOK, RuntimeInv, IsAsync, Current
<1>25. CASE MountPublish
  BY <1>25 DEF MountPublish, Published, Latest, RowInv, KindInv, TypeOK, RuntimeInv, IsAsync,
     Current
<1>26. CASE MountStart
  BY <1>26 DEF MountStart, RowInv, KindInv, TypeOK, RuntimeInv, IsAsync, Current
<1>27. CASE MountFails
  BY <1>27 DEF MountFails, RowInv, KindInv, TypeOK, RuntimeInv, IsAsync, Current
<1>28. CASE Detach
  BY <1>28 DEF Detach, RowInv, KindInv, TypeOK, RuntimeInv, IsAsync, Current
<1>29. CASE UnmountFails
  BY <1>29 DEF UnmountFails, RowInv, KindInv, TypeOK, RuntimeInv, IsAsync, Current
<1>30. CASE Cancel
  BY <1>30 DEF Cancel, Wakes, RowInv, KindInv, TypeOK, RuntimeInv, IsAsync, Current
<1>31. CASE Drain
  BY <1>31 DEF Drain, RowInv, KindInv, TypeOK, RuntimeInv, IsAsync, Current
<1>32. CASE WorkerLock
  <2>1. UNCHANGED <<registry, loop, command>> /\ wpc # "none" /\ (wpc' = "none" \/ w' = w)
    BY <1>32 DEF WorkerLock, registry
  <2> QED
    BY <1>32, <2>1 DEF KindInv, Current
<1>33. CASE WorkerCheck
  <2>1. UNCHANGED <<registry, loop, command>> /\ wpc # "none" /\ (wpc' = "none" \/ w' = w)
    BY <1>33 DEF WorkerCheck, Current, registry
  <2> QED
    BY <1>33, <2>1 DEF KindInv, Current
<1>34. CASE WorkerSource
  <2>1. UNCHANGED <<registry, loop, command>> /\ wpc # "none" /\ (wpc' = "none" \/ w' = w)
    BY <1>34 DEF WorkerSource, registry
  <2> QED
    BY <1>34, <2>1 DEF KindInv, Current
<1>35. CASE WorkerConfigLock
  <2>1. UNCHANGED <<registry, loop, command>> /\ wpc # "none" /\ (wpc' = "none" \/ w' = w)
    BY <1>35 DEF WorkerConfigLock, Current, registry
  <2> QED
    BY <1>35, <2>1 DEF KindInv, Current
<1>36. CASE WorkerPublish
  BY <1>36 DEF WorkerPublish, Latest, RowInv, KindInv, TypeOK, RuntimeInv, IsAsync, Current
<1>37. CASE WorkerRecheck
  <2>1. UNCHANGED <<registry, loop, command>> /\ wpc # "none" /\ (wpc' = "none" \/ w' = w)
    BY <1>37 DEF WorkerRecheck, Same, registry
  <2> QED
    BY <1>37, <2>1 DEF KindInv, Current
<1>38. CASE WorkerReady
  <2>1. CASE UNCHANGED row
    BY <1>38, <2>1 DEF WorkerReady, Same, Stored, KindInv, IsAsync, Current
  <2>2. CASE Stored("ready") /\ Same(row, w)
    <3>1. row'.ver = row.ver /\ row'.state = "ready"
      BY <2>2, RowChange
    <3> QED
      BY <1>38, <2>2, <3>1, Versions DEF WorkerReady, Same, KindInv, IsAsync, Current
  <2> QED
    BY <1>38, <2>1, <2>2 DEF WorkerReady, Same, Stored
<1>39. CASE WorkerCompares
  <2>1. UNCHANGED <<registry, loop, command>> /\ wpc # "none" /\ (wpc' = "none" \/ w' = w)
    BY <1>39 DEF WorkerCompares, Same, registry
  <2> QED
    BY <1>39, <2>1 DEF KindInv, Current
<1>40. CASE WorkerShow
  <2>1. UNCHANGED <<registry, loop, command>> /\ wpc # "none" /\ (wpc' = "none" \/ w' = w)
    BY <1>40 DEF WorkerShow, registry
  <2> QED
    BY <1>40, <2>1 DEF KindInv, Current
<1>41. CASE WorkerActivate
  <2>1. UNCHANGED <<registry, loop, command>> /\ wpc # "none" /\ (wpc' = "none" \/ w' = w)
    BY <1>41 DEF WorkerActivate, Same, registry
  <2> QED
    BY <1>41, <2>1 DEF KindInv, Current
<1>42. CASE WorkerOpen
  <2>1. UNCHANGED <<registry, loop, command>> /\ wpc # "none" /\ (wpc' = "none" \/ w' = w)
    BY <1>42 DEF WorkerOpen, Wakes, Stopping, registry
  <2> QED
    BY <1>42, <2>1 DEF KindInv, Current
<1>43. CASE WorkerPrune
  <2>1. UNCHANGED <<registry, loop, command>> /\ wpc # "none" /\ (wpc' = "none" \/ w' = w)
    BY <1>43 DEF WorkerPrune, Current, PrunedBelow, Lesser, registry
  <2> QED
    BY <1>43, <2>1 DEF KindInv, Current
<1>44. CASE WorkerFails
  <2>1. UNCHANGED <<registry, loop, command>> /\ wpc # "none" /\ (wpc' = "none" \/ w' = w)
    BY <1>44 DEF WorkerFails, Cancelable, registry
  <2> QED
    BY <1>44, <2>1 DEF KindInv, Current
<1>45. CASE WorkerFail
  <2>1. CASE UNCHANGED row
    BY <1>45, <2>1 DEF WorkerFail, Same, Stored, KindInv, IsAsync, Current
  <2>2. CASE Stored("failed") /\ Same(row, w)
    <3>1. row'.ver = row.ver /\ row'.state = "failed"
      BY <2>2, RowChange
    <3> QED
      BY <1>45, <2>2, <3>1, Versions DEF WorkerFail, Same, KindInv, IsAsync, Current
  <2> QED
    BY <1>45, <2>1, <2>2 DEF WorkerFail, Same, Stored
<1>46. CASE WorkerFailGate
  <2>1. UNCHANGED <<registry, loop, command>> /\ wpc # "none" /\ (wpc' = "none" \/ w' = w)
    BY <1>46 DEF WorkerFailGate, Same, Wakes, registry
  <2> QED
    BY <1>46, <2>1 DEF KindInv, Current
<1>47. CASE Leave
  BY <1>47 DEF Leave, RowInv, KindInv, TypeOK, RuntimeInv, IsAsync, Current
<1>48. CASE Exit
  BY <1>48 DEF Exit, Down, RowInv, KindInv, TypeOK, RuntimeInv, IsAsync, Current
<1>49. CASE Start
  BY <1>49 DEF Start, RowInv, KindInv, TypeOK, RuntimeInv, IsAsync, Current
<1>50. CASE Lost
  BY <1>50 DEF Lost, Stopping, RowInv, KindInv, TypeOK, RuntimeInv, IsAsync, Current
<1>51. CASE Signal
  BY <1>51 DEF Signal, RowInv, KindInv, TypeOK, RuntimeInv, IsAsync, Current
<1>52. CASE Crash
  BY <1>52 DEF Crash, Down, RowInv, KindInv, TypeOK, RuntimeInv, IsAsync, Current
<1>53. CASE CommandCrash
  BY <1>53 DEF CommandCrash, RowInv, KindInv, TypeOK, RuntimeInv, IsAsync, Current
<1>54. CASE UNCHANGED vars
  BY <1>54 DEF vars, RowInv, KindInv, TypeOK, RuntimeInv, IsAsync, Current
<1> QED
  BY <1>1, <1>2, <1>3, <1>4, <1>5, <1>6, <1>7, <1>8, <1>9, <1>10, <1>11, <1>12, <1>13, <1>14,
     <1>15, <1>16, <1>17, <1>18, <1>19, <1>20, <1>21, <1>22, <1>23, <1>24, <1>25, <1>26,
     <1>27, <1>28, <1>29, <1>30, <1>31, <1>32, <1>33, <1>34, <1>35, <1>36, <1>37, <1>38,
     <1>39, <1>40, <1>41, <1>42, <1>43, <1>44, <1>45, <1>46, <1>47, <1>48, <1>49, <1>50,
     <1>51, <1>52, <1>53, <1>54 DEF Next, User, Command, Loop, Worker, Faults

(* Steps keep a configuration ready that the loop read as ready and is about *)
(* to mount.                                                                 *)
LEMMA ReadNext ==
    TypeOK /\ RuntimeInv /\ RowInv /\ KindInv /\ ReadInv /\ [Next]_vars => ReadInv'
<1> SUFFICES ASSUME TypeOK, RuntimeInv, RowInv, KindInv, ReadInv, [Next]_vars
             PROVE  ReadInv'
  OBVIOUS
<1> USE DEF registry, disk, locks, loop, worker, command, Happens, CommandTo, LoopTo,
        LoopWith, WorkerTo, WorkerWith, WorkerEnds, Gone, NoWork, NoCommand, NoRuntime,
        NoPass, Absent
<1>1. CASE AddAsync
  BY <1>1 DEF AddAsync, Configured, RowInv, KindInv, ReadInv, TypeOK, RuntimeInv, IsAsync,
     Current
<1>2. CASE AddSync
  BY <1>2 DEF AddSync, Configured, RowInv, KindInv, ReadInv, TypeOK, RuntimeInv, IsAsync,
     Current
<1>3. CASE RemoveRepo
  BY <1>3 DEF RemoveRepo, RowInv, KindInv, ReadInv, TypeOK, RuntimeInv, IsAsync, Current
<1>4. CASE SetRefresh
  BY <1>4 DEF SetRefresh, RowInv, KindInv, ReadInv, TypeOK, RuntimeInv, IsAsync, Current
<1>5. CASE ReadForPrepare
  <2>1. UNCHANGED <<registry, loop, rt>>
    BY <1>5 DEF ReadForPrepare, IsAsync, registry, loop
  <2> QED
    BY <1>5, <2>1 DEF ReadInv, Current
<1>6. CASE Arrive
  <2>1. UNCHANGED <<registry, loop, rt>>
    BY <1>6 DEF Arrive, registry, loop
  <2> QED
    BY <1>6, <2>1 DEF ReadInv, Current
<1>7. CASE Interrupt
  <2>1. UNCHANGED <<registry, loop, rt>>
    BY <1>7 DEF Interrupt, registry, loop
  <2> QED
    BY <1>7, <2>1 DEF ReadInv, Current
<1>8. CASE BeginPrepare
  <2>1. CASE UNCHANGED row
    BY <1>8, <2>1 DEF BeginPrepare, ReadInv, Current
  <2>2. CASE row'.ver = made + 1
    <3>1. d'.row.ver # row'.ver /\ UNCHANGED loop
      BY <1>8, <2>2, Versions DEF BeginPrepare
    <3> QED
      BY <3>1 DEF ReadInv, Current
  <2> QED
    BY <1>8, <2>1, <2>2, RowChange DEF BeginPrepare
<1>9. CASE CommandLock
  <2>1. UNCHANGED <<registry, loop, rt>>
    BY <1>9 DEF CommandLock, registry, loop
  <2> QED
    BY <1>9, <2>1 DEF ReadInv, Current
<1>10. CASE CommandCheck
  <2>1. UNCHANGED <<registry, loop, rt>>
    BY <1>10 DEF CommandCheck, Current, registry, loop
  <2> QED
    BY <1>10, <2>1 DEF ReadInv, Current
<1>11. CASE CommandSource
  <2>1. UNCHANGED <<registry, loop, rt>>
    BY <1>11 DEF CommandSource, registry, loop
  <2> QED
    BY <1>11, <2>1 DEF ReadInv, Current
<1>12. CASE CommandConfigLock
  <2>1. UNCHANGED <<registry, loop, rt>>
    BY <1>12 DEF CommandConfigLock, Current, registry, loop
  <2> QED
    BY <1>12, <2>1 DEF ReadInv, Current
<1>13. CASE CommandPublish
  <2>1. UNCHANGED <<registry, loop, rt>>
    BY <1>13 DEF CommandPublish, Published, Latest, registry, loop
  <2> QED
    BY <1>13, <2>1 DEF ReadInv, Current
<1>14. CASE CommandFails
  <2>1. UNCHANGED <<registry, loop, rt>>
    BY <1>14 DEF CommandFails, registry, loop
  <2> QED
    BY <1>14, <2>1 DEF ReadInv, Current
<1>15. CASE CommandPersist
  <2>1. CASE UNCHANGED row
    BY <1>15, <2>1 DEF CommandPersist, Same, Stored, ReadInv, KindInv, IsAsync, Current
  <2>2. CASE Same(row, c) /\ \E s \in {"synced", "broken"} : Stored(s)
    <3>1. row'.ver = row.ver /\ row'.state \in {"synced", "broken"}
      BY <2>2, RowChange
    <3>2. row.state = "sync_preparing"
      BY <1>15, <2>2 DEF CommandPersist, KindInv, Current, Same
    <3> QED
      BY <1>15, <2>2, <3>1, <3>2, Versions DEF CommandPersist, Same, ReadInv, KindInv,
         IsAsync, Current
  <2> QED
    BY <1>15, <2>1, <2>2 DEF CommandPersist, Same, Stored
<1>16. CASE List
  BY <1>16 DEF List, RowInv, KindInv, ReadInv, TypeOK, RuntimeInv, IsAsync, Current
<1>17. CASE Look
  <2>1. /\ dpc = "look" /\ dpc' \in {"unmount", "restart", "mount"}
        /\ UNCHANGED <<registry, rt, worker, command>>
        /\ d'.row = d.row
        /\ (dpc' = "unmount" => d'.then = "mount" /\ rt.up /\ rt.ver # d.row.ver)
        /\ (dpc' # "unmount" => d'.then = d.then) /\ (dpc' = "restart" => rt.up)
        /\ (dpc' = "mount" => ~rt.up)
    BY <1>17 DEF Look, TypeOK
  <2> QED
    BY <1>17, <2>1 DEF KindInv, Current, ReadInv, RowInv, RuntimeInv, IsAsync
<1>18. CASE Restart
  BY <1>18 DEF Restart, WithRefresh, RowInv, KindInv, ReadInv, TypeOK, RuntimeInv, IsAsync,
     Current
<1>19. CASE Judge
  BY <1>19 DEF Judge, Same, NewWorker, Resets, RowInv, KindInv, ReadInv, TypeOK, RuntimeInv,
     IsAsync, Current
<1>20. CASE MountAsync
  BY <1>20 DEF MountAsync, NewWorker, Latest, RowInv, KindInv, ReadInv, TypeOK, RuntimeInv,
     IsAsync, Current
<1>21. CASE MountBegin
  BY <1>21 DEF MountBegin, RowInv, KindInv, ReadInv, TypeOK, RuntimeInv, IsAsync, Current
<1>22. CASE MountLock
  BY <1>22 DEF MountLock, RowInv, KindInv, ReadInv, TypeOK, RuntimeInv, IsAsync, Current
<1>23. CASE MountCheck
  BY <1>23 DEF MountCheck, Current, RowInv, KindInv, ReadInv, TypeOK, RuntimeInv, IsAsync,
     Current
<1>24. CASE MountConfigLock
  BY <1>24 DEF MountConfigLock, Current, RowInv, KindInv, ReadInv, TypeOK, RuntimeInv,
     IsAsync, Current
<1>25. CASE MountPublish
  BY <1>25 DEF MountPublish, Published, Latest, RowInv, KindInv, ReadInv, TypeOK, RuntimeInv,
     IsAsync, Current
<1>26. CASE MountStart
  BY <1>26 DEF MountStart, RowInv, KindInv, ReadInv, TypeOK, RuntimeInv, IsAsync, Current
<1>27. CASE MountFails
  BY <1>27 DEF MountFails, RowInv, KindInv, ReadInv, TypeOK, RuntimeInv, IsAsync, Current
<1>28. CASE Detach
  BY <1>28 DEF Detach, RowInv, KindInv, ReadInv, TypeOK, RuntimeInv, IsAsync, Current
<1>29. CASE UnmountFails
  BY <1>29 DEF UnmountFails, RowInv, KindInv, ReadInv, TypeOK, RuntimeInv, IsAsync, Current
<1>30. CASE Cancel
  BY <1>30 DEF Cancel, Wakes, RowInv, KindInv, ReadInv, TypeOK, RuntimeInv, IsAsync, Current
<1>31. CASE Drain
  BY <1>31 DEF Drain, RowInv, KindInv, ReadInv, TypeOK, RuntimeInv, IsAsync, Current
<1>32. CASE WorkerLock
  <2>1. UNCHANGED <<registry, loop, rt>>
    BY <1>32 DEF WorkerLock, registry, loop
  <2> QED
    BY <1>32, <2>1 DEF ReadInv, Current
<1>33. CASE WorkerCheck
  <2>1. UNCHANGED <<registry, loop, rt>>
    BY <1>33 DEF WorkerCheck, Current, registry, loop
  <2> QED
    BY <1>33, <2>1 DEF ReadInv, Current
<1>34. CASE WorkerSource
  <2>1. UNCHANGED <<registry, loop, rt>>
    BY <1>34 DEF WorkerSource, registry, loop
  <2> QED
    BY <1>34, <2>1 DEF ReadInv, Current
<1>35. CASE WorkerConfigLock
  <2>1. UNCHANGED <<registry, loop, rt>>
    BY <1>35 DEF WorkerConfigLock, Current, registry, loop
  <2> QED
    BY <1>35, <2>1 DEF ReadInv, Current
<1>36. CASE WorkerPublish
  <2>1. UNCHANGED <<registry, loop, rt>>
    BY <1>36 DEF WorkerPublish, Latest, registry, loop
  <2> QED
    BY <1>36, <2>1 DEF ReadInv, Current
<1>37. CASE WorkerRecheck
  <2>1. UNCHANGED <<registry, loop, rt>>
    BY <1>37 DEF WorkerRecheck, Same, registry, loop
  <2> QED
    BY <1>37, <2>1 DEF ReadInv, Current
<1>38. CASE WorkerReady
  <2>1. CASE UNCHANGED row
    BY <1>38, <2>1 DEF WorkerReady, Same, Stored, ReadInv, RuntimeInv, KindInv, IsAsync,
       Current
  <2>2. CASE Stored("ready") /\ Same(row, w)
    <3>1. row'.ver = row.ver /\ row'.state = "ready"
      BY <2>2, RowChange
    <3> QED
      BY <1>38, <2>2, <3>1, Versions DEF WorkerReady, Same, ReadInv, RuntimeInv, KindInv,
         IsAsync, Current
  <2> QED
    BY <1>38, <2>1, <2>2 DEF WorkerReady, Same, Stored
<1>39. CASE WorkerCompares
  <2>1. UNCHANGED <<registry, loop, rt>>
    BY <1>39 DEF WorkerCompares, Same, registry, loop
  <2> QED
    BY <1>39, <2>1 DEF ReadInv, Current
<1>40. CASE WorkerShow
  BY <1>40 DEF WorkerShow, RowInv, KindInv, ReadInv, TypeOK, RuntimeInv, IsAsync, Current
<1>41. CASE WorkerActivate
  <2>1. UNCHANGED <<registry, loop, rt>>
    BY <1>41 DEF WorkerActivate, Same, registry, loop
  <2> QED
    BY <1>41, <2>1 DEF ReadInv, Current
<1>42. CASE WorkerOpen
  BY <1>42 DEF WorkerOpen, Wakes, Stopping, RowInv, KindInv, ReadInv, TypeOK, RuntimeInv,
     IsAsync, Current
<1>43. CASE WorkerPrune
  <2>1. UNCHANGED <<registry, loop, rt>>
    BY <1>43 DEF WorkerPrune, Current, PrunedBelow, Lesser, registry, loop
  <2> QED
    BY <1>43, <2>1 DEF ReadInv, Current
<1>44. CASE WorkerFails
  <2>1. UNCHANGED <<registry, loop, rt>>
    BY <1>44 DEF WorkerFails, Cancelable, registry, loop
  <2> QED
    BY <1>44, <2>1 DEF ReadInv, Current
<1>45. CASE WorkerFail
  <2>1. CASE UNCHANGED row
    BY <1>45, <2>1 DEF WorkerFail, Same, Stored, ReadInv, RuntimeInv, KindInv, IsAsync,
       Current
  <2>2. CASE Stored("failed") /\ Same(row, w)
    <3>1. row'.ver = row.ver /\ row'.state = "failed"
      BY <2>2, RowChange
    <3> QED
      BY <1>45, <2>2, <3>1, Versions DEF WorkerFail, Same, ReadInv, RuntimeInv, KindInv,
         IsAsync, Current
  <2> QED
    BY <1>45, <2>1, <2>2 DEF WorkerFail, Same, Stored
<1>46. CASE WorkerFailGate
  <2>1. rt'.up = rt.up /\ rt'.ver = rt.ver /\ UNCHANGED <<registry, loop>>
    BY <1>46 DEF WorkerFailGate, TypeOK
  <2> QED
    BY <1>46, <2>1 DEF ReadInv, Current
<1>47. CASE Leave
  <2>1. UNCHANGED <<registry, loop, rt>>
    BY <1>47 DEF Leave, registry, loop
  <2> QED
    BY <1>47, <2>1 DEF ReadInv, Current
<1>48. CASE Exit
  BY <1>48 DEF Exit, Down, RowInv, KindInv, ReadInv, TypeOK, RuntimeInv, IsAsync, Current
<1>49. CASE Start
  BY <1>49 DEF Start, RowInv, KindInv, ReadInv, TypeOK, RuntimeInv, IsAsync, Current
<1>50. CASE Lost
  BY <1>50 DEF Lost, Stopping, RowInv, KindInv, ReadInv, TypeOK, RuntimeInv, IsAsync, Current
<1>51. CASE Signal
  BY <1>51 DEF Signal, RowInv, KindInv, ReadInv, TypeOK, RuntimeInv, IsAsync, Current
<1>52. CASE Crash
  BY <1>52 DEF Crash, Down, RowInv, KindInv, ReadInv, TypeOK, RuntimeInv, IsAsync, Current
<1>53. CASE CommandCrash
  <2>1. UNCHANGED <<registry, loop, rt>>
    BY <1>53 DEF CommandCrash, registry, loop
  <2> QED
    BY <1>53, <2>1 DEF ReadInv, Current
<1>54. CASE UNCHANGED vars
  BY <1>54 DEF vars, RowInv, KindInv, ReadInv, TypeOK, RuntimeInv, IsAsync, Current
<1> QED
  BY <1>1, <1>2, <1>3, <1>4, <1>5, <1>6, <1>7, <1>8, <1>9, <1>10, <1>11, <1>12, <1>13, <1>14,
     <1>15, <1>16, <1>17, <1>18, <1>19, <1>20, <1>21, <1>22, <1>23, <1>24, <1>25, <1>26,
     <1>27, <1>28, <1>29, <1>30, <1>31, <1>32, <1>33, <1>34, <1>35, <1>36, <1>37, <1>38,
     <1>39, <1>40, <1>41, <1>42, <1>43, <1>44, <1>45, <1>46, <1>47, <1>48, <1>49, <1>50,
     <1>51, <1>52, <1>53, <1>54 DEF Next, User, Command, Loop, Worker, Faults

-----------------------------------------------------------------------------
(* Git directory and generations *)

(* What publishing leaves as the last tree. *)
LEMMA PublishedLast ==
    ASSUME TypeOK, git > 0
    PROVE  /\ Published \in Seq(1 .. made) /\ Len(Published) \in Nat
           /\ Len(Published) > 0 /\ Len(Published) >= Len(trees)
           /\ Published[Len(Published)] = git
           /\ \A i \in 1 .. Len(trees) : Published[i] = trees[i]
BY PublishedTypes DEF TypeOK, RegistryTypes

(* The loop goes on to publish only for a configuration that is usable       *)
(* (mountRepo under the prepare lock).                                       *)
LEMMA MountsUsable ==
    ASSUME TypeOK, RowInv, KindInv, ReadInv, dpc = "check", Current(d.row),
           row.state \notin {"sync_preparing", "broken"}
    PROVE  row.state \in {"ready", "synced"}
<1>1. d.row.state \in {"ready", "synced", "broken"} /\ d.row.ver = row.ver /\ row.ver > 0
  BY DEF RowInv, Current
<1>2. row.state \in RowStates /\ row.state # "absent"
  BY <1>1, Versions
<1>3. CASE d.row.state = "ready"
  BY <1>3 DEF ReadInv
<1>4. CASE d.row.state # "ready"
  BY <1>1, <1>2, <1>4 DEF KindInv, IsAsync, RowStates
<1> QED
  BY <1>3, <1>4

(* A configuration comes to be vouched for only by the publishing of its     *)
(* tree, by the command or by the worker.                                    *)
LEMMA VouchedNext ==
    TypeOK /\ RuntimeInv /\ RowInv /\ [Next]_vars => 
        (Vouched' => /\ row'.ver = row.ver
                     /\ \/ Vouched
                        \/ CommandPublish /\ Current(c)
                        \/ WorkerPublish /\ Current(w))
<1> SUFFICES ASSUME TypeOK, RuntimeInv, RowInv, [Next]_vars
             PROVE  Vouched' => /\ row'.ver = row.ver
                                 /\ \/ Vouched
                                    \/ CommandPublish /\ Current(c)
                                    \/ WorkerPublish /\ Current(w)
  OBVIOUS
<1> USE DEF registry, disk, locks, loop, worker, command, Happens, CommandTo, LoopTo,
        LoopWith, WorkerTo, WorkerWith, WorkerEnds, Gone, NoWork, NoCommand, NoRuntime,
        NoPass, Absent
<1>1. CASE AddAsync
  BY <1>1 DEF AddAsync, Configured, Vouched, Afterwards, Current, TypeOK, RuntimeInv, RowInv
<1>2. CASE AddSync
  BY <1>2 DEF AddSync, Configured, Vouched, Afterwards, Current, TypeOK, RuntimeInv, RowInv
<1>3. CASE RemoveRepo
  <2>1. row'.ver = 0 /\ row'.state = "absent" /\ UNCHANGED <<worker, command>>
    BY <1>3 DEF RemoveRepo
  <2>2. (cpc # "idle" => c.ver > 0) /\ (wpc # "none" => w.ver > 0)
    BY DEF RowInv, RuntimeInv
  <2> QED
    BY <2>1, <2>2 DEF Vouched, Afterwards, Current
<1>4. CASE SetRefresh
  BY <1>4 DEF SetRefresh, Vouched, Afterwards, Current, TypeOK, RuntimeInv, RowInv
<1>5. CASE ReadForPrepare
  BY <1>5 DEF ReadForPrepare, IsAsync, Vouched, Afterwards, Current, TypeOK, RuntimeInv,
     RowInv
<1>6. CASE Arrive
  BY <1>6 DEF Arrive, Vouched, Afterwards, Current, TypeOK, RuntimeInv, RowInv
<1>7. CASE Interrupt
  BY <1>7 DEF Interrupt, Vouched, Afterwards, Current, TypeOK, RuntimeInv, RowInv
<1>8. CASE BeginPrepare
  BY <1>8 DEF BeginPrepare, Configured, Current, IsAsync, Vouched, Afterwards, Current,
     TypeOK, RuntimeInv, RowInv
<1>9. CASE CommandLock
  BY <1>9 DEF CommandLock, Vouched, Afterwards, Current, TypeOK, RuntimeInv, RowInv
<1>10. CASE CommandCheck
  BY <1>10 DEF CommandCheck, Current, Vouched, Afterwards, Current, TypeOK, RuntimeInv, RowInv
<1>11. CASE CommandSource
  BY <1>11 DEF CommandSource, Vouched, Afterwards, Current, TypeOK, RuntimeInv, RowInv
<1>12. CASE CommandConfigLock
  BY <1>12 DEF CommandConfigLock, Current, Vouched, Afterwards, Current, TypeOK, RuntimeInv,
     RowInv
<1>13. CASE CommandPublish
  BY <1>13 DEF CommandPublish, Published, Latest, Vouched, Afterwards, Current, TypeOK,
     RuntimeInv, RowInv
<1>14. CASE CommandFails
  BY <1>14 DEF CommandFails, Vouched, Afterwards, Current, TypeOK, RuntimeInv, RowInv
<1>15. CASE CommandPersist
  BY <1>15 DEF CommandPersist, Same, Stored, Vouched, Afterwards, Current, TypeOK, RuntimeInv,
     RowInv
<1>16. CASE List
  BY <1>16 DEF List, Vouched, Afterwards, Current, TypeOK, RuntimeInv, RowInv
<1>17. CASE Look
  BY <1>17 DEF Look, Vouched, Afterwards, Current, TypeOK, RuntimeInv, RowInv
<1>18. CASE Restart
  BY <1>18 DEF Restart, WithRefresh, Vouched, Afterwards, Current, TypeOK, RuntimeInv, RowInv
<1>19. CASE Judge
  BY <1>19 DEF Judge, Same, NewWorker, Resets, Vouched, Afterwards, Current, TypeOK,
     RuntimeInv, RowInv
<1>20. CASE MountAsync
  BY <1>20 DEF MountAsync, NewWorker, Latest, Vouched, Afterwards, Current, TypeOK,
     RuntimeInv, RowInv
<1>21. CASE MountBegin
  BY <1>21 DEF MountBegin, Vouched, Afterwards, Current, TypeOK, RuntimeInv, RowInv
<1>22. CASE MountLock
  BY <1>22 DEF MountLock, Vouched, Afterwards, Current, TypeOK, RuntimeInv, RowInv
<1>23. CASE MountCheck
  BY <1>23 DEF MountCheck, Current, Vouched, Afterwards, Current, TypeOK, RuntimeInv, RowInv
<1>24. CASE MountConfigLock
  BY <1>24 DEF MountConfigLock, Current, Vouched, Afterwards, Current, TypeOK, RuntimeInv,
     RowInv
<1>25. CASE MountPublish
  BY <1>25 DEF MountPublish, Published, Latest, Vouched, Afterwards, Current, TypeOK,
     RuntimeInv, RowInv
<1>26. CASE MountStart
  BY <1>26 DEF MountStart, Vouched, Afterwards, Current, TypeOK, RuntimeInv, RowInv
<1>27. CASE MountFails
  BY <1>27 DEF MountFails, Vouched, Afterwards, Current, TypeOK, RuntimeInv, RowInv
<1>28. CASE Detach
  BY <1>28 DEF Detach, Vouched, Afterwards, Current, TypeOK, RuntimeInv, RowInv
<1>29. CASE UnmountFails
  BY <1>29 DEF UnmountFails, Vouched, Afterwards, Current, TypeOK, RuntimeInv, RowInv
<1>30. CASE Cancel
  BY <1>30 DEF Cancel, Wakes, Vouched, Afterwards, Current, TypeOK, RuntimeInv, RowInv
<1>31. CASE Drain
  BY <1>31 DEF Drain, Vouched, Afterwards, Current, TypeOK, RuntimeInv, RowInv
<1>32. CASE WorkerLock
  BY <1>32 DEF WorkerLock, Vouched, Afterwards, Current, TypeOK, RuntimeInv, RowInv
<1>33. CASE WorkerCheck
  BY <1>33 DEF WorkerCheck, Current, Vouched, Afterwards, Current, TypeOK, RuntimeInv, RowInv
<1>34. CASE WorkerSource
  BY <1>34 DEF WorkerSource, Vouched, Afterwards, Current, TypeOK, RuntimeInv, RowInv
<1>35. CASE WorkerConfigLock
  BY <1>35 DEF WorkerConfigLock, Current, Vouched, Afterwards, Current, TypeOK, RuntimeInv,
     RowInv
<1>36. CASE WorkerPublish
  BY <1>36 DEF WorkerPublish, Latest, Vouched, Afterwards, Current, TypeOK, RuntimeInv, RowInv
<1>37. CASE WorkerRecheck
  BY <1>37 DEF WorkerRecheck, Same, Vouched, Afterwards, Current, TypeOK, RuntimeInv, RowInv
<1>38. CASE WorkerReady
  BY <1>38 DEF WorkerReady, Same, Stored, Vouched, Afterwards, Current, TypeOK, RuntimeInv,
     RowInv
<1>39. CASE WorkerCompares
  BY <1>39 DEF WorkerCompares, Same, Vouched, Afterwards, Current, TypeOK, RuntimeInv, RowInv
<1>40. CASE WorkerShow
  BY <1>40 DEF WorkerShow, Vouched, Afterwards, Current, TypeOK, RuntimeInv, RowInv
<1>41. CASE WorkerActivate
  BY <1>41 DEF WorkerActivate, Same, Vouched, Afterwards, Current, TypeOK, RuntimeInv, RowInv
<1>42. CASE WorkerOpen
  BY <1>42 DEF WorkerOpen, Wakes, Stopping, Vouched, Afterwards, Current, TypeOK, RuntimeInv,
     RowInv
<1>43. CASE WorkerPrune
  BY <1>43 DEF WorkerPrune, Current, PrunedBelow, Lesser, Vouched, Afterwards, Current,
     TypeOK, RuntimeInv, RowInv
<1>44. CASE WorkerFails
  BY <1>44 DEF WorkerFails, Cancelable, Vouched, Afterwards, Current, TypeOK, RuntimeInv,
     RowInv
<1>45. CASE WorkerFail
  BY <1>45 DEF WorkerFail, Same, Stored, Vouched, Afterwards, Current, TypeOK, RuntimeInv,
     RowInv
<1>46. CASE WorkerFailGate
  BY <1>46 DEF WorkerFailGate, Same, Wakes, Vouched, Afterwards, Current, TypeOK, RuntimeInv,
     RowInv
<1>47. CASE Leave
  BY <1>47 DEF Leave, Vouched, Afterwards, Current, TypeOK, RuntimeInv, RowInv
<1>48. CASE Exit
  BY <1>48 DEF Exit, Down, Vouched, Afterwards, Current, TypeOK, RuntimeInv, RowInv
<1>49. CASE Start
  BY <1>49 DEF Start, Vouched, Afterwards, Current, TypeOK, RuntimeInv, RowInv
<1>50. CASE Lost
  BY <1>50 DEF Lost, Stopping, Vouched, Afterwards, Current, TypeOK, RuntimeInv, RowInv
<1>51. CASE Signal
  BY <1>51 DEF Signal, Vouched, Afterwards, Current, TypeOK, RuntimeInv, RowInv
<1>52. CASE Crash
  BY <1>52 DEF Crash, Down, Vouched, Afterwards, Current, TypeOK, RuntimeInv, RowInv
<1>53. CASE CommandCrash
  BY <1>53 DEF CommandCrash, Vouched, Afterwards, Current, TypeOK, RuntimeInv, RowInv
<1>54. CASE UNCHANGED vars
  BY <1>54 DEF vars, Vouched, Afterwards, Current, TypeOK, RuntimeInv, RowInv
<1> QED
  BY <1>1, <1>2, <1>3, <1>4, <1>5, <1>6, <1>7, <1>8, <1>9, <1>10, <1>11, <1>12, <1>13, <1>14,
     <1>15, <1>16, <1>17, <1>18, <1>19, <1>20, <1>21, <1>22, <1>23, <1>24, <1>25, <1>26,
     <1>27, <1>28, <1>29, <1>30, <1>31, <1>32, <1>33, <1>34, <1>35, <1>36, <1>37, <1>38,
     <1>39, <1>40, <1>41, <1>42, <1>43, <1>44, <1>45, <1>46, <1>47, <1>48, <1>49, <1>50,
     <1>51, <1>52, <1>53, <1>54 DEF Next, User, Command, Loop, Worker, Faults

(* Who works under the prepare lock has just found its configuration         *)
(* current, or was there before.                                             *)
LEMMA Places ==
    TypeOK /\ [Next]_vars =>
        /\ cpc' \in {"source", "clock", "publish"} =>
             c' = c /\ (cpc \in {"source", "clock", "publish"} \/ Current(c))
        /\ wpc' \in {"source", "clock", "publish"} =>
             w' = w /\ (wpc \in {"source", "clock", "publish"} \/ Current(w))
        /\ dpc' \in {"clock", "publish"} =>
             d'.row.ver = row.ver \/ (d' = d /\ dpc \in {"clock", "publish"})
<1> SUFFICES ASSUME TypeOK, [Next]_vars
             PROVE  /\ cpc' \in {"source", "clock", "publish"} =>
                         c' = c /\ (cpc \in {"source", "clock", "publish"} \/ Current(c))
                    /\ wpc' \in {"source", "clock", "publish"} =>
                         w' = w /\ (wpc \in {"source", "clock", "publish"} \/ Current(w))
                    /\ dpc' \in {"clock", "publish"} =>
                         d'.row.ver = row.ver \/ (d' = d /\ dpc \in {"clock", "publish"})
  OBVIOUS
<1>1. CASE User
  <2>1. UNCHANGED <<loop, worker>>
    BY <1>1, Frames
  <2>2. cpc' \in {"source", "clock", "publish"} => UNCHANGED command
    BY <1>1 DEF User, AddAsync, AddSync, RemoveRepo, SetRefresh, ReadForPrepare, Arrive,
       Interrupt, command
  <2> QED
    BY <2>1, <2>2 DEF loop, worker, command
<1>2. CASE Command
  <2>1. UNCHANGED <<loop, worker>>
    BY <1>2, Frames
  <2>2. cpc' \in {"source", "clock", "publish"} =>
          c' = c /\ (cpc \in {"source", "clock", "publish"} \/ Current(c))
    BY <1>2 DEF Command, BeginPrepare, CommandLock, CommandCheck, CommandSource,
       CommandConfigLock, CommandPublish, CommandFails, CommandPersist, CommandTo, command
  <2> QED
    BY <2>1, <2>2 DEF loop, worker
<1>3. CASE Loop
  <2>1. UNCHANGED command
    BY <1>3, Frames
  <2>2. wpc' \in {"source", "clock", "publish"} => UNCHANGED worker
    BY <1>3 DEF Loop, List, Look, Restart, Judge, MountAsync, MountBegin, MountLock,
       MountCheck, MountConfigLock, MountPublish, MountStart, MountFails, Detach,
       UnmountFails, Cancel, Drain, worker, NewWorker
  <2>3. dpc' \in {"clock", "publish"} =>
          d' = [d EXCEPT !.row = row] \/ (d' = d /\ dpc \in {"clock", "publish"})
    <3> USE DEF LoopTo, LoopWith
    <3>1. CASE MountCheck
      BY <3>1 DEF MountCheck
    <3>2. CASE MountConfigLock
      BY <3>2 DEF MountConfigLock
    <3>3. CASE ~MountCheck /\ ~MountConfigLock
      BY <1>3, <3>3 DEF Loop, List, Look, Restart, Judge, MountAsync, MountBegin, MountLock,
         MountPublish, MountStart, MountFails, Detach, UnmountFails, Cancel, Drain, TypeOK
    <3> QED
      BY <3>1, <3>2, <3>3
  <2>4. [d EXCEPT !.row = row].row = row
    BY DEF TypeOK
  <2> QED
    BY <2>1, <2>2, <2>3, <2>4 DEF command, worker
<1>4. CASE Worker
  <2>1. UNCHANGED <<loop, command>>
    BY <1>4, Frames
  <2>2. wpc' \in {"source", "clock", "publish"} =>
          w' = w /\ (wpc \in {"source", "clock", "publish"} \/ Current(w))
    BY <1>4 DEF Worker, WorkerLock, WorkerCheck, WorkerSource, WorkerConfigLock,
       WorkerPublish, WorkerRecheck, WorkerReady, WorkerCompares, WorkerShow, WorkerActivate,
       WorkerOpen, WorkerPrune, WorkerFails, WorkerFail, WorkerFailGate, WorkerTo, WorkerEnds,
       WorkerWith
  <2> QED
    BY <2>1, <2>2 DEF loop, command
<1>5. CASE Leave \/ Exit \/ Start \/ Faults \/ UNCHANGED vars
  BY <1>5 DEF Leave, Exit, Start, Faults, Lost, Signal, Crash, CommandCrash, Down, vars, loop,
     worker, command
<1> QED
  BY <1>1, <1>2, <1>3, <1>4, <1>5 DEF Next

(* Steps keep the work under the prepare lock on the configuration that is   *)
(* vouched for.                                                              *)
LEMMA HolderNext ==
    TypeOK /\ LockInv /\ RuntimeInv /\ RowInv /\ HolderInv /\ [Next]_vars => HolderInv'
<1> SUFFICES ASSUME TypeOK, LockInv, RuntimeInv, RowInv, HolderInv, [Next]_vars, Vouched'
             PROVE  /\ cpc' \in {"source", "clock", "publish"} => Current(c)'
                    /\ wpc' \in {"source", "clock", "publish"} => Current(w)'
                    /\ dpc' \in {"clock", "publish"} => Current(d.row)'
  BY DEF HolderInv
<1>1. /\ row'.ver = row.ver
      /\ (Vouched \/ (CommandPublish /\ Current(c)) \/ (WorkerPublish /\ Current(w)))
  BY VouchedNext
<1>2. CASE Vouched
  BY <1>1, <1>2, Places DEF HolderInv, Current
<1>3. CASE CommandPublish
  <2>1. plock = "command" /\ cpc' = "persist" /\ UNCHANGED <<loop, worker>>
    BY <1>3 DEF CommandPublish, CommandTo, LockInv, CommandHolds
  <2>2. wpc \notin {"source", "clock", "publish"} /\ dpc \notin {"clock", "publish"}
    BY <2>1 DEF LockInv, WorkerHolds
  <2> QED
    BY <2>1, <2>2 DEF loop, worker
<1>4. CASE WorkerPublish
  <2>1. plock = "worker" /\ wpc' = "recheck" /\ UNCHANGED <<loop, command>>
    BY <1>4 DEF WorkerPublish, WorkerWith, LockInv, WorkerHolds
  <2>2. cpc \notin {"source", "clock", "publish"} /\ dpc \notin {"clock", "publish"}
    BY <2>1 DEF LockInv, CommandHolds
  <2> QED
    BY <2>1, <2>2 DEF loop, command
<1> QED
  BY <1>1, <1>2, <1>3, <1>4

(* Who writes the git directory and who publishes. *)
LEMMA DiskStep ==
    [Next]_vars =>
        /\ git' = git \/ CommandSource \/ WorkerSource
        /\ trees' = trees \/ CommandPublish \/ MountPublish \/ WorkerPublish
<1> SUFFICES ASSUME [Next]_vars
             PROVE  /\ git' = git \/ CommandSource \/ WorkerSource
                    /\ trees' = trees \/ CommandPublish \/ MountPublish \/ WorkerPublish
  OBVIOUS
<1>1. CASE User
  BY <1>1, Frames DEF disk
<1>2. CASE Command
  BY <1>2 DEF Command, BeginPrepare, CommandLock, CommandCheck, CommandSource,
     CommandConfigLock, CommandPublish, CommandFails, CommandPersist, disk
<1>3. CASE Loop
  BY <1>3 DEF Loop, List, Look, Restart, Judge, MountAsync, MountBegin, MountLock, MountCheck,
     MountConfigLock, MountPublish, MountStart, MountFails, Detach, UnmountFails, Cancel,
     Drain, disk
<1>4. CASE Worker
  BY <1>4 DEF Worker, WorkerLock, WorkerCheck, WorkerSource, WorkerConfigLock, WorkerPublish,
     WorkerRecheck, WorkerReady, WorkerCompares, WorkerShow, WorkerActivate, WorkerOpen,
     WorkerPrune, WorkerFails, WorkerFail, WorkerFailGate, disk
<1>5. CASE Leave \/ Exit \/ Start \/ Faults \/ UNCHANGED vars
  BY <1>5 DEF Leave, Exit, Start, Faults, Lost, Signal, Crash, CommandCrash, Down, vars, disk
<1> QED
  BY <1>1, <1>2, <1>3, <1>4, <1>5 DEF Next

(* Steps keep the tree of a configuration that is vouched for the last one. *)
LEMMA VouchedInvNext ==
    TypeOK /\ RuntimeInv /\ RowInv /\ TreeInv /\ [Next]_vars => VouchedInv'
<1> SUFFICES ASSUME TypeOK, RuntimeInv, RowInv, TreeInv, [Next]_vars, Vouched'
             PROVE  git' = row'.ver /\ Latest' > 0 /\ trees'[Latest'] = row'.ver
  BY DEF VouchedInv
<1>1. /\ row'.ver = row.ver
      /\ (Vouched \/ (CommandPublish /\ Current(c)) \/ (WorkerPublish /\ Current(w)))
  BY VouchedNext
<1>2. trees \in Seq(1 .. made) /\ Len(trees) \in Nat
  BY DEF TypeOK
<1>3. CASE CommandPublish
  <2>1. git = c.ver /\ git > 0 /\ trees' = Published /\ git' = git
    BY <1>3 DEF CommandPublish, CommandTo, TreeInv, GitInv, RowInv
  <2>2. c.ver = row.ver
    BY <1>1, <1>3 DEF CommandPublish, WorkerPublish, CommandTo, WorkerWith, loop, worker,
       command, TreeInv, HolderInv, Current
  <2> QED
    BY <2>1, <2>2, <1>1, PublishedLast DEF Latest
<1>4. CASE WorkerPublish
  <2>1. git = w.ver /\ trees' = Append(trees, w.ver) /\ git' = git
    BY <1>4 DEF WorkerPublish, TreeInv, GitInv
  <2>2. w.ver = row.ver
    BY <1>1, <1>4 DEF CommandPublish, WorkerPublish, CommandTo, WorkerWith, loop, worker,
       command, TreeInv, HolderInv, Current
  <2>3. w.ver \in 1 .. made
    <3>1. w.ver \in 0 .. made /\ w.ver > 0
      BY <1>4, Versions DEF WorkerPublish, RuntimeInv
    <3> QED
      BY <3>1, Versions
  <2> QED
    BY <2>1, <2>2, <2>3, <1>1, <1>2, PublishTypes DEF Latest
<1>5. CASE MountPublish
  <2>1. git = d.row.ver /\ git > 0 /\ trees' = Published /\ git' = git
    BY <1>5 DEF MountPublish, TreeInv, GitInv, RowInv
  <2>2. d.row.ver = row.ver
    BY <1>1, <1>5, <1>3, <1>4 DEF MountPublish, CommandPublish, WorkerPublish, CommandTo,
       WorkerWith, LoopWith, loop, worker, command, TreeInv, HolderInv, Current
  <2> QED
    BY <2>1, <2>2, <1>1, PublishedLast DEF Latest
<1>6. CASE trees' = trees /\ ~CommandPublish /\ ~WorkerPublish
  <2>1. Vouched /\ row'.ver = row.ver
    BY <1>1, <1>6
  <2>2. git = row.ver /\ Latest > 0 /\ trees[Latest] = row.ver
    BY <2>1 DEF TreeInv, VouchedInv
  <2>3. CommandSource => git' = git
    BY <2>1, <2>2 DEF CommandSource, TreeInv, HolderInv, Current
  <2>4. WorkerSource => git' = git
    BY <2>1, <2>2 DEF WorkerSource, TreeInv, HolderInv, Current
  <2>5. git' = git
    BY <2>3, <2>4, DiskStep
  <2> QED
    BY <1>6, <2>1, <2>2, <2>5 DEF Latest
<1> QED
  BY <1>3, <1>4, <1>5, <1>6, DiskStep

(* Steps keep the git directory prepared for whoever publishes. *)
LEMMA GitNext ==
    TypeOK /\ LockInv /\ KindInv /\ ReadInv /\ RowInv /\ RuntimeInv /\ TreeInv /\ [Next]_vars =>
        GitInv'
<1> SUFFICES ASSUME TypeOK, LockInv, KindInv, ReadInv, RowInv, RuntimeInv, TreeInv, [Next]_vars
             PROVE  GitInv'
  OBVIOUS
<1> USE DEF registry, disk, locks, loop, worker, command, Happens, CommandTo, LoopTo,
        LoopWith, WorkerTo, WorkerWith, WorkerEnds, Gone, NoWork, NoCommand, NoRuntime,
        NoPass, Absent
<1>1. CASE AddAsync
  BY <1>1 DEF AddAsync, Configured, GitInv, TreeInv, TypeOK, LockInv, CommandHolds,
     WorkerHolds
<1>2. CASE AddSync
  BY <1>2 DEF AddSync, Configured, GitInv, TreeInv, TypeOK, LockInv, CommandHolds, WorkerHolds
<1>3. CASE RemoveRepo
  BY <1>3 DEF RemoveRepo, GitInv, TreeInv, TypeOK, LockInv, CommandHolds, WorkerHolds
<1>4. CASE SetRefresh
  BY <1>4 DEF SetRefresh, GitInv, TreeInv, TypeOK, LockInv, CommandHolds, WorkerHolds
<1>5. CASE ReadForPrepare
  BY <1>5 DEF ReadForPrepare, IsAsync, GitInv, TreeInv, TypeOK, LockInv, CommandHolds,
     WorkerHolds
<1>6. CASE Arrive
  BY <1>6 DEF Arrive, GitInv, TreeInv, TypeOK, LockInv, CommandHolds, WorkerHolds
<1>7. CASE Interrupt
  BY <1>7 DEF Interrupt, GitInv, TreeInv, TypeOK, LockInv, CommandHolds, WorkerHolds
<1>8. CASE BeginPrepare
  BY <1>8 DEF BeginPrepare, Configured, Current, IsAsync, GitInv, TreeInv, TypeOK, LockInv,
     CommandHolds, WorkerHolds
<1>9. CASE CommandLock
  BY <1>9 DEF CommandLock, GitInv, TreeInv, TypeOK, LockInv, CommandHolds, WorkerHolds
<1>10. CASE CommandCheck
  BY <1>10 DEF CommandCheck, Current, GitInv, TreeInv, TypeOK, LockInv, CommandHolds,
     WorkerHolds
<1>11. CASE CommandSource
  BY <1>11 DEF CommandSource, GitInv, TreeInv, TypeOK, LockInv, CommandHolds, WorkerHolds
<1>12. CASE CommandConfigLock
  BY <1>12 DEF CommandConfigLock, Current, GitInv, TreeInv, TypeOK, LockInv, CommandHolds,
     WorkerHolds
<1>13. CASE CommandPublish
  BY <1>13 DEF CommandPublish, Published, Latest, GitInv, TreeInv, TypeOK, LockInv,
     CommandHolds, WorkerHolds
<1>14. CASE CommandFails
  BY <1>14 DEF CommandFails, GitInv, TreeInv, TypeOK, LockInv, CommandHolds, WorkerHolds
<1>15. CASE CommandPersist
  BY <1>15 DEF CommandPersist, Same, Stored, GitInv, TreeInv, TypeOK, LockInv, CommandHolds,
     WorkerHolds
<1>16. CASE List
  BY <1>16 DEF List, GitInv, TreeInv, TypeOK, LockInv, CommandHolds, WorkerHolds
<1>17. CASE Look
  BY <1>17 DEF Look, GitInv, TreeInv, TypeOK, LockInv, CommandHolds, WorkerHolds
<1>18. CASE Restart
  BY <1>18 DEF Restart, WithRefresh, GitInv, TreeInv, TypeOK, LockInv, CommandHolds,
     WorkerHolds
<1>19. CASE Judge
  BY <1>19 DEF Judge, Same, NewWorker, Resets, GitInv, TreeInv, TypeOK, LockInv, CommandHolds,
     WorkerHolds
<1>20. CASE MountAsync
  BY <1>20 DEF MountAsync, NewWorker, Latest, GitInv, TreeInv, TypeOK, LockInv, CommandHolds,
     WorkerHolds
<1>21. CASE MountBegin
  BY <1>21 DEF MountBegin, GitInv, TreeInv, TypeOK, LockInv, CommandHolds, WorkerHolds
<1>22. CASE MountLock
  BY <1>22 DEF MountLock, GitInv, TreeInv, TypeOK, LockInv, CommandHolds, WorkerHolds
<1>23. CASE MountCheck
  <2>1. CASE dpc' = "clock" /\ d' = [d EXCEPT !.row = row] /\ row.state \in {"ready", "synced"}
    <3>1. d'.row = row
      BY <2>1 DEF TypeOK
    <3> QED
      BY <1>23, <2>1, <3>1 DEF MountCheck, TreeInv, GitInv, VouchedInv, Vouched, LockInv,
         CommandHolds, WorkerHolds
  <2>2. CASE dpc' = "idle"
    BY <1>23, <2>2 DEF MountCheck, TreeInv, GitInv, VouchedInv, Vouched, LockInv,
       CommandHolds, WorkerHolds
  <2> QED
    BY <1>23, <2>1, <2>2, MountsUsable DEF MountCheck
<1>24. CASE MountConfigLock
  BY <1>24 DEF MountConfigLock, Current, GitInv, TreeInv, TypeOK, LockInv, CommandHolds,
     WorkerHolds
<1>25. CASE MountPublish
  BY <1>25 DEF MountPublish, Published, Latest, GitInv, TreeInv, TypeOK, LockInv,
     CommandHolds, WorkerHolds
<1>26. CASE MountStart
  BY <1>26 DEF MountStart, GitInv, TreeInv, TypeOK, LockInv, CommandHolds, WorkerHolds
<1>27. CASE MountFails
  BY <1>27 DEF MountFails, GitInv, TreeInv, TypeOK, LockInv, CommandHolds, WorkerHolds
<1>28. CASE Detach
  BY <1>28 DEF Detach, GitInv, TreeInv, TypeOK, LockInv, CommandHolds, WorkerHolds
<1>29. CASE UnmountFails
  BY <1>29 DEF UnmountFails, GitInv, TreeInv, TypeOK, LockInv, CommandHolds, WorkerHolds
<1>30. CASE Cancel
  BY <1>30 DEF Cancel, Wakes, GitInv, TreeInv, TypeOK, LockInv, CommandHolds, WorkerHolds
<1>31. CASE Drain
  BY <1>31 DEF Drain, GitInv, TreeInv, TypeOK, LockInv, CommandHolds, WorkerHolds
<1>32. CASE WorkerLock
  BY <1>32 DEF WorkerLock, GitInv, TreeInv, TypeOK, LockInv, CommandHolds, WorkerHolds
<1>33. CASE WorkerCheck
  BY <1>33 DEF WorkerCheck, Current, GitInv, TreeInv, TypeOK, LockInv, CommandHolds,
     WorkerHolds
<1>34. CASE WorkerSource
  BY <1>34 DEF WorkerSource, GitInv, TreeInv, TypeOK, LockInv, CommandHolds, WorkerHolds
<1>35. CASE WorkerConfigLock
  BY <1>35 DEF WorkerConfigLock, Current, GitInv, TreeInv, TypeOK, LockInv, CommandHolds,
     WorkerHolds
<1>36. CASE WorkerPublish
  BY <1>36 DEF WorkerPublish, Latest, GitInv, TreeInv, TypeOK, LockInv, CommandHolds,
     WorkerHolds
<1>37. CASE WorkerRecheck
  BY <1>37 DEF WorkerRecheck, Same, GitInv, TreeInv, TypeOK, LockInv, CommandHolds,
     WorkerHolds
<1>38. CASE WorkerReady
  BY <1>38 DEF WorkerReady, Same, Stored, GitInv, TreeInv, TypeOK, LockInv, CommandHolds,
     WorkerHolds
<1>39. CASE WorkerCompares
  BY <1>39 DEF WorkerCompares, Same, GitInv, TreeInv, TypeOK, LockInv, CommandHolds,
     WorkerHolds
<1>40. CASE WorkerShow
  BY <1>40 DEF WorkerShow, GitInv, TreeInv, TypeOK, LockInv, CommandHolds, WorkerHolds
<1>41. CASE WorkerActivate
  BY <1>41 DEF WorkerActivate, Same, GitInv, TreeInv, TypeOK, LockInv, CommandHolds,
     WorkerHolds
<1>42. CASE WorkerOpen
  BY <1>42 DEF WorkerOpen, Wakes, Stopping, GitInv, TreeInv, TypeOK, LockInv, CommandHolds,
     WorkerHolds
<1>43. CASE WorkerPrune
  BY <1>43 DEF WorkerPrune, Current, PrunedBelow, Lesser, GitInv, TreeInv, TypeOK, LockInv,
     CommandHolds, WorkerHolds
<1>44. CASE WorkerFails
  BY <1>44 DEF WorkerFails, Cancelable, GitInv, TreeInv, TypeOK, LockInv, CommandHolds,
     WorkerHolds
<1>45. CASE WorkerFail
  BY <1>45 DEF WorkerFail, Same, Stored, GitInv, TreeInv, TypeOK, LockInv, CommandHolds,
     WorkerHolds
<1>46. CASE WorkerFailGate
  BY <1>46 DEF WorkerFailGate, Same, Wakes, GitInv, TreeInv, TypeOK, LockInv, CommandHolds,
     WorkerHolds
<1>47. CASE Leave
  BY <1>47 DEF Leave, GitInv, TreeInv, TypeOK, LockInv, CommandHolds, WorkerHolds
<1>48. CASE Exit
  BY <1>48 DEF Exit, Down, GitInv, TreeInv, TypeOK, LockInv, CommandHolds, WorkerHolds
<1>49. CASE Start
  BY <1>49 DEF Start, GitInv, TreeInv, TypeOK, LockInv, CommandHolds, WorkerHolds
<1>50. CASE Lost
  BY <1>50 DEF Lost, Stopping, GitInv, TreeInv, TypeOK, LockInv, CommandHolds, WorkerHolds
<1>51. CASE Signal
  BY <1>51 DEF Signal, GitInv, TreeInv, TypeOK, LockInv, CommandHolds, WorkerHolds
<1>52. CASE Crash
  BY <1>52 DEF Crash, Down, GitInv, TreeInv, TypeOK, LockInv, CommandHolds, WorkerHolds
<1>53. CASE CommandCrash
  BY <1>53 DEF CommandCrash, GitInv, TreeInv, TypeOK, LockInv, CommandHolds, WorkerHolds
<1>54. CASE UNCHANGED vars
  BY <1>54 DEF vars, GitInv, TreeInv, TypeOK, LockInv, CommandHolds, WorkerHolds
<1> QED
  BY <1>1, <1>2, <1>3, <1>4, <1>5, <1>6, <1>7, <1>8, <1>9, <1>10, <1>11, <1>12, <1>13, <1>14,
     <1>15, <1>16, <1>17, <1>18, <1>19, <1>20, <1>21, <1>22, <1>23, <1>24, <1>25, <1>26,
     <1>27, <1>28, <1>29, <1>30, <1>31, <1>32, <1>33, <1>34, <1>35, <1>36, <1>37, <1>38,
     <1>39, <1>40, <1>41, <1>42, <1>43, <1>44, <1>45, <1>46, <1>47, <1>48, <1>49, <1>50,
     <1>51, <1>52, <1>53, <1>54 DEF Next, User, Command, Loop, Worker, Faults

(* Steps keep what is mounted and opened usable. *)
LEMMA UsableNext ==
    TypeOK /\ LockInv /\ KindInv /\ ReadInv /\ RowInv /\ RuntimeInv /\ TreeInv /\ [Next]_vars =>
        UsableInv'
<1> SUFFICES ASSUME TypeOK, LockInv, KindInv, ReadInv, RowInv, RuntimeInv, TreeInv, [Next]_vars
             PROVE  UsableInv'
  OBVIOUS
<1> USE DEF registry, disk, locks, loop, worker, command, Happens, CommandTo, LoopTo,
        LoopWith, WorkerTo, WorkerWith, WorkerEnds, Gone, NoWork, NoCommand, NoRuntime,
        NoPass, Absent
<1>1. CASE AddAsync
  BY <1>1 DEF AddAsync, Configured, UsableInv, TreeInv, TypeOK, RuntimeInv, RowInv, Current
<1>2. CASE AddSync
  BY <1>2 DEF AddSync, Configured, UsableInv, TreeInv, TypeOK, RuntimeInv, RowInv, Current
<1>3. CASE RemoveRepo
  BY <1>3 DEF RemoveRepo, UsableInv, TreeInv, TypeOK, RuntimeInv, RowInv, Current
<1>4. CASE SetRefresh
  BY <1>4 DEF SetRefresh, UsableInv, TreeInv, TypeOK, RuntimeInv, RowInv, Current
<1>5. CASE ReadForPrepare
  BY <1>5 DEF ReadForPrepare, IsAsync, UsableInv, TreeInv, TypeOK, RuntimeInv, RowInv, Current
<1>6. CASE Arrive
  BY <1>6 DEF Arrive, UsableInv, TreeInv, TypeOK, RuntimeInv, RowInv, Current
<1>7. CASE Interrupt
  BY <1>7 DEF Interrupt, UsableInv, TreeInv, TypeOK, RuntimeInv, RowInv, Current
<1>8. CASE BeginPrepare
  BY <1>8 DEF BeginPrepare, Configured, Current, IsAsync, UsableInv, TreeInv, TypeOK,
     RuntimeInv, RowInv, Current
<1>9. CASE CommandLock
  BY <1>9 DEF CommandLock, UsableInv, TreeInv, TypeOK, RuntimeInv, RowInv, Current
<1>10. CASE CommandCheck
  BY <1>10 DEF CommandCheck, Current, UsableInv, TreeInv, TypeOK, RuntimeInv, RowInv, Current
<1>11. CASE CommandSource
  BY <1>11 DEF CommandSource, UsableInv, TreeInv, TypeOK, RuntimeInv, RowInv, Current
<1>12. CASE CommandConfigLock
  BY <1>12 DEF CommandConfigLock, Current, UsableInv, TreeInv, TypeOK, RuntimeInv, RowInv,
     Current
<1>13. CASE CommandPublish
  BY <1>13 DEF CommandPublish, Published, Latest, UsableInv, TreeInv, TypeOK, RuntimeInv,
     RowInv, Current
<1>14. CASE CommandFails
  BY <1>14 DEF CommandFails, UsableInv, TreeInv, TypeOK, RuntimeInv, RowInv, Current
<1>15. CASE CommandPersist
  BY <1>15 DEF CommandPersist, Same, Stored, UsableInv, TreeInv, TypeOK, RuntimeInv, RowInv,
     Current
<1>16. CASE List
  BY <1>16 DEF List, UsableInv, TreeInv, TypeOK, RuntimeInv, RowInv, Current
<1>17. CASE Look
  BY <1>17 DEF Look, UsableInv, TreeInv, TypeOK, RuntimeInv, RowInv, Current
<1>18. CASE Restart
  BY <1>18 DEF Restart, WithRefresh, UsableInv, TreeInv, TypeOK, RuntimeInv, RowInv, Current
<1>19. CASE Judge
  BY <1>19 DEF Judge, Same, NewWorker, Resets, UsableInv, TreeInv, TypeOK, RuntimeInv, RowInv,
     Current
<1>20. CASE MountAsync
  BY <1>20 DEF MountAsync, NewWorker, Latest, UsableInv, TreeInv, TypeOK, RuntimeInv, RowInv,
     Current
<1>21. CASE MountBegin
  BY <1>21 DEF MountBegin, UsableInv, TreeInv, TypeOK, RuntimeInv, RowInv, Current
<1>22. CASE MountLock
  BY <1>22 DEF MountLock, UsableInv, TreeInv, TypeOK, RuntimeInv, RowInv, Current
<1>23. CASE MountCheck
  <2>1. CASE dpc' = "clock" /\ d' = [d EXCEPT !.row = row] /\ row.state \in {"ready", "synced"}
    <3>1. d'.row = row
      BY <2>1 DEF TypeOK
    <3> QED
      BY <1>23, <2>1, <3>1 DEF MountCheck, TreeInv, UsableInv
  <2>2. CASE dpc' = "idle"
    BY <1>23, <2>2 DEF MountCheck, TreeInv, UsableInv
  <2> QED
    BY <1>23, <2>1, <2>2, MountsUsable DEF MountCheck
<1>24. CASE MountConfigLock
  BY <1>24 DEF MountConfigLock, Current, UsableInv, TreeInv, TypeOK, RuntimeInv, RowInv,
     Current
<1>25. CASE MountPublish
  BY <1>25 DEF MountPublish, Published, Latest, UsableInv, TreeInv, TypeOK, RuntimeInv,
     RowInv, Current
<1>26. CASE MountStart
  BY <1>26 DEF MountStart, UsableInv, TreeInv, TypeOK, RuntimeInv, RowInv, Current
<1>27. CASE MountFails
  BY <1>27 DEF MountFails, UsableInv, TreeInv, TypeOK, RuntimeInv, RowInv, Current
<1>28. CASE Detach
  BY <1>28 DEF Detach, UsableInv, TreeInv, TypeOK, RuntimeInv, RowInv, Current
<1>29. CASE UnmountFails
  BY <1>29 DEF UnmountFails, UsableInv, TreeInv, TypeOK, RuntimeInv, RowInv, Current
<1>30. CASE Cancel
  BY <1>30 DEF Cancel, Wakes, UsableInv, TreeInv, TypeOK, RuntimeInv, RowInv, Current
<1>31. CASE Drain
  BY <1>31 DEF Drain, UsableInv, TreeInv, TypeOK, RuntimeInv, RowInv, Current
<1>32. CASE WorkerLock
  BY <1>32 DEF WorkerLock, UsableInv, TreeInv, TypeOK, RuntimeInv, RowInv, Current
<1>33. CASE WorkerCheck
  BY <1>33 DEF WorkerCheck, Current, UsableInv, TreeInv, TypeOK, RuntimeInv, RowInv, Current
<1>34. CASE WorkerSource
  BY <1>34 DEF WorkerSource, UsableInv, TreeInv, TypeOK, RuntimeInv, RowInv, Current
<1>35. CASE WorkerConfigLock
  BY <1>35 DEF WorkerConfigLock, Current, UsableInv, TreeInv, TypeOK, RuntimeInv, RowInv,
     Current
<1>36. CASE WorkerPublish
  BY <1>36 DEF WorkerPublish, Latest, UsableInv, TreeInv, TypeOK, RuntimeInv, RowInv, Current
<1>37. CASE WorkerRecheck
  BY <1>37 DEF WorkerRecheck, Same, UsableInv, TreeInv, TypeOK, RuntimeInv, RowInv, Current
<1>38. CASE WorkerReady
  BY <1>38 DEF WorkerReady, Same, Stored, UsableInv, TreeInv, TypeOK, RuntimeInv, RowInv,
     Current
<1>39. CASE WorkerCompares
  BY <1>39 DEF WorkerCompares, Same, UsableInv, TreeInv, TypeOK, RuntimeInv, RowInv, Current
<1>40. CASE WorkerShow
  BY <1>40 DEF WorkerShow, UsableInv, TreeInv, TypeOK, RuntimeInv, RowInv, Current
<1>41. CASE WorkerActivate
  BY <1>41 DEF WorkerActivate, Same, UsableInv, TreeInv, TypeOK, RuntimeInv, RowInv, Current
<1>42. CASE WorkerOpen
  BY <1>42 DEF WorkerOpen, Wakes, Stopping, UsableInv, TreeInv, TypeOK, RuntimeInv, RowInv,
     Current
<1>43. CASE WorkerPrune
  BY <1>43 DEF WorkerPrune, Current, PrunedBelow, Lesser, UsableInv, TreeInv, TypeOK,
     RuntimeInv, RowInv, Current
<1>44. CASE WorkerFails
  BY <1>44 DEF WorkerFails, Cancelable, UsableInv, TreeInv, TypeOK, RuntimeInv, RowInv,
     Current
<1>45. CASE WorkerFail
  BY <1>45 DEF WorkerFail, Same, Stored, UsableInv, TreeInv, TypeOK, RuntimeInv, RowInv,
     Current
<1>46. CASE WorkerFailGate
  BY <1>46 DEF WorkerFailGate, Same, Wakes, UsableInv, TreeInv, TypeOK, RuntimeInv, RowInv,
     Current
<1>47. CASE Leave
  BY <1>47 DEF Leave, UsableInv, TreeInv, TypeOK, RuntimeInv, RowInv, Current
<1>48. CASE Exit
  BY <1>48 DEF Exit, Down, UsableInv, TreeInv, TypeOK, RuntimeInv, RowInv, Current
<1>49. CASE Start
  BY <1>49 DEF Start, UsableInv, TreeInv, TypeOK, RuntimeInv, RowInv, Current
<1>50. CASE Lost
  BY <1>50 DEF Lost, Stopping, UsableInv, TreeInv, TypeOK, RuntimeInv, RowInv, Current
<1>51. CASE Signal
  BY <1>51 DEF Signal, UsableInv, TreeInv, TypeOK, RuntimeInv, RowInv, Current
<1>52. CASE Crash
  BY <1>52 DEF Crash, Down, UsableInv, TreeInv, TypeOK, RuntimeInv, RowInv, Current
<1>53. CASE CommandCrash
  BY <1>53 DEF CommandCrash, UsableInv, TreeInv, TypeOK, RuntimeInv, RowInv, Current
<1>54. CASE UNCHANGED vars
  BY <1>54 DEF vars, UsableInv, TreeInv, TypeOK, RuntimeInv, RowInv, Current
<1> QED
  BY <1>1, <1>2, <1>3, <1>4, <1>5, <1>6, <1>7, <1>8, <1>9, <1>10, <1>11, <1>12, <1>13, <1>14,
     <1>15, <1>16, <1>17, <1>18, <1>19, <1>20, <1>21, <1>22, <1>23, <1>24, <1>25, <1>26,
     <1>27, <1>28, <1>29, <1>30, <1>31, <1>32, <1>33, <1>34, <1>35, <1>36, <1>37, <1>38,
     <1>39, <1>40, <1>41, <1>42, <1>43, <1>44, <1>45, <1>46, <1>47, <1>48, <1>49, <1>50,
     <1>51, <1>52, <1>53, <1>54 DEF Next, User, Command, Loop, Worker, Faults

(* Steps keep the generation at hand: only the worker prunes, below its own  *)
(* and the one before.                                                       *)
LEMMA KeptNext ==
    TypeOK /\ LockInv /\ RuntimeInv /\ RowInv /\ TreeInv /\ ShownInv /\ [Next]_vars => KeptInv'
<1> SUFFICES ASSUME TypeOK, LockInv, RuntimeInv, RowInv, TreeInv, ShownInv, [Next]_vars
             PROVE  KeptInv'
  OBVIOUS
<1> USE DEF registry, disk, locks, loop, worker, command, Happens, CommandTo, LoopTo,
        LoopWith, WorkerTo, WorkerWith, WorkerEnds, Gone, NoWork, NoCommand, NoRuntime,
        NoPass, Absent
<1>1. CASE AddAsync
  <2>1. UNCHANGED <<trees, kept, loop, worker>>
    BY <1>1 DEF AddAsync, Configured, disk, loop, worker
  <2> QED
    BY <1>1, <2>1 DEF ShownInv, KeptInv, Afterwards, Latest
<1>2. CASE AddSync
  <2>1. UNCHANGED <<trees, kept, loop, worker>>
    BY <1>2 DEF AddSync, Configured, disk, loop, worker
  <2> QED
    BY <1>2, <2>1 DEF ShownInv, KeptInv, Afterwards, Latest
<1>3. CASE RemoveRepo
  <2>1. UNCHANGED <<trees, kept, loop, worker>>
    BY <1>3 DEF RemoveRepo, disk, loop, worker
  <2> QED
    BY <1>3, <2>1 DEF ShownInv, KeptInv, Afterwards, Latest
<1>4. CASE SetRefresh
  <2>1. UNCHANGED <<trees, kept, loop, worker>>
    BY <1>4 DEF SetRefresh, disk, loop, worker
  <2> QED
    BY <1>4, <2>1 DEF ShownInv, KeptInv, Afterwards, Latest
<1>5. CASE ReadForPrepare
  <2>1. UNCHANGED <<trees, kept, loop, worker>>
    BY <1>5 DEF ReadForPrepare, IsAsync, disk, loop, worker
  <2> QED
    BY <1>5, <2>1 DEF ShownInv, KeptInv, Afterwards, Latest
<1>6. CASE Arrive
  <2>1. UNCHANGED <<trees, kept, loop, worker>>
    BY <1>6 DEF Arrive, disk, loop, worker
  <2> QED
    BY <1>6, <2>1 DEF ShownInv, KeptInv, Afterwards, Latest
<1>7. CASE Interrupt
  <2>1. UNCHANGED <<trees, kept, loop, worker>>
    BY <1>7 DEF Interrupt, disk, loop, worker
  <2> QED
    BY <1>7, <2>1 DEF ShownInv, KeptInv, Afterwards, Latest
<1>8. CASE BeginPrepare
  <2>1. UNCHANGED <<trees, kept, loop, worker>>
    BY <1>8 DEF BeginPrepare, Configured, Current, IsAsync, disk, loop, worker
  <2> QED
    BY <1>8, <2>1 DEF ShownInv, KeptInv, Afterwards, Latest
<1>9. CASE CommandLock
  <2>1. UNCHANGED <<trees, kept, loop, worker>>
    BY <1>9 DEF CommandLock, disk, loop, worker
  <2> QED
    BY <1>9, <2>1 DEF ShownInv, KeptInv, Afterwards, Latest
<1>10. CASE CommandCheck
  <2>1. UNCHANGED <<trees, kept, loop, worker>>
    BY <1>10 DEF CommandCheck, Current, disk, loop, worker
  <2> QED
    BY <1>10, <2>1 DEF ShownInv, KeptInv, Afterwards, Latest
<1>11. CASE CommandSource
  <2>1. UNCHANGED <<trees, kept, loop, worker>>
    BY <1>11 DEF CommandSource, disk, loop, worker
  <2> QED
    BY <1>11, <2>1 DEF ShownInv, KeptInv, Afterwards, Latest
<1>12. CASE CommandConfigLock
  <2>1. UNCHANGED <<trees, kept, loop, worker>>
    BY <1>12 DEF CommandConfigLock, Current, disk, loop, worker
  <2> QED
    BY <1>12, <2>1 DEF ShownInv, KeptInv, Afterwards, Latest
<1>13. CASE CommandPublish
  <2>1. git > 0
    BY <1>13 DEF CommandPublish, TreeInv, GitInv, RowInv
  <2>2. trees' = Published /\ UNCHANGED <<kept, loop, worker>> /\ plock = "command"
    BY <1>13 DEF CommandPublish, LockInv, CommandHolds
  <2>3. wpc \notin Afterwards
    BY <2>2 DEF LockInv, WorkerHolds, Afterwards
  <2>4. kept \in Nat /\ Len(trees) \in Nat /\ d.gen \in Nat
    BY DEF TypeOK
  <2> QED
    BY <2>1, <2>2, <2>3, <2>4, PublishedLast DEF KeptInv, ShownInv, Latest
<1>14. CASE CommandFails
  <2>1. UNCHANGED <<trees, kept, loop, worker>>
    BY <1>14 DEF CommandFails, disk, loop, worker
  <2> QED
    BY <1>14, <2>1 DEF ShownInv, KeptInv, Afterwards, Latest
<1>15. CASE CommandPersist
  <2>1. UNCHANGED <<trees, kept, loop, worker>>
    BY <1>15 DEF CommandPersist, Same, Stored, disk, loop, worker
  <2> QED
    BY <1>15, <2>1 DEF ShownInv, KeptInv, Afterwards, Latest
<1>16. CASE List
  BY <1>16 DEF List, KeptInv, ShownInv, TypeOK, LockInv, CommandHolds, WorkerHolds,
     RuntimeInv, Afterwards, Latest
<1>17. CASE Look
  BY <1>17 DEF Look, KeptInv, ShownInv, TypeOK, LockInv, CommandHolds, WorkerHolds,
     RuntimeInv, Afterwards, Latest
<1>18. CASE Restart
  BY <1>18 DEF Restart, WithRefresh, KeptInv, ShownInv, TypeOK, LockInv, CommandHolds,
     WorkerHolds, RuntimeInv, Afterwards, Latest
<1>19. CASE Judge
  <2>1. /\ UNCHANGED disk /\ dpc' \in {"unmount", "idle"}
        /\ wpc' = "lock" \/ UNCHANGED worker
    BY <1>19 DEF Judge, NewWorker
  <2> QED
    BY <2>1 DEF ShownInv, KeptInv, Afterwards, Latest
<1>20. CASE MountAsync
  BY <1>20 DEF MountAsync, NewWorker, Latest, KeptInv, ShownInv, TypeOK, LockInv,
     CommandHolds, WorkerHolds, RuntimeInv, Afterwards, Latest
<1>21. CASE MountBegin
  BY <1>21 DEF MountBegin, KeptInv, ShownInv, TypeOK, LockInv, CommandHolds, WorkerHolds,
     RuntimeInv, Afterwards, Latest
<1>22. CASE MountLock
  BY <1>22 DEF MountLock, KeptInv, ShownInv, TypeOK, LockInv, CommandHolds, WorkerHolds,
     RuntimeInv, Afterwards, Latest
<1>23. CASE MountCheck
  BY <1>23 DEF MountCheck, Current, KeptInv, ShownInv, TypeOK, LockInv, CommandHolds,
     WorkerHolds, RuntimeInv, Afterwards, Latest
<1>24. CASE MountConfigLock
  BY <1>24 DEF MountConfigLock, Current, KeptInv, ShownInv, TypeOK, LockInv, CommandHolds,
     WorkerHolds, RuntimeInv, Afterwards, Latest
<1>25. CASE MountPublish
  <2>1. git > 0 /\ git = d.row.ver
    BY <1>25 DEF MountPublish, TreeInv, GitInv, RowInv
  <2>2. /\ trees' = Published /\ kept' = Len(trees') /\ dpc' = "start"
        /\ d' = [d EXCEPT !.gen = Len(trees')]
        /\ UNCHANGED <<rt, worker>> /\ dpc = "publish"
    BY <1>25 DEF MountPublish
  <2>3. d'.row = d.row /\ d'.gen = Len(trees')
    BY <2>2 DEF TypeOK
  <2>4. wpc' = "none"
    BY <2>2 DEF RuntimeInv
  <2> QED
    BY <2>1, <2>2, <2>3, <2>4, PublishedLast DEF KeptInv, Afterwards, Latest
<1>26. CASE MountStart
  BY <1>26 DEF MountStart, KeptInv, ShownInv, TypeOK, LockInv, CommandHolds, WorkerHolds,
     RuntimeInv, Afterwards, Latest
<1>27. CASE MountFails
  BY <1>27 DEF MountFails, KeptInv, ShownInv, TypeOK, LockInv, CommandHolds, WorkerHolds,
     RuntimeInv, Afterwards, Latest
<1>28. CASE Detach
  BY <1>28 DEF Detach, KeptInv, ShownInv, TypeOK, LockInv, CommandHolds, WorkerHolds,
     RuntimeInv, Afterwards, Latest
<1>29. CASE UnmountFails
  BY <1>29 DEF UnmountFails, KeptInv, ShownInv, TypeOK, LockInv, CommandHolds, WorkerHolds,
     RuntimeInv, Afterwards, Latest
<1>30. CASE Cancel
  BY <1>30 DEF Cancel, Wakes, KeptInv, ShownInv, TypeOK, LockInv, CommandHolds, WorkerHolds,
     RuntimeInv, Afterwards, Latest
<1>31. CASE Drain
  BY <1>31 DEF Drain, KeptInv, ShownInv, TypeOK, LockInv, CommandHolds, WorkerHolds,
     RuntimeInv, Afterwards, Latest
<1>32. CASE WorkerLock
  BY <1>32 DEF WorkerLock, KeptInv, ShownInv, TypeOK, LockInv, CommandHolds, WorkerHolds,
     RuntimeInv, Afterwards, Latest
<1>33. CASE WorkerCheck
  BY <1>33 DEF WorkerCheck, Current, KeptInv, ShownInv, TypeOK, LockInv, CommandHolds,
     WorkerHolds, RuntimeInv, Afterwards, Latest
<1>34. CASE WorkerSource
  BY <1>34 DEF WorkerSource, KeptInv, ShownInv, TypeOK, LockInv, CommandHolds, WorkerHolds,
     RuntimeInv, Afterwards, Latest
<1>35. CASE WorkerConfigLock
  BY <1>35 DEF WorkerConfigLock, Current, KeptInv, ShownInv, TypeOK, LockInv, CommandHolds,
     WorkerHolds, RuntimeInv, Afterwards, Latest
<1>36. CASE WorkerPublish
  <2>1. w.ver \in 1 .. made
    <3>1. w.ver \in 0 .. made /\ w.ver > 0
      BY <1>36 DEF TypeOK, WorkerPublish, RuntimeInv
    <3> QED
      BY <3>1, Versions
  <2>2. /\ trees' = Append(trees, w.ver) /\ UNCHANGED <<kept, loop>> /\ wpc' = "recheck"
        /\ w' = [w EXCEPT !.gen = Len(trees'), !.prev = Latest]
    BY <1>36 DEF WorkerPublish
  <2>3. w'.gen = Len(trees') /\ w'.ver = w.ver
    BY <2>2 DEF TypeOK
  <2>4. trees \in Seq(1 .. made) /\ Len(trees) \in Nat /\ kept \in Nat
    BY DEF TypeOK
  <2>5. dpc' # "start"
    BY <1>36, <2>2 DEF WorkerPublish, RuntimeInv
  <2>6. Len(trees') = Len(trees) + 1 /\ trees'[Len(trees) + 1] = w.ver
    BY <2>1, <2>2, <2>4, PublishTypes
  <2>7. kept <= Len(trees) + 1 /\ kept >= 1
    BY <2>4 DEF ShownInv, KeptInv, Latest
  <2> QED
    BY <2>2, <2>3, <2>4, <2>5, <2>6, <2>7 DEF KeptInv, Latest
<1>37. CASE WorkerRecheck
  BY <1>37 DEF WorkerRecheck, Same, KeptInv, ShownInv, TypeOK, LockInv, CommandHolds,
     WorkerHolds, RuntimeInv, Afterwards, Latest
<1>38. CASE WorkerReady
  BY <1>38 DEF WorkerReady, Same, Stored, KeptInv, ShownInv, TypeOK, LockInv, CommandHolds,
     WorkerHolds, RuntimeInv, Afterwards, Latest
<1>39. CASE WorkerCompares
  BY <1>39 DEF WorkerCompares, Same, KeptInv, ShownInv, TypeOK, LockInv, CommandHolds,
     WorkerHolds, RuntimeInv, Afterwards, Latest
<1>40. CASE WorkerShow
  BY <1>40 DEF WorkerShow, KeptInv, ShownInv, TypeOK, LockInv, CommandHolds, WorkerHolds,
     RuntimeInv, Afterwards, Latest
<1>41. CASE WorkerActivate
  BY <1>41 DEF WorkerActivate, Same, KeptInv, ShownInv, TypeOK, LockInv, CommandHolds,
     WorkerHolds, RuntimeInv, Afterwards, Latest
<1>42. CASE WorkerOpen
  BY <1>42 DEF WorkerOpen, Wakes, Stopping, KeptInv, ShownInv, TypeOK, LockInv, CommandHolds,
     WorkerHolds, RuntimeInv, Afterwards, Latest
<1>43. CASE WorkerPrune
  BY <1>43 DEF WorkerPrune, Current, PrunedBelow, Lesser, KeptInv, ShownInv, TypeOK, LockInv,
     CommandHolds, WorkerHolds, RuntimeInv, Afterwards, Latest
<1>44. CASE WorkerFails
  BY <1>44 DEF WorkerFails, Cancelable, KeptInv, ShownInv, TypeOK, LockInv, CommandHolds,
     WorkerHolds, RuntimeInv, Afterwards, Latest
<1>45. CASE WorkerFail
  BY <1>45 DEF WorkerFail, Same, Stored, KeptInv, ShownInv, TypeOK, LockInv, CommandHolds,
     WorkerHolds, RuntimeInv, Afterwards, Latest
<1>46. CASE WorkerFailGate
  BY <1>46 DEF WorkerFailGate, Same, Wakes, KeptInv, ShownInv, TypeOK, LockInv, CommandHolds,
     WorkerHolds, RuntimeInv, Afterwards, Latest
<1>47. CASE Leave
  <2>1. UNCHANGED <<trees, kept, loop, worker>>
    BY <1>47 DEF Leave, disk, loop, worker
  <2> QED
    BY <1>47, <2>1 DEF ShownInv, KeptInv, Afterwards, Latest
<1>48. CASE Exit
  BY <1>48 DEF Exit, Down, KeptInv, ShownInv, TypeOK, LockInv, CommandHolds, WorkerHolds,
     RuntimeInv, Afterwards, Latest
<1>49. CASE Start
  BY <1>49 DEF Start, KeptInv, ShownInv, TypeOK, LockInv, CommandHolds, WorkerHolds,
     RuntimeInv, Afterwards, Latest
<1>50. CASE Lost
  <2>1. UNCHANGED <<trees, kept, loop, worker>>
    BY <1>50 DEF Lost, Stopping, disk, loop, worker
  <2> QED
    BY <1>50, <2>1 DEF ShownInv, KeptInv, Afterwards, Latest
<1>51. CASE Signal
  BY <1>51 DEF Signal, KeptInv, ShownInv, TypeOK, LockInv, CommandHolds, WorkerHolds,
     RuntimeInv, Afterwards, Latest
<1>52. CASE Crash
  BY <1>52 DEF Crash, Down, KeptInv, ShownInv, TypeOK, LockInv, CommandHolds, WorkerHolds,
     RuntimeInv, Afterwards, Latest
<1>53. CASE CommandCrash
  <2>1. UNCHANGED <<trees, kept, loop, worker>>
    BY <1>53 DEF CommandCrash, disk, loop, worker
  <2> QED
    BY <1>53, <2>1 DEF ShownInv, KeptInv, Afterwards, Latest
<1>54. CASE UNCHANGED vars
  BY <1>54 DEF vars, KeptInv, ShownInv, TypeOK, LockInv, CommandHolds, WorkerHolds,
     RuntimeInv, Afterwards, Latest
<1> QED
  BY <1>1, <1>2, <1>3, <1>4, <1>5, <1>6, <1>7, <1>8, <1>9, <1>10, <1>11, <1>12, <1>13, <1>14,
     <1>15, <1>16, <1>17, <1>18, <1>19, <1>20, <1>21, <1>22, <1>23, <1>24, <1>25, <1>26,
     <1>27, <1>28, <1>29, <1>30, <1>31, <1>32, <1>33, <1>34, <1>35, <1>36, <1>37, <1>38,
     <1>39, <1>40, <1>41, <1>42, <1>43, <1>44, <1>45, <1>46, <1>47, <1>48, <1>49, <1>50,
     <1>51, <1>52, <1>53, <1>54 DEF Next, User, Command, Loop, Worker, Faults

(* Steps keep the tree behind the gate. *)
LEMMA ShownNext ==
    TypeOK /\ LockInv /\ RuntimeInv /\ RowInv /\ TreeInv /\ ShownInv /\ [Next]_vars => ShownInv'
<1> SUFFICES ASSUME TypeOK, LockInv, RuntimeInv, RowInv, TreeInv, ShownInv, [Next]_vars
             PROVE  (/\ OpenShowsOwnTree
                     /\ wpc \in {"confirm", "activate", "open", "prune"} =>
                          rt.shown = w.gen /\ basis = w.gen
                     /\ rt.up /\ rt.gate \in {"ready", "none"} => rt.shown > 0)'
  BY KeptNext DEF ShownInv
<1> USE DEF registry, disk, locks, loop, worker, command, Happens, CommandTo, LoopTo,
        LoopWith, WorkerTo, WorkerWith, WorkerEnds, Gone, NoWork, NoCommand, NoRuntime,
        NoPass, Absent
<1>1. CASE AddAsync
  BY <1>1 DEF AddAsync, Configured, KeptInv, ShownInv, TypeOK, RuntimeInv, Afterwards, Latest,
     OpenShowsOwnTree
<1>2. CASE AddSync
  BY <1>2 DEF AddSync, Configured, KeptInv, ShownInv, TypeOK, RuntimeInv, Afterwards, Latest,
     OpenShowsOwnTree
<1>3. CASE RemoveRepo
  BY <1>3 DEF RemoveRepo, KeptInv, ShownInv, TypeOK, RuntimeInv, Afterwards, Latest,
     OpenShowsOwnTree
<1>4. CASE SetRefresh
  BY <1>4 DEF SetRefresh, KeptInv, ShownInv, TypeOK, RuntimeInv, Afterwards, Latest,
     OpenShowsOwnTree
<1>5. CASE ReadForPrepare
  BY <1>5 DEF ReadForPrepare, IsAsync, KeptInv, ShownInv, TypeOK, RuntimeInv, Afterwards,
     Latest, OpenShowsOwnTree
<1>6. CASE Arrive
  BY <1>6 DEF Arrive, KeptInv, ShownInv, TypeOK, RuntimeInv, Afterwards, Latest,
     OpenShowsOwnTree
<1>7. CASE Interrupt
  BY <1>7 DEF Interrupt, KeptInv, ShownInv, TypeOK, RuntimeInv, Afterwards, Latest,
     OpenShowsOwnTree
<1>8. CASE BeginPrepare
  BY <1>8 DEF BeginPrepare, Configured, Current, IsAsync, KeptInv, ShownInv, TypeOK,
     RuntimeInv, Afterwards, Latest, OpenShowsOwnTree
<1>9. CASE CommandLock
  BY <1>9 DEF CommandLock, KeptInv, ShownInv, TypeOK, RuntimeInv, Afterwards, Latest,
     OpenShowsOwnTree
<1>10. CASE CommandCheck
  BY <1>10 DEF CommandCheck, Current, KeptInv, ShownInv, TypeOK, RuntimeInv, Afterwards,
     Latest, OpenShowsOwnTree
<1>11. CASE CommandSource
  BY <1>11 DEF CommandSource, KeptInv, ShownInv, TypeOK, RuntimeInv, Afterwards, Latest,
     OpenShowsOwnTree
<1>12. CASE CommandConfigLock
  BY <1>12 DEF CommandConfigLock, Current, KeptInv, ShownInv, TypeOK, RuntimeInv, Afterwards,
     Latest, OpenShowsOwnTree
<1>13. CASE CommandPublish
  BY <1>13 DEF CommandPublish, Published, Latest, KeptInv, ShownInv, TypeOK, RuntimeInv,
     Afterwards, Latest, OpenShowsOwnTree
<1>14. CASE CommandFails
  BY <1>14 DEF CommandFails, KeptInv, ShownInv, TypeOK, RuntimeInv, Afterwards, Latest,
     OpenShowsOwnTree
<1>15. CASE CommandPersist
  BY <1>15 DEF CommandPersist, Same, Stored, KeptInv, ShownInv, TypeOK, RuntimeInv,
     Afterwards, Latest, OpenShowsOwnTree
<1>16. CASE List
  BY <1>16 DEF List, KeptInv, ShownInv, TypeOK, RuntimeInv, Afterwards, Latest,
     OpenShowsOwnTree
<1>17. CASE Look
  BY <1>17 DEF Look, KeptInv, ShownInv, TypeOK, RuntimeInv, Afterwards, Latest,
     OpenShowsOwnTree
<1>18. CASE Restart
  <2>1. /\ UNCHANGED <<disk, worker>>
        /\ rt'.up = rt.up /\ rt'.ver = rt.ver /\ rt'.gate = rt.gate /\ rt'.shown = rt.shown
    BY <1>18 DEF Restart, WithRefresh, TypeOK
  <2> QED
    BY <1>18, <2>1 DEF ShownInv, OpenShowsOwnTree
<1>19. CASE Judge
  <2>1. CASE UNCHANGED <<rt, worker>>
    BY <1>19, <2>1 DEF Judge, Same, NewWorker, Resets, ShownInv, OpenShowsOwnTree
  <2>2. CASE Resets /\ NewWorker(d.row)
    <3>1. rt'.up = rt.up /\ rt'.gate = "undecided" /\ rt'.shown = rt.shown
      BY <2>2 DEF Resets, TypeOK
    <3>2. (wpc' = "lock" \/ UNCHANGED worker) /\ UNCHANGED disk
      BY <1>19, <2>2 DEF NewWorker, Judge
    <3> QED
      BY <3>1, <3>2 DEF ShownInv, OpenShowsOwnTree
  <2> QED
    BY <1>19, <2>1, <2>2 DEF Judge
<1>20. CASE MountAsync
  BY <1>20 DEF MountAsync, NewWorker, Latest, KeptInv, ShownInv, TypeOK, RuntimeInv,
     Afterwards, Latest, OpenShowsOwnTree
<1>21. CASE MountBegin
  BY <1>21 DEF MountBegin, KeptInv, ShownInv, TypeOK, RuntimeInv, Afterwards, Latest,
     OpenShowsOwnTree
<1>22. CASE MountLock
  BY <1>22 DEF MountLock, KeptInv, ShownInv, TypeOK, RuntimeInv, Afterwards, Latest,
     OpenShowsOwnTree
<1>23. CASE MountCheck
  BY <1>23 DEF MountCheck, Current, KeptInv, ShownInv, TypeOK, RuntimeInv, Afterwards, Latest,
     OpenShowsOwnTree
<1>24. CASE MountConfigLock
  BY <1>24 DEF MountConfigLock, Current, KeptInv, ShownInv, TypeOK, RuntimeInv, Afterwards,
     Latest, OpenShowsOwnTree
<1>25. CASE MountPublish
  BY <1>25 DEF MountPublish, Published, Latest, KeptInv, ShownInv, TypeOK, RuntimeInv,
     Afterwards, Latest, OpenShowsOwnTree
<1>26. CASE MountStart
  BY <1>26 DEF MountStart, KeptInv, ShownInv, TypeOK, RuntimeInv, Afterwards, Latest,
     OpenShowsOwnTree
<1>27. CASE MountFails
  BY <1>27 DEF MountFails, KeptInv, ShownInv, TypeOK, RuntimeInv, Afterwards, Latest,
     OpenShowsOwnTree
<1>28. CASE Detach
  BY <1>28 DEF Detach, KeptInv, ShownInv, TypeOK, RuntimeInv, Afterwards, Latest,
     OpenShowsOwnTree
<1>29. CASE UnmountFails
  BY <1>29 DEF UnmountFails, KeptInv, ShownInv, TypeOK, RuntimeInv, Afterwards, Latest,
     OpenShowsOwnTree
<1>30. CASE Cancel
  <2>1. /\ UNCHANGED <<disk, worker>>
        /\ rt'.up = rt.up /\ rt'.ver = rt.ver /\ (rt'.gate = rt.gate \/ rt'.gate = "failed")
        /\ rt'.shown = rt.shown
    BY <1>30 DEF Cancel, Wakes, TypeOK
  <2> QED
    BY <1>30, <2>1 DEF ShownInv, OpenShowsOwnTree
<1>31. CASE Drain
  BY <1>31 DEF Drain, KeptInv, ShownInv, TypeOK, RuntimeInv, Afterwards, Latest,
     OpenShowsOwnTree
<1>32. CASE WorkerLock
  BY <1>32 DEF WorkerLock, KeptInv, ShownInv, TypeOK, RuntimeInv, Afterwards, Latest,
     OpenShowsOwnTree
<1>33. CASE WorkerCheck
  BY <1>33 DEF WorkerCheck, Current, KeptInv, ShownInv, TypeOK, RuntimeInv, Afterwards,
     Latest, OpenShowsOwnTree
<1>34. CASE WorkerSource
  BY <1>34 DEF WorkerSource, KeptInv, ShownInv, TypeOK, RuntimeInv, Afterwards, Latest,
     OpenShowsOwnTree
<1>35. CASE WorkerConfigLock
  BY <1>35 DEF WorkerConfigLock, Current, KeptInv, ShownInv, TypeOK, RuntimeInv, Afterwards,
     Latest, OpenShowsOwnTree
<1>36. CASE WorkerPublish
  BY <1>36 DEF WorkerPublish, Latest, KeptInv, ShownInv, TypeOK, RuntimeInv, Afterwards,
     Latest, OpenShowsOwnTree
<1>37. CASE WorkerRecheck
  BY <1>37 DEF WorkerRecheck, Same, KeptInv, ShownInv, TypeOK, RuntimeInv, Afterwards, Latest,
     OpenShowsOwnTree
<1>38. CASE WorkerReady
  BY <1>38 DEF WorkerReady, Same, Stored, KeptInv, ShownInv, TypeOK, RuntimeInv, Afterwards,
     Latest, OpenShowsOwnTree
<1>39. CASE WorkerCompares
  BY <1>39 DEF WorkerCompares, Same, KeptInv, ShownInv, TypeOK, RuntimeInv, Afterwards,
     Latest, OpenShowsOwnTree
<1>40. CASE WorkerShow
  BY <1>40 DEF WorkerShow, KeptInv, ShownInv, TypeOK, RuntimeInv, Afterwards, Latest,
     OpenShowsOwnTree
<1>41. CASE WorkerActivate
  BY <1>41 DEF WorkerActivate, Same, KeptInv, ShownInv, TypeOK, RuntimeInv, Afterwards,
     Latest, OpenShowsOwnTree
<1>42. CASE WorkerOpen
  BY <1>42 DEF WorkerOpen, Wakes, Stopping, KeptInv, ShownInv, TypeOK, RuntimeInv, Afterwards,
     Latest, OpenShowsOwnTree
<1>43. CASE WorkerPrune
  BY <1>43 DEF WorkerPrune, Current, PrunedBelow, Lesser, KeptInv, ShownInv, TypeOK,
     RuntimeInv, Afterwards, Latest, OpenShowsOwnTree
<1>44. CASE WorkerFails
  BY <1>44 DEF WorkerFails, Cancelable, KeptInv, ShownInv, TypeOK, RuntimeInv, Afterwards,
     Latest, OpenShowsOwnTree
<1>45. CASE WorkerFail
  BY <1>45 DEF WorkerFail, Same, Stored, KeptInv, ShownInv, TypeOK, RuntimeInv, Afterwards,
     Latest, OpenShowsOwnTree
<1>46. CASE WorkerFailGate
  BY <1>46 DEF WorkerFailGate, Same, Wakes, KeptInv, ShownInv, TypeOK, RuntimeInv, Afterwards,
     Latest, OpenShowsOwnTree
<1>47. CASE Leave
  BY <1>47 DEF Leave, KeptInv, ShownInv, TypeOK, RuntimeInv, Afterwards, Latest,
     OpenShowsOwnTree
<1>48. CASE Exit
  BY <1>48 DEF Exit, Down, KeptInv, ShownInv, TypeOK, RuntimeInv, Afterwards, Latest,
     OpenShowsOwnTree
<1>49. CASE Start
  BY <1>49 DEF Start, KeptInv, ShownInv, TypeOK, RuntimeInv, Afterwards, Latest,
     OpenShowsOwnTree
<1>50. CASE Lost
  BY <1>50 DEF Lost, Stopping, KeptInv, ShownInv, TypeOK, RuntimeInv, Afterwards, Latest,
     OpenShowsOwnTree
<1>51. CASE Signal
  BY <1>51 DEF Signal, KeptInv, ShownInv, TypeOK, RuntimeInv, Afterwards, Latest,
     OpenShowsOwnTree
<1>52. CASE Crash
  BY <1>52 DEF Crash, Down, KeptInv, ShownInv, TypeOK, RuntimeInv, Afterwards, Latest,
     OpenShowsOwnTree
<1>53. CASE CommandCrash
  BY <1>53 DEF CommandCrash, KeptInv, ShownInv, TypeOK, RuntimeInv, Afterwards, Latest,
     OpenShowsOwnTree
<1>54. CASE UNCHANGED vars
  BY <1>54 DEF vars, KeptInv, ShownInv, TypeOK, RuntimeInv, Afterwards, Latest,
     OpenShowsOwnTree
<1> QED
  BY <1>1, <1>2, <1>3, <1>4, <1>5, <1>6, <1>7, <1>8, <1>9, <1>10, <1>11, <1>12, <1>13, <1>14,
     <1>15, <1>16, <1>17, <1>18, <1>19, <1>20, <1>21, <1>22, <1>23, <1>24, <1>25, <1>26,
     <1>27, <1>28, <1>29, <1>30, <1>31, <1>32, <1>33, <1>34, <1>35, <1>36, <1>37, <1>38,
     <1>39, <1>40, <1>41, <1>42, <1>43, <1>44, <1>45, <1>46, <1>47, <1>48, <1>49, <1>50,
     <1>51, <1>52, <1>53, <1>54 DEF Next, User, Command, Loop, Worker, Faults

(* The invariant holds at the start: nothing is registered. *)
LEMMA InvInit == Init => Inv
<1> SUFFICES ASSUME Init
             PROVE  Inv
  OBVIOUS
<1> USE DEF Init, Absent, NoPass, NoRuntime, NoWork, NoCommand
<1>1. TypeOK
  BY ConstantsAssumption DEF TypeOK, RowStates, LoopPCs, WorkerPCs, CommandPCs
<1>2. LockInv /\ RuntimeInv /\ StaleInv
  BY DEF LockInv, RuntimeInv, StaleInv, RowInv, KindInv, ReadInv, Current, IsAsync,
     CommandHolds, WorkerHolds
<1>3. TreeInv /\ ShownInv
  BY DEF TreeInv, VouchedInv, HolderInv, GitInv, UsableInv, Vouched, Afterwards, Current,
     ShownInv, KeptInv, OpenShowsOwnTree, Latest
<1> QED
  BY <1>1, <1>2, <1>3 DEF Inv

(* The invariant of Prepare. *)
LEMMA Invariant == Spec => []Inv
<1>1. Inv /\ [Next]_vars => Inv'
  <2> SUFFICES ASSUME TypeOK, LockInv, RuntimeInv, StaleInv, TreeInv, ShownInv, [Next]_vars
               PROVE  Inv'
    BY DEF Inv
  <2>1. RowInv /\ KindInv /\ ReadInv /\ VouchedInv /\ HolderInv /\ GitInv /\ UsableInv
    BY DEF StaleInv, TreeInv
  <2>2. TypeOK' /\ LockInv' /\ RuntimeInv'
    BY <2>1, TypeNext, LockNext, RuntimeNext
  <2>3. StaleInv'
    BY <2>1, RowNext, KindNext, ReadNext DEF StaleInv
  <2>4. TreeInv'
    BY <2>1, VouchedInvNext, HolderNext, GitNext, UsableNext DEF TreeInv
  <2>5. ShownInv'
    BY <2>1, ShownNext
  <2> QED
    BY <2>2, <2>3, <2>4, <2>5 DEF Inv
<1> QED
  BY <1>1, InvInit, PTL DEF Spec

-----------------------------------------------------------------------------
(* Registration *)

(* Every row has a result in the sense of Registration. *)
LEMMA ResultOf ==
    ASSUME row.state \in RowStates
    PROVE  \/ row.state = "absent"
           \/ row.state \in {"ready", "synced"} /\ Result = "usable"
           \/ Result \in {"pending", "failed"}
<1>1. row.state \in {"preparing", "sync_preparing"} => Result = "pending"
  BY DEF Result
<1>2. row.state \in {"ready", "synced"} => Result = "usable"
  BY DEF Result
<1>3. row.state \in {"failed", "broken"} => Result = "failed"
  BY DEF Result
<1> QED
  BY <1>1, <1>2, <1>3 DEF RowStates

(* Every step is one of Registration, or changes nothing there. *)
LEMMA Refines ==
    Inv /\ [Next]_vars => [R!Next]_(R!vars)
<1> SUFFICES ASSUME Inv, [Next]_vars
             PROVE  R!Next \/ UNCHANGED <<row.ver, Result, usable, Served>>
  BY DEF R!vars
<1>1. /\ made \in Nat /\ usable \subseteq 1 .. made /\ row.ver \in 0 .. made
      /\ row.state \in RowStates /\ (row.ver = 0) = (row.state = "absent")
  BY DEF Inv, TypeOK
<1>2. TypeOK /\ RuntimeInv /\ RowInv /\ KindInv /\ UsableInv /\ ShownInv
  BY DEF Inv, StaleInv, TreeInv
<1>3. ASSUME NEW s \in {"preparing", "sync_preparing"}, NEW o, Configured(s, o),
             UNCHANGED <<usable, rt>>
      PROVE  R!Configure
  <2>1. row'.ver = made + 1 /\ row'.state = s
    BY <1>3 DEF Configured
  <2>2. Result' = "pending" /\ Served' = Served
    BY <2>1, <1>3 DEF Result, Served
  <2> QED
    BY <2>1, <2>2, <1>1, <1>3 DEF R!Configure
<1>4. ASSUME NEW s \in {"ready", "synced"}, Stored(s), row.ver > 0, UNCHANGED rt
      PROVE  R!Next \/ UNCHANGED <<row.ver, Result, usable, Served>>
  <2>1. row'.ver = row.ver /\ row'.state = s /\ usable' = usable \cup {row.ver}
    BY <1>2, <1>4, RowChange DEF Stored
  <2>2. Result' = "usable" /\ Served' = Served
    BY <2>1, <1>4 DEF Result, Served
  <2>3. CASE Result \in {"pending", "failed"}
    BY <2>1, <2>2, <2>3 DEF R!Next, R!Succeed
  <2>4. CASE row.state \in {"ready", "synced"}
    <3>1. Result = "usable" /\ usable' = usable
      BY <2>1, <2>4, <1>2 DEF Result, UsableInv
    <3> QED
      BY <2>1, <2>2, <3>1
  <2> QED
    BY <2>3, <2>4, <1>1, <1>4, ResultOf
<1>5. ASSUME NEW s \in {"failed", "broken"}, Stored(s), row.ver > 0, UNCHANGED rt, Served # row.ver
      PROVE  R!Next \/ UNCHANGED <<row.ver, Result, usable, Served>>
  <2>1. row'.ver = row.ver /\ row'.state = s /\ usable' = usable
    BY <1>2, <1>5, RowChange DEF Stored
  <2>2. Result' = "failed" /\ Served' = Served
    BY <2>1, <1>5 DEF Result, Served
  <2>3. CASE Result = "failed"
    BY <2>1, <2>2, <2>3
  <2>4. CASE Result \in {"pending", "usable"}
    BY <2>1, <2>2, <2>4, <1>5 DEF R!Next, R!Fail
  <2> QED
    BY <2>3, <2>4, <1>1, <1>5, ResultOf
<1>6. ASSUME UNCHANGED <<row, usable>>, Served' = 0
      PROVE  R!Next \/ UNCHANGED <<row.ver, Result, usable, Served>>
  BY <1>6 DEF Result, R!Next, R!Withdraw
<1>7. ASSUME UNCHANGED <<row, usable>>, Served' = Served
      PROVE  R!Next \/ UNCHANGED <<row.ver, Result, usable, Served>>
  BY <1>7 DEF Result
<1>8. ASSUME UNCHANGED <<row, usable>>, Served = 0, Served' \in usable
      PROVE  R!Next \/ UNCHANGED <<row.ver, Result, usable, Served>>
  BY <1>8 DEF Result, R!Next, R!Serve
<1>9. CASE User
  <2>1. UNCHANGED <<usable, rt>>
    BY <1>9, Frames
  <2>2. CASE AddAsync \/ AddSync
    BY <2>1, <2>2, <1>3 DEF AddAsync, AddSync, R!Next
  <2>3. CASE RemoveRepo
    <3>1. row'.ver = 0 /\ Result' = "none" /\ Served' = Served
      BY <2>1, <2>3 DEF RemoveRepo, Absent, Result, Served
    <3> QED
      BY <2>1, <3>1 DEF R!Next, R!Remove
  <2>4. CASE SetRefresh
    <3>1. row'.ver = row.ver /\ row'.state = row.state
      BY <2>4, <1>2 DEF SetRefresh, TypeOK
    <3> QED
      BY <2>1, <3>1 DEF Result, Served
  <2>5. CASE ReadForPrepare \/ Arrive \/ Interrupt
    BY <2>1, <2>5, <1>7 DEF ReadForPrepare, Arrive, Interrupt, registry, Served
  <2> QED
    BY <1>9, <2>2, <2>3, <2>4, <2>5 DEF User
<1>10. CASE Command
  <2>1. rt' = rt
    BY <1>10, Frames
  <2>2. CASE BeginPrepare
    BY <2>1, <2>2, <1>3, <1>7 DEF BeginPrepare, R!Next, registry, Served
  <2>3. CASE CommandPersist
    <3>1. CASE UNCHANGED <<row, usable>>
      BY <2>1, <3>1, <1>7 DEF Served
    <3>2. CASE Same(row, c) /\ Stored("synced")
      <4>1. row.ver > 0
        BY <2>3, <3>2, <1>2 DEF CommandPersist, Same, RowInv
      <4> QED
        BY <2>1, <3>2, <4>1, <1>4
    <3>3. CASE Same(row, c) /\ Stored("broken")
      <4>1. row.ver > 0 /\ row.state = "sync_preparing"
        BY <2>3, <3>3, <1>2 DEF CommandPersist, Same, RowInv, KindInv, Current
      <4>2. row'.ver = row.ver /\ row'.state = "broken" /\ usable' = usable
        BY <1>2, <3>3, RowChange DEF Stored
      <4>3. Result = "pending" /\ Result' = "failed" /\ Served' = Served
        BY <2>1, <4>1, <4>2 DEF Result, Served
      <4> QED
        BY <4>2, <4>3 DEF R!Next, R!Fail
    <3> QED
      BY <2>3, <3>1, <3>2, <3>3 DEF CommandPersist
  <2>4. CASE ~BeginPrepare /\ ~CommandPersist
    BY <1>10, <2>1, <2>4, <1>7 DEF Command, CommandLock, CommandCheck, CommandSource,
       CommandConfigLock, CommandPublish, CommandFails, CommandTo, registry, Served
  <2> QED
    BY <2>2, <2>3, <2>4
<1>11. CASE Loop
  <2>1. UNCHANGED <<row, usable>>
    BY <1>11, Frames DEF registry
  <2>2. ~rt.up => Served = 0
    BY <1>2 DEF TypeOK, Served, NoRuntime
  <2>3. CASE Restart \/ Detach
    <3>1. rt'.gate = rt.gate /\ rt'.ver = rt.ver
      BY <2>3, <1>2 DEF Restart, WithRefresh, Detach, TypeOK
    <3> QED
      BY <2>1, <3>1, <1>7 DEF Served
  <2>4. CASE Judge
    <3>1. CASE rt' = rt
      BY <2>1, <3>1, <1>7 DEF Served
    <3>2. CASE Resets
      <4>1. rt'.gate = "undecided"
        BY <3>2, <1>2 DEF Resets, TypeOK
      <4> QED
        BY <2>1, <4>1, <1>6 DEF Served
    <3> QED
      BY <2>4, <3>1, <3>2 DEF Judge
  <2>5. CASE MountAsync
    <3>1. rt'.gate \in {"failed", "undecided"}
      BY <2>5 DEF MountAsync
    <3> QED
      BY <2>1, <3>1, <1>6 DEF Served
  <2>6. CASE MountStart
    <3>1. rt'.gate = "none" /\ rt'.ver = d.row.ver /\ ~rt.up /\ d.row.ver \in usable
      BY <2>6, <1>2 DEF MountStart, RuntimeInv, UsableInv
    <3> QED
      BY <2>1, <2>2, <3>1, <1>8 DEF Served
  <2>7. CASE Cancel
    <3>1. (rt'.gate = rt.gate /\ rt'.ver = rt.ver) \/ rt'.gate = "failed"
      BY <2>7, <1>2 DEF Cancel, TypeOK
    <3> QED
      BY <2>1, <3>1, <1>6, <1>7 DEF Served
  <2>8. CASE Drain
    BY <2>1, <2>8, <1>6 DEF Drain, Served, NoRuntime
  <2>9. CASE \/ List \/ Look \/ MountBegin \/ MountLock \/ MountCheck \/ MountConfigLock
             \/ MountPublish \/ MountFails \/ UnmountFails
    <3>1. rt' = rt
      BY <2>9 DEF List, Look, MountBegin, MountLock, MountCheck, MountConfigLock,
         MountPublish, MountFails, UnmountFails
    <3> QED
      BY <2>1, <3>1, <1>7 DEF Served
  <2> QED
    BY <1>11, <2>3, <2>4, <2>5, <2>6, <2>7, <2>8, <2>9 DEF Loop
<1>12. CASE Worker
  <2>1. CASE WorkerReady
    <3>1. CASE UNCHANGED <<row, usable>>
      BY <2>1, <3>1, <1>7 DEF WorkerReady, Served
    <3>2. CASE Same(row, w) /\ Stored("ready")
      <4>1. row.ver > 0
        BY <2>1, <3>2, <1>2 DEF WorkerReady, Same, RuntimeInv
      <4> QED
        BY <2>1, <3>2, <4>1, <1>4 DEF WorkerReady
    <3> QED
      BY <2>1, <3>1, <3>2 DEF WorkerReady
  <2>2. CASE WorkerFail
    <3>1. CASE UNCHANGED <<row, usable>>
      BY <2>2, <3>1, <1>7 DEF WorkerFail, Served
    <3>2. CASE Same(row, w) /\ Stored("failed")
      <4>1. row.ver > 0 /\ rt.up /\ wpc = "fail"
        BY <2>2, <3>2, <1>2 DEF WorkerFail, Same, RuntimeInv
      <4>2. Served = 0
        BY <4>1, <1>2 DEF RuntimeInv, Served
      <4> QED
        BY <2>2, <3>2, <4>1, <4>2, <1>5 DEF WorkerFail
    <3> QED
      BY <2>2, <3>1, <3>2 DEF WorkerFail
  <2>3. CASE WorkerShow
    <3>1. rt'.gate = rt.gate /\ rt'.ver = rt.ver
      BY <2>3, <1>2 DEF WorkerShow, TypeOK
    <3> QED
      BY <2>3, <3>1, <1>7 DEF WorkerShow, WorkerTo, WorkerWith, Served
  <2>4. CASE WorkerOpen
    <3>1. /\ rt'.gate = "ready" /\ rt'.ver = w.ver /\ rt.up /\ w.ver \in usable
          /\ UNCHANGED <<row, usable>>
      BY <2>4, <1>2 DEF WorkerOpen, RuntimeInv, UsableInv, TypeOK
    <3>2. Served = 0
      BY <2>4, <3>1, <1>2 DEF WorkerOpen, RuntimeInv, Served
    <3> QED
      BY <3>1, <3>2, <1>8 DEF Served
  <2>5. CASE WorkerFailGate
    <3>1. (rt'.gate = rt.gate /\ rt'.ver = rt.ver) \/ rt'.gate = "failed"
      BY <2>5, <1>2 DEF WorkerFailGate, TypeOK
    <3> QED
      BY <2>5, <3>1, <1>6, <1>7 DEF WorkerFailGate, Served
  <2>6. CASE ~WorkerReady /\ ~WorkerFail /\ ~WorkerShow /\ ~WorkerOpen /\ ~WorkerFailGate
    BY <1>12, <2>6, <1>7 DEF Worker, WorkerLock, WorkerCheck, WorkerSource, WorkerConfigLock,
       WorkerPublish, WorkerRecheck, WorkerCompares, WorkerActivate, WorkerPrune, WorkerFails,
       Served
  <2> QED
    BY <2>1, <2>2, <2>3, <2>4, <2>5, <2>6
<1>13. CASE Exit \/ Crash
  BY <1>13, <1>6 DEF Exit, Crash, Down, registry, Served, NoRuntime
<1>14. CASE Lost
  <2>1. rt'.gate = rt.gate /\ rt'.ver = rt.ver
    BY <1>14, <1>2 DEF Lost, TypeOK
  <2> QED
    BY <1>14, <2>1, <1>7 DEF Lost, registry, Served
<1>15. CASE Leave \/ Start \/ Signal \/ CommandCrash \/ UNCHANGED vars
  BY <1>15, <1>7 DEF Leave, Start, Signal, CommandCrash, vars, registry, Served
<1> QED
  BY <1>9, <1>10, <1>11, <1>12, <1>13, <1>14, <1>15 DEF Next, Faults

-----------------------------------------------------------------------------
(* The theorems *)

(* Types: configurations are numbered, a generation is of one of them, and    *)
(* without a mount there is no runtime.                                       *)
THEOREM TypeCorrect == Spec => []TypeOK
<1>1. Inv => TypeOK
  BY DEF Inv
<1> QED
  BY <1>1, Invariant, PTL

(* A row that says a configuration is ready says so of the tree that was      *)
(* published last, whatever registers, prepares, removes or stops meanwhile   *)
(* (UpdatePrepareStateForConfig, prepareRepo).                                *)
THEOREM ReadyIsOwnTreeHolds == Spec => []ReadyIsOwnTree
<1>1. Inv => ReadyIsOwnTree
  BY DEF Inv, TreeInv, VouchedInv, Vouched, ReadyIsOwnTree
<1> QED
  BY <1>1, Invariant, PTL

(* File operations pass the gate only to a tree of the configuration the      *)
(* runtime is of, which is kept and which the overlay was reconciled with     *)
(* (completePreparedRuntime, mountRepo, PruneGenerations).                    *)
THEOREM OpenShowsOwnTreeHolds == Spec => []OpenShowsOwnTree
<1>1. Inv => OpenShowsOwnTree
  BY DEF Inv, ShownInv
<1> QED
  BY <1>1, Invariant, PTL

(* A worker past its start always finds the runtime it belongs to             *)
(* (unmountRepo cancels it and waits before it closes anything).              *)
THEOREM NoUseAfterCloseHolds == Spec => []NoUseAfterClose
<1>1. Inv => NoUseAfterClose
  BY DEF Inv, RuntimeInv, NoUseAfterClose
<1> QED
  BY <1>1, Invariant, PTL

(* Prepare implements Registration: results are of the configuration in       *)
(* force, and what is served became usable and is withdrawn before another is *)
(* (UpdatePrepareStateForConfig, BeginPrepare, ReadyGate).                    *)
THEOREM RefinementHolds == Spec => ImplementsRegistration
<1>1. Init => R!Init
  BY DEF Init, R!Init, Result, Served, Absent, NoRuntime
<1> QED
  BY <1>1, Refines, Invariant, PTL DEF Spec, R!Spec, ImplementsRegistration
=============================================================================
