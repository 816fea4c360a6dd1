------------------------------ MODULE Prepare ------------------------------
(***************************************************************************)
(* How a registered repository becomes a mount that serves files: the row   *)
(* of the registry, which the commands of other processes write, the loop   *)
(* of the daemon that follows it (syncRepos), the worker that prepares a    *)
(* repository in the background (runPrepareAttempt), the preparation a      *)
(* command makes itself (prepareRepo), the two locks they share, and the    *)
(* gate at which the file operations of an unprepared mount wait.           *)
(*                                                                         *)
(* One repository.  Every configuration has a tree of its own, so the       *)
(* version of a configuration also names what was fetched for it.  Changes  *)
(* of HEAD after the preparation are the business of HeadSync.              *)
(***************************************************************************)
EXTENDS Naturals, Sequences

CONSTANTS
    MaxVersions,   \* adds and prepares (a bound)
    MaxToggles,    \* changes of the refresh setting (a bound)
    MaxFaults,     \* calls that fail or time out, stops and crashes of the daemon or
                   \* of a command (a bound)
    Required,      \* is a commit required?  Then "prepare" runs again when ready
    AnyTime        \* what may happen at any time: "refresh", "busy"

ASSUME ConstantsAssumption ==
    /\ {MaxVersions, MaxToggles, MaxFaults} \subseteq Nat
    /\ Required \in BOOLEAN /\ AnyTime \subseteq {"refresh", "busy"}

VARIABLES
    row,          \* the row: ConfigVersion, PrepareState, RemoteRefreshDisabled
    made,         \* how many configurations there have been
    git,          \* the configuration the git directory was prepared for last
    trees,        \* the generations: for which configuration each was published
    kept,         \* the first generation that is not pruned
    basis,        \* the generation the overlay was reconciled with last
    usable,       \* configurations that became usable (history)
    plock, clock, \* holders of the prepare lock and the config lock
    daemon,       \* "down", "up", "closing"
    dpc, d,       \* where the loop is; the row it read, was a worker busy, gen, what follows a stop
    rt,           \* the runtime
    wpc, w,       \* where the worker is; its cfg, gen and prevGen
    cpc, c,       \* where the command is; its cfg
    op,           \* a file operation: "out", "waiting", "woken"
    spent         \* what has been used of the bounds

registry == <<row, made>>
disk     == <<git, trees, kept, basis>>
locks    == <<plock, clock>>
loop     == <<daemon, dpc, d>>
worker   == <<wpc, w>>
command  == <<cpc, c>>

vars == <<registry, disk, usable, locks, loop, rt, worker, command, op, spent>>

RowStates == {"absent", "sync_preparing", "preparing", "ready", "failed", "synced", "broken"}
Absent    == [ver |-> 0, state |-> "absent", off |-> FALSE]
NoWork    == [ver |-> 0, off |-> FALSE, gen |-> 0, prev |-> 0]
NoCommand == [ver |-> 0, off |-> FALSE, async |-> FALSE]
NoRuntime == [up |-> FALSE, ver |-> 0, off |-> FALSE, mounted |-> FALSE,
              gate |-> "none", shown |-> 0, active |-> FALSE]
NoPass    == [row |-> Absent, busy |-> FALSE, gen |-> 0, then |-> "idle"]

LoopPCs    == {"off", "idle", "look", "mount", "lock", "check", "clock", "publish", "start",
               "restart", "judge", "unmount", "cancel", "drain", "exit"}
WorkerPCs  == {"none", "lock", "check", "source", "clock", "publish", "recheck", "ready",
               "match", "current", "show", "confirm", "activate", "open", "prune", "fail", "failGate"}
CommandPCs == {"idle", "begin", "lock", "check", "source", "clock", "publish", "persist", "fail"}

TypeOK ==
    /\ row \in [ver : 0 .. made, state : RowStates, off : BOOLEAN]
    /\ (row.ver = 0) = (row.state = "absent")
    /\ made \in 0 .. MaxVersions /\ git \in 0 .. made
    /\ trees \in Seq(1 .. made) /\ kept \in Nat /\ basis \in 0 .. Len(trees)
    /\ usable \subseteq 1 .. made
    /\ plock \in {"none", "loop", "worker", "command"} /\ clock \in {"none", "loop", "worker", "command"}
    /\ daemon \in {"down", "up", "closing"}
    /\ dpc \in LoopPCs /\ (daemon = "down") = (dpc = "off")
    /\ d \in [row : [ver : 0 .. made, state : RowStates, off : BOOLEAN], busy : BOOLEAN,
              gen : 0 .. Len(trees), then : {"idle", "mount", "exit"}]
    /\ rt \in [up : BOOLEAN, ver : 0 .. made, off : BOOLEAN, mounted : BOOLEAN,
               gate : {"none", "undecided", "ready", "failed"}, shown : 0 .. Len(trees), active : BOOLEAN]
    /\ (rt.up \/ rt = NoRuntime)
    /\ wpc \in WorkerPCs
    /\ w \in [ver : 0 .. made, off : BOOLEAN, gen : 0 .. Len(trees), prev : 0 .. Len(trees)]
    /\ cpc \in CommandPCs /\ c \in [ver : 0 .. made, off : BOOLEAN, async : BOOLEAN]
    /\ op \in {"out", "waiting", "woken"}
    /\ spent \in [toggles : 0 .. MaxToggles, faults : 0 .. MaxFaults]

Init ==
    /\ row = Absent /\ made = 0 /\ git = 0 /\ trees = <<>> /\ kept = 1 /\ basis = 0 /\ usable = {}
    /\ plock = "none" /\ clock = "none"
    /\ daemon = "down" /\ dpc = "off" /\ d = NoPass /\ rt = NoRuntime
    /\ wpc = "none" /\ w = NoWork
    /\ cpc = "idle" /\ c = NoCommand
    /\ op = "out" /\ spent = [toggles |-> 0, faults |-> 0]

Happens == spent.faults < MaxFaults /\ spent' = [spent EXCEPT !.faults = @ + 1]

-----------------------------------------------------------------------------
(* The registry *)

Latest == Len(trees)

(* configVersionIsCurrent *)
Current(cfg) == row.ver = cfg.ver

(* samePrepareConfig *)
Same(a, b) == a.ver = b.ver /\ a.off = b.off

(* UpdatePrepareStateForConfig, where a row is still that of the configuration. *)
Stored(state) ==
    /\ row' = [row EXCEPT !.state = state]
    /\ usable' = IF state \in {"ready", "synced"} THEN usable \cup {row.ver} ELSE usable

(* A configuration of its own: AddRepo, BeginPrepare. *)
Configured(state, off) ==
    /\ made < MaxVersions /\ made' = made + 1
    /\ row' = [ver |-> made + 1, state |-> state, off |-> off]

(* A step of an attempt that runs from publishing to the end; refresh settings *)
(* compared then make it give up, after the row may already say "ready".       *)
Finishing ==
    \/ wpc \in {"match", "current", "show", "confirm", "activate", "fail", "failGate"}
    \/ cpc \notin {"idle", "begin"}

-----------------------------------------------------------------------------
(* Commands of other processes *)

(* AddRepo under the config lock; without --async the command prepares itself. *)
AddAsync ==
    /\ clock = "none" /\ Configured("preparing", FALSE)
    /\ UNCHANGED <<disk, usable, locks, loop, rt, worker, command, op, spent>>

AddSync ==
    /\ clock = "none" /\ cpc = "idle" /\ Configured("sync_preparing", FALSE)
    /\ cpc' = "lock" /\ c' = [ver |-> made + 1, off |-> FALSE, async |-> FALSE]
    /\ UNCHANGED <<disk, usable, locks, loop, rt, worker, op, spent>>

RemoveRepo ==
    /\ clock = "none" /\ row # Absent /\ row' = Absent
    /\ UNCHANGED <<made, disk, usable, locks, loop, rt, worker, command, op, spent>>

(* UpdateRefresh: neither a lock nor a new version. *)
SetRefresh ==
    /\ row # Absent /\ ("refresh" \in AnyTime \/ ~Finishing)
    /\ spent.toggles < MaxToggles /\ spent' = [spent EXCEPT !.toggles = @ + 1]
    /\ row' = [row EXCEPT !.off = ~@]
    /\ UNCHANGED <<made, disk, usable, locks, loop, rt, worker, command, op>>

IsAsync(state) == state \in {"preparing", "ready", "failed"}

(* Prepare reads the row, and begins only if the version is still the same. *)
ReadForPrepare ==
    /\ cpc = "idle" /\ row # Absent /\ made < MaxVersions
    /\ row.state = "ready" => Required
    /\ cpc' = "begin" /\ c' = [ver |-> row.ver, off |-> row.off, async |-> IsAsync(row.state)]
    /\ UNCHANGED <<registry, disk, usable, locks, loop, rt, worker, op, spent>>

(* Variant: prepares again under the old version. *)
BeginPrepareInPlace ==
    /\ cpc = "begin" /\ cpc' = "idle" /\ c' = NoCommand
    /\ row' = IF Current(c) /\ c.async THEN [row EXCEPT !.state = "preparing"] ELSE row
    /\ UNCHANGED <<made, disk, usable, locks, loop, rt, worker, op, spent>>

BeginPrepare ==
    /\ cpc = "begin"
    /\ IF Current(c)
       THEN /\ Configured(IF c.async THEN "preparing" ELSE "sync_preparing", row.off)
            /\ cpc' = IF c.async THEN "idle" ELSE "lock"
            /\ c' = IF c.async THEN NoCommand ELSE [c EXCEPT !.ver = made + 1]
       ELSE /\ cpc' = "idle" /\ c' = NoCommand /\ UNCHANGED registry
    /\ UNCHANGED <<disk, usable, locks, loop, rt, worker, op, spent>>

(* prepareRepo, and the result it is recorded with. *)
CommandTo(pc) == cpc' = pc /\ UNCHANGED <<registry, usable, loop, rt, worker, c, op>>

CommandLock ==
    /\ cpc = "lock" /\ plock = "none" /\ plock' = "command" /\ CommandTo("check")
    /\ UNCHANGED <<disk, clock, spent>>

CommandCheck ==
    /\ cpc = "check"
    /\ IF Current(c) THEN CommandTo("source") /\ UNCHANGED plock ELSE CommandTo("fail") /\ plock' = "none"
    /\ UNCHANGED <<disk, clock, spent>>

CommandSource ==
    /\ cpc = "source" /\ git' = c.ver /\ CommandTo("clock")
    /\ UNCHANGED <<trees, kept, basis, locks, spent>>

CommandConfigLock ==
    /\ cpc = "clock" /\ clock = "none"
    /\ IF Current(c) THEN CommandTo("publish") /\ clock' = "command" /\ UNCHANGED plock
                     ELSE CommandTo("fail") /\ plock' = "none" /\ UNCHANGED clock
    /\ UNCHANGED <<disk, spent>>

(* ensurePreparedRepo publishes what HEAD is now, unless that is stored already. *)
Published == IF Latest > 0 /\ trees[Latest] = git THEN trees ELSE Append(trees, git)

CommandPublish ==
    /\ cpc = "publish" /\ trees' = Published /\ CommandTo("persist")
    /\ plock' = "none" /\ clock' = "none" /\ UNCHANGED <<git, kept, basis, spent>>

CommandFails ==
    /\ cpc \in {"lock", "check", "source", "clock", "publish"} /\ Happens /\ CommandTo("fail")
    /\ plock' = (IF cpc = "lock" THEN plock ELSE "none")
    /\ clock' = (IF cpc = "publish" THEN "none" ELSE clock) /\ UNCHANGED disk

(* persistSyncPrepareSuccess and persistSyncPrepareFailure *)
CommandPersist ==
    /\ cpc \in {"persist", "fail"} /\ cpc' = "idle" /\ c' = NoCommand
    /\ IF Same(row, c) THEN Stored(IF cpc = "persist" THEN "synced" ELSE "broken") ELSE UNCHANGED <<row, usable>>
    /\ UNCHANGED <<made, disk, locks, loop, rt, worker, op, spent>>

-----------------------------------------------------------------------------
(* The loop of the daemon: syncRepos *)

(* A pass of the loop forgets what it read when it is over. *)
LoopWith(pc, x) ==
    /\ dpc' = pc /\ d' = IF pc \in {"idle", "exit"} THEN NoPass ELSE x
    /\ UNCHANGED <<registry, usable, daemon, command>>
LoopTo(pc) == LoopWith(pc, d)

(* Variant: a repository that is gone stays mounted. *)
ListRegistered ==
    /\ dpc = "idle" /\ daemon = "up" /\ row # Absent
    /\ LoopWith("look", [NoPass EXCEPT !.row = row])
    /\ UNCHANGED <<disk, locks, rt, worker, op, spent>>

List ==
    /\ dpc = "idle" /\ daemon = "up" /\ (row # Absent \/ rt.up)
    /\ LoopWith(IF row = Absent THEN "unmount" ELSE "look", [NoPass EXCEPT !.row = row])
    /\ UNCHANGED <<disk, locks, rt, worker, op, spent>>

(* Is a worker busy?  Does the runtime have the version of the row? *)
Look ==
    /\ dpc = "look"
    /\ IF rt.up /\ rt.ver # d.row.ver
       THEN LoopWith("unmount", [d EXCEPT !.then = "mount"])
       ELSE LoopWith(IF rt.up THEN "restart" ELSE "mount", [d EXCEPT !.busy = wpc # "none"])
    /\ UNCHANGED <<disk, locks, rt, worker, op, spent>>

(* updateRuntimeRefresh *)
WithRefresh(off) == [rt EXCEPT !.off = off]

(* retryRuntimeMount; restartRunningPrepareIfCurrent reads the row again. *)
Restart ==
    /\ dpc = "restart"
    /\ \/ rt' = [WithRefresh(d.row.off) EXCEPT !.mounted = TRUE] /\ UNCHANGED spent
       \/ ~rt.mounted /\ rt' = WithRefresh(d.row.off) /\ Happens
    /\ IF d.row.state = "preparing" /\ row.state = "preparing"
       THEN LoopWith("judge", [d EXCEPT !.row = row])
       ELSE LoopTo("idle")
    /\ UNCHANGED <<disk, locks, worker, op>>

NewWorker(cfg) ==
    IF wpc = "none" THEN wpc' = "lock" /\ w' = [ver |-> cfg.ver, off |-> cfg.off, gen |-> 0, prev |-> 0]
                    ELSE UNCHANGED worker

Resets == rt' = [rt EXCEPT !.gate = "undecided", !.ver = d.row.ver, !.off = d.row.off]

Judge ==
    /\ dpc = "judge"
    /\ IF d.busy /\ Same(rt, d.row) THEN LoopTo("idle") /\ UNCHANGED <<rt, worker>>
       ELSE IF rt.active \/ ~Same(rt, d.row)
       THEN LoopWith("unmount", [d EXCEPT !.then = "mount"]) /\ UNCHANGED <<rt, worker>>
       ELSE LoopTo("idle") /\ Resets /\ NewWorker(d.row)
    /\ UNCHANGED <<disk, locks, op, spent>>

(* Variant: the gate is open if there is a generation. *)
MountAsyncOpen ==
    /\ dpc = "mount" /\ d.row.state \in {"preparing", "failed"}
    /\ rt' = [up |-> TRUE, ver |-> d.row.ver, off |-> d.row.off, mounted |-> TRUE, shown |-> Latest,
              gate |-> IF Latest > 0 THEN "ready" ELSE "undecided", active |-> FALSE]
    /\ IF d.row.state = "preparing" THEN NewWorker(d.row) ELSE UNCHANGED worker
    /\ LoopTo("idle") /\ UNCHANGED <<disk, locks, op, spent>>

(* mountAsyncRepo: a mount with a closed gate; startPrepareWorker *)
MountAsync ==
    /\ dpc = "mount" /\ d.row.state \in {"preparing", "failed"}
    /\ \E m \in BOOLEAN :
         /\ rt' = [up |-> TRUE, ver |-> d.row.ver, off |-> d.row.off, mounted |-> m, shown |-> Latest,
                   gate |-> IF d.row.state = "failed" THEN "failed" ELSE "undecided", active |-> FALSE]
         /\ IF m THEN UNCHANGED spent ELSE Happens
    /\ IF d.row.state = "preparing" THEN NewWorker(d.row) ELSE UNCHANGED worker
    /\ LoopTo("idle") /\ UNCHANGED <<disk, locks, op>>

(* A command prepares the repository itself; otherwise mountRepo. *)
MountBegin ==
    /\ dpc = "mount" /\ d.row.state \notin {"preparing", "failed"}
    /\ LoopTo(IF d.row.state = "sync_preparing" THEN "idle" ELSE "lock")
    /\ UNCHANGED <<disk, locks, rt, worker, op, spent>>

MountLock ==
    /\ dpc = "lock" /\ plock = "none" /\ plock' = "loop" /\ LoopTo("check")
    /\ UNCHANGED <<disk, clock, rt, worker, op, spent>>

(* Variant: the result of the preparation is not looked at. *)
MountCheckVersion ==
    /\ dpc = "check"
    /\ IF Current(d.row) THEN LoopWith("clock", [d EXCEPT !.row = row]) /\ UNCHANGED plock
                         ELSE LoopTo("idle") /\ plock' = "none"
    /\ UNCHANGED <<disk, clock, rt, worker, op, spent>>

MountCheck ==
    /\ dpc = "check"
    /\ IF Current(d.row) /\ row.state \notin {"sync_preparing", "broken"}
       THEN LoopWith("clock", [d EXCEPT !.row = row]) /\ UNCHANGED plock
       ELSE LoopTo("idle") /\ plock' = "none"
    /\ UNCHANGED <<disk, clock, rt, worker, op, spent>>

MountConfigLock ==
    /\ dpc = "clock" /\ clock = "none"
    /\ IF Current(d.row) THEN LoopTo("publish") /\ clock' = "loop" /\ UNCHANGED plock
                         ELSE LoopTo("idle") /\ plock' = "none" /\ UNCHANGED clock
    /\ UNCHANGED <<disk, rt, worker, op, spent>>

MountPublish ==
    /\ dpc = "publish" /\ trees' = Published /\ kept' = Len(trees')
    /\ plock' = "none" /\ clock' = "none" /\ LoopWith("start", [d EXCEPT !.gen = Len(trees')])
    /\ UNCHANGED <<git, basis, rt, worker, op, spent>>

(* ReconcileChecked, MountRepo, startRuntime, startRepoBackground: no gate *)
MountStart ==
    /\ dpc = "start" /\ basis' = d.gen
    /\ \E m \in BOOLEAN :
         /\ rt' = [up |-> TRUE, ver |-> d.row.ver, off |-> d.row.off, mounted |-> m, shown |-> d.gen,
                   gate |-> "none", active |-> TRUE]
         /\ IF m THEN UNCHANGED spent ELSE Happens
    /\ LoopTo("idle") /\ UNCHANGED <<git, trees, kept, locks, worker, op>>

MountFails ==
    /\ dpc \in {"lock", "check", "clock", "publish", "start"} /\ Happens /\ LoopTo("idle")
    /\ plock' = (IF plock = "loop" THEN "none" ELSE plock)
    /\ clock' = (IF clock = "loop" THEN "none" ELSE clock) /\ UNCHANGED <<disk, rt, worker, op>>

(* stopRuntime.  An operation that waits at the gate keeps the mount busy:    *)
(* Unmount fails, and the runtime is left as it was.                         *)
Detach ==
    /\ dpc = "unmount" /\ (op # "waiting" \/ "busy" \notin AnyTime \/ ~rt.mounted)
    /\ rt' = [rt EXCEPT !.mounted = FALSE] /\ LoopTo("cancel")
    /\ UNCHANGED <<disk, locks, worker, op, spent>>

UnmountFails ==
    /\ dpc = "unmount" /\ rt.mounted
    /\ IF op = "waiting" /\ "busy" \in AnyTime THEN UNCHANGED spent ELSE Happens
    /\ LoopTo(IF d.then = "exit" THEN "exit" ELSE "idle")
    /\ UNCHANGED <<disk, locks, rt, worker, op>>

(* The gate is decided: whoever waits is woken. *)
Wakes == op' = IF op = "waiting" THEN "woken" ELSE op

Cancel ==
    /\ dpc = "cancel" /\ LoopTo("drain")
    /\ IF rt.gate = "undecided" THEN rt' = [rt EXCEPT !.gate = "failed"] /\ Wakes ELSE UNCHANGED <<rt, op>>
    /\ UNCHANGED <<disk, locks, worker, spent>>

(* Variant: does not wait for the worker. *)
DrainAtOnce ==
    /\ dpc = "drain"
    /\ rt' = NoRuntime /\ LoopWith(d.then, [d EXCEPT !.then = "idle"]) /\ UNCHANGED <<disk, locks, worker, op, spent>>

(* workers.Wait, then the stores are closed and the runtime is forgotten. *)
Drain ==
    /\ dpc = "drain" /\ wpc = "none"
    /\ rt' = NoRuntime /\ LoopWith(d.then, [d EXCEPT !.then = "idle"]) /\ UNCHANGED <<disk, locks, worker, op, spent>>

Loop ==
    \/ List \/ Look \/ Restart \/ Judge \/ MountAsync \/ MountBegin \/ MountLock \/ MountCheck
    \/ MountConfigLock \/ MountPublish \/ MountStart \/ MountFails \/ Detach \/ UnmountFails
    \/ Cancel \/ Drain

-----------------------------------------------------------------------------
(* The worker: runPrepareAttempt *)

Canceled == daemon = "closing" \/ dpc = "drain"

WorkerWith(pc, x) ==
    /\ wpc' = pc /\ w' = IF pc = "none" THEN NoWork ELSE x
    /\ UNCHANGED <<made, loop, command>>
WorkerTo(pc) == WorkerWith(pc, w)
WorkerEnds   == WorkerTo("none") /\ plock' = IF plock = "worker" THEN "none" ELSE plock

WorkerLock ==
    /\ wpc = "lock" /\ plock = "none" /\ plock' = "worker" /\ WorkerTo("check")
    /\ UNCHANGED <<row, disk, usable, clock, rt, op, spent>>

(* Superseded: the attempt ends without a result. *)
WorkerCheck ==
    /\ wpc = "check"
    /\ IF Current(w) THEN WorkerTo("source") /\ UNCHANGED plock ELSE WorkerEnds
    /\ UNCHANGED <<row, disk, usable, clock, rt, op, spent>>

(* PrepareSource, or clone or fetch and PrepareFetchedBranch *)
WorkerSource ==
    /\ wpc = "source" /\ git' = w.ver /\ WorkerTo("clock")
    /\ UNCHANGED <<row, trees, kept, basis, usable, locks, rt, op, spent>>

WorkerConfigLock ==
    /\ wpc = "clock" /\ clock = "none"
    /\ IF Current(w) THEN WorkerTo("publish") /\ clock' = "worker" /\ UNCHANGED plock
                     ELSE WorkerEnds /\ UNCHANGED clock
    /\ UNCHANGED <<row, disk, usable, rt, op, spent>>

WorkerPublish ==
    /\ wpc = "publish" /\ trees' = Append(trees, w.ver)
    /\ clock' = "none" /\ WorkerWith("recheck", [w EXCEPT !.gen = Len(trees'), !.prev = Latest])
    /\ UNCHANGED <<row, git, kept, basis, usable, plock, rt, op, spent>>

(* recordAcquisition, and the row is read again. *)
WorkerRecheck ==
    /\ wpc = "recheck"
    /\ IF Same(row, w) THEN WorkerTo("ready") /\ UNCHANGED plock ELSE WorkerEnds
    /\ UNCHANGED <<row, disk, usable, clock, rt, op, spent>>

(* Variant: UpdatePrepareState, whatever the row is by now. *)
WorkerReadyUnchecked ==
    /\ wpc = "ready" /\ Stored("ready") /\ WorkerTo("match")
    /\ UNCHANGED <<disk, locks, rt, op, spent>>

(* setPrepareStateBeforeReadyGate *)
WorkerReady ==
    /\ wpc = "ready"
    /\ IF Same(row, w) THEN Stored("ready") /\ WorkerTo("match") ELSE WorkerTo("fail") /\ UNCHANGED <<row, usable>>
    /\ UNCHANGED <<disk, locks, rt, op, spent>>

(* completePreparedRuntime *)
WorkerCompares ==
    /\ \/ wpc = "match" /\ WorkerTo(IF Same(rt, w) THEN "current" ELSE "fail")
       \/ wpc = "current" /\ WorkerTo(IF Same(row, w) THEN "show" ELSE "fail")
       \/ wpc = "confirm" /\ WorkerTo(IF Same(row, w) THEN "activate" ELSE "fail")
    /\ UNCHANGED <<row, disk, usable, locks, rt, op, spent>>

WorkerShow ==
    /\ wpc = "show" /\ basis' = w.gen /\ rt' = [rt EXCEPT !.shown = w.gen] /\ WorkerTo("confirm")
    /\ UNCHANGED <<row, git, trees, kept, usable, locks, op, spent>>

WorkerActivate ==
    /\ wpc = "activate" /\ WorkerTo(IF Same(rt, w) THEN "open" ELSE "fail")
    /\ UNCHANGED <<row, disk, usable, locks, rt, op, spent>>

Stopping == dpc \in {"unmount", "cancel", "drain"}

(* MarkReady, startRepoBackground *)
WorkerOpen ==
    /\ wpc = "open" /\ Wakes /\ WorkerTo("prune")
    /\ rt' = [rt EXCEPT !.gate = "ready", !.active = @ \/ ~Stopping]
    /\ UNCHANGED <<row, disk, usable, locks, spent>>

Lesser(m, n) == IF m < n THEN m ELSE n
PrunedBelow(g) == IF g > kept THEN g ELSE kept

(* Under the config lock; a failure is only logged. *)
WorkerPrune ==
    /\ wpc = "prune" /\ clock = "none" /\ WorkerEnds
    /\ kept' \in {kept, IF Current(w) THEN PrunedBelow(Lesser(w.prev, w.gen - 1)) ELSE kept}
    /\ UNCHANGED <<row, git, trees, basis, usable, clock, rt, op, spent>>

Cancelable == {"lock", "check", "source", "clock", "publish", "recheck", "ready", "current", "show", "confirm"}

(* A step fails or the deadline passes; a canceled attempt leaves no result. *)
WorkerFails ==
    /\ wpc \in Cancelable
    /\ clock' = (IF clock = "worker" THEN "none" ELSE clock)
    /\ \/ Happens /\ WorkerTo("fail") /\ UNCHANGED plock
       \/ Canceled /\ WorkerEnds /\ UNCHANGED spent
    /\ UNCHANGED <<row, disk, usable, rt, op>>

(* fail(): the result is recorded if the row is still that of the attempt. *)
WorkerFail ==
    /\ wpc = "fail"
    /\ IF ~Canceled /\ Same(row, w) THEN Stored("failed") /\ WorkerTo("failGate") /\ UNCHANGED plock
                                    ELSE WorkerEnds /\ UNCHANGED <<row, usable>>
    /\ UNCHANGED <<disk, clock, rt, op, spent>>

(* Variant: only the row is told. *)
WorkerFailRow == wpc = "failGate" /\ WorkerEnds /\ UNCHANGED <<row, disk, usable, clock, rt, op, spent>>

WorkerFailGate ==
    /\ wpc = "failGate" /\ WorkerEnds
    /\ IF Same(rt, w) /\ rt.gate = "undecided"
       THEN rt' = [rt EXCEPT !.gate = "failed"] /\ Wakes ELSE UNCHANGED <<rt, op>>
    /\ UNCHANGED <<row, disk, usable, clock, spent>>

Worker ==
    \/ WorkerLock \/ WorkerCheck \/ WorkerSource \/ WorkerConfigLock \/ WorkerPublish \/ WorkerRecheck
    \/ WorkerReady \/ WorkerCompares \/ WorkerShow \/ WorkerActivate \/ WorkerOpen \/ WorkerPrune
    \/ WorkerFails \/ WorkerFail \/ WorkerFailGate

-----------------------------------------------------------------------------
(* File operations, and what stops processes *)

(* ReadyGate.Wait: an operation only stays if the gate is undecided. *)
Arrive ==
    /\ op = "out" /\ rt.mounted /\ rt.gate = "undecided" /\ op' = "waiting"
    /\ UNCHANGED <<registry, disk, usable, locks, loop, rt, worker, command, spent>>

(* The caller gives up: the context of the operation is done. *)
Interrupt ==
    /\ op = "waiting" /\ op' = "out"
    /\ UNCHANGED <<registry, disk, usable, locks, loop, rt, worker, command, spent>>

Leave ==
    /\ op = "woken" /\ op' = "out"
    /\ UNCHANGED <<registry, disk, usable, locks, loop, rt, worker, command, spent>>

(* Someone else unmounts: Join returns and the runtime is degraded. *)
Lost ==
    /\ rt.mounted /\ op # "waiting" /\ ~Stopping /\ Happens /\ rt' = [rt EXCEPT !.mounted = FALSE]
    /\ UNCHANGED <<registry, disk, usable, locks, loop, worker, command, op>>

(* The context of Start is canceled; Close stops the runtime. *)
Signal ==
    /\ daemon = "up" /\ dpc = "idle" /\ Happens /\ daemon' = "closing"
    /\ dpc' = (IF rt.up THEN "unmount" ELSE "exit") /\ d' = [NoPass EXCEPT !.then = "exit"]
    /\ UNCHANGED <<registry, disk, usable, locks, rt, worker, command, op>>

Gone(who) ==
    /\ plock' = IF plock \in who THEN "none" ELSE plock
    /\ clock' = IF clock \in who THEN "none" ELSE clock

(* The end of the process takes its locks and its mount with it. *)
Down ==
    /\ daemon' = "down" /\ dpc' = "off" /\ d' = NoPass /\ rt' = NoRuntime
    /\ wpc' = "none" /\ w' = NoWork /\ op' = "out" /\ Gone({"loop", "worker"})
    /\ UNCHANGED <<registry, disk, usable, command>>

Exit  == dpc = "exit" /\ Down /\ UNCHANGED spent
Crash == daemon # "down" /\ Happens /\ Down

Start ==
    /\ daemon = "down" /\ daemon' = "up" /\ dpc' = "idle"
    /\ UNCHANGED <<registry, disk, usable, locks, d, rt, worker, command, op, spent>>

CommandCrash ==
    /\ cpc # "idle" /\ Happens /\ cpc' = "idle" /\ c' = NoCommand /\ Gone({"command"})
    /\ UNCHANGED <<registry, disk, usable, loop, rt, worker, op>>

Command ==
    \/ BeginPrepare \/ CommandLock \/ CommandCheck \/ CommandSource \/ CommandConfigLock
    \/ CommandPublish \/ CommandFails \/ CommandPersist

User   == AddAsync \/ AddSync \/ RemoveRepo \/ SetRefresh \/ ReadForPrepare \/ Arrive \/ Interrupt
Faults == Lost \/ Signal \/ Crash \/ CommandCrash

Next == User \/ Command \/ Loop \/ Worker \/ Leave \/ Exit \/ Start \/ Faults

Spec == Init /\ [][Next]_vars

(* The loop has a ticker; whoever holds a lock gives it back; the daemon is   *)
(* started again by its supervisor.                                          *)
Fairness ==
    /\ WF_vars(Loop) /\ WF_vars(Worker) /\ WF_vars(Command)
    /\ WF_vars(Leave) /\ WF_vars(Exit) /\ WF_vars(Start)

FairSpec == Spec /\ Fairness

-----------------------------------------------------------------------------
(* Safety *)

(* A row says "ready", or a command has prepared it, only if the current       *)
(* generation was published for its own configuration: no attempt for an older *)
(* configuration publishes after that, though it may have been on its way when *)
(* the configuration changed (runPrepareAttempt, prepareRepo, mountRepo).      *)
ReadyIsOwnTree == row.state \in {"ready", "synced"} => Latest > 0 /\ trees[Latest] = row.ver

(* Operations pass the gate only to a tree of the configuration of the        *)
(* runtime, which is not pruned and which the overlay was reconciled with      *)
(* (completePreparedRuntime, mountRepo, PruneGenerations).                     *)
OpenShowsOwnTree ==
    rt.up /\ rt.gate \in {"ready", "none"} =>
        rt.shown >= kept /\ trees[rt.shown] = rt.ver /\ basis = rt.shown

(* Between taking the runtime's snapshot and its end, the worker never finds   *)
(* the stores of the runtime closed (snapshotForPrepare, rt.workers.Wait).     *)
NoUseAfterClose == wpc \notin {"none", "lock", "check", "source"} => rt.up /\ rt.ver = w.ver

(* The Registration of Registration.tla *)
Result ==
    CASE row.state = "absent" -> "none"
      [] row.state \in {"preparing", "sync_preparing"} -> "pending"
      [] row.state \in {"ready", "synced"} -> "usable"
      [] row.state \in {"failed", "broken"} -> "failed"

Served == IF rt.gate \in {"ready", "none"} THEN rt.ver ELSE 0

R == INSTANCE Registration WITH config <- row.ver, result <- Result, usable <- usable, served <- Served

(* Results are recorded for the current configuration only and served is what  *)
(* became usable (UpdatePrepareStateForConfig, BeginPrepare, ReadyGate).       *)
ImplementsRegistration == R!Spec

(* Liveness *)

(* Who waits at the gate is let in or refused, whatever happens to the         *)
(* configuration, the attempts and the daemon meanwhile (ReadyGate.Wait),      *)
(* outside of the windows "busy" and "refresh" of AnyTime.                     *)
GateDecides == op = "waiting" ~> op # "waiting"

(* In the end the mount is what the row says (syncRepos).                      *)
Settled ==
    /\ row.state \in {"absent", "sync_preparing", "broken"} => ~rt.up
    /\ row.state = "ready"  => rt.up /\ rt.ver = row.ver /\ rt.gate \in {"ready", "none"}
    /\ row.state = "synced" => rt.up /\ rt.ver = row.ver /\ rt.gate = "none"
    /\ row.state = "failed" => rt.up /\ rt.ver = row.ver /\ rt.gate = "failed"
    /\ row.state # "preparing" /\ (rt.up => rt.mounted)

Converges == <>[]Settled
=============================================================================
