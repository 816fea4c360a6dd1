# ArtifactFS in TLA+

ArtifactFS mounts a git repository as a file system without cloning its blobs.
A daemon keeps one runtime per repository: a snapshot of the tree of the commit
HEAD names, a writable overlay with the user's changes, a hydrator that fetches
blobs when they are read, and a watcher that follows HEAD. These modules model
the parts of it in which the order of events matters.

## The system

| Part | State | Operations | What is hard | What makes it correct |
|------|-------|------------|--------------|-----------------------|
| `internal/hydrator` | priority queue, active keys, wait lists, verifications under way, verified cache files | `EnsureHydrated`, `OpenHydrated`, `ReadBlob`, `EnqueueBatch`, workers' `step`, `Start`, `Stop` | goroutines between critical sections of one mutex; a one-slot channel; cache files that are replaced | one fetch per blob, nobody waits for nothing, nothing queued is forgotten, only verified bytes are read |
| `internal/gitstore`, batch pool | processes that are idle, in use, being started; size; closed | `acquire`, `release`, `discard`, `closeAll`, `setMaxSize`; `invalidateBatchPool`, `Close` | processes start and die outside of the lock; the pool is closed or resized meanwhile | exclusive use, answers in step with requests, no process left behind, no lost wakeup |
| `internal/overlay` and `fusefs` Engine, Resolver | an entry per changed path; the generation shown | writes, creates, removes, renames of files and directories, chmod, utimes; reconciling with a new commit | long sequences of legal operations | the merged view is the tree the user made |
| `internal/watcher`, `internal/snapshot`, `daemon` (HEAD changes, mounting) | last values polled; generations and which is current; what is shown and reported | poll, `onHEADChanged`, its retry, `mountRepo`, sync `prepare` of another process | reads that are not atomic, crashes between two databases, two processes | what is shown is complete and reconciled with, and is HEAD in the end |
| `daemon`, asynchronous preparation, with `registry` and the ready gate | config version, prepare state, prepare workers, gate | `syncRepos`, `mountAsyncRepo`, `runPrepareAttempt`, `supersedePrepare` | configuration changes and restarts while a worker runs; two file locks; a process that ends anywhere | a result is recorded for the configuration it is of; what is served belongs to it; whoever waits at the gate gets an answer |
| `gitstore`, clone and source acquisition | the git directory (branches, HEAD, index) and temporary ones; the receipt in the registry | `CloneBlobless`, `PrepareSource`, `installGitDir`, `PrepareFetchedBranch`, `RecordAcquisition` | crashes between two renames, rollbacks that fail, a user who stages and commits meanwhile | no commit of the user on the branch of a directory of their own is lost, and no directory but for the verified one; index, branch and HEAD agree; the required commit is the one checked out |
| `fusefs`, inodes and handles | inode table, paths, handles with pinned files | lookup, forget, open, read, write, truncate, release, rename, unlink | races of renames, removals, writes and HEAD changes with open files | a handle stays with its file and shows what was written to it |
| `auth`, `cli`, `logging`, `meta`, `model` | none of their own | redaction, flags, printing, opening databases | string processing | not modelled |

Interaction: the FUSE adapter calls the Engine, which asks the Resolver for the
merged view and the hydrator for blobs; hydrator workers call the store, which
uses the pool; the watcher calls `onHEADChanged`, which publishes to the
snapshot, reconciles the overlay and moves the Resolver while file operations
wait (`Resolver.Transition`). Other processes (`artifact-fs prepare`, git)
meet the daemon in the git directory, the snapshot database and the registry,
and share two file locks per repository with it (`withRepoPrepareLock`, `withRepoConfigLock`).

## Modules

**Hydrator** (`Hydrator.tla`, `MCHydrator.tla`, `HydratorProofs.tla`). One
action is one critical section of `Service.mu`, one file system access or one
channel operation. `pc` says where a goroutine is; callers run
`OpenHydrated` (Openers), `ReadBlob` (Readers) or `EnqueueBatch` (Prefetchers),
`Workers` run `step`, `Verifiers` are the goroutines of `runVerification`. A cache file
is its identity (device, inode, times: what `sameFileInfo` compares) and whether its
bytes are those of the object. `prio` is the queue (0: not queued), `wait` and
`verifying` are the two `inflight` maps. `Replace` and `Remove` change the cache
directory from outside; `TamperWindows` names two moments at which the code takes
a file it has not looked at for a good one, and in which `Replace` is kept out of
the passing runs: between a verdict and its delivery (a finding, below) and
between a fetch's rename and the `os.Stat` that records it.

**BatchPool** (`BatchPool.tla`, `MCBatchPool.tla`, `BatchPoolProofs.tla`). An operation is a goroutine in
`BlobToCache` or `ReadBlob`; it acquires a process, uses it, and gives it back or
discards it and tries once more. Starting, killing and using a process happen
outside of the lock and are actions of their own. `behind` holds the processes with output
nobody has read. The store side makes pools, takes them out and closes them.

**Overlay** and **Namespace** (`MCOverlay.tla`, `OverlayProofs.tla`). `base` is the tree of the generation
shown, `entries` the table `overlay_entries`; an object id stands for the content it is
the hash of. One action is one operation of the mount: `handleOps`, the kernel's
directory locks and the transition lock keep operations on a path apart. The
operators follow the code's functions: `Promoted` is `EnsureCopyOnWriteFrom`,
`RenamedInOverlay` is `Rename`, `MovedTree` is `renameTreeLocked`, `Reconciled` is
`ReconcileChecked`. `Namespace` is what a mount promises: a tree that an operation
changes exactly where it says, and that keeps the user's work when HEAD moves.
`Overlay` implements it under the refinement mapping `tree <- Merged, touched <- Held(entries)`.
`Commit` is a change of HEAD to a commit that records what the user has at some paths.

**HeadSync** (`HeadSync.tla`, `HeadSyncProofs.tla`). The watcher's reads of HEAD and of a branch, the
steps of `onHEADChanged` (two git commands, the reading of the stored state, publish,
reconcile, show, record, prune), the retry, `mountRepo` in three steps (lock
of the preparation, lock of the configuration, the rest), a sync prepare in another
process, and `Down`, a crash or stop at any point. `nodes` and `stored` are the
snapshot database, `basis` is the generation the overlay was reconciled with last.

**Prepare** and **Registration** (proofs in `PrepareProofs.tla`). How one registered repository becomes a mount.
`row` is its row of the registry; `dpc` is where the loop of the daemon is
(`syncRepos`: one action per row it reads, lock it takes or state it changes), `wpc` where the
prepare worker is (`runPrepareAttempt`, phase by phase, then `completePreparedRuntime` comparison by
comparison), `cpc` where an `artifact-fs add-repo` or `prepare` is that does the work itself.
`plock` and `clock` are the two file locks. `rt` is the runtime in `Service.running` with its gate;
`trees` are the generations, each known by the configuration it was published for.
`op` is a file operation at the gate. `Crash`, `CommandCrash`, `Signal` and `Lost` end a process, a
command, the context of the daemon (between two passes) and the mount; every step that does I/O may fail.
`SetRefresh` is the odd one out: it changes the row with neither a lock nor a new version.
`Registration` is what registering promises: a result belongs to one configuration, and files
are served only of a configuration that became usable, and withdrawn before others are. A configuration that
failed may still become usable: once the refresh setting has changed twice, the attempt of before and the one after
are both of the same version, and the one succeeds where the other failed. `Prepare`
implements it under `config <- row.ver, result <- Result, served <- Served`; `usable` is a history variable.
Recording the acquisition (`RecordAcquisition`) is part of `WorkerRecheck` here and an action of its own in `Source`.

**Source** (`Source.tla`, `MCSource.tla`; proofs in `SourceProofs.tla` and `SourceIndexProofs.tla`). The git directory of one repository, of one of four `kind`s: cloned for a
branch, fetched for another ref (HEAD is detached), made by the user ("prepared"), or acquired for a required
commit ("fixed"). A directory is its branches and HEAD, its index and what it was acquired for; a tree gives every
path a content, and `Merges` and `Merged` are the two-tree `git read-tree -m`. `pc` is where the
preparation is: `Clone` to `Rename` are `cloneBlobless`, `Fetch` is `fetchRef`, `Resolve` to
`RestoreIndex` are `PrepareFetchedBranch`, `Receipt` to `Record` are `PrepareSource`, `installGitDir` and
`RecordAcquisition`. `add-repo` and `prepare` without `--async` go through `prepareRepo` also where a commit is required: a
directory that is there is fetched into first, and its index, branch and HEAD are moved (`Begin`, `FetchDone`); then `PrepareSource` looks
for the receipt. The worker and the mount skip the fetch, and so does `Begin` in its last disjunct. `a.want` and `a.read` are
the `RequiredCommit` and `AcquiredCommit` of the row as the attempt read it; the row may change meanwhile, and `Record` stands
for the comparison of versions that every way through ends with (`configVersionIsCurrent`, `RecordAcquisition`). Every call may fail, and a call that fails because the context ended makes
every later one fail too, the rollback's included. The user stages, commits and switches branches, and upstream
moves on by new commits (that it is reset to an earlier one is left out, which is why `IndexAlone` can compare what was fetched last).

**Handles** (`MCHandles.tla`, `HandlesProofs.tla`). The inode table and the open files of `ArtifactFuse` in one directory. A step is a
critical section of `handleOps`, of `fs.mu` or of one engine call; `th` says where a kernel thread is. Operations other
than `Unlink` and `Rename` share `handleOps`, so that a read that fetches a blob, an open that has not registered its
descriptor and a write whose second close is still to come interleave, and `Transition` (another generation, with
`Overlay.Reconcile`) comes between. `cache` is a handle's descriptor: a blob, good for one
generation, or a backing file. `ids` and `of` say which file a path, inode, handle or backing file
is of; they are history variables that only properties read.

## Runs

| Run | Checks | Size and time |
|-----|--------|------|
| `MCHydrator.cfg` | types, `VerifiedIsGenuine`, `OpenedIsGenuine`, `NoPriorityInversion`, `WorkNotForgotten` | one blob, one goroutine of each kind, one replacement or removal of the cache file; 4.3 million states, 100 s |
| `HydratorLive.cfg` | `OneFetchPerKey`, `WaitersServed`, and that calls return and `Stop` ends | one blob, one opener, two workers; 60 s |
| `MCBatchPool.cfg` | types, `ExclusiveUse`, `AnswersInOrder`, `NoOrphanProcess`, `NoLostWakeup`, `GrowsWithinMax` | two operations, two processes, two pools one after the other, sizes 1 and 2; 50 s |
| `BatchPoolLive.cfg` | `CloseEndsAll` | two operations that compete for a pool of one; 5 s |
| `MCOverlay.cfg` | `ImplementsNamespace` | six paths (two files, two directories with a file each), two commits and every commit the user can make, three operations and one change of HEAD in any order; 160,000 states, 65 s |
| `HeadSync.cfg` | `ShownIsPublished`, `ReconciledWithShown`, `ReportedIsShown`, `StoredIsPublished`, `FollowsHead` | two commits, two branches, two acts of the user, one prepare, one failure, one crash; 1.3 million states, 80 s |
| `Prepare.cfg` | types, `ReadyIsOwnTree`, `OpenShowsOwnTree`, `NoUseAfterClose`, `ImplementsRegistration`, `GateDecides`, `Converges` | two configurations, one change of the refresh setting, one failure, stop or crash; 606,000 states, 90 s |
| `MCSource.cfg` | types, `CommitsKept`, `StagedIsUsers`, `RefusedForCause`, `FixedIsRequired`, `ReceiptIsTrue`, `DirKept` | two paths, two commits upstream, three steps of the user and four preparations (two and three where a commit is required), two tries each, two failures or crashes; 7.6 million states, 130 s |
| `MCHandles.cfg` | types, `KeepsItsFile`, `ShowsWrites`, `InodeIsFile` | two paths, two open files, two threads, two inodes, one write, two unlinks or renames, two generations; 1.2 million states, 60 s |

Bounds. One blob suffices for the hydrator's checks of files because blobs share
nothing but the queue; what two blobs do to each other there is proved for any
number. In the pool two operations and a size of one or two give every
combination of waiting, starting, using and discarding; the second pool is the
one made after an invalidation. Three operations of the overlay reach every kind
of entry and every chain of two renames over one, and the change of HEAD may come
before, between or after them. Two commits and branches let HEAD differ from what
is shown, stored and polled. Two configurations in `Prepare` are the one an
attempt is of and the one that replaces it; one failure or crash suffices for each
step to be the one that fails, and a second one only repeats the state after it.
Of the four preparations of `Source` one sets up the directory, one is cut off, one finds what
it left and is rolled back, and one finds what that one made of it (with three the last window
of the table's `"user"` row does not come up). A directory with a required commit needs three: one acquires it, one fetches another
commit into it, one is refused for that; its state space is the largest, and its bounds are its own (`MCEdits`, `MCAttempts`). The two paths
are alike in everything the module says, so that `SYMMETRY` over them is sound: no property of the run is about fairness. Two pushes tell "upstream moved" from "moved again". In `Handles` two threads and two handles give every race of two operations on
one file, and two renames the exchange of two names; with two writes there are 8.3 million
states, also without an error (5 minutes). `CHECK_DEADLOCK FALSE` is in each configuration: a
hydrator and a pool that have been stopped, and a user whose bounded operations
are spent, rightly do nothing. The type invariants of `Overlay` and `HeadSync` are
proved and not among the runs.

Fairness. Goroutines that can run, run (weak fairness). In `Hydrator` the heap
serves keys of one priority in order of age, so a key offered again and again is
taken (strong fairness of `Pop`); git answers or is cut off after two minutes. `VerifyOnce`
is strongly fair only because `Verifiers` bounds the goroutines. The live run has
one opener: two that are cancelled in turn for ever may make each other start
over in the loop of `OpenHydrated`. In `BatchPool` an operation's context ends at last
(the hydrator's two minutes). In `HeadSync` processes run, timers fire, and `syncRepos`
mounts what is not mounted; failures end since `MaxFailures` bounds them. Nothing
makes a user act, a process die or the daemon stop. In `Prepare` the loop of the
daemon has a ticker, the worker and a command go on as long as they can (their git commands and locks have
deadlines; whoever holds a lock gives it back or dies with it), an operation that was
woken leaves, and a daemon that ended is started again by its supervisor. Nothing makes a
command begin, an operation arrive or a call fail.

### What the code does otherwise than it says

Three runs show a disagreement; each checks one property on the smallest setting.

* `OverlayRecreated.cfg`: `rm f`, make `f` anew, `mv f g`: the commit's `f` is back (`OldNameIsFree`).
* `HeadSyncPacked.cfg`: the branch is packed before the poll that would see its new
  commit, which is never shown (`FollowsHead`).
* `PrepareRefresh.cfg`: `refresh set` between the row's "ready" and the opening of the gate; the attempt gives
  up and nothing decides the gate again (`GateDecides`).

The passing runs leave these situations out by named constants (`RecreatedMoves`, `"pack"` in `Hidden`,
`"refresh"` in `AnyTime`) and hold for everything else. Other windows are left out in
the same way; to see one, put it into the constant and check the property:

| Constant | What happens | Property violated |
|----------|--------------|-------------------|
| `Hydrator`: `TamperWindows` | a file of the cache is replaced between a verdict and its delivery, or between a fetch's rename and the `os.Stat` that records it | `VerifiedIsGenuine` |
| `Overlay`: `RenamedMovesOn` | `mv a b` over a tracked `b`, `mv b c`, HEAD moves: `b` is back | `RemovedStaysRemoved` |
| `Overlay`: `Conflicts` | HEAD moves to a commit without the directory of a changed file | `WorkStaysVisible` |
| `Overlay`: `Conflicts` | a renamed file is renamed on out of a directory, which is removed; HEAD moves to a commit with files at both names, and `mkdir` of the directory brings back the one in it (four operations) | `ImplementsNamespace` |
| `HeadSync`: `"publish"` or `"resolve"` in `MayFail` | publishing the new tree, or resolving the new HEAD, fails once and is never tried again | `FollowsHead` |
| `HeadSync`: `"return"` in `Hidden` | HEAD goes away and comes back between two polls | `FollowsHead` |
| `HeadSync`: `TornReads` | a prepare publishes between the three reads of `ReadState` | `ReportedIsShown` |
| `Prepare`: `"busy"` in `AnyTime` | an operation that waits at the gate makes `Unmount` fail | `GateDecides` |
| `Source`: `"user"` in `AnyTime` | the user commits or switches branches between read-tree and update-ref; or commits what a preparation that was cut off left in the index, after the next one read HEAD | `StagedIsUsers` |
| `Source`: `"push"` in `AnyTime` | a preparation ends after read-tree, and upstream changes the path again | `RefusedForCause` |
| `Source`: `"half"` in `AnyTime` | of a rollback only the second half works | `StagedIsUsers` |
| `Source`: without `IndexAlone` | a preparation fetches another commit into a directory with a required one and moves its index there; the receipt moves only HEAD back (`gitstore.go:387`). It succeeds, with that commit's tree staged; when upstream changes the path again, the next one is refused. Nothing fails and the user does nothing | `StagedIsUsers`, `RefusedForCause` |
| `Handles`: `"head"` in `AnyTime` | HEAD moves in the middle of an unlink or rename | `KeepsItsFile` |
| `Handles`: `"open"` in `AnyTime` | a write ends between an open's descriptor and its registration | `ShowsWrites` |
| `Handles`: `"reuse"` in `AnyTime` | a file appears at a path before the kernel forgot the removed one | `InodeIsFile` |
| `Handles`: `"gone"` in `AnyTime` | a commit removes a file that is open | `KeepsItsFile` |

In `Conflicts` the overlay and the new commit disagree on what is a directory.

## Proofs

`HydratorProofs` proves for every number of blobs, callers, workers and priorities
(assuming only `ConstantsAssumption`: the kinds of goroutines are disjoint, there are finitely
many blobs, speculative priorities are below `ExplicitRead`):

* `TypeCorrect`: `Spec => []TypeOK`;
* `OneFetchPerKeyHolds`, `WaitersServedHolds`, `NoPriorityInversionHolds`, from one
  inductive invariant `QueueInv`. None of the three is inductive alone: a worker may
  take a queued key because no queued key is active, a caller that joins a list
  relies on the list being served, and `Start` relies on workers being off before;
* `WorkNotForgottenHolds`, the bookkeeping of the one-slot channel `workReady`: queued
  work has a signal in the channel, a signal owed by whoever queued it, or a worker
  that drains. It uses `TypeOK` and `WorkersStarted`;
* `VerifiedIsGenuineHolds` and `OpenedIsGenuineHolds`, if `TamperWindows = {}` (with either window both runs and
  reading show them false), from `GenuineInv`. Three things have to be followed together: a thread's answer
  (`Answered`, `ListsInv`: it is delivered only to who takes it, and never twice), the file a thread
  has in hand (`Vouched`), and the verdicts under way (`VerdictsInv`). The step that matters is the one that
  joins a verification: its verdict is about the file that was there when it began, and counts because no
  file of the cache ever gets the identity of another.

Each proof has one step per action; the lemmas `QuietStep`, `LetGoStep`, `OwnersStay`, `MovesOn`, `QuietThread`,
`ThreadStep` state what a step that touches only part of the state preserves.

`BatchPoolProofs` proves for any number of operations, processes and pools and all sizes they are set to, from the
module's `ConstantsAssumption`:

* `TypeCorrect`, with `HoldInv` (which process an operation has at which step, and that the starts a pool counts are
  those under way);
* `ExclusiveUseHolds`, from `OwnerInv`: pools share no process, what is free is not in use, and a process in use is in
  its pool's set exactly as long as that pool is open. The last part is what a start outside of the lock may break:
  it ends in a pool that was closed meanwhile;
* `AnswersInOrderHolds`, from `OrderInv`: a process with unread output is never free nor in the hands of an operation
  that goes on with it;
* `NoOrphanProcessHolds`, `NoLostWakeupHolds`, inductive with the above; `GrowsWithinMaxHolds`, an action property,
  from `CountInv` (the starts under way are finitely many, so that cardinalities can be compared).

`PrepareProofs` proves for any number of configurations, changes of the refresh setting and faults, and whatever is in
`AnyTime`, from `ConstantsAssumption`: `TypeCorrect`, `ReadyIsOwnTreeHolds`, `OpenShowsOwnTreeHolds`,
`NoUseAfterCloseHolds` and `RefinementHolds` (every step of `Prepare` is one of `Registration` or a stutter).
No lock is held when a result is written, and the loop decides by a row it read long before; why results are of
their configuration all the same is this invariant:

* `Vouched` says that a positive result of the row's configuration is recorded, or will be by whoever has
  published and not yet recorded. `VouchedInv`: then git directory and last generation are of that configuration;
  `HolderInv`: then whoever holds the prepare lock to publish works for it too. The second keeps the first, as an
  older attempt is refused at the check it makes after taking the lock, and `GitInv` makes it true;
* `RowInv`, `KindInv`, `ReadInv` bound how wrong a row read earlier may be: it may be of an old version, but
  if it is of the present one it is of the same kind (sync or async), and a "ready" of it is still true where the loop acts on it;
* `LockInv` and `RuntimeInv` tie locks, runtime and gate to the steps; `UsableInv` says that whatever is shown was
  usable once; `KeptInv` and `ShownInv` that what is to be shown was not pruned and is what the overlay was reconciled with.

`HeadSyncProofs` proves `TypeCorrect`, `ShownIsPublishedHolds`, `StoredIsPublishedHolds` and `ReconciledWithShownHolds`
for all constants that satisfy `ConstantsAssumption` and `NoneAssumption` (hidden changes of HEAD and torn reads
included), and `ReportedIsShownHolds` if `~TornReads`. `WorkInv` says which step has a commit or a generation
in hand, `GenerationInv` that those in hand, stored or shown are still there (pruning spares the last, and the
one stored is the last), `BasisInv` that overlay and Resolver differ only between the two steps that set them. `ReportInv`
follows generation and commit through the handler together, which a torn read takes apart.

`SourceProofs` proves for every set of paths and every bound on pushes, steps of the user, attempts and
failures, from its `ConstantsAssumption` alone, and whatever is in `AnyTime`:

* `TypeCorrect`: `Spec => []TypeOK`. Commits only get more, so that a directory stays one
  (`DirsGrow`); the rest is that every ref that is moved or put back was read from one;
* `DirKeptHolds`, from `PlaceInv`, `ReceiptInv` and `FixedInv`: where a directory is renamed into place there is one to rename,
  acquired for the commit of the attempt and with HEAD there, which is what makes the step that drops the backup safe. What
  only the old directory has (the user's commits on it) is dropped in that step, as in `installGitDir`;
* `ReceiptIsTrueHolds`, from `ReceiptInv`: while the old directory is aside, the receipt is still that of the
  backup, so that putting it back makes the row true again;
* `FixedIsRequiredHolds`, from `FixedInv`: the commit the attempt is for is followed from the row through the
  candidate into its place, as the row may change in between;
* `CommitsKeptHolds`, from `CommitsInv`: the branch is moved only to a commit that has the value
  `update-ref` compares with in its history, and where a rollback is owed the value to go back to has all
  the user's commits in its own. It needs that histories are closed (`Closed`): what a commit
  has in its past brings its own past along.

The lemmas `UserStep` and `InPlace` say once what the steps of the user and of a branch's preparation leave alone.

`SourceIndexProofs` proves `StagedIsUsersHolds` and `RefusedForCauseHolds` for the same sets and bounds, if `AnyTime = {}`
(each of its members breaks one of them, see the table). `EndInv`, how a preparation ends, follows from two invariants:

* `BranchInv`, of a directory whose branch is prepared. `SeenInv`: at any time, whatever was cut off, a path of the index has what
  HEAD has, what the user wrote, or what upstream has; that suffices for the next read-tree to succeed. `ReadInv`: HEAD
  may move after it was read, but only to what the user has staged. `MovedInv`: once the index is moved, the tree a rollback
  takes it back to is that of HEAD once the branch is back too (`BackTree`), or the context is dead and nothing goes back;
* `OwnInv`, of a directory acquired for a commit, as long as what is fetched into it is that commit: index and every branch
  have its content or the user's, so that moving only HEAD (`Receipt`) leaves nothing of another commit staged. `FetchInv` says the same of what a
  fetch of it moves the branch and the index to, and back to. Once another commit was fetched, upstream does not go back to the first (`Alone`),
  and nothing more is claimed of what is staged: that is the exception `IndexAlone` in both properties.

`BranchInv` found a window the run had not reached: an index left by a preparation that was cut off, committed by the
user after the next preparation read HEAD. It takes four preparations to be seen, which the run now has, and
`Commit` leaves it out under the same name as the other (`"user"`).

`HandlesProofs` proves for every finite set of paths, any open files and threads and every bound on inodes, writes,
renames and generations: `TypeCorrect`, whatever is in `AnyTime`, and, if `AnyTime = {}` (what each member breaks is
in the table), `KeepsItsFileHolds`, `InodeIsFileHolds` and `ShowsWritesHolds`. They rest on `FilesInv`:

* `AloneInv`: while an unlink or rename is under way every other thread is idle, which is what `handleOps` is for;
  `NameInv` says how far the one that is alone has come: the file is promoted, then its open files pinned, and nobody
  can have opened it since;
* `StepInv`: the open file that a read has in hand keeps its path, and the path that an open or a write has in hand is still there;
* `FileInv` and `OpenInv`: a backing file is the file of its path, and an open file has its own, by its path as long as it
  is attached and by its descriptor from then on.

`InodesInv` is `InodeIsFile` and its converse, that a path's inode is at that path and not stale; the lemma
`Appears` says how a path can come to be in sight. `WritesInv` is what `ShowsWrites` needs: of a path that was written
and that no write is closing, descriptors are of its backing file or of no use (`UpToDate`); so is what an open is
about to register (`OpensUpToDate`); and a read whose number is still good holds no descriptor of the
present generation (`KeepsUpToDate`). The first and the last say nothing between
a write and its second `closeCachedFilesForPath`, which makes them true again (`ClosingCloses`); `WrittenBy` says how else a path comes to be written. The lemmas `Frames`, `Quiet` and those named for the
effect of an action are what the step of each invariant is made of.

`OverlayProofs` proves for every set of paths closed under prefixes, of any depth, all trees, contents and numbers of
operations and of changes of HEAD, from `ConstantsAssumption`:

* `TypeCorrect`, in the windows of the table too;
* without the three windows (with each of them it is false), `ImplementsNamespaceHolds`: `Overlay` refines `Namespace`;
  and `EntriesKeepTreeHolds`, `OldNameIsFreeHolds`, `RemovedStaysRemovedHolds` and `WorkStaysVisibleHolds`.

The first part is about paths: `PrefixOrder` (prefixes of one path are comparable), `AncestorsOf`, `ChildOf`, and
`RebaseUnder` and `RebaseAncestor`, which say that a path keeps its place in a tree that moves. The second says of each entry an operation makes what it
shows (`Sound`, `Shown`). `OverlayInv` then has two parts besides types. `Whole`: what an entry or the commit shows has directories
above it; so the view is what the entries show (`MergedShows`), and an operation on one path changes one path.
`CoversNothing`: a whiteout that names another path than its own covers no node of the commit, which is why
`ReconcileChecked` may drop every such whiteout. The lemmas `PutStep`, `EraseStep`, `FileMoved`, `MovedTreeIs` and
`LaidIs` are the steps of the kinds of operation. `LaidIs` needs no `Agrees`: a change of HEAD always does
at a path what `Namespace` says; only `Whole` may be lost, and with it the operations that come after.

`Whole` found a window the run is too small for: the last `Conflicts` row of the table takes four operations. `Agrees` said that
below what is no directory whiteouts hide what the commit has, and now says that they still do when `ReconcileChecked` is through.

Only model-checked: all liveness, which is out of the reach of the prover, as is `ENABLED`.

## Not modelled, and the plan

The modules were written in the order of what can go wrong worst. To come:

1. directories in `Handles`, and its composition with `Overlay`, which has the full set of entries;
2. the refresh loop and the batches of size updates.

Not modelled of the parts that are: in `Prepare` the back-off between attempts to mount, the drain
timeout of `Close` (30 s), repositories that are switched off, remount and unmount by hand, two
daemons on one root, and `Signal` in the middle of a pass; in `Source`
credentials, configuring the remote, `ValidatePreparedGitDir`, which only reads, and a required commit of a ref that is no
branch (fetched like the kind `"ref"`); in `Handles`
directories and their handles, the synthetic `.git` file, symbolic links, changes of mode and
times, and `SyncFile`.

Left out for good: `auth` (redaction of text), `cli`, `logging`, `meta`, the parsing of git's
output, and attributes (times, sizes, owners) no property is about.
