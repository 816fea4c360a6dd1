----------------------------- MODULE HeadSync ------------------------------
(***************************************************************************)
(* How a mount follows HEAD: the watcher that polls HEAD and the branch it  *)
(* names, onHEADChanged that publishes the tree of the new commit as a      *)
(* generation of the snapshot, reconciles the overlay with it and shows it, *)
(* the retry after a failed reconcile, mountRepo after the daemon was down, *)
(* and the sync prepare of another process, which moves the branch and      *)
(* publishes as well.                                                      *)
(*                                                                         *)
(* The snapshot and the overlay are databases and survive the daemon.  What *)
(* the overlay holds is left to Overlay; here counts with which generation  *)
(* it was reconciled.                                                      *)
(***************************************************************************)
EXTENDS Naturals, FiniteSets

CONSTANTS
    Commits,
    Refs,         \* branches
    Branch,       \* the branch that is cloned and fetched
    Retries,      \* goroutines of scheduleHEADRetry (a bound)
    MayFail,      \* the calls that may fail: "resolve", "publish", "reconcile", "mount"
    Hidden,       \* what the user does between two polls: "return", "pack"
    MaxMoves,     \* commits, checkouts and packs of the user (a bound)
    MaxFailures,  \* failures of those calls (a bound)
    MaxDowns,     \* stops, crashes and remounts of the daemon (a bound)
    MaxPrepares,  \* sync prepares (a bound)
    TornReads     \* may another process publish between the reads of ReadState?

ASSUME ConstantsAssumption ==
    /\ Commits # {} /\ Refs # {} /\ Branch \in Refs /\ Commits \cap Refs = {}
    /\ MayFail \subseteq {"resolve", "publish", "reconcile", "mount"}
    /\ Hidden \subseteq {"return", "pack"}
    /\ {MaxMoves, MaxFailures, MaxDowns, MaxPrepares} \subseteq Nat
    /\ TornReads \in BOOLEAN

None == "none"
Watcher == "watcher"
ASSUME NoneAssumption == None \notin Commits \cup Refs \cup Retries /\ Watcher \notin Retries

VARIABLES
    head, tip,     \* the branch HEAD names, the commit of every branch
    loose,         \* branches with a file of their own; the others are packed
    nodes,         \* base_nodes: generation -> the commit whose tree it is
    stored,        \* repo_state: current_generation, head_oid, head_ref
    basis,         \* the generation the overlay was reconciled with last
    mount,         \* what mountRepo got to: "down", "resolved", "stored", "up"
    mounting,      \* headOID, headRef and gen of mountRepo
    shown,         \* generation of the Resolver
    state,         \* rt.state: CurrentHEADOID, CurrentHEADRef, SnapshotGeneration
    wpc,           \* where the watcher is
    seenHead, seenTip, \* Poller.prev
    awaited,       \* Poller.firstSeenChange
    changed,       \* did the poll see HEAD change?
    holder,        \* who holds headMu
    hpc, h,        \* where onHEADChanged is; its oid, ref and gen
    timers,        \* retries that are scheduled
    ppc, p,        \* where the sync prepare is; its oid and ref
    spent          \* what has been used of the bounds

gitVars     == <<head, tip, loose>>
dbVars      == <<nodes, stored, basis>>
mountVars   == <<mount, mounting>>
runVars     == <<shown, state>>
watchVars   == <<wpc, seenHead, seenTip, awaited, changed>>
handlerVars == <<holder, hpc, h>>
prepareVars == <<ppc, p>>

vars == <<gitVars, dbVars, mountVars, runVars, watchVars, handlerVars, timers, prepareVars, spent>>

At == [oid : Commits \cup {None}, ref : Refs \cup {None}, gen : Nat]
Nowhere == [oid |-> None, ref |-> None, gen |-> 0]

HandlerPCs == {"idle", "oid", "ref", "gen", "compare", "publish", "reconcile", "show", "record", "prune"}

TypeOK ==
    /\ head \in Refs /\ tip \in [Refs -> Commits] /\ loose \subseteq Refs
    /\ DOMAIN nodes \subseteq Nat \ {0} /\ \A g \in DOMAIN nodes : nodes[g] \in Commits
    /\ stored \in At /\ basis \in Nat
    /\ mount \in {"down", "resolved", "stored", "up"} /\ mounting \in At
    /\ shown \in Nat /\ state \in At
    /\ wpc \in {"off", "prime", "primeRef", "head", "ref", "handler"}
    /\ seenHead \in Refs \cup {None} /\ seenTip \in [Refs -> Commits \cup {None}]
    /\ awaited \subseteq Refs /\ changed \in BOOLEAN
    /\ holder \in Retries \cup {Watcher, None} /\ hpc \in HandlerPCs /\ h \in At
    /\ (holder = None) = (hpc = "idle")
    /\ timers \subseteq Retries /\ holder \notin timers
    /\ ppc \in {"idle", "head", "resolve", "publish"} /\ p \in At
    /\ spent \in [moves : 0 .. MaxMoves, failures : 0 .. MaxFailures,
                  downs : 0 .. MaxDowns, prepares : 0 .. MaxPrepares]

(* The daemon is down; nothing was published yet. *)
Init ==
    /\ head = Branch /\ loose = Refs
    /\ \E c \in Commits : tip = [r \in Refs |-> c]
    /\ nodes = <<>> /\ stored = Nowhere /\ basis = 0
    /\ mount = "down" /\ mounting = Nowhere
    /\ shown = 0 /\ state = Nowhere
    /\ wpc = "off" /\ seenHead = None /\ seenTip = [r \in Refs |-> None]
    /\ awaited = {} /\ changed = FALSE
    /\ holder = None /\ hpc = "idle" /\ h = Nowhere
    /\ timers = {} /\ ppc = "idle" /\ p = Nowhere
    /\ spent = [moves |-> 0, failures |-> 0, downs |-> 0, prepares |-> 0]

Fails(call) ==
    /\ call \in MayFail /\ spent.failures < MaxFailures
    /\ spent' = [spent EXCEPT !.failures = @ + 1]

-----------------------------------------------------------------------------
(* Git: the user moves HEAD; "git pack-refs" removes the file of a branch. *)

UserMove(h2, t2, l2) ==
    /\ spent.moves < MaxMoves /\ spent' = [spent EXCEPT !.moves = @ + 1]
    /\ head' = h2 /\ tip' = t2 /\ loose' = l2
    /\ UNCHANGED <<dbVars, mountVars, runVars, watchVars, handlerVars, timers, prepareVars>>

(* Unless "return" is Hidden, a file changes to what no poll has read last;   *)
(* unless "pack" is, a branch is packed once its commit has been polled.      *)
Switches(r)    == r # head /\ ("return" \in Hidden \/ r # seenHead)
Advances(r, c) == c # tip[r] /\ ("return" \in Hidden \/ c # seenTip[r])

Checkout(r) == Switches(r) /\ UserMove(r, tip, loose)
CommitOn(c) == Advances(head, c) /\ UserMove(head, [tip EXCEPT ![head] = c], loose \cup {head})

PackRefs ==
    /\ loose # {}
    /\ \/ "pack" \in Hidden \/ seenTip[head] = tip[head]
       \/ seenTip[head] = None /\ head \notin awaited
    /\ UserMove(head, tip, {})

-----------------------------------------------------------------------------
(* The snapshot *)

(* PublishGeneration: one transaction. *)
Published(at) ==
    LET g == stored.gen + 1 IN
    /\ nodes' = [n \in DOMAIN nodes \cup {g} |-> IF n = g THEN at.oid ELSE nodes[n]]
    /\ stored' = [at EXCEPT !.gen = g]

(* Variant: the commit is not compared. *)
MatchesRef(at) == stored.gen # 0 /\ stored.ref = at.ref

Matches(at) == stored.gen # 0 /\ stored.oid = at.oid /\ stored.ref = at.ref

(* Variant: the generation itself goes as well. *)
KeptAfter(N, g) == IF g <= 1 THEN N ELSE [n \in {m \in DOMAIN N : m > g} |-> N[n]]

(* PruneGenerations *)
KeptFrom(N, g) == IF g <= 1 THEN N ELSE [n \in {m \in DOMAIN N : m >= g} |-> N[n]]

Lesser(a, b) == IF a < b THEN a ELSE b

-----------------------------------------------------------------------------
(* Poller: Watch primes, calls the handler once, then polls *)

ReadHead ==
    /\ wpc \in {"prime", "head"}
    /\ changed' = (seenHead # None /\ seenHead # head)
    /\ seenHead' = head
    /\ wpc' = IF wpc = "prime" THEN "primeRef" ELSE "ref"
    /\ UNCHANGED <<gitVars, dbVars, mountVars, runVars, seenTip, awaited, handlerVars,
                   timers, prepareVars, spent>>

(* currentRefChanged of the branch HEAD names by now; after a change of HEAD  *)
(* it only primes.                                                           *)
ReadRef ==
    /\ wpc \in {"primeRef", "ref"}
    /\ IF head \notin loose
       THEN awaited' = awaited \cup {head} /\ seenTip' = seenTip
       ELSE awaited' = awaited \ {head} /\ seenTip' = [seenTip EXCEPT ![head] = tip[head]]
    /\ LET moved == /\ head \in loose
                    /\ IF seenTip[head] = None THEN head \in awaited ELSE seenTip[head] # tip[head]
       IN wpc' = IF wpc = "primeRef" \/ changed \/ moved THEN "handler" ELSE "head"
    /\ changed' = FALSE
    /\ UNCHANGED <<gitVars, dbVars, mountVars, runVars, seenHead, handlerVars,
                   timers, prepareVars, spent>>

-----------------------------------------------------------------------------
(* onHEADChanged, under headMu *)

Begin(t) ==
    /\ holder = None /\ mount = "up"
    /\ IF t = Watcher THEN wpc = "handler" ELSE t \in timers
    /\ holder' = t /\ hpc' = "oid" /\ timers' = timers \ {t}
    /\ UNCHANGED <<gitVars, dbVars, mountVars, runVars, watchVars, h, prepareVars, spent>>

(* headMu is released; the watcher goes on polling. *)
Done ==
    /\ holder' = None /\ hpc' = "idle" /\ h' = Nowhere
    /\ wpc' = IF holder = Watcher THEN "head" ELSE wpc
    /\ UNCHANGED <<seenHead, seenTip, awaited, changed>>

Goto(pc) == hpc' = pc /\ UNCHANGED <<holder, watchVars>>

(* ResolveHEAD: git rev-parse, then git symbolic-ref. *)
ResolveOID ==
    /\ hpc = "oid"
    /\ \/ Goto("ref") /\ h' = [h EXCEPT !.oid = tip[head]] /\ spent' = spent
       \/ Fails("resolve") /\ Done
    /\ UNCHANGED <<gitVars, dbVars, mountVars, runVars, timers, prepareVars>>

(* Only the name of the branch is new: UpdateHEADRef. *)
ResolveRef ==
    /\ hpc = "ref"
    /\ IF h.oid # state.oid
       THEN Goto("gen") /\ h' = [h EXCEPT !.ref = head] /\ UNCHANGED <<stored, state>>
       ELSE /\ Done
            /\ IF head = state.ref THEN UNCHANGED <<stored, state>>
               ELSE stored' = [stored EXCEPT !.ref = head] /\ state' = [state EXCEPT !.ref = head]
    /\ UNCHANGED <<gitVars, nodes, basis, mountVars, shown, timers, prepareVars, spent>>

(* ReadState: current_generation first, then head_oid and head_ref. *)
ReadGeneration ==
    /\ hpc = "gen"
    /\ Goto("compare") /\ h' = [h EXCEPT !.gen = stored.gen]
    /\ UNCHANGED <<gitVars, dbVars, mountVars, runVars, timers, prepareVars, spent>>

Compare ==
    /\ hpc = "compare"
    /\ Goto(IF Matches(h) THEN "reconcile" ELSE "publish") /\ h' = h
    /\ UNCHANGED <<gitVars, dbVars, mountVars, runVars, timers, prepareVars, spent>>

Publish ==
    /\ hpc = "publish"
    /\ \/ Published(h) /\ Goto("reconcile") /\ h' = [h EXCEPT !.gen = stored.gen + 1] /\ spent' = spent
       \/ Fails("publish") /\ Done /\ UNCHANGED <<nodes, stored>>
    /\ UNCHANGED <<gitVars, basis, mountVars, runVars, timers, prepareVars>>

(* Variant: the failure is only logged. *)
ScheduleNothing == UNCHANGED timers

(* scheduleHEADRetry *)
Schedule == \E r \in Retries \ (timers \cup {holder}) : timers' = timers \cup {r}

(* Resolver.Transition: file operations wait, the overlay is reconciled *)
(* in one transaction, and the new generation is shown.                 *)
Reconcile ==
    /\ hpc = "reconcile"
    /\ \/ basis' = h.gen /\ Goto("show") /\ h' = h /\ timers' = timers /\ spent' = spent
       \/ Fails("reconcile") /\ Schedule /\ Done /\ basis' = basis
    /\ UNCHANGED <<gitVars, nodes, stored, mountVars, runVars, prepareVars>>

Show ==
    /\ hpc = "show"
    /\ shown' = h.gen /\ Goto("record") /\ h' = h
    /\ UNCHANGED <<gitVars, dbVars, mountVars, state, timers, prepareVars, spent>>

(* setHeadState; h.gen is the generation shown before from here on. *)
Record ==
    /\ hpc = "record"
    /\ state' = h /\ Goto("prune") /\ h' = [h EXCEPT !.gen = state.gen]
    /\ UNCHANGED <<gitVars, dbVars, mountVars, shown, timers, prepareVars, spent>>

Prune ==
    /\ hpc = "prune"
    /\ nodes' = KeptFrom(nodes, Lesser(h.gen, shown - 1)) /\ Done
    /\ UNCHANGED <<gitVars, stored, basis, mountVars, runVars, timers, prepareVars, spent>>

-----------------------------------------------------------------------------
(* mountRepo *)

(* The prepare lock keeps mountRepo and sync prepare apart up to here. *)
MountResolve ==
    /\ mount = "down" /\ ppc = "idle"
    /\ mount' = "resolved" /\ mounting' = [oid |-> tip[head], ref |-> head, gen |-> 0]
    /\ UNCHANGED <<gitVars, dbVars, runVars, watchVars, handlerVars, timers, prepareVars, spent>>

(* ensurePreparedRepo under the config lock: publish unless stored, prune. *)
MountPublish ==
    /\ mount = "resolved"
    /\ \/ /\ mount' = "stored" /\ spent' = spent
          /\ IF Matches(mounting)
             THEN /\ mounting' = stored /\ stored' = stored
                  /\ nodes' = KeptFrom(nodes, stored.gen)
             ELSE LET g == stored.gen + 1 IN
                  /\ mounting' = [mounting EXCEPT !.gen = g] /\ stored' = mounting'
                  /\ nodes' = [n \in {g} |-> mounting.oid]
       \/ /\ Fails("mount") /\ mount' = "down"
          /\ mounting' = Nowhere /\ UNCHANGED <<nodes, stored>>
    /\ UNCHANGED <<gitVars, basis, runVars, watchVars, handlerVars, timers, prepareVars>>

(* Variant: a generation that was stored has been reconciled with. *)
MountReconcileNew ==
    /\ mount = "stored"
    /\ mount' = "up" /\ mounting' = Nowhere /\ spent' = spent
    /\ basis' = IF basis = 0 THEN mounting.gen ELSE basis
    /\ shown' = mounting.gen /\ state' = mounting /\ wpc' = "prime"
    /\ UNCHANGED <<gitVars, nodes, stored, seenHead, seenTip, awaited, changed, handlerVars,
                   timers, prepareVars>>

(* The overlay is reconciled, the Resolver is made, the watcher starts. *)
MountReconcile ==
    /\ mount = "stored"
    /\ mounting' = Nowhere
    /\ \/ /\ basis' = mounting.gen /\ mount' = "up"
          /\ shown' = mounting.gen /\ state' = mounting /\ wpc' = "prime" /\ spent' = spent
       \/ /\ Fails("mount") /\ mount' = "down"
          /\ UNCHANGED <<basis, runVars, wpc>>
    /\ UNCHANGED <<gitVars, nodes, stored, seenHead, seenTip, awaited, changed, handlerVars,
                   timers, prepareVars>>

(* The daemon crashes, is stopped, or remounts.  A reconcile that has been   *)
(* committed stays, whatever was only in memory is gone.                     *)
Down ==
    /\ mount # "down"
    /\ spent.downs < MaxDowns /\ spent' = [spent EXCEPT !.downs = @ + 1]
    /\ mount' = "down" /\ mounting' = Nowhere
    /\ shown' = 0 /\ state' = Nowhere
    /\ wpc' = "off" /\ seenHead' = None /\ seenTip' = [r \in Refs |-> None]
    /\ awaited' = {} /\ changed' = FALSE
    /\ holder' = None /\ hpc' = "idle" /\ h' = Nowhere /\ timers' = {}
    /\ UNCHANGED <<gitVars, dbVars, prepareVars>>

-----------------------------------------------------------------------------
(* prepareRepo in another process, under the prepare lock *)

(* PrepareFetchedBranch: git update-ref, then git symbolic-ref HEAD. *)
PrepareFetch(c) ==
    /\ ppc = "idle" /\ mount # "resolved"
    /\ spent.prepares < MaxPrepares /\ spent' = [spent EXCEPT !.prepares = @ + 1]
    /\ \/ c = tip[Branch] /\ UNCHANGED <<tip, loose>>
       \/ Advances(Branch, c) /\ tip' = [tip EXCEPT ![Branch] = c] /\ loose' = loose \cup {Branch}
    /\ ppc' = "head"
    /\ UNCHANGED <<head, dbVars, mountVars, runVars, watchVars, handlerVars, timers, p>>

PrepareHead ==
    /\ ppc = "head"
    /\ head = Branch \/ Switches(Branch)
    /\ head' = Branch /\ ppc' = "resolve"
    /\ UNCHANGED <<tip, loose, dbVars, mountVars, runVars, watchVars, handlerVars, timers, p, spent>>

PrepareResolve ==
    /\ ppc = "resolve"
    /\ ppc' = "publish" /\ p' = [oid |-> tip[head], ref |-> head, gen |-> 0]
    /\ UNCHANGED <<gitVars, dbVars, mountVars, runVars, watchVars, handlerVars, timers, spent>>

(* Variant: superseded generations are removed here as well. *)
PreparePublishPrunes ==
    /\ ppc = "publish"
    /\ IF Matches(p) THEN nodes' = KeptFrom(nodes, stored.gen) /\ stored' = stored
       ELSE LET g == stored.gen + 1 IN
            stored' = [p EXCEPT !.gen = g] /\ nodes' = [n \in {g} |-> p.oid]
    /\ ppc' = "idle" /\ p' = Nowhere
    /\ UNCHANGED <<gitVars, basis, mountVars, runVars, watchVars, handlerVars, timers, spent>>

(* ensurePreparedRepo without pruning: the daemon may show an older one. *)
PreparePublish ==
    /\ ppc = "publish"
    /\ TornReads \/ hpc # "compare"
    /\ IF Matches(p) THEN UNCHANGED <<nodes, stored>> ELSE Published(p)
    /\ ppc' = "idle" /\ p' = Nowhere
    /\ UNCHANGED <<gitVars, basis, mountVars, runVars, watchVars, handlerVars, timers, spent>>

-----------------------------------------------------------------------------
Poll    == ReadHead \/ ReadRef
Handler == \/ ResolveOID \/ ResolveRef \/ ReadGeneration \/ Compare \/ Publish
           \/ Reconcile \/ Show \/ Record \/ Prune
Mount   == MountResolve \/ MountPublish \/ MountReconcile
Prepare == PrepareHead \/ PrepareResolve \/ PreparePublish

Next ==
    \/ \E r \in Refs : Checkout(r)
    \/ \E c \in Commits : CommitOn(c) \/ PrepareFetch(c)
    \/ PackRefs
    \/ Poll \/ Handler \/ Mount \/ Prepare \/ Down
    \/ \E t \in Retries \cup {Watcher} : Begin(t)

Spec == Init /\ [][Next]_vars

(* Goroutines and processes run, timers fire, and syncRepos mounts what is    *)
(* not mounted; failures end because MaxFailures bounds them.                *)
Fairness ==
    /\ WF_vars(Poll) /\ WF_vars(Handler) /\ WF_vars(Mount) /\ WF_vars(Prepare)
    /\ WF_vars(\E t \in Retries \cup {Watcher} : Begin(t))

FairSpec == Spec /\ Fairness

-----------------------------------------------------------------------------
(* Properties *)

Up == mount = "up"

(* What is shown is there: neither PruneGenerations of the daemon nor a      *)
(* prepare by another process removes the nodes of the generation that file  *)
(* operations look up (Resolver.Generation).                                *)
ShownIsPublished == Up => shown \in DOMAIN nodes

(* File operations, which wait for Resolver.Transition, find the overlay     *)
(* reconciled with the very generation the Resolver shows, also after a      *)
(* crash between PublishGeneration and SetGeneration or a failed reconcile.  *)
ReconciledWithShown == Up /\ hpc # "show" => basis = shown

(* Outside of onHEADChanged the commit that status reports is the one whose  *)
(* tree is shown (setHeadState, SetGeneration).                              *)
ReportedIsShown ==
    Up /\ holder = None => /\ state.gen = shown
                           /\ shown \in DOMAIN nodes => state.oid = nodes[shown]

(* The generation repo_state names is complete and of the commit it names,   *)
(* so that a mount may use it without building the tree (ReadState).         *)
StoredIsPublished ==
    stored.gen # 0 => stored.gen \in DOMAIN nodes /\ nodes[stored.gen] = stored.oid

(* Once the user leaves HEAD alone, the mount comes to show and report it    *)
(* (Watch, onHEADChanged, scheduleHEADRetry, syncRepos).                     *)
FollowsHead ==
    \A c \in Commits, r \in Refs :
       <>[](head = r /\ tip[r] = c)
         => <>[](Up /\ shown \in DOMAIN nodes /\ nodes[shown] = c /\ state.ref = r)
=============================================================================
