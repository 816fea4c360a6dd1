--------------------------- MODULE HeadSyncProofs ---------------------------
(***************************************************************************)
(* HeadSync, for any commits, branches and retries and any number of moves, *)
(* failures, stops and prepares: types, and the four safety invariants of   *)
(* the model.  That what is reported is what is shown needs that no other   *)
(* process publishes between the reads of ReadState; the others do not.     *)
(***************************************************************************)
EXTENDS HeadSync, TLAPS

-----------------------------------------------------------------------------
(* The inductive invariant *)

(* onHEADChanged runs in a mounted runtime only, and whoever publishes has a *)
(* commit in hand.                                                           *)
WorkInv ==
    /\ holder # None => mount = "up"
    /\ hpc \notin {"idle", "oid"} => h.oid \in Commits
    /\ mount = "resolved" => mounting.oid \in Commits
    /\ ppc = "publish" => p.oid \in Commits

(* Generations are numbered upwards, and the one repo_state names, the one   *)
(* that is shown, and those that mountRepo and onHEADChanged are about to    *)
(* show are all there.                                                       *)
GenerationInv ==
    /\ StoredIsPublished /\ \A g \in DOMAIN nodes : g <= stored.gen
    /\ mount = "stored" => mounting.gen \in DOMAIN nodes /\ nodes[mounting.gen] = mounting.oid
    /\ Up => shown \in DOMAIN nodes
    /\ hpc \in {"compare", "reconcile", "show"} => h.gen \in DOMAIN nodes

(* The overlay is ahead of the Resolver only while the latter is set. *)
BasisInv ==
    /\ ReconciledWithShown
    /\ hpc = "show" => basis = h.gen

(* What is reported lags behind what is shown only until it is recorded, and *)
(* what is at hand from the comparison on is a generation with its commit.   *)
ReportInv ==
    /\ Up /\ hpc # "record" => state.gen = shown /\ state.oid = nodes[shown]
    /\ hpc = "record" => h.gen = shown
    /\ hpc \in {"reconcile", "show", "record"} => h.oid = nodes[h.gen]
    /\ hpc = "compare" => h.gen = stored.gen

(* The inductive invariant; ReportInv is added where nobody publishes between *)
(* the reads of ReadState.                                                    *)
Inv == TypeOK /\ WorkInv /\ GenerationInv /\ BasisInv

-----------------------------------------------------------------------------
(* Frames *)

(* The user, the poller, and the prepare before it publishes. *)
Aside ==
    \/ \E r \in Refs : Checkout(r)
    \/ \E c \in Commits : CommitOn(c) \/ PrepareFetch(c)
    \/ PackRefs \/ Poll \/ PrepareHead \/ PrepareResolve
    \/ UNCHANGED vars

(* They leave generations, mount, runtime and handler alone. *)
LEMMA AsideLeaves == Aside => UNCHANGED <<dbVars, mountVars, runVars, handlerVars>>
<1>1. ASSUME NEW r \in Refs, Checkout(r)
      PROVE  UNCHANGED <<dbVars, mountVars, runVars, handlerVars>>
  BY <1>1 DEF Checkout, UserMove
<1>2. ASSUME NEW c \in Commits, CommitOn(c) \/ PrepareFetch(c)
      PROVE  UNCHANGED <<dbVars, mountVars, runVars, handlerVars>>
  BY <1>2 DEF CommitOn, PrepareFetch, UserMove
<1>3. CASE PackRefs \/ Poll
  BY <1>3 DEF PackRefs, UserMove, Poll, ReadHead, ReadRef
<1>4. CASE PrepareHead \/ PrepareResolve \/ UNCHANGED vars
  BY <1>4 DEF PrepareHead, PrepareResolve, vars
<1> QED
  BY <1>1, <1>2, <1>3, <1>4 DEF Aside

(* PruneGenerations removes the older ones. *)
LEMMA KeptNodes ==
    ASSUME NEW N, NEW g \in Nat
    PROVE  /\ DOMAIN KeptFrom(N, g) \subseteq DOMAIN N
           /\ \A m \in DOMAIN KeptFrom(N, g) : KeptFrom(N, g)[m] = N[m]
           /\ \A m \in DOMAIN N : m >= g => m \in DOMAIN KeptFrom(N, g)
BY DEF KeptFrom

(* PublishGeneration adds one with the next number. *)
LEMMA PublishedNodes ==
    ASSUME NEW at \in At, stored \in At, Published(at)
    PROVE  /\ DOMAIN nodes' = DOMAIN nodes \cup {stored.gen + 1}
           /\ nodes'[stored.gen + 1] = at.oid
           /\ \A m \in DOMAIN nodes : m # stored.gen + 1 => nodes'[m] = nodes[m]
           /\ stored' \in At
           /\ stored'.gen = stored.gen + 1 /\ stored'.oid = at.oid /\ stored'.ref = at.ref
BY DEF Published, At


-----------------------------------------------------------------------------
(* Types *)

(* The types of the databases and of what mount and runtime remember. *)
DataTypes ==
    /\ DOMAIN nodes \subseteq Nat \ {0} /\ \A g \in DOMAIN nodes : nodes[g] \in Commits
    /\ stored \in At /\ basis \in Nat
    /\ mount \in {"down", "resolved", "stored", "up"} /\ mounting \in At
    /\ shown \in Nat /\ state \in At /\ h \in At

(* The types of HEAD, branches, poller and prepare, and of what runs. *)
RunTypes ==
    /\ head \in Refs /\ tip \in [Refs -> Commits] /\ loose \subseteq Refs
    /\ wpc \in {"off", "prime", "primeRef", "head", "ref", "handler"}
    /\ seenHead \in Refs \cup {None} /\ seenTip \in [Refs -> Commits \cup {None}]
    /\ awaited \subseteq Refs /\ changed \in BOOLEAN
    /\ holder \in Retries \cup {Watcher, None} /\ hpc \in HandlerPCs
    /\ (holder = None) = (hpc = "idle")
    /\ timers \subseteq Retries /\ holder \notin timers
    /\ ppc \in {"idle", "head", "resolve", "publish"} /\ p \in At
    /\ spent \in [moves : 0 .. MaxMoves, failures : 0 .. MaxFailures,
                  downs : 0 .. MaxDowns, prepares : 0 .. MaxPrepares]

(* A place and a commit with a branch is one of At. *)
LEMMA AtTypes ==
    /\ Nowhere \in At
    /\ TypeOK => /\ [oid |-> tip[head], ref |-> head, gen |-> 0] \in At
                 /\ [h EXCEPT !.oid = tip[head]] \in At /\ [h EXCEPT !.ref = head] \in At
                 /\ [stored EXCEPT !.ref = head] \in At /\ [state EXCEPT !.ref = head] \in At
                 /\ \A n \in Nat : [h EXCEPT !.gen = n] \in At
                 /\ \A n \in Nat : [mounting EXCEPT !.gen = n] \in At
BY DEF At, Nowhere, TypeOK

(* Steps keep the types of what they publish, mount, show and report. *)
LEMMA DataNext == TypeOK /\ WorkInv /\ [Next]_vars => DataTypes'
<1> SUFFICES ASSUME TypeOK, WorkInv, [Next]_vars
             PROVE  DataTypes'
  OBVIOUS
<1> USE DEF dbVars, mountVars, runVars, handlerVars
<1>0. DataTypes
  BY DEF TypeOK, DataTypes
<1>1. CASE Aside
  BY <1>0, <1>1, AsideLeaves DEF DataTypes
<1>2. ASSUME NEW t \in Retries \cup {Watcher}, Begin(t)
      PROVE  DataTypes'
  BY <1>0, <1>2 DEF Begin, DataTypes
<1>3. CASE ResolveOID
  <2>1. h' \in {[h EXCEPT !.oid = tip[head]], Nowhere}
    BY <1>3 DEF ResolveOID, Done
  <2> QED
    BY <1>0, <1>3, <2>1, AtTypes DEF ResolveOID, DataTypes
<1>4. CASE ResolveRef
  <2>1. /\ h' \in {[h EXCEPT !.ref = head], Nowhere}
        /\ stored' \in {stored, [stored EXCEPT !.ref = head]}
        /\ state' \in {state, [state EXCEPT !.ref = head]}
    BY <1>4 DEF ResolveRef, Done
  <2> QED
    BY <1>0, <1>4, <2>1, AtTypes DEF ResolveRef, DataTypes
<1>5. CASE ReadGeneration
  <2>1. stored.gen \in Nat
    BY <1>0 DEF DataTypes, At
  <2> QED
    BY <1>0, <1>5, <2>1, AtTypes DEF ReadGeneration, DataTypes
<1>6. CASE Compare
  BY <1>0, <1>6 DEF Compare, DataTypes
<1>7. CASE Publish
  <2>1. stored.gen + 1 \in Nat /\ stored.gen \in Nat /\ h \in At
    BY <1>0 DEF DataTypes, At
  <2>2. CASE Published(h) /\ h' = [h EXCEPT !.gen = stored.gen + 1]
    <3>1. h.oid \in Commits /\ stored \in At
      BY <1>0, <1>7 DEF Publish, WorkInv, DataTypes
    <3>2. /\ DOMAIN nodes' = DOMAIN nodes \cup {stored.gen + 1}
          /\ nodes'[stored.gen + 1] = h.oid
          /\ \A m \in DOMAIN nodes : m # stored.gen + 1 => nodes'[m] = nodes[m]
          /\ stored' \in At
      BY <2>1, <2>2, <3>1, PublishedNodes
    <3>3. DOMAIN nodes' \subseteq Nat \ {0} /\ \A g \in DOMAIN nodes' : nodes'[g] \in Commits
      BY <1>0, <2>1, <3>1, <3>2 DEF DataTypes
    <3>4. h' \in At
      BY <2>1, <2>2, AtTypes
    <3> QED
      BY <1>0, <1>7, <3>2, <3>3, <3>4 DEF Publish, DataTypes
  <2>3. CASE UNCHANGED <<nodes, stored>> /\ h' = Nowhere
    BY <1>0, <1>7, <2>3, AtTypes DEF Publish, DataTypes
  <2> QED
    BY <1>7, <2>2, <2>3 DEF Publish, Done
<1>8. CASE Reconcile
  <2>1. h.gen \in Nat
    BY <1>0 DEF DataTypes, At
  <2> QED
    BY <1>0, <1>8, <2>1, AtTypes DEF Reconcile, Done, DataTypes
<1>9. CASE Show
  BY <1>0, <1>9 DEF Show, DataTypes, At
<1>10. CASE Record
  <2>1. state.gen \in Nat
    BY <1>0 DEF DataTypes, At
  <2> QED
    BY <1>0, <1>10, <2>1, AtTypes DEF Record, DataTypes
<1>11. CASE Prune
  <2>1. Lesser(h.gen, shown - 1) <= 1 \/ Lesser(h.gen, shown - 1) \in Nat
    BY <1>0 DEF DataTypes, At, Lesser
  <2>2. /\ DOMAIN nodes' \subseteq DOMAIN nodes
        /\ \A m \in DOMAIN nodes' : nodes'[m] = nodes[m]
    BY <1>11, <2>1, KeptNodes DEF Prune, KeptFrom
  <2> QED
    BY <1>0, <1>11, <2>2, AtTypes DEF Prune, Done, DataTypes
<1>12. CASE MountResolve
  BY <1>0, <1>12, AtTypes DEF MountResolve, DataTypes
<1>13. CASE MountPublish
  <2>1. stored.gen \in Nat /\ stored.gen + 1 \in Nat \ {0} /\ mounting.oid \in Commits
    BY <1>0, <1>13 DEF DataTypes, At, MountPublish, WorkInv
  <2>2. CASE /\ mounting' = stored /\ stored' = stored /\ nodes' = KeptFrom(nodes, stored.gen)
             /\ mount' = "stored"
    BY <1>0, <1>13, <2>1, <2>2, KeptNodes DEF MountPublish, DataTypes
  <2>3. CASE /\ mounting' = [mounting EXCEPT !.gen = stored.gen + 1] /\ stored' = mounting'
             /\ nodes' = [n \in {stored.gen + 1} |-> mounting.oid] /\ mount' = "stored"
    BY <1>0, <1>13, <2>1, <2>3, AtTypes DEF MountPublish, DataTypes
  <2>4. CASE mount' = "down" /\ mounting' = Nowhere /\ UNCHANGED <<nodes, stored>>
    BY <1>0, <1>13, <2>4, AtTypes DEF MountPublish, DataTypes
  <2> QED
    BY <1>13, <2>2, <2>3, <2>4 DEF MountPublish
<1>14. CASE MountReconcile
  <2>1. mounting.gen \in Nat
    BY <1>0 DEF DataTypes, At
  <2> QED
    BY <1>0, <1>14, <2>1, AtTypes DEF MountReconcile, DataTypes
<1>15. CASE PreparePublish
  <2>1. p \in At /\ p.oid \in Commits /\ stored.gen + 1 \in Nat \ {0}
    BY <1>0, <1>15 DEF DataTypes, At, PreparePublish, WorkInv, TypeOK
  <2>2. CASE Published(p)
    BY <1>0, <1>15, <2>1, <2>2, PublishedNodes DEF PreparePublish, DataTypes
  <2>3. CASE UNCHANGED <<nodes, stored>>
    BY <1>0, <1>15, <2>3 DEF PreparePublish, DataTypes
  <2> QED
    BY <1>15, <2>2, <2>3 DEF PreparePublish
<1>16. CASE Down
  BY <1>0, <1>16, AtTypes DEF Down, DataTypes
<1> QED
  BY <1>1, <1>2, <1>3, <1>4, <1>5, <1>6, <1>7, <1>8, <1>9, <1>10, <1>11, <1>12, <1>13, <1>14,
     <1>15, <1>16 DEF Aside, Next, Handler, Mount, Prepare

(* A call that fails takes one from the bound on failures. *)
LEMMA SpentTypes ==
    TypeOK => \A call : Fails(call) =>
        spent' \in [moves : 0 .. MaxMoves, failures : 0 .. MaxFailures,
                    downs : 0 .. MaxDowns, prepares : 0 .. MaxPrepares]
BY ConstantsAssumption DEF TypeOK, Fails

(* Steps keep the types of HEAD, of what runs, and of the bounds. *)
LEMMA RunNext == TypeOK /\ [Next]_vars => RunTypes'
<1> SUFFICES ASSUME TypeOK, [Next]_vars
             PROVE  RunTypes'
  OBVIOUS
<1> USE DEF gitVars, watchVars, handlerVars, prepareVars
<1>0. RunTypes
  BY DEF TypeOK, RunTypes
<1>1. Watcher # None /\ Watcher \notin Retries /\ None \notin Retries
  BY NoneAssumption DEF Watcher, None
<1>2. ASSUME NEW h2 \in Refs, NEW t2 \in [Refs -> Commits], NEW l2 \in SUBSET Refs,
             UserMove(h2, t2, l2)
      PROVE  RunTypes'
  <2>1. spent' \in [moves : 0 .. MaxMoves, failures : 0 .. MaxFailures,
                    downs : 0 .. MaxDowns, prepares : 0 .. MaxPrepares]
    BY <1>0, <1>2, ConstantsAssumption DEF UserMove, RunTypes
  <2> QED
    BY <1>0, <1>2, <2>1 DEF UserMove, RunTypes
<1>3. ASSUME NEW r \in Refs, Checkout(r)
      PROVE  RunTypes'
  BY <1>0, <1>2, <1>3 DEF Checkout, RunTypes
<1>4. ASSUME NEW c \in Commits, CommitOn(c)
      PROVE  RunTypes'
  <2>1. [tip EXCEPT ![head] = c] \in [Refs -> Commits] /\ loose \cup {head} \in SUBSET Refs
    BY <1>0 DEF RunTypes
  <2> QED
    BY <1>0, <1>2, <1>4, <2>1 DEF CommitOn, RunTypes
<1>5. CASE PackRefs
  BY <1>0, <1>2, <1>5 DEF PackRefs, RunTypes
<1>6. ASSUME NEW c \in Commits, PrepareFetch(c)
      PROVE  RunTypes'
  <2>1. /\ tip' \in [Refs -> Commits] /\ loose' \subseteq Refs
        /\ UNCHANGED <<head, watchVars, handlerVars, timers, p>> /\ ppc' = "head"
    BY <1>0, <1>6, ConstantsAssumption DEF PrepareFetch, RunTypes
  <2>2. spent' \in [moves : 0 .. MaxMoves, failures : 0 .. MaxFailures,
                    downs : 0 .. MaxDowns, prepares : 0 .. MaxPrepares]
    BY <1>0, <1>6, ConstantsAssumption DEF PrepareFetch, RunTypes
  <2> QED
    BY <1>0, <2>1, <2>2 DEF RunTypes
<1>7. CASE ReadHead
  BY <1>0, <1>7 DEF ReadHead, RunTypes
<1>8. CASE ReadRef
  <2>1. awaited' \subseteq Refs /\ seenTip' \in [Refs -> Commits \cup {None}]
    BY <1>0, <1>8 DEF ReadRef, RunTypes
  <2>2. wpc' \in {"handler", "head"} /\ changed' = FALSE
    BY <1>8 DEF ReadRef
  <2> QED
    BY <1>0, <1>8, <2>1, <2>2 DEF ReadRef, RunTypes
<1>9. CASE PrepareHead \/ PrepareResolve
  <2>1. CASE PrepareHead
    BY <1>0, <2>1, ConstantsAssumption DEF PrepareHead, RunTypes
  <2>2. CASE PrepareResolve
    BY <1>0, <2>2, AtTypes DEF PrepareResolve, RunTypes
  <2> QED
    BY <1>9, <2>1, <2>2
<1>10. ASSUME NEW t \in Retries \cup {Watcher}, Begin(t)
       PROVE  RunTypes'
  <2>1. /\ UNCHANGED <<gitVars, watchVars, prepareVars, spent>> /\ hpc' = "oid"
        /\ holder' = t /\ timers' = timers \ {t}
    BY <1>10 DEF Begin
  <2> QED
    BY <1>0, <1>1, <2>1 DEF RunTypes, HandlerPCs
<1>11. ASSUME hpc # "idle", UNCHANGED <<gitVars, prepareVars>>,
              spent' \in [moves : 0 .. MaxMoves, failures : 0 .. MaxFailures,
                          downs : 0 .. MaxDowns, prepares : 0 .. MaxPrepares],
              \/ Done /\ timers' \subseteq Retries
              \/ timers' = timers /\ \E pc \in HandlerPCs \ {"idle"} : Goto(pc)
       PROVE  RunTypes'
  <2>1. hpc # "idle" => holder # None
    BY <1>0 DEF RunTypes
  <2>2. CASE Done /\ timers' \subseteq Retries
    BY <1>0, <1>1, <1>11, <2>2 DEF Done, RunTypes, HandlerPCs
  <2> QED
    BY <1>0, <1>1, <1>11, <2>1, <2>2 DEF Goto, RunTypes
<1>12. CASE Handler
  <2>1. spent \in [moves : 0 .. MaxMoves, failures : 0 .. MaxFailures,
                   downs : 0 .. MaxDowns, prepares : 0 .. MaxPrepares] /\ timers \subseteq Retries
    BY <1>0 DEF RunTypes
  <2>2. hpc # "idle" /\ UNCHANGED <<gitVars, prepareVars>>
    BY <1>12 DEF Handler, ResolveOID, ResolveRef, ReadGeneration, Compare, Publish, Reconcile,
       Show, Record, Prune
  <2>3. spent' \in [moves : 0 .. MaxMoves, failures : 0 .. MaxFailures,
                    downs : 0 .. MaxDowns, prepares : 0 .. MaxPrepares]
    BY <1>12, <2>1, SpentTypes DEF Handler, ResolveOID, ResolveRef, ReadGeneration, Compare,
       Publish, Reconcile, Show, Record, Prune
  <2>4. \/ Done /\ timers' \subseteq Retries
        \/ timers' = timers /\ \E pc \in HandlerPCs \ {"idle"} : Goto(pc)
    BY <1>12, <2>1 DEF Handler, ResolveOID, ResolveRef, ReadGeneration, Compare, Publish,
       Reconcile, Show, Record, Prune, Schedule, HandlerPCs
  <2> QED
    BY <1>11, <2>2, <2>3, <2>4
<1>13. CASE Mount \/ PreparePublish
  <2>1. spent' \in [moves : 0 .. MaxMoves, failures : 0 .. MaxFailures,
                    downs : 0 .. MaxDowns, prepares : 0 .. MaxPrepares]
    BY <1>0, <1>13, SpentTypes DEF Mount, MountResolve, MountPublish, MountReconcile,
       PreparePublish, RunTypes
  <2>2. /\ UNCHANGED <<gitVars, seenHead, seenTip, awaited, changed, handlerVars, timers>>
        /\ wpc' \in {wpc, "prime"} /\ ppc' \in {ppc, "idle"} /\ p' \in {p, Nowhere}
    BY <1>13 DEF Mount, MountResolve, MountPublish, MountReconcile, PreparePublish
  <2> QED
    BY <1>0, <2>1, <2>2, AtTypes DEF RunTypes
<1>14. CASE Down
  <2>1. spent' \in [moves : 0 .. MaxMoves, failures : 0 .. MaxFailures,
                    downs : 0 .. MaxDowns, prepares : 0 .. MaxPrepares]
    BY <1>0, <1>14, ConstantsAssumption DEF Down, RunTypes
  <2> QED
    BY <1>0, <1>1, <1>14, <2>1 DEF Down, RunTypes, HandlerPCs
<1>15. CASE UNCHANGED vars
  BY <1>0, <1>15 DEF vars, RunTypes
<1> QED
  BY <1>3, <1>4, <1>5, <1>6, <1>7, <1>8, <1>9, <1>10, <1>12, <1>13, <1>14, <1>15
     DEF Next, Poll, Prepare

(* Steps keep the types. *)
LEMMA TypeNext == TypeOK /\ WorkInv /\ [Next]_vars => TypeOK'
BY DataNext, RunNext DEF DataTypes, RunTypes, TypeOK


-----------------------------------------------------------------------------
(* The invariants *)

(* Steps keep onHEADChanged to a mounted runtime and commits in hand. *)
LEMMA WorkNext == TypeOK /\ WorkInv /\ [Next]_vars => WorkInv'
<1> SUFFICES ASSUME TypeOK, WorkInv, [Next]_vars
             PROVE  WorkInv'
  OBVIOUS
<1> USE DEF mountVars, handlerVars, prepareVars
<1>0. /\ tip[head] \in Commits /\ h \in At /\ state \in At /\ mounting \in At
      /\ (holder = None) = (hpc = "idle")
  BY DEF TypeOK
<1>1. CASE Aside
  <2>1. UNCHANGED <<mountVars, handlerVars>>
    BY <1>1, AsideLeaves
  <2>2. ppc' = "publish" => p'.oid \in Commits
    <3>1. CASE PrepareResolve
      BY <1>0, <3>1 DEF PrepareResolve
    <3>2. CASE ~PrepareResolve
      <4>1. ppc' # "publish" \/ UNCHANGED prepareVars
        BY <1>1, <3>2 DEF Aside, Checkout, CommitOn, PrepareFetch, UserMove, PackRefs, Poll,
           ReadHead, ReadRef, PrepareHead, vars
      <4> QED
        BY <4>1 DEF WorkInv
    <3> QED
      BY <3>1, <3>2
  <2> QED
    BY <2>1, <2>2 DEF WorkInv
<1>2. ASSUME NEW t \in Retries \cup {Watcher}, Begin(t)
      PROVE  WorkInv'
  BY <1>2 DEF Begin, WorkInv
<1>3. CASE Handler
  <2>1. UNCHANGED <<mountVars, prepareVars>> /\ mount = "up"
    BY <1>0, <1>3 DEF WorkInv, Handler, ResolveOID, ResolveRef, ReadGeneration, Compare,
       Publish, Reconcile, Show, Record, Prune
  <2>2. CASE Done
    BY <2>1, <2>2 DEF Done, WorkInv
  <2>3. CASE holder' = holder /\ hpc # "oid" /\ hpc # "idle" /\ h'.oid = h.oid
    BY <2>1, <2>3 DEF WorkInv
  <2>4. CASE ResolveOID
    BY <1>0, <2>1, <2>2, <2>4 DEF ResolveOID, Goto, WorkInv, At
  <2>5. CASE ~ResolveOID /\ ~Done
    <3>1. holder' = holder /\ hpc # "oid" /\ hpc # "idle"
      BY <1>3, <2>5 DEF Handler, ResolveRef, ReadGeneration, Compare, Publish, Reconcile,
         Show, Record, Prune, Goto
    <3>2. h' = h \/ h' = [h EXCEPT !.ref = head] \/ \E n : h' = [h EXCEPT !.gen = n]
      BY <1>3, <2>5 DEF Handler, ResolveRef, ReadGeneration, Compare, Publish, Reconcile,
         Show, Record, Prune
    <3> QED
      BY <1>0, <2>3, <3>1, <3>2 DEF At
  <2> QED
    BY <2>2, <2>4, <2>5
<1>4. CASE MountResolve
  BY <1>0, <1>4 DEF MountResolve, WorkInv
<1>5. CASE MountPublish
  BY <1>5 DEF MountPublish, WorkInv
<1>6. CASE MountReconcile
  BY <1>6 DEF MountReconcile, WorkInv
<1>7. CASE PreparePublish
  BY <1>7 DEF PreparePublish, WorkInv
<1>8. CASE Down
  BY <1>8 DEF Down, WorkInv
<1> QED
  BY <1>1, <1>2, <1>3, <1>4, <1>5, <1>6, <1>7, <1>8 DEF Aside, Next, Mount, Prepare

(* The generations, in plain numbers. *)
LEMMA Numbers ==
    TypeOK => /\ stored \in At /\ stored.gen \in Nat /\ h \in At /\ h.gen \in Nat /\ shown \in Nat
              /\ state.gen \in Nat /\ state \in At /\ mounting \in At /\ p \in At
              /\ \A g \in DOMAIN nodes : g \in Nat /\ g > 0
BY DEF TypeOK, At

(* Adding a generation takes away none and changes none. *)
LEMMA Added ==
    ASSUME TypeOK, GenerationInv, NEW at \in At, Published(at)
    PROVE  /\ \A g \in DOMAIN nodes : g \in DOMAIN nodes' /\ nodes'[g] = nodes[g]
           /\ stored.gen + 1 \in DOMAIN nodes' /\ nodes'[stored.gen + 1] = at.oid
           /\ stored'.gen = stored.gen + 1 /\ stored'.oid = at.oid
           /\ \A g \in DOMAIN nodes' : g <= stored'.gen
<1>1. stored \in At /\ stored.gen \in Nat /\ \A g \in DOMAIN nodes : g \in Nat /\ g <= stored.gen
  BY Numbers DEF GenerationInv
<1>2. /\ DOMAIN nodes' = DOMAIN nodes \cup {stored.gen + 1}
      /\ nodes'[stored.gen + 1] = at.oid
      /\ \A m \in DOMAIN nodes : m # stored.gen + 1 => nodes'[m] = nodes[m]
      /\ stored'.gen = stored.gen + 1 /\ stored'.oid = at.oid
  BY <1>1, PublishedNodes
<1> QED
  BY <1>1, <1>2

(* What is pruned after onHEADChanged is older than what is shown. *)
LEMMA Pruned ==
    ASSUME TypeOK, GenerationInv, WorkInv, Prune
    PROVE  /\ DOMAIN nodes' \subseteq DOMAIN nodes
           /\ \A g \in DOMAIN nodes' : nodes'[g] = nodes[g]
           /\ \A g \in DOMAIN nodes : g >= shown => g \in DOMAIN nodes'
           /\ shown \in DOMAIN nodes /\ Up
<1>1. hpc = "prune" /\ nodes' = KeptFrom(nodes, Lesser(h.gen, shown - 1))
  BY DEF Prune
<1>2. Up /\ shown \in DOMAIN nodes
  <2>1. holder # None
    BY <1>1 DEF TypeOK
  <2> QED
    BY <2>1 DEF WorkInv, GenerationInv, Up
<1>3. shown \in Nat /\ shown > 0 /\ h.gen \in Nat /\ \A g \in DOMAIN nodes : g \in Nat
  BY <1>2, Numbers
<1>4. Lesser(h.gen, shown - 1) \in Nat /\ Lesser(h.gen, shown - 1) < shown
  BY <1>3 DEF Lesser
<1> QED
  BY <1>1, <1>2, <1>3, <1>4, KeptNodes

(* Steps keep the generations that are in use. *)
LEMMA GenerationNext == TypeOK /\ WorkInv /\ GenerationInv /\ [Next]_vars => GenerationInv'
<1> SUFFICES ASSUME TypeOK, WorkInv, GenerationInv, [Next]_vars
             PROVE  GenerationInv'
  OBVIOUS
<1> USE DEF dbVars, mountVars, runVars, handlerVars, Up
<1>0. /\ (holder = None) = (hpc = "idle")
      /\ (hpc # "idle" => mount = "up" /\ shown \in DOMAIN nodes)
      /\ (mount = "up" => stored.gen \in DOMAIN nodes)
  <2>1. (holder = None) = (hpc = "idle") /\ (hpc # "idle" => mount = "up")
    BY DEF TypeOK, WorkInv
  <2>2. mount = "up" => shown \in DOMAIN nodes /\ shown > 0 /\ shown <= stored.gen
    BY Numbers DEF GenerationInv
  <2>3. stored.gen > 0 => stored.gen \in DOMAIN nodes
    BY Numbers DEF GenerationInv, StoredIsPublished
  <2> QED
    BY <2>1, <2>2, <2>3, Numbers
<1>1. CASE Aside
  BY <1>1, AsideLeaves DEF GenerationInv, StoredIsPublished
<1>2. ASSUME NEW t \in Retries \cup {Watcher}, Begin(t)
      PROVE  GenerationInv'
  BY <1>2 DEF Begin, GenerationInv, StoredIsPublished
<1>3. CASE ResolveOID
  BY <1>3 DEF ResolveOID, Goto, Done, GenerationInv, StoredIsPublished
<1>4. CASE ResolveRef
  <2>1. /\ UNCHANGED <<nodes, mountVars, shown>>
        /\ stored'.gen = stored.gen /\ stored'.oid = stored.oid
        /\ hpc' \in {"gen", "idle"}
    BY <1>4, Numbers DEF ResolveRef, Goto, Done, At
  <2> QED
    BY <2>1 DEF GenerationInv, StoredIsPublished
<1>5. CASE ReadGeneration
  <2>1. /\ UNCHANGED <<dbVars, mountVars, shown>> /\ h'.gen = stored.gen /\ hpc # "idle"
    BY <1>5, Numbers DEF ReadGeneration, At
  <2> QED
    BY <1>0, <2>1 DEF GenerationInv, StoredIsPublished
<1>6. CASE Compare
  BY <1>6 DEF Compare, Goto, GenerationInv, StoredIsPublished
<1>7. CASE Publish
  <2>1. UNCHANGED <<mountVars, runVars>> /\ hpc = "publish" /\ mount = "up"
    BY <1>0, <1>7 DEF Publish
  <2>2. CASE Published(h) /\ h' = [h EXCEPT !.gen = stored.gen + 1]
    <3>1. h'.gen = stored.gen + 1
      BY <2>2, Numbers DEF At
    <3> QED
      BY <1>0, <2>1, <2>2, <3>1, Numbers, Added DEF GenerationInv, StoredIsPublished
  <2>3. CASE UNCHANGED <<nodes, stored>> /\ Done
    BY <2>1, <2>3 DEF Done, GenerationInv, StoredIsPublished
  <2> QED
    BY <1>7, <2>2, <2>3 DEF Publish
<1>8. CASE Reconcile
  BY <1>8 DEF Reconcile, Goto, Done, GenerationInv, StoredIsPublished
<1>9. CASE Show
  BY <1>9 DEF Show, Goto, GenerationInv, StoredIsPublished
<1>10. CASE Record
  BY <1>10 DEF Record, Goto, GenerationInv, StoredIsPublished
<1>11. CASE Prune
  <2>1. UNCHANGED <<stored, mountVars, runVars>> /\ hpc' = "idle"
    BY <1>11 DEF Prune, Done
  <2>2. stored.gen # 0 => stored.gen >= shown
    BY <1>11, Pruned, Numbers DEF GenerationInv
  <2> QED
    BY <1>11, <2>1, <2>2, Pruned, Numbers DEF GenerationInv, StoredIsPublished
<1>12. CASE MountResolve
  BY <1>12, <1>0 DEF MountResolve, GenerationInv, StoredIsPublished
<1>13. CASE MountPublish
  <2>1. UNCHANGED <<runVars, handlerVars>> /\ mount = "resolved" /\ hpc = "idle"
    BY <1>0, <1>13 DEF MountPublish
  <2>2. CASE /\ Matches(mounting) /\ mounting' = stored /\ stored' = stored
             /\ nodes' = KeptFrom(nodes, stored.gen) /\ mount' = "stored"
    <3>1. /\ stored.gen \in DOMAIN nodes' /\ nodes'[stored.gen] = stored.oid
          /\ DOMAIN nodes' \subseteq DOMAIN nodes
      BY <2>2, Numbers, KeptNodes DEF Matches, GenerationInv, StoredIsPublished
    <3> QED
      BY <2>1, <2>2, <3>1 DEF GenerationInv, StoredIsPublished
  <2>3. CASE /\ mounting' = [mounting EXCEPT !.gen = stored.gen + 1] /\ stored' = mounting'
             /\ nodes' = [n \in {stored.gen + 1} |-> mounting.oid] /\ mount' = "stored"
    <3>1. mounting'.gen = stored.gen + 1 /\ mounting'.oid = mounting.oid
      BY <2>3, Numbers DEF At
    <3>2. DOMAIN nodes' = {stored.gen + 1} /\ nodes'[stored.gen + 1] = mounting.oid
      BY <2>3
    <3> QED
      BY <2>1, <2>3, <3>1, <3>2, Numbers DEF GenerationInv, StoredIsPublished
  <2>4. CASE mount' = "down" /\ UNCHANGED <<nodes, stored>>
    BY <2>1, <2>4 DEF GenerationInv, StoredIsPublished
  <2> QED
    BY <1>13, <2>2, <2>3, <2>4 DEF MountPublish
<1>14. CASE MountReconcile
  BY <1>14 DEF MountReconcile, GenerationInv, StoredIsPublished
<1>15. CASE PreparePublish
  <2>1. UNCHANGED <<mountVars, runVars, handlerVars>>
    BY <1>15 DEF PreparePublish
  <2>2. CASE Published(p)
    BY <2>1, <2>2, Numbers, Added DEF GenerationInv, StoredIsPublished
  <2>3. CASE UNCHANGED <<nodes, stored>>
    BY <2>1, <2>3 DEF GenerationInv, StoredIsPublished
  <2> QED
    BY <1>15, <2>2, <2>3 DEF PreparePublish
<1>16. CASE Down
  BY <1>16 DEF Down, GenerationInv, StoredIsPublished
<1> QED
  BY <1>1, <1>2, <1>3, <1>4, <1>5, <1>6, <1>7, <1>8, <1>9, <1>10, <1>11, <1>12, <1>13, <1>14,
     <1>15, <1>16 DEF Aside, Next, Handler, Mount, Prepare


(* Steps keep the overlay with what is shown. *)
LEMMA BasisNext == TypeOK /\ WorkInv /\ BasisInv /\ [Next]_vars => BasisInv'
<1> SUFFICES ASSUME TypeOK, WorkInv, BasisInv, [Next]_vars
             PROVE  BasisInv'
  OBVIOUS
<1> USE DEF dbVars, mountVars, runVars, handlerVars, Up
<1>0. hpc # "idle" => mount = "up"
  BY DEF TypeOK, WorkInv
<1>1. CASE Aside
  BY <1>1, AsideLeaves DEF BasisInv, ReconciledWithShown
<1>2. ASSUME UNCHANGED <<basis, mountVars, shown>>, hpc # "show", hpc' # "show"
      PROVE  BasisInv'
  BY <1>2 DEF BasisInv, ReconciledWithShown
<1>3. ASSUME NEW t \in Retries \cup {Watcher}, Begin(t)
      PROVE  BasisInv'
  BY <1>0, <1>3 DEF Begin, BasisInv, ReconciledWithShown, TypeOK
<1>4. CASE ResolveOID \/ ResolveRef \/ ReadGeneration \/ Compare \/ Publish \/ Record \/ Prune
  BY <1>2, <1>4 DEF ResolveOID, ResolveRef, ReadGeneration, Compare, Publish, Record, Prune,
     Goto, Done
<1>5. CASE Reconcile
  BY <1>0, <1>5 DEF Reconcile, Goto, Done, BasisInv, ReconciledWithShown
<1>6. CASE Show
  BY <1>6 DEF Show, Goto, BasisInv, ReconciledWithShown
<1>7. CASE MountResolve \/ MountPublish
  BY <1>0, <1>7 DEF MountResolve, MountPublish, BasisInv, ReconciledWithShown
<1>8. CASE MountReconcile
  BY <1>0, <1>8 DEF MountReconcile, BasisInv, ReconciledWithShown
<1>9. CASE PreparePublish
  BY <1>9 DEF PreparePublish, BasisInv, ReconciledWithShown
<1>10. CASE Down
  BY <1>10 DEF Down, BasisInv, ReconciledWithShown
<1> QED
  BY <1>1, <1>3, <1>4, <1>5, <1>6, <1>7, <1>8, <1>9, <1>10 DEF Aside, Next, Handler, Mount,
     Prepare

(* Steps keep what is reported with what is shown, unless another process     *)
(* publishes between the reads of ReadState.                                  *)
LEMMA ReportNext ==
    ~TornReads /\ TypeOK /\ WorkInv /\ GenerationInv /\ ReportInv /\ [Next]_vars => ReportInv'
<1> SUFFICES ASSUME ~TornReads, TypeOK, WorkInv, GenerationInv, ReportInv, [Next]_vars
             PROVE  ReportInv'
  OBVIOUS
<1> USE DEF dbVars, mountVars, runVars, handlerVars, Up
<1>0. /\ hpc # "idle" => mount = "up"
      /\ mount = "up" => shown \in DOMAIN nodes
      /\ hpc \in {"compare", "reconcile", "show", "record"} => h.gen \in DOMAIN nodes
  BY DEF TypeOK, WorkInv, GenerationInv, ReportInv
<1>1. CASE Aside
  BY <1>1, AsideLeaves DEF ReportInv
<1>2. ASSUME NEW t \in Retries \cup {Watcher}, Begin(t)
      PROVE  ReportInv'
  <2>1. hpc = "idle"
    BY <1>2 DEF Begin, TypeOK
  <2> QED
    BY <1>2, <2>1 DEF Begin, ReportInv
<1>3. CASE ResolveOID
  BY <1>3 DEF ResolveOID, Goto, Done, ReportInv
<1>4. CASE ResolveRef
  <2>1. /\ UNCHANGED <<nodes, mountVars, shown>> /\ hpc = "ref" /\ hpc' \in {"gen", "idle"}
        /\ state'.gen = state.gen /\ state'.oid = state.oid
    BY <1>4, Numbers DEF ResolveRef, Goto, Done, At
  <2> QED
    BY <2>1 DEF ReportInv
<1>5. CASE ReadGeneration
  <2>1. /\ UNCHANGED <<dbVars, mountVars, runVars>> /\ hpc = "gen" /\ hpc' = "compare"
        /\ h'.gen = stored.gen
    BY <1>5, Numbers DEF ReadGeneration, Goto, At
  <2> QED
    BY <2>1 DEF ReportInv
<1>6. CASE Compare
  <2>1. /\ UNCHANGED <<dbVars, mountVars, runVars>> /\ hpc = "compare" /\ h' = h
        /\ hpc' = IF Matches(h) THEN "reconcile" ELSE "publish"
    BY <1>6 DEF Compare, Goto
  <2>2. Matches(h) => nodes[stored.gen] = h.oid
    BY DEF Matches, GenerationInv, StoredIsPublished
  <2> QED
    BY <2>1, <2>2 DEF ReportInv
<1>7. CASE Publish
  <2>1. UNCHANGED <<mountVars, runVars>> /\ hpc = "publish"
    BY <1>7 DEF Publish
  <2>2. CASE Published(h) /\ h' = [h EXCEPT !.gen = stored.gen + 1] /\ hpc' = "reconcile"
    <3>1. h'.gen = stored.gen + 1 /\ h'.oid = h.oid
      BY <2>2, Numbers DEF At
    <3>2. nodes'[stored.gen + 1] = h.oid /\ \A g \in DOMAIN nodes : nodes'[g] = nodes[g]
      BY <2>2, Numbers, Added
    <3> QED
      BY <1>0, <2>1, <2>2, <3>1, <3>2 DEF ReportInv
  <2>3. CASE UNCHANGED nodes /\ Done
    BY <2>1, <2>3 DEF Done, ReportInv
  <2> QED
    BY <1>7, <2>2, <2>3 DEF Publish, Goto
<1>8. CASE Reconcile
  BY <1>8 DEF Reconcile, Goto, Done, ReportInv
<1>9. CASE Show
  BY <1>9 DEF Show, Goto, ReportInv
<1>10. CASE Record
  <2>1. UNCHANGED <<nodes, mountVars, shown>> /\ hpc = "record" /\ hpc' = "prune" /\ state' = h
    BY <1>10 DEF Record, Goto
  <2> QED
    BY <2>1 DEF ReportInv
<1>11. CASE Prune
  <2>1. UNCHANGED <<mountVars, runVars>> /\ hpc = "prune" /\ hpc' = "idle"
    BY <1>11 DEF Prune, Done
  <2>2. nodes'[shown] = nodes[shown]
    <3>1. shown \in DOMAIN nodes'
      BY <1>11, Pruned, Numbers
    <3> QED
      BY <1>11, <3>1, Pruned
  <2> QED
    BY <2>1, <2>2 DEF ReportInv
<1>12. CASE MountResolve \/ MountPublish
  BY <1>0, <1>12 DEF MountResolve, MountPublish, ReportInv
<1>13. CASE MountReconcile
  <2>1. hpc = "idle" /\ UNCHANGED <<nodes, hpc>> /\ mount = "stored"
    BY <1>0, <1>13 DEF MountReconcile
  <2>2. mount' # "up" \/ (state' = mounting /\ shown' = mounting.gen)
    BY <1>13 DEF MountReconcile
  <2> QED
    BY <2>1, <2>2 DEF ReportInv, GenerationInv
<1>14. CASE PreparePublish
  <2>1. hpc # "compare" /\ UNCHANGED <<mountVars, runVars, handlerVars>>
    BY <1>14 DEF PreparePublish
  <2>2. \A g \in DOMAIN nodes : nodes'[g] = nodes[g]
    <3>1. CASE Published(p)
      BY <3>1, Numbers, Added
    <3>2. CASE UNCHANGED nodes
      BY <3>2
    <3> QED
      BY <1>14, <3>1, <3>2 DEF PreparePublish
  <2> QED
    BY <1>0, <2>1, <2>2 DEF ReportInv
<1>15. CASE Down
  BY <1>15 DEF Down, ReportInv
<1> QED
  BY <1>1, <1>2, <1>3, <1>4, <1>5, <1>6, <1>7, <1>8, <1>9, <1>10, <1>11, <1>12, <1>13, <1>14,
     <1>15 DEF Aside, Next, Handler, Mount, Prepare

(* The invariants hold at the start: nothing is published or mounted. *)
LEMMA InvInit == Init => Inv /\ ReportInv
<1> SUFFICES ASSUME Init
             PROVE  Inv /\ ReportInv
  OBVIOUS
<1>1. RunTypes
  <2>1. head \in Refs /\ tip \in [Refs -> Commits] /\ seenTip \in [Refs -> Commits \cup {None}]
    BY ConstantsAssumption DEF Init
  <2>2. spent \in [moves : 0 .. MaxMoves, failures : 0 .. MaxFailures,
                   downs : 0 .. MaxDowns, prepares : 0 .. MaxPrepares]
    BY ConstantsAssumption DEF Init
  <2> QED
    BY <2>1, <2>2, AtTypes DEF Init, RunTypes, HandlerPCs
<1>2. DataTypes
  BY AtTypes DEF Init, DataTypes
<1>3. TypeOK
  BY <1>1, <1>2 DEF RunTypes, DataTypes, TypeOK
<1>4. DOMAIN nodes = {} /\ stored.gen = 0
  BY DEF Init, Nowhere
<1>5. WorkInv /\ GenerationInv /\ BasisInv /\ ReportInv
  BY <1>4 DEF Init, WorkInv, GenerationInv, StoredIsPublished, BasisInv, ReconciledWithShown,
     ReportInv, Up
<1> QED
  BY <1>3, <1>5 DEF Inv

(* The invariant of HeadSync. *)
LEMMA Invariant == Spec => []Inv
<1>1. Inv /\ [Next]_vars => Inv'
  BY TypeNext, WorkNext, GenerationNext, BasisNext DEF Inv
<1> QED
  BY <1>1, InvInit, PTL DEF Spec

-----------------------------------------------------------------------------
(* The theorems *)

(* Types: generations are numbers and every one that is published is of a     *)
(* commit; headMu is held exactly while onHEADChanged runs.                   *)
THEOREM TypeCorrect == Spec => []TypeOK
<1>1. Inv => TypeOK
  BY DEF Inv
<1> QED
  BY <1>1, Invariant, PTL

(* The generation that file operations look up has its nodes, whoever prunes  *)
(* or prepares meanwhile (PruneGenerations, ensurePreparedRepo).              *)
THEOREM ShownIsPublishedHolds == Spec => []ShownIsPublished
<1>1. Inv => ShownIsPublished
  BY DEF Inv, GenerationInv, ShownIsPublished
<1> QED
  BY <1>1, Invariant, PTL

(* The generation repo_state names is there and of the commit it names, also  *)
(* for the next mount after a crash (PublishGeneration, ReadState).           *)
THEOREM StoredIsPublishedHolds == Spec => []StoredIsPublished
<1>1. Inv => StoredIsPublished
  BY DEF Inv, GenerationInv
<1> QED
  BY <1>1, Invariant, PTL

(* File operations find the overlay reconciled with the generation they are   *)
(* shown, however often the reconcile fails or the daemon dies before or      *)
(* after it (Resolver.Transition, mountRepo).                                 *)
THEOREM ReconciledWithShownHolds == Spec => []ReconciledWithShown
<1>1. Inv => ReconciledWithShown
  BY DEF Inv, BasisInv
<1> QED
  BY <1>1, Invariant, PTL

(* Outside of onHEADChanged what status reports is what is shown, provided    *)
(* that no other process publishes between the reads of ReadState; with it,   *)
(* the property is violated (setHeadState, ReadState).                        *)
THEOREM ReportedIsShownHolds == ~TornReads => (Spec => []ReportedIsShown)
<1> SUFFICES ASSUME ~TornReads
             PROVE  Spec => []ReportedIsShown
  OBVIOUS
<1>1. Inv /\ ReportInv /\ [Next]_vars => (Inv /\ ReportInv)'
  BY TypeNext, WorkNext, GenerationNext, BasisNext, ReportNext DEF Inv
<1>2. Inv /\ ReportInv => ReportedIsShown
  <2> SUFFICES ASSUME Inv, ReportInv, Up, holder = None
               PROVE  state.gen = shown /\ state.oid = nodes[shown]
    BY DEF ReportedIsShown
  <2>1. hpc = "idle"
    BY DEF Inv, TypeOK
  <2> QED
    BY <2>1 DEF ReportInv
<1> QED
  BY <1>1, <1>2, InvInit, PTL DEF Spec
=============================================================================
