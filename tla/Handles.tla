------------------------------ MODULE Handles ------------------------------
(***************************************************************************)
(* The inodes and the open files of ArtifactFuse.  An open file keeps a    *)
(* descriptor: of the blob cache, which is good for one generation, or of   *)
(* a backing file of the overlay.  Writes close what other open files keep; *)
(* Unlink and Rename, which have handleOps to themselves, pin the           *)
(* descriptors of a file that loses its name.  All the others share         *)
(* handleOps and interleave, and a change of HEAD (Resolver.Transition)     *)
(* comes between any two of their steps.  There is one directory, of files. *)
(***************************************************************************)
EXTENDS Integers, Sequences, FiniteSets

CONSTANTS
    Paths, Handles, Threads,
    MaxInodes,    \* inodes that are ever allocated (a bound)
    MaxWrites,    \* writes, truncations and creations (a bound)
    MaxNames,     \* unlinks and renames (a bound)
    MaxHeads,     \* generations (a bound)
    AnyTime       \* what may also happen: HEAD changes in the middle of an unlink or rename
                  \* ("head"); a write ends while the file is being opened ("open"); a file
                  \* appears at a path before the kernel forgot the one that was removed ("reuse");
                  \* HEAD removes a file that is open ("gone")

None == 0

ASSUME ConstantsAssumption ==
    /\ IsFiniteSet(Paths) /\ None \notin Paths \cup Handles
    /\ {MaxInodes, MaxWrites, MaxNames} \subseteq Nat /\ MaxHeads \in Nat \ {0}
    /\ AnyTime \subseteq {"head", "open", "reuse", "gone"}

VARIABLES
    gen, tree,   \* the generation, and the content of each path in its commit; 0: none
    overlay,     \* the entry of a path: None, Deleted or its backing file
    files,       \* the backing files: their content, is the entry one of kind create, were they written
    inodes, at,  \* inodes and pathToInode
    open,        \* fileHandles
    th,          \* where each thread is
    ids,         \* which file a path is, or would be (history)
    clock        \* contents and files so far, unlinks and renames

vars == <<gen, tree, overlay, files, inodes, at, open, th, ids, clock>>

(* reads: the reads under way that began with the present invalidateSeq.      *)
Deleted == -1
NoCache == [gen |-> 0, is |-> 0]   \* cacheFile nil; gen -1: is a backing file; else: is a content
Closed  == [path |-> None, inode |-> 0, cache |-> NoCache, reads |-> {}, detached |-> FALSE, of |-> 0]
Free    == [path |-> None, cnt |-> 0, stale |-> FALSE, of |-> 0]
Idle    == [pc |-> "idle", path |-> None, to |-> None, handle |-> None, inode |-> 0,
            cache |-> NoCache, make |-> FALSE]

PCs == {"idle", "register", "fetch", "keep", "write", "close",
        "ensure", "pin", "ensure2", "pin2", "remove", "rename"}

Caches == [gen : -1 .. MaxHeads, is : Nat]
Opens  == [path : Paths \cup {None}, inode : 0 .. MaxInodes, cache : Caches,
           reads : SUBSET Threads, detached : BOOLEAN, of : Nat]
Inodes == [path : Paths \cup {None}, cnt : Nat, stale : BOOLEAN, of : Nat]
Steps  == [pc : PCs, path : Paths \cup {None}, to : Paths \cup {None}, handle : Handles \cup {None},
           inode : 0 .. MaxInodes, cache : Caches, make : BOOLEAN]
Files  == [of : Nat, content : Nat, create : BOOLEAN, written : BOOLEAN]
Clocks == [content : Nat, file : Nat, writes : 0 .. MaxWrites, names : 0 .. MaxNames]

TypeOK ==
    /\ gen \in 1 .. MaxHeads /\ tree \in [Paths -> Nat] /\ files \in Seq(Files) /\ clock \in Clocks
    /\ overlay \in [Paths -> {Deleted, None} \cup 1 .. Len(files)]
    /\ at \in [Paths -> 0 .. MaxInodes] /\ inodes \in [1 .. MaxInodes -> Inodes]
    /\ open \in [Handles -> Opens] /\ th \in [Threads -> Steps]
    /\ ids \in [Paths -> 1 .. clock.file] /\ \A p, q \in Paths : p # q => ids[p] # ids[q]
    /\ \A p \in Paths : at[p] # 0 => inodes[at[p]].cnt > 0
    /\ \A h \in Handles :
         /\ open[h].cache.gen <= gen
         /\ open[h].cache.gen = -1 => open[h].cache.is \in 1 .. Len(files)

Init ==
    /\ gen = 1 /\ tree = [p \in Paths |-> 1]
    /\ overlay = [p \in Paths |-> None] /\ files = <<>>
    /\ inodes = [i \in 1 .. MaxInodes |-> Free] /\ at = [p \in Paths |-> 0]
    /\ open = [h \in Handles |-> Closed] /\ th = [t \in Threads |-> Idle]
    /\ ids = CHOOSE f \in [Paths -> 1 .. Cardinality(Paths)] : \A p, q \in Paths : p # q => f[p] # f[q]
    /\ clock = [content |-> 1, file |-> Cardinality(Paths), writes |-> 0, names |-> 0]

-----------------------------------------------------------------------------
(* What a path and an open file are *)

Visible(p) == overlay[p] > 0 \/ (overlay[p] = None /\ tree[p] # 0)

OpenAt(p) == {h \in Handles : open[h].path = p}

(* FileHandle.read: the file it reads, and what of it. *)
Shown(h) ==
    LET c == open[h].cache  p == open[h].path IN
    CASE c.gen = -1 -> [of |-> files[c.is].of, content |-> files[c.is].content]
      [] c.gen > 0 /\ (c.gen = gen \/ open[h].detached) -> [of |-> open[h].of, content |-> c.is]
      [] OTHER -> IF overlay[p] > 0 THEN [of |-> ids[p], content |-> files[overlay[p]].content]
                  ELSE [of |-> IF Visible(p) THEN ids[p] ELSE None, content |-> tree[p]]

(* handleOps *)
Excluded == \E t \in Threads : th[t].pc \in {"ensure", "pin", "ensure2", "pin2", "remove", "rename"}
Alone    == \A t \in Threads : th[t].pc = "idle"
Shares(t) == th[t].pc = "idle" /\ ~Excluded
Used(h)  == \E t \in Threads : th[t].handle = h

Done(t) == th' = [th EXCEPT ![t] = Idle]
Goes(t, pc) == th' = [th EXCEPT ![t].pc = pc]

NewContent == clock.content + 1
CountWrite == clock.writes < MaxWrites
              /\ clock' = [clock EXCEPT !.content = @ + 1, !.writes = @ + 1]

AddFile(p, content, create, written) ==
    /\ files' = Append(files, [of |-> ids[p], content |-> content, create |-> create, written |-> written])
    /\ overlay' = [overlay EXCEPT ![p] = Len(files) + 1]

-----------------------------------------------------------------------------
(* Inodes *)

(* allocInode *)
Alloc(p, i) ==
    /\ \/ at[p] # 0 /\ i = at[p]
       \/ at[p] = 0 /\ inodes[i] = Free /\ \A k \in 1 .. i - 1 : inodes[k] # Free
    /\ inodes' = [inodes EXCEPT ![i] = IF at[p] # 0 THEN [inodes[i] EXCEPT !.cnt = @ + 1]
                                       ELSE [path |-> p, cnt |-> 1, stale |-> FALSE, of |-> ids[p]]]
    /\ at' = [at EXCEPT ![p] = i]

(* Unless "reuse", the kernel has forgotten the inode of a removed file. *)
Forgotten(p) == at[p] \in {0} \cup {i \in 1 .. MaxInodes : "reuse" \in AnyTime \/ inodes[i].of = ids[p]}

LookUpInode(p) ==
    /\ ~Excluded /\ Visible(p) /\ Forgotten(p)
    /\ at[p] \in {0} \cup {i \in 1 .. MaxInodes : inodes[i].cnt < 2}
    /\ \E i \in 1 .. MaxInodes : Alloc(p, i)
    /\ UNCHANGED <<gen, tree, overlay, files, open, th, ids, clock>>

(* Variant: the path still has the inode. *)
ForgetInodeOnly(i, n) ==
    /\ inodes[i].cnt >= n /\ n > 0
    /\ n = inodes[i].cnt => /\ \A h \in Handles : open[h].inode # i
                            /\ \A t \in Threads : th[t].inode # i
    /\ inodes' = [inodes EXCEPT ![i] = IF inodes[i].cnt = n THEN [Free EXCEPT !.stale = TRUE] ELSE [inodes[i] EXCEPT !.cnt = @ - n]]
    /\ UNCHANGED <<gen, tree, overlay, files, at, open, th, ids, clock>>

(* ForgetInode takes only fs.mu; the kernel keeps the inodes that are in use. *)
ForgetInode(i, n) ==
    /\ inodes[i].cnt >= n /\ n > 0
    /\ n = inodes[i].cnt => /\ \A h \in Handles : open[h].inode # i
                            /\ \A t \in Threads : th[t].inode # i
    /\ inodes' = [inodes EXCEPT ![i] = IF inodes[i].cnt = n THEN [Free EXCEPT !.stale = TRUE] ELSE [inodes[i] EXCEPT !.cnt = @ - n]]
    /\ at' = [p \in Paths |-> IF inodes[i].cnt = n /\ at[p] = i THEN 0 ELSE at[p]]
    /\ UNCHANGED <<gen, tree, overlay, files, open, th, ids, clock>>

Usable(i) == inodes[i].cnt > 0 /\ ~inodes[i].stale

-----------------------------------------------------------------------------
(* Opening, reading, writing *)

(* OpenFile opens the descriptor and then adds the open file. *)
OpenFile(t, i) ==
    /\ Shares(t) /\ Usable(i) /\ Visible(inodes[i].path)
    /\ \E h \in Handles : open[h] = Closed
    /\ LET p == inodes[i].path IN
         th' = [th EXCEPT ![t] = [Idle EXCEPT !.pc = "register", !.path = p, !.inode = i, !.cache =
             IF overlay[p] > 0 THEN [gen |-> -1, is |-> overlay[p]] ELSE [gen |-> gen, is |-> tree[p]]]]
    /\ UNCHANGED <<gen, tree, overlay, files, inodes, at, open, ids, clock>>

Adds(p, i, cache) ==
    \E h \in Handles : open[h] = Closed
      /\ open' = [open EXCEPT ![h] = [Closed EXCEPT !.path = p, !.inode = i, !.cache = cache, !.of = ids[p]]]

Register(t) ==
    /\ th[t].pc = "register" /\ Adds(th[t].path, th[t].inode, th[t].cache) /\ Done(t)
    /\ UNCHANGED <<gen, tree, overlay, files, inodes, at, ids, clock>>

CreateFile(p) ==
    /\ ~Excluded /\ ~Visible(p) /\ Forgotten(p)
    /\ CountWrite /\ AddFile(p, NewContent, TRUE, TRUE)
    /\ \E i \in 1 .. MaxInodes : Alloc(p, i) /\ Adds(p, i, NoCache)
    /\ UNCHANGED <<gen, tree, th, ids>>

ReleaseFileHandle(h) ==
    /\ ~Excluded /\ open[h] # Closed /\ ~Used(h) /\ open' = [open EXCEPT ![h] = Closed]
    /\ UNCHANGED <<gen, tree, overlay, files, inodes, at, th, ids, clock>>

(* A read that does not find a descriptor that is good for it. *)
ReadFile(t, h) ==
    /\ Shares(t) /\ open[h] # Closed /\ open[h].cache.gen \notin {-1, gen}
    /\ ~(open[h].detached /\ open[h].cache # NoCache)
    /\ open' = [open EXCEPT ![h].cache = NoCache,
                            ![h].reads = {t} \cup (IF open[h].cache = NoCache THEN @ ELSE {})]
    /\ th' = [th EXCEPT ![t] = [Idle EXCEPT !.pc = "fetch", !.handle = h, !.path = open[h].path]]
    /\ UNCHANGED <<gen, tree, overlay, files, inodes, at, ids, clock>>

(* Engine.BaseCacheFile; what is in the overlay is read by its path. *)
Fetch(t) ==
    /\ th[t].pc = "fetch"
    /\ LET p == th[t].path IN
         IF overlay[p] = None /\ tree[p] # 0
         THEN /\ th' = [th EXCEPT ![t].pc = "keep", ![t].cache = [gen |-> gen, is |-> tree[p]]]
              /\ UNCHANGED open
         ELSE Done(t) /\ open' = [open EXCEPT ![th[t].handle].reads = @ \ {t}]
    /\ UNCHANGED <<gen, tree, overlay, files, inodes, at, ids, clock>>

Keeps(t, if) ==
    LET h == th[t].handle IN
      open' = [open EXCEPT ![h].reads = @ \ {t},
                           ![h].cache = IF if /\ th[t].cache.gen = gen /\ @.gen # gen THEN th[t].cache ELSE @]

(* Variant: a write since is not noticed. *)
KeepAnyway(t) ==
    /\ th[t].pc = "keep" /\ Keeps(t, TRUE) /\ Done(t)
    /\ UNCHANGED <<gen, tree, overlay, files, inodes, at, ids, clock>>

(* The descriptor is kept if nothing was closed in between. *)
Keep(t) ==
    /\ th[t].pc = "keep" /\ Keeps(t, t \in open[th[t].handle].reads) /\ Done(t)
    /\ UNCHANGED <<gen, tree, overlay, files, inodes, at, ids, clock>>

(* closeCachedFilesForPath *)
CloseCached(p) ==
    open' = [h \in Handles |-> IF h \in OpenAt(p) /\ ~open[h].detached
                               THEN [open[h] EXCEPT !.cache = NoCache, !.reads = {}] ELSE open[h]]

(* A detached file is written where it is. *)
WriteDetached(h) ==
    /\ ~Excluded /\ open[h].detached /\ open[h].cache.gen = -1 /\ CountWrite
    /\ files' = [files EXCEPT ![open[h].cache.is].content = NewContent]
    /\ UNCHANGED <<gen, tree, overlay, inodes, at, open, th, ids>>

WriteFile(t, h) ==
    /\ Shares(t) /\ open[h] # Closed /\ ~open[h].detached /\ clock.writes < MaxWrites
    /\ CloseCached(open[h].path)
    /\ th' = [th EXCEPT ![t] = [Idle EXCEPT !.pc = "write", !.handle = h, !.path = open[h].path, !.make = TRUE]]
    /\ UNCHANGED <<gen, tree, overlay, files, inodes, at, ids, clock>>

(* SetInodeAttributes with a size. *)
Truncate(t, i) ==
    /\ Shares(t) /\ Usable(i) /\ clock.writes < MaxWrites /\ CloseCached(inodes[i].path)
    /\ th' = [th EXCEPT ![t] = [Idle EXCEPT !.pc = "write", !.path = inodes[i].path, !.inode = i]]
    /\ UNCHANGED <<gen, tree, overlay, files, inodes, at, ids, clock>>

(* Engine.Write, Engine.Truncate *)
Write(t) ==
    /\ th[t].pc = "write" /\ UNCHANGED <<gen, tree, inodes, at, open, ids>>
    /\ "open" \notin AnyTime => \A u \in Threads : th[u].pc = "register" => th[u].path # th[t].path
    /\ LET p == th[t].path IN
         \/ /\ overlay[p] > 0 /\ CountWrite /\ Goes(t, "close") /\ UNCHANGED overlay
            /\ files' = [files EXCEPT ![overlay[p]].content = NewContent, ![overlay[p]].written = TRUE]
         \/ overlay[p] = None /\ tree[p] # 0 /\ CountWrite /\ AddFile(p, NewContent, FALSE, TRUE) /\ Goes(t, "close")
         \/ /\ overlay[p] = None /\ tree[p] = 0 /\ th[t].make
            /\ CountWrite /\ AddFile(p, NewContent, TRUE, TRUE) /\ Goes(t, "close")
         \/ /\ overlay[p] = Deleted \/ (overlay[p] = None /\ tree[p] = 0 /\ ~th[t].make)
            /\ Done(t) /\ UNCHANGED <<overlay, files, clock>>

Close(t) ==
    /\ th[t].pc = "close" /\ CloseCached(th[t].path) /\ Done(t)
    /\ UNCHANGED <<gen, tree, overlay, files, inodes, at, ids, clock>>

-----------------------------------------------------------------------------
(* Unlink and Rename, with handleOps to themselves *)

CountName == clock.names < MaxNames /\ clock' = [clock EXCEPT !.names = @ + 1, !.file = @ + 1]

Unlink(t, p) ==
    /\ Alone /\ Visible(p) /\ clock.names < MaxNames
    /\ th' = [th EXCEPT ![t] = [Idle EXCEPT !.pc = "ensure", !.path = p]]
    /\ UNCHANGED <<gen, tree, overlay, files, inodes, at, open, ids, clock>>

Rename(t, p, q) ==
    /\ Alone /\ Visible(p) /\ p # q /\ clock.names < MaxNames
    /\ th' = [th EXCEPT ![t] = [Idle EXCEPT !.pc = "ensure", !.path = p, !.to = q]]
    /\ UNCHANGED <<gen, tree, overlay, files, inodes, at, open, ids, clock>>

(* Engine.ensureOverlay, without the lock of the resolver. *)
Ensure(t) ==
    /\ th[t].pc \in {"ensure", "ensure2"}
    /\ LET p == IF th[t].pc = "ensure" THEN th[t].path ELSE th[t].to IN
         \/ overlay[p] # None /\ UNCHANGED <<overlay, files>> /\ Goes(t, IF th[t].pc = "ensure" THEN "pin" ELSE "pin2")
         \/ /\ overlay[p] = None /\ tree[p] # 0 /\ AddFile(p, tree[p], FALSE, FALSE)
            /\ Goes(t, IF th[t].pc = "ensure" THEN "pin" ELSE "pin2")
         \/ overlay[p] = None /\ tree[p] = 0 /\ Done(t) /\ UNCHANGED <<overlay, files>>
    /\ UNCHANGED <<gen, tree, inodes, at, open, ids, clock>>

AfterPin(t) ==
    Goes(t, CASE th[t].to = None -> "remove"
              [] th[t].to # None /\ th[t].pc = "pin" /\ Visible(th[t].to) -> "ensure2"
              [] OTHER -> "rename")

(* Variant: only those that have no descriptor. *)
PinSome(t) ==
    /\ th[t].pc \in {"pin", "pin2"} /\ AfterPin(t)
    /\ LET p == IF th[t].pc = "pin" THEN th[t].path ELSE th[t].to IN
         open' = [h \in Handles |-> IF overlay[p] > 0 /\ h \in OpenAt(p) /\ open[h].cache.gen = 0
                                    THEN [open[h] EXCEPT !.cache = [gen |-> -1, is |-> overlay[p]]] ELSE open[h]]
    /\ UNCHANGED <<gen, tree, overlay, files, inodes, at, ids, clock>>

(* pinOpenHandles *)
Pin(t) ==
    /\ th[t].pc \in {"pin", "pin2"} /\ AfterPin(t)
    /\ LET p == IF th[t].pc = "pin" THEN th[t].path ELSE th[t].to IN
         open' = [h \in Handles |-> IF overlay[p] > 0 /\ h \in OpenAt(p) /\ open[h].cache.gen # -1
                                    THEN [open[h] EXCEPT !.cache = [gen |-> -1, is |-> overlay[p]]] ELSE open[h]]
    /\ UNCHANGED <<gen, tree, overlay, files, inodes, at, ids, clock>>

(* Engine.Unlink, detachOpenHandles; the inode keeps the path. *)
Remove(t) ==
    /\ th[t].pc = "remove" /\ Done(t) /\ CountName
    /\ LET p == th[t].path IN
         /\ overlay' = [overlay EXCEPT ![p] = Deleted] /\ ids' = [ids EXCEPT ![p] = clock.file + 1]
         /\ open' = [h \in Handles |-> IF h \in OpenAt(p) THEN [open[h] EXCEPT !.detached = TRUE] ELSE open[h]]
    /\ UNCHANGED <<gen, tree, files, inodes, at>>

(* moveInodePath *)
MoveInodes(p, q) ==
    /\ inodes' = [i \in 1 .. MaxInodes |->
          CASE at[p] = i              -> [inodes[i] EXCEPT !.path = q]
            [] at[q] = i /\ at[p] # i -> [inodes[i] EXCEPT !.stale = TRUE]
            [] OTHER                  -> inodes[i]]
    /\ at' = [at EXCEPT ![p] = 0, ![q] = at[p]]

(* Engine.Rename of a file: what was created in the overlay leaves no         *)
(* whiteout, and becomes a modification where the commit has a file.          *)
MoveEntry(p, q) ==
    LET create == files[overlay[p]].create IN
    /\ overlay' = [overlay EXCEPT ![q] = overlay[p], ![p] = IF create THEN None ELSE Deleted]
    /\ files' = [files EXCEPT ![overlay[p]].create = create /\ tree[q] = 0]
    /\ ids' = [ids EXCEPT ![q] = ids[p], ![p] = clock.file + 1]

Ends(t) == Done(t) /\ CountName /\ UNCHANGED <<gen, tree>>

(* Variant: those of the replaced file stay attached. *)
RenamedOver(t) ==
    /\ Ends(t) /\ MoveEntry(th[t].path, th[t].to) /\ MoveInodes(th[t].path, th[t].to)
    /\ open' = [h \in Handles |-> IF h \in OpenAt(th[t].path) THEN [open[h] EXCEPT !.path = th[t].to] ELSE open[h]]

(* Variant: the inode of the replaced file stays as it is. *)
RenamedKept(t) ==
    /\ Ends(t) /\ MoveEntry(th[t].path, th[t].to) /\ UNCHANGED open
    /\ LET p == th[t].path  q == th[t].to IN
         /\ inodes' = [i \in 1 .. MaxInodes |-> IF at[p] = i THEN [inodes[i] EXCEPT !.path = q] ELSE inodes[i]]
         /\ at' = [at EXCEPT ![p] = 0, ![q] = at[p]]

(* detachOpenHandles and then moveOpenHandles. *)
Renamed(t) ==
    /\ Ends(t) /\ MoveEntry(th[t].path, th[t].to) /\ MoveInodes(th[t].path, th[t].to)
    /\ open' = [h \in Handles |->
          CASE h \in OpenAt(th[t].to)   -> [open[h] EXCEPT !.detached = TRUE]
            [] h \in OpenAt(th[t].path) -> [open[h] EXCEPT !.path = th[t].to]
            [] OTHER                    -> open[h]]

(* HEAD has changed: the file is the commit's again, and promoted once more;  *)
(* or it is gone, ENOENT.                                                    *)
RenameAgain(t) ==
    /\ IF Visible(th[t].path) THEN AddFile(th[t].path, tree[th[t].path], FALSE, FALSE) /\ UNCHANGED th
                              ELSE Done(t) /\ UNCHANGED <<overlay, files>>
    /\ UNCHANGED <<gen, tree, inodes, at, open, ids, clock>>

(* Engine.Rename *)
Move(t) ==
    th[t].pc = "rename" /\ IF overlay[th[t].path] > 0 THEN Renamed(t) ELSE RenameAgain(t)

-----------------------------------------------------------------------------
(* Another generation, and Overlay.Reconcile: a file is checked out, or       *)
(* removed, or everything is committed.                                      *)

InUse(p) == (\E g \in OpenAt(p) : ~open[g].detached) \/ \E v \in Threads : th[v].path = p

Trees == {[tree EXCEPT ![p] = c] : p \in Paths, c \in {0, NewContent}}
         \cup {[p \in Paths |-> CASE overlay[p] > 0       -> files[overlay[p]].content
                                  [] overlay[p] = Deleted -> 0
                                  [] OTHER                -> tree[p]]}

Transition ==
    /\ gen < MaxHeads /\ gen' = gen + 1
    /\ "head" \in AnyTime \/ ~Excluded
    /\ tree' \in Trees
    /\ overlay' = [p \in Paths |->
          IF (overlay[p] = Deleted /\ tree'[p] = 0) \/ (overlay[p] > 0 /\ files[overlay[p]].content = tree'[p])
          THEN None ELSE overlay[p]]
    /\ \A p \in Paths : (~Visible(p) /\ overlay'[p] = None /\ tree'[p] # 0) => Forgotten(p)
    /\ "gone" \notin AnyTime =>
         \A p \in Paths : (overlay'[p] = None /\ tree'[p] = 0 /\ InUse(p)) => ~Visible(p)
    /\ clock' = [clock EXCEPT !.content = @ + 1]
    /\ UNCHANGED <<files, inodes, at, open, th, ids>>

Next ==
    \/ \E p \in Paths : LookUpInode(p) \/ CreateFile(p)
    \/ \E i \in 1 .. MaxInodes, n \in 1 .. 2 : ForgetInode(i, n)
    \/ \E h \in Handles : ReleaseFileHandle(h) \/ WriteDetached(h)
    \/ \E t \in Threads :
         \/ \E i \in 1 .. MaxInodes : OpenFile(t, i) \/ Truncate(t, i)
         \/ \E h \in Handles : ReadFile(t, h) \/ WriteFile(t, h)
         \/ Register(t) \/ Fetch(t) \/ Keep(t) \/ Write(t) \/ Close(t)
         \/ \E p, q \in Paths : Unlink(t, p) \/ Rename(t, p, q)
         \/ Ensure(t) \/ Pin(t) \/ Remove(t) \/ Move(t)
    \/ Transition

Spec == Init /\ [][Next]_vars

-----------------------------------------------------------------------------
(* An open file never shows another file: not the one that was renamed onto   *)
(* its path, nor the one created there after it was removed; and when its own  *)
(* name is gone it has the backing file in its hands, so that it stays        *)
(* readable and writable (pinOpenHandles, detachOpenHandles, moveOpenHandles). *)
KeepsItsFile ==
    \A h \in Handles : open[h] # Closed =>
      /\ Shown(h).of \in {None, open[h].of}
      /\ open[h].detached => open[h].cache.gen = -1 /\ Shown(h).of = open[h].of

(* When a write is over every open file of the path shows it, whichever of    *)
(* them wrote and whatever they had kept or were about to keep                *)
(* (closeCachedFilesForPath, invalidateSeq).                                 *)
ShowsWrites ==
    \A h \in Handles, p \in Paths :
      /\ open[h].path = p /\ ~open[h].detached /\ overlay[p] > 0 /\ files[overlay[p]].written
      /\ \A t \in Threads : ~(th[t].pc = "close" /\ th[t].path = p)
      => Shown(h).content = files[overlay[p]].content

(* The kernel's inode of a file is at the file's path wherever it was renamed *)
(* to, and one that was replaced answers for no file (moveInodePath, Forget). *)
InodeIsFile ==
    \A i \in 1 .. MaxInodes : Usable(i) =>
      /\ at[inodes[i].path] = i
      /\ Visible(inodes[i].path) => ids[inodes[i].path] = inodes[i].of

============================================================================
