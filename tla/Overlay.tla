------------------------------ MODULE Overlay ------------------------------
(***************************************************************************)
(* The writable overlay of a mount: internal/overlay keeps one entry per    *)
(* path the user changed, internal/fusefs merges the entries with the       *)
(* snapshot of the selected commit (Resolver) and turns each file operation *)
(* into changes of entries (Engine), and Reconcile drops or rebases the     *)
(* entries when HEAD moves to another commit.                              *)
(*                                                                         *)
(* One action is one operation of the mount.  handleOps, the kernel's locks *)
(* on directories and the transition lock of the Resolver keep operations   *)
(* on one path, and HEAD changes, apart.  An object id stands for the       *)
(* content it is the hash of.                                              *)
(***************************************************************************)
EXTENDS Naturals, Sequences, SequencesExt

CONSTANTS
    Paths,     \* non-empty sequences of names, closed under prefixes
    Trees,     \* trees of commits HEAD may move to
    Contents,  \* contents of files and targets of links
    MaxOps,    \* operations of the user (a bound)
    MaxHeads,  \* changes of HEAD (a bound)
    RecreatedMoves, \* may the user rename a path made anew where the commit has one?
    RenamedMovesOn, \* may the user rename a renamed file that replaced one of the commit?
    Conflicts       \* may HEAD move to a commit at odds with the overlay about directories?

None   == "none"
Absent == [type |-> "absent", oid |-> None, mode |-> None]

FileModes == {"rw", "rwx"}
Files == [type : {"file"}, oid : Contents, mode : FileModes]
Links == [type : {"symlink"}, oid : Contents, mode : {"link"}]
Dir   == [type |-> "dir", oid |-> None, mode |-> "dir"]
Node  == Files \cup Links \cup {Dir}

Ancestors(p) == {SubSeq(p, 1, n) : n \in 1 .. Len(p) - 1}

IsTree(t) == \A p \in Paths : t[p] # Absent => \A d \in Ancestors(p) : t[d] = Dir

ASSUME ConstantsAssumption ==
    /\ \A p \in Paths : p \in Seq(STRING) \ {<<>>} /\ Ancestors(p) \subseteq Paths
    /\ \A t \in Trees : t \in [Paths -> Node \cup {Absent}] /\ IsTree(t)
    /\ None \notin Contents
    /\ MaxOps \in Nat /\ MaxHeads \in Nat
    /\ {RecreatedMoves, RenamedMovesOn, Conflicts} \subseteq BOOLEAN

VARIABLES
    base,     \* the nodes of the generation the Resolver shows
    entries,  \* overlay_entries: path -> its entry
    done,     \* the operation that was done last, for the refinement
    ops, heads \* what has been spent of the bounds

vars == <<base, entries, done, ops, heads>>

NoEntry == [kind |-> "none", data |-> None, mode |-> None,
            soid |-> None, smode |-> None, target |-> <<>>]

(* backing_path (or the target of a link), mode, source_oid, source_mode and *)
(* target_path of an entry; the empty sequence is the empty target_path.     *)
Entry == [kind : {"create", "modify", "delete", "rename", "mkdir", "symlink"},
          data : Contents \cup {None}, mode : FileModes \cup {"link", "dir", None},
          soid : Contents \cup {None}, smode : FileModes \cup {"link", "dir", None},
          target : Paths \cup {<<>>}]

TypeOK ==
    /\ base \in [Paths -> Node \cup {Absent}] /\ IsTree(base)
    /\ entries \in [Paths -> Entry \cup {NoEntry}]
    /\ \A p \in Paths : entries[p].kind \in {"create", "modify", "rename", "symlink"}
                          => entries[p].data \in Contents
    /\ \A p \in Paths : entries[p].kind = "rename" => entries[p].target # <<>>
    /\ ops \in 0 .. MaxOps /\ heads \in 0 .. MaxHeads

Init ==
    /\ base \in Trees
    /\ entries = [p \in Paths |-> NoEntry]
    /\ done = <<"mount">>
    /\ ops = 0 /\ heads = 0

-----------------------------------------------------------------------------
(* Resolver: the merged view *)

Held(E)   == {p \in Paths : E[p] # NoEntry}

Resolved(E, p) ==
    IF E[p] = NoEntry THEN base[p]
    ELSE IF E[p].kind = "delete" THEN Absent
    ELSE IF E[p].kind = "mkdir" THEN Dir
    ELSE [type |-> IF E[p].kind = "symlink" THEN "symlink" ELSE "file",
          oid |-> E[p].data, mode |-> E[p].mode]

(* The kernel walks to a path through the directories above it. *)
Merged == [p \in Paths |-> IF \A d \in Ancestors(p) : Resolved(entries, d) = Dir
                           THEN Resolved(entries, p) ELSE Absent]

Exists(p) == Merged[p] # Absent
Room(p)   == Merged[p] = Absent /\ \A d \in Ancestors(p) : Merged[d] = Dir

Under(p)     == {r \in Paths : IsPrefix(p, r)}
BaseUnder(p) == {r \in Under(p) : base[r] # Absent}
Children(p)  == {r \in Under(p) : Len(r) = Len(p) + 1}

(* readdirTypedAt lists the nodes of the commit and the entries in the        *)
(* directory; an entry further down lists the directory it is in, also if    *)
(* that has no node.                                                         *)
Listed(p) == {r \in Children(p) :
                \/ Merged[r] # Absent
                \/ entries[r] = NoEntry /\ \E s \in Under(r) : entries[s] # NoEntry}

-----------------------------------------------------------------------------
(* Entries *)

Created(c, m)    == [NoEntry EXCEPT !.kind = "create", !.data = c, !.mode = m]
Whiteout(target) == [NoEntry EXCEPT !.kind = "delete", !.target = target]
MkdirEntry       == [NoEntry EXCEPT !.kind = "mkdir", !.mode = "dir"]

(* EnsureCopyOnWriteFrom: the entry a file or link of the commit gets. *)
Promoted(p) ==
    [NoEntry EXCEPT !.kind = IF base[p].type = "symlink" THEN "symlink" ELSE "modify",
                    !.data = base[p].oid, !.mode = base[p].mode,
                    !.soid = base[p].oid, !.smode = base[p].mode]

(* ensureOverlay does nothing when there is an entry. *)
EnsureOverlay(p) == [entries EXCEPT ![p] = IF @ = NoEntry THEN Promoted(p) ELSE @]

(* WriteFile and Truncate: an entry that is not a create becomes a modify.   *)
Written(e, c) == [e EXCEPT !.data = c, !.kind = IF @ = "create" THEN @ ELSE "modify"]

UserOp(what, E) ==
    /\ ops < MaxOps /\ ops' = ops + 1
    /\ entries' = E
    /\ done' = what
    /\ UNCHANGED <<base, heads>>

FileAs(c, m) == [type |-> "file", oid |-> c, mode |-> m]

-----------------------------------------------------------------------------
(* Operations that name one path *)

(* Write and Truncate of an open file. *)
Write(p, c) ==
    /\ Exists(p) /\ Merged[p].type = "file" /\ c # Merged[p].oid
    /\ UserOp(<<"put", p, FileAs(c, Merged[p].mode)>>,
              [EnsureOverlay(p) EXCEPT ![p] = Written(@, c)])

Create(p, c, m) ==
    /\ Room(p)
    /\ UserOp(<<"put", p, FileAs(c, m)>>, [entries EXCEPT ![p] = Created(c, m)])

Symlink(p, c) ==
    /\ Room(p)
    /\ UserOp(<<"put", p, [type |-> "symlink", oid |-> c, mode |-> "link"]>>,
              [entries EXCEPT ![p] = [NoEntry EXCEPT !.kind = "symlink", !.data = c,
                                                     !.mode = "link"]])

Mkdir(p) ==
    /\ Room(p)
    /\ UserOp(<<"put", p, Dir>>, [entries EXCEPT ![p] = MkdirEntry])

(* chmod; on a link it is refused or has no effect git knows of. *)
SetMode(p, m) ==
    /\ Exists(p) /\ Merged[p].type = "file" /\ m # Merged[p].mode
    /\ UserOp(<<"put", p, FileAs(Merged[p].oid, m)>>,
              [EnsureOverlay(p) EXCEPT ![p].mode = m])

(* SetMtime, and SetMode of a directory: the path is promoted. *)
SetMtime(p) ==
    /\ Exists(p) /\ entries[p] = NoEntry /\ base[p].type \in {"file", "dir"}
    /\ UserOp(<<"nothing">>, IF base[p] = Dir THEN [entries EXCEPT ![p] = MkdirEntry]
                             ELSE EnsureOverlay(p))

Unlink(p) ==
    /\ Exists(p) /\ Merged[p].type # "dir"
    /\ UserOp(<<"remove", p>>, [entries EXCEPT ![p] = Whiteout(<<>>)])

Rmdir(p) ==
    /\ Exists(p) /\ Merged[p] = Dir /\ Listed(p) = {}
    /\ UserOp(<<"remove", p>>, [entries EXCEPT ![p] = Whiteout(<<>>)])

-----------------------------------------------------------------------------
(* Rename of a file or a link; both ends have been promoted *)

(* RenameAndMarkModifiedFromBase: onto a path of the commit. *)
MarkedModified(E, p, q) ==
    LET e == E[p] IN
    [E EXCEPT
       ![p] = IF e.kind = "symlink" /\ e.soid # None THEN Whiteout(<<>>) ELSE NoEntry,
       ![q] = [e EXCEPT !.kind = IF @ = "symlink" THEN @ ELSE "modify",
                        !.soid = base[q].oid, !.smode = base[q].mode]]

(* Rename of the overlay.  A chain of renames keeps its first source. *)
RenamedEntry(e, p) ==
    CASE e.kind = "create"  -> [e EXCEPT !.target = <<>>]
      [] e.kind = "symlink" -> [e EXCEPT !.soid = None, !.smode = None]
      [] e.kind = "rename"  -> e
      [] OTHER              -> [e EXCEPT !.kind = "rename", !.target = p]

LeftBehind(e, p) ==
    IF e.kind = "create" \/ (e.kind = "symlink" /\ e.soid = None) THEN NoEntry
    ELSE Whiteout(IF e.kind = "rename" THEN e.target ELSE p)

RenamedInOverlay(E, p, q) ==
    [E EXCEPT ![p] = LeftBehind(E[p], p), ![q] = RenamedEntry(E[p], p)]

(* Entries whose path the commit has too, although they do not stem from it. *)
Recreated(p)   == base[p] # Absent /\ entries[p].kind \in {"create", "symlink"}
                                   /\ entries[p].soid = None
RenamedOnto(p) == base[p] # Absent /\ entries[p].kind = "rename" /\ entries[p].target # p

RenameFile(p, q) ==
    /\ p # q /\ Exists(p) /\ Merged[p] # Dir
    /\ Room(q) \/ (Exists(q) /\ Merged[q] # Dir)
    /\ Recreated(p) => RecreatedMoves
    /\ RenamedOnto(p) => RenamedMovesOn
    /\ LET E == [r \in Paths |-> IF r = p \/ (r = q /\ Exists(q)) THEN EnsureOverlay(r)[r]
                                 ELSE entries[r]]
       IN IF base[q] = Dir THEN UserOp(<<"nothing">>, E)
          ELSE UserOp(<<"move", p, q>>,
                      IF base[q] # Absent /\ E[p].kind \in {"create", "symlink"}
                      THEN MarkedModified(E, p, q) ELSE RenamedInOverlay(E, p, q))

-----------------------------------------------------------------------------
(* Rename of a directory: the tree is promoted and moved as a whole *)

Rebase(r, p, q) == q \o SubSeq(r, Len(p) + 1, Len(r))

(* mergedTree walks what is listed; a listed path that does not resolve ends it. *)
Walkable(p) == \A r \in Under(p) : (r = p \/ Merged[r] = Dir) =>
                  \A s \in Listed(r) : Merged[s] # Absent

PromotedTree(p) ==
    [r \in Paths |-> IF r \in Under(p) /\ Exists(r) /\ entries[r] = NoEntry
                     THEN IF base[r] = Dir THEN MkdirEntry ELSE Promoted(r)
                     ELSE entries[r]]

(* renameTreeLocked: an entry that stems from the commit keeps its source.   *)
MovedEntry(e, s) ==
    IF base[s] = Absent THEN e
    ELSE IF e.kind = "modify"
    THEN [e EXCEPT !.kind = "rename", !.target = IF @ = <<>> THEN s ELSE @]
    ELSE IF e.kind = "symlink" THEN [e EXCEPT !.soid = None, !.smode = None] ELSE e

MovedTree(E, p, q) ==
    [r \in Paths |->
       IF r \in Under(q)
       THEN LET s == Rebase(r, q, p) IN
            IF s \in Paths /\ E[s] # NoEntry /\ E[s].kind # "delete" THEN MovedEntry(E[s], s)
            ELSE IF r # q /\ base[r] # Absent THEN Whiteout(r) ELSE NoEntry
       ELSE IF r \in Under(p)
       THEN IF base[r] # Absent THEN Whiteout(r) ELSE NoEntry
       ELSE E[r]]

RenameDir(p, q) ==
    /\ p # q /\ Exists(p) /\ Merged[p] = Dir /\ q \notin Under(p)
    /\ Room(q) \/ (Exists(q) /\ Merged[q] = Dir /\ Listed(q) = {})
    /\ Walkable(p)
    /\ \A r \in Under(p) : Exists(r) => Rebase(r, p, q) \in Paths
    /\ \A r \in Under(q) : r # q => entries[r].kind \in {"none", "delete"}
    /\ UserOp(<<"move", p, q>>, MovedTree(PromotedTree(p), p, q))

-----------------------------------------------------------------------------
(* HEAD moves: ReconcileChecked against the tree t of the new generation *)

(* overlayEntryMatchesBase *)
Matches(e, n) == e.data = n.oid /\ e.mode = n.mode

Source(e, p) == IF e.target = <<>> THEN p ELSE e.target

Adopt(e, n) == [e EXCEPT !.soid = n.oid, !.smode = n.mode]

(* An entry that is compared with a new version of what it was derived from. *)
Rebased(e, n) ==
    IF e.soid = n.oid /\ e.smode = n.mode THEN e
    ELSE IF Matches(e, n) THEN NoEntry ELSE Adopt(e, n)

AsCreate(e) == [e EXCEPT !.kind = "create", !.soid = None, !.smode = None]

(* A rename is over when the commit has the destination and not the source.  *)
Committed(e, p, t) ==
    e.kind = "rename" /\ t[p] # Absent /\ t[Source(e, p)] = Absent /\ Matches(e, t[p])

ReconciledRename(e, p, t) ==
    LET s == Source(e, p) IN
    IF Committed(e, p, t) THEN NoEntry
    ELSE IF t[s] # Absent THEN Adopt(e, t[s])
    ELSE IF t[p] # Absent THEN [Adopt(e, t[p]) EXCEPT !.kind = "modify", !.target = <<>>]
    ELSE [AsCreate(e) EXCEPT !.target = <<>>]

(* The sources of renames that are over or have lost their source. *)
StaleSources(t) ==
    {Source(entries[p], p) : p \in {r \in Paths : /\ entries[r].kind = "rename"
                                                  /\ t[Source(entries[r], r)] = Absent}}

(* Variant: a whiteout is dropped when some rename is over. *)
ReconciledWhiteoutEager(e, p, t) ==
    IF StaleSources(t) # {} \/ t[p] = Absent THEN NoEntry ELSE e

ReconciledWhiteout(e, p, t) ==
    IF \/ e.target # <<>> /\ e.target # p
       \/ p \in StaleSources(t) \/ e.target \in StaleSources(t)
       \/ t[p] = Absent
    THEN NoEntry ELSE e

Reconciled(p, t) ==
    LET e == entries[p]
        n == t[p]
    IN CASE e.kind = "modify"  -> IF n = Absent THEN AsCreate(e) ELSE Rebased(e, n)
         [] e.kind = "rename"  -> ReconciledRename(e, p, t)
         [] e.kind = "delete"  -> ReconciledWhiteout(e, p, t)
         [] e.kind = "create"  -> IF n = Absent THEN e
                                  ELSE IF Matches(e, n) THEN NoEntry
                                  ELSE [Adopt(e, n) EXCEPT !.kind = "modify"]
         [] e.kind = "mkdir"   -> IF n = Dir THEN NoEntry ELSE e
         [] e.kind = "symlink" -> IF n.type = "symlink" THEN Rebased(e, n) ELSE e
         [] OTHER              -> e

(* The overlay and t agree on what is a directory: what the user keeps has    *)
(* one to be in, and of t what is no directory for the user hides nothing,    *)
(* unless that stays removed.                                                *)
Agrees(t) ==
    \A p \in Held(entries) :
       /\ entries[p].kind # "delete" =>
             \A d \in Ancestors(p) : t[d] = Dir \/ entries[d].kind = "mkdir"
       /\ entries[p].kind # "mkdir" =>
             \A r \in Under(p) \ {p} : t[r] # Absent => Reconciled(r, t).kind = "delete"

HeadChange(t) ==
    /\ heads < MaxHeads /\ heads' = heads + 1
    /\ Agrees(t) \/ Conflicts
    /\ base' = t
    /\ entries' = [p \in Paths |-> Reconciled(p, t)]
    /\ done' = <<"checkout">>
    /\ UNCHANGED ops

(* The tree of a commit that records the changes of the user at K.  Git has   *)
(* no empty directories.                                                     *)
Staged(K) ==
    LET Leaf(p) == IF p \in K THEN Merged[p] ELSE base[p]
        Leaves(p) == {r \in Under(p) : Leaf(r) \notin {Absent, Dir}}
    IN [p \in Paths |-> IF p \in Leaves(p) THEN Leaf(p)
                        ELSE IF Leaves(p) # {} THEN Dir ELSE Absent]

Commit(K) == heads < MaxHeads /\ IsTree(Staged(K)) /\ HeadChange(Staged(K))

-----------------------------------------------------------------------------
Next ==
    \/ \E p \in Paths, c \in Contents :
         Write(p, c) \/ Symlink(p, c) \/ \E m \in FileModes : Create(p, c, m)
    \/ \E p \in Paths, m \in FileModes : SetMode(p, m)
    \/ \E p \in Paths : Mkdir(p) \/ SetMtime(p) \/ Unlink(p) \/ Rmdir(p)
    \/ \E p, q \in Paths : RenameFile(p, q) \/ RenameDir(p, q)
    \/ \E t \in Trees : HeadChange(t)
    \/ \E K \in SUBSET Held(entries) : Commit(K)

Spec == Init /\ [][Next]_vars

-----------------------------------------------------------------------------
(* Properties *)

(* The tree of the user: every operation does to the merged view what it      *)
(* says, and work outlives a change of HEAD (Engine, Resolver, Reconcile).   *)
View == INSTANCE Namespace WITH tree <- Merged, touched <- Held(entries)
ImplementsNamespace == View!Spec

(* A file that was renamed is no longer found under its old name (Rename and  *)
(* RenameAndMarkModifiedFromBase leave no whiteout for an entry without a     *)
(* source, also if the commit has a file of that name).                       *)
OldNameIsFree ==
    [][\A p, q \in Paths : done' = <<"move", p, q>> /\ p # q => Merged'[p] = Absent]_vars

(* What the user removed does not come back when HEAD moves (ReconcileChecked *)
(* drops every whiteout whose target_path names another path).                *)
RemovedStaysRemoved ==
    [][\A p \in Paths : heads' # heads /\ base[p] # Absent /\ Merged[p] = Absent
          => Merged'[p] = Absent]_vars

(* What the user made or changed stays visible when HEAD moves, also if the   *)
(* new commit lacks the directory it is in (ReconcileChecked keeps the entry  *)
(* but makes none for the directory, and resolvePath finds only entries and   *)
(* nodes).                                                                    *)
WorkStaysVisible ==
    [][\A p \in Paths : heads' # heads /\ Merged[p] \notin {base[p], Absent}
          => Merged'[p] # Absent]_vars

=============================================================================
