------------------------------- MODULE Source ------------------------------
(***************************************************************************)
(* The git directory of one repository and the preparations that change it: *)
(* cloneBlobless, which clones beside it and renames; fetchRef and          *)
(* PrepareFetchedBranch, which move the index, the branch and HEAD of a     *)
(* directory that is in use to what was fetched, and roll back what they    *)
(* did when a later step fails; PrepareSource, which acquires and verifies  *)
(* one required commit in a candidate directory and puts it in the place of *)
(* the old one; prepareRepo runs the two one after the other.  Meanwhile    *)
(* the user stages, commits and changes branches, upstream moves, git       *)
(* commands fail, contexts end and processes die.                           *)
(***************************************************************************)
EXTENDS Naturals, Sequences

CONSTANTS
    Paths,
    Kinds,        \* what repositories there are: "clone", "ref", "prepared", "fixed"
    Tries,        \* attempts of a clone or fetch: len(gitRetryDelays) + 1
    MaxPushes,    \* commits that appear upstream (a bound)
    MaxEdits,     \* steps of the user, by kind (a bound)
    MaxAttempts,  \* preparations, by kind (a bound)
    MaxFaults,    \* calls that fail, contexts that end, crashes (a bound)
    AnyTime       \* what may also happen: a commit or checkout of the "user", or a "push"
                  \* upstream, when the index was moved and HEAD was not (by this preparation or by
                  \* one that was cut off); a rollback that does only its second "half"

ASSUME ConstantsAssumption ==
    /\ Paths # {} /\ Kinds \subseteq {"clone", "ref", "prepared", "fixed"}
    /\ Tries \in Nat \ {0} /\ {MaxPushes, MaxFaults} \subseteq Nat
    /\ {MaxEdits, MaxAttempts} \subseteq [Kinds -> Nat]
    /\ AnyTime \subseteq {"user", "push", "half"}

VARIABLES
    kind,       \* a branch is cloned; another ref is fetched; the user made the
                \* directory; one commit is required
    objects,    \* the commits: their ancestors and their tree
    upstream,   \* the commit of the ref on the remote
    required,   \* RequiredCommit of the row (a change of it is a new version)
    receipt,    \* AcquiredCommit in the registry; 0: none
    dir,        \* the git directory
    candidate, backup, \* directories beside it
    pc, a,      \* where the preparation is; the RequiredCommit and AcquiredCommit it read, its oid,
                \* oldOID, oldBranchOID, tries, is its context dead
    result,     \* how the last one ended: "ok", "failed", "refused"; "placed": HEAD of the
                \* directory in place is at the required commit; "none": the user or the row came after it
    mine,       \* commits the user made on the branch (history)
    spent       \* what has been used of the bounds

vars == <<kind, objects, upstream, required, receipt, dir, candidate, backup, pc, a, result, mine, spent>>

(* Contents of a path: nothing, what the user wrote, the pushes.             *)
Nothing == 0
Mine    == 1
Content == 0 .. MaxPushes + 2
Trees   == [Paths -> Content]
Empty   == [p \in Paths |-> Nothing]

Branches == {"main", "dev"}
Refs     == Branches \cup {"HEAD"}
Commits  == 0 .. Len(objects)   \* 0: no commit

(* A commit: the commits of its history, itself one of them, and its tree. *)
Object == [past : SUBSET Nat, tree : Trees]

NoDir == [there |-> FALSE, refs |-> [r \in Refs |-> 0], head |-> "main",
          tracking |-> 0, index |-> Empty, got |-> 0]
Made  == [NoDir EXCEPT !.there = TRUE]   \* by the user, with git init
Idle  == [want |-> 0, read |-> 0, oid |-> 0, old |-> 0, expected |-> 0, tries |-> 0, dead |-> FALSE]

(* head: the branch HEAD names, or "HEAD" when it is detached; got: the       *)
(* commit the directory was acquired for.                                    *)
Dirs == [there : BOOLEAN, refs : [Refs -> Commits], head : Refs, tracking : Commits,
         index : Trees, got : Commits]

PCs == {"idle", "receipt", "acquire", "install", "swap", "record", "clone", "rename", "fetch",
        "resolve", "expect", "merge", "refs", "head", "unref", "unmerge"}

Objects ==
    /\ objects \in Seq(Object)
    /\ \A i \in 1 .. Len(objects) : i \in objects[i].past /\ objects[i].past \subseteq 1 .. i

Attempts == [want : Commits, read : Commits, oid : Commits, old : Commits, expected : Commits,
             tries : 0 .. Tries - 1, dead : BOOLEAN]
Results  == {"none", "placed", "ok", "failed", "refused"}
Spending == [pushes : 0 .. MaxPushes, edits : 0 .. MaxEdits[kind],
             attempts : 0 .. MaxAttempts[kind], faults : 0 .. MaxFaults]

TypeOK ==
    /\ kind \in Kinds /\ Objects
    /\ upstream \in Commits /\ required \in Commits /\ receipt \in Commits
    /\ dir \in Dirs /\ candidate \in Dirs /\ backup \in Dirs
    /\ pc \in PCs /\ a \in Attempts /\ result \in Results
    /\ mine \subseteq Commits \ {0} /\ spent \in Spending

Init ==
    /\ kind \in Kinds
    /\ objects = <<[past |-> {1}, tree |-> [p \in Paths |-> 2]]>> /\ upstream = 1
    /\ required = 1 /\ receipt = 0
    /\ dir \in {Made} \cup (IF kind = "prepared" THEN {} ELSE {NoDir})
    /\ candidate = NoDir /\ backup = NoDir
    /\ pc = "idle" /\ a = Idle /\ result = "none" /\ mine = {}
    /\ spent = [pushes |-> 0, edits |-> 0, attempts |-> 0, faults |-> 0]

Spend(what, max) == spent[what] < max /\ spent' = [spent EXCEPT ![what] = @ + 1]

-----------------------------------------------------------------------------
(* Git *)

TreeOf(c) == IF c = 0 THEN Empty ELSE objects[c].tree
Past(c)   == IF c = 0 THEN {} ELSE objects[c].past
HEAD      == dir.refs[dir.head]

(* read-tree -m old new: a path of the index that is neither is in the way,   *)
(* unless old and new agree on it.                                           *)
Merges(index, old, new) ==
    \A p \in Paths : old[p] = new[p] \/ index[p] \in {old[p], new[p]}
Merged(index, old, new) ==
    [p \in Paths |-> IF old[p] = new[p] THEN index[p] ELSE new[p]]

Staged == {p \in Paths : dir.index[p] # TreeOf(HEAD)[p]}

(* A directory that was just cloned, or acquired for a commit.               *)
Fresh(ref, c) ==
    [there |-> TRUE, refs |-> [NoDir.refs EXCEPT ![ref] = c], head |-> ref,
     tracking |-> c, index |-> TreeOf(c), got |-> c]

-----------------------------------------------------------------------------
(* Upstream and the user *)

(* A preparation stopped after it moved the index and before the branch. *)
Torn == dir.there /\ \E p \in Staged : dir.index[p] # Mine

Push ==
    /\ "push" \in AnyTime \/ kind = "fixed" \/ (pc = "idle" /\ ~Torn)
    /\ Spend("pushes", MaxPushes)
    /\ \E P \in (SUBSET Paths) \ {{}} :
         objects' = Append(objects, [past |-> Past(upstream) \cup {Len(objects) + 1},
             tree |-> [p \in Paths |-> IF p \in P THEN spent.pushes + 3 ELSE TreeOf(upstream)[p]]])
    /\ upstream' = Len(objects')
    /\ UNCHANGED <<kind, required, receipt, dir, candidate, backup, pc, a, result, mine>>

(* add-repo with another required commit, at any time: the row is written     *)
(* anew, without the receipt.                                                *)
Require ==
    /\ kind = "fixed" /\ required # upstream
    /\ required' = upstream /\ receipt' = 0 /\ result' = "none"
    /\ UNCHANGED <<kind, objects, upstream, dir, candidate, backup, pc, a, mine, spent>>

UserDoes(d, o, m) ==
    /\ dir.there /\ Spend("edits", MaxEdits[kind]) /\ dir' = d /\ objects' = o /\ mine' = m
    /\ result' = "none" /\ UNCHANGED <<kind, upstream, required, receipt, candidate, backup, pc, a>>

Stage(p) == dir.index[p] # Mine /\ UserDoes([dir EXCEPT !.index[p] = Mine], objects, mine)

Between(steps) == "user" \notin AnyTime /\ pc \in steps \cup {"refs", "head", "unref", "unmerge"}

(* HEAD was read: what a preparation before this one left in the index is not *)
(* committed now.                                                            *)
Commit ==
    /\ Staged # {} /\ ~Between(IF Torn THEN {"expect", "merge"} ELSE {})
    /\ LET c == Len(objects) + 1 IN
         UserDoes([dir EXCEPT !.refs[dir.head] = c],
                  Append(objects, [past |-> Past(HEAD) \cup {c}, tree |-> dir.index]),
                  IF dir.head = "main" THEN mine \cup {c} ELSE mine)

(* checkout, checkout -b *)
Switch(b) ==
    /\ dir.head # b /\ HEAD # 0 /\ Staged = {} /\ ~Between({"expect", "merge"})
    /\ LET c == IF dir.refs[b] = 0 THEN HEAD ELSE dir.refs[b] IN
         UserDoes([dir EXCEPT !.head = b, !.refs[b] = c, !.index = TreeOf(c)], objects, mine)

-----------------------------------------------------------------------------
(* A preparation *)

To(step) ==
    /\ pc' = step /\ UNCHANGED <<kind, objects, upstream, required, mine>>
Ends(how) == To("idle") /\ a' = Idle /\ result' = how

(* What was fetched is in place.  A required commit is looked for next.      *)
FetchDone ==
    IF kind = "fixed"
    THEN To("receipt") /\ a' = [Idle EXCEPT !.want = a.want, !.read = a.read] /\ UNCHANGED result
    ELSE Ends("ok")

(* A directory that is there is fetched into; before a required commit only   *)
(* prepareRepo does, where the row has a remote, and neither the worker nor   *)
(* the mount.  The row may have been read before the last receipt of it.      *)
Begin ==
    /\ pc = "idle" /\ Spend("attempts", MaxAttempts[kind])
    /\ \/ dir.there /\ To("fetch")
       \/ kind # "fixed" /\ ~dir.there /\ To("clone")
       \/ kind = "fixed" /\ To("receipt")
    /\ \E read \in {0, receipt} :
         a' = [Idle EXCEPT !.want = IF kind = "fixed" THEN required ELSE 0, !.read = read]
    /\ result' = "none" /\ UNCHANGED <<receipt, dir, candidate, backup>>

(* A call fails.  If it is the context that ended, every later one fails too. *)
Fault(dead) ==
    /\ ~a.dead /\ Spend("faults", MaxFaults) /\ a' = [a EXCEPT !.dead = dead]
Fails == (a.dead /\ UNCHANGED <<a, spent>>) \/ \E dead \in BOOLEAN : Fault(dead)

(* ctx.Err() is looked at before every git command. *)
Runs == ~a.dead /\ UNCHANGED spent

(* Variant: one more. *)
RetriesOnceMore ==
    /\ pc \in {"clone", "acquire", "fetch"} /\ a.tries < Tries
    /\ ~a.dead /\ Spend("faults", MaxFaults) /\ a' = [a EXCEPT !.tries = @ + 1]
    /\ candidate' = NoDir /\ To(pc) /\ UNCHANGED <<receipt, dir, backup, result>>

(* retryGitOperation: a transient failure is tried again in a directory of    *)
(* its own; what was there of the last one is removed.                       *)
Retries ==
    /\ pc \in {"clone", "acquire", "fetch"} /\ a.tries + 1 < Tries
    /\ ~a.dead /\ Spend("faults", MaxFaults) /\ a' = [a EXCEPT !.tries = @ + 1]
    /\ candidate' = NoDir /\ To(pc) /\ UNCHANGED <<receipt, dir, backup, result>>

(* A step with nothing to undo fails. *)
StepFails ==
    /\ pc \in {"receipt", "clone", "acquire", "rename", "install", "fetch", "resolve", "expect", "merge", "record"}
    /\ a.dead \/ spent.faults < MaxFaults
    /\ spent' = [spent EXCEPT !.faults = IF a.dead THEN @ ELSE @ + 1]
    /\ candidate' = NoDir /\ Ends("failed") /\ UNCHANGED <<receipt, dir, backup>>

(* cloneBlobless: clone, read-tree HEAD, and only then the rename. *)
Clone ==
    /\ pc = "clone" /\ Runs /\ To("rename")
    /\ candidate' = Fresh(IF kind = "ref" THEN "HEAD" ELSE "main", upstream)
    /\ UNCHANGED <<receipt, dir, backup, a, result>>

Rename ==
    /\ pc = "rename" /\ Runs /\ dir' = candidate /\ candidate' = NoDir /\ Ends("ok")
    /\ UNCHANGED <<receipt, backup>>

(* fetchRef *)
Fetch ==
    /\ pc = "fetch" /\ Runs /\ dir' = [dir EXCEPT !.tracking = upstream] /\ To("resolve")
    /\ UNCHANGED <<receipt, candidate, backup, a, result>>

(* Variant: the index is taken to be that of the branch. *)
ResolveBranch ==
    /\ pc = "resolve" /\ Runs /\ To("expect")
    /\ a' = [a EXCEPT !.oid = dir.tracking, !.old = dir.refs["main"]]
    /\ UNCHANGED <<receipt, dir, candidate, backup, result>>

(* PrepareFetchedBranch *)
Resolve ==
    /\ pc = "resolve" /\ Runs /\ a' = [a EXCEPT !.oid = dir.tracking, !.old = HEAD] /\ To("expect")
    /\ UNCHANGED <<receipt, dir, candidate, backup, result>>

Target == IF kind = "ref" THEN "HEAD" ELSE "main"

(* What the ref is expected to be when it is moved; preparedBranchExpectedOID *)
(* refuses to leave a commit of the user behind.  HEAD is read after the      *)
(* index has been moved.                                                     *)
Expect ==
    /\ pc = "expect" /\ Runs
    /\ IF kind = "prepared" /\ dir.refs["main"] \notin {0} \cup Past(a.oid)
       THEN Ends("refused")
       ELSE To("merge") /\ a' = [a EXCEPT !.expected = dir.refs[Target]] /\ UNCHANGED result
    /\ UNCHANGED <<receipt, dir, candidate, backup>>

MergeIndex ==
    /\ pc = "merge" /\ Runs
    /\ IF Merges(dir.index, TreeOf(a.old), TreeOf(a.oid))
       THEN /\ dir' = [dir EXCEPT !.index = Merged(@, TreeOf(a.old), TreeOf(a.oid))]
            /\ To("refs") /\ UNCHANGED <<a, result>>
       ELSE Ends("refused") /\ UNCHANGED dir
    /\ UNCHANGED <<receipt, candidate, backup>>

(* Variant: the old value is not given. *)
MoveRefBlindly ==
    /\ pc = "refs" /\ Runs /\ To("head")
    /\ dir' = [dir EXCEPT !.refs["main"] = a.oid]
    /\ UNCHANGED <<receipt, candidate, backup, a, result>>

(* update-ref with the old value: the branch; or HEAD itself, as it is now.   *)
MoveRef ==
    /\ pc = "refs" /\ Runs
    /\ IF kind = "ref"
       THEN dir' = [dir EXCEPT !.refs["HEAD"] = a.oid, !.head = "HEAD"] /\ FetchDone
       ELSE IF dir.refs["main"] = a.expected
       THEN dir' = [dir EXCEPT !.refs["main"] = a.oid] /\ To("head") /\ UNCHANGED <<a, result>>
       ELSE To("unmerge") /\ UNCHANGED <<dir, a, result>>
    /\ UNCHANGED <<receipt, candidate, backup>>

MoveRefFails ==
    /\ pc = "refs" /\ Fails /\ To("unmerge")
    /\ UNCHANGED <<receipt, dir, candidate, backup, result>>

(* Variant: only the index is rolled back. *)
MoveHeadFailsHalf ==
    /\ pc = "head" /\ Fails /\ To("unmerge")
    /\ UNCHANGED <<receipt, dir, candidate, backup, result>>

(* symbolic-ref HEAD; set-upstream-to is only logged if it fails. *)
MoveHead ==
    /\ pc = "head" /\ Runs /\ dir' = [dir EXCEPT !.head = "main"] /\ FetchDone
    /\ UNCHANGED <<receipt, candidate, backup>>

MoveHeadFails ==
    /\ pc = "head" /\ Fails /\ To("unref")
    /\ UNCHANGED <<receipt, dir, candidate, backup, result>>

(* restoreRef: if the branch is still where the preparation put it.           *)
RestoreRef ==
    /\ pc = "unref" /\ To("unmerge")
    /\ \/ Runs /\ UNCHANGED a
          /\ dir' = IF dir.refs["main"] = a.oid THEN [dir EXCEPT !.refs["main"] = a.expected] ELSE dir
       \/ a.dead /\ UNCHANGED <<a, spent, dir>>
       \/ "half" \in AnyTime /\ Fails /\ UNCHANGED dir
    /\ UNCHANGED <<receipt, candidate, backup, result>>

(* rollbackIndexTransition *)
RestoreIndex ==
    /\ pc = "unmerge" /\ Ends("failed")
    /\ \/ /\ Runs /\ Merges(dir.index, TreeOf(a.oid), TreeOf(a.old))
          /\ dir' = [dir EXCEPT !.index = Merged(@, TreeOf(a.oid), TreeOf(a.old))]
       \/ Runs /\ ~Merges(dir.index, TreeOf(a.oid), TreeOf(a.old)) /\ UNCHANGED dir
       \/ a.dead /\ UNCHANGED <<dir, spent>>
       \/ ~a.dead /\ Spend("faults", MaxFaults) /\ UNCHANGED dir
    /\ UNCHANGED <<receipt, candidate, backup>>

-----------------------------------------------------------------------------
(* A required commit: PrepareSource and recordAcquisition *)

(* The row that was read has the receipt of the commit, and the directory the *)
(* commit.                                                                   *)
Acquired == a.read = a.want /\ dir.there /\ dir.got = a.want

(* Variant: HEAD is left where the user has it. *)
ReceiptTrusted ==
    /\ pc = "receipt" /\ Runs /\ UNCHANGED <<receipt, dir, candidate, backup, a>>
    /\ IF Acquired THEN To("record") /\ result' = "placed" ELSE To("acquire") /\ UNCHANGED result

(* The commit the row was registered for is there already: only HEAD is set,  *)
(* not the index.  A rev-parse that fails means that it is not there.         *)
Receipt ==
    /\ pc = "receipt"
    /\ \/ /\ Acquired /\ Runs /\ To("record") /\ result' = "placed" /\ UNCHANGED a
          /\ dir' = [dir EXCEPT !.refs["HEAD"] = a.want, !.head = "HEAD"]
       \/ /\ ~Acquired /\ Runs /\ To("acquire") /\ UNCHANGED <<dir, a, result>>
       \/ /\ Fault(FALSE) /\ To("acquire") /\ UNCHANGED <<dir, result>>
    /\ UNCHANGED <<receipt, candidate, backup>>

(* Into a new directory; what the ref resolves to must be the commit.         *)
Acquire ==
    /\ pc = "acquire" /\ Runs
    /\ IF upstream = a.want
       THEN candidate' = Fresh("HEAD", a.want) /\ To("install") /\ UNCHANGED <<a, result>>
       ELSE candidate' = NoDir /\ Ends("failed")
    /\ UNCHANGED <<receipt, dir, backup>>

(* Variant: the old directory is removed. *)
InstallOver ==
    /\ pc = "install" /\ UNCHANGED <<receipt, backup, a, result, spent>>
    /\ IF dir.there
       THEN dir' = NoDir /\ To("swap") /\ UNCHANGED candidate
       ELSE dir' = candidate /\ candidate' = NoDir /\ To("record")

(* installGitDir *)
Install ==
    /\ pc = "install" /\ UNCHANGED <<receipt, a, spent>>
    /\ IF dir.there
       THEN backup' = dir /\ dir' = NoDir /\ To("swap") /\ UNCHANGED <<candidate, result>>
       ELSE /\ dir' = candidate /\ candidate' = NoDir /\ To("record") /\ result' = "placed"
            /\ UNCHANGED backup

Swap ==
    /\ pc = "swap" /\ dir' = candidate /\ candidate' = NoDir /\ backup' = NoDir
    /\ To("record") /\ result' = "placed" /\ UNCHANGED <<receipt, a, spent>>

(* The old one is put back, if that works. *)
SwapFails ==
    /\ pc = "swap" /\ Spend("faults", MaxFaults) /\ Ends("failed") /\ candidate' = NoDir
    /\ (dir' = backup /\ backup' = NoDir) \/ UNCHANGED <<dir, backup>>
    /\ UNCHANGED receipt

(* Variant: whatever the row is now. *)
RecordAnyway ==
    /\ pc = "record" /\ Runs /\ receipt' = a.want /\ Ends("ok")
    /\ UNCHANGED <<dir, candidate, backup>>

(* recordAcquisition: if the row is still the one that was prepared. *)
Record ==
    /\ pc = "record" /\ Runs
    /\ IF required = a.want THEN receipt' = a.want /\ Ends(IF result = "placed" THEN "ok" ELSE "none")
                           ELSE UNCHANGED receipt /\ Ends("failed")
    /\ UNCHANGED <<dir, candidate, backup>>

(* The process dies; nothing looks for the candidate it leaves. *)
Crash ==
    /\ pc # "idle" /\ Spend("faults", MaxFaults)
    /\ To("idle") /\ a' = Idle /\ candidate' = NoDir /\ UNCHANGED <<receipt, dir, backup, result>>

Next ==
    \/ Push \/ Require \/ Commit
    \/ \E p \in Paths : Stage(p)
    \/ \E b \in Branches : Switch(b)
    \/ Begin \/ Retries \/ StepFails \/ Crash
    \/ Clone \/ Rename \/ Fetch \/ Resolve \/ Expect \/ MergeIndex
    \/ MoveRef \/ MoveRefFails \/ MoveHead \/ MoveHeadFails \/ RestoreRef \/ RestoreIndex
    \/ Receipt \/ Acquire \/ Install \/ Swap \/ SwapFails \/ Record

Spec == Init /\ [][Next]_vars

-----------------------------------------------------------------------------
(* A commit that the user made on the branch of a prepared directory is still *)
(* in its history, whenever the user made it and whatever failed             *)
(* (preparedBranchExpectedOID, the old value update-ref is given).            *)
CommitsKept == kind = "prepared" => mine \subseteq Past(dir.refs["main"])

(* No commit but the one it was acquired for was fetched into a directory     *)
(* with a required commit.  Where one was, PrepareFetchedBranch moved the     *)
(* index to it, and Receipt moves only HEAD back.                            *)
IndexAlone == kind = "fixed" => dir.tracking = dir.got

(* After a preparation that succeeded git status shows the user's own changes *)
(* as staged and nothing else: index, branch and HEAD were moved together,    *)
(* also if an earlier preparation failed halfway (PrepareFetchedBranch).  It  *)
(* is not so of a required commit with another one fetched (IndexAlone).      *)
StagedIsUsers ==
    result = "ok" /\ IndexAlone => \A p \in Staged : dir.index[p] = Mine

(* A preparation is refused only for what the user did: a change that is      *)
(* staged, or a commit on the branch of a directory of their own that         *)
(* upstream does not have.  What an earlier preparation left behind is never  *)
(* in the way of the next, with the same exception (read-tree -m).            *)
RefusedForCause ==
    result = "refused" /\ IndexAlone =>
        \/ \E p \in Paths : dir.index[p] = Mine
        \/ kind = "prepared" /\ dir.refs["main"] \notin {0} \cup Past(dir.tracking)

(* A repository with a required commit is prepared at that commit, whatever   *)
(* the user had checked out and however often it changed (PrepareSource).     *)
FixedIsRequired ==
    kind = "fixed" /\ result = "ok" =>
        dir.there /\ dir.head = "HEAD" /\ HEAD = required /\ receipt = required

(* The acquisition in the registry is that of the directory that is there,    *)
(* though the row may change at any step (RecordAcquisition).                 *)
ReceiptIsTrue == receipt # 0 /\ dir.there => dir.got = receipt

(* While a git directory is replaced the old one, with the user's commits,    *)
(* stays as it is, in its place or beside it, whatever fails or dies, until   *)
(* one with HEAD at the verified commit is there; then it is dropped, and the *)
(* commits only it has with it (installGitDir).                              *)
DirKept ==
    [][/\ dir.there => backup' = dir \/ (dir'.there /\ dir'.got = dir.got)
       /\ ~dir.there /\ backup.there =>
            \/ backup \in {dir', backup'}
            \/ dir'.there /\ dir'.head = "HEAD" /\ {dir'.refs["HEAD"], dir'.got} = {a.want}]_vars

============================================================================
