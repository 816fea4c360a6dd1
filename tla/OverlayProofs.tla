--------------------------- MODULE OverlayProofs ----------------------------
(* Overlay implements Namespace, for any paths, trees, contents and numbers   *)
(* of operations and of changes of HEAD.                                     *)
EXTENDS Overlay, SequenceTheorems, TLAPS

-----------------------------------------------------------------------------
(* Paths *)

Names == STRING

LEMMA PathSeqs == \A p \in Paths : /\ p \in Seq(Names) /\ Len(p) \in Nat \ {0}
                                   /\ SubSeq(p, 1, Len(p)) = p
<1>1. ASSUME NEW p \in Paths PROVE p \in Seq(Names) /\ p # <<>>
  BY <1>1, ConstantsAssumption DEF ConstantsAssumption, Names
<1>2. ASSUME NEW p \in Paths PROVE Len(p) \in Nat \ {0} /\ SubSeq(p, 1, Len(p)) = p
  BY <1>1, EmptySeq, SubSeqFull
<1> QED
  BY <1>1, <1>2

LEMMA SeqLengths == \A s \in Seq(Names) : Len(s) \in Nat /\ SubSeq(s, 1, Len(s)) = s
  BY SubSeqFull

LEMMA FrontPart ==
    \A s \in Seq(Names) : \A n \in 0 .. Len(s) :
       /\ SubSeq(s, 1, n) \in Seq(Names) /\ Len(SubSeq(s, 1, n)) = n
       /\ \A i \in 1 .. n : SubSeq(s, 1, n)[i] = s[i]
  OBVIOUS

LEMMA SameSeq ==
    \A s, r \in Seq(Names) : Len(s) = Len(r) /\ (\A i \in 1 .. Len(s) : s[i] = r[i]) => s = r
  BY SeqEqual

LEMMA PrefixIs ==
    ASSUME NEW s \in Seq(Names), NEW r \in Seq(Names)
    PROVE  /\ IsPrefix(s, r) => Len(s) <= Len(r) /\ \A i \in 1 .. Len(s) : s[i] = r[i]
           /\ Len(s) <= Len(r) /\ (\A i \in 1 .. Len(s) : s[i] = r[i]) => IsPrefix(s, r)
<1>1. Len(s) \in Nat /\ Len(r) \in Nat /\ SubSeq(s, 1, Len(s)) = s
  BY SeqLengths
<1>2. CASE Len(s) <= Len(r)
  <2> DEFINE f == SubSeq(r, 1, Len(s))
  <2>1. Len(s) \in 0 .. Len(r)
    BY <1>1, <1>2
  <2>2. f \in Seq(Names) /\ Len(f) = Len(s) /\ \A i \in 1 .. Len(s) : f[i] = r[i]
    BY <2>1, FrontPart
  <2>3. IsPrefix(s, r) <=> s = f
    BY <1>1, <1>2 DEF IsPrefix
  <2> HIDE DEF f
  <2>4. (\A i \in 1 .. Len(s) : s[i] = f[i]) => s = f
    BY <2>2, SameSeq
  <2>5. IsPrefix(s, r) => Len(s) <= Len(r) /\ \A i \in 1 .. Len(s) : s[i] = r[i]
    BY <1>2, <2>2, <2>3
  <2>6. (\A i \in 1 .. Len(s) : s[i] = r[i]) => IsPrefix(s, r)
    BY <2>2, <2>3, <2>4
  <2> QED
    BY <1>2, <2>5, <2>6
<1>3. CASE ~(Len(s) <= Len(r))
  <2>1. ~IsPrefix(s, r)
    BY <1>3 DEF IsPrefix
  <2> QED
    BY <1>3, <2>1
<1> QED
  BY <1>2, <1>3

LEMMA PathPrefixes ==
    /\ \A p, q \in Paths : IsPrefix(p, q) => Len(p) <= Len(q) /\ \A i \in 1 .. Len(p) : p[i] = q[i]
    /\ \A p, q \in Paths : Len(p) <= Len(q) /\ (\A i \in 1 .. Len(p) : p[i] = q[i]) => IsPrefix(p, q)
<1>1. ASSUME NEW p \in Paths, NEW q \in Paths
      PROVE  /\ IsPrefix(p, q) => Len(p) <= Len(q) /\ \A i \in 1 .. Len(p) : p[i] = q[i]
             /\ Len(p) <= Len(q) /\ (\A i \in 1 .. Len(p) : p[i] = q[i]) => IsPrefix(p, q)
  <2>1. p \in Seq(Names) /\ q \in Seq(Names)
    BY PathSeqs
  <2> QED
    BY <2>1, PrefixIs
<1> QED
  BY <1>1

(* The directories above a path are its prefixes. *)
LEMMA AncestorsOf ==
    ASSUME NEW p \in Paths
    PROVE  /\ Ancestors(p) \subseteq Paths
           /\ \A d \in Paths : d \in Ancestors(p) <=> IsPrefix(d, p) /\ d # p
<1>1. Ancestors(p) \subseteq Paths /\ p \in Seq(Names) /\ Len(p) \in Nat \ {0}
  BY PathSeqs, ConstantsAssumption DEF ConstantsAssumption
<1>2. ASSUME NEW d \in Paths, d \in Ancestors(p) PROVE IsPrefix(d, p) /\ d # p
  <2>1. PICK n \in 1 .. Len(p) - 1 : d = SubSeq(p, 1, n)
    BY <1>2 DEF Ancestors
  <2>2. n \in 0 .. Len(p) /\ n # Len(p)
    BY <1>1
  <2>3. Len(d) = n /\ \A i \in 1 .. n : d[i] = p[i]
    BY <1>1, <2>1, <2>2, FrontPart
  <2> QED
    BY <1>1, <2>2, <2>3, PathSeqs, PrefixIs
<1>3. ASSUME NEW d \in Paths, IsPrefix(d, p), d # p PROVE d \in Ancestors(p)
  <2>1. d = SubSeq(p, 1, Len(d)) /\ Len(d) <= Len(p) /\ Len(d) \in Nat \ {0}
    BY <1>3, PathSeqs DEF IsPrefix
  <2>2. Len(d) # Len(p)
    BY <1>3, <2>1, PathSeqs
  <2>3. Len(d) \in 1 .. Len(p) - 1
    BY <1>1, <2>1, <2>2
  <2> QED
    BY <2>1, <2>3 DEF Ancestors
<1> QED
  BY <1>1, <1>2, <1>3

(* What IsPrefix is among paths. *)
LEMMA PrefixOrder ==
    /\ \A p \in Paths : IsPrefix(p, p)
    /\ \A p, q, r \in Paths : IsPrefix(p, q) /\ IsPrefix(q, r) => IsPrefix(p, r)
    /\ \A p, q \in Paths : IsPrefix(p, q) /\ IsPrefix(q, p) => p = q
    /\ \A p, q, r \in Paths : IsPrefix(p, r) /\ IsPrefix(q, r) => IsPrefix(p, q) \/ IsPrefix(q, p)
<1>1. \A p \in Paths : p \in Seq(Names) /\ Len(p) \in Nat
  BY PathSeqs
<1>2. /\ \A p, q \in Paths : IsPrefix(p, q) => Len(p) <= Len(q) /\ \A i \in 1 .. Len(p) : p[i] = q[i]
      /\ \A p, q \in Paths : Len(p) <= Len(q) /\ (\A i \in 1 .. Len(p) : p[i] = q[i]) => IsPrefix(p, q)
  BY PathPrefixes
<1>3. ASSUME NEW p \in Paths, NEW q \in Paths, IsPrefix(p, q), IsPrefix(q, p) PROVE p = q
  <2>1. Len(p) = Len(q) /\ \A i \in 1 .. Len(p) : p[i] = q[i]
    BY <1>1, <1>2, <1>3
  <2> QED
    BY <1>1, <2>1, SeqEqual
<1>4. ASSUME NEW p \in Paths, NEW q \in Paths, NEW r \in Paths, IsPrefix(p, r), IsPrefix(q, r)
      PROVE  IsPrefix(p, q) \/ IsPrefix(q, p)
  <2>1. CASE Len(p) <= Len(q)
    BY <1>1, <1>2, <1>4, <2>1
  <2>2. CASE Len(q) <= Len(p)
    BY <1>1, <1>2, <1>4, <2>2
  <2> QED
    BY <1>1, <2>1, <2>2
<1>5. ASSUME NEW p \in Paths, NEW q \in Paths, NEW r \in Paths, IsPrefix(p, q), IsPrefix(q, r) PROVE IsPrefix(p, r)
  BY <1>1, <1>2, <1>5
<1> QED
  BY <1>1, <1>2, <1>3, <1>4, <1>5

(* What is in a directory, at any depth, is one of its children or in one. *)
LEMMA ChildOf ==
    ASSUME NEW p \in Paths, NEW r \in Under(p), r # p
    PROVE  \E c \in Children(p) : IsPrefix(c, r) /\ c # p
<1>1. r \in Paths /\ IsPrefix(p, r) /\ r \in Seq(Names) /\ p \in Seq(Names) /\ Len(p) \in Nat \ {0}
      /\ Len(r) \in Nat
  BY PathSeqs DEF Under
<1>2. Len(p) <= Len(r) /\ \A i \in 1 .. Len(p) : p[i] = r[i]
  BY <1>1, PrefixIs
<1>3. Len(p) # Len(r)
  BY <1>1, <1>2, SeqEqual
<1> DEFINE n == Len(p) + 1
           c == SubSeq(r, 1, n)
<1>4. n \in 1 .. Len(r)
  BY <1>1, <1>2, <1>3
<1>5. c \in Seq(Names) /\ Len(c) = n /\ \A i \in 1 .. n : c[i] = r[i]
  BY <1>1, <1>4, FrontPart
<1>6. c \in Paths
  <2>1. CASE n = Len(r)
    BY <1>1, <2>1, PathSeqs
  <2>2. CASE n # Len(r)
    <3>1. n \in 1 .. Len(r) - 1
      BY <1>1, <1>4, <2>2
    <3>2. c \in Ancestors(r)
      BY <3>1 DEF Ancestors
    <3> QED
      BY <1>1, <3>2, AncestorsOf
  <2> QED
    BY <2>1, <2>2
<1> HIDE DEF c
<1>7. IsPrefix(p, c) /\ IsPrefix(c, r) /\ c # p
  BY <1>1, <1>2, <1>4, <1>5, PrefixIs
<1> QED
  BY <1>5, <1>6, <1>7 DEF Children, Under

(* Where r is when the directory q it is in has become p. *)
IsRebased(s, r, q, p) ==
    /\ s \in Seq(Names) /\ Len(s) = Len(p) + (Len(r) - Len(q)) /\ Len(q) <= Len(r)
    /\ \A i \in 1 .. Len(p) : s[i] = p[i]
    /\ \A i \in 1 .. Len(r) - Len(q) : s[Len(p) + i] = r[Len(q) + i]

LEMMA RebaseSeq ==
    ASSUME NEW p \in Paths, NEW q \in Paths, NEW r \in Paths, IsPrefix(q, r)
    PROVE  IsRebased(Rebase(r, q, p), r, q, p)
<1>1. /\ p \in Seq(Names) /\ r \in Seq(Names)
      /\ Len(p) \in Nat \ {0} /\ Len(q) \in Nat \ {0} /\ Len(r) \in Nat
  BY PathSeqs
<1>2. Len(q) <= Len(r)
  BY PathPrefixes
<1> DEFINE m == Len(q) + 1
           t == SubSeq(r, m, Len(r))
<1>3. m \in 1 .. Len(r) + 1
  BY <1>1, <1>2
<1>4. t \in Seq(Names) /\ Len(t) = Len(r) - Len(q) /\ \A i \in 1 .. Len(r) - Len(q) : t[i] = r[Len(q) + i]
  <2>1. t \in Seq(Names)
    BY <1>1, <1>3
  <2>2. Len(t) = Len(r) - Len(q)
    BY <1>1, <1>2, <1>3
  <2>3. ASSUME NEW i \in 1 .. Len(r) - Len(q) PROVE t[i] = r[Len(q) + i]
    <3>1. t[i] = r[m + i - 1]
      BY <1>1, <1>2, <1>3
    <3>2. m + i - 1 = Len(q) + i
      BY <1>1
    <3> QED
      BY <3>1, <3>2
  <2> QED
    BY <2>1, <2>2, <2>3
<1>5. Rebase(r, q, p) = p \o t
  BY DEF Rebase
<1> HIDE DEF t
<1> DEFINE s == p \o t
<1>6. s \in Seq(Names)
  BY <1>1, <1>4
<1>7. Len(s) = Len(p) + Len(t)
  <2>1. p \in Seq(Names) /\ t \in Seq(Names)
    BY <1>1, <1>4
  <2> QED
    BY <2>1, ConcatProperties
<1>8. ASSUME NEW i \in 1 .. Len(p) PROVE s[i] = p[i]
  BY <1>1, <1>4, <1>8
<1>9. ASSUME NEW i \in 1 .. Len(r) - Len(q) PROVE s[Len(p) + i] = r[Len(q) + i]
  <2>1. s[Len(p) + i] = t[i]
    BY <1>1, <1>4
  <2> QED
    BY <1>4, <2>1
<1>10. s = Rebase(r, q, p)
  BY <1>5
<1> HIDE DEF s
<1>11. IsRebased(s, r, q, p)
  BY <1>2, <1>4, <1>6, <1>7, <1>8, <1>9 DEF IsRebased
<1> QED
  BY <1>10, <1>11

LEMMA RebaseUnder ==
    ASSUME NEW p \in Paths, NEW q \in Paths, NEW r \in Paths, IsPrefix(q, r)
    PROVE  /\ Rebase(r, q, p) \in Paths => Rebase(r, q, p) \in Under(p)
           /\ Rebase(r, q, p) = p <=> r = q
<1> DEFINE s == Rebase(r, q, p)
<1>1. /\ p \in Seq(Names) /\ Len(p) \in Nat /\ Len(q) \in Nat /\ Len(r) \in Nat
      /\ q \in Seq(Names) /\ r \in Seq(Names)
  BY PathSeqs
<1>0. IsRebased(s, r, q, p)
  BY RebaseSeq
<1> HIDE DEF s
<1>2. s \in Seq(Names) /\ Len(s) = Len(p) + (Len(r) - Len(q)) /\ Len(q) <= Len(r)
      /\ \A i \in 1 .. Len(p) : s[i] = p[i]
  BY <1>0 DEF IsRebased
<1>3. s \in Paths => IsPrefix(p, s)
  BY <1>1, <1>2, PathPrefixes
<1>4. s = p => r = q
  <2>1. HAVE s = p
  <2>2. Len(q) = Len(r)
    BY <1>1, <1>2, <2>1
  <2> QED
    BY <1>1, <2>2, PathPrefixes, SameSeq
<1>5. r = q => s = p
  <2>1. HAVE r = q
  <2>2. Len(s) = Len(p)
    BY <1>1, <1>2, <2>1
  <2> QED
    BY <1>1, <1>2, <2>2, SameSeq
<1> QED
  BY <1>3, <1>4, <1>5 DEF s, Under

LEMMA RebaseAncestor ==
    ASSUME NEW p \in Paths, NEW q \in Paths, NEW r \in Paths, NEW d \in Ancestors(r),
           IsPrefix(q, d), IsPrefix(q, r), Rebase(r, q, p) \in Paths
    PROVE  Rebase(d, q, p) \in Ancestors(Rebase(r, q, p))
<1>1. d \in Paths /\ IsPrefix(d, r) /\ d # r
  BY AncestorsOf
<1> DEFINE s == Rebase(r, q, p)
           c == Rebase(d, q, p)
<1>2. /\ r \in Seq(Names) /\ d \in Seq(Names)
      /\ Len(p) \in Nat \ {0} /\ Len(q) \in Nat /\ Len(r) \in Nat /\ Len(d) \in Nat
  BY <1>1, PathSeqs
<1>3. Len(d) <= Len(r) /\ \A i \in 1 .. Len(d) : d[i] = r[i]
  BY <1>1, PathPrefixes
<1>4. Len(d) # Len(r)
  BY <1>1, <1>2, <1>3, SameSeq
<1>0. IsRebased(s, r, q, p) /\ IsRebased(c, d, q, p)
  BY <1>1, RebaseSeq
<1> HIDE DEF s, c
<1>5. /\ s \in Seq(Names) /\ Len(s) = Len(p) + (Len(r) - Len(q)) /\ Len(q) <= Len(r)
      /\ \A i \in 1 .. Len(p) : s[i] = p[i]
      /\ \A i \in 1 .. Len(r) - Len(q) : s[Len(p) + i] = r[Len(q) + i]
  BY <1>0 DEF IsRebased
<1>6. /\ c \in Seq(Names) /\ Len(c) = Len(p) + (Len(d) - Len(q)) /\ Len(q) <= Len(d)
      /\ \A i \in 1 .. Len(p) : c[i] = p[i]
      /\ \A i \in 1 .. Len(d) - Len(q) : c[Len(p) + i] = d[Len(q) + i]
  BY <1>0 DEF IsRebased
<1>7. Len(c) \in 1 .. Len(s) - 1
  BY <1>2, <1>3, <1>4, <1>5, <1>6
<1>8. ASSUME NEW i \in 1 .. Len(c) PROVE c[i] = s[i]
  <2>1. CASE i \in 1 .. Len(p)
    BY <1>5, <1>6, <2>1
  <2>2. CASE i \notin 1 .. Len(p)
    <3> DEFINE j == i - Len(p)
    <3>1. j \in 1 .. Len(d) - Len(q) /\ i = Len(p) + j
      BY <1>2, <1>6, <2>2
    <3>2. j \in 1 .. Len(r) - Len(q) /\ Len(q) + j \in 1 .. Len(d)
      BY <1>2, <1>3, <3>1
    <3> HIDE DEF j
    <3>3. c[i] = d[Len(q) + j] /\ s[i] = r[Len(q) + j]
      BY <1>5, <1>6, <3>1, <3>2
    <3>4. d[Len(q) + j] = r[Len(q) + j]
      BY <1>3, <3>2
    <3> QED
      BY <3>3, <3>4
  <2> QED
    BY <2>1, <2>2
<1>9. c = SubSeq(s, 1, Len(c))
  <2> DEFINE f == SubSeq(s, 1, Len(c))
  <2>1. Len(c) \in 0 .. Len(s)
    BY <1>7
  <2>2. f \in Seq(Names) /\ Len(f) = Len(c) /\ \A i \in 1 .. Len(c) : f[i] = s[i]
    BY <1>5, <2>1, FrontPart
  <2> HIDE DEF f
  <2>3. c = f
    BY <1>6, <1>8, <2>2, SameSeq
  <2> QED
    BY <2>3 DEF f
<1>10. c \in Ancestors(s)
  BY <1>7, <1>9 DEF Ancestors
<1> QED
  BY <1>10 DEF s, c

-----------------------------------------------------------------------------
(* Entries and what they show *)

Shown(e) ==
    IF e.kind = "delete" THEN Absent
    ELSE IF e.kind = "mkdir" THEN Dir
    ELSE [type |-> IF e.kind = "symlink" THEN "symlink" ELSE "file", oid |-> e.data, mode |-> e.mode]

(* The entries the operations make. *)
Sound ==
    {e \in Entry :
       /\ e.kind \in {"create", "modify", "rename"} => e.data \in Contents /\ e.mode \in FileModes
       /\ e.kind = "symlink" => e.data \in Contents /\ e.mode = "link"
       /\ e.kind = "create" => e.soid = None
       /\ e.kind = "rename" => e.target # <<>>}

LEMMA Nodes ==
    /\ Absent \notin Node /\ Dir \in Node /\ Dir \notin Files \cup Links
    /\ \A n \in Files : n.type = "file" /\ n.oid \in Contents /\ n.mode \in FileModes
                            /\ n = [type |-> "file", oid |-> n.oid, mode |-> n.mode]
    /\ \A n \in Links : n.type = "symlink" /\ n.oid \in Contents /\ n.mode = "link"
                            /\ n = [type |-> "symlink", oid |-> n.oid, mode |-> n.mode]
    /\ Dir.type = "dir" /\ Dir.mode = "dir" /\ Absent.type = "absent" /\ Absent.mode = None
  BY DEF Absent, Node, Dir, Files, Links, None

LEMMA NoEntryIs == NoEntry \notin Sound /\ NoEntry.kind = "none"
  BY DEF NoEntry, Sound, Entry

LEMMA ShownIs ==
    ASSUME NEW e \in Sound
    PROVE  /\ e.kind \in {"create", "modify", "delete", "rename", "mkdir", "symlink"}
           /\ e.kind = "delete" => Shown(e) = Absent
           /\ e.kind = "mkdir" => Shown(e) = Dir
           /\ e.kind = "symlink" => Shown(e) \in Links
           /\ e.kind \in {"create", "modify", "rename"} => Shown(e) \in Files
  BY DEF Sound, Entry, Shown, Links, Files

LEMMA ShownNode ==
    ASSUME NEW e \in Sound
    PROVE  /\ Shown(e) \in Node \cup {Absent}
           /\ Shown(e) = Absent <=> e.kind = "delete"
           /\ Shown(e) = Dir <=> e.kind = "mkdir"
           /\ Shown(e).type = "symlink" <=> e.kind = "symlink"
           /\ Shown(e).type = "file" <=> e.kind \in {"create", "modify", "rename"}
<1>1. /\ Absent \notin Node /\ Dir \in Node /\ Dir # Absent
      /\ \A n \in Files : n # Absent /\ n # Dir /\ n.type = "file" /\ n \in Node
      /\ \A n \in Links : n # Absent /\ n # Dir /\ n.type = "symlink" /\ n \in Node
      /\ Dir.type = "dir" /\ Absent.type = "absent"
  BY Nodes DEF Node
<1> QED
  BY <1>1, ShownIs

(* What the operations make of an entry, and what it then shows. *)
LEMMA WhiteoutIs ==
    ASSUME NEW s \in Paths \cup {<<>>}
    PROVE  /\ Whiteout(s) \in Sound /\ Shown(Whiteout(s)) = Absent
           /\ Whiteout(s).kind = "delete" /\ Whiteout(s).target = s
  BY DEF Whiteout, NoEntry, Sound, Entry, Shown

LEMMA MkdirIs == MkdirEntry \in Sound /\ Shown(MkdirEntry) = Dir /\ MkdirEntry.kind = "mkdir"
  BY DEF MkdirEntry, NoEntry, Sound, Entry, Shown

LEMMA CreatedIs ==
    ASSUME NEW c \in Contents, NEW m \in FileModes
    PROVE  /\ Created(c, m) \in Sound /\ Shown(Created(c, m)) = FileAs(c, m)
           /\ Created(c, m).kind = "create"
  BY DEF Created, NoEntry, Sound, Entry, Shown, FileAs

(* The entry of Symlink. *)
Linked(c) == [NoEntry EXCEPT !.kind = "symlink", !.data = c, !.mode = "link"]

LEMMA LinkedIs ==
    ASSUME NEW c \in Contents
    PROVE  /\ Linked(c) \in Sound /\ Linked(c).kind = "symlink"
           /\ Shown(Linked(c)) = [type |-> "symlink", oid |-> c, mode |-> "link"]
  BY DEF Linked, NoEntry, Sound, Entry, Shown

LEMMA PromotedIs ==
    ASSUME NEW p \in Paths, base[p] \in Files \cup Links
    PROVE  /\ Promoted(p) \in Sound /\ Shown(Promoted(p)) = base[p]
           /\ Promoted(p).kind \in {"modify", "symlink"} /\ Promoted(p).soid # None
<1> DEFINE n == base[p]
<1>1. None \notin Contents
  BY ConstantsAssumption DEF ConstantsAssumption
<1>2. CASE n \in Files
  <2>1. /\ n.type = "file" /\ n.oid \in Contents /\ n.mode \in FileModes
        /\ n = [type |-> "file", oid |-> n.oid, mode |-> n.mode]
    BY <1>2, Nodes
  <2> QED
    BY <1>1, <2>1 DEF Promoted, NoEntry, Sound, Entry, Shown
<1>3. CASE n \in Links
  <2>1. /\ n.type = "symlink" /\ n.oid \in Contents /\ n.mode = "link"
        /\ n = [type |-> "symlink", oid |-> n.oid, mode |-> n.mode]
    BY <1>3, Nodes
  <2> QED
    BY <1>1, <2>1 DEF Promoted, NoEntry, Sound, Entry, Shown
<1> QED
  BY <1>2, <1>3

LEMMA WrittenIs ==
    ASSUME NEW e \in Sound, e.kind \in {"create", "modify", "rename"}, NEW c \in Contents
    PROVE  /\ Written(e, c) \in Sound /\ Shown(Written(e, c)) = FileAs(c, Shown(e).mode)
           /\ Written(e, c).kind # "delete"
  BY DEF Written, Sound, Entry, Shown, FileAs

LEMMA ModeIs ==
    ASSUME NEW e \in Sound, e.kind \in {"create", "modify", "rename"}, NEW m \in FileModes
    PROVE  /\ [e EXCEPT !.mode = m] \in Sound
           /\ Shown([e EXCEPT !.mode = m]) = FileAs(Shown(e).oid, m)
           /\ [e EXCEPT !.mode = m].kind # "delete"
  BY DEF Sound, Entry, Shown, FileAs

LEMMA RenamedIs ==
    ASSUME NEW e \in Sound, e.kind \notin {"delete", "mkdir"}, NEW p \in Paths
    PROVE  /\ RenamedEntry(e, p) \in Sound /\ Shown(RenamedEntry(e, p)) = Shown(e)
           /\ RenamedEntry(e, p).kind # "delete"
<1>1. e.kind \in {"create", "modify", "rename", "symlink"} /\ p # <<>>
  BY ShownIs, PathSeqs
<1>2. CASE e.kind = "create"
  BY <1>2 DEF RenamedEntry, Sound, Entry, Shown
<1>3. CASE e.kind = "modify"
  BY <1>1, <1>3 DEF RenamedEntry, Sound, Entry, Shown
<1>4. CASE e.kind = "rename"
  BY <1>4 DEF RenamedEntry
<1>5. CASE e.kind = "symlink"
  BY <1>5 DEF RenamedEntry, Sound, Entry, Shown
<1> QED
  BY <1>1, <1>2, <1>3, <1>4, <1>5

LEMMA MovedIs ==
    ASSUME NEW e \in Sound, e.kind # "delete", NEW s \in Paths
    PROVE  /\ MovedEntry(e, s) \in Sound /\ Shown(MovedEntry(e, s)) = Shown(e)
           /\ MovedEntry(e, s).kind # "delete"
<1>1. s # <<>>
  BY PathSeqs
<1>2. CASE base[s] # Absent /\ e.kind = "modify"
  BY <1>1, <1>2 DEF MovedEntry, Sound, Entry, Shown
<1>3. CASE base[s] # Absent /\ e.kind = "symlink"
  BY <1>3 DEF MovedEntry, Sound, Entry, Shown
<1>4. CASE base[s] = Absent \/ e.kind \notin {"modify", "symlink"}
  BY <1>4 DEF MovedEntry
<1> QED
  BY <1>2, <1>3, <1>4

-----------------------------------------------------------------------------
(* The tree that entries E make of a tree B *)

Shows(B, E, p) == IF E[p] = NoEntry THEN B[p] ELSE Shown(E[p])

Typed(B, E) ==
    /\ B \in [Paths -> Node \cup {Absent}] /\ IsTree(B)
    /\ E \in [Paths -> Sound \cup {NoEntry}]

(* What is there has directories above it. *)
Whole(B, E) ==
    \A p \in Paths : Shows(B, E, p) # Absent => \A d \in Ancestors(p) : Shows(B, E, d) = Dir

(* The whiteout of a file that came from elsewhere covers nothing. *)
CoversNothing(B, E) ==
    \A p \in Paths : E[p].kind = "delete" /\ E[p].target \notin {<<>>, p} => B[p] = Absent

(* The view: what the walk through the directories reaches. *)
ViewOf(B, E) ==
    [p \in Paths |-> IF \A d \in Ancestors(p) : Shows(B, E, d) = Dir THEN Shows(B, E, p) ELSE Absent]

LEMMA MergedIs ==
    /\ Merged = ViewOf(base, entries)
    /\ Merged' = ViewOf(base', entries')
  BY DEF Merged, Resolved, ViewOf, Shows, Shown

LEMMA WholeView ==
    ASSUME NEW B, NEW E, Whole(B, E)
    PROVE  ViewOf(B, E) = [p \in Paths |-> Shows(B, E, p)]
  BY DEF Whole, ViewOf

LEMMA ShowsNode ==
    ASSUME NEW B, NEW E, Typed(B, E), NEW p \in Paths
    PROVE  Shows(B, E, p) \in Node \cup {Absent}
  BY ShownNode DEF Shows, Typed

(* A change at one path that is in a directory. *)
LEMMA WholeAfter ==
    ASSUME NEW B, NEW E, NEW F, NEW p \in Paths, Whole(B, E),
           \A r \in Paths : r # p => Shows(B, F, r) = Shows(B, E, r),
           \A d \in Ancestors(p) : Shows(B, E, d) = Dir,
           Shows(B, F, p) = Dir \/ \A r \in Under(p) : r # p => Shows(B, E, r) = Absent
    PROVE  Whole(B, F)
<1> SUFFICES ASSUME NEW r \in Paths, Shows(B, F, r) # Absent, NEW d \in Ancestors(r)
             PROVE  Shows(B, F, d) = Dir
  BY DEF Whole
<1>1. d \in Paths /\ IsPrefix(d, r) /\ d # r
  BY AncestorsOf
<1>2. CASE r = p
  BY <1>1, <1>2
<1>3. CASE r # p
  <2>1. Shows(B, E, r) # Absent /\ Shows(B, E, d) = Dir
    BY <1>3 DEF Whole
  <2>2. CASE d = p
    BY <1>1, <1>3, <2>1, <2>2 DEF Under
  <2>3. CASE d # p
    BY <1>1, <2>1, <2>3
  <2> QED
    BY <2>2, <2>3
<1> QED
  BY <1>2, <1>3

(* There is nothing in what is no directory. *)
LEMMA NothingBelow ==
    ASSUME NEW B, NEW E, NEW p \in Paths, Whole(B, E), Shows(B, E, p) # Dir
    PROVE  \A r \in Under(p) : r # p => Shows(B, E, r) = Absent
  BY AncestorsOf DEF Whole, Under

-----------------------------------------------------------------------------
(* The invariant *)

TypedInv == Typed(base, entries) /\ ops \in 0 .. MaxOps /\ heads \in 0 .. MaxHeads

OverlayInv == TypedInv /\ Whole(base, entries) /\ CoversNothing(base, entries)

(* The merged view is what the entries show. *)
LEMMA MergedShows ==
    ASSUME OverlayInv
    PROVE  /\ Merged = [p \in Paths |-> Shows(base, entries, p)]
           /\ \A p \in Paths : Merged[p] = Shows(base, entries, p) /\ Merged[p] \in Node \cup {Absent}
  BY MergedIs, WholeView, ShowsNode DEF OverlayInv, TypedInv

(* What the walk reaches. *)
LEMMA ReachedIs ==
    ASSUME TypedInv, NEW p \in Paths
    PROVE  /\ Merged[p] \in Node \cup {Absent}
           /\ Merged[p] # Absent => Merged[p] = Shows(base, entries, p)
  BY MergedIs, ShowsNode DEF TypedInv, ViewOf

LEMMA InitInv == ASSUME Init PROVE OverlayInv /\ View!Init
<1>1. /\ base \in [Paths -> Node \cup {Absent}] /\ IsTree(base)
      /\ MaxOps \in Nat /\ MaxHeads \in Nat
  BY ConstantsAssumption DEF ConstantsAssumption, Init
<1>2. entries \in [Paths -> Sound \cup {NoEntry}]
  BY DEF Init
<1>3. \A p \in Paths : entries[p] = NoEntry /\ Shows(base, entries, p) = base[p]
  BY DEF Init, Shows
<1>4. Whole(base, entries)
  BY <1>1, <1>3, AncestorsOf DEF Whole, IsTree
<1>5. CoversNothing(base, entries)
  BY <1>3, NoEntryIs DEF CoversNothing
<1>6. OverlayInv
  BY <1>1, <1>2, <1>4, <1>5 DEF OverlayInv, TypedInv, Typed, Init
<1>7. Merged = base
  BY <1>1, <1>3, <1>6, MergedShows
<1>8. Held(entries) = {}
  BY <1>3 DEF Held
<1> QED
  BY <1>1, <1>6, <1>7, <1>8 DEF View!Init, View!Tree, Init

-----------------------------------------------------------------------------
(* What Namespace says of paths is what Overlay says of them *)

LEMMA SameAbove == \A p : View!Above(p) = Ancestors(p)
  BY DEF View!Above, Ancestors

LEMMA SameUnder == \A p : View!Under(p) = Under(p)
  BY DEF View!Under, Under, View!IsPrefix, IsPrefix

LEMMA SameRebase == \A r, p, q : View!Rebase(r, p, q) = Rebase(r, p, q)
  BY DEF View!Rebase, Rebase

(* Where the view differs from the commit there is an entry. *)
LEMMA AccountedFor == ASSUME OverlayInv' PROVE View!Accounted
<1>1. Typed(base', entries') /\ Whole(base', entries')
  BY DEF OverlayInv, TypedInv
<1>2. Merged' = [p \in Paths |-> Shows(base', entries', p)]
  BY <1>1, MergedIs, WholeView
<1>3. ASSUME NEW p \in Paths, Merged'[p] # base'[p] PROVE p \in Held(entries)'
  BY <1>2, <1>3 DEF Shows, Held
<1> QED
  BY <1>3 DEF View!Accounted

(* An operation that changes the entry of one path. *)
LEMMA OnePath ==
    ASSUME OverlayInv, NEW p \in Paths, NEW e \in Sound, NEW what,
           UserOp(what, [entries EXCEPT ![p] = e]),
           \A d \in Ancestors(p) : Merged[d] = Dir,
           Shown(e) = Dir \/ \A r \in Under(p) : r # p => Merged[r] = Absent,
           e.kind = "delete" => e.target \in {<<>>, p}
    PROVE  /\ OverlayInv' /\ View!Accounted
           /\ Merged' = [Merged EXCEPT ![p] = Shown(e)]
           /\ base' = base /\ done' = what
<1>1. /\ Typed(base, entries) /\ Whole(base, entries) /\ CoversNothing(base, entries)
      /\ ops \in 0 .. MaxOps /\ heads \in 0 .. MaxHeads
  BY DEF OverlayInv, TypedInv
<1>2. /\ entries' = [entries EXCEPT ![p] = e] /\ base' = base /\ done' = what
      /\ heads' = heads /\ ops < MaxOps /\ ops' = ops + 1
  BY DEF UserOp
<1>3. ops' \in 0 .. MaxOps
  BY <1>1, <1>2, ConstantsAssumption DEF ConstantsAssumption
<1>4. Typed(base', entries')
  BY <1>1, <1>2 DEF Typed
<1>5. /\ \A r \in Paths : r # p => entries'[r] = entries[r]
      /\ entries'[p] = e /\ e # NoEntry
  BY <1>1, <1>2, NoEntryIs DEF Typed
<1>6. /\ \A r \in Paths : r # p => Shows(base', entries', r) = Shows(base, entries, r)
      /\ Shows(base', entries', p) = Shown(e)
  BY <1>2, <1>5 DEF Shows
<1>7. \A r \in Paths : Merged[r] = Shows(base, entries, r)
  BY MergedShows
<1>8. \A d \in Ancestors(p) : Shows(base, entries, d) = Dir
  BY <1>7, AncestorsOf
<1>9. Shown(e) = Dir \/ \A r \in Under(p) : r # p => Shows(base, entries, r) = Absent
  BY <1>7 DEF Under
<1>10. Whole(base, entries') /\ ViewOf(base, entries') = [r \in Paths |-> Shows(base, entries', r)]
  <2> DEFINE F == entries'
  <2>1. \A r \in Paths : r # p => Shows(base, F, r) = Shows(base, entries, r)
    BY <1>2, <1>6
  <2>2. Shows(base, F, p) = Dir \/ \A r \in Under(p) : r # p => Shows(base, entries, r) = Absent
    BY <1>2, <1>6, <1>9
  <2> HIDE DEF F
  <2>3. Whole(base, F)
    BY <1>1, <1>8, <2>1, <2>2, WholeAfter
  <2>4. ViewOf(base, F) = [r \in Paths |-> Shows(base, F, r)]
    BY <2>3, WholeView
  <2> QED
    BY <2>3, <2>4 DEF F
<1>11. CoversNothing(base', entries')
  BY <1>1, <1>2, <1>5 DEF CoversNothing
<1>12. OverlayInv'
  BY <1>1, <1>2, <1>3, <1>4, <1>10, <1>11 DEF OverlayInv, TypedInv
<1>13. Merged' = [r \in Paths |-> Shows(base', entries', r)]
  BY <1>2, <1>10, MergedIs
<1>14. Merged' = [Merged EXCEPT ![p] = Shown(e)]
  <2>1. Merged = [r \in Paths |-> Shows(base, entries, r)]
    BY MergedShows
  <2> QED
    BY <1>6, <1>13, <2>1
<1> QED
  BY <1>2, <1>12, <1>14, AccountedFor

(* A file or link that is there has an entry once it has been promoted. *)
LEMMA EnsuredIs ==
    ASSUME TypedInv, NEW p \in Paths, Merged[p] \notin {Absent, Dir}
    PROVE  LET e == EnsureOverlay(p)[p] IN
           /\ EnsureOverlay(p) = [entries EXCEPT ![p] = e]
           /\ e \in Sound /\ Shown(e) = Merged[p]
           /\ e.kind \in {"create", "modify", "rename", "symlink"}
           /\ entries[p] # NoEntry => e = entries[p]
           /\ entries[p] = NoEntry => e = Promoted(p) /\ e.soid # None
                                       /\ e.kind \in {"modify", "symlink"}
<1>1. Typed(base, entries) /\ Merged[p] = Shows(base, entries, p)
  BY ReachedIs DEF TypedInv
<1> DEFINE e == EnsureOverlay(p)[p]
<1>2. /\ EnsureOverlay(p) = [entries EXCEPT ![p] = e]
      /\ e = IF entries[p] = NoEntry THEN Promoted(p) ELSE entries[p]
  BY <1>1 DEF EnsureOverlay, Typed
<1> HIDE DEF e
<1>3. CASE entries[p] = NoEntry
  <2>1. base[p] \in Files \cup Links /\ base[p] = Merged[p]
    BY <1>1, <1>3 DEF Typed, Shows, Node
  <2> QED
    BY <1>2, <1>3, <2>1, PromotedIs DEF e
<1>4. CASE entries[p] # NoEntry
  <2>1. e = entries[p] /\ e \in Sound /\ Merged[p] = Shown(e)
    BY <1>1, <1>2, <1>4 DEF Typed, Shows
  <2>2. e.kind \in {"create", "modify", "rename", "symlink"}
    BY <2>1, ShownIs
  <2> QED
    BY <1>2, <1>4, <2>1, <2>2 DEF e
<1> QED
  BY <1>3, <1>4

LEMMA ThereIs ==
    ASSUME OverlayInv, NEW p \in Paths
    PROVE  /\ Merged[p] # Absent => \A d \in Ancestors(p) : Merged[d] = Dir
           /\ Merged[p] # Dir => \A r \in Under(p) : r # p => Merged[r] = Absent
<1>1. Whole(base, entries) /\ \A r \in Paths : Merged[r] = Shows(base, entries, r)
  BY MergedShows DEF OverlayInv, TypedInv
<1>2. Merged[p] # Absent => \A d \in Ancestors(p) : Merged[d] = Dir
  BY <1>1, AncestorsOf DEF Whole
<1>3. Merged[p] # Dir => \A r \in Under(p) : r # p => Merged[r] = Absent
  BY <1>1, NothingBelow DEF Under
<1> QED
  BY <1>2, <1>3

LEMMA RoomIs ==
    ASSUME NEW p \in Paths, Room(p)
    PROVE  Merged[p] = Absent /\ \A d \in Ancestors(p) : Merged[d] = Dir
  BY DEF Room

(* Making, writing and chmod put a node at the path. *)
LEMMA PutStep ==
    ASSUME OverlayInv, NEW p \in Paths, NEW e \in Sound, e.kind # "delete",
           UserOp(<<"put", p, Shown(e)>>, [entries EXCEPT ![p] = e]),
           \A d \in Ancestors(p) : Merged[d] = Dir, Merged[p] # Dir
    PROVE  OverlayInv' /\ View!Next
<1>1. \A r \in Under(p) : r # p => Merged[r] = Absent
  BY ThereIs
<1>2. /\ OverlayInv' /\ View!Accounted
      /\ Merged' = [Merged EXCEPT ![p] = Shown(e)]
      /\ base' = base /\ done' = <<"put", p, Shown(e)>>
  BY <1>1, OnePath
<1>3. Shown(e) \in Node
  BY ShownNode
<1>4. View!Put(p, Shown(e))
  BY <1>2 DEF View!Put
<1> QED
  BY <1>2, <1>3, <1>4 DEF View!Next

(* Unlink and Rmdir leave a whiteout. *)
LEMMA EraseStep ==
    ASSUME OverlayInv, NEW p \in Paths, Merged[p] # Absent,
           UserOp(<<"remove", p>>, [entries EXCEPT ![p] = Whiteout(<<>>)]),
           \A r \in Under(p) : r # p => Merged[r] = Absent
    PROVE  OverlayInv' /\ View!Next
<1> DEFINE e == Whiteout(<<>>)
<1>1. e \in Sound /\ Shown(e) = Absent /\ e.target \in {<<>>, p}
  BY WhiteoutIs
<1>2. \A d \in Ancestors(p) : Merged[d] = Dir
  BY ThereIs
<1> HIDE DEF e
<1>3. UserOp(<<"remove", p>>, [entries EXCEPT ![p] = e])
  BY DEF e
<1>4. /\ OverlayInv' /\ View!Accounted
      /\ Merged' = [Merged EXCEPT ![p] = Shown(e)]
      /\ base' = base /\ done' = <<"remove", p>>
  BY <1>1, <1>2, <1>3, OnePath
<1>5. View!Erase(p)
  BY <1>1, <1>4 DEF View!Erase
<1> QED
  BY <1>4, <1>5 DEF View!Next

LEMMA WriteStep ==
    ASSUME OverlayInv, NEW p \in Paths, NEW c \in Contents, Write(p, c)
    PROVE  OverlayInv' /\ View!Next
<1> DEFINE d == EnsureOverlay(p)[p]
           e == Written(d, c)
<1>1. /\ Merged[p].type = "file" /\ Merged[p] # Absent
      /\ UserOp(<<"put", p, FileAs(c, Merged[p].mode)>>, [EnsureOverlay(p) EXCEPT ![p] = Written(@, c)])
  BY DEF Write, Exists
<1>2. Merged[p] # Dir
  BY <1>1, Nodes
<1>3. /\ EnsureOverlay(p) = [entries EXCEPT ![p] = d]
      /\ d \in Sound /\ Shown(d) = Merged[p]
  BY <1>1, <1>2, EnsuredIs DEF OverlayInv
<1>4. d.kind \in {"create", "modify", "rename"}
  BY <1>1, <1>3, ShownNode
<1>5. e \in Sound /\ Shown(e) = FileAs(c, Merged[p].mode) /\ e.kind # "delete"
  BY <1>3, <1>4, WrittenIs
<1>6. [EnsureOverlay(p) EXCEPT ![p] = Written(@, c)] = [entries EXCEPT ![p] = e]
  <2> HIDE DEF d
  <2>1. entries \in [Paths -> Sound \cup {NoEntry}]
    BY DEF OverlayInv, TypedInv, Typed
  <2>2. [[entries EXCEPT ![p] = d] EXCEPT ![p] = Written(@, c)] = [entries EXCEPT ![p] = Written(d, c)]
    BY <2>1
  <2> QED
    BY <1>3, <2>2
<1> HIDE DEF e, d
<1>7. UserOp(<<"put", p, Shown(e)>>, [entries EXCEPT ![p] = e])
  BY <1>1, <1>5, <1>6
<1>8. \A a \in Ancestors(p) : Merged[a] = Dir
  BY <1>1, ThereIs
<1> QED
  BY <1>2, <1>5, <1>7, <1>8, PutStep

LEMMA SetModeStep ==
    ASSUME OverlayInv, NEW p \in Paths, NEW m \in FileModes, SetMode(p, m)
    PROVE  OverlayInv' /\ View!Next
<1> DEFINE d == EnsureOverlay(p)[p]
           e == [d EXCEPT !.mode = m]
<1>1. /\ Merged[p].type = "file" /\ Merged[p] # Absent
      /\ UserOp(<<"put", p, FileAs(Merged[p].oid, m)>>, [EnsureOverlay(p) EXCEPT ![p].mode = m])
  BY DEF SetMode, Exists
<1>2. Merged[p] # Dir
  BY <1>1, Nodes
<1>3. /\ EnsureOverlay(p) = [entries EXCEPT ![p] = d]
      /\ d \in Sound /\ Shown(d) = Merged[p]
  BY <1>1, <1>2, EnsuredIs DEF OverlayInv
<1>4. d.kind \in {"create", "modify", "rename"}
  BY <1>1, <1>3, ShownNode
<1>5. e \in Sound /\ Shown(e) = FileAs(Merged[p].oid, m) /\ e.kind # "delete"
  BY <1>3, <1>4, ModeIs
<1>6. [EnsureOverlay(p) EXCEPT ![p].mode = m] = [entries EXCEPT ![p] = e]
  <2> HIDE DEF d
  <2>1. entries \in [Paths -> Sound \cup {NoEntry}]
    BY DEF OverlayInv, TypedInv, Typed
  <2>2. [[entries EXCEPT ![p] = d] EXCEPT ![p].mode = m] = [entries EXCEPT ![p] = [d EXCEPT !.mode = m]]
    BY <2>1
  <2> QED
    BY <1>3, <2>2
<1> HIDE DEF e, d
<1>7. UserOp(<<"put", p, Shown(e)>>, [entries EXCEPT ![p] = e])
  BY <1>1, <1>5, <1>6
<1>8. \A a \in Ancestors(p) : Merged[a] = Dir
  BY <1>1, ThereIs
<1> QED
  BY <1>2, <1>5, <1>7, <1>8, PutStep

LEMMA CreateStep ==
    ASSUME OverlayInv, NEW p \in Paths, NEW c \in Contents, NEW m \in FileModes, Create(p, c, m)
    PROVE  OverlayInv' /\ View!Next
<1> DEFINE e == Created(c, m)
<1>1. Room(p) /\ UserOp(<<"put", p, FileAs(c, m)>>, [entries EXCEPT ![p] = e])
  BY DEF Create
<1>2. e \in Sound /\ Shown(e) = FileAs(c, m) /\ e.kind # "delete"
  BY CreatedIs
<1>3. Merged[p] # Dir /\ \A d \in Ancestors(p) : Merged[d] = Dir
  BY <1>1, RoomIs, Nodes
<1> HIDE DEF e
<1> QED
  BY <1>1, <1>2, <1>3, PutStep

LEMMA SymlinkStep ==
    ASSUME OverlayInv, NEW p \in Paths, NEW c \in Contents, Symlink(p, c)
    PROVE  OverlayInv' /\ View!Next
<1> DEFINE e == Linked(c)
<1>1. /\ Room(p)
      /\ UserOp(<<"put", p, [type |-> "symlink", oid |-> c, mode |-> "link"]>>, [entries EXCEPT ![p] = e])
  BY DEF Symlink, Linked
<1>2. e \in Sound /\ Shown(e) = [type |-> "symlink", oid |-> c, mode |-> "link"] /\ e.kind # "delete"
  BY LinkedIs
<1>3. Merged[p] # Dir /\ \A d \in Ancestors(p) : Merged[d] = Dir
  BY <1>1, RoomIs, Nodes
<1> HIDE DEF e
<1> QED
  BY <1>1, <1>2, <1>3, PutStep

LEMMA MkdirStep ==
    ASSUME OverlayInv, NEW p \in Paths, Mkdir(p)
    PROVE  OverlayInv' /\ View!Next
<1>1. Room(p) /\ UserOp(<<"put", p, Shown(MkdirEntry)>>, [entries EXCEPT ![p] = MkdirEntry])
  BY MkdirIs DEF Mkdir
<1>2. Merged[p] # Dir /\ \A d \in Ancestors(p) : Merged[d] = Dir
  BY <1>1, RoomIs, Nodes
<1> QED
  BY <1>1, <1>2, MkdirIs, PutStep

LEMMA UnlinkStep ==
    ASSUME OverlayInv, NEW p \in Paths, Unlink(p)
    PROVE  OverlayInv' /\ View!Next
<1>1. /\ Merged[p] # Absent /\ Merged[p] # Dir
      /\ UserOp(<<"remove", p>>, [entries EXCEPT ![p] = Whiteout(<<>>)])
  BY Nodes DEF Unlink, Exists
<1>2. \A r \in Under(p) : r # p => Merged[r] = Absent
  BY <1>1, ThereIs
<1> QED
  BY <1>1, <1>2, EraseStep

(* In a directory that lists nothing there is nothing. *)
LEMMA EmptyDir ==
    ASSUME OverlayInv, NEW p \in Paths, Listed(p) = {}
    PROVE  \A r \in Under(p) : r # p => Merged[r] = Absent
<1> SUFFICES ASSUME NEW r \in Under(p), r # p, Merged[r] # Absent PROVE FALSE
  OBVIOUS
<1>1. PICK c \in Children(p) : IsPrefix(c, r) /\ c # p
  BY ChildOf
<1>2. c \in Paths /\ r \in Paths
  BY DEF Children, Under
<1>3. Merged[c] = Dir \/ c = r
  BY <1>1, <1>2, ThereIs, AncestorsOf
<1>4. Merged[c] # Absent
  BY <1>3, Nodes
<1> QED
  BY <1>1, <1>4 DEF Listed

LEMMA RmdirStep ==
    ASSUME OverlayInv, NEW p \in Paths, Rmdir(p)
    PROVE  OverlayInv' /\ View!Next
<1>1. /\ Merged[p] # Absent /\ Listed(p) = {}
      /\ UserOp(<<"remove", p>>, [entries EXCEPT ![p] = Whiteout(<<>>)])
  BY DEF Rmdir, Exists
<1> QED
  BY <1>1, EmptyDir, EraseStep

LEMMA SetMtimeStep ==
    ASSUME OverlayInv, NEW p \in Paths, SetMtime(p)
    PROVE  OverlayInv' /\ View!Next
<1>1. /\ Merged[p] # Absent /\ entries[p] = NoEntry /\ base[p].type \in {"file", "dir"}
      /\ UserOp(<<"nothing">>, IF base[p] = Dir THEN [entries EXCEPT ![p] = MkdirEntry]
                              ELSE EnsureOverlay(p))
  BY DEF SetMtime, Exists
<1>2. Merged[p] = base[p] /\ Merged \in [Paths -> Node \cup {Absent}]
  BY <1>1, MergedShows DEF Shows
<1>3. \A d \in Ancestors(p) : Merged[d] = Dir
  BY <1>1, ThereIs
<1>4. Merged[p] # Dir => \A r \in Under(p) : r # p => Merged[r] = Absent
  BY ThereIs
<1>5. PICK e \in Sound : Shown(e) = Merged[p] /\ UserOp(<<"nothing">>, [entries EXCEPT ![p] = e])
  <2>1. CASE base[p] = Dir
    BY <1>1, <1>2, <2>1, MkdirIs
  <2>2. CASE base[p] # Dir
    BY <1>1, <1>2, <2>2, EnsuredIs DEF OverlayInv
  <2> QED
    BY <2>1, <2>2
<1>6. e.kind # "delete"
  BY <1>1, <1>5, ShownNode
<1>7. /\ OverlayInv' /\ View!Accounted
      /\ Merged' = [Merged EXCEPT ![p] = Shown(e)]
      /\ base' = base /\ done' = <<"nothing">>
  BY <1>3, <1>4, <1>5, <1>6, OnePath
<1>8. Merged' = Merged
  BY <1>2, <1>5, <1>7
<1>9. View!Nothing
  BY <1>7, <1>8 DEF View!Nothing
<1> QED
  BY <1>7, <1>9 DEF View!Next

-----------------------------------------------------------------------------
(* HEAD moves *)

(* An entry that matches a node of the commit shows that node. *)
LEMMA MatchesIs ==
    ASSUME NEW e \in Sound, e.kind \notin {"delete", "mkdir"}, NEW n \in Node \cup {Absent}, Matches(e, n)
    PROVE  Shown(e) = n
<1>1. /\ e.data = n.oid /\ e.mode = n.mode
  BY DEF Matches
<1>2. CASE e.kind = "symlink"
  <2>1. e.mode = "link" /\ Shown(e) = [type |-> "symlink", oid |-> e.data, mode |-> e.mode]
    BY <1>2 DEF Sound, Shown
  <2>2. n \in Links
    BY <1>1, <2>1, Nodes DEF Node, FileModes, None
  <2> QED
    BY <1>1, <2>1, <2>2, Nodes
<1>3. CASE e.kind # "symlink"
  <2>1. e.kind \in {"create", "modify", "rename"}
    BY <1>3, ShownIs
  <2>2. e.mode \in FileModes /\ Shown(e) = [type |-> "file", oid |-> e.data, mode |-> e.mode]
    BY <2>1 DEF Sound, Shown
  <2>3. n \in Files
    BY <1>1, <2>2, Nodes DEF Node, FileModes, None
  <2> QED
    BY <1>1, <2>2, <2>3, Nodes
<1> QED
  BY <1>2, <1>3

LEMMA NodeFields ==
    ASSUME NEW n \in Node \cup {Absent}
    PROVE  n.oid \in Contents \cup {None} /\ n.mode \in FileModes \cup {"link", "dir", None}
  BY DEF Node, Files, Links, Dir, Absent

LEMMA AdoptIs ==
    ASSUME NEW e \in Sound, e.kind # "create", NEW n \in Node \cup {Absent}
    PROVE  Adopt(e, n) \in Sound /\ Shown(Adopt(e, n)) = Shown(e) /\ Adopt(e, n).kind = e.kind
  BY NodeFields DEF Adopt, Sound, Entry, Shown

LEMMA RebasedIs ==
    ASSUME NEW e \in Sound, e.kind \in {"modify", "symlink"}, NEW n \in Node \cup {Absent}
    PROVE  \/ Rebased(e, n) = NoEntry /\ Shown(e) = n
           \/ /\ Rebased(e, n) \in Sound
              /\ Shown(Rebased(e, n)) = Shown(e) /\ Rebased(e, n).kind = e.kind
  BY AdoptIs, MatchesIs DEF Rebased

LEMMA AsCreateIs ==
    ASSUME NEW e \in Sound, e.kind \in {"modify", "rename"}
    PROVE  /\ AsCreate(e) \in Sound /\ Shown(AsCreate(e)) = Shown(e) /\ AsCreate(e).kind = "create"
           /\ [AsCreate(e) EXCEPT !.target = <<>>] \in Sound
           /\ Shown([AsCreate(e) EXCEPT !.target = <<>>]) = Shown(e)
           /\ [AsCreate(e) EXCEPT !.target = <<>>].kind = "create"
  BY DEF AsCreate, Sound, Entry, Shown

(* What becomes of the entry at p: it stays, shown as before, or goes because *)
(* the new commit shows what it showed or because it hid nothing.            *)
Kept(e, f)    == f \in Sound /\ Shown(f) = Shown(e) /\ (f.kind = "delete" => f = e /\ e.kind = "delete")
Taken(e, f, n) == f = NoEntry /\ e.kind # "delete" /\ Shown(e) = n

LEMMA AsModifyIs ==
    ASSUME NEW e \in Sound, e.kind \in {"create", "rename"}, NEW n \in Node \cup {Absent}
    PROVE  /\ Kept(e, [Adopt(e, n) EXCEPT !.kind = "modify"])
           /\ Kept(e, [Adopt(e, n) EXCEPT !.kind = "modify", !.target = <<>>])
  BY NodeFields DEF Adopt, Sound, Entry, Shown, Kept

LEMMA ReconciledFile ==
    ASSUME NEW t \in [Paths -> Node \cup {Absent}], NEW p \in Paths, NEW e \in Sound, entries[p] = e,
           e.kind # "delete"
    PROVE  Kept(e, Reconciled(p, t)) \/ Taken(e, Reconciled(p, t), t[p])
<1>1. t[p] \in Node \cup {Absent}
  OBVIOUS
<1>2. CASE e.kind = "modify"
  <2>1. Reconciled(p, t) = IF t[p] = Absent THEN AsCreate(e) ELSE Rebased(e, t[p])
    BY <1>2 DEF Reconciled
  <2>2. CASE t[p] = Absent
    BY <1>2, <2>1, <2>2, AsCreateIs DEF Kept
  <2>3. CASE t[p] # Absent
    BY <1>1, <1>2, <2>1, <2>3, RebasedIs DEF Kept, Taken
  <2> QED
    BY <2>2, <2>3
<1>3. CASE e.kind = "rename"
  <2> DEFINE s == Source(e, p)
  <2>1. s \in Paths /\ t[s] \in Node \cup {Absent}
    BY <1>3 DEF Source, Sound, Entry
  <2> HIDE DEF s
  <2>2. Reconciled(p, t) = IF Committed(e, p, t) THEN NoEntry
                           ELSE IF t[s] # Absent THEN Adopt(e, t[s])
                           ELSE IF t[p] # Absent THEN [Adopt(e, t[p]) EXCEPT !.kind = "modify", !.target = <<>>]
                           ELSE [AsCreate(e) EXCEPT !.target = <<>>]
    BY <1>3 DEF Reconciled, ReconciledRename, s
  <2>3. CASE Committed(e, p, t)
    <3>1. Matches(e, t[p])
      BY <2>3 DEF Committed
    <3> QED
      BY <1>1, <1>3, <2>2, <2>3, <3>1, MatchesIs DEF Taken
  <2>4. CASE ~Committed(e, p, t) /\ t[s] # Absent
    BY <1>3, <2>1, <2>2, <2>4, AdoptIs DEF Kept
  <2>5. CASE ~Committed(e, p, t) /\ t[s] = Absent /\ t[p] # Absent
    <3>1. Reconciled(p, t) = [Adopt(e, t[p]) EXCEPT !.kind = "modify", !.target = <<>>]
      BY <2>2, <2>5
    <3>2. Kept(e, [Adopt(e, t[p]) EXCEPT !.kind = "modify", !.target = <<>>])
      BY <1>1, <1>3, AsModifyIs
    <3> QED
      BY <3>1, <3>2
  <2>6. CASE ~Committed(e, p, t) /\ t[s] = Absent /\ t[p] = Absent
    BY <1>3, <2>2, <2>6, AsCreateIs DEF Kept
  <2> QED
    BY <2>3, <2>4, <2>5, <2>6
<1>4. CASE e.kind = "create"
  <2>1. Reconciled(p, t) = IF t[p] = Absent THEN e ELSE IF Matches(e, t[p]) THEN NoEntry
                           ELSE [Adopt(e, t[p]) EXCEPT !.kind = "modify"]
    BY <1>4 DEF Reconciled
  <2>2. CASE t[p] = Absent
    BY <1>4, <2>1, <2>2 DEF Kept
  <2>3. CASE t[p] # Absent /\ Matches(e, t[p])
    BY <1>1, <1>4, <2>1, <2>3, MatchesIs DEF Taken
  <2>4. CASE t[p] # Absent /\ ~Matches(e, t[p])
    <3>1. Reconciled(p, t) = [Adopt(e, t[p]) EXCEPT !.kind = "modify"]
      BY <2>1, <2>4
    <3> QED
      BY <1>1, <1>4, <3>1, AsModifyIs
  <2> QED
    BY <2>2, <2>3, <2>4
<1>5. CASE e.kind = "mkdir"
  <2>1. Reconciled(p, t) = IF t[p] = Dir THEN NoEntry ELSE e
    BY <1>5 DEF Reconciled
  <2> QED
    BY <1>5, <2>1, ShownIs DEF Kept, Taken
<1>6. CASE e.kind = "symlink"
  <2>1. Reconciled(p, t) = IF t[p].type = "symlink" THEN Rebased(e, t[p]) ELSE e
    BY <1>6 DEF Reconciled
  <2> QED
    BY <1>1, <1>6, <2>1, RebasedIs DEF Kept, Taken
<1> QED
  BY <1>2, <1>3, <1>4, <1>5, <1>6, ShownIs

LEMMA ReconciledDelete ==
    ASSUME NEW t \in [Paths -> Node \cup {Absent}], NEW p \in Paths, OverlayInv,
           entries[p].kind = "delete"
    PROVE  \/ Reconciled(p, t) = entries[p] /\ entries[p].target \in {<<>>, p}
           \/ Reconciled(p, t) = NoEntry /\ (base[p] = Absent \/ t[p] = Absent)
<1> DEFINE e == entries[p]
<1>1. Reconciled(p, t) = ReconciledWhiteout(e, p, t)
  BY DEF Reconciled
<1>2. e.target \notin {<<>>, p} => base[p] = Absent
  BY DEF OverlayInv, TypedInv, CoversNothing
<1>3. \A s \in StaleSources(t) : t[s] = Absent /\ s # <<>>
  <2>1. ASSUME NEW r \in Paths, entries[r].kind = "rename" PROVE Source(entries[r], r) # <<>>
    BY PathSeqs DEF Source
  <2> QED
    BY <2>1 DEF StaleSources
<1>4. CASE e.target # <<>> /\ e.target # p
  BY <1>1, <1>2, <1>4 DEF ReconciledWhiteout
<1>5. CASE e.target \in {<<>>, p}
  <2>1. p \in StaleSources(t) \/ e.target \in StaleSources(t) => t[p] = Absent
    BY <1>3, <1>5
  <2> QED
    BY <1>1, <1>5, <2>1 DEF ReconciledWhiteout
<1> QED
  BY <1>4, <1>5

(* What the reconciled entry at p and the new commit show there: work that is *)
(* kept, and the new commit elsewhere.                                       *)
LEMMA LaidIs ==
    ASSUME NEW t \in [Paths -> Node \cup {Absent}], NEW p \in Paths, OverlayInv,
           NEW F, F[p] = Reconciled(p, t)
    PROVE  /\ F[p] \in Sound \cup {NoEntry}
           /\ F[p] # NoEntry => entries[p] # NoEntry
           /\ Shows(t, F, p) = IF (entries[p] # NoEntry /\ Merged[p] # base[p]) \/ F[p] # NoEntry
                              THEN Merged[p] ELSE t[p]
           /\ F[p] # NoEntry => Shown(F[p]) = Merged[p]
           /\ F[p].kind = "delete" => F[p].target \in {<<>>, p}
<1> DEFINE e == entries[p]
           f == F[p]
<1>1. Merged[p] = Shows(base, entries, p) /\ e \in Sound \cup {NoEntry}
  BY MergedShows DEF OverlayInv, TypedInv, Typed
<1>2. CASE e = NoEntry
  <2>1. f = NoEntry
    BY <1>2, NoEntryIs DEF Reconciled
  <2> QED
    BY <1>2, <2>1, NoEntryIs DEF Shows
<1>3. CASE e # NoEntry /\ e.kind = "delete"
  <2>1. e \in Sound /\ Merged[p] = Absent /\ Shown(e) = Absent
    BY <1>1, <1>3, ShownIs DEF Shows
  <2>2. CASE f = e /\ e.target \in {<<>>, p}
    BY <1>3, <2>1, <2>2 DEF Shows
  <2>3. CASE f = NoEntry /\ (base[p] = Absent \/ t[p] = Absent)
    BY <2>1, <2>3, NoEntryIs DEF Shows
  <2> QED
    BY <1>3, <2>2, <2>3, ReconciledDelete
<1>4. CASE e # NoEntry /\ e.kind # "delete"
  <2>1. e \in Sound /\ Merged[p] = Shown(e)
    BY <1>1, <1>4 DEF Shows
  <2>2. Kept(e, f) \/ Taken(e, f, t[p])
    BY <1>4, <2>1, ReconciledFile
  <2>3. CASE Kept(e, f)
    BY <1>4, <2>1, <2>3, NoEntryIs DEF Kept, Shows
  <2>4. CASE Taken(e, f, t[p])
    BY <1>4, <2>1, <2>4, NoEntryIs DEF Taken, Shows
  <2> QED
    BY <2>2, <2>3, <2>4
<1> QED
  BY <1>2, <1>3, <1>4

(* What is kept has the directories it is in, and nothing of the new commit   *)
(* is below what is no directory.                                            *)
LEMMA WholeAfterHead ==
    ASSUME NEW t \in [Paths -> Node \cup {Absent}], IsTree(t), OverlayInv, Agrees(t),
           NEW F, \A p \in Paths : F[p] = Reconciled(p, t)
    PROVE  Whole(t, F)
<1> SUFFICES ASSUME NEW p \in Paths, Shows(t, F, p) # Absent, NEW d \in Ancestors(p)
             PROVE  Shows(t, F, d) = Dir
  BY DEF Whole
<1>1. /\ Typed(base, entries) /\ Whole(base, entries)
      /\ \A r \in Paths : Merged[r] = Shows(base, entries, r)
  BY MergedShows DEF OverlayInv, TypedInv
<1>2. d \in Paths /\ IsPrefix(d, p) /\ d # p
  BY AncestorsOf
<1>3. entries[d] = NoEntry => F[d] = NoEntry
  BY <1>2, LaidIs
<1>4. entries[d].kind = "mkdir" => Shows(t, F, d) = Dir
  <2>1. HAVE entries[d].kind = "mkdir"
  <2>2. F[d] = IF t[d] = Dir THEN NoEntry ELSE entries[d]
    BY <1>2, <2>1 DEF Reconciled
  <2>3. entries[d] \in Sound
    BY <1>1, <1>2, <2>1, NoEntryIs DEF Typed
  <2> QED
    BY <2>1, <2>2, <2>3, ShownIs, NoEntryIs DEF Shows
<1>5. CASE F[p] = NoEntry
  <2>1. t[p] # Absent /\ t[d] = Dir
    BY <1>5 DEF Shows, IsTree
  <2>2. ~(entries[d] # NoEntry /\ entries[d].kind # "mkdir")
    <3>1. SUFFICES ASSUME entries[d] # NoEntry, entries[d].kind # "mkdir" PROVE FALSE
      OBVIOUS
    <3>2. d \in Held(entries) /\ p \in Under(d) \ {d}
      BY <1>2, <3>1 DEF Held, Under
    <3>3. Reconciled(p, t).kind = "delete"
      BY <2>1, <3>1, <3>2 DEF Agrees
    <3> QED
      BY <1>5, <3>3, NoEntryIs
  <2> QED
    BY <1>3, <1>4, <2>1, <2>2 DEF Shows
<1>6. CASE F[p] # NoEntry
  <2>1. entries[p] # NoEntry /\ Merged[p] # Absent
    BY <1>6, LaidIs DEF Shows
  <2>2. entries[p].kind # "delete"
    BY <1>1, <2>1, ShownIs DEF Shows, Typed
  <2>3. t[d] = Dir \/ entries[d].kind = "mkdir"
    BY <2>1, <2>2 DEF Agrees, Held
  <2>4. Shows(base, entries, d) = Dir
    BY <1>1, <2>1 DEF Whole
  <2>5. entries[d] = NoEntry \/ entries[d].kind = "mkdir"
    BY <1>1, <1>2, <2>4, ShownNode DEF Shows, Typed
  <2> QED
    BY <1>3, <1>4, <2>3, <2>5 DEF Shows
<1> QED
  BY <1>5, <1>6

LEMMA HeadStep ==
    ASSUME ~Conflicts, OverlayInv, NEW t \in [Paths -> Node \cup {Absent}], IsTree(t), HeadChange(t)
    PROVE  OverlayInv' /\ View!Next
<1> DEFINE F == [p \in Paths |-> Reconciled(p, t)]
<1>1. /\ base' = t /\ entries' = F /\ done' = <<"checkout">> /\ ops' = ops
      /\ heads < MaxHeads /\ heads' = heads + 1 /\ Agrees(t)
  BY DEF HeadChange
<1>2. \A p \in Paths : F[p] = Reconciled(p, t)
  OBVIOUS
<1>3. F \in [Paths -> Sound \cup {NoEntry}]
  BY LaidIs
<1> HIDE DEF F
<1>4. Typed(t, F) /\ Whole(t, F)
  BY <1>1, <1>2, <1>3, WholeAfterHead DEF Typed
<1>5. CoversNothing(t, F)
  BY <1>2, LaidIs DEF CoversNothing
<1>6. heads' \in 0 .. MaxHeads /\ ops' \in 0 .. MaxOps
  BY <1>1, ConstantsAssumption DEF OverlayInv, TypedInv, ConstantsAssumption
<1>7. OverlayInv'
  BY <1>1, <1>4, <1>5, <1>6 DEF OverlayInv, TypedInv
<1>8. Held(entries)' \subseteq Held(entries)
  BY <1>1, <1>2, LaidIs DEF Held
<1> DEFINE laid == [p \in Paths |-> IF p \in View!Work \cup Held(entries)' THEN Merged[p] ELSE base'[p]]
<1>9. \A p \in Paths : laid[p] = Shows(t, F, p)
  <2> SUFFICES ASSUME NEW p \in Paths PROVE laid[p] = Shows(t, F, p)
    OBVIOUS
  <2>1. p \in View!Work <=> entries[p] # NoEntry /\ Merged[p] # base[p]
    BY DEF View!Work, Held
  <2>2. p \in Held(entries)' <=> F[p] # NoEntry
    BY <1>1 DEF Held
  <2>3. Shows(t, F, p) = IF (entries[p] # NoEntry /\ Merged[p] # base[p]) \/ F[p] # NoEntry
                         THEN Merged[p] ELSE t[p]
    BY <1>2, LaidIs
  <2> QED
    BY <1>1, <2>1, <2>2, <2>3
<1> HIDE DEF laid
<1>10. Merged' = [p \in Paths |-> IF \A d \in View!Above(p) : laid[d] = Dir THEN laid[p] ELSE Absent]
  <2>1. Merged' = [p \in Paths |-> IF \A d \in Ancestors(p) : Shows(t, F, d) = Dir
                                  THEN Shows(t, F, p) ELSE Absent]
    BY <1>1, MergedIs DEF ViewOf
  <2>2. ASSUME NEW p \in Paths
        PROVE  (\A d \in Ancestors(p) : Shows(t, F, d) = Dir) <=> \A d \in View!Above(p) : laid[d] = Dir
    BY <1>9, SameAbove, AncestorsOf
  <2> QED
    BY <1>9, <2>1, <2>2
<1>11. View!Checkout
  BY <1>1, <1>8, <1>10 DEF View!Checkout, View!Tree, laid
<1> QED
  BY <1>7, <1>11, AccountedFor DEF View!Next

LEMMA StagedIs ==
    ASSUME TypedInv, NEW K PROVE Staged(K) \in [Paths -> Node \cup {Absent}]
<1>1. \A p \in Paths : Merged[p] \in Node \cup {Absent} /\ base[p] \in Node \cup {Absent}
  BY ReachedIs DEF TypedInv, Typed
<1> QED
  BY <1>1, Nodes DEF Staged

LEMMA CommitStep ==
    ASSUME ~Conflicts, OverlayInv, NEW K \in SUBSET Held(entries), Commit(K)
    PROVE  OverlayInv' /\ View!Next
<1> DEFINE t == Staged(K)
<1>1. t \in [Paths -> Node \cup {Absent}]
  BY StagedIs DEF OverlayInv, TypedInv
<1>2. IsTree(t) /\ HeadChange(t)
  BY DEF Commit
<1> HIDE DEF t
<1> QED
  BY <1>1, <1>2, HeadStep

-----------------------------------------------------------------------------
(* Renames *)

(* An operation that leaves the entries G. *)
LEMMA Operated ==
    ASSUME OverlayInv, NEW what, NEW G, UserOp(what, G),
           G \in [Paths -> Sound \cup {NoEntry}], Whole(base, G), CoversNothing(base, G)
    PROVE  /\ OverlayInv' /\ View!Accounted
           /\ Merged' = [r \in Paths |-> Shows(base, G, r)]
           /\ base' = base /\ done' = what
<1>1. /\ entries' = G /\ base' = base /\ done' = what
      /\ heads' = heads /\ ops < MaxOps /\ ops' = ops + 1
  BY DEF UserOp
<1>2. ops' \in 0 .. MaxOps /\ heads' \in 0 .. MaxHeads
  BY <1>1, ConstantsAssumption DEF ConstantsAssumption, OverlayInv, TypedInv
<1>3. Typed(base, G)
  BY DEF OverlayInv, TypedInv, Typed
<1>4. OverlayInv'
  BY <1>1, <1>2, <1>3 DEF OverlayInv, TypedInv
<1>5. ViewOf(base, G) = [r \in Paths |-> Shows(base, G, r)]
  BY WholeView
<1>6. Merged' = [r \in Paths |-> Shows(base, G, r)]
  BY <1>1, <1>5, MergedIs
<1> QED
  BY <1>1, <1>4, <1>6, AccountedFor

LEMMA MarkedIs ==
    ASSUME NEW e \in Sound, e.kind \in {"create", "symlink"}, NEW n \in Node \cup {Absent}
    PROVE  LET y == [e EXCEPT !.kind = IF @ = "symlink" THEN @ ELSE "modify",
                              !.soid = n.oid, !.smode = n.mode]
           IN y \in Sound /\ Shown(y) = Shown(e) /\ y.kind # "delete"
<1>1. CASE e.kind = "create"
  BY <1>1, NodeFields DEF Sound, Entry, Shown
<1>2. CASE e.kind = "symlink"
  BY <1>2, NodeFields DEF Sound, Entry, Shown
<1> QED
  BY <1>1, <1>2

LEMMA LeftIs ==
    ASSUME NEW e \in Sound, NEW p \in Paths
    PROVE  \/ LeftBehind(e, p) = NoEntry /\ e.kind \in {"create", "symlink"} /\ e.soid = None
           \/ /\ LeftBehind(e, p) \in Sound /\ Shown(LeftBehind(e, p)) = Absent
              /\ LeftBehind(e, p).kind = "delete"
              /\ LeftBehind(e, p).target = IF e.kind = "rename" THEN e.target ELSE p
<1>1. CASE e.kind = "create"
  BY <1>1 DEF LeftBehind, Sound
<1>2. CASE e.kind = "symlink" /\ e.soid = None
  BY <1>2 DEF LeftBehind
<1>3. CASE e.kind # "create" /\ ~(e.kind = "symlink" /\ e.soid = None)
  <2> DEFINE s == IF e.kind = "rename" THEN e.target ELSE p
  <2>1. s \in Paths \cup {<<>>} /\ LeftBehind(e, p) = Whiteout(s)
    BY <1>3 DEF LeftBehind, Sound, Entry
  <2> HIDE DEF s
  <2>2. /\ Whiteout(s) \in Sound /\ Shown(Whiteout(s)) = Absent
        /\ Whiteout(s).kind = "delete" /\ Whiteout(s).target = s
    BY <2>1, WhiteoutIs
  <2> QED
    BY <2>1, <2>2 DEF s
<1> QED
  BY <1>1, <1>2, <1>3

(* The entries when both ends of a rename have been promoted. *)
BothPromoted(p, q) ==
    [r \in Paths |-> IF r = p \/ (r = q /\ Exists(q)) THEN EnsureOverlay(r)[r] ELSE entries[r]]

LEMMA BothPromotedIs ==
    ASSUME OverlayInv, NEW p \in Paths, NEW q \in Paths, Merged[p] \notin {Absent, Dir}, Merged[q] # Dir
    PROVE  LET E == BothPromoted(p, q) IN
           /\ E \in [Paths -> Sound \cup {NoEntry}]
           /\ \A r \in Paths : Shows(base, E, r) = Merged[r]
           /\ \A r \in Paths : E[r].kind = "delete" => E[r] = entries[r]
           /\ E[p] = EnsureOverlay(p)[p]
<1> DEFINE E == BothPromoted(p, q)
<1>1. ASSUME NEW r \in Paths
      PROVE  /\ E[r] \in Sound \cup {NoEntry} /\ Shows(base, E, r) = Merged[r]
             /\ E[r].kind = "delete" => E[r] = entries[r]
  <2>1. CASE r = p \/ (r = q /\ Exists(q))
    <3>1. Merged[r] \notin {Absent, Dir} /\ E[r] = EnsureOverlay(r)[r]
      BY <2>1 DEF Exists, BothPromoted
    <3>2. /\ E[r] \in Sound /\ Shown(E[r]) = Merged[r]
          /\ E[r].kind \in {"create", "modify", "rename", "symlink"}
      BY <3>1, EnsuredIs DEF OverlayInv
    <3> QED
      BY <3>2, NoEntryIs DEF Shows
  <2>2. CASE ~(r = p \/ (r = q /\ Exists(q)))
    <3>1. E[r] = entries[r]
      BY <2>2 DEF BothPromoted
    <3> QED
      BY <3>1, MergedShows DEF Shows, OverlayInv, TypedInv, Typed
  <2> QED
    BY <2>1, <2>2
<1>2. E \in [Paths -> Sound \cup {NoEntry}]
  BY <1>1 DEF BothPromoted
<1>3. E[p] = EnsureOverlay(p)[p]
  BY DEF BothPromoted
<1> QED
  BY <1>1, <1>2, <1>3

(* What a file or link leaves behind covers the commit's node of that name,   *)
(* and nothing else.                                                         *)
LEMMA NothingLeft ==
    ASSUME OverlayInv, NEW p \in Paths, Merged[p] \notin {Absent, Dir},
           ~Recreated(p), ~RenamedOnto(p), NEW e, e = EnsureOverlay(p)[p]
    PROVE  /\ e.kind \in {"create", "symlink"} /\ e.soid = None => base[p] = Absent
           /\ e.kind = "rename" /\ e.target # p => base[p] = Absent
<1>1. /\ entries[p] # NoEntry => e = entries[p]
      /\ entries[p] = NoEntry => e.soid # None /\ e.kind \in {"modify", "symlink"}
  BY EnsuredIs DEF OverlayInv
<1> QED
  BY <1>1 DEF Recreated, RenamedOnto

(* The entries G after a rename of p to q, where both are no directories.     *)
LEMMA FileMoved ==
    ASSUME OverlayInv, NEW p \in Paths, NEW q \in Paths, p # q,
           Merged[p] \notin {Absent, Dir}, Merged[q] # Dir, \A d \in Ancestors(q) : Merged[d] = Dir,
           NEW G \in [Paths -> Sound \cup {NoEntry}], UserOp(<<"move", p, q>>, G),
           \A r \in Paths : r \notin {p, q} => Shows(base, G, r) = Merged[r],
           Shows(base, G, p) = Absent, Shows(base, G, q) = Merged[p], CoversNothing(base, G)
    PROVE  OverlayInv' /\ View!Next
<1>1. \A d \in Ancestors(p) : Merged[d] = Dir
  BY ThereIs
<1>2. p \notin Ancestors(q) /\ q \notin Ancestors(p)
  BY <1>1
<1>3. \A r \in Paths : r \notin {p, q} /\ (r \in Under(p) \/ r \in Under(q)) => Merged[r] = Absent
  BY ThereIs
<1>4. Whole(base, G)
  <2> SUFFICES ASSUME NEW r \in Paths, Shows(base, G, r) # Absent, NEW d \in Ancestors(r)
               PROVE  Shows(base, G, d) = Dir
    BY DEF Whole
  <2>1. d \in Paths /\ IsPrefix(d, r) /\ d # r
    BY AncestorsOf
  <2>2. CASE r = q
    BY <1>2, <2>1, <2>2
  <2>3. CASE r # q
    <3>1. r # p /\ Merged[r] # Absent /\ Merged[d] = Dir
      BY <2>3, ThereIs
    <3> QED
      BY <2>1, <3>1
  <2> QED
    BY <2>2, <2>3
<1>5. /\ OverlayInv' /\ View!Accounted
      /\ Merged' = [r \in Paths |-> Shows(base, G, r)]
      /\ base' = base /\ done' = <<"move", p, q>>
  BY <1>4, Operated
<1>6. ASSUME NEW r \in Paths
      PROVE  Shows(base, G, r) = IF r \in Under(q)
                                 THEN LET s == Rebase(r, q, p) IN IF s \in Paths THEN Merged[s] ELSE Absent
                                 ELSE IF r \in Under(p) THEN Absent ELSE Merged[r]
  <2>1. p \in Under(p) /\ q \in Under(q) /\ p \notin Under(q)
    BY <1>2, PrefixOrder, AncestorsOf DEF Under
  <2>2. CASE r = q
    <3>1. Rebase(r, q, p) = p
      BY <2>2, RebaseUnder, PrefixOrder
    <3> QED
      BY <2>1, <2>2, <3>1
  <2>3. CASE r \in Under(q) /\ r # q
    <3>1. /\ Rebase(r, q, p) \in Paths => Rebase(r, q, p) \in Under(p)
          /\ Rebase(r, q, p) # p
      BY <2>3, RebaseUnder DEF Under
    <3>2. Rebase(r, q, p) \in Paths => Merged[Rebase(r, q, p)] = Absent
      BY <3>1, ThereIs
    <3>3. Merged[r] = Absent /\ r # p
      BY <1>3, <2>1, <2>3
    <3> QED
      BY <2>3, <3>2, <3>3
  <2>4. CASE r \in Under(p) /\ r \notin Under(q)
    BY <1>3, <2>1, <2>4
  <2>5. CASE r \notin Under(p) /\ r \notin Under(q)
    BY <2>1, <2>5
  <2> QED
    BY <2>2, <2>3, <2>4, <2>5
<1>7. View!Move(p, q)
  BY <1>5, <1>6, SameUnder, SameRebase DEF View!Move
<1> QED
  BY <1>5, <1>7 DEF View!Next

LEMMA RenameFileStep ==
    ASSUME ~RecreatedMoves, ~RenamedMovesOn, OverlayInv, NEW p \in Paths, NEW q \in Paths, RenameFile(p, q)
    PROVE  OverlayInv' /\ View!Next
<1> DEFINE E == BothPromoted(p, q)
           e == E[p]
<1>1. /\ p # q /\ Merged[p] \notin {Absent, Dir} /\ Merged[q] # Dir
      /\ ~Recreated(p) /\ ~RenamedOnto(p)
  BY Nodes DEF RenameFile, Exists, Room
<1>2. \A d \in Ancestors(q) : Merged[d] = Dir
  BY RoomIs, ThereIs DEF RenameFile, Exists
<1>3. IF base[q] = Dir THEN UserOp(<<"nothing">>, E)
      ELSE UserOp(<<"move", p, q>>,
                  IF base[q] # Absent /\ E[p].kind \in {"create", "symlink"}
                  THEN MarkedModified(E, p, q) ELSE RenamedInOverlay(E, p, q))
  BY DEF RenameFile, BothPromoted
<1>4. /\ E \in [Paths -> Sound \cup {NoEntry}]
      /\ \A r \in Paths : Shows(base, E, r) = Merged[r]
      /\ \A r \in Paths : E[r].kind = "delete" => E[r] = entries[r]
      /\ E[p] = EnsureOverlay(p)[p]
  BY <1>1, BothPromotedIs
<1>5. /\ e \in Sound /\ Shown(e) = Merged[p]
      /\ e.kind \in {"create", "modify", "rename", "symlink"}
  BY <1>1, <1>4, EnsuredIs DEF OverlayInv
<1>6. /\ e.kind \in {"create", "symlink"} /\ e.soid = None => base[p] = Absent
      /\ e.kind = "rename" /\ e.target # p => base[p] = Absent
  BY <1>1, <1>4, NothingLeft
<1> HIDE DEF E
<1>7. CoversNothing(base, E)
  BY <1>4 DEF CoversNothing, OverlayInv, TypedInv
<1>8. base[q] \in Node \cup {Absent}
  BY DEF OverlayInv, TypedInv, Typed
<1>9. CASE base[q] = Dir
  <2>1. UserOp(<<"nothing">>, E)
    BY <1>3, <1>9
  <2>2. Whole(base, E)
    BY <1>4, ThereIs, AncestorsOf, MergedShows DEF Whole
  <2>3. /\ OverlayInv' /\ View!Accounted
        /\ Merged' = [r \in Paths |-> Shows(base, E, r)]
        /\ base' = base /\ done' = <<"nothing">>
    BY <1>4, <1>7, <2>1, <2>2, Operated
  <2>4. Merged' = Merged
    BY <1>4, <2>3, MergedShows
  <2>5. View!Nothing
    BY <2>3, <2>4 DEF View!Nothing
  <2> QED
    BY <2>3, <2>5 DEF View!Next
<1>10. ASSUME base[q] # Dir, NEW x \in Sound \cup {NoEntry}, NEW y \in Sound,
              UserOp(<<"move", p, q>>, [E EXCEPT ![p] = x, ![q] = y]),
              Shown(y) = Shown(e), y.kind # "delete",
              x = NoEntry => base[p] = Absent,
              x # NoEntry => Shown(x) = Absent,
              x.kind = "delete" /\ x.target \notin {<<>>, p} => base[p] = Absent
       PROVE  OverlayInv' /\ View!Next
  <2> DEFINE G == [E EXCEPT ![p] = x, ![q] = y]
  <2>1. /\ G \in [Paths -> Sound \cup {NoEntry}]
        /\ G[p] = x /\ G[q] = y /\ \A r \in Paths : r \notin {p, q} => G[r] = E[r]
    BY <1>1, <1>4
  <2>2. UserOp(<<"move", p, q>>, G)
    BY <1>10
  <2> HIDE DEF G
  <2>3. /\ \A r \in Paths : r \notin {p, q} => Shows(base, G, r) = Merged[r]
        /\ Shows(base, G, p) = Absent /\ Shows(base, G, q) = Merged[p]
    BY <1>4, <1>5, <1>10, <2>1, NoEntryIs DEF Shows
  <2>4. CoversNothing(base, G)
    BY <1>7, <1>10, <2>1 DEF CoversNothing
  <2> QED
    BY <1>1, <1>2, <2>1, <2>2, <2>3, <2>4, FileMoved
<1>11. CASE base[q] \notin {Absent, Dir} /\ e.kind \in {"create", "symlink"}
  <2> DEFINE x == IF e.kind = "symlink" /\ e.soid # None THEN Whiteout(<<>>) ELSE NoEntry
             y == [e EXCEPT !.kind = IF @ = "symlink" THEN @ ELSE "modify",
                            !.soid = base[q].oid, !.smode = base[q].mode]
  <2>1. UserOp(<<"move", p, q>>, [E EXCEPT ![p] = x, ![q] = y])
    BY <1>3, <1>11 DEF MarkedModified
  <2>2. y \in Sound /\ Shown(y) = Shown(e) /\ y.kind # "delete"
    BY <1>5, <1>8, <1>11, MarkedIs
  <2>3. x = NoEntry \/ (x \in Sound /\ Shown(x) = Absent /\ x.kind = "delete" /\ x.target = <<>>)
    BY WhiteoutIs
  <2>4. x = NoEntry => base[p] = Absent
    <3>1. Whiteout(<<>>) # NoEntry
      BY WhiteoutIs, NoEntryIs
    <3>2. x = NoEntry => e.soid = None
      BY <1>5, <1>11, <3>1 DEF Sound
    <3> QED
      BY <1>6, <1>11, <3>2
  <2> HIDE DEF x, y
  <2> QED
    BY <1>10, <1>11, <2>1, <2>2, <2>3, <2>4, NoEntryIs
<1>12. CASE base[q] # Dir /\ ~(base[q] # Absent /\ e.kind \in {"create", "symlink"})
  <2> DEFINE x == LeftBehind(e, p)
             y == RenamedEntry(e, p)
  <2>1. UserOp(<<"move", p, q>>, [E EXCEPT ![p] = x, ![q] = y])
    BY <1>3, <1>12 DEF RenamedInOverlay
  <2>2. y \in Sound /\ Shown(y) = Shown(e) /\ y.kind # "delete"
    BY <1>5, RenamedIs
  <2>3. \/ x = NoEntry /\ e.kind \in {"create", "symlink"} /\ e.soid = None
        \/ /\ x \in Sound /\ Shown(x) = Absent /\ x.kind = "delete"
           /\ x.target = IF e.kind = "rename" THEN e.target ELSE p
    BY <1>5, LeftIs
  <2> HIDE DEF x, y
  <2>4. /\ x \in Sound \cup {NoEntry} /\ (x = NoEntry => base[p] = Absent)
        /\ x # NoEntry => Shown(x) = Absent
    BY <1>6, <2>3, NoEntryIs
  <2>5. x.kind = "delete" /\ x.target \notin {<<>>, p} => base[p] = Absent
    BY <1>6, <2>3, NoEntryIs
  <2> QED
    BY <1>10, <1>12, <2>1, <2>2, <2>4, <2>5
<1> QED
  BY <1>9, <1>11, <1>12

(* Promoting a tree changes nothing that shows, and all that shows in it has  *)
(* an entry then.                                                            *)
LEMMA PromotedTreeIs ==
    ASSUME OverlayInv, NEW p \in Paths, NEW r \in Paths
    PROVE  LET E == PromotedTree(p) IN
           /\ E[r] \in Sound \cup {NoEntry} /\ Shows(base, E, r) = Merged[r]
           /\ E[r].kind = "delete" => E[r] = entries[r]
           /\ r \in Under(p) => (E[r] # NoEntry /\ E[r].kind # "delete" <=> Merged[r] # Absent)
<1> DEFINE E == PromotedTree(p)
<1>1. /\ entries[r] \in Sound \cup {NoEntry} /\ base[r] \in Node \cup {Absent}
      /\ Merged[r] = Shows(base, entries, r)
  BY MergedShows DEF OverlayInv, TypedInv, Typed
<1>2. CASE r \in Under(p) /\ Merged[r] # Absent /\ entries[r] = NoEntry
  <2>1. E[r] = IF base[r] = Dir THEN MkdirEntry ELSE Promoted(r)
    BY <1>2 DEF PromotedTree, Exists
  <2>2. Merged[r] = base[r]
    BY <1>1, <1>2 DEF Shows
  <2>3. CASE base[r] = Dir
    BY <1>2, <2>1, <2>2, <2>3, MkdirIs, NoEntryIs DEF Shows
  <2>4. CASE base[r] # Dir
    <3>1. base[r] \in Files \cup Links
      BY <1>1, <1>2, <2>2, <2>4 DEF Node
    <3>2. /\ Promoted(r) \in Sound /\ Shown(Promoted(r)) = base[r]
          /\ Promoted(r).kind \in {"modify", "symlink"}
      BY <3>1, PromotedIs
    <3> QED
      BY <1>2, <2>1, <2>2, <2>4, <3>2, NoEntryIs DEF Shows
  <2> QED
    BY <2>3, <2>4
<1>3. CASE ~(r \in Under(p) /\ Merged[r] # Absent /\ entries[r] = NoEntry)
  <2>1. E[r] = entries[r]
    BY <1>3 DEF PromotedTree, Exists
  <2>2. CASE entries[r] = NoEntry
    BY <1>1, <1>3, <2>1, <2>2 DEF Shows
  <2>3. CASE entries[r] # NoEntry
    BY <1>1, <2>1, <2>3, ShownNode DEF Shows
  <2> QED
    BY <2>2, <2>3
<1> QED
  BY <1>2, <1>3

(* What the moved tree shows at r. *)
MovedNode(r, p, q) ==
    IF r \in Under(q) THEN LET s == Rebase(r, q, p) IN IF s \in Paths THEN Merged[s] ELSE Absent
    ELSE IF r \in Under(p) THEN Absent ELSE Merged[r]

LEMMA MovedTreeIs ==
    ASSUME OverlayInv, NEW p \in Paths, NEW q \in Paths, NEW r \in Paths, Merged[p] # Absent,
           NEW G, G = MovedTree(PromotedTree(p), p, q)
    PROVE  /\ G[r] \in Sound \cup {NoEntry} /\ Shows(base, G, r) = MovedNode(r, p, q)
           /\ G[r].kind = "delete" /\ G[r].target \notin {<<>>, r} => base[r] = Absent
<1> DEFINE E == PromotedTree(p)
           s == Rebase(r, q, p)
           w == IF base[r] # Absent THEN Whiteout(r) ELSE NoEntry
<1>1. /\ Whiteout(r) \in Sound /\ Shown(Whiteout(r)) = Absent /\ Whiteout(r).target = r
      /\ Whiteout(r) # NoEntry
  BY WhiteoutIs, NoEntryIs
<1>2. /\ w \in Sound \cup {NoEntry} /\ (w.kind = "delete" => w.target = r)
      /\ (IF w = NoEntry THEN base[r] ELSE Shown(w)) = Absent
  BY <1>1, NoEntryIs
<1> HIDE DEF w
<1>3. CASE r \in Under(q) /\ s \in Paths /\ Merged[s] # Absent
  <2>1. s \in Under(p)
    BY <1>3, RebaseUnder DEF Under
  <2>2. /\ E[s] \in Sound /\ Shown(E[s]) = Merged[s] /\ E[s] # NoEntry /\ E[s].kind # "delete"
    BY <1>3, <2>1, PromotedTreeIs DEF Shows
  <2>3. G[r] = MovedEntry(E[s], s)
    BY <1>3, <2>2 DEF MovedTree
  <2> HIDE DEF E
  <2>4. G[r] \in Sound /\ Shown(G[r]) = Merged[s] /\ G[r].kind # "delete"
    BY <1>3, <2>2, <2>3, MovedIs
  <2> QED
    BY <1>3, <2>4, NoEntryIs DEF MovedNode, Shows
<1>4. CASE r \in Under(q) /\ ~(s \in Paths /\ Merged[s] # Absent)
  <2>1. r # q
    BY <1>4, RebaseUnder, PrefixOrder
  <2>2. ~(s \in Paths /\ E[s] # NoEntry /\ E[s].kind # "delete")
    BY <1>4, RebaseUnder, PromotedTreeIs DEF Under
  <2>3. G[r] = w
    BY <1>4, <2>1, <2>2 DEF MovedTree, w
  <2> QED
    BY <1>2, <1>4, <2>3 DEF MovedNode, Shows
<1>5. CASE r \notin Under(q) /\ r \in Under(p)
  <2>1. G[r] = w
    BY <1>5 DEF MovedTree, w
  <2> QED
    BY <1>2, <1>5, <2>1 DEF MovedNode, Shows
<1>6. CASE r \notin Under(q) /\ r \notin Under(p)
  <2>1. G[r] = E[r]
    BY <1>6 DEF MovedTree
  <2>2. /\ E[r] \in Sound \cup {NoEntry} /\ Shows(base, E, r) = Merged[r]
        /\ E[r].kind = "delete" => E[r] = entries[r]
    BY PromotedTreeIs
  <2> HIDE DEF E
  <2>3. G[r].kind = "delete" /\ G[r].target \notin {<<>>, r} => base[r] = Absent
    BY <2>1, <2>2 DEF OverlayInv, TypedInv, CoversNothing
  <2> QED
    BY <1>6, <2>1, <2>2, <2>3 DEF MovedNode, Shows
<1> QED
  BY <1>3, <1>4, <1>5, <1>6

LEMMA RenameDirStep ==
    ASSUME OverlayInv, NEW p \in Paths, NEW q \in Paths, RenameDir(p, q)
    PROVE  OverlayInv' /\ View!Next
<1> DEFINE G == MovedTree(PromotedTree(p), p, q)
<1>1. /\ p # q /\ Merged[p] = Dir /\ Merged[p] # Absent /\ q \notin Under(p)
      /\ Room(q) \/ (Merged[q] # Absent /\ Listed(q) = {})
      /\ UserOp(<<"move", p, q>>, G)
  BY DEF RenameDir, Exists
<1>2. \A d \in Ancestors(q) : Merged[d] = Dir
  BY <1>1, RoomIs, ThereIs
<1>3. \A r \in Under(q) : r # q => Merged[r] = Absent
  <2>1. CASE Room(q)
    BY <2>1, RoomIs, ThereIs, Nodes
  <2>2. CASE Listed(q) = {}
    BY <2>2, EmptyDir
  <2> QED
    BY <1>1, <2>1, <2>2
<1>4. p \notin Under(q)
  BY <1>1, <1>3
<1>5. G \in [Paths -> Sound \cup {NoEntry}]
  <2>1. \A r \in Paths : G[r] \in Sound \cup {NoEntry}
    BY <1>1, MovedTreeIs
  <2> QED
    BY <2>1 DEF MovedTree
<1>6. /\ \A r \in Paths : Shows(base, G, r) = MovedNode(r, p, q)
      /\ CoversNothing(base, G)
  BY <1>1, MovedTreeIs DEF CoversNothing
<1> HIDE DEF G
<1>7. Whole(base, G)
  <2> SUFFICES ASSUME NEW r \in Paths, MovedNode(r, p, q) # Absent, NEW d \in Ancestors(r)
               PROVE  MovedNode(d, p, q) = Dir
    BY <1>6, AncestorsOf DEF Whole
  <2>1. d \in Paths /\ IsPrefix(d, r) /\ d # r
    BY AncestorsOf
  <2>2. CASE r \in Under(q) /\ d \in Under(q)
    <3> DEFINE s == Rebase(r, q, p)
               c == Rebase(d, q, p)
    <3>1. s \in Paths /\ Merged[s] # Absent
      BY <2>2 DEF MovedNode
    <3>2. c \in Ancestors(s)
      BY <2>2, <3>1, RebaseAncestor DEF Under
    <3>3. c \in Paths /\ Merged[c] = Dir
      BY <3>1, <3>2, AncestorsOf, ThereIs
    <3> QED
      BY <2>2, <3>3 DEF MovedNode
  <2>3. CASE r \in Under(q) /\ d \notin Under(q)
    <3>1. IsPrefix(d, q) /\ d # q
      BY <2>1, <2>3, PrefixOrder DEF Under
    <3>2. d \notin Under(p)
      BY <1>1, <2>1, <3>1, PrefixOrder DEF Under
    <3>3. Merged[d] = Dir
      BY <1>2, <2>1, <3>1, AncestorsOf
    <3> QED
      BY <2>3, <3>2, <3>3 DEF MovedNode
  <2>4. CASE r \notin Under(q)
    <3>1. r \notin Under(p) /\ Merged[r] # Absent
      BY <2>4 DEF MovedNode
    <3>2. d \notin Under(q) /\ d \notin Under(p)
      BY <2>1, <2>4, <3>1, PrefixOrder DEF Under
    <3>3. Merged[d] = Dir
      BY <3>1, ThereIs
    <3> QED
      BY <3>2, <3>3 DEF MovedNode
  <2> QED
    BY <2>2, <2>3, <2>4
<1>8. /\ OverlayInv' /\ View!Accounted
      /\ Merged' = [r \in Paths |-> Shows(base, G, r)]
      /\ base' = base /\ done' = <<"move", p, q>>
  BY <1>1, <1>5, <1>6, <1>7, Operated
<1>9. Merged' = [r \in Paths |-> MovedNode(r, p, q)]
  BY <1>6, <1>8
<1>10. View!Move(p, q)
  BY <1>1, <1>8, <1>9, SameUnder, SameRebase DEF View!Move, MovedNode
<1> QED
  BY <1>8, <1>10 DEF View!Next

-----------------------------------------------------------------------------
(* Every step *)

LEMMA NextStep ==
    ASSUME ~RecreatedMoves, ~RenamedMovesOn, ~Conflicts, OverlayInv, Next
    PROVE  OverlayInv' /\ View!Next
<1>1. ASSUME NEW p \in Paths, NEW c \in Contents,
             Write(p, c) \/ Symlink(p, c) \/ \E m \in FileModes : Create(p, c, m)
      PROVE  OverlayInv' /\ View!Next
  BY <1>1, WriteStep, SymlinkStep, CreateStep
<1>2. ASSUME NEW p \in Paths, NEW m \in FileModes, SetMode(p, m)
      PROVE  OverlayInv' /\ View!Next
  BY <1>2, SetModeStep
<1>3. ASSUME NEW p \in Paths, Mkdir(p) \/ SetMtime(p) \/ Unlink(p) \/ Rmdir(p)
      PROVE  OverlayInv' /\ View!Next
  BY <1>3, MkdirStep, SetMtimeStep, UnlinkStep, RmdirStep
<1>4. ASSUME NEW p \in Paths, NEW q \in Paths, RenameFile(p, q) \/ RenameDir(p, q)
      PROVE  OverlayInv' /\ View!Next
  BY <1>4, RenameFileStep, RenameDirStep
<1>5. ASSUME NEW t \in Trees, HeadChange(t) PROVE OverlayInv' /\ View!Next
  <2>1. t \in [Paths -> Node \cup {Absent}] /\ IsTree(t)
    BY ConstantsAssumption DEF ConstantsAssumption
  <2> QED
    BY <1>5, <2>1, HeadStep
<1>6. ASSUME NEW K \in SUBSET Held(entries), Commit(K) PROVE OverlayInv' /\ View!Next
  BY <1>6, CommitStep
<1> QED
  BY <1>1, <1>2, <1>3, <1>4, <1>5, <1>6 DEF Next

LEMMA StutterStep == ASSUME OverlayInv, UNCHANGED vars PROVE OverlayInv' /\ UNCHANGED View!vars
<1>1. base' = base /\ entries' = entries /\ done' = done /\ ops' = ops /\ heads' = heads
  BY DEF vars
<1>2. OverlayInv'
  BY <1>1 DEF OverlayInv, TypedInv
<1>3. Merged' = Merged /\ Held(entries)' = Held(entries)
  BY <1>1, MergedIs DEF Held
<1> QED
  BY <1>1, <1>2, <1>3 DEF View!vars

-----------------------------------------------------------------------------
(* Types, which need none of this *)

(* A node that is reached and has no entry can be promoted. *)
LEMMA PromotedTyped ==
    ASSUME TypedInv, NEW p \in Paths, Merged[p] # Absent, entries[p] = NoEntry, base[p] # Dir
    PROVE  /\ Promoted(p) \in Sound /\ Shown(Promoted(p)) = Merged[p]
           /\ Promoted(p).kind \notin {"delete", "mkdir"}
<1>1. Merged[p] = base[p] /\ base[p] \in Files \cup Links
  BY ReachedIs DEF Shows, Node
<1> QED
  BY <1>1, PromotedIs

LEMMA UserTyped ==
    ASSUME TypedInv, NEW what, NEW G, UserOp(what, G), G \in [Paths -> Sound \cup {NoEntry}]
    PROVE  TypedInv'
<1>1. /\ entries' = G /\ base' = base /\ heads' = heads /\ ops < MaxOps /\ ops' = ops + 1
  BY DEF UserOp
<1>2. ops' \in 0 .. MaxOps /\ heads' \in 0 .. MaxHeads
  BY <1>1, ConstantsAssumption DEF ConstantsAssumption, TypedInv
<1>3. Typed(base, G)
  BY DEF TypedInv, Typed
<1> QED
  BY <1>1, <1>2, <1>3 DEF TypedInv

(* Operations on one path. *)
LEMMA OnePathTyped ==
    ASSUME TypedInv, NEW p \in Paths, NEW e \in Sound, NEW what, UserOp(what, [entries EXCEPT ![p] = e])
    PROVE  TypedInv'
<1>1. [entries EXCEPT ![p] = e] \in [Paths -> Sound \cup {NoEntry}]
  BY DEF TypedInv, Typed
<1> QED
  BY <1>1, UserTyped

LEMMA MakeTyped ==
    ASSUME TypedInv, NEW p \in Paths,
           \/ \E c \in Contents : Symlink(p, c) \/ \E m \in FileModes : Create(p, c, m)
           \/ Mkdir(p) \/ Unlink(p) \/ Rmdir(p)
    PROVE  TypedInv'
<1>1. ASSUME NEW c \in Contents, Symlink(p, c) PROVE TypedInv'
  <2>1. PICK what : UserOp(what, [entries EXCEPT ![p] = Linked(c)])
    BY <1>1 DEF Symlink, Linked
  <2> QED
    BY <2>1, LinkedIs, OnePathTyped
<1>2. ASSUME NEW c \in Contents, NEW m \in FileModes, Create(p, c, m) PROVE TypedInv'
  BY <1>2, CreatedIs, OnePathTyped DEF Create
<1>3. ASSUME Mkdir(p) PROVE TypedInv'
  BY <1>3, MkdirIs, OnePathTyped DEF Mkdir
<1>4. ASSUME Unlink(p) \/ Rmdir(p) PROVE TypedInv'
  BY <1>4, WhiteoutIs, OnePathTyped DEF Unlink, Rmdir
<1> QED
  BY <1>1, <1>2, <1>3, <1>4

LEMMA ChangeTyped ==
    ASSUME TypedInv, NEW p \in Paths,
           \/ \E c \in Contents : Write(p, c)
           \/ \E m \in FileModes : SetMode(p, m)
           \/ SetMtime(p)
    PROVE  TypedInv'
<1>1. entries \in [Paths -> Sound \cup {NoEntry}]
  BY DEF TypedInv, Typed
<1>2. ASSUME NEW d \in Sound, d.kind \notin {"delete", "mkdir"}, Shown(d).type = "file"
      PROVE  d.kind \in {"create", "modify", "rename"}
  BY <1>2, ShownNode
<1>3. ASSUME NEW c \in Contents, Write(p, c) PROVE TypedInv'
  <2> DEFINE d == EnsureOverlay(p)[p]
  <2>1. /\ Merged[p].type = "file" /\ Merged[p] \notin {Absent, Dir}
        /\ UserOp(<<"put", p, FileAs(c, Merged[p].mode)>>, [EnsureOverlay(p) EXCEPT ![p] = Written(@, c)])
    BY <1>3, Nodes DEF Write, Exists
  <2>2. /\ EnsureOverlay(p) = [entries EXCEPT ![p] = d]
        /\ d \in Sound /\ Shown(d) = Merged[p] /\ d.kind \notin {"delete", "mkdir"}
    BY <2>1, EnsuredIs
  <2> HIDE DEF d
  <2>3. Written(d, c) \in Sound
    BY <1>2, <2>1, <2>2, WrittenIs
  <2>4. [EnsureOverlay(p) EXCEPT ![p] = Written(@, c)] = [entries EXCEPT ![p] = Written(d, c)]
    BY <1>1, <2>2
  <2> QED
    BY <2>1, <2>3, <2>4, OnePathTyped
<1>4. ASSUME NEW m \in FileModes, SetMode(p, m) PROVE TypedInv'
  <2> DEFINE d == EnsureOverlay(p)[p]
  <2>1. /\ Merged[p].type = "file" /\ Merged[p] \notin {Absent, Dir}
        /\ UserOp(<<"put", p, FileAs(Merged[p].oid, m)>>, [EnsureOverlay(p) EXCEPT ![p].mode = m])
    BY <1>4, Nodes DEF SetMode, Exists
  <2>2. /\ EnsureOverlay(p) = [entries EXCEPT ![p] = d]
        /\ d \in Sound /\ Shown(d) = Merged[p] /\ d.kind \notin {"delete", "mkdir"}
    BY <2>1, EnsuredIs
  <2> HIDE DEF d
  <2>3. [d EXCEPT !.mode = m] \in Sound
    BY <1>2, <2>1, <2>2, ModeIs
  <2>4. [EnsureOverlay(p) EXCEPT ![p].mode = m] = [entries EXCEPT ![p] = [d EXCEPT !.mode = m]]
    BY <1>1, <2>2
  <2> QED
    BY <2>1, <2>3, <2>4, OnePathTyped
<1>5. ASSUME SetMtime(p) PROVE TypedInv'
  <2>1. /\ Merged[p] # Absent /\ entries[p] = NoEntry
        /\ UserOp(<<"nothing">>, IF base[p] = Dir THEN [entries EXCEPT ![p] = MkdirEntry]
                                ELSE EnsureOverlay(p))
    BY <1>5 DEF SetMtime, Exists
  <2>2. CASE base[p] = Dir
    BY <2>1, <2>2, MkdirIs, OnePathTyped
  <2>3. CASE base[p] # Dir
    <3>1. Promoted(p) \in Sound
      BY <2>1, <2>3, PromotedTyped
    <3>2. EnsureOverlay(p) = [entries EXCEPT ![p] = Promoted(p)]
      BY <1>1, <2>1 DEF EnsureOverlay
    <3> QED
      BY <2>1, <2>3, <3>1, <3>2, OnePathTyped
  <2> QED
    BY <2>2, <2>3
<1> QED
  BY <1>3, <1>4, <1>5

(* Renames. *)
LEMMA RenameFileTyped ==
    ASSUME TypedInv, NEW p \in Paths, NEW q \in Paths, RenameFile(p, q)
    PROVE  TypedInv'
<1> DEFINE E == BothPromoted(p, q)
           e == E[p]
<1>1. Merged[p] \notin {Absent, Dir} /\ Merged[q] # Dir /\ base[q] \in Node \cup {Absent}
  BY Nodes DEF RenameFile, Exists, Room, TypedInv, Typed
<1>2. PICK what : UserOp(what, IF base[q] = Dir THEN E
                              ELSE IF base[q] # Absent /\ E[p].kind \in {"create", "symlink"}
                                   THEN MarkedModified(E, p, q) ELSE RenamedInOverlay(E, p, q))
  BY DEF RenameFile, BothPromoted
<1>3. E \in [Paths -> Sound \cup {NoEntry}]
  <2> SUFFICES ASSUME NEW r \in Paths
               PROVE  (IF r = p \/ (r = q /\ Exists(q)) THEN EnsureOverlay(r)[r] ELSE entries[r])
                         \in Sound \cup {NoEntry}
    BY DEF BothPromoted
  <2>1. CASE r = p \/ (r = q /\ Exists(q))
    BY <1>1, <2>1, EnsuredIs DEF Exists
  <2>2. CASE ~(r = p \/ (r = q /\ Exists(q)))
    BY <2>2 DEF TypedInv, Typed
  <2> QED
    BY <2>1, <2>2
<1>4. e \in Sound /\ e.kind \notin {"delete", "mkdir"}
  BY <1>1, EnsuredIs DEF BothPromoted
<1> HIDE DEF E
<1>5. CASE base[q] = Dir
  BY <1>2, <1>3, <1>5, UserTyped
<1>6. ASSUME NEW x \in Sound \cup {NoEntry}, NEW y \in Sound, UserOp(what, [E EXCEPT ![p] = x, ![q] = y])
      PROVE  TypedInv'
  <2>1. [E EXCEPT ![p] = x, ![q] = y] \in [Paths -> Sound \cup {NoEntry}]
    BY <1>3
  <2> QED
    BY <1>6, <2>1, UserTyped
<1>7. CASE base[q] \notin {Absent, Dir} /\ e.kind \in {"create", "symlink"}
  <2> DEFINE x == IF e.kind = "symlink" /\ e.soid # None THEN Whiteout(<<>>) ELSE NoEntry
             y == [e EXCEPT !.kind = IF @ = "symlink" THEN @ ELSE "modify",
                            !.soid = base[q].oid, !.smode = base[q].mode]
  <2>1. UserOp(what, [E EXCEPT ![p] = x, ![q] = y])
    BY <1>2, <1>7 DEF MarkedModified
  <2>2. y \in Sound
    BY <1>1, <1>4, <1>7, MarkedIs
  <2>3. x \in Sound \cup {NoEntry}
    BY WhiteoutIs
  <2> HIDE DEF x, y
  <2> QED
    BY <1>6, <2>1, <2>2, <2>3
<1>8. CASE base[q] # Dir /\ ~(base[q] # Absent /\ e.kind \in {"create", "symlink"})
  <2>1. UserOp(what, [E EXCEPT ![p] = LeftBehind(e, p), ![q] = RenamedEntry(e, p)])
    BY <1>2, <1>8 DEF RenamedInOverlay
  <2>2. LeftBehind(e, p) \in Sound \cup {NoEntry} /\ RenamedEntry(e, p) \in Sound
    BY <1>4, LeftIs, RenamedIs
  <2> QED
    BY <1>6, <2>1, <2>2
<1> QED
  BY <1>5, <1>7, <1>8

LEMMA RenameDirTyped ==
    ASSUME TypedInv, NEW p \in Paths, NEW q \in Paths, RenameDir(p, q)
    PROVE  TypedInv'
<1> DEFINE E == PromotedTree(p)
           G == MovedTree(E, p, q)
<1>1. ASSUME NEW r \in Paths PROVE E[r] \in Sound \cup {NoEntry}
  <2>1. CASE r \in Under(p) /\ Exists(r) /\ entries[r] = NoEntry
    <3>1. E[r] = IF base[r] = Dir THEN MkdirEntry ELSE Promoted(r)
      BY <2>1 DEF PromotedTree
    <3>2. base[r] # Dir => Promoted(r) \in Sound
      BY <2>1, PromotedTyped DEF Exists
    <3> QED
      BY <3>1, <3>2, MkdirIs
  <2>2. CASE ~(r \in Under(p) /\ Exists(r) /\ entries[r] = NoEntry)
    BY <2>2 DEF PromotedTree, TypedInv, Typed
  <2> QED
    BY <2>1, <2>2
<1> HIDE DEF E
<1>2. ASSUME NEW r \in Paths PROVE G[r] \in Sound \cup {NoEntry}
  <2> DEFINE s == Rebase(r, q, p)
  <2>1. s \in Paths /\ E[s] # NoEntry /\ E[s].kind # "delete" => MovedEntry(E[s], s) \in Sound
    BY <1>1, MovedIs
  <2>2. Whiteout(r) \in Sound
    BY WhiteoutIs
  <2> QED
    BY <1>1, <2>1, <2>2 DEF MovedTree
<1>3. G \in [Paths -> Sound \cup {NoEntry}]
  BY <1>2 DEF MovedTree
<1>4. UserOp(<<"move", p, q>>, G)
  BY DEF RenameDir, E
<1> HIDE DEF G
<1> QED
  BY <1>3, <1>4, UserTyped

(* Changes of HEAD. *)
LEMMA HeadTyped ==
    ASSUME TypedInv, NEW t \in [Paths -> Node \cup {Absent}], IsTree(t), HeadChange(t)
    PROVE  TypedInv'
<1> DEFINE F == [p \in Paths |-> Reconciled(p, t)]
<1>1. /\ base' = t /\ entries' = F /\ ops' = ops /\ heads < MaxHeads /\ heads' = heads + 1
  BY DEF HeadChange
<1>2. ASSUME NEW p \in Paths PROVE Reconciled(p, t) \in Sound \cup {NoEntry}
  <2>1. entries[p] \in Sound \cup {NoEntry}
    BY DEF TypedInv, Typed
  <2>2. CASE entries[p] = NoEntry
    BY <2>2, NoEntryIs DEF Reconciled
  <2>3. CASE entries[p].kind = "delete"
    BY <2>1, <2>3 DEF Reconciled, ReconciledWhiteout
  <2>4. CASE entries[p] # NoEntry /\ entries[p].kind # "delete"
    BY <2>1, <2>4, ReconciledFile DEF Kept, Taken
  <2> QED
    BY <2>2, <2>3, <2>4
<1>3. Typed(t, F)
  BY <1>2 DEF Typed
<1>4. heads' \in 0 .. MaxHeads /\ ops' \in 0 .. MaxOps
  BY <1>1, ConstantsAssumption DEF TypedInv, ConstantsAssumption
<1> QED
  BY <1>1, <1>3, <1>4 DEF TypedInv

LEMMA NextTyped == ASSUME TypedInv, Next PROVE TypedInv'
<1>1. ASSUME NEW p \in Paths, NEW c \in Contents,
             Write(p, c) \/ Symlink(p, c) \/ \E m \in FileModes : Create(p, c, m)
      PROVE  TypedInv'
  BY <1>1, ChangeTyped, MakeTyped
<1>2. ASSUME NEW p \in Paths, NEW m \in FileModes, SetMode(p, m) PROVE TypedInv'
  BY <1>2, ChangeTyped
<1>3. ASSUME NEW p \in Paths, Mkdir(p) \/ SetMtime(p) \/ Unlink(p) \/ Rmdir(p) PROVE TypedInv'
  BY <1>3, ChangeTyped, MakeTyped
<1>4. ASSUME NEW p \in Paths, NEW q \in Paths, RenameFile(p, q) \/ RenameDir(p, q) PROVE TypedInv'
  BY <1>4, RenameFileTyped, RenameDirTyped
<1>5. ASSUME NEW t \in Trees, HeadChange(t) PROVE TypedInv'
  <2>1. t \in [Paths -> Node \cup {Absent}] /\ IsTree(t)
    BY ConstantsAssumption DEF ConstantsAssumption
  <2> QED
    BY <1>5, <2>1, HeadTyped
<1>6. ASSUME NEW K \in SUBSET Held(entries), Commit(K) PROVE TypedInv'
  <2> DEFINE t == Staged(K)
  <2>1. t \in [Paths -> Node \cup {Absent}]
    BY StagedIs
  <2>2. IsTree(t) /\ HeadChange(t)
    BY <1>6 DEF Commit
  <2> HIDE DEF t
  <2> QED
    BY <2>1, <2>2, HeadTyped
<1> QED
  BY <1>1, <1>2, <1>3, <1>4, <1>5, <1>6 DEF Next

-----------------------------------------------------------------------------
(* What a change of HEAD and a rename may never do *)

(* HEAD moves: what the user removed stays removed, and what the user made or *)
(* changed stays in sight.                                                   *)
LEMMA HeadKeeps ==
    ASSUME ~Conflicts, OverlayInv, NEW t \in [Paths -> Node \cup {Absent}], IsTree(t), HeadChange(t),
           NEW p \in Paths
    PROVE  Merged[p] # base[p] => Merged'[p] = Merged[p]
<1> DEFINE F == [r \in Paths |-> Reconciled(r, t)]
<1>1. base' = t /\ entries' = F /\ Agrees(t)
  BY DEF HeadChange
<1>2. \A r \in Paths : F[r] = Reconciled(r, t)
  OBVIOUS
<1> HIDE DEF F
<1>3. Whole(t, F)
  BY <1>1, <1>2, WholeAfterHead
<1>4. Merged'[p] = Shows(t, F, p)
  BY <1>1, <1>3, MergedIs, WholeView
<1>5. Merged[p] # base[p] => entries[p] # NoEntry
  BY MergedShows DEF Shows
<1>6. Shows(t, F, p) = IF (entries[p] # NoEntry /\ Merged[p] # base[p]) \/ F[p] # NoEntry
                       THEN Merged[p] ELSE t[p]
  BY <1>2, LaidIs
<1> QED
  BY <1>4, <1>5, <1>6

HeadMoved == \/ \E t \in Trees : HeadChange(t)
             \/ \E K \in SUBSET Held(entries) : Commit(K)

LEMMA HeadsChange == ASSUME OverlayInv, [Next]_vars, heads' # heads PROVE HeadMoved
<1>1. heads \in Nat
  BY ConstantsAssumption DEF OverlayInv, TypedInv, ConstantsAssumption
<1>2. ASSUME NEW p \in Paths, NEW c \in Contents,
             Write(p, c) \/ Symlink(p, c) \/ \E m \in FileModes : Create(p, c, m)
      PROVE  heads' = heads
  BY <1>2 DEF Write, Symlink, Create, UserOp
<1>3. ASSUME NEW p \in Paths, NEW m \in FileModes, SetMode(p, m) PROVE heads' = heads
  BY <1>3 DEF SetMode, UserOp
<1>4. ASSUME NEW p \in Paths, Mkdir(p) \/ SetMtime(p) \/ Unlink(p) \/ Rmdir(p) PROVE heads' = heads
  BY <1>4 DEF Mkdir, SetMtime, Unlink, Rmdir, UserOp
<1>5. ASSUME NEW p \in Paths, NEW q \in Paths, RenameFile(p, q) \/ RenameDir(p, q) PROVE heads' = heads
  BY <1>5 DEF RenameFile, RenameDir, UserOp
<1> QED
  BY <1>2, <1>3, <1>4, <1>5 DEF Next, HeadMoved, vars

LEMMA MovedHeadKeeps ==
    ASSUME ~Conflicts, OverlayInv, HeadMoved, NEW p \in Paths, Merged[p] # base[p]
    PROVE  Merged'[p] = Merged[p]
<1>1. ASSUME NEW t \in Trees, HeadChange(t) PROVE Merged'[p] = Merged[p]
  <2>1. t \in [Paths -> Node \cup {Absent}] /\ IsTree(t)
    BY ConstantsAssumption DEF ConstantsAssumption
  <2> QED
    BY <1>1, <2>1, HeadKeeps
<1>2. ASSUME NEW K \in SUBSET Held(entries), Commit(K) PROVE Merged'[p] = Merged[p]
  <2> DEFINE t == Staged(K)
  <2>1. t \in [Paths -> Node \cup {Absent}]
    BY StagedIs DEF OverlayInv, TypedInv
  <2>2. IsTree(t) /\ HeadChange(t)
    BY <1>2 DEF Commit
  <2> HIDE DEF t
  <2> QED
    BY <2>1, <2>2, HeadKeeps
<1> QED
  BY <1>1, <1>2 DEF HeadMoved

(* A path is never moved to one above it. *)
LEMMA MovedApart ==
    ASSUME OverlayInv, NEW p \in Paths, NEW q \in Paths, RenameFile(p, q) \/ RenameDir(p, q)
    PROVE  p \notin Under(q) /\ p \in Under(p)
<1>1. p # q /\ Merged[p] # Absent
  BY DEF RenameFile, RenameDir, Exists
<1>2. p \in Under(q) => Merged[q] = Dir
  BY <1>1, ThereIs, AncestorsOf DEF Under
<1>3. Merged[q] = Dir => \A r \in Under(q) : r # q => Merged[r] = Absent
  BY EmptyDir, Nodes DEF RenameFile, RenameDir, Room
<1> QED
  BY <1>1, <1>2, <1>3, PrefixOrder DEF Under

LEMMA WhoMoves ==
    ASSUME NEW p \in Paths, NEW q \in Paths, Next, done' = <<"move", p, q>>
    PROVE  RenameFile(p, q) \/ RenameDir(p, q)
<1>1. ASSUME NEW a \in Paths, NEW c \in Contents,
             Write(a, c) \/ Symlink(a, c) \/ \E m \in FileModes : Create(a, c, m)
      PROVE  FALSE
  BY <1>1 DEF Write, Symlink, Create, UserOp
<1>2. ASSUME NEW a \in Paths, NEW m \in FileModes, SetMode(a, m) PROVE FALSE
  BY <1>2 DEF SetMode, UserOp
<1>3. ASSUME NEW a \in Paths, Mkdir(a) \/ SetMtime(a) \/ Unlink(a) \/ Rmdir(a) PROVE FALSE
  BY <1>3 DEF Mkdir, SetMtime, Unlink, Rmdir, UserOp
<1>4. ASSUME NEW a \in Paths, NEW b \in Paths, RenameFile(a, b) \/ RenameDir(a, b) PROVE a = p /\ b = q
  BY <1>4 DEF RenameFile, RenameDir, UserOp
<1>5. ASSUME NEW t, HeadChange(t) PROVE FALSE
  BY <1>5 DEF HeadChange
<1>6. ASSUME NEW K, Commit(K) PROVE FALSE
  BY <1>5, <1>6 DEF Commit
<1> QED
  BY <1>1, <1>2, <1>3, <1>4, <1>5, <1>6 DEF Next

LEMMA OldNameFree ==
    ASSUME ~RecreatedMoves, ~RenamedMovesOn, ~Conflicts, OverlayInv, Next,
           NEW p \in Paths, NEW q \in Paths, done' = <<"move", p, q>>, p # q
    PROVE  Merged'[p] = Absent
<1>1. p \notin Under(q) /\ p \in Under(p)
  BY WhoMoves, MovedApart
<1>2. View!Next
  BY NextStep
<1>3. View!Move(p, q)
  BY <1>2 DEF View!Next, View!Put, View!Erase, View!Move, View!Checkout, View!Nothing
<1> QED
  BY <1>1, <1>3, SameUnder DEF View!Move

-----------------------------------------------------------------------------
(* Theorems *)

(* The database row of a path is always well formed: files and links have     *)
(* their content, renames their source, modes are of their kind (the          *)
(* operations of overlay.Store, ReconcileChecked), in every window too.       *)
THEOREM TypeCorrect == Spec => []TypeOK
<1>1. Init => TypedInv
  BY InitInv DEF OverlayInv, TypedInv
<1>2. TypedInv /\ [Next]_vars => TypedInv'
  BY NextTyped DEF TypedInv, vars
<1>3. TypedInv => TypeOK
  BY NoEntryIs DEF TypedInv, Typed, TypeOK, Sound
<1> QED
  BY <1>1, <1>2, <1>3, PTL DEF Spec

(* The entries keep a tree: whatever the user does and wherever HEAD goes,    *)
(* what an entry or the commit shows has the directories above it, so that    *)
(* the walk of the kernel reaches it (Resolver, Engine, ReconcileChecked).    *)
EntriesKeepTree == \A p \in Paths : Resolved(entries, p) # Absent =>
                     \A d \in Ancestors(p) : Resolved(entries, d) = Dir

(* With HEAD at odds with the overlay about directories it need not be one. *)
THEOREM EntriesKeepTreeHolds ==
    ~RecreatedMoves /\ ~RenamedMovesOn /\ ~Conflicts => (Spec => []EntriesKeepTree)
<1> SUFFICES ASSUME ~RecreatedMoves, ~RenamedMovesOn, ~Conflicts PROVE Spec => []EntriesKeepTree
  OBVIOUS
<1>1. Init => OverlayInv
  BY InitInv
<1>2. OverlayInv /\ [Next]_vars => OverlayInv'
  BY NextStep, StutterStep
<1>3. OverlayInv => EntriesKeepTree
  BY DEF OverlayInv, TypedInv, Whole, Shows, Shown, EntriesKeepTree, Resolved
<1> QED
  BY <1>1, <1>2, <1>3, PTL DEF Spec

(* The mount does what it promises: every operation of the Engine changes the  *)
(* merged view of the Resolver where it says and nowhere else, a tree moves   *)
(* as a whole, and ReconcileChecked keeps the work of the user and takes over *)
(* the new commit everywhere else.                                           *)
THEOREM ImplementsNamespaceHolds ==
    ~RecreatedMoves /\ ~RenamedMovesOn /\ ~Conflicts => (Spec => ImplementsNamespace)
<1> SUFFICES ASSUME ~RecreatedMoves, ~RenamedMovesOn, ~Conflicts PROVE Spec => ImplementsNamespace
  OBVIOUS
<1>1. Init => OverlayInv /\ View!Init
  BY InitInv
<1>2. OverlayInv /\ [Next]_vars => OverlayInv' /\ [View!Next]_(View!vars)
  BY NextStep, StutterStep
<1> QED
  BY <1>1, <1>2, PTL DEF Spec, ImplementsNamespace, View!Spec

(* What is renamed is no longer found under its old name (Rename,             *)
(* RenameAndMarkModifiedFromBase, renameTreeLocked), except for a path made   *)
(* anew where the commit has one.                                            *)
THEOREM OldNameIsFreeHolds ==
    ~RecreatedMoves /\ ~RenamedMovesOn /\ ~Conflicts => (Spec => OldNameIsFree)
<1> SUFFICES ASSUME ~RecreatedMoves, ~RenamedMovesOn, ~Conflicts PROVE Spec => OldNameIsFree
  OBVIOUS
<1>1. Init => OverlayInv
  BY InitInv
<1>2. OverlayInv /\ [Next]_vars => OverlayInv'
  BY NextStep, StutterStep
<1>3. OverlayInv /\ [Next]_vars =>
        [\A p, q \in Paths : done' = <<"move", p, q>> /\ p # q => Merged'[p] = Absent]_vars
  BY OldNameFree
<1> QED
  BY <1>1, <1>2, <1>3, PTL DEF Spec, OldNameIsFree

(* What the user removed stays removed when HEAD moves (ReconcileChecked). *)
THEOREM RemovedStaysRemovedHolds ==
    ~RecreatedMoves /\ ~RenamedMovesOn /\ ~Conflicts => (Spec => RemovedStaysRemoved)
<1> SUFFICES ASSUME ~RecreatedMoves, ~RenamedMovesOn, ~Conflicts PROVE Spec => RemovedStaysRemoved
  OBVIOUS
<1>1. Init => OverlayInv
  BY InitInv
<1>2. OverlayInv /\ [Next]_vars => OverlayInv'
  BY NextStep, StutterStep
<1>3. OverlayInv /\ [Next]_vars =>
        [\A p \in Paths : heads' # heads /\ base[p] # Absent /\ Merged[p] = Absent => Merged'[p] = Absent]_vars
  BY HeadsChange, MovedHeadKeeps
<1> QED
  BY <1>1, <1>2, <1>3, PTL DEF Spec, RemovedStaysRemoved

(* What the user made or changed stays in sight when HEAD moves               *)
(* (ReconcileChecked, resolvePath).                                          *)
THEOREM WorkStaysVisibleHolds ==
    ~RecreatedMoves /\ ~RenamedMovesOn /\ ~Conflicts => (Spec => WorkStaysVisible)
<1> SUFFICES ASSUME ~RecreatedMoves, ~RenamedMovesOn, ~Conflicts PROVE Spec => WorkStaysVisible
  OBVIOUS
<1>1. Init => OverlayInv
  BY InitInv
<1>2. OverlayInv /\ [Next]_vars => OverlayInv'
  BY NextStep, StutterStep
<1>3. OverlayInv /\ [Next]_vars =>
        [\A p \in Paths : heads' # heads /\ Merged[p] \notin {base[p], Absent} => Merged'[p] # Absent]_vars
  BY HeadsChange, MovedHeadKeeps
<1> QED
  BY <1>1, <1>2, <1>3, PTL DEF Spec, WorkStaysVisible

=============================================================================
