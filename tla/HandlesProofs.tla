--------------------------- MODULE HandlesProofs ----------------------------
(* The open files and the inodes, for any number of paths, open files,        *)
(* threads, writes, unlinks, renames and generations.                        *)
EXTENDS Handles, FiniteSetTheorems, FunctionTheorems, TLAPS

Named == {"ensure", "pin", "ensure2", "pin2", "remove", "rename"}

-----------------------------------------------------------------------------
(* Types *)

BaseTyped ==
    /\ gen \in 1 .. MaxHeads /\ tree \in [Paths -> Nat] /\ files \in Seq(Files) /\ clock \in Clocks
    /\ overlay \in [Paths -> {Deleted, None} \cup 1 .. Len(files)]
    /\ ids \in [Paths -> 1 .. clock.file] /\ \A p, q \in Paths : p # q => ids[p] # ids[q]

InodesTyped ==
    /\ at \in [Paths -> 0 .. MaxInodes] /\ inodes \in [1 .. MaxInodes -> Inodes]
    /\ \A p \in Paths : at[p] # 0 => inodes[at[p]].cnt > 0
    /\ \A i \in 1 .. MaxInodes : inodes[i].cnt > 0 => inodes[i].path \in Paths

(* A descriptor is of a generation so far or of a backing file that exists. *)
Good(c, g, n) == c.gen <= g /\ (c.gen = -1 => c.is \in 1 .. n)

OpensTyped ==
    /\ open \in [Handles -> Opens]
    /\ \A h \in Handles : /\ open[h] # Closed => open[h].path \in Paths
                          /\ Good(open[h].cache, gen, Len(files))

GoodStep(s, g, n) ==
    /\ s.pc # "idle" => s.path \in Paths /\ s.to # s.path
    /\ s.pc \in {"fetch", "keep"} => s.handle \in Handles
    /\ s.pc \in {"ensure2", "pin2", "rename"} => s.to \in Paths
    /\ Good(s.cache, g, n)

StepsTyped == th \in [Threads -> Steps] /\ \A t \in Threads : GoodStep(th[t], gen, Len(files))

Typed == BaseTyped /\ InodesTyped /\ OpensTyped /\ StepsTyped

LEMMA TypedIsTypeOK == Typed => TypeOK
  BY DEF Typed, BaseTyped, InodesTyped, OpensTyped, StepsTyped, Good, TypeOK

(* The constants that the states start from. *)
LEMMA Constants ==
    /\ NoCache \in Caches /\ Closed \in Opens /\ Free \in Inodes /\ Idle \in Steps
    /\ NoCache.gen = 0 /\ Closed.cache = NoCache /\ Closed.path = None /\ Free.cnt = 0 /\ Idle.cache = NoCache
    /\ Idle.pc = "idle" /\ Closed.detached = FALSE /\ Closed.reads = {} /\ Idle.handle = None /\ Idle.to = None
    /\ None \notin Paths /\ None \notin Handles /\ MaxInodes \in Nat /\ MaxWrites \in Nat /\ MaxNames \in Nat
    /\ MaxHeads \in Nat \ {0} /\ Closed.inode = 0 /\ Idle.path = None
  BY ConstantsAssumption DEF ConstantsAssumption, NoCache, Closed, Free, Idle, Caches, Opens, Inodes, Steps, PCs, None

(* The parts of an open file and of a thread. *)
LEMMA Parts ==
    ASSUME Typed
    PROVE  /\ \A h \in Handles : /\ open[h].cache \in Caches /\ open[h].path \in Paths \cup {None}
                                 /\ open[h].inode \in 0 .. MaxInodes /\ open[h].reads \in SUBSET Threads
                                 /\ open[h].detached \in BOOLEAN /\ open[h].of \in Nat
                                 /\ open[h].cache.gen \in -1 .. MaxHeads /\ open[h].cache.is \in Nat
           /\ \A t \in Threads : /\ th[t].pc \in PCs /\ th[t].path \in Paths \cup {None}
                                 /\ th[t].to \in Paths \cup {None} /\ th[t].handle \in Handles \cup {None}
                                 /\ th[t].inode \in 0 .. MaxInodes /\ th[t].cache \in Caches /\ th[t].make \in BOOLEAN
                                 /\ th[t].cache.gen \in -1 .. MaxHeads /\ th[t].cache.is \in Nat
           /\ \A i \in 1 .. MaxInodes : /\ inodes[i].path \in Paths \cup {None} /\ inodes[i].cnt \in Nat
                                        /\ inodes[i].stale \in BOOLEAN /\ inodes[i].of \in Nat
           /\ \A k \in 1 .. Len(files) : /\ files[k] \in Files /\ files[k].of \in Nat /\ files[k].content \in Nat
                                         /\ files[k].create \in BOOLEAN /\ files[k].written \in BOOLEAN
           /\ Len(files) \in Nat
           /\ clock.content \in Nat /\ clock.file \in Nat /\ clock.writes \in 0 .. MaxWrites
           /\ clock.names \in 0 .. MaxNames
<1>1. /\ gen \in 1 .. MaxHeads /\ open \in [Handles -> Opens] /\ th \in [Threads -> Steps]
      /\ inodes \in [1 .. MaxInodes -> Inodes] /\ files \in Seq(Files) /\ clock \in Clocks
  BY DEF Typed, BaseTyped, InodesTyped, OpensTyped, StepsTyped
<1>2. \A h \in Handles : open[h] \in Opens
  BY <1>1
<1>3. \A c \in Caches : c.gen \in -1 .. MaxHeads /\ c.is \in Nat
  BY DEF Caches
<1>4. \A o \in Opens : /\ o.cache \in Caches /\ o.path \in Paths \cup {None}
                       /\ o.inode \in 0 .. MaxInodes /\ o.reads \in SUBSET Threads
                       /\ o.detached \in BOOLEAN /\ o.of \in Nat
  BY DEF Opens
<1>5. \A s \in Steps : /\ s.pc \in PCs /\ s.path \in Paths \cup {None}
                       /\ s.to \in Paths \cup {None} /\ s.handle \in Handles \cup {None}
                       /\ s.inode \in 0 .. MaxInodes /\ s.cache \in Caches /\ s.make \in BOOLEAN
  BY DEF Steps
<1>6. \A s \in Inodes : s.path \in Paths \cup {None} /\ s.cnt \in Nat /\ s.stale \in BOOLEAN /\ s.of \in Nat
  BY DEF Inodes
<1>7. \A f \in Files : f.of \in Nat /\ f.content \in Nat /\ f.create \in BOOLEAN /\ f.written \in BOOLEAN
  BY DEF Files
<1>8. Len(files) \in Nat /\ \A k \in 1 .. Len(files) : files[k] \in Files
  BY <1>1
<1>9. \A t \in Threads : th[t] \in Steps
  BY <1>1
<1>10. clock.content \in Nat /\ clock.file \in Nat /\ clock.writes \in 0 .. MaxWrites /\ clock.names \in 0 .. MaxNames
  BY <1>1 DEF Clocks
<1>11. \A i \in 1 .. MaxInodes : inodes[i] \in Inodes
  BY <1>1
<1> QED
  BY <1>2, <1>3, <1>4, <1>5, <1>6, <1>7, <1>8, <1>9, <1>10, <1>11

LEMMA InitTyped == Init => Typed
<1> SUFFICES ASSUME Init PROVE Typed
  OBVIOUS
<1> USE Constants
<1> DEFINE n == Cardinality(Paths)
           Distinct(f) == \A p, q \in Paths : p # q => f[p] # f[q]
<1>1. n \in Nat /\ \E f \in [Paths -> 1 .. n] : Distinct(f)
  <2>1. n \in Nat /\ ExistsBijection(1 .. n, Paths)
    BY FS_CardinalityType, ConstantsAssumption DEF ConstantsAssumption
  <2>2. ExistsBijection(Paths, 1 .. n)
    BY <2>1, Fun_ExistsBijSymmetric
  <2> QED
    BY <2>1, <2>2 DEF ExistsBijection, Bijection, Injection, IsInjective
<1>2. ids = CHOOSE f \in [Paths -> 1 .. n] : Distinct(f)
  BY DEF Init
<1> HIDE DEF n
<1>3. ids \in [Paths -> 1 .. n] /\ Distinct(ids)
  BY <1>1, <1>2
<1>4. /\ gen \in 1 .. MaxHeads /\ tree \in [Paths -> Nat] /\ files \in Seq(Files) /\ Len(files) = 0
      /\ overlay \in [Paths -> {Deleted, None} \cup 1 .. Len(files)]
      /\ at \in [Paths -> 0 .. MaxInodes] /\ inodes \in [1 .. MaxInodes -> Inodes]
      /\ open \in [Handles -> Opens] /\ th \in [Threads -> Steps]
  BY DEF Init
<1>5. clock \in Clocks /\ clock.file = n
  BY <1>1 DEF Init, Clocks, n
<1>6. /\ \A p \in Paths : at[p] = 0
      /\ \A h \in Handles : open[h] = Closed
      /\ \A t \in Threads : th[t] = Idle
      /\ \A i \in 1 .. MaxInodes : inodes[i] = Free
  BY DEF Init
<1>7. BaseTyped
  BY <1>3, <1>4, <1>5 DEF BaseTyped
<1>8. InodesTyped /\ OpensTyped
  BY <1>4, <1>6 DEF InodesTyped, OpensTyped, Good
<1>9. StepsTyped
  BY <1>4, <1>6 DEF StepsTyped, GoodStep, Good
<1> QED
  BY <1>7, <1>8, <1>9 DEF Typed

-----------------------------------------------------------------------------
(* What the parts of the actions do *)

(* A new backing file; the others stay. *)
LEMMA AddFileEffect ==
    ASSUME Typed, NEW p \in Paths, NEW c \in Nat, NEW k \in BOOLEAN, NEW w \in BOOLEAN, AddFile(p, c, k, w)
    PROVE  /\ files' \in Seq(Files) /\ Len(files') = Len(files) + 1 /\ Len(files) \in Nat
           /\ \A i \in 1 .. Len(files) : files'[i] = files[i]
           /\ files'[Len(files) + 1] = [of |-> ids[p], content |-> c, create |-> k, written |-> w]
           /\ overlay' \in [Paths -> {Deleted, None} \cup 1 .. Len(files')]
           /\ overlay'[p] = Len(files) + 1
           /\ \A q \in Paths \ {p} : overlay'[q] = overlay[q]
<1> DEFINE f == [of |-> ids[p], content |-> c, create |-> k, written |-> w]
<1>1. files \in Seq(Files) /\ Len(files) \in Nat /\ ids[p] \in Nat
  BY Parts DEF Typed, BaseTyped
<1>2. f \in Files
  BY <1>1 DEF Files
<1>3. files' = Append(files, f)
  BY DEF AddFile
<1> HIDE DEF f
<1>4. /\ files' \in Seq(Files) /\ Len(files') = Len(files) + 1 /\ files'[Len(files) + 1] = f
      /\ \A i \in 1 .. Len(files) : files'[i] = files[i]
  BY <1>1, <1>2, <1>3
<1>5. /\ overlay' = [overlay EXCEPT ![p] = Len(files) + 1]
      /\ overlay \in [Paths -> {Deleted, None} \cup 1 .. Len(files)]
  BY DEF AddFile, Typed, BaseTyped
<1> QED
  BY <1>1, <1>4, <1>5 DEF f

(* Open files that are not detached lose what they kept of a path. *)
LEMMA CloseEffect ==
    ASSUME Typed, NEW p \in Paths, CloseCached(p)
    PROVE  /\ open' \in [Handles -> Opens]
           /\ \A h \in Handles : /\ open'[h].path = open[h].path /\ open'[h].of = open[h].of
                                 /\ open'[h].detached = open[h].detached /\ open'[h].inode = open[h].inode
           /\ \A h \in Handles : \/ open'[h] = open[h] /\ (open[h].path # p \/ open[h].detached)
                                 \/ /\ open[h].path = p /\ ~open[h].detached
                                    /\ open'[h].cache = NoCache /\ open'[h].reads = {} /\ open[h] # Closed
<1>1. \A h \in Handles : open[h] \in Opens /\ Closed.path # p
  BY Constants DEF Typed, OpensTyped
<1>2. open' = [h \in Handles |-> IF open[h].path = p /\ ~open[h].detached
                                 THEN [open[h] EXCEPT !.cache = NoCache, !.reads = {}] ELSE open[h]]
  BY DEF CloseCached, OpenAt
<1>3. ASSUME NEW h \in Handles
      PROVE  LET o == [open[h] EXCEPT !.cache = NoCache, !.reads = {}] IN
             /\ o \in Opens /\ o.cache = NoCache /\ o.reads = {} /\ o.path = open[h].path /\ o.of = open[h].of
             /\ o.detached = open[h].detached /\ o.inode = open[h].inode
  BY <1>1, Constants DEF Opens
<1> QED
  BY <1>1, <1>2, <1>3

(* The inode of a path, with one lookup more, or a free one for it. *)
LEMMA AllocEffect ==
    ASSUME Typed, NEW p \in Paths, NEW i \in 1 .. MaxInodes, Alloc(p, i)
    PROVE  /\ inodes' \in [1 .. MaxInodes -> Inodes] /\ at' \in [Paths -> 0 .. MaxInodes]
           /\ at'[p] = i /\ \A q \in Paths \ {p} : at'[q] = at[q]
           /\ \A k \in (1 .. MaxInodes) \ {i} : inodes'[k] = inodes[k]
           /\ inodes'[i].cnt > 0
           /\ \/ /\ at[p] = i /\ inodes'[i].path = inodes[i].path /\ inodes'[i].stale = inodes[i].stale
                 /\ inodes'[i].of = inodes[i].of
              \/ /\ at[p] = 0 /\ inodes[i] = Free
                 /\ inodes'[i] = [path |-> p, cnt |-> 1, stale |-> FALSE, of |-> ids[p]]
<1>1. /\ at \in [Paths -> 0 .. MaxInodes] /\ inodes \in [1 .. MaxInodes -> Inodes] /\ inodes[i] \in Inodes
      /\ ids[p] \in Nat /\ at[p] \in Nat
  BY Constants, Parts DEF Typed, InodesTyped, BaseTyped
<1> DEFINE More(s) == [s EXCEPT !.cnt = @ + 1]
           New == [path |-> p, cnt |-> 1, stale |-> FALSE, of |-> ids[p]]
<1>2. New \in Inodes
  BY <1>1 DEF Inodes
<1>6. ASSUME NEW s \in Inodes
      PROVE  /\ More(s) \in Inodes /\ More(s).cnt > 0
             /\ More(s).path = s.path /\ More(s).stale = s.stale /\ More(s).of = s.of
  BY <1>6 DEF Inodes
<1>7. inodes' = [inodes EXCEPT ![i] = IF at[p] # 0 THEN More(inodes[i]) ELSE New]
  BY DEF Alloc
<1> HIDE DEF More, New
<1>3. at' = [at EXCEPT ![p] = i]
  BY DEF Alloc
<1>4. CASE at[p] # 0
  <2>1. i = at[p]
    BY <1>4 DEF Alloc
  <2>2. inodes' = [inodes EXCEPT ![i] = More(inodes[i])]
    BY <1>4, <1>7
  <2>3. /\ inodes' \in [1 .. MaxInodes -> Inodes] /\ inodes'[i] = More(inodes[i])
        /\ \A k \in (1 .. MaxInodes) \ {i} : inodes'[k] = inodes[k]
    BY <1>1, <1>6, <2>2
  <2> QED
    BY <1>1, <1>3, <1>6, <2>1, <2>3
<1>5. CASE at[p] = 0
  <2>1. inodes[i] = Free
    BY <1>5 DEF Alloc
  <2>2. inodes' = [inodes EXCEPT ![i] = New]
    BY <1>5, <1>7
  <2>3. /\ inodes' \in [1 .. MaxInodes -> Inodes] /\ inodes'[i] = New
        /\ \A k \in (1 .. MaxInodes) \ {i} : inodes'[k] = inodes[k]
    BY <1>1, <1>2, <2>2
  <2> QED
    BY <1>1, <1>3, <1>5, <2>1, <2>3 DEF New
<1> QED
  BY <1>4, <1>5

(* A new open file takes a place that was closed. *)
LEMMA AddsEffect ==
    ASSUME Typed, NEW p \in Paths, NEW i \in 0 .. MaxInodes, NEW c \in Caches, Adds(p, i, c)
    PROVE  /\ open' \in [Handles -> Opens]
           /\ \E h \in Handles :
                /\ open[h] = Closed /\ \A k \in Handles \ {h} : open'[k] = open[k]
                /\ open'[h].path = p /\ open'[h].cache = c /\ open'[h].of = ids[p] /\ ~open'[h].detached
                /\ open'[h].inode = i /\ open'[h].reads = {}
<1>1. PICK h \in Handles : open[h] = Closed
        /\ open' = [open EXCEPT ![h] = [Closed EXCEPT !.path = p, !.inode = i, !.cache = c, !.of = ids[p]]]
  BY DEF Adds
<1>2. open \in [Handles -> Opens] /\ ids[p] \in Nat
  BY Parts DEF Typed, OpensTyped, BaseTyped
<1> DEFINE o == [Closed EXCEPT !.path = p, !.inode = i, !.cache = c, !.of = ids[p]]
<1>3. /\ o \in Opens /\ o.path = p /\ o.cache = c /\ o.of = ids[p] /\ ~o.detached /\ o.inode = i /\ o.reads = {}
  BY <1>2, Constants DEF Opens, Closed
<1> HIDE DEF o
<1>4. open' = [open EXCEPT ![h] = o]
  BY <1>1 DEF o
<1>5. open' \in [Handles -> Opens] /\ open'[h] = o /\ \A k \in Handles \ {h} : open'[k] = open[k]
  BY <1>2, <1>3, <1>4
<1> QED
  BY <1>1, <1>3, <1>5

(* A thread goes to a step, the others stay. *)
LEMMA ThreadEffect ==
    ASSUME th \in [Threads -> Steps], NEW t \in Threads, NEW s \in Steps, th' = [th EXCEPT ![t] = s]
    PROVE  th' \in [Threads -> Steps] /\ th'[t] = s /\ \A u \in Threads \ {t} : th'[u] = th[u]
  OBVIOUS

LEMMA GoesEffect ==
    ASSUME Typed, NEW t \in Threads, NEW pc \in PCs, Goes(t, pc)
    PROVE  /\ th' \in [Threads -> Steps] /\ \A u \in Threads \ {t} : th'[u] = th[u]
           /\ th'[t].pc = pc /\ th'[t].path = th[t].path /\ th'[t].to = th[t].to /\ th'[t].handle = th[t].handle
           /\ th'[t].inode = th[t].inode /\ th'[t].cache = th[t].cache /\ th'[t].make = th[t].make
<1>1. th \in [Threads -> Steps] /\ th[t] \in Steps
  BY DEF Typed, StepsTyped
<1> DEFINE s == [th[t] EXCEPT !.pc = pc]
<1>2. /\ s \in Steps /\ s.pc = pc /\ s.path = th[t].path /\ s.to = th[t].to /\ s.handle = th[t].handle
      /\ s.inode = th[t].inode /\ s.cache = th[t].cache /\ s.make = th[t].make
  BY <1>1 DEF Steps
<1>3. th' = [th EXCEPT ![t] = s]
  BY <1>1 DEF Goes
<1> HIDE DEF s
<1> QED
  BY <1>1, <1>2, <1>3, ThreadEffect

LEMMA DoneEffect ==
    ASSUME Typed, NEW t \in Threads, Done(t)
    PROVE  /\ th' \in [Threads -> Steps] /\ \A u \in Threads \ {t} : th'[u] = th[u]
           /\ th'[t] = Idle
  BY Constants DEF Typed, StepsTyped, Done

(* A backing file is written. *)
LEMMA RewriteEffect ==
    ASSUME Typed, NEW k \in 1 .. Len(files), NEW f \in Files, files' = [files EXCEPT ![k] = f]
    PROVE  /\ files' \in Seq(Files) /\ Len(files') = Len(files) /\ files'[k] = f
           /\ \A i \in (1 .. Len(files)) \ {k} : files'[i] = files[i]
<1>1. files \in Seq(Files)
  BY DEF Typed, BaseTyped
<1> QED
  BY <1>1

LEMMA CountEffect ==
    ASSUME Typed
    PROVE  /\ NewContent \in Nat
           /\ CountWrite => clock' \in Clocks /\ clock'.file = clock.file
           /\ CountName => clock' \in Clocks /\ clock'.file = clock.file + 1
<1>1. clock \in Clocks /\ MaxWrites \in Nat /\ MaxNames \in Nat
  BY Constants DEF Typed, BaseTyped
<1>2. NewContent \in Nat
  BY <1>1 DEF NewContent, Clocks
<1>3. ASSUME CountWrite PROVE clock' \in Clocks /\ clock'.file = clock.file
  <2>1. clock' = [clock EXCEPT !.content = clock.content + 1, !.writes = clock.writes + 1]
        /\ clock.writes < MaxWrites
    BY <1>3 DEF CountWrite
  <2>2. clock.writes + 1 \in 0 .. MaxWrites /\ clock.content + 1 \in Nat
    BY <1>1, <2>1 DEF Clocks
  <2> QED
    BY <1>1, <2>1, <2>2 DEF Clocks
<1>4. ASSUME CountName PROVE clock' \in Clocks /\ clock'.file = clock.file + 1
  <2>1. clock' = [clock EXCEPT !.names = clock.names + 1, !.file = clock.file + 1]
        /\ clock.names < MaxNames
    BY <1>4 DEF CountName
  <2>2. clock.names + 1 \in 0 .. MaxNames /\ clock.file + 1 \in Nat
    BY <1>1, <2>1 DEF Clocks
  <2> QED
    BY <1>1, <2>1, <2>2 DEF Clocks
<1> QED
  BY <1>2, <1>3, <1>4

(* Which actions change what. *)
LEMMA Frames ==
    ASSUME [Next]_vars
    PROVE  /\ \/ \E p \in Paths : CreateFile(p)
              \/ \E h \in Handles : WriteDetached(h)
              \/ \E t \in Threads : Write(t) \/ Ensure(t) \/ Remove(t) \/ Move(t)
              \/ Transition
              \/ UNCHANGED <<gen, tree, overlay, files, ids, clock>>
           /\ \/ \E p \in Paths : LookUpInode(p) \/ CreateFile(p)
              \/ \E i \in 1 .. MaxInodes, n \in 1 .. 2 : ForgetInode(i, n)
              \/ \E t \in Threads : Move(t)
              \/ UNCHANGED <<inodes, at>>
           /\ \/ \E p \in Paths : CreateFile(p)
              \/ \E h \in Handles : ReleaseFileHandle(h)
              \/ \E t \in Threads : \/ \E i \in 1 .. MaxInodes : Truncate(t, i)
                                    \/ \E h \in Handles : ReadFile(t, h) \/ WriteFile(t, h)
                                    \/ Register(t) \/ Fetch(t) \/ Keep(t) \/ Close(t)
                                    \/ Pin(t) \/ Remove(t) \/ Move(t)
              \/ UNCHANGED open
           /\ \/ \E t \in Threads :
                   \/ \E i \in 1 .. MaxInodes : OpenFile(t, i) \/ Truncate(t, i)
                   \/ \E h \in Handles : ReadFile(t, h) \/ WriteFile(t, h)
                   \/ Register(t) \/ Fetch(t) \/ Keep(t) \/ Write(t) \/ Close(t)
                   \/ \E p, q \in Paths : Unlink(t, p) \/ Rename(t, p, q)
                   \/ Ensure(t) \/ Pin(t) \/ Remove(t) \/ Move(t)
              \/ UNCHANGED th
<1>1. CASE UNCHANGED vars
  BY <1>1 DEF vars
<1>2. ASSUME NEW p \in Paths, LookUpInode(p) PROVE UNCHANGED <<gen, tree, overlay, files, open, th, ids, clock>>
  BY <1>2 DEF LookUpInode
<1>3. ASSUME NEW p \in Paths, CreateFile(p) PROVE UNCHANGED th
  BY <1>3 DEF CreateFile
<1>4. ASSUME NEW i \in 1 .. MaxInodes, NEW n \in 1 .. 2, ForgetInode(i, n)
      PROVE  UNCHANGED <<gen, tree, overlay, files, open, th, ids, clock>>
  BY <1>4 DEF ForgetInode
<1>5. ASSUME NEW h \in Handles, ReleaseFileHandle(h)
      PROVE  UNCHANGED <<gen, tree, overlay, files, inodes, at, th, ids, clock>>
  BY <1>5 DEF ReleaseFileHandle
<1>6. ASSUME NEW h \in Handles, WriteDetached(h) PROVE UNCHANGED <<inodes, at, open, th>>
  BY <1>6 DEF WriteDetached
<1>7. ASSUME NEW t \in Threads, NEW i \in 1 .. MaxInodes, OpenFile(t, i)
      PROVE  UNCHANGED <<gen, tree, overlay, files, inodes, at, open, ids, clock>>
  BY <1>7 DEF OpenFile
<1>8. ASSUME NEW t \in Threads, NEW i \in 1 .. MaxInodes, Truncate(t, i)
      PROVE  UNCHANGED <<gen, tree, overlay, files, inodes, at, ids, clock>>
  BY <1>8 DEF Truncate
<1>9. ASSUME NEW t \in Threads, NEW h \in Handles, ReadFile(t, h) \/ WriteFile(t, h)
      PROVE  UNCHANGED <<gen, tree, overlay, files, inodes, at, ids, clock>>
  BY <1>9 DEF ReadFile, WriteFile
<1>10. ASSUME NEW t \in Threads, Register(t) \/ Fetch(t) \/ Keep(t) \/ Close(t) \/ Pin(t)
       PROVE  UNCHANGED <<gen, tree, overlay, files, inodes, at, ids, clock>>
  BY <1>10 DEF Register, Fetch, Keep, Close, Pin
<1>11. ASSUME NEW t \in Threads, Write(t) \/ Ensure(t) PROVE UNCHANGED <<inodes, at, open>>
  BY <1>11 DEF Write, Ensure
<1>12. ASSUME NEW t \in Threads, NEW p \in Paths, NEW q \in Paths, Unlink(t, p) \/ Rename(t, p, q)
       PROVE  UNCHANGED <<gen, tree, overlay, files, inodes, at, open, ids, clock>>
  BY <1>12 DEF Unlink, Rename
<1>13. ASSUME NEW t \in Threads, Remove(t) PROVE UNCHANGED <<inodes, at>>
  BY <1>13 DEF Remove
<1>14. ASSUME Transition PROVE UNCHANGED <<inodes, at, open, th>>
  BY <1>14 DEF Transition
<1>15. CASE Next
  <2>1. ASSUME NEW t \in Threads,
               \/ \E i \in 1 .. MaxInodes : OpenFile(t, i) \/ Truncate(t, i)
               \/ \E h \in Handles : ReadFile(t, h) \/ WriteFile(t, h)
               \/ Register(t) \/ Fetch(t) \/ Keep(t) \/ Write(t) \/ Close(t)
               \/ \E p, q \in Paths : Unlink(t, p) \/ Rename(t, p, q)
               \/ Ensure(t) \/ Pin(t) \/ Remove(t) \/ Move(t)
        PROVE  /\ \/ Write(t) \/ Ensure(t) \/ Remove(t) \/ Move(t)
                  \/ UNCHANGED <<gen, tree, overlay, files, ids, clock>>
               /\ Move(t) \/ UNCHANGED <<inodes, at>>
               /\ \/ \E i \in 1 .. MaxInodes : Truncate(t, i)
                  \/ \E h \in Handles : ReadFile(t, h) \/ WriteFile(t, h)
                  \/ Register(t) \/ Fetch(t) \/ Keep(t) \/ Close(t)
                  \/ Pin(t) \/ Remove(t) \/ Move(t)
                  \/ UNCHANGED open
    BY <2>1, <1>7, <1>8, <1>9, <1>10, <1>11, <1>12, <1>13
  <2> QED
    BY <2>1, <1>15, <1>2, <1>3, <1>4, <1>5, <1>6, <1>14, Zenon DEF Next
<1> QED
  BY <1>1, <1>15

(* The entry and the identity of a file go with it. *)
LEMMA MoveEffect ==
    ASSUME Typed, NEW p \in Paths, NEW q \in Paths, overlay[p] > 0, MoveEntry(p, q)
    PROVE  /\ overlay' \in [Paths -> {Deleted, None} \cup 1 .. Len(files)]
           /\ p # q => overlay'[q] = overlay[p] /\ overlay'[p] \in {None, Deleted}
           /\ \A r \in Paths \ {p, q} : overlay'[r] = overlay[r] /\ ids'[r] = ids[r]
           /\ files' \in Seq(Files) /\ Len(files') = Len(files)
           /\ \A k \in 1 .. Len(files) : /\ files'[k].of = files[k].of /\ files'[k].content = files[k].content
                                         /\ files'[k].written = files[k].written
           /\ p # q => ids'[q] = ids[p] /\ ids'[p] = clock.file + 1
           /\ ids' \in [Paths -> 1 .. clock.file + 1]
           /\ \A r, s \in Paths : r # s => ids'[r] # ids'[s]
<1>1. /\ overlay \in [Paths -> {Deleted, None} \cup 1 .. Len(files)] /\ Len(files) \in Nat /\ files \in Seq(Files)
      /\ ids \in [Paths -> 1 .. clock.file] /\ clock.file \in Nat
      /\ \A r, s \in Paths : r # s => ids[r] # ids[s]
  BY Parts DEF Typed, BaseTyped
<1>2. overlay[p] \in 1 .. Len(files)
  BY <1>1 DEF Deleted, None
<1> DEFINE e == files[overlay[p]].create
           f == [files[overlay[p]] EXCEPT !.create = e /\ tree[q] = 0]
<1>3. /\ overlay' = [overlay EXCEPT ![q] = overlay[p], ![p] = IF e THEN None ELSE Deleted]
      /\ files' = [files EXCEPT ![overlay[p]] = f]
      /\ ids' = [ids EXCEPT ![q] = ids[p], ![p] = clock.file + 1]
  BY <1>1, <1>2 DEF MoveEntry
<1>4. /\ overlay' \in [Paths -> {Deleted, None} \cup 1 .. Len(files)]
      /\ p # q => overlay'[q] = overlay[p] /\ overlay'[p] \in {None, Deleted}
      /\ \A r \in Paths \ {p, q} : overlay'[r] = overlay[r]
  BY <1>1, <1>2, <1>3
<1>5. ASSUME NEW g \in Files, NEW b \in BOOLEAN
      PROVE  LET n == [g EXCEPT !.create = b] IN
             n \in Files /\ n.of = g.of /\ n.content = g.content /\ n.written = g.written
  BY DEF Files
<1>6. files[overlay[p]] \in Files /\ (e /\ tree[q] = 0) \in BOOLEAN
  BY <1>2, Parts
<1>7. /\ f \in Files /\ f.of = files[overlay[p]].of /\ f.content = files[overlay[p]].content
      /\ f.written = files[overlay[p]].written
  BY <1>5, <1>6
<1> HIDE DEF f
<1>8. /\ files' \in Seq(Files) /\ Len(files') = Len(files) /\ files'[overlay[p]] = f
      /\ \A k \in (1 .. Len(files)) \ {overlay[p]} : files'[k] = files[k]
  BY <1>2, <1>3, <1>7, RewriteEffect
<1>9. /\ \A k \in 1 .. Len(files) : /\ files'[k].of = files[k].of /\ files'[k].content = files[k].content
                                    /\ files'[k].written = files[k].written
  BY <1>7, <1>8
<1>10. /\ \A r \in Paths \ {p, q} : ids'[r] = ids[r]
       /\ p # q => ids'[q] = ids[p]
       /\ ids'[p] = clock.file + 1
       /\ ids' \in [Paths -> 1 .. clock.file + 1]
  BY <1>1, <1>3
<1>11. \A r \in Paths : ids[r] # clock.file + 1
  BY <1>1
<1>12. \A r, s \in Paths : r # s => ids'[r] # ids'[s]
  BY <1>1, <1>10, <1>11
<1> QED
  BY <1>4, <1>8, <1>9, <1>10, <1>12

LEMMA BaseStep ==
    ASSUME Typed, [Next]_vars
    PROVE  BaseTyped' /\ gen <= gen' /\ Len(files) <= Len(files') /\ gen \in Nat /\ Len(files) \in Nat
           /\ gen' \in Nat /\ Len(files') \in Nat
<1> DEFINE Goal == BaseTyped' /\ gen <= gen' /\ Len(files) <= Len(files')
<1>1. /\ gen \in 1 .. MaxHeads /\ tree \in [Paths -> Nat] /\ files \in Seq(Files) /\ clock \in Clocks
      /\ overlay \in [Paths -> {Deleted, None} \cup 1 .. Len(files)] /\ Len(files) \in Nat
      /\ ids \in [Paths -> 1 .. clock.file] /\ \A p, q \in Paths : p # q => ids[p] # ids[q]
      /\ MaxHeads \in Nat /\ clock.file \in Nat
  BY Constants, Parts DEF Typed, BaseTyped
<1>2. \A p \in Paths : tree[p] \in Nat /\ (overlay[p] > 0 => overlay[p] \in 1 .. Len(files)) /\ ids[p] \in Nat
  BY <1>1 DEF Deleted, None
<1>3. ASSUME NEW p \in Paths, NEW c \in Nat, NEW k \in BOOLEAN, NEW w \in BOOLEAN, AddFile(p, c, k, w),
             UNCHANGED <<gen, tree, ids>>, clock' \in Clocks, clock'.file = clock.file
      PROVE  Goal
  <2>1. /\ files' \in Seq(Files) /\ Len(files') = Len(files) + 1
        /\ overlay' \in [Paths -> {Deleted, None} \cup 1 .. Len(files')]
    BY <1>3, AddFileEffect
  <2>2. BaseTyped'
    BY <1>1, <1>3, <2>1 DEF BaseTyped
  <2> QED
    BY <1>1, <1>3, <2>1, <2>2
<1>4. ASSUME NEW k \in 1 .. Len(files), NEW f \in Files, files' = [files EXCEPT ![k] = f],
             UNCHANGED <<gen, tree, overlay, ids>>, clock' \in Clocks, clock'.file = clock.file
      PROVE  Goal
  BY <1>1, <1>4, RewriteEffect DEF BaseTyped
<1>5. ASSUME NEW p \in Paths, CreateFile(p) PROVE Goal
  BY <1>3, <1>5, CountEffect DEF CreateFile
<1>6. ASSUME NEW h \in Handles, WriteDetached(h) PROVE Goal
  <2>1. open[h].cache.is \in 1 .. Len(files) /\ files[open[h].cache.is] \in Files
    BY <1>6, Parts DEF WriteDetached, Typed, OpensTyped, Good
  <2>2. [files[open[h].cache.is] EXCEPT !.content = NewContent] \in Files
    BY <2>1, CountEffect DEF Files
  <2>3. files' = [files EXCEPT ![open[h].cache.is] = [files[open[h].cache.is] EXCEPT !.content = NewContent]]
    BY <1>1, <1>6, <2>1 DEF WriteDetached
  <2> QED
    BY <1>4, <1>6, <2>1, <2>2, <2>3, CountEffect DEF WriteDetached
<1>7. ASSUME NEW t \in Threads, Write(t) PROVE Goal
  <2>1. th[t].path \in Paths /\ UNCHANGED <<gen, tree, ids>>
    BY <1>7 DEF Write, Typed, StepsTyped, GoodStep
  <2>2. CASE overlay[th[t].path] > 0
             /\ CountWrite /\ UNCHANGED overlay
             /\ files' = [files EXCEPT ![overlay[th[t].path]].content = NewContent,
                                       ![overlay[th[t].path]].written = TRUE]
    <3> DEFINE k == overlay[th[t].path]
               f == [files[k] EXCEPT !.content = NewContent, !.written = TRUE]
    <3>1. k \in 1 .. Len(files) /\ files[k] \in Files
      BY <1>2, <2>1, <2>2, Parts
    <3>2. f \in Files
      BY <3>1, CountEffect DEF Files
    <3>3. files' = [files EXCEPT ![k] = f]
      BY <1>1, <2>2, <3>1
    <3> HIDE DEF f, k
    <3> QED
      BY <1>4, <2>1, <2>2, <3>1, <3>2, <3>3, CountEffect
  <2>3. CASE \E b \in BOOLEAN : CountWrite /\ AddFile(th[t].path, NewContent, b, TRUE)
    BY <1>3, <2>1, <2>3, CountEffect
  <2>4. CASE UNCHANGED <<overlay, files, clock>>
    BY <1>1, <2>1, <2>4 DEF BaseTyped
  <2> QED
    BY <1>7, <2>2, <2>3, <2>4 DEF Write
<1>8. ASSUME NEW t \in Threads, Ensure(t) PROVE Goal
  <2> DEFINE p == IF th[t].pc = "ensure" THEN th[t].path ELSE th[t].to
  <2>1. p \in Paths /\ UNCHANGED <<gen, tree, ids, clock>>
    BY <1>8 DEF Ensure, Typed, StepsTyped, GoodStep
  <2>2. AddFile(p, tree[p], FALSE, FALSE) \/ UNCHANGED <<overlay, files>>
    BY <1>8 DEF Ensure
  <2> HIDE DEF p
  <2>3. CASE AddFile(p, tree[p], FALSE, FALSE)
    BY <1>2, <1>3, <1>1, <2>1, <2>3
  <2>4. CASE UNCHANGED <<overlay, files>>
    BY <1>1, <2>1, <2>4 DEF BaseTyped
  <2> QED
    BY <2>2, <2>3, <2>4
<1>9. ASSUME NEW t \in Threads, Remove(t) PROVE Goal
  <2> DEFINE p == th[t].path
  <2>1. p \in Paths
    BY <1>9 DEF Remove, Typed, StepsTyped, GoodStep
  <2>2. /\ UNCHANGED <<gen, tree, files>> /\ CountName
        /\ overlay' = [overlay EXCEPT ![p] = Deleted] /\ ids' = [ids EXCEPT ![p] = clock.file + 1]
    BY <1>9 DEF Remove
  <2> HIDE DEF p
  <2>3. clock' \in Clocks /\ clock'.file = clock.file + 1
    BY <2>2, CountEffect
  <2>4. /\ overlay' \in [Paths -> {Deleted, None} \cup 1 .. Len(files)]
        /\ ids' \in [Paths -> 1 .. clock.file + 1] /\ \A r, s \in Paths : r # s => ids'[r] # ids'[s]
    BY <1>1, <2>1, <2>2
  <2> QED
    BY <1>1, <2>2, <2>3, <2>4 DEF BaseTyped
<1>10. ASSUME NEW t \in Threads, Move(t) PROVE Goal
  <2>1. th[t].path \in Paths /\ th[t].to \in Paths
    BY <1>10 DEF Move, Typed, StepsTyped, GoodStep
  <2>2. CASE overlay[th[t].path] > 0
    <3>1. MoveEntry(th[t].path, th[t].to) /\ CountName /\ UNCHANGED <<gen, tree>>
      BY <1>10, <2>2 DEF Move, Renamed, Ends
    <3> QED
      <4>1. /\ overlay' \in [Paths -> {Deleted, None} \cup 1 .. Len(files)]
            /\ files' \in Seq(Files) /\ Len(files') = Len(files)
            /\ ids' \in [Paths -> 1 .. clock.file + 1]
            /\ \A r, s \in Paths : r # s => ids'[r] # ids'[s]
        BY <2>1, <2>2, <3>1, MoveEffect
      <4>2. clock' \in Clocks /\ clock'.file = clock.file + 1
        BY <3>1, CountEffect
      <4> QED
        BY <1>1, <3>1, <4>1, <4>2 DEF BaseTyped
  <2>3. CASE ~(overlay[th[t].path] > 0)
    <3>1. /\ UNCHANGED <<gen, tree, ids, clock>>
          /\ AddFile(th[t].path, tree[th[t].path], FALSE, FALSE) \/ UNCHANGED <<overlay, files>>
      BY <1>10, <2>3 DEF Move, RenameAgain
    <3>2. CASE AddFile(th[t].path, tree[th[t].path], FALSE, FALSE)
      BY <1>1, <1>2, <1>3, <2>1, <3>1, <3>2
    <3>3. CASE UNCHANGED <<overlay, files>>
      BY <1>1, <3>1, <3>3 DEF BaseTyped
    <3> QED
      BY <3>1, <3>2, <3>3
  <2> QED
    BY <2>2, <2>3
<1>11. ASSUME Transition PROVE Goal
  <2>1. gen' \in 1 .. MaxHeads /\ gen <= gen' /\ UNCHANGED <<files, ids>>
    BY <1>1, <1>11 DEF Transition
  <2>2. clock' \in Clocks /\ clock'.file = clock.file
    <3>1. clock' = [clock EXCEPT !.content = clock.content + 1] /\ clock.content + 1 \in Nat
      BY <1>1, <1>11 DEF Transition, Clocks
    <3> QED
      BY <1>1, <3>1 DEF Clocks
  <2>3. \A p \in Paths : overlay[p] \in {Deleted, None} \cup 1 .. Len(files)
    BY <1>1
  <2>4. overlay' \in [Paths -> {Deleted, None} \cup 1 .. Len(files)]
    BY <2>3, <1>11 DEF Transition
  <2>5. tree' \in [Paths -> Nat]
    <3>1. \A p \in Paths : overlay[p] > 0 => files[overlay[p]].content \in Nat
      BY <1>2, Parts
    <3>2. [p \in Paths |-> CASE overlay[p] > 0       -> files[overlay[p]].content
                             [] overlay[p] = Deleted -> 0
                             [] OTHER                -> tree[p]] \in [Paths -> Nat]
      BY <1>2, <3>1, <2>3 DEF Deleted, None
    <3>3. \A p \in Paths, c \in {0, NewContent} : [tree EXCEPT ![p] = c] \in [Paths -> Nat]
      BY <1>1, CountEffect
    <3> QED
      BY <3>2, <3>3, <1>11 DEF Transition, Trees
  <2> QED
    BY <1>1, <2>1, <2>2, <2>4, <2>5 DEF BaseTyped
<1>12. CASE UNCHANGED <<gen, tree, overlay, files, ids, clock>>
  BY <1>1, <1>12 DEF BaseTyped
<1>13. Goal
  BY Frames, <1>5, <1>6, <1>7, <1>8, <1>9, <1>10, <1>11, <1>12
<1>14. gen' \in Nat /\ Len(files') \in Nat
  <2>1. BaseTyped'
    BY <1>13
  <2> QED
    BY <2>1, <1>1 DEF BaseTyped
<1> QED
  BY <1>1, <1>13, <1>14

(* The inode of the one path is that of the other, and the other's is stale. *)
LEMMA MoveInodesEffect ==
    ASSUME Typed, NEW p \in Paths, NEW q \in Paths, MoveInodes(p, q)
    PROVE  /\ at' \in [Paths -> 0 .. MaxInodes] /\ inodes' \in [1 .. MaxInodes -> Inodes]
           /\ at'[q] = at[p] /\ (p # q => at'[p] = 0)
           /\ \A r \in Paths \ {p, q} : at'[r] = at[r]
           /\ \A i \in 1 .. MaxInodes :
                /\ inodes'[i].cnt = inodes[i].cnt /\ inodes'[i].of = inodes[i].of
                /\ \/ at[p] = i /\ inodes'[i].path = q /\ inodes'[i].stale = inodes[i].stale
                   \/ at[p] # i /\ at[q] = i /\ inodes'[i].path = inodes[i].path /\ inodes'[i].stale
                   \/ at[p] # i /\ at[q] # i /\ inodes'[i] = inodes[i]
<1>1. at \in [Paths -> 0 .. MaxInodes] /\ inodes \in [1 .. MaxInodes -> Inodes] /\ 0 \in 0 .. MaxInodes
  BY Constants DEF Typed, InodesTyped
<1> DEFINE Named1(n) == [n EXCEPT !.path = q]
           Stale(n) == [n EXCEPT !.stale = TRUE]
<1>2. ASSUME NEW n \in Inodes
      PROVE  /\ Named1(n) \in Inodes /\ Stale(n) \in Inodes
             /\ Named1(n).cnt = n.cnt /\ Named1(n).of = n.of /\ Named1(n).path = q /\ Named1(n).stale = n.stale
             /\ Stale(n).cnt = n.cnt /\ Stale(n).of = n.of /\ Stale(n).path = n.path /\ Stale(n).stale
  BY <1>2 DEF Inodes
<1>3. /\ at' = [at EXCEPT ![p] = 0, ![q] = at[p]]
      /\ inodes' = [i \in 1 .. MaxInodes |->
            CASE at[p] = i              -> Named1(inodes[i])
              [] at[q] = i /\ at[p] # i -> Stale(inodes[i])
              [] OTHER                  -> inodes[i]]
  BY DEF MoveInodes
<1> HIDE DEF Named1, Stale
<1>4. /\ at' \in [Paths -> 0 .. MaxInodes] /\ at'[q] = at[p] /\ (p # q => at'[p] = 0)
      /\ \A r \in Paths \ {p, q} : at'[r] = at[r]
  BY <1>1, <1>3
<1>5. ASSUME NEW i \in 1 .. MaxInodes
      PROVE  \/ at[p] = i /\ inodes'[i] = Named1(inodes[i])
             \/ at[p] # i /\ at[q] = i /\ inodes'[i] = Stale(inodes[i])
             \/ at[p] # i /\ at[q] # i /\ inodes'[i] = inodes[i]
  BY <1>1, <1>3
<1>6. \A i \in 1 .. MaxInodes : inodes[i] \in Inodes
  BY <1>1
<1>7. \A i \in 1 .. MaxInodes : inodes'[i] \in Inodes
  BY <1>2, <1>5, <1>6
<1>8. inodes' = [i \in 1 .. MaxInodes |-> inodes'[i]]
  BY <1>3
<1> QED
  BY <1>2, <1>4, <1>5, <1>6, <1>7, <1>8

(* The kernel gives up lookups, or the last ones. *)
LEMMA ForgetEffect ==
    ASSUME Typed, NEW i \in 1 .. MaxInodes, NEW n \in 1 .. 2, ForgetInode(i, n)
    PROVE  /\ at' \in [Paths -> 0 .. MaxInodes] /\ inodes' \in [1 .. MaxInodes -> Inodes]
           /\ \A p \in Paths : at'[p] = at[p] \/ (at[p] = i /\ at'[p] = 0)
           /\ \A k \in (1 .. MaxInodes) \ {i} : inodes'[k] = inodes[k]
           /\ \/ inodes'[i].cnt = 0 /\ \A p \in Paths : at'[p] # i
              \/ /\ inodes'[i].cnt > 0 /\ inodes[i].cnt > 0 /\ inodes'[i].path = inodes[i].path
                 /\ inodes'[i].stale = inodes[i].stale /\ inodes'[i].of = inodes[i].of
                 /\ \A p \in Paths : at'[p] = at[p]
<1>1. /\ at \in [Paths -> 0 .. MaxInodes] /\ inodes \in [1 .. MaxInodes -> Inodes] /\ 0 \in 0 .. MaxInodes
      /\ inodes[i] \in Inodes /\ inodes[i].cnt \in Nat
  BY Constants, Parts DEF Typed, InodesTyped
<1>2. at' = [p \in Paths |-> IF inodes[i].cnt = n /\ at[p] = i THEN 0 ELSE at[p]]
  BY DEF ForgetInode
<1>3. inodes[i].cnt >= n
  BY DEF ForgetInode
<1>4. CASE inodes[i].cnt = n
  <2>1. inodes' = [inodes EXCEPT ![i] = [Free EXCEPT !.stale = TRUE]]
    BY <1>4 DEF ForgetInode
  <2>2. [Free EXCEPT !.stale = TRUE] \in Inodes /\ [Free EXCEPT !.stale = TRUE].cnt = 0
    BY Constants DEF Free, Inodes, None
  <2>3. /\ inodes' \in [1 .. MaxInodes -> Inodes] /\ inodes'[i].cnt = 0
        /\ \A k \in (1 .. MaxInodes) \ {i} : inodes'[k] = inodes[k]
    BY <1>1, <2>1, <2>2
  <2>4. /\ at' \in [Paths -> 0 .. MaxInodes] /\ \A p \in Paths : at'[p] # i
        /\ \A p \in Paths : at'[p] = at[p] \/ (at[p] = i /\ at'[p] = 0)
    BY <1>1, <1>2, <1>4
  <2> QED
    BY <2>3, <2>4
<1>5. CASE inodes[i].cnt # n
  <2> DEFINE Less(s) == [s EXCEPT !.cnt = @ - n]
  <2>1. ASSUME NEW s \in Inodes, s.cnt > n
        PROVE  /\ Less(s) \in Inodes /\ Less(s).cnt > 0 /\ Less(s).path = s.path /\ Less(s).stale = s.stale
               /\ Less(s).of = s.of
    BY <2>1 DEF Inodes
  <2>2. inodes' = [inodes EXCEPT ![i] = Less(inodes[i])]
    BY <1>5 DEF ForgetInode
  <2> HIDE DEF Less
  <2>3. /\ inodes' \in [1 .. MaxInodes -> Inodes] /\ inodes'[i] = Less(inodes[i])
        /\ \A k \in (1 .. MaxInodes) \ {i} : inodes'[k] = inodes[k]
    BY <1>1, <1>3, <1>5, <2>1, <2>2
  <2>4. at' \in [Paths -> 0 .. MaxInodes] /\ \A p \in Paths : at'[p] = at[p]
    BY <1>1, <1>2, <1>5
  <2> QED
    BY <1>1, <1>3, <1>5, <2>1, <2>3, <2>4
<1> QED
  BY <1>4, <1>5

LEMMA InodesStep == ASSUME Typed, [Next]_vars PROVE InodesTyped'
<1>1. /\ at \in [Paths -> 0 .. MaxInodes] /\ inodes \in [1 .. MaxInodes -> Inodes]
      /\ \A p \in Paths : at[p] # 0 => inodes[at[p]].cnt > 0
      /\ \A i \in 1 .. MaxInodes : inodes[i].cnt > 0 => inodes[i].path \in Paths
      /\ MaxInodes \in Nat
  BY Constants DEF Typed, InodesTyped
<1>2. ASSUME NEW p \in Paths, NEW i \in 1 .. MaxInodes, Alloc(p, i) PROVE InodesTyped'
  <2>1. \A q \in Paths : at[q] # 0 => at[q] \in 1 .. MaxInodes
    BY <1>1
  <2>2. /\ inodes' \in [1 .. MaxInodes -> Inodes] /\ at' \in [Paths -> 0 .. MaxInodes]
        /\ at'[p] = i /\ \A q \in Paths \ {p} : at'[q] = at[q]
        /\ \A k \in (1 .. MaxInodes) \ {i} : inodes'[k] = inodes[k]
        /\ inodes'[i].cnt > 0
    <3>1. Alloc(p, i)
      BY <1>2
    <3>2. inodes' \in [1 .. MaxInodes -> Inodes] /\ at' \in [Paths -> 0 .. MaxInodes]
      BY <3>1, AllocEffect
    <3>3. at'[p] = i /\ \A q \in Paths \ {p} : at'[q] = at[q]
      BY <3>1, AllocEffect
    <3>4. inodes'[i].cnt > 0 /\ \A k \in (1 .. MaxInodes) \ {i} : inodes'[k] = inodes[k]
      BY <3>1, AllocEffect
    <3> QED
      BY <3>2, <3>3, <3>4
  <2>3. inodes'[i].path \in Paths
    <3>1. \/ at[p] = i /\ inodes'[i].path = inodes[i].path
          \/ inodes'[i] = [path |-> p, cnt |-> 1, stale |-> FALSE, of |-> ids[p]]
      BY <1>2, AllocEffect
    <3> QED
      BY <1>1, <3>1
  <2> QED
    BY <1>1, <2>1, <2>2, <2>3 DEF InodesTyped
<1>3. ASSUME NEW i \in 1 .. MaxInodes, NEW n \in 1 .. 2, ForgetInode(i, n) PROVE InodesTyped'
  <2>1. \A q \in Paths : at[q] # 0 => at[q] \in 1 .. MaxInodes
    BY <1>1
  <2> QED
    BY <1>1, <1>3, <2>1, ForgetEffect DEF InodesTyped
<1>4. ASSUME NEW t \in Threads, Move(t) PROVE InodesTyped'
  <2>1. th[t].path \in Paths /\ th[t].to \in Paths
    BY <1>4 DEF Move, Typed, StepsTyped, GoodStep
  <2>2. MoveInodes(th[t].path, th[t].to) \/ UNCHANGED <<inodes, at>>
    BY <1>4 DEF Move, Renamed, RenameAgain
  <2>3. ASSUME MoveInodes(th[t].path, th[t].to) PROVE InodesTyped'
    <3>1. \A q \in Paths : at[q] # 0 => at[q] \in 1 .. MaxInodes
      BY <1>1
    <3>2. /\ at' \in [Paths -> 0 .. MaxInodes] /\ inodes' \in [1 .. MaxInodes -> Inodes]
          /\ \A r \in Paths : at'[r] # 0 => \E s \in Paths : at'[r] = at[s]
          /\ \A i \in 1 .. MaxInodes : /\ inodes'[i].cnt = inodes[i].cnt
                                       /\ inodes'[i].path \in {th[t].to, inodes[i].path}
      BY <2>1, <2>3, MoveInodesEffect
    <3>3. ASSUME NEW r \in Paths, at'[r] # 0 PROVE inodes'[at'[r]].cnt > 0
      BY <1>1, <3>1, <3>2, <3>3
    <3>4. ASSUME NEW i \in 1 .. MaxInodes, inodes'[i].cnt > 0 PROVE inodes'[i].path \in Paths
      BY <1>1, <2>1, <3>2, <3>4
    <3> QED
      BY <3>2, <3>3, <3>4 DEF InodesTyped
  <2> QED
    BY <1>1, <2>2, <2>3 DEF InodesTyped
<1> QED
  BY Frames, <1>1, <1>2, <1>3, <1>4 DEF LookUpInode, CreateFile, InodesTyped

(* One open file changes what it keeps and the reads under way. *)
LEMMA CacheEffect ==
    ASSUME Typed, NEW h \in Handles, NEW o \in Opens, o.path = open[h].path, o.of = open[h].of,
           o.detached = open[h].detached, o.inode = open[h].inode, open' = [open EXCEPT ![h] = o]
    PROVE  /\ open' \in [Handles -> Opens]
           /\ open'[h] = o
           /\ \A k \in Handles \ {h} : open'[k] = open[k]
           /\ \A k \in Handles : /\ open'[k].path = open[k].path /\ open'[k].of = open[k].of
                                 /\ open'[k].detached = open[k].detached /\ open'[k].inode = open[k].inode
<1>1. open \in [Handles -> Opens]
  BY DEF Typed, OpensTyped
<1> QED
  BY <1>1

LEMMA ReadEffect ==
    ASSUME Typed, NEW t \in Threads, NEW h \in Handles, ReadFile(t, h)
    PROVE  /\ open' \in [Handles -> Opens]
           /\ open'[h].cache = NoCache /\ open'[h].reads \subseteq {t} \cup open[h].reads
           /\ \A k \in Handles \ {h} : open'[k] = open[k]
           /\ \A k \in Handles : /\ open'[k].path = open[k].path /\ open'[k].of = open[k].of
                                 /\ open'[k].detached = open[k].detached /\ open'[k].inode = open[k].inode
           /\ th' \in [Threads -> Steps] /\ \A u \in Threads \ {t} : th'[u] = th[u]
           /\ th'[t].pc = "fetch" /\ th'[t].handle = h /\ th'[t].path = open[h].path /\ th'[t].cache = NoCache
           /\ th'[t].to = None
<1> DEFINE r == {t} \cup (IF open[h].cache = NoCache THEN open[h].reads ELSE {})
           s == [Idle EXCEPT !.pc = "fetch", !.handle = h, !.path = open[h].path]
           o == [open[h] EXCEPT !.cache = NoCache, !.reads = r]
<1>1. r \in SUBSET Threads /\ NoCache \in Caches /\ open \in [Handles -> Opens] /\ open[h] \in Opens
  BY Constants, Parts DEF Typed, OpensTyped
<1>2. open' = [open EXCEPT ![h] = o]
  BY <1>1 DEF ReadFile
<1>8. /\ o \in Opens /\ o.path = open[h].path /\ o.of = open[h].of /\ o.detached = open[h].detached
      /\ o.inode = open[h].inode /\ o.cache = NoCache /\ o.reads = r
  BY <1>1 DEF Opens
<1>3. /\ s \in Steps /\ s.pc = "fetch" /\ s.handle = h /\ s.path = open[h].path /\ s.cache = NoCache
      /\ s.to = None
  <2>1. open[h].path \in Paths \cup {None}
    BY Parts
  <2> QED
    BY <2>1, Constants DEF Steps, PCs
<1>4. th' = [th EXCEPT ![t] = s] /\ th \in [Threads -> Steps]
  BY DEF ReadFile, Typed, StepsTyped
<1>5. r \subseteq {t} \cup open[h].reads
  OBVIOUS
<1> HIDE DEF r, s, o
<1>6. /\ open' \in [Handles -> Opens] /\ open'[h] = o
      /\ \A k \in Handles \ {h} : open'[k] = open[k]
      /\ \A k \in Handles : /\ open'[k].path = open[k].path /\ open'[k].of = open[k].of
                            /\ open'[k].detached = open[k].detached /\ open'[k].inode = open[k].inode
  BY <1>2, <1>8, CacheEffect
<1>7. th' \in [Threads -> Steps] /\ th'[t] = s /\ \A u \in Threads \ {t} : th'[u] = th[u]
  BY <1>3, <1>4, ThreadEffect
<1> QED
  BY <1>3, <1>5, <1>6, <1>7, <1>8

LEMMA FetchEffect ==
    ASSUME Typed, NEW t \in Threads, Fetch(t)
    PROVE  /\ th[t].path \in Paths /\ th[t].handle \in Handles
           /\ th' \in [Threads -> Steps] /\ \A u \in Threads \ {t} : th'[u] = th[u]
           /\ \/ /\ overlay[th[t].path] = None /\ tree[th[t].path] # 0 /\ UNCHANGED open
                 /\ th'[t].pc = "keep" /\ th'[t].path = th[t].path /\ th'[t].handle = th[t].handle
                 /\ th'[t].cache = [gen |-> gen, is |-> tree[th[t].path]] /\ th'[t].to = th[t].to
              \/ /\ th'[t] = Idle /\ open' \in [Handles -> Opens]
                 /\ \A k \in Handles :
                      /\ open'[k].cache = open[k].cache /\ open'[k].path = open[k].path /\ open'[k].of = open[k].of
                      /\ open'[k].detached = open[k].detached /\ open'[k].inode = open[k].inode
                      /\ open'[k].reads \subseteq open[k].reads
<1>1. th[t].path \in Paths /\ th[t].handle \in Handles /\ th \in [Threads -> Steps] /\ th[t] \in Steps
  BY DEF Fetch, Typed, StepsTyped, GoodStep
<1>2. CASE overlay[th[t].path] = None /\ tree[th[t].path] # 0
  <2> DEFINE c == [gen |-> gen, is |-> tree[th[t].path]]
             s == [th[t] EXCEPT !.pc = "keep", !.cache = c]
  <2>1. c \in Caches
    BY <1>1 DEF Typed, BaseTyped, Caches
  <2>2. s \in Steps /\ s.pc = "keep" /\ s.path = th[t].path /\ s.handle = th[t].handle /\ s.cache = c
        /\ s.to = th[t].to
    BY <1>1, <2>1 DEF Steps, PCs
  <2>3. th' = [th EXCEPT ![t] = s] /\ UNCHANGED open
    BY <1>1, <1>2 DEF Fetch
  <2> HIDE DEF s
  <2> QED
    BY <1>1, <1>2, <2>2, <2>3, ThreadEffect
<1>3. CASE ~(overlay[th[t].path] = None /\ tree[th[t].path] # 0)
  <2> DEFINE h == th[t].handle
             o == [open[h] EXCEPT !.reads = open[h].reads \ {t}]
  <2>1. Done(t) /\ open' = [open EXCEPT ![h] = o]
    BY <1>3 DEF Fetch
  <2>2. open \in [Handles -> Opens] /\ open[h] \in Opens /\ open[h].reads \ {t} \in SUBSET Threads
    BY <1>1, Parts DEF Typed, OpensTyped
  <2>3. /\ o \in Opens /\ o.cache = open[h].cache /\ o.path = open[h].path /\ o.of = open[h].of
        /\ o.detached = open[h].detached /\ o.inode = open[h].inode /\ o.reads = open[h].reads \ {t}
    BY <2>2 DEF Opens
  <2> HIDE DEF h, o
  <2>4. open' \in [Handles -> Opens] /\ open'[h] = o /\ \A k \in Handles \ {h} : open'[k] = open[k]
    BY <1>1, <2>1, <2>2, <2>3 DEF h
  <2>5. \A k \in Handles :
          /\ open'[k].cache = open[k].cache /\ open'[k].path = open[k].path /\ open'[k].of = open[k].of
          /\ open'[k].detached = open[k].detached /\ open'[k].inode = open[k].inode
          /\ open'[k].reads \subseteq open[k].reads
    BY <2>3, <2>4
  <2> QED
    BY <1>1, <2>1, <2>4, <2>5, DoneEffect
<1> QED
  BY <1>2, <1>3

LEMMA KeepEffect ==
    ASSUME Typed, NEW t \in Threads, Keep(t)
    PROVE  LET h == th[t].handle IN
           /\ h \in Handles /\ th[t].path \in Paths /\ open' \in [Handles -> Opens]
           /\ open'[h].reads \subseteq open[h].reads
           /\ \/ open'[h].cache = open[h].cache
              \/ /\ open'[h].cache = th[t].cache /\ th[t].cache.gen = gen /\ open[h].cache.gen # gen
                 /\ t \in open[h].reads
           /\ \A k \in Handles \ {h} : open'[k] = open[k]
           /\ \A k \in Handles : /\ open'[k].path = open[k].path /\ open'[k].of = open[k].of
                                 /\ open'[k].detached = open[k].detached /\ open'[k].inode = open[k].inode
<1> DEFINE h == th[t].handle
           c == IF t \in open[h].reads /\ th[t].cache.gen = gen /\ open[h].cache.gen # gen
                THEN th[t].cache ELSE open[h].cache
           r == open[h].reads \ {t}
           o == [open[h] EXCEPT !.cache = c, !.reads = r]
<1>1. h \in Handles /\ th[t].path \in Paths
  BY DEF Keep, Typed, StepsTyped, GoodStep
<1>2. c \in Caches /\ r \in SUBSET Threads /\ open \in [Handles -> Opens] /\ open[h] \in Opens
  BY <1>1, Parts DEF Typed, OpensTyped
<1>3. open' = [open EXCEPT ![h].reads = open[h].reads \ {t}, ![h].cache = c]
  BY <1>1, <1>2 DEF Keep, Keeps
<1>4. open' = [open EXCEPT ![h] = [open[h] EXCEPT !.reads = r, !.cache = c]]
  BY <1>1, <1>2, <1>3
<1>5. [open[h] EXCEPT !.reads = r, !.cache = c] = [open[h] EXCEPT !.cache = c, !.reads = r]
  BY <1>1, <1>2 DEF Opens
<1>6. /\ r \subseteq open[h].reads
      /\ c = open[h].cache \/ (c = th[t].cache /\ th[t].cache.gen = gen /\ open[h].cache.gen # gen /\ t \in open[h].reads)
  OBVIOUS
<1>7. open' = [open EXCEPT ![h] = o]
  BY <1>4, <1>5
<1>9. /\ o \in Opens /\ o.path = open[h].path /\ o.of = open[h].of /\ o.detached = open[h].detached
      /\ o.inode = open[h].inode /\ o.cache = c /\ o.reads = r
  BY <1>2 DEF Opens
<1> HIDE DEF c, r, h, o
<1>8. /\ open' \in [Handles -> Opens] /\ open'[h] = o
      /\ \A k \in Handles \ {h} : open'[k] = open[k]
      /\ \A k \in Handles : /\ open'[k].path = open[k].path /\ open'[k].of = open[k].of
                            /\ open'[k].detached = open[k].detached /\ open'[k].inode = open[k].inode
  BY <1>1, <1>7, <1>9, CacheEffect
<1> QED
  BY <1>1, <1>6, <1>8, <1>9 DEF h

(* Every open file of the path gets the backing file. *)
LEMMA PinEffect ==
    ASSUME Typed, NEW t \in Threads, Pin(t)
    PROVE  LET p == IF th[t].pc = "pin" THEN th[t].path ELSE th[t].to IN
           /\ p \in Paths /\ open' \in [Handles -> Opens]
           /\ \A h \in Handles : /\ open'[h].path = open[h].path /\ open'[h].of = open[h].of
                                 /\ open'[h].detached = open[h].detached /\ open'[h].inode = open[h].inode
                                 /\ open'[h].reads = open[h].reads
           /\ \A h \in Handles :
                \/ open'[h] = open[h] /\ ~(overlay[p] > 0 /\ open[h].path = p /\ open[h].cache.gen # -1)
                \/ /\ overlay[p] > 0 /\ open[h].path = p /\ open[h].cache.gen # -1
                   /\ open'[h].cache = [gen |-> -1, is |-> overlay[p]]
<1> DEFINE p == IF th[t].pc = "pin" THEN th[t].path ELSE th[t].to
           c == [gen |-> -1, is |-> overlay[p]]
           Pinned(o) == [o EXCEPT !.cache = c]
<1>1. p \in Paths /\ open \in [Handles -> Opens]
  BY DEF Pin, Typed, StepsTyped, OpensTyped, GoodStep
<1>2. overlay[p] > 0 => c \in Caches
  <2>1. overlay[p] \in {Deleted, None} \cup 1 .. Len(files) /\ -1 \in -1 .. MaxHeads
    BY <1>1, Constants DEF Typed, BaseTyped
  <2> HIDE DEF p
  <2> QED
    BY <2>1 DEF Caches, Deleted, None
<1>3. open' = [h \in Handles |-> IF overlay[p] > 0 /\ open[h].path = p /\ open[h].cache.gen # -1
                                 THEN Pinned(open[h]) ELSE open[h]]
  BY DEF Pin, OpenAt
<1>4. ASSUME NEW o \in Opens, overlay[p] > 0
      PROVE  /\ Pinned(o) \in Opens /\ Pinned(o).cache = c /\ Pinned(o).path = o.path /\ Pinned(o).of = o.of
             /\ Pinned(o).detached = o.detached /\ Pinned(o).inode = o.inode /\ Pinned(o).reads = o.reads
  BY <1>2, <1>4 DEF Opens
<1>5. \A h \in Handles : open[h] \in Opens
  BY <1>1
<1> HIDE DEF p, c, Pinned
<1> QED
  BY <1>1, <1>3, <1>4, <1>5 DEF p, c

LEMMA RemoveEffect ==
    ASSUME Typed, NEW t \in Threads, Remove(t)
    PROVE  /\ th[t].path \in Paths /\ open' \in [Handles -> Opens]
           /\ \A h \in Handles : /\ open'[h].path = open[h].path /\ open'[h].of = open[h].of
                                 /\ open'[h].cache = open[h].cache /\ open'[h].inode = open[h].inode
                                 /\ open'[h].reads = open[h].reads
           /\ \A h \in Handles : \/ open[h].path = th[t].path /\ open'[h].detached
                                 \/ open[h].path # th[t].path /\ open'[h] = open[h]
<1> DEFINE p == th[t].path
           Gone(o) == [o EXCEPT !.detached = TRUE]
<1>1. p \in Paths /\ open \in [Handles -> Opens]
  BY DEF Remove, Typed, StepsTyped, OpensTyped, GoodStep
<1>2. open' = [h \in Handles |-> IF open[h].path = p THEN Gone(open[h]) ELSE open[h]]
  BY DEF Remove, OpenAt
<1>3. ASSUME NEW o \in Opens
      PROVE  /\ Gone(o) \in Opens /\ Gone(o).cache = o.cache /\ Gone(o).path = o.path /\ Gone(o).of = o.of
             /\ Gone(o).detached /\ Gone(o).inode = o.inode /\ Gone(o).reads = o.reads
  BY <1>3 DEF Opens
<1>4. \A h \in Handles : open[h] \in Opens
  BY <1>1
<1> HIDE DEF Gone
<1> QED
  BY <1>1, <1>2, <1>3, <1>4

LEMMA RenamedEffect ==
    ASSUME Typed, NEW t \in Threads, th[t].pc = "rename", Renamed(t)
    PROVE  LET p == th[t].path  q == th[t].to IN
           /\ p \in Paths /\ q \in Paths /\ p # q /\ open' \in [Handles -> Opens]
           /\ \A h \in Handles : /\ open'[h].of = open[h].of /\ open'[h].cache = open[h].cache
                                 /\ open'[h].inode = open[h].inode /\ open'[h].reads = open[h].reads
           /\ \A h \in Handles :
                \/ open[h].path = q /\ open'[h].path = q /\ open'[h].detached
                \/ open[h].path = p /\ open'[h].path = q /\ open'[h].detached = open[h].detached
                \/ open[h].path \notin {p, q} /\ open'[h] = open[h]
<1> DEFINE p == th[t].path
           q == th[t].to
           Gone(o) == [o EXCEPT !.detached = TRUE]
           Moved(o) == [o EXCEPT !.path = q]
<1>1. p \in Paths /\ q \in Paths /\ p # q /\ open \in [Handles -> Opens]
  BY DEF Typed, StepsTyped, OpensTyped, GoodStep
<1>2. open' = [h \in Handles |-> CASE open[h].path = q -> Gone(open[h])
                                   [] open[h].path = p -> Moved(open[h])
                                   [] OTHER            -> open[h]]
  <2>1. \A h \in Handles : /\ (h \in OpenAt(q)) = (open[h].path = q)
                           /\ (h \in OpenAt(p)) = (open[h].path = p)
    BY DEF OpenAt
  <2>2. open' = [h \in Handles |-> CASE h \in OpenAt(q) -> Gone(open[h])
                                     [] h \in OpenAt(p) -> Moved(open[h])
                                     [] OTHER           -> open[h]]
    BY DEF Renamed
  <2> HIDE DEF p, q, Gone, Moved
  <2> QED
    BY <2>1, <2>2, <1>1
<1>3. ASSUME NEW o \in Opens
      PROVE  /\ Gone(o) \in Opens /\ Gone(o).cache = o.cache /\ Gone(o).path = o.path /\ Gone(o).of = o.of
             /\ Gone(o).detached /\ Gone(o).inode = o.inode /\ Gone(o).reads = o.reads
             /\ Moved(o) \in Opens /\ Moved(o).cache = o.cache /\ Moved(o).path = q /\ Moved(o).of = o.of
             /\ Moved(o).detached = o.detached /\ Moved(o).inode = o.inode /\ Moved(o).reads = o.reads
  BY <1>1, <1>3 DEF Opens
<1>4. \A h \in Handles : open[h] \in Opens
  BY <1>1
<1> HIDE DEF p, q, Gone, Moved
<1>5. ASSUME NEW h \in Handles
      PROVE  \/ open[h].path = q /\ open'[h] = Gone(open[h])
             \/ open[h].path = p /\ open'[h] = Moved(open[h])
             \/ open[h].path \notin {p, q} /\ open'[h] = open[h]
  BY <1>1, <1>2
<1>6. \A h \in Handles : open'[h] \in Opens
  BY <1>3, <1>4, <1>5
<1>7. open' = [h \in Handles |-> open'[h]]
  BY <1>2
<1> QED
  BY <1>1, <1>3, <1>4, <1>5, <1>6, <1>7 DEF p, q

LEMMA OpensStep == ASSUME Typed, [Next]_vars PROVE OpensTyped'
<1> DEFINE Held(o) == (o # Closed => o.path \in Paths) /\ Good(o.cache, gen, Len(files))
<1>1. /\ gen <= gen' /\ Len(files) <= Len(files') /\ gen \in Nat /\ Len(files) \in Nat
      /\ gen' \in Nat /\ Len(files') \in Nat
  BY BaseStep
<1>2. open \in [Handles -> Opens] /\ \A h \in Handles : open[h] \in Opens /\ Held(open[h])
  BY DEF Typed, OpensTyped
<1>3. ASSUME open' \in [Handles -> Opens], \A h \in Handles : Held(open'[h])
      PROVE  OpensTyped'
  <2>1. ASSUME NEW h \in Handles
        PROVE  (open'[h] # Closed => open'[h].path \in Paths) /\ Good(open'[h].cache, gen', Len(files'))
    <3>1. open'[h].cache.gen <= gen /\ (open'[h].cache.gen = -1 => open'[h].cache.is \in 1 .. Len(files))
      BY <1>3 DEF Good
    <3>2. open'[h].cache.gen \in -1 .. MaxHeads /\ open'[h].cache.is \in Nat
      <4>1. open'[h].cache \in Caches
        BY <1>3 DEF Opens
      <4> QED
        BY <4>1 DEF Caches
    <3>3. Good(open'[h].cache, gen', Len(files'))
      BY <1>1, <3>1, <3>2, Constants DEF Good
    <3> QED
      BY <1>3, <3>3
  <2> QED
    BY <1>3, <2>1 DEF OpensTyped
<1>4. Good(NoCache, gen, Len(files)) /\ NoCache \in Caches /\ Held(Closed)
  BY <1>1, Constants DEF Good
<1>5. \A p \in Paths : p # None
  BY Constants
<1>6. \A o \in Opens : o.path \in Paths => o # Closed
  BY Constants
<1>7. ASSUME NEW p \in Paths, NEW i \in 0 .. MaxInodes, NEW c \in Caches, Good(c, gen, Len(files)), Adds(p, i, c)
      PROVE  OpensTyped'
  <2>1. PICK h \in Handles : /\ open' \in [Handles -> Opens] /\ \A k \in Handles \ {h} : open'[k] = open[k]
                             /\ open'[h].path = p /\ open'[h].cache = c
    BY <1>7, AddsEffect
  <2>2. \A k \in Handles : Held(open'[k])
    BY <1>2, <1>7, <2>1
  <2> QED
    BY <1>3, <2>1, <2>2
<1>8. ASSUME NEW p \in Paths, CreateFile(p) PROVE OpensTyped'
  <2>1. PICK i \in 1 .. MaxInodes : Adds(p, i, NoCache)
    BY <1>8 DEF CreateFile
  <2> QED
    BY <1>4, <1>7, <2>1, Constants
<1>9. ASSUME NEW h \in Handles, ReleaseFileHandle(h) PROVE OpensTyped'
  <2>1. open' = [open EXCEPT ![h] = Closed]
    BY <1>9 DEF ReleaseFileHandle
  <2>2. open' \in [Handles -> Opens] /\ \A k \in Handles : open'[k] = open[k] \/ open'[k] = Closed
    BY <1>2, <2>1, Constants
  <2> QED
    BY <1>2, <1>3, <1>4, <2>2
<1>10. ASSUME NEW p \in Paths, CloseCached(p) PROVE OpensTyped'
  <2>1. /\ open' \in [Handles -> Opens]
        /\ \A h \in Handles : \/ open'[h] = open[h]
                              \/ open'[h].cache = NoCache /\ open'[h].path = p
    BY <1>10, CloseEffect
  <2> QED
    BY <1>2, <1>3, <1>4, <2>1
<1>11. ASSUME NEW t \in Threads PROVE /\ \A i \in 1 .. MaxInodes : Truncate(t, i) => OpensTyped'
                                      /\ \A h \in Handles : WriteFile(t, h) => OpensTyped'
                                      /\ Close(t) => OpensTyped'
  <2>1. ASSUME NEW i \in 1 .. MaxInodes, Truncate(t, i) PROVE OpensTyped'
    BY <1>10, <2>1, Parts DEF Truncate, Usable, Typed, InodesTyped
  <2>2. ASSUME NEW h \in Handles, WriteFile(t, h) PROVE OpensTyped'
    BY <1>2, <1>10, <2>2 DEF WriteFile
  <2>3. ASSUME Close(t) PROVE OpensTyped'
    BY <1>10, <2>3 DEF Close, Typed, StepsTyped, GoodStep
  <2> QED
    BY <2>1, <2>2, <2>3
<1>12. ASSUME NEW t \in Threads, NEW h \in Handles, ReadFile(t, h) PROVE OpensTyped'
  <2>1. open[h].path \in Paths
    BY <1>2, <1>12 DEF ReadFile
  <2>2. \A k \in Handles : (open'[k].path \in Paths /\ open'[k].cache = NoCache) \/ open'[k] = open[k]
    BY <1>12, <2>1, ReadEffect
  <2>3. open' \in [Handles -> Opens]
    BY <1>12, ReadEffect
  <2> QED
    BY <1>2, <1>3, <1>4, <2>2, <2>3
<1>13. ASSUME NEW n \in Opens, n.path = Closed.path, n.of = Closed.of, n.detached = Closed.detached,
              n.inode = Closed.inode, n.cache = Closed.cache, n.reads \subseteq Closed.reads
       PROVE  n = Closed
  BY <1>13, Constants DEF Opens, Closed
<1>14. ASSUME NEW t \in Threads, Fetch(t) PROVE OpensTyped'
  <2>1. CASE UNCHANGED open
    BY <1>2, <1>3, <2>1
  <2>2. CASE ~UNCHANGED open
    <3>1. /\ open' \in [Handles -> Opens]
          /\ \A k \in Handles :
               /\ open'[k].cache = open[k].cache /\ open'[k].path = open[k].path /\ open'[k].of = open[k].of
               /\ open'[k].detached = open[k].detached /\ open'[k].inode = open[k].inode
               /\ open'[k].reads \subseteq open[k].reads
      BY <1>14, <2>2, FetchEffect
    <3>2. \A k \in Handles : Held(open'[k])
      BY <1>2, <1>13, <3>1
    <3> QED
      BY <1>3, <3>1, <3>2
  <2> QED
    BY <2>1, <2>2
<1>15. ASSUME NEW t \in Threads, Keep(t) PROVE OpensTyped'
  <2> DEFINE h == th[t].handle
  <2>1. /\ h \in Handles /\ open' \in [Handles -> Opens] /\ open'[h].reads \subseteq open[h].reads
        /\ \/ open'[h].cache = open[h].cache
           \/ open'[h].cache = th[t].cache /\ t \in open[h].reads
        /\ \A k \in Handles \ {h} : open'[k] = open[k]
        /\ open'[h].path = open[h].path /\ open'[h].of = open[h].of
        /\ open'[h].detached = open[h].detached /\ open'[h].inode = open[h].inode
    BY <1>15, KeepEffect
  <2>2. Good(th[t].cache, gen, Len(files)) /\ Closed.reads = {}
    BY Constants DEF Typed, StepsTyped, GoodStep
  <2> HIDE DEF h
  <2>3. Good(open'[h].cache, gen, Len(files))
    BY <1>2, <2>1, <2>2
  <2>4. open'[h] # Closed => open'[h].path \in Paths
    <3>1. CASE open[h] = Closed
      BY <1>13, <2>1, <2>2, <3>1
    <3>2. CASE open[h] # Closed
      BY <1>2, <2>1, <3>2
    <3> QED
      BY <3>1, <3>2
  <2>5. \A k \in Handles : Held(open'[k])
    BY <1>2, <2>1, <2>3, <2>4
  <2> QED
    BY <1>3, <2>1, <2>5
<1>16. ASSUME NEW t \in Threads, Pin(t) PROVE OpensTyped'
  <2> DEFINE p == IF th[t].pc = "pin" THEN th[t].path ELSE th[t].to
  <2>1. /\ p \in Paths /\ open' \in [Handles -> Opens]
        /\ \A h \in Handles : open'[h].path = open[h].path
        /\ \A h \in Handles :
             \/ open'[h] = open[h]
             \/ overlay[p] > 0 /\ open[h].path = p /\ open'[h].cache = [gen |-> -1, is |-> overlay[p]]
    BY <1>16, PinEffect
  <2> HIDE DEF p
  <2>2. overlay[p] > 0 => Good([gen |-> -1, is |-> overlay[p]], gen, Len(files))
    <3>1. overlay[p] \in {Deleted, None} \cup 1 .. Len(files)
      BY <2>1 DEF Typed, BaseTyped
    <3> QED
      BY <1>1, <3>1 DEF Good, Deleted, None
  <2>3. \A k \in Handles : Held(open'[k])
    BY <1>2, <2>1, <2>2
  <2> QED
    BY <1>3, <2>1, <2>3
<1>17. ASSUME NEW t \in Threads, Remove(t) PROVE OpensTyped'
  <2>1. /\ th[t].path \in Paths /\ open' \in [Handles -> Opens]
        /\ \A h \in Handles : open'[h].path = open[h].path /\ open'[h].cache = open[h].cache
        /\ \A h \in Handles : open[h].path = th[t].path \/ open'[h] = open[h]
    BY <1>17, RemoveEffect
  <2>2. \A k \in Handles : Held(open'[k])
    BY <1>2, <2>1
  <2> QED
    BY <1>3, <2>1, <2>2
<1>18. ASSUME NEW t \in Threads, Move(t) PROVE OpensTyped'
  <2>1. th[t].pc = "rename" /\ (Renamed(t) \/ UNCHANGED open)
    BY <1>18 DEF Move, RenameAgain
  <2>2. CASE Renamed(t)
    <3>1. /\ th[t].to \in Paths /\ open' \in [Handles -> Opens]
          /\ \A h \in Handles : open'[h].cache = open[h].cache
          /\ \A h \in Handles : open'[h].path = th[t].to \/ open'[h] = open[h]
      BY <2>1, <2>2, RenamedEffect
    <3>2. \A k \in Handles : Held(open'[k])
      BY <1>2, <3>1
    <3> QED
      BY <1>3, <3>1, <3>2
  <2>3. CASE UNCHANGED open
    BY <1>2, <1>3, <2>3
  <2> QED
    BY <2>1, <2>2, <2>3
<1>19. ASSUME NEW t \in Threads, Register(t) PROVE OpensTyped'
  <2>1. /\ th[t].path \in Paths /\ th[t].inode \in 0 .. MaxInodes /\ th[t].cache \in Caches
        /\ Good(th[t].cache, gen, Len(files)) /\ Adds(th[t].path, th[t].inode, th[t].cache)
    BY <1>19, Parts DEF Register, Typed, StepsTyped, GoodStep
  <2> QED
    BY <1>7, <2>1
<1>20. CASE UNCHANGED open
  BY <1>2, <1>3, <1>20
<1> QED
  BY Frames, <1>8, <1>9, <1>11, <1>12, <1>14, <1>15, <1>16, <1>17, <1>18, <1>19, <1>20

LEMMA StepsStep == ASSUME Typed, [Next]_vars PROVE StepsTyped'
<1>1. /\ gen <= gen' /\ Len(files) <= Len(files') /\ gen \in Nat /\ Len(files) \in Nat
      /\ gen' \in Nat /\ Len(files') \in Nat
  BY BaseStep
<1>2. th \in [Threads -> Steps] /\ \A t \in Threads : th[t] \in Steps /\ GoodStep(th[t], gen, Len(files))
  BY DEF Typed, StepsTyped
<1>3. ASSUME th' \in [Threads -> Steps], \A t \in Threads : GoodStep(th'[t], gen, Len(files))
      PROVE  StepsTyped'
  <2>1. ASSUME NEW t \in Threads PROVE GoodStep(th'[t], gen', Len(files'))
    <3>1. th'[t].cache.gen \in -1 .. MaxHeads /\ th'[t].cache.is \in Nat
      <4>1. th'[t].cache \in Caches
        BY <1>3 DEF Steps
      <4> QED
        BY <4>1 DEF Caches
    <3>2. GoodStep(th'[t], gen, Len(files))
      BY <1>3
    <3>3. Good(th'[t].cache, gen', Len(files'))
      BY <1>1, <3>1, <3>2, Constants DEF Good, GoodStep
    <3> QED
      BY <3>2, <3>3 DEF GoodStep
  <2> QED
    BY <1>3, <2>1 DEF StepsTyped
<1>4. Good(NoCache, gen, Len(files)) /\ NoCache \in Caches /\ GoodStep(Idle, gen, Len(files)) /\ Idle \in Steps
  BY <1>1, Constants DEF Good, GoodStep
<1>5. ASSUME NEW t \in Threads, th' \in [Threads -> Steps], \A u \in Threads \ {t} : th'[u] = th[u],
             GoodStep(th'[t], gen, Len(files))
      PROVE  StepsTyped'
  BY <1>2, <1>3, <1>5
<1>6. ASSUME NEW t \in Threads, Done(t) PROVE StepsTyped'
  BY <1>4, <1>5, <1>6, DoneEffect
<1>7. ASSUME NEW t \in Threads, NEW pc \in PCs, Goes(t, pc), th[t].path \in Paths, th[t].to # th[t].path,
             pc \notin {"fetch", "keep"}, pc \in {"ensure2", "pin2", "rename"} => th[t].to \in Paths
      PROVE  StepsTyped'
  <2>1. /\ th' \in [Threads -> Steps] /\ \A u \in Threads \ {t} : th'[u] = th[u]
        /\ th'[t].pc = pc /\ th'[t].path = th[t].path /\ th'[t].to = th[t].to /\ th'[t].cache = th[t].cache
    BY <1>7, GoesEffect
  <2>2. Good(th[t].cache, gen, Len(files))
    BY <1>2 DEF GoodStep
  <2>3. GoodStep(th'[t], gen, Len(files))
    BY <1>7, <2>1, <2>2 DEF GoodStep
  <2> QED
    BY <1>5, <2>1, <2>3
<1>8. ASSUME NEW t \in Threads, NEW s \in Steps, th' = [th EXCEPT ![t] = s], s.path \in Paths, s.to = None,
             s.pc \notin {"fetch", "keep", "ensure2", "pin2", "rename"}, Good(s.cache, gen, Len(files))
      PROVE  StepsTyped'
  <2>1. GoodStep(s, gen, Len(files))
    BY <1>8, Constants DEF GoodStep
  <2> QED
    BY <1>2, <1>5, <1>8, <2>1, ThreadEffect
<1>9. \A h \in Handles : open[h] # Closed => open[h].path \in Paths
  BY DEF Typed, OpensTyped
<1>10. \A i \in 1 .. MaxInodes : Usable(i) => inodes[i].path \in Paths
  BY Parts DEF Usable, Typed, InodesTyped
<1>11. ASSUME NEW t \in Threads, NEW i \in 1 .. MaxInodes, OpenFile(t, i) PROVE StepsTyped'
  <2> DEFINE p == inodes[i].path
             c == IF overlay[p] > 0 THEN [gen |-> -1, is |-> overlay[p]] ELSE [gen |-> gen, is |-> tree[p]]
             s == [Idle EXCEPT !.pc = "register", !.path = p, !.inode = i, !.cache = c]
  <2>1. p \in Paths /\ i \in 0 .. MaxInodes
    BY <1>10, <1>11, Constants DEF OpenFile
  <2>2. c \in Caches /\ Good(c, gen, Len(files))
    <3>1. /\ overlay[p] \in {Deleted, None} \cup 1 .. Len(files) /\ tree[p] \in Nat /\ gen \in 1 .. MaxHeads
          /\ -1 \in -1 .. MaxHeads /\ gen \in -1 .. MaxHeads
      BY <2>1, Constants DEF Typed, BaseTyped
    <3> HIDE DEF p
    <3> QED
      BY <1>1, <3>1 DEF Caches, Good, Deleted, None
  <2> HIDE DEF c
  <2>3. s \in Steps /\ s.path = p /\ s.pc = "register" /\ s.to = None /\ s.cache = c
    BY <2>1, <2>2, Constants DEF Steps, PCs
  <2>4. th' = [th EXCEPT ![t] = s]
    BY <1>11 DEF OpenFile, c
  <2> HIDE DEF s
  <2> QED
    BY <1>8, <2>1, <2>2, <2>3, <2>4
<1>12. ASSUME NEW t \in Threads, NEW i \in 1 .. MaxInodes, Truncate(t, i) PROVE StepsTyped'
  <2> DEFINE s == [Idle EXCEPT !.pc = "write", !.path = inodes[i].path, !.inode = i]
  <2>1. inodes[i].path \in Paths /\ i \in 0 .. MaxInodes
    BY <1>10, <1>12, Constants DEF Truncate
  <2>2. s \in Steps /\ s.path = inodes[i].path /\ s.pc = "write" /\ s.to = None /\ s.cache = NoCache
    BY <2>1, Constants DEF Steps, PCs
  <2>3. th' = [th EXCEPT ![t] = s]
    BY <1>12 DEF Truncate
  <2> HIDE DEF s
  <2> QED
    BY <1>4, <1>8, <2>1, <2>2, <2>3
<1>13. ASSUME NEW t \in Threads, NEW h \in Handles, WriteFile(t, h) PROVE StepsTyped'
  <2> DEFINE s == [Idle EXCEPT !.pc = "write", !.handle = h, !.path = open[h].path, !.make = TRUE]
  <2>1. open[h].path \in Paths
    BY <1>9, <1>13 DEF WriteFile
  <2>2. s \in Steps /\ s.path = open[h].path /\ s.pc = "write" /\ s.to = None /\ s.cache = NoCache
    BY <2>1, Constants DEF Steps, PCs
  <2>3. th' = [th EXCEPT ![t] = s]
    BY <1>13 DEF WriteFile
  <2> HIDE DEF s
  <2> QED
    BY <1>4, <1>8, <2>1, <2>2, <2>3
<1>14. ASSUME NEW t \in Threads, NEW h \in Handles, ReadFile(t, h) PROVE StepsTyped'
  <2>1. open[h].path \in Paths
    BY <1>9, <1>14 DEF ReadFile
  <2>2. /\ th' \in [Threads -> Steps] /\ \A u \in Threads \ {t} : th'[u] = th[u]
        /\ th'[t].pc = "fetch" /\ th'[t].handle = h /\ th'[t].path = open[h].path /\ th'[t].cache = NoCache
        /\ th'[t].to = None
    BY <1>14, ReadEffect
  <2>3. GoodStep(th'[t], gen, Len(files))
    BY <1>4, <2>1, <2>2, Constants DEF GoodStep
  <2> QED
    BY <1>5, <2>2, <2>3
<1>15. ASSUME NEW t \in Threads, Register(t) \/ Keep(t) \/ Close(t) \/ Remove(t) PROVE StepsTyped'
  BY <1>6, <1>15 DEF Register, Keep, Close, Remove
<1>16. ASSUME NEW t \in Threads, Fetch(t) PROVE StepsTyped'
  <2>1. /\ th' \in [Threads -> Steps] /\ \A u \in Threads \ {t} : th'[u] = th[u]
        /\ th[t].path \in Paths /\ th[t].handle \in Handles
        /\ \/ th'[t] = Idle
           \/ /\ th'[t].pc = "keep" /\ th'[t].path = th[t].path /\ th'[t].handle = th[t].handle
              /\ th'[t].cache = [gen |-> gen, is |-> tree[th[t].path]] /\ th'[t].to = th[t].to
    BY <1>16, FetchEffect
  <2>2. th[t].to # th[t].path
    BY <1>2, <1>16 DEF Fetch, GoodStep
  <2>3. Good([gen |-> gen, is |-> tree[th[t].path]], gen, Len(files))
    BY <1>1 DEF Good
  <2>4. GoodStep(th'[t], gen, Len(files))
    BY <1>4, <2>1, <2>2, <2>3 DEF GoodStep
  <2> QED
    BY <1>5, <2>1, <2>4
<1>17. ASSUME NEW t \in Threads, Write(t) PROVE StepsTyped'
  <2>1. Done(t) \/ Goes(t, "close")
    BY <1>17 DEF Write
  <2>2. th[t].path \in Paths /\ th[t].to # th[t].path /\ "close" \in PCs
    BY <1>2, <1>17 DEF Write, GoodStep, PCs
  <2> QED
    BY <1>6, <1>7, <2>1, <2>2
<1>18. ASSUME NEW t \in Threads, NEW p \in Paths, NEW q \in Paths, Unlink(t, p) \/ Rename(t, p, q) PROVE StepsTyped'
  <2>1. PICK r \in {None, q} : p # r /\ th' = [th EXCEPT ![t] = [Idle EXCEPT !.pc = "ensure", !.path = p, !.to = r]]
    <3>1. CASE Unlink(t, p)
      <4>1. [Idle EXCEPT !.pc = "ensure", !.path = p] = [Idle EXCEPT !.pc = "ensure", !.path = p, !.to = None]
        BY Constants DEF Idle, None
      <4> QED
        BY <3>1, <4>1, Constants DEF Unlink
    <3>2. CASE Rename(t, p, q)
      BY <3>2 DEF Rename
    <3> QED
      BY <1>18, <3>1, <3>2
  <2> DEFINE s == [Idle EXCEPT !.pc = "ensure", !.path = p, !.to = r]
  <2>2. s \in Steps /\ s.path = p /\ s.pc = "ensure" /\ s.to = r /\ s.cache = NoCache
    BY <2>1, Constants DEF Steps, PCs
  <2>3. GoodStep(s, gen, Len(files))
    BY <1>4, <2>1, <2>2 DEF GoodStep
  <2> HIDE DEF s
  <2> QED
    BY <1>2, <1>5, <2>1, <2>2, <2>3, ThreadEffect DEF s
<1>19. ASSUME NEW t \in Threads, Ensure(t) PROVE StepsTyped'
  <2>1. \/ Done(t)
        \/ Goes(t, "pin") /\ th[t].pc # "idle"
        \/ Goes(t, "pin2") /\ th[t].pc = "ensure2"
    BY <1>19 DEF Ensure
  <2>2. {"pin", "pin2"} \subseteq PCs
    BY DEF PCs
  <2> QED
    BY <1>2, <1>6, <1>7, <2>1, <2>2 DEF GoodStep
<1>20. ASSUME NEW t \in Threads, Pin(t) PROVE StepsTyped'
  <2>1. /\ th[t].path \in Paths /\ th[t].to # th[t].path /\ th[t].to \in Paths \cup {None}
        /\ th[t].pc = "pin2" => th[t].to \in Paths
    BY <1>2, <1>20, Parts DEF Pin, GoodStep
  <2>2. \/ Goes(t, "remove")
        \/ th[t].to # None /\ (Goes(t, "ensure2") \/ Goes(t, "rename"))
    BY <1>20 DEF Pin, AfterPin
  <2>3. {"remove", "ensure2", "rename"} \subseteq PCs
    BY DEF PCs
  <2> QED
    BY <1>7, <2>1, <2>2, <2>3
<1>21. ASSUME NEW t \in Threads, Move(t) PROVE StepsTyped'
  <2>1. Done(t) \/ UNCHANGED th
    BY <1>21 DEF Move, Renamed, Ends, RenameAgain
  <2> QED
    BY <1>2, <1>3, <1>6, <2>1
<1>22. CASE UNCHANGED th
  BY <1>2, <1>3, <1>22
<1> QED
  BY Frames, <1>11, <1>12, <1>13, <1>14, <1>15, <1>16, <1>17, <1>18, <1>19, <1>20, <1>21, <1>22

(* Whatever comes between the steps of an operation, the state is well formed: *)
(* the entries of the overlay and the descriptors of open files are of files  *)
(* that exist, no two paths are the same file, and a path's inode is in use   *)
(* (allocInode, ForgetInode, pinOpenHandles, moveInodePath).                  *)
THEOREM TypeCorrect == Spec => []TypeOK
<1>1. Init => Typed
  BY InitTyped
<1>2. Typed /\ [Next]_vars => Typed'
  BY BaseStep, InodesStep, OpensStep, StepsStep DEF Typed
<1>3. Typed => TypeOK
  BY TypedIsTypeOK
<1> QED
  BY <1>1, <1>2, <1>3, PTL DEF Spec

-----------------------------------------------------------------------------
(* Files *)

(* Unlink and Rename have handleOps to themselves. *)
AloneInv == \A t \in Threads : th[t].pc \in Named => \A u \in Threads \ {t} : th[u].pc = "idle"

(* What a thread that is not alone can count on. *)
OnTrack(t) ==
      /\ th[t].pc \in {"fetch", "keep"} => /\ open[th[t].handle].path = th[t].path
                                           /\ ~open[th[t].handle].detached
      /\ th[t].pc = "write" /\ th[t].make => Visible(th[t].path)
      /\ th[t].pc = "register" => /\ Visible(th[t].path)
                                  /\ th[t].cache.gen = -1 => files[th[t].cache.is].of = ids[th[t].path]
      /\ th[t].pc = "keep" => th[t].cache.gen > 0

StepInv == \A t \in Threads : OnTrack(t)

(* And what one that is alone has done. *)
NameInv ==
    \A t \in Threads : th[t].pc \in Named =>
      /\ Visible(th[t].path)
      /\ th[t].pc # "ensure" => overlay[th[t].path] > 0
      /\ th[t].pc = "ensure2" => Visible(th[t].to)
      /\ th[t].pc = "pin2" => overlay[th[t].to] > 0
      /\ th[t].pc = "remove" => \A h \in OpenAt(th[t].path) : open[h].cache.gen = -1
      /\ th[t].pc = "rename" => \A h \in OpenAt(th[t].to) : open[h].cache.gen = -1

(* A backing file is the file of its path, and an open file has its own. *)
FileInv == \A p \in Paths : overlay[p] > 0 => files[overlay[p]].of = ids[p]

HasFile(h) ==
      /\ open[h].path \in Paths /\ ~open[h].detached => Visible(open[h].path) /\ ids[open[h].path] = open[h].of
      /\ open[h].cache.gen = -1 => files[open[h].cache.is].of = open[h].of
      /\ open[h].detached => open[h].cache.gen = -1

OpenInv == \A h \in Handles : HasFile(h)

FilesInv == Typed /\ AloneInv /\ StepInv /\ NameInv /\ FileInv /\ OpenInv

-----------------------------------------------------------------------------

ActsOf(t) ==
    \/ \E i \in 1 .. MaxInodes : OpenFile(t, i) \/ Truncate(t, i)
    \/ \E h \in Handles : ReadFile(t, h) \/ WriteFile(t, h)
    \/ Register(t) \/ Fetch(t) \/ Keep(t) \/ Write(t) \/ Close(t)
    \/ \E p, q \in Paths : Unlink(t, p) \/ Rename(t, p, q)
    \/ Ensure(t) \/ Pin(t) \/ Remove(t) \/ Move(t)

(* A thread takes its own steps. *)
LEMMA OthersStay ==
    ASSUME Typed, NEW t \in Threads, ActsOf(t)
    PROVE  \A u \in Threads \ {t} : th'[u] = th[u]
<1> DEFINE Stay == \A u \in Threads \ {t} : th'[u] = th[u]
<1>1. th \in [Threads -> Steps]
  BY DEF Typed, StepsTyped
<1>2. ASSUME NEW s, th' = [th EXCEPT ![t] = s] PROVE Stay
  BY <1>1, <1>2
<1>3. ASSUME NEW i \in 1 .. MaxInodes, OpenFile(t, i) PROVE Stay
  BY <1>2, <1>3 DEF OpenFile
<1>4. ASSUME NEW i \in 1 .. MaxInodes, Truncate(t, i) PROVE Stay
  BY <1>2, <1>4 DEF Truncate
<1>5. ASSUME NEW h \in Handles, ReadFile(t, h) \/ WriteFile(t, h) PROVE Stay
  BY <1>2, <1>5 DEF ReadFile, WriteFile
<1>6. ASSUME NEW p \in Paths, NEW q \in Paths, Unlink(t, p) \/ Rename(t, p, q) PROVE Stay
  BY <1>2, <1>6 DEF Unlink, Rename
<1>7. CASE Fetch(t)
  BY <1>7, FetchEffect
<1>8. CASE \/ Register(t) \/ Keep(t) \/ Write(t) \/ Close(t) \/ Ensure(t) \/ Pin(t) \/ Remove(t) \/ Move(t)
  <2>1. UNCHANGED th \/ Done(t) \/ \E pc : Goes(t, pc)
    BY <1>8 DEF Register, Keep, Write, Close, Ensure, Pin, AfterPin, Remove, Move, Renamed, Ends, RenameAgain
  <2> QED
    BY <1>1, <2>1 DEF Done, Goes
<1> QED
  BY <1>3, <1>4, <1>5, <1>6, <1>7, <1>8 DEF ActsOf

(* The steps that share handleOps. *)
SharedBy(t) ==
    \/ \E i \in 1 .. MaxInodes : OpenFile(t, i) \/ Truncate(t, i)
    \/ \E h \in Handles : ReadFile(t, h) \/ WriteFile(t, h)
    \/ Register(t) \/ Fetch(t) \/ Keep(t) \/ Write(t) \/ Close(t)

LEMMA SharedSteps ==
    ASSUME Typed, NEW t \in Threads, SharedBy(t)
    PROVE  /\ th'[t].pc \notin Named
           /\ th[t].pc \notin Named /\ (th[t].pc = "idle" => ~Excluded)
<1> DEFINE Shared == /\ th'[t].pc \notin Named
                     /\ th[t].pc \notin Named /\ (th[t].pc = "idle" => ~Excluded)
<1>1. th \in [Threads -> Steps]
  BY DEF Typed, StepsTyped
<1>2. CASE \/ \E i \in 1 .. MaxInodes : OpenFile(t, i) \/ Truncate(t, i)
           \/ \E h \in Handles : ReadFile(t, h) \/ WriteFile(t, h)
  <2> DEFINE From(s) == th' = [th EXCEPT ![t] = s] /\ s.pc \in {"register", "write", "fetch"} /\ Shares(t)
  <2>1. PICK s : From(s)
    <3>1. ASSUME NEW i \in 1 .. MaxInodes, OpenFile(t, i) PROVE \E s : From(s)
      <4> DEFINE p == inodes[i].path
                 n == [Idle EXCEPT !.pc = "register", !.path = p, !.inode = i, !.cache =
                         IF overlay[p] > 0 THEN [gen |-> -1, is |-> overlay[p]] ELSE [gen |-> gen, is |-> tree[p]]]
      <4>1. th' = [th EXCEPT ![t] = n] /\ Shares(t)
        BY <3>1 DEF OpenFile
      <4>2. n.pc = "register"
        BY DEF Idle
      <4> QED
        BY <4>1, <4>2
    <3>2. ASSUME NEW i \in 1 .. MaxInodes, Truncate(t, i) PROVE \E s : From(s)
      BY <3>2 DEF Truncate, Idle
    <3>3. ASSUME NEW h \in Handles, ReadFile(t, h) PROVE \E s : From(s)
      BY <3>3 DEF ReadFile, Idle
    <3>4. ASSUME NEW h \in Handles, WriteFile(t, h) PROVE \E s : From(s)
      BY <3>4 DEF WriteFile, Idle
    <3> QED
      BY <1>2, <3>1, <3>2, <3>3, <3>4
  <2>2. th'[t] = s
    BY <1>1, <2>1
  <2> QED
    BY <2>1, <2>2 DEF Named, Shares
<1>3. CASE Register(t) \/ Keep(t) \/ Close(t)
  <2>1. Done(t) /\ th[t].pc \in {"register", "keep", "close"}
    BY <1>3 DEF Register, Keep, Close
  <2> QED
    BY <2>1, DoneEffect, Constants DEF Named
<1>4. CASE Fetch(t)
  <2>1. th[t].pc = "fetch"
    BY <1>4 DEF Fetch
  <2> QED
    BY <1>4, <2>1, FetchEffect, Constants DEF Named
<1>5. CASE Write(t)
  <2>1. th[t].pc = "write" /\ (Done(t) \/ Goes(t, "close")) /\ "close" \in PCs
    BY <1>5 DEF Write, PCs
  <2> QED
    BY <2>1, DoneEffect, GoesEffect, Constants DEF Named
<1> QED
  BY <1>2, <1>3, <1>4, <1>5 DEF SharedBy

(* Only a thread that finds all the others idle starts an unlink or a rename,  *)
(* and nobody else starts anything until it is done.                         *)
LEMMA AloneStep == ASSUME Typed, AloneInv, [Next]_vars PROVE AloneInv'
<1>1. CASE UNCHANGED th
  BY <1>1 DEF AloneInv
<1>2. ASSUME NEW t \in Threads, ActsOf(t) PROVE AloneInv'
  <2>1. \A u \in Threads \ {t} : th'[u] = th[u]
    BY <1>2, OthersStay
  <2>2. CASE SharedBy(t)
    <3>1. th'[t].pc \notin Named /\ th[t].pc \notin Named /\ (th[t].pc = "idle" => ~Excluded)
      BY <2>2, SharedSteps
    <3> QED
      BY <2>1, <3>1 DEF Excluded, AloneInv, Named
  <2>3. CASE \E p, q \in Paths : Unlink(t, p) \/ Rename(t, p, q)
    <3>1. Alone
      BY <2>3 DEF Unlink, Rename
    <3> QED
      BY <2>1, <3>1 DEF Alone, AloneInv, Named
  <2>4. CASE Ensure(t) \/ Pin(t) \/ Remove(t) \/ Move(t)
    <3>1. th[t].pc \in Named
      BY <2>4 DEF Ensure, Pin, Remove, Move, Named
    <3> QED
      BY <2>1, <3>1 DEF AloneInv, Named
  <2> QED
    BY <1>2, <2>2, <2>3, <2>4 DEF ActsOf, SharedBy
<1> QED
  BY Frames, <1>1, <1>2 DEF ActsOf

(* All but an unlink or rename that succeeds leave every path the file it is,  *)
(* and what is in use in sight.                                              *)
Quiet ==
    /\ UNCHANGED ids
    /\ \A k \in 1 .. Len(files) : files'[k].of = files[k].of
    /\ \A p \in Paths : Visible(p) /\ InUse(p) => Visible(p)'
    /\ \A p \in Paths : \/ overlay'[p] = overlay[p] \/ overlay'[p] = None
                        \/ overlay'[p] = Len(files) + 1 /\ files'[Len(files) + 1].of = ids[p]

LEMMA QuietSteps ==
    ASSUME AnyTime = {}, Typed, [Next]_vars
    PROVE  Quiet \/ \E t \in Threads : Remove(t) \/ (th[t].pc = "rename" /\ overlay[th[t].path] > 0 /\ Renamed(t))
<1>1. /\ overlay \in [Paths -> {Deleted, None} \cup 1 .. Len(files)] /\ Len(files) \in Nat
      /\ tree \in [Paths -> Nat] /\ files \in Seq(Files)
  BY Parts DEF Typed, BaseTyped
<1>2. ASSUME NEW p \in Paths, NEW c \in Nat, NEW k \in BOOLEAN, NEW w \in BOOLEAN, AddFile(p, c, k, w),
             UNCHANGED <<tree, ids>>
      PROVE  Quiet
  <2>1. /\ \A i \in 1 .. Len(files) : files'[i] = files[i]
        /\ files'[Len(files) + 1] = [of |-> ids[p], content |-> c, create |-> k, written |-> w]
        /\ overlay'[p] = Len(files) + 1
        /\ \A q \in Paths \ {p} : overlay'[q] = overlay[q]
    BY <1>2, AddFileEffect
  <2>2. \A q \in Paths : Visible(q) => Visible(q)'
    BY <1>1, <1>2, <2>1 DEF Visible, None
  <2> QED
    BY <1>2, <2>1, <2>2 DEF Quiet
<1>3. ASSUME NEW k \in 1 .. Len(files), NEW f \in Files, f.of = files[k].of, files' = [files EXCEPT ![k] = f],
             UNCHANGED <<tree, overlay, ids>>
      PROVE  Quiet
  <2>1. \A i \in 1 .. Len(files) : files'[i].of = files[i].of
    BY <1>3, RewriteEffect
  <2> QED
    BY <1>3, <2>1 DEF Quiet, Visible
<1>4. ASSUME UNCHANGED <<tree, overlay, files, ids>> PROVE Quiet
  BY <1>4 DEF Quiet, Visible
<1>5. ASSUME NEW p \in Paths, CreateFile(p) PROVE Quiet
  BY <1>2, <1>5, CountEffect DEF CreateFile
<1>6. ASSUME NEW h \in Handles, WriteDetached(h) PROVE Quiet
  <2> DEFINE k == open[h].cache.is
             f == [files[k] EXCEPT !.content = NewContent]
  <2>1. k \in 1 .. Len(files) /\ files[k] \in Files
    BY <1>6, Parts DEF WriteDetached, Typed, OpensTyped, Good
  <2>2. f \in Files /\ f.of = files[k].of
    BY <2>1, CountEffect DEF Files
  <2>3. files' = [files EXCEPT ![k] = f] /\ UNCHANGED <<tree, overlay, ids>>
    BY <1>1, <1>6, <2>1 DEF WriteDetached
  <2> HIDE DEF k, f
  <2> QED
    BY <1>3, <2>1, <2>2, <2>3
<1>7. ASSUME NEW t \in Threads, Write(t) PROVE Quiet
  <2>1. th[t].path \in Paths /\ UNCHANGED <<tree, ids>>
    BY <1>7 DEF Write, Typed, StepsTyped, GoodStep
  <2>2. CASE overlay[th[t].path] > 0
             /\ CountWrite /\ UNCHANGED overlay
             /\ files' = [files EXCEPT ![overlay[th[t].path]].content = NewContent,
                                       ![overlay[th[t].path]].written = TRUE]
    <3> DEFINE k == overlay[th[t].path]
               f == [files[k] EXCEPT !.content = NewContent, !.written = TRUE]
    <3>1. k \in 1 .. Len(files)
      <4>1. overlay[th[t].path] \in {Deleted, None} \cup 1 .. Len(files)
        BY <1>1, <2>1
      <4> QED
        BY <2>2, <4>1 DEF Deleted, None
    <3>2. files[k] \in Files
      BY <3>1, Parts
    <3>3. f \in Files /\ f.of = files[k].of
      BY <3>2, CountEffect DEF Files
    <3>4. files' = [files EXCEPT ![k] = f]
      BY <1>1, <2>2, <3>1
    <3> HIDE DEF f, k
    <3> QED
      BY <1>3, <2>1, <2>2, <3>1, <3>3, <3>4
  <2>3. CASE \E b \in BOOLEAN : AddFile(th[t].path, NewContent, b, TRUE)
    BY <1>2, <2>1, <2>3, CountEffect
  <2>4. CASE UNCHANGED <<overlay, files>>
    BY <1>4, <2>1, <2>4
  <2> QED
    BY <1>7, <2>2, <2>3, <2>4 DEF Write
<1>8. ASSUME NEW t \in Threads, Ensure(t) PROVE Quiet
  <2> DEFINE p == IF th[t].pc = "ensure" THEN th[t].path ELSE th[t].to
  <2>1. p \in Paths /\ UNCHANGED <<tree, ids>>
    BY <1>8 DEF Ensure, Typed, StepsTyped, GoodStep
  <2>2. AddFile(p, tree[p], FALSE, FALSE) \/ UNCHANGED <<overlay, files>>
    BY <1>8 DEF Ensure
  <2> HIDE DEF p
  <2>3. tree[p] \in Nat
    BY <1>1, <2>1
  <2> QED
    BY <1>2, <1>4, <2>1, <2>2, <2>3
<1>9. ASSUME NEW t \in Threads, RenameAgain(t), th[t].pc = "rename" PROVE Quiet
  <2>1. th[t].path \in Paths /\ UNCHANGED <<tree, ids>> /\ tree[th[t].path] \in Nat
    BY <1>1, <1>9 DEF RenameAgain, Typed, StepsTyped, GoodStep
  <2>2. AddFile(th[t].path, tree[th[t].path], FALSE, FALSE) \/ UNCHANGED <<overlay, files>>
    BY <1>9 DEF RenameAgain
  <2> QED
    BY <1>2, <1>4, <2>1, <2>2
<1>10. ASSUME Transition PROVE Quiet
  <2>1. UNCHANGED <<files, ids>> /\ \A p \in Paths : overlay'[p] \in {overlay[p], None}
    BY <1>10 DEF Transition
  <2>2. \A p \in Paths : (overlay'[p] = None /\ tree'[p] = 0 /\ InUse(p)) => ~Visible(p)
    BY <1>10 DEF Transition
  <2>3. ASSUME NEW p \in Paths, Visible(p), InUse(p) PROVE Visible(p)'
    BY <1>1, <2>1, <2>2, <2>3 DEF Visible, None
  <2> QED
    BY <2>1, <2>3 DEF Quiet
<1>11. CASE UNCHANGED <<gen, tree, overlay, files, ids, clock>>
  BY <1>4, <1>11
<1> QED
  BY Frames, <1>5, <1>6, <1>7, <1>8, <1>9, <1>10, <1>11 DEF Move

LEMMA FileStep ==
    ASSUME AnyTime = {}, Typed, FileInv, [Next]_vars PROVE FileInv'
<1>1. /\ overlay \in [Paths -> {Deleted, None} \cup 1 .. Len(files)] /\ Len(files) \in Nat
  BY Parts DEF Typed, BaseTyped
<1>2. \A p \in Paths : overlay[p] > 0 => overlay[p] \in 1 .. Len(files)
  BY <1>1 DEF Deleted, None
<1>3. CASE Quiet
  BY <1>1, <1>2, <1>3 DEF Quiet, FileInv, None
<1>4. ASSUME NEW t \in Threads, Remove(t) PROVE FileInv'
  <2>1. \A p \in Paths : overlay'[p] > 0 => overlay'[p] = overlay[p] /\ ids'[p] = ids[p]
    BY <1>1, <1>4 DEF Remove, Typed, BaseTyped, Deleted
  <2> QED
    BY <1>4, <2>1 DEF FileInv, Remove
<1>5. ASSUME NEW t \in Threads, th[t].pc = "rename", overlay[th[t].path] > 0, Renamed(t) PROVE FileInv'
  <2>1. th[t].path \in Paths /\ th[t].to \in Paths /\ th[t].path # th[t].to
    BY <1>5 DEF Typed, StepsTyped, GoodStep
  <2>2. MoveEntry(th[t].path, th[t].to)
    BY <1>5 DEF Renamed
  <2>3. /\ overlay'[th[t].to] = overlay[th[t].path] /\ overlay'[th[t].path] \in {None, Deleted}
        /\ ids'[th[t].to] = ids[th[t].path]
        /\ \A r \in Paths \ {th[t].path, th[t].to} : overlay'[r] = overlay[r] /\ ids'[r] = ids[r]
        /\ \A k \in 1 .. Len(files) : files'[k].of = files[k].of
    BY <1>5, <2>1, <2>2, MoveEffect
  <2> QED
    BY <1>2, <2>1, <2>3 DEF FileInv, None, Deleted
<1> QED
  BY QuietSteps, <1>3, <1>4, <1>5

LEMMA OpenStep ==
    ASSUME AnyTime = {}, FilesInv, [Next]_vars PROVE OpenInv'
<1>1. /\ Typed /\ open \in [Handles -> Opens] /\ \A h \in Handles : HasFile(h)
      /\ \A h \in Handles : open[h].cache.gen = -1 => open[h].cache.is \in 1 .. Len(files)
      /\ gen \in 1 .. MaxHeads /\ NoCache.gen # -1 /\ None \notin Paths /\ 1 # -1
  BY Constants DEF FilesInv, OpenInv, Typed, OpensTyped, BaseTyped, Good
<1>2. ASSUME Quiet, NEW h \in Handles, open'[h].path = open[h].path, open'[h].of = open[h].of,
             open'[h].detached = open[h].detached,
             open'[h].cache = open[h].cache \/ (open'[h].cache.gen # -1 /\ ~open[h].detached)
      PROVE  HasFile(h)'
  <2>1. ASSUME open[h].path \in Paths, ~open[h].detached
        PROVE  Visible(open[h].path)' /\ ids'[open[h].path] = open[h].of
    <3>1. PICK p \in Paths : open[h].path = p
      BY <2>1
    <3>2. InUse(p) /\ Visible(p) /\ ids[p] = open[h].of
      BY <1>1, <2>1, <3>1 DEF InUse, OpenAt, HasFile
    <3>3. Visible(p)' /\ ids' = ids
      BY <1>2, <3>2 DEF Quiet
    <3>4. open'[h].path = p
      BY <1>2, <3>1
    <3> QED
      BY <3>1, <3>2, <3>3, <3>4
  <2> QED
    BY <1>1, <1>2, <2>1 DEF HasFile, Quiet
<1>3. ASSUME Quiet, NEW p \in Paths, NEW i \in 0 .. MaxInodes, NEW c \in Caches, Adds(p, i, c), Visible(p)',
             c.gen = -1 => c.is \in 1 .. Len(files) /\ files[c.is].of = ids[p]
      PROVE  OpenInv'
  <2>1. PICK h \in Handles : /\ \A k \in Handles \ {h} : open'[k] = open[k]
                             /\ open'[h].path = p /\ open'[h].cache = c /\ open'[h].of = ids[p] /\ ~open'[h].detached
    BY <1>1, <1>3, AddsEffect
  <2>2. HasFile(h)'
    BY <1>3, <2>1 DEF HasFile, Quiet
  <2>3. \A k \in Handles \ {h} : HasFile(k)'
    BY <1>2, <1>3, <2>1
  <2> QED
    BY <2>2, <2>3 DEF OpenInv
<1>4. ASSUME Quiet, NEW p \in Paths, CreateFile(p) PROVE OpenInv'
  <2>1. PICK i \in 1 .. MaxInodes : Adds(p, i, NoCache)
    BY <1>4 DEF CreateFile
  <2>2. overlay'[p] = Len(files) + 1 /\ Len(files) \in Nat
    BY <1>1, <1>4, AddFileEffect, CountEffect DEF CreateFile
  <2>3. Visible(p)'
    BY <2>2 DEF Visible
  <2> QED
    BY <1>1, <1>3, <1>4, <2>1, <2>3, Constants
<1>5. ASSUME Quiet, NEW t \in Threads, Register(t) PROVE OpenInv'
  <2>1. /\ th[t].pc = "register" /\ th[t].path \in Paths /\ th[t].inode \in 0 .. MaxInodes /\ th[t].cache \in Caches
        /\ Adds(th[t].path, th[t].inode, th[t].cache) /\ Good(th[t].cache, gen, Len(files))
    BY <1>1, <1>5, Parts DEF Register, Typed, StepsTyped, GoodStep
  <2>2. Visible(th[t].path) /\ (th[t].cache.gen = -1 => files[th[t].cache.is].of = ids[th[t].path])
    BY <2>1 DEF FilesInv, StepInv, OnTrack
  <2>3. PICK p \in Paths : p = th[t].path
    BY <2>1
  <2>4. InUse(p)
    BY <2>3 DEF InUse
  <2>5. Visible(p)'
    BY <1>5, <2>2, <2>3, <2>4 DEF Quiet
  <2> QED
    BY <1>3, <1>5, <2>1, <2>2, <2>3, <2>5 DEF Good
<1>6. ASSUME Quiet, NEW h \in Handles, ReleaseFileHandle(h) PROVE OpenInv'
  <2>1. open'[h] = Closed /\ \A k \in Handles \ {h} : open'[k] = open[k]
    BY <1>1, <1>6 DEF ReleaseFileHandle
  <2>2. HasFile(h)'
    BY <1>1, <2>1, Constants DEF HasFile
  <2>3. \A k \in Handles \ {h} : HasFile(k)'
    BY <1>2, <1>6, <2>1
  <2> QED
    BY <2>2, <2>3 DEF OpenInv
<1>7. ASSUME Quiet, NEW p \in Paths, CloseCached(p) PROVE OpenInv'
  <2>1. ASSUME NEW h \in Handles PROVE HasFile(h)'
    <3>1. /\ open'[h].path = open[h].path /\ open'[h].of = open[h].of /\ open'[h].detached = open[h].detached
          /\ open'[h] = open[h] \/ (~open[h].detached /\ open'[h].cache = NoCache)
      BY <1>1, <1>7, CloseEffect
    <3> QED
      BY <1>1, <1>2, <1>7, <3>1
  <2> QED
    BY <2>1 DEF OpenInv
<1>8. ASSUME Quiet, NEW t \in Threads,
             \/ \E i \in 1 .. MaxInodes : Truncate(t, i)
             \/ \E h \in Handles : WriteFile(t, h)
             \/ Close(t)
      PROVE  OpenInv'
  <2>1. ASSUME NEW i \in 1 .. MaxInodes, Truncate(t, i) PROVE OpenInv'
    BY <1>1, <1>7, <1>8, <2>1, Parts DEF Truncate, Usable, Typed, InodesTyped
  <2>2. ASSUME NEW h \in Handles, WriteFile(t, h) PROVE OpenInv'
    BY <1>1, <1>7, <1>8, <2>2 DEF WriteFile, Typed, OpensTyped
  <2>3. ASSUME Close(t) PROVE OpenInv'
    BY <1>1, <1>7, <1>8, <2>3 DEF Close, Typed, StepsTyped, GoodStep
  <2> QED
    BY <1>8, <2>1, <2>2, <2>3
<1>9. ASSUME Quiet, NEW t \in Threads, NEW h \in Handles, ReadFile(t, h) PROVE OpenInv'
  <2>1. ~open[h].detached
    BY <1>1, <1>9 DEF HasFile, ReadFile
  <2>2. ASSUME NEW k \in Handles PROVE HasFile(k)'
    <3>1. /\ open'[k].path = open[k].path /\ open'[k].of = open[k].of /\ open'[k].detached = open[k].detached
          /\ open'[k] = open[k] \/ (~open[k].detached /\ open'[k].cache = NoCache)
      BY <1>1, <1>9, <2>1, ReadEffect
    <3> QED
      BY <1>1, <1>2, <1>9, <3>1
  <2> QED
    BY <2>2 DEF OpenInv
<1>10. ASSUME Quiet, NEW t \in Threads, Fetch(t) PROVE OpenInv'
  <2>1. ASSUME NEW k \in Handles PROVE HasFile(k)'
    <3>1. /\ open'[k].path = open[k].path /\ open'[k].of = open[k].of /\ open'[k].detached = open[k].detached
          /\ open'[k].cache = open[k].cache
      BY <1>1, <1>10, FetchEffect
    <3> QED
      BY <1>2, <1>10, <3>1
  <2> QED
    BY <2>1 DEF OpenInv
<1>11. ASSUME Quiet, NEW t \in Threads, Keep(t) PROVE OpenInv'
  <2>1. ~open[th[t].handle].detached /\ th[t].pc = "keep"
    BY <1>11 DEF Keep, FilesInv, StepInv, OnTrack, Typed, StepsTyped
  <2>2. ASSUME NEW k \in Handles PROVE HasFile(k)'
    <3>1. /\ open'[k].path = open[k].path /\ open'[k].of = open[k].of /\ open'[k].detached = open[k].detached
          /\ \/ open'[k].cache = open[k].cache
             \/ k = th[t].handle /\ open'[k].cache = th[t].cache /\ th[t].cache.gen = gen
      BY <1>1, <1>11, KeepEffect
    <3>2. gen # -1
      BY <1>1
    <3> QED
      BY <1>2, <1>11, <2>1, <3>1, <3>2
  <2> QED
    BY <2>2 DEF OpenInv
<1>12. ASSUME Quiet, NEW t \in Threads, Pin(t) PROVE OpenInv'
  <2> DEFINE p == IF th[t].pc = "pin" THEN th[t].path ELSE th[t].to
  <2>1. /\ p \in Paths
        /\ \A h \in Handles : /\ open'[h].path = open[h].path /\ open'[h].of = open[h].of
                              /\ open'[h].detached = open[h].detached
        /\ \A h \in Handles :
             \/ open'[h] = open[h]
             \/ /\ overlay[p] > 0 /\ open[h].path = p /\ open[h].cache.gen # -1
                /\ open'[h].cache = [gen |-> -1, is |-> overlay[p]]
    BY <1>1, <1>12, PinEffect
  <2> HIDE DEF p
  <2>2. ASSUME NEW h \in Handles PROVE HasFile(h)'
    <3>1. CASE open'[h] = open[h]
      BY <1>2, <1>12, <2>1, <3>1
    <3>2. CASE open'[h] # open[h]
      <4>1. /\ overlay[p] > 0 /\ open[h].path = p /\ ~open[h].detached
            /\ open'[h].cache = [gen |-> -1, is |-> overlay[p]]
        BY <1>1, <2>1, <3>2 DEF HasFile
      <4>2. PICK r \in Paths : r = p
        BY <2>1
      <4>3. InUse(r) /\ Visible(r) /\ ids[r] = open[h].of /\ files[overlay[r]].of = ids[r]
        BY <1>1, <4>1, <4>2 DEF InUse, OpenAt, HasFile, FilesInv, FileInv
      <4>4. Visible(r)' /\ ids'[r] = ids[r] /\ files' = files
        BY <1>12, <4>3 DEF Quiet, Pin
      <4>5. open'[h].path = r /\ open'[h].of = open[h].of /\ ~open'[h].detached /\ open'[h].cache.gen = -1
            /\ open'[h].cache.is = overlay[r]
        BY <2>1, <4>1, <4>2
      <4> QED
        BY <4>3, <4>4, <4>5 DEF HasFile
    <3> QED
      BY <3>1, <3>2
  <2> QED
    BY <2>2 DEF OpenInv
<1>13. ASSUME NEW t \in Threads, Remove(t) PROVE OpenInv'
  <2>1. /\ th[t].path \in Paths /\ th[t].pc = "remove"
        /\ \A h \in Handles : /\ open'[h].path = open[h].path /\ open'[h].of = open[h].of
                              /\ open'[h].cache = open[h].cache
        /\ \A h \in Handles : \/ open[h].path = th[t].path /\ open'[h].detached
                              \/ open[h].path # th[t].path /\ open'[h] = open[h]
    BY <1>1, <1>13, RemoveEffect DEF Remove
  <2>2. \A h \in OpenAt(th[t].path) : open[h].cache.gen = -1
    BY <2>1 DEF FilesInv, NameInv, Named
  <2>3. /\ UNCHANGED <<tree, files>>
        /\ \A p \in Paths : p # th[t].path => overlay'[p] = overlay[p] /\ ids'[p] = ids[p]
    BY <1>1, <1>13, <2>1 DEF Remove, Typed, BaseTyped
  <2>4. ASSUME NEW h \in Handles PROVE HasFile(h)'
    <3>1. CASE open[h].path = th[t].path
      BY <1>1, <2>1, <2>2, <2>3, <3>1 DEF HasFile, OpenAt
    <3>2. CASE open[h].path # th[t].path
      BY <1>1, <2>1, <2>3, <3>2 DEF HasFile, Visible
    <3> QED
      BY <3>1, <3>2
  <2> QED
    BY <2>4 DEF OpenInv
<1>14. ASSUME NEW t \in Threads, th[t].pc = "rename", overlay[th[t].path] > 0, Renamed(t) PROVE OpenInv'
  <2> DEFINE p == th[t].path
             q == th[t].to
  <2>1. /\ p \in Paths /\ q \in Paths /\ p # q
        /\ \A h \in Handles : open'[h].of = open[h].of /\ open'[h].cache = open[h].cache
        /\ \A h \in Handles :
             \/ open[h].path = q /\ open'[h].path = q /\ open'[h].detached
             \/ open[h].path = p /\ open'[h].path = q /\ open'[h].detached = open[h].detached
             \/ open[h].path \notin {p, q} /\ open'[h] = open[h]
    BY <1>1, <1>14, RenamedEffect
  <2>2. MoveEntry(p, q) /\ UNCHANGED tree /\ overlay[p] > 0
    BY <1>14 DEF Renamed, Ends
  <2>3. \A h \in Handles : open[h].path = q => open[h].cache.gen = -1
    BY <1>14 DEF FilesInv, NameInv, Named, OpenAt
  <2> HIDE DEF p, q
  <2>4. /\ overlay'[q] = overlay[p] /\ ids'[q] = ids[p]
        /\ \A r \in Paths \ {p, q} : overlay'[r] = overlay[r] /\ ids'[r] = ids[r]
        /\ \A k \in 1 .. Len(files) : files'[k].of = files[k].of
    BY <1>1, <2>1, <2>2, MoveEffect
  <2>5. \A h \in Handles : open[h].cache.gen = -1 => files'[open[h].cache.is].of = open[h].of
    BY <1>1, <2>4 DEF HasFile
  <2>6. ASSUME NEW h \in Handles PROVE HasFile(h)'
    <3>1. CASE open[h].path = q
      BY <1>1, <2>1, <2>3, <2>5, <3>1 DEF HasFile
    <3>2. CASE open[h].path = p
      BY <1>1, <2>1, <2>2, <2>4, <2>5, <3>2 DEF HasFile, Visible
    <3>3. CASE open[h].path \notin {p, q}
      BY <1>1, <2>1, <2>2, <2>4, <2>5, <3>3 DEF HasFile, Visible
    <3> QED
      BY <3>1, <3>2, <3>3
  <2> QED
    BY <2>6 DEF OpenInv
<1>15. ASSUME Quiet, UNCHANGED open PROVE OpenInv'
  BY <1>2, <1>15 DEF OpenInv
<1>16. ASSUME NEW t \in Threads, Move(t) PROVE OpenInv' \/ UNCHANGED open
  BY <1>14, <1>16 DEF Move, RenameAgain
<1>17. OpenInv' \/ Quiet
  BY <1>1, <1>13, <1>14, QuietSteps
<1> QED
  BY Frames, <1>4, <1>5, <1>6, <1>8, <1>9, <1>10, <1>11, <1>12, <1>13, <1>15, <1>16, <1>17

(* An open file that is in use stays where it is. *)
LEMMA OpensStay ==
    ASSUME Typed, [Next]_vars
    PROVE  \/ \E t \in Threads : Remove(t) \/ (th[t].pc = "rename" /\ overlay[th[t].path] > 0 /\ Renamed(t))
           \/ \A h \in Handles : \/ open'[h].path = open[h].path /\ open'[h].detached = open[h].detached
                                 \/ open[h].path = None
                                 \/ ~Used(h)
<1> DEFINE Stays == \A h \in Handles : \/ open'[h].path = open[h].path /\ open'[h].detached = open[h].detached
                                       \/ open[h].path = None
                                       \/ ~Used(h)
<1>1. ASSUME NEW p \in Paths, NEW i \in 0 .. MaxInodes, NEW c \in Caches, Adds(p, i, c) PROVE Stays
  <2>1. PICK h \in Handles : open[h] = Closed /\ \A k \in Handles \ {h} : open'[k] = open[k]
    BY <1>1, AddsEffect
  <2> QED
    BY <2>1, Constants
<1>2. ASSUME NEW p \in Paths, CreateFile(p) PROVE Stays
  <2>1. PICK i \in 1 .. MaxInodes : Adds(p, i, NoCache)
    BY <1>2 DEF CreateFile
  <2> QED
    BY <1>1, <2>1, Constants
<1>3. ASSUME NEW t \in Threads, Register(t) PROVE Stays
  <2>1. /\ th[t].path \in Paths /\ th[t].inode \in 0 .. MaxInodes /\ th[t].cache \in Caches
        /\ Adds(th[t].path, th[t].inode, th[t].cache)
    BY <1>3, Parts DEF Register, Typed, StepsTyped, GoodStep
  <2> QED
    BY <1>1, <2>1
<1>4. ASSUME NEW h \in Handles, ReleaseFileHandle(h) PROVE Stays
  BY <1>4 DEF ReleaseFileHandle, Typed, OpensTyped
<1>5. ASSUME NEW p \in Paths, CloseCached(p) PROVE Stays
  BY <1>5, CloseEffect
<1>6. ASSUME NEW t \in Threads,
             \/ \E i \in 1 .. MaxInodes : Truncate(t, i)
             \/ \E h \in Handles : WriteFile(t, h)
             \/ Close(t)
      PROVE  Stays
  <2>1. ASSUME NEW i \in 1 .. MaxInodes, Truncate(t, i) PROVE Stays
    BY <1>5, <2>1, Parts DEF Truncate, Usable, Typed, InodesTyped
  <2>2. ASSUME NEW h \in Handles, WriteFile(t, h) PROVE Stays
    BY <1>5, <2>2 DEF WriteFile, Typed, OpensTyped
  <2>3. ASSUME Close(t) PROVE Stays
    BY <1>5, <2>3 DEF Close, Typed, StepsTyped, GoodStep
  <2> QED
    BY <1>6, <2>1, <2>2, <2>3
<1>7. ASSUME NEW t \in Threads, NEW h \in Handles, ReadFile(t, h) PROVE Stays
  BY <1>7, ReadEffect
<1>8. ASSUME NEW t \in Threads, Fetch(t) PROVE Stays
  BY <1>8, FetchEffect
<1>9. ASSUME NEW t \in Threads, Keep(t) PROVE Stays
  BY <1>9, KeepEffect
<1>10. ASSUME NEW t \in Threads, Pin(t) PROVE Stays
  BY <1>10, PinEffect
<1>11. ASSUME UNCHANGED open PROVE Stays
  BY <1>11
<1> HIDE DEF Stays
<1>12. ASSUME NEW t \in Threads, Move(t)
       PROVE  Stays \/ (th[t].pc = "rename" /\ overlay[th[t].path] > 0 /\ Renamed(t))
  BY <1>11, <1>12 DEF Move, RenameAgain
<1>13. Stays \/ \E t \in Threads : Remove(t) \/ (th[t].pc = "rename" /\ overlay[th[t].path] > 0 /\ Renamed(t))
  BY Frames, <1>2, <1>3, <1>4, <1>6, <1>7, <1>8, <1>9, <1>10, <1>11, <1>12
<1> QED
  BY <1>13 DEF Stays

LEMMA StepStep ==
    ASSUME AnyTime = {}, FilesInv, [Next]_vars PROVE StepInv'
<1>1. /\ Typed /\ th \in [Threads -> Steps] /\ \A t \in Threads : OnTrack(t) /\ GoodStep(th[t], gen, Len(files))
      /\ gen \in 1 .. MaxHeads /\ gen > 0 /\ None \notin Paths
      /\ overlay \in [Paths -> {Deleted, None} \cup 1 .. Len(files)] /\ Len(files) \in Nat
  BY Constants DEF FilesInv, StepInv, Typed, StepsTyped, BaseTyped
<1>2. ASSUME NEW t \in Threads, th'[t].pc \notin {"fetch", "keep", "write", "register"} PROVE OnTrack(t)'
  BY <1>2 DEF OnTrack
<1>3. ASSUME NEW t \in Threads, th'[t] = Idle PROVE OnTrack(t)'
  BY <1>2, <1>3, Constants
<1>4. ASSUME NEW t \in Threads, Remove(t) \/ (th[t].pc = "rename" /\ overlay[th[t].path] > 0 /\ Renamed(t))
      PROVE  StepInv'
  <2>1. th[t].pc \in Named /\ Done(t)
    BY <1>4 DEF Remove, Renamed, Ends, Named
  <2>2. \A u \in Threads \ {t} : th[u].pc = "idle"
    BY <2>1 DEF FilesInv, AloneInv
  <2>3. \A u \in Threads : th'[u].pc = "idle"
    BY <1>1, <2>1, <2>2, DoneEffect, Constants
  <2> QED
    BY <1>2, <2>3 DEF StepInv
<1>5. ASSUME Quiet, NEW t \in Threads, th'[t] = th[t],
             \A h \in Handles : \/ open'[h].path = open[h].path /\ open'[h].detached = open[h].detached
                                \/ open[h].path = None
                                \/ ~Used(h)
      PROVE  OnTrack(t)'
  <2>1. ASSUME th[t].pc \in {"fetch", "keep"}
        PROVE  open'[th[t].handle].path = th[t].path /\ ~open'[th[t].handle].detached
    <3>1. /\ open[th[t].handle].path = th[t].path /\ ~open[th[t].handle].detached
          /\ th[t].handle \in Handles /\ th[t].path \in Paths
      BY <1>1, <2>1 DEF OnTrack, GoodStep
    <3>2. Used(th[t].handle)
      BY DEF Used
    <3> QED
      BY <1>1, <1>5, <3>1, <3>2
  <2>2. ASSUME th[t].pc \in {"write", "register"}, Visible(th[t].path) PROVE Visible(th[t].path)'
    <3>1. PICK p \in Paths : p = th[t].path
      BY <1>1, <2>2 DEF GoodStep
    <3>2. InUse(p)
      BY <3>1 DEF InUse
    <3>3. Visible(p)' /\ th'[t].path = p
      BY <1>5, <2>2, <3>1, <3>2 DEF Quiet
    <3> QED
      BY <3>1, <3>3
  <2>3. ASSUME th[t].pc = "register", th[t].cache.gen = -1
        PROVE  files'[th[t].cache.is].of = ids'[th[t].path]
    <3>1. th[t].cache.is \in 1 .. Len(files) /\ files[th[t].cache.is].of = ids[th[t].path]
      BY <1>1, <2>3 DEF OnTrack, GoodStep, Good
    <3> QED
      BY <1>5, <3>1 DEF Quiet
  <2> QED
    BY <1>1, <1>5, <2>1, <2>2, <2>3 DEF OnTrack
<1>6. ASSUME NEW t \in Threads, NEW i \in 1 .. MaxInodes, OpenFile(t, i) PROVE OnTrack(t)'
  <2> DEFINE p == inodes[i].path
             c == IF overlay[p] > 0 THEN [gen |-> -1, is |-> overlay[p]] ELSE [gen |-> gen, is |-> tree[p]]
             s == [Idle EXCEPT !.pc = "register", !.path = p, !.inode = i, !.cache = c]
  <2>1. p \in Paths /\ Visible(p) /\ th' = [th EXCEPT ![t] = s] /\ UNCHANGED <<tree, overlay, files, ids>>
    BY <1>1, <1>6, Parts DEF OpenFile, Usable, Typed, InodesTyped
  <2>2. s.pc = "register" /\ s.path = p /\ s.cache = c
    BY DEF Idle
  <2>3. c.gen = -1 => files[c.is].of = ids[p]
    <3>1. gen # -1 /\ (overlay[p] > 0 => files[overlay[p]].of = ids[p])
      BY <1>1, <2>1 DEF FilesInv, FileInv
    <3> HIDE DEF p
    <3> QED
      BY <3>1
  <2> HIDE DEF p, c, s
  <2>4. th'[t].pc = "register" /\ th'[t].path = p /\ th'[t].cache = c
    BY <1>1, <2>1, <2>2
  <2>5. overlay'[p] = overlay[p] /\ tree'[p] = tree[p]
    BY <2>1
  <2> QED
    BY <2>1, <2>3, <2>4, <2>5 DEF OnTrack, Visible
<1>7. ASSUME NEW t \in Threads, NEW i \in 1 .. MaxInodes, Truncate(t, i) PROVE OnTrack(t)'
  <2> DEFINE s == [Idle EXCEPT !.pc = "write", !.path = inodes[i].path, !.inode = i]
  <2>1. th' = [th EXCEPT ![t] = s]
    BY <1>7 DEF Truncate
  <2>2. s.pc = "write" /\ ~s.make
    BY DEF Idle
  <2> HIDE DEF s
  <2>3. th'[t].pc = "write" /\ ~th'[t].make
    BY <1>1, <2>1, <2>2
  <2> QED
    BY <2>3 DEF OnTrack
<1>8. ASSUME NEW t \in Threads, NEW h \in Handles, WriteFile(t, h) PROVE OnTrack(t)'
  <2> DEFINE s == [Idle EXCEPT !.pc = "write", !.handle = h, !.path = open[h].path, !.make = TRUE]
  <2>1. th' = [th EXCEPT ![t] = s] /\ UNCHANGED <<tree, overlay>>
    BY <1>8 DEF WriteFile
  <2>2. s.pc = "write" /\ s.path = open[h].path
    BY DEF Idle
  <2>3. Visible(open[h].path)
    BY <1>8 DEF WriteFile, FilesInv, OpenInv, HasFile, Typed, OpensTyped
  <2> HIDE DEF s
  <2>4. th'[t].pc = "write" /\ th'[t].path = open[h].path
    BY <1>1, <2>1, <2>2
  <2> QED
    BY <2>1, <2>3, <2>4 DEF OnTrack, Visible
<1>9. ASSUME NEW t \in Threads, NEW h \in Handles, ReadFile(t, h) PROVE OnTrack(t)'
  <2>1. ~open[h].detached
    BY <1>9 DEF HasFile, ReadFile, FilesInv, OpenInv
  <2>2. /\ th'[t].pc = "fetch" /\ th'[t].handle = h /\ th'[t].path = open[h].path
        /\ open'[h].path = open[h].path /\ open'[h].detached = open[h].detached
    BY <1>1, <1>9, ReadEffect
  <2> QED
    BY <2>1, <2>2 DEF OnTrack
<1>10. ASSUME NEW t \in Threads, Fetch(t) PROVE OnTrack(t)'
  <2>1. \/ th'[t] = Idle
        \/ /\ UNCHANGED open /\ th'[t].pc = "keep" /\ th'[t].path = th[t].path /\ th'[t].handle = th[t].handle
           /\ th'[t].cache = [gen |-> gen, is |-> tree[th[t].path]]
    BY <1>1, <1>10, FetchEffect
  <2>2. th[t].pc = "fetch"
    BY <1>10 DEF Fetch
  <2> QED
    BY <1>1, <1>3, <2>1, <2>2 DEF OnTrack
<1>11. ASSUME NEW t \in Threads, Write(t) PROVE OnTrack(t)'
  <2>1. Done(t) \/ (Goes(t, "close") /\ "close" \in PCs)
    BY <1>11 DEF Write, PCs
  <2> QED
    BY <1>1, <1>2, <1>3, <2>1, DoneEffect, GoesEffect
<1>12. ASSUME NEW t \in Threads, Register(t) \/ Keep(t) \/ Close(t) PROVE OnTrack(t)'
  BY <1>1, <1>3, <1>12, DoneEffect DEF Register, Keep, Close
<1>13. ASSUME NEW t \in Threads, NEW p \in Paths, NEW q \in Paths, Unlink(t, p) \/ Rename(t, p, q) PROVE OnTrack(t)'
  <2>1. PICK s : th' = [th EXCEPT ![t] = s] /\ s.pc = "ensure"
    <3>1. CASE Unlink(t, p)
      <4>1. [Idle EXCEPT !.pc = "ensure", !.path = p].pc = "ensure"
        BY DEF Idle
      <4> QED
        BY <3>1, <4>1 DEF Unlink
    <3>2. CASE Rename(t, p, q)
      <4>1. [Idle EXCEPT !.pc = "ensure", !.path = p, !.to = q].pc = "ensure"
        BY DEF Idle
      <4> QED
        BY <3>2, <4>1 DEF Rename
    <3> QED
      BY <1>13, <3>1, <3>2
  <2>2. th'[t].pc = "ensure"
    BY <1>1, <2>1
  <2> QED
    BY <1>2, <2>2
<1>14. ASSUME NEW t \in Threads, Ensure(t) \/ Pin(t) \/ Move(t) PROVE OnTrack(t)'
  <2>1. th[t].pc \in Named /\ th[t] \in Steps
    BY <1>1, <1>14 DEF Ensure, Pin, Move, Named
  <2>2. UNCHANGED th \/ Done(t) \/ \E pc \in Named : Goes(t, pc)
    BY <1>14 DEF Ensure, Pin, AfterPin, Move, Renamed, Ends, RenameAgain, Named
  <2>3. Named \subseteq PCs /\ \A pc \in Named : pc \notin {"fetch", "keep", "write", "register"}
    BY DEF Named, PCs
  <2>4. ASSUME NEW pc \in Named, Goes(t, pc) PROVE OnTrack(t)'
    BY <1>1, <1>2, <2>3, <2>4, GoesEffect
  <2> QED
    BY <1>1, <1>2, <1>3, <2>1, <2>2, <2>3, <2>4, DoneEffect
<1>15. StepInv' \/ /\ Quiet
                   /\ \A h \in Handles : \/ open'[h].path = open[h].path /\ open'[h].detached = open[h].detached
                                         \/ open[h].path = None
                                         \/ ~Used(h)
  BY <1>1, <1>4, QuietSteps, OpensStay
<1>16. CASE UNCHANGED th
  BY <1>5, <1>15, <1>16 DEF StepInv
<1>17. ASSUME NEW t \in Threads, ActsOf(t) PROVE StepInv'
  <2>1. StepInv' \/ OnTrack(t)'
    BY <1>4, <1>6, <1>7, <1>8, <1>9, <1>10, <1>11, <1>12, <1>13, <1>14, <1>17 DEF ActsOf
  <2>2. \A u \in Threads \ {t} : th'[u] = th[u]
    BY <1>1, <1>17, OthersStay
  <2>3. StepInv' \/ \A u \in Threads \ {t} : OnTrack(u)'
    BY <1>5, <1>15, <2>2
  <2> QED
    BY <2>1, <2>3 DEF StepInv
<1> QED
  BY Frames, <1>16, <1>17 DEF ActsOf

LEMMA NameStep ==
    ASSUME AnyTime = {}, FilesInv, [Next]_vars PROVE NameInv'
<1> DEFINE Named1(t) == th[t].pc \in Named =>
      /\ Visible(th[t].path)
      /\ th[t].pc # "ensure" => overlay[th[t].path] > 0
      /\ th[t].pc = "ensure2" => Visible(th[t].to)
      /\ th[t].pc = "pin2" => overlay[th[t].to] > 0
      /\ th[t].pc = "remove" => \A h \in OpenAt(th[t].path) : open[h].cache.gen = -1
      /\ th[t].pc = "rename" => \A h \in OpenAt(th[t].to) : open[h].cache.gen = -1
<1>1. /\ Typed /\ th \in [Threads -> Steps] /\ \A t \in Threads : GoodStep(th[t], gen, Len(files))
      /\ AloneInv /\ NameInv /\ OpenInv /\ StepInv /\ Len(files) \in Nat
      /\ overlay \in [Paths -> {Deleted, None} \cup 1 .. Len(files)]
  BY Parts DEF FilesInv, Typed, StepsTyped, BaseTyped
<1>2. ASSUME NEW t \in Threads, th'[t].pc \notin Named PROVE Named1(t)'
  BY <1>2
<1>3. ASSUME NEW t \in Threads, th[t].pc \in Named, th'[t] = th[t], UNCHANGED <<tree, overlay, open>>
      PROVE  Named1(t)'
  BY <1>1, <1>3 DEF NameInv, Visible, OpenAt
<1>4. ASSUME NEW t \in Threads, th[t].pc \in Named
      PROVE  /\ Excluded /\ ~Alone /\ \A u \in Threads \ {t} : th[u].pc = "idle" /\ ~Shares(u)
             /\ ~Transition /\ \A p \in Paths : ~LookUpInode(p) /\ ~CreateFile(p)
             /\ \A h \in Handles : ~ReleaseFileHandle(h) /\ ~WriteDetached(h)
  <2>1. Excluded /\ ~Alone
    BY <1>4 DEF Excluded, Alone, Named
  <2>2. \A u \in Threads \ {t} : th[u].pc = "idle" /\ ~Shares(u)
    BY <1>1, <1>4, <2>1 DEF AloneInv, Shares
  <2>3. ~Transition /\ \A p \in Paths : ~LookUpInode(p) /\ ~CreateFile(p)
    BY <2>1 DEF Transition, LookUpInode, CreateFile
  <2>4. \A h \in Handles : ~ReleaseFileHandle(h) /\ ~WriteDetached(h)
    BY <2>1 DEF ReleaseFileHandle, WriteDetached
  <2> QED
    BY <2>1, <2>2, <2>3, <2>4
<1>5. ASSUME NEW t \in Threads, th[t].pc \in Named, NEW u \in Threads \ {t} PROVE ~ActsOf(u)
  <2>1. th[u].pc = "idle" /\ ~Shares(u) /\ ~Alone
    BY <1>4, <1>5
  <2>2. \A i \in 1 .. MaxInodes : ~OpenFile(u, i) /\ ~Truncate(u, i)
    BY <2>1 DEF OpenFile, Truncate
  <2>3. \A h \in Handles : ~ReadFile(u, h) /\ ~WriteFile(u, h)
    BY <2>1 DEF ReadFile, WriteFile
  <2>4. \A p, q \in Paths : ~Unlink(u, p) /\ ~Rename(u, p, q)
    BY <2>1 DEF Unlink, Rename
  <2>5. ~Register(u) /\ ~Fetch(u) /\ ~Keep(u) /\ ~Write(u) /\ ~Close(u)
    BY <2>1 DEF Register, Fetch, Keep, Write, Close
  <2>6. ~Ensure(u) /\ ~Pin(u) /\ ~Remove(u) /\ ~Move(u)
    BY <2>1 DEF Ensure, Pin, Remove, Move
  <2> QED
    BY <2>2, <2>3, <2>4, <2>5, <2>6 DEF ActsOf
<1>6. ASSUME NEW t \in Threads, NEW p \in Paths, NEW q \in Paths, Unlink(t, p) \/ Rename(t, p, q) PROVE Named1(t)'
  <2>1. PICK s : th' = [th EXCEPT ![t] = s] /\ s.pc = "ensure" /\ s.path = p
    <3>1. CASE Unlink(t, p)
      <4>1. LET s == [Idle EXCEPT !.pc = "ensure", !.path = p] IN s.pc = "ensure" /\ s.path = p
        BY DEF Idle
      <4> QED
        BY <3>1, <4>1 DEF Unlink
    <3>2. CASE Rename(t, p, q)
      <4>1. LET s == [Idle EXCEPT !.pc = "ensure", !.path = p, !.to = q] IN s.pc = "ensure" /\ s.path = p
        BY DEF Idle
      <4> QED
        BY <3>2, <4>1 DEF Rename
    <3> QED
      BY <1>6, <3>1, <3>2
  <2>2. th'[t].pc = "ensure" /\ th'[t].path = p
    BY <1>1, <2>1
  <2>3. Visible(p) /\ UNCHANGED <<tree, overlay>>
    BY <1>6 DEF Unlink, Rename
  <2> QED
    BY <2>2, <2>3 DEF Visible
<1>7. ASSUME NEW t \in Threads, Ensure(t) PROVE Named1(t)'
  <2> DEFINE p == IF th[t].pc = "ensure" THEN th[t].path ELSE th[t].to
  <2>1. /\ th[t].pc \in {"ensure", "ensure2"} /\ th[t].path \in Paths /\ th[t].to # th[t].path
        /\ th[t].pc = "ensure2" => th[t].to \in Paths
    BY <1>1, <1>7 DEF Ensure, GoodStep
  <2>2. p \in Paths /\ Visible(p) /\ Visible(th[t].path) /\ (th[t].pc = "ensure2" => overlay[th[t].path] > 0)
    BY <1>1, <2>1 DEF NameInv, Named
  <2>3. /\ UNCHANGED tree
        /\ \/ overlay[p] # None /\ UNCHANGED <<overlay, files>>
           \/ AddFile(p, tree[p], FALSE, FALSE)
           \/ th' = [th EXCEPT ![t] = Idle]
    BY <1>7 DEF Ensure, Done
  <2>4. \/ th' = [th EXCEPT ![t] = Idle]
        \/ Goes(t, IF th[t].pc = "ensure" THEN "pin" ELSE "pin2")
    BY <1>7 DEF Ensure, Done
  <2>5. \A r \in Paths : overlay[r] \in {Deleted, None} \cup 1 .. Len(files)
    BY <1>1
  <2>6. tree[p] \in Nat
    BY <1>1, <2>2 DEF Typed, BaseTyped
  <2> HIDE DEF p
  <2>7. CASE th' = [th EXCEPT ![t] = Idle]
    <3>1. th'[t].pc = "idle"
      BY <1>1, <2>7, Constants
    <3> QED
      BY <3>1 DEF Named
  <2>8. CASE th' # [th EXCEPT ![t] = Idle]
    <3>1. /\ th'[t].pc = (IF th[t].pc = "ensure" THEN "pin" ELSE "pin2")
          /\ th'[t].path = th[t].path /\ th'[t].to = th[t].to
      <4>1. (IF th[t].pc = "ensure" THEN "pin" ELSE "pin2") \in PCs
        BY DEF PCs
      <4> QED
        BY <1>1, <2>4, <2>8, <4>1, GoesEffect
    <3>2. overlay'[p] > 0 /\ \A r \in Paths \ {p} : overlay'[r] = overlay[r]
      <4>1. CASE overlay[p] # None /\ UNCHANGED <<overlay, files>>
        BY <2>2, <2>5, <4>1 DEF Visible, Deleted, None
      <4>2. CASE AddFile(p, tree[p], FALSE, FALSE)
        <5>1. /\ overlay'[p] = Len(files) + 1
              /\ \A r \in Paths \ {p} : overlay'[r] = overlay[r]
          BY <1>1, <2>2, <2>6, <4>2, AddFileEffect
        <5> QED
          BY <1>1, <5>1
      <4> QED
        BY <2>3, <2>8, <4>1, <4>2
    <3>3. overlay'[th[t].path] > 0
      BY <2>1, <2>2, <3>2 DEF p
    <3>4. th[t].pc = "ensure2" => overlay'[th[t].to] > 0
      BY <2>1, <3>2 DEF p
    <3> QED
      BY <2>1, <3>1, <3>3, <3>4 DEF Visible
  <2> QED
    BY <2>7, <2>8
<1>8. ASSUME NEW t \in Threads, Pin(t) PROVE Named1(t)'
  <2> DEFINE p == IF th[t].pc = "pin" THEN th[t].path ELSE th[t].to
  <2>1. /\ th[t].pc \in {"pin", "pin2"} /\ th[t].path \in Paths /\ th[t].to # th[t].path
        /\ th[t].to \in Paths \cup {None}
        /\ th[t].pc = "pin2" => th[t].to \in Paths
    BY <1>1, <1>8, Parts DEF Pin, GoodStep
  <2>2. overlay[th[t].path] > 0 /\ (th[t].pc = "pin2" => overlay[th[t].to] > 0)
    BY <1>1, <2>1 DEF NameInv, Named
  <2>3. /\ UNCHANGED <<tree, overlay>>
        /\ \A h \in Handles : open'[h].path = open[h].path
        /\ \A h \in Handles :
             \/ open'[h] = open[h] /\ ~(overlay[p] > 0 /\ open[h].path = p /\ open[h].cache.gen # -1)
             \/ open'[h].cache = [gen |-> -1, is |-> overlay[p]]
    BY <1>1, <1>8, PinEffect DEF Pin
  <2>4. \A h \in Handles : open[h].path = p => open'[h].cache.gen = -1
    BY <2>1, <2>2, <2>3
  <2>5. \A h \in Handles : open[h].cache.gen = -1 => open'[h].cache.gen = -1
    BY <2>3
  <2>6. \/ Goes(t, "remove") /\ th[t].to = None
        \/ Goes(t, "ensure2") /\ Visible(th[t].to)
        \/ Goes(t, "rename") /\ th[t].to # None /\ (th[t].pc = "pin2" \/ ~Visible(th[t].to))
    BY <1>8, <2>1 DEF Pin, AfterPin
  <2>7. {"remove", "ensure2", "rename"} \subseteq PCs
    BY DEF PCs
  <2>8. CASE Goes(t, "remove") /\ th[t].to = None
    <3>1. th'[t].pc = "remove" /\ th'[t].path = th[t].path /\ th[t].pc = "pin"
      BY <1>1, <2>1, <2>7, <2>8, GoesEffect, Constants
    <3> QED
      BY <2>2, <2>3, <2>4, <3>1 DEF Visible, OpenAt
  <2>9. CASE Goes(t, "ensure2") /\ Visible(th[t].to)
    <3>1. th'[t].pc = "ensure2" /\ th'[t].path = th[t].path /\ th'[t].to = th[t].to
      BY <1>1, <2>7, <2>9, GoesEffect
    <3> QED
      BY <2>2, <2>3, <2>9, <3>1 DEF Visible
  <2>10. CASE Goes(t, "rename") /\ th[t].to # None /\ (th[t].pc = "pin2" \/ ~Visible(th[t].to))
    <3>1. th'[t].pc = "rename" /\ th'[t].path = th[t].path /\ th'[t].to = th[t].to
      BY <1>1, <2>7, <2>10, GoesEffect
    <3>2. th[t].to \in Paths
      BY <2>1, <2>10
    <3>3. \A h \in Handles : open[h].path = th[t].to => open'[h].cache.gen = -1
      <4>1. CASE th[t].pc = "pin2"
        BY <2>4, <4>1
      <4>2. CASE ~Visible(th[t].to)
        BY <1>1, <2>5, <3>2, <4>2 DEF OpenInv, HasFile
      <4> QED
        BY <2>10, <4>1, <4>2
    <3> QED
      BY <2>2, <2>3, <3>1, <3>3 DEF Visible, OpenAt
  <2> QED
    BY <2>6, <2>8, <2>9, <2>10
<1>9. ASSUME NEW t \in Threads, Remove(t) \/ Move(t), th'[t].pc \in Named PROVE FALSE
  <2>1. Done(t)
    <3>1. CASE Remove(t)
      BY <3>1 DEF Remove
    <3>2. CASE Move(t)
      <4>1. th[t].pc = "rename" /\ overlay[th[t].path] > 0
        BY <1>1, <3>2 DEF Move, NameInv, Named
      <4> QED
        BY <3>2, <4>1 DEF Move, Renamed, Ends
    <3> QED
      BY <1>9, <3>1, <3>2
  <2> QED
    BY <1>1, <1>9, <2>1, DoneEffect, Constants DEF Named
<1>10. ASSUME NEW t \in Threads, ActsOf(t) PROVE Named1(t)'
  <2>1. CASE SharedBy(t)
    BY <1>1, <1>2, <2>1, SharedSteps
  <2>2. CASE ~SharedBy(t)
    BY <1>2, <1>6, <1>7, <1>8, <1>9, <1>10, <2>2 DEF ActsOf, SharedBy
  <2> QED
    BY <2>1, <2>2
<1> HIDE DEF Named1
<1>11. ASSUME NEW t \in Threads, NEW u \in Threads, u # t, ActsOf(u) PROVE Named1(t)'
  <2>1. th'[t] = th[t]
    BY <1>1, <1>11, OthersStay
  <2>2. th[t].pc \notin Named
    BY <1>5, <1>11
  <2> QED
    BY <1>2, <2>1, <2>2
<1>12. ASSUME NEW t \in Threads, UNCHANGED th, \A u \in Threads : ~ActsOf(u) PROVE Named1(t)'
  <2>1. CASE th[t].pc \notin Named
    BY <1>2, <1>12, <2>1
  <2>2. CASE th[t].pc \in Named
    <3>1. \/ \E i \in 1 .. MaxInodes, n \in 1 .. 2 : ForgetInode(i, n)
          \/ UNCHANGED vars
      BY <1>4, <1>12, <2>2, Zenon DEF Next, ActsOf
    <3>2. UNCHANGED <<tree, overlay, open>>
      BY <3>1 DEF ForgetInode, vars
    <3> QED
      BY <1>3, <1>12, <2>2, <3>2
  <2> QED
    BY <2>1, <2>2
<1>13. UNCHANGED th \/ \E u \in Threads : ActsOf(u)
  BY Frames DEF ActsOf
<1>14. \A t \in Threads : Named1(t)'
  BY <1>10, <1>11, <1>12, <1>13
<1> QED
  BY <1>14 DEF Named1, NameInv

LEMMA FilesInvInit == Init => FilesInv
<1> SUFFICES ASSUME Init PROVE FilesInv
  OBVIOUS
<1>1. Typed
  BY InitTyped
<1>2. /\ \A p \in Paths : overlay[p] = None
      /\ \A h \in Handles : open[h] = Closed
      /\ \A t \in Threads : th[t] = Idle
  BY DEF Init
<1>3. \A t \in Threads : th[t].pc = "idle"
  BY <1>2, Constants
<1>4. AloneInv /\ StepInv /\ NameInv
  BY <1>3 DEF AloneInv, StepInv, OnTrack, NameInv, Named
<1>5. FileInv
  BY <1>2 DEF FileInv, None
<1>6. OpenInv
  BY <1>2, Constants DEF OpenInv, HasFile
<1> QED
  BY <1>1, <1>4, <1>5, <1>6 DEF FilesInv

LEMMA FilesInvStep == ASSUME AnyTime = {}, FilesInv, [Next]_vars PROVE FilesInv'
<1>1. Typed'
  BY BaseStep, InodesStep, OpensStep, StepsStep DEF Typed, FilesInv
<1>2. AloneInv'
  BY AloneStep DEF FilesInv
<1>3. FileInv'
  BY FileStep DEF FilesInv
<1> QED
  BY <1>1, <1>2, <1>3, StepStep, NameStep, OpenStep DEF FilesInv

LEMMA FilesInvShows == FilesInv => KeepsItsFile
<1> SUFFICES ASSUME FilesInv, NEW h \in Handles, open[h] # Closed
             PROVE  /\ Shown(h).of \in {None, open[h].of}
                    /\ open[h].detached => open[h].cache.gen = -1 /\ Shown(h).of = open[h].of
  BY DEF KeepsItsFile
<1>1. open[h].path \in Paths /\ HasFile(h)
  BY DEF FilesInv, OpenInv, Typed, OpensTyped
<1>2. CASE open[h].cache.gen = -1
  <2>1. Shown(h).of = open[h].of
    BY <1>1, <1>2 DEF Shown, HasFile
  <2> QED
    BY <1>2, <2>1
<1>3. CASE open[h].cache.gen # -1
  <2>1. ~open[h].detached /\ ids[open[h].path] = open[h].of
    BY <1>1, <1>3 DEF HasFile
  <2>2. CASE open[h].cache.gen > 0 /\ open[h].cache.gen = gen
    BY <1>3, <2>1, <2>2 DEF Shown
  <2>3. CASE ~(open[h].cache.gen > 0 /\ open[h].cache.gen = gen)
    <3>1. Shown(h).of \in {ids[open[h].path], None}
      BY <1>3, <2>1, <2>3 DEF Shown
    <3> QED
      BY <2>1, <3>1
  <2> QED
    BY <2>1, <2>2, <2>3
<1> QED
  BY <1>2, <1>3

(* An open file never shows another file, however often files are renamed or  *)
(* created over one another and whatever is read, written and checked out     *)
(* meanwhile; when its own name is gone it has its backing file in its hands   *)
(* (pinOpenHandles, detachOpenHandles, moveOpenHandles).                     *)
THEOREM KeepsItsFileHolds ==
    ASSUME AnyTime = {} PROVE Spec => []KeepsItsFile
<1>1. Init => FilesInv
  BY FilesInvInit
<1>2. FilesInv /\ [Next]_vars => FilesInv'
  BY FilesInvStep
<1>3. FilesInv => KeepsItsFile
  BY FilesInvShows
<1> QED
  BY <1>1, <1>2, <1>3, PTL DEF Spec

-----------------------------------------------------------------------------
(* Inodes *)

(* An inode that answers is its path's, and of the file that is there. *)
IsFile(i) ==
    Usable(i) => /\ at[inodes[i].path] = i
                 /\ Visible(inodes[i].path) => ids[inodes[i].path] = inodes[i].of

InodesInv ==
    /\ \A p \in Paths : at[p] # 0 => inodes[at[p]].path = p /\ ~inodes[at[p]].stale
    /\ \A i \in 1 .. MaxInodes : IsFile(i)

(* A file appears only where the kernel has forgotten the one before.         *)
LEMMA Appears ==
    ASSUME AnyTime = {}, FilesInv, [Next]_vars, NEW p \in Paths, ~Visible(p), Visible(p)'
    PROVE  \/ Forgotten(p)
           \/ \E t \in Threads : th[t].pc = "rename" /\ overlay[th[t].path] > 0 /\ Renamed(t)
<1>1. /\ Typed /\ StepInv /\ NameInv /\ Len(files) \in Nat /\ tree \in [Paths -> Nat]
      /\ overlay \in [Paths -> {Deleted, None} \cup 1 .. Len(files)]
  BY Parts DEF FilesInv, Typed, BaseTyped
<1>2. ~(overlay'[p] = overlay[p] /\ tree'[p] = tree[p])
  BY DEF Visible
<1>3. ASSUME NEW q \in Paths, NEW c \in Nat, NEW k \in BOOLEAN, NEW w \in BOOLEAN, AddFile(q, c, k, w),
             UNCHANGED tree
      PROVE  q = p
  <2>1. \A r \in Paths \ {q} : overlay'[r] = overlay[r]
    BY <1>1, <1>3 DEF AddFile
  <2> QED
    BY <1>2, <1>3, <2>1
<1>4. ASSUME NEW q \in Paths, CreateFile(q) PROVE Forgotten(p)
  <2>1. q = p
    BY <1>1, <1>3, <1>4, CountEffect DEF CreateFile
  <2> QED
    BY <1>4, <2>1 DEF CreateFile
<1>5. ASSUME NEW h \in Handles, WriteDetached(h) PROVE FALSE
  BY <1>2, <1>5 DEF WriteDetached
<1>6. ASSUME NEW t \in Threads, Write(t) PROVE FALSE
  <2>1. th[t].pc = "write" /\ th[t].path \in Paths /\ UNCHANGED tree
    BY <1>1, <1>6 DEF Write, Typed, StepsTyped, GoodStep
  <2>2. \E b \in BOOLEAN : AddFile(th[t].path, NewContent, b, TRUE)
    BY <1>2, <1>6 DEF Write
  <2>3. th[t].path = p
    BY <1>1, <1>3, <2>1, <2>2, CountEffect
  <2>4. ~th[t].make
    BY <1>1, <2>1, <2>3 DEF StepInv, OnTrack
  <2>5. UNCHANGED overlay \/ Visible(p)
    BY <1>6, <2>3, <2>4 DEF Write, Visible
  <2> QED
    BY <1>2, <2>1, <2>5
<1>7. ASSUME NEW t \in Threads, Ensure(t) PROVE FALSE
  <2> DEFINE q == IF th[t].pc = "ensure" THEN th[t].path ELSE th[t].to
  <2>1. q \in Paths /\ UNCHANGED tree /\ tree[q] \in Nat /\ th[t].pc \in {"ensure", "ensure2"}
    BY <1>1, <1>7 DEF Ensure, Typed, StepsTyped, GoodStep
  <2>2. Visible(q)
    BY <1>1, <2>1 DEF NameInv, Named
  <2>3. AddFile(q, tree[q], FALSE, FALSE)
    BY <1>2, <1>7 DEF Ensure
  <2> HIDE DEF q
  <2>4. q = p
    BY <1>3, <2>1, <2>3
  <2> QED
    BY <2>2, <2>4
<1>8. ASSUME NEW t \in Threads, Remove(t) PROVE FALSE
  <2>1. th[t].path \in Paths /\ overlay' = [overlay EXCEPT ![th[t].path] = Deleted] /\ UNCHANGED tree
    BY <1>1, <1>8 DEF Remove, Typed, StepsTyped, GoodStep
  <2>2. p = th[t].path
    BY <1>1, <1>2, <2>1
  <2>3. overlay'[p] = Deleted
    BY <1>1, <2>1, <2>2
  <2> QED
    BY <2>3 DEF Visible, Deleted, None
<1>9. ASSUME NEW t \in Threads, Move(t) PROVE th[t].pc = "rename" /\ overlay[th[t].path] > 0 /\ Renamed(t)
  <2>1. th[t].pc = "rename" /\ overlay[th[t].path] > 0
    BY <1>1, <1>9 DEF Move, NameInv, Named
  <2> QED
    BY <1>9, <2>1 DEF Move
<1>10. ASSUME Transition PROVE Forgotten(p)
  <2>1. /\ overlay'[p] \in {overlay[p], None}
        /\ (overlay'[p] = None /\ tree'[p] # 0) => Forgotten(p)
    BY <1>10 DEF Transition
  <2>2. ~(overlay[p] > 0)
    BY DEF Visible
  <2> QED
    BY <2>1, <2>2 DEF Visible, None
<1>11. ~UNCHANGED <<gen, tree, overlay, files, ids, clock>>
  BY <1>2
<1> QED
  BY Frames, <1>4, <1>5, <1>6, <1>7, <1>8, <1>9, <1>10, <1>11

LEMMA InodesInvStep ==
    ASSUME AnyTime = {}, FilesInv, InodesInv, [Next]_vars PROVE InodesInv'
<1> DEFINE Renames == \E t \in Threads : th[t].pc = "rename" /\ overlay[th[t].path] > 0 /\ Renamed(t)
<1>1. /\ Typed /\ inodes \in [1 .. MaxInodes -> Inodes] /\ at \in [Paths -> 0 .. MaxInodes]
      /\ \A p \in Paths : at[p] # 0 => /\ inodes[at[p]].path = p /\ ~inodes[at[p]].stale
                                       /\ inodes[at[p]].cnt > 0 /\ at[p] \in 1 .. MaxInodes
      /\ \A i \in 1 .. MaxInodes : IsFile(i) /\ (inodes[i].cnt > 0 => inodes[i].path \in Paths)
      /\ MaxInodes \in Nat
  BY Constants DEF FilesInv, InodesInv, Typed, InodesTyped
<1>2. ASSUME ~Renames, UNCHANGED ids, NEW i \in 1 .. MaxInodes, Usable(i), inodes'[i].path = inodes[i].path,
             inodes'[i].of = inodes[i].of, at'[inodes[i].path] = at[inodes[i].path]
      PROVE  IsFile(i)'
  <2>1. PICK p \in Paths : p = inodes[i].path
    BY <1>1, <1>2 DEF Usable
  <2>2. at[p] = i /\ (Visible(p) => ids[p] = inodes[i].of) /\ inodes'[i].path = p
    BY <1>1, <1>2, <2>1 DEF IsFile
  <2>3. ASSUME Visible(p)' PROVE ids[p] = inodes[i].of
    <3>1. Visible(p) \/ Forgotten(p)
      BY <1>2, <2>3, Appears
    <3>2. Forgotten(p) => ids[p] = inodes[i].of
      BY <2>2 DEF Forgotten
    <3> QED
      BY <2>2, <3>1, <3>2
  <2> QED
    BY <1>2, <2>1, <2>2, <2>3 DEF IsFile
<1>3. ASSUME ~Renames, UNCHANGED <<ids, inodes, at>> PROVE InodesInv'
  <2>1. \A i \in 1 .. MaxInodes : Usable(i)' => Usable(i)
    BY <1>3 DEF Usable
  <2>2. \A i \in 1 .. MaxInodes : IsFile(i)'
    BY <1>2, <1>3, <2>1 DEF IsFile
  <2> QED
    BY <1>1, <1>3, <2>2 DEF InodesInv
<1>4. ASSUME ~Renames, UNCHANGED ids, NEW p \in Paths, NEW i \in 1 .. MaxInodes, Alloc(p, i), Forgotten(p)
      PROVE  InodesInv'
  <2>1. /\ at'[p] = i /\ \A q \in Paths \ {p} : at'[q] = at[q]
        /\ \A k \in (1 .. MaxInodes) \ {i} : inodes'[k] = inodes[k]
        /\ inodes'[i].cnt > 0
        /\ \/ /\ at[p] = i /\ inodes'[i].path = inodes[i].path /\ inodes'[i].stale = inodes[i].stale
              /\ inodes'[i].of = inodes[i].of
           \/ /\ at[p] = 0 /\ inodes[i] = Free
              /\ inodes'[i] = [path |-> p, cnt |-> 1, stale |-> FALSE, of |-> ids[p]]
    BY <1>1, <1>4, AllocEffect
  <2>2. inodes'[i].path = p /\ ~inodes'[i].stale
    BY <1>1, <2>1
  <2>3. \A q \in Paths \ {p} : at[q] # 0 => at[q] # i
    <3>1. Free.path = None /\ None \notin Paths
      BY Constants DEF Free
    <3> QED
      BY <1>1, <2>1, <3>1
  <2>4. \A q \in Paths : at'[q] # 0 => inodes'[at'[q]].path = q /\ ~inodes'[at'[q]].stale
    BY <1>1, <2>1, <2>2, <2>3
  <2>5. IsFile(i)'
    <3>1. CASE at[p] = i
      <4>1. Usable(i) /\ inodes[i].path = p
        BY <1>1, <3>1 DEF Usable
      <4>2. inodes'[i].path = inodes[i].path /\ inodes'[i].of = inodes[i].of /\ at'[p] = at[p]
        BY <2>1, <2>2, <3>1, <4>1, Constants
      <4> QED
        BY <1>2, <1>4, <4>1, <4>2
    <3>2. CASE at[p] # i
      BY <1>4, <2>1, <2>2, <3>2 DEF IsFile
    <3> QED
      BY <3>1, <3>2
  <2>6. ASSUME NEW k \in (1 .. MaxInodes) \ {i} PROVE IsFile(k)'
    <3>1. CASE Usable(k)
      <4>1. inodes[k].path # p /\ inodes[k].path \in Paths
        BY <1>1, <2>1, <2>6, <3>1 DEF IsFile, Usable
      <4>2. inodes'[k] = inodes[k] /\ at'[inodes[k].path] = at[inodes[k].path]
        BY <2>1, <2>6, <4>1
      <4> QED
        BY <1>2, <1>4, <3>1, <4>2
    <3>2. CASE ~Usable(k)
      BY <2>1, <3>2 DEF IsFile, Usable
    <3> QED
      BY <3>1, <3>2
  <2> QED
    BY <2>4, <2>5, <2>6 DEF InodesInv
<1>5. ASSUME ~Renames, NEW i \in 1 .. MaxInodes, NEW n \in 1 .. 2, ForgetInode(i, n) PROVE InodesInv'
  <2>1. /\ \A p \in Paths : at'[p] = at[p] \/ (at[p] = i /\ at'[p] = 0)
        /\ \A k \in (1 .. MaxInodes) \ {i} : inodes'[k] = inodes[k]
        /\ \/ inodes'[i].cnt = 0 /\ \A p \in Paths : at'[p] # i
           \/ /\ inodes'[i].cnt > 0 /\ inodes[i].cnt > 0 /\ inodes'[i].path = inodes[i].path
              /\ inodes'[i].stale = inodes[i].stale /\ inodes'[i].of = inodes[i].of
              /\ \A p \in Paths : at'[p] = at[p]
        /\ UNCHANGED ids
    BY <1>1, <1>5, ForgetEffect DEF ForgetInode
  <2>2. \A q \in Paths : at'[q] # 0 => inodes'[at'[q]].path = q /\ ~inodes'[at'[q]].stale
    BY <1>1, <2>1
  <2>3. ASSUME NEW k \in 1 .. MaxInodes PROVE IsFile(k)'
    <3>1. CASE ~(Usable(k)')
      BY <3>1 DEF IsFile
    <3>2. CASE Usable(k)'
      <4>1. Usable(k) /\ inodes'[k].path = inodes[k].path /\ inodes'[k].of = inodes[k].of
        BY <2>1, <3>2 DEF Usable
      <4>2. inodes[k].path \in Paths /\ at[inodes[k].path] = k
        BY <1>1, <4>1 DEF Usable, IsFile
      <4>3. at'[inodes[k].path] = at[inodes[k].path]
        BY <2>1, <3>2, <4>2 DEF Usable
      <4> QED
        BY <1>2, <1>5, <2>1, <4>1, <4>3
    <3> QED
      BY <3>1, <3>2
  <2> QED
    BY <2>2, <2>3 DEF InodesInv
<1>6. ASSUME NEW t \in Threads, Remove(t) PROVE InodesInv'
  <2> DEFINE p == th[t].path
  <2>1. /\ p \in Paths /\ UNCHANGED <<inodes, at, tree>>
        /\ overlay' = [overlay EXCEPT ![p] = Deleted] /\ ids' = [ids EXCEPT ![p] = clock.file + 1]
        /\ overlay \in [Paths -> {Deleted, None} \cup 1 .. Len(files)] /\ ids \in [Paths -> 1 .. clock.file]
    BY <1>1, <1>6 DEF Remove, Typed, StepsTyped, GoodStep, BaseTyped
  <2> HIDE DEF p
  <2>2. overlay'[p] = Deleted /\ \A q \in Paths \ {p} : overlay'[q] = overlay[q] /\ ids'[q] = ids[q]
    BY <2>1
  <2>3. ASSUME NEW i \in 1 .. MaxInodes, Usable(i)' PROVE IsFile(i)'
    <3>1. PICK q \in Paths : q = inodes[i].path /\ Usable(i)
      BY <1>1, <2>1, <2>3 DEF Usable
    <3>2. at[q] = i /\ (Visible(q) => ids[q] = inodes[i].of)
      BY <1>1, <3>1 DEF IsFile
    <3>3. Visible(q)' => ids'[q] = inodes[i].of
      BY <2>1, <2>2, <3>2 DEF Visible, Deleted, None
    <3> QED
      BY <2>1, <3>1, <3>2, <3>3 DEF IsFile
  <2>4. \A i \in 1 .. MaxInodes : IsFile(i)'
    BY <2>3 DEF IsFile
  <2> QED
    BY <1>1, <2>1, <2>4 DEF InodesInv
<1>7. ASSUME NEW t \in Threads, th[t].pc = "rename", overlay[th[t].path] > 0, Renamed(t) PROVE InodesInv'
  <2> DEFINE p == th[t].path
             q == th[t].to
  <2>1. /\ p \in Paths /\ q \in Paths /\ p # q /\ overlay[p] > 0
        /\ MoveEntry(p, q) /\ MoveInodes(p, q) /\ UNCHANGED tree
    BY <1>1, <1>7 DEF Renamed, Ends, Typed, StepsTyped, GoodStep
  <2> HIDE DEF p, q
  <2>2. /\ ids'[q] = ids[p] /\ \A r \in Paths \ {p, q} : overlay'[r] = overlay[r] /\ ids'[r] = ids[r]
    BY <1>1, <2>1, MoveEffect
  <2>3. /\ at'[q] = at[p] /\ at'[p] = 0 /\ \A r \in Paths \ {p, q} : at'[r] = at[r]
        /\ \A i \in 1 .. MaxInodes :
             /\ inodes'[i].cnt = inodes[i].cnt /\ inodes'[i].of = inodes[i].of
             /\ \/ at[p] = i /\ inodes'[i].path = q /\ inodes'[i].stale = inodes[i].stale
                \/ at[p] # i /\ at[q] = i /\ inodes'[i].path = inodes[i].path /\ inodes'[i].stale
                \/ at[p] # i /\ at[q] # i /\ inodes'[i] = inodes[i]
    BY <1>1, <2>1, MoveInodesEffect
  <2>4. \A r \in Paths : at'[r] # 0 => inodes'[at'[r]].path = r /\ ~inodes'[at'[r]].stale
    <3>1. ASSUME NEW r \in Paths \ {p, q}, at[r] # 0 PROVE at[r] # at[p] /\ at[r] # at[q]
      BY <1>1, <2>1, <3>1
    <3> QED
      BY <1>1, <2>1, <2>3, <3>1
  <2>5. ASSUME NEW i \in 1 .. MaxInodes, Usable(i)' PROVE IsFile(i)'
    <3>1. Usable(i) /\ inodes[i].path \in Paths /\ at[inodes[i].path] = i
      BY <1>1, <2>3, <2>5 DEF Usable, IsFile
    <3>2. CASE at[p] = i
      <4>1. inodes'[i].path = q /\ at'[q] = i /\ inodes'[i].of = inodes[i].of
        BY <2>3, <3>2
      <4>2. inodes[i].path = p /\ i # 0
        BY <1>1, <2>1, <3>2
      <4>3. ids[p] = inodes[i].of
        BY <1>1, <2>1, <3>1, <4>2 DEF IsFile, Visible
      <4> QED
        BY <2>2, <4>1, <4>3 DEF IsFile
    <3>3. CASE at[p] # i
      <4>1. inodes'[i] = inodes[i] /\ at[q] # i
        BY <2>3, <2>5, <3>3 DEF Usable
      <4>2. PICK r \in Paths \ {p, q} : r = inodes[i].path
        BY <3>1, <3>3, <4>1
      <4>3. at'[r] = i /\ overlay'[r] = overlay[r] /\ ids'[r] = ids[r]
        BY <2>2, <2>3, <3>1, <4>2
      <4>4. Visible(r) => ids[r] = inodes[i].of
        BY <1>1, <3>1, <4>2 DEF IsFile
      <4> QED
        BY <2>1, <4>1, <4>2, <4>3, <4>4 DEF IsFile, Visible
    <3> QED
      BY <3>2, <3>3
  <2>6. \A i \in 1 .. MaxInodes : IsFile(i)'
    BY <2>5 DEF IsFile
  <2> QED
    BY <2>4, <2>6 DEF InodesInv
<1>8. UNCHANGED ids \/ (\E t \in Threads : Remove(t)) \/ Renames
  BY <1>1, QuietSteps DEF Quiet
<1>9. ASSUME NEW p \in Paths, LookUpInode(p) \/ CreateFile(p), ~Renames PROVE InodesInv'
  BY <1>4, <1>9 DEF LookUpInode, CreateFile
<1>10. ASSUME NEW t \in Threads, Move(t), ~Renames, ~Remove(t) PROVE UNCHANGED <<inodes, at>>
  BY <1>10 DEF Move, RenameAgain
<1>11. ASSUME ~Renames, \A t \in Threads : ~Remove(t) PROVE InodesInv'
  <2>1. UNCHANGED ids
    BY <1>8, <1>11
  <2>2. \A t \in Threads : Move(t) => UNCHANGED <<inodes, at>>
    BY <1>10, <1>11
  <2>3. UNCHANGED <<inodes, at>> => InodesInv'
    BY <1>3, <1>11, <2>1
  <2> HIDE DEF Renames
  <2> QED
    BY Frames, <1>5, <1>9, <1>11, <2>2, <2>3
<1> QED
  BY <1>6, <1>7, <1>11

(* The kernel's inode of a file is at the file's path wherever it was renamed  *)
(* to, and one that was replaced answers for no file (allocInode,            *)
(* moveInodePath, ForgetInode).                                              *)
THEOREM InodeIsFileHolds ==
    ASSUME AnyTime = {} PROVE Spec => []InodeIsFile
<1>1. Init => FilesInv /\ InodesInv
  <2> SUFFICES ASSUME Init PROVE FilesInv /\ InodesInv
    OBVIOUS
  <2>1. (\A p \in Paths : at[p] = 0) /\ \A i \in 1 .. MaxInodes : inodes[i].cnt = 0
    BY Constants DEF Init
  <2> QED
    BY <2>1, FilesInvInit DEF InodesInv, IsFile, Usable
<1>2. FilesInv /\ InodesInv /\ [Next]_vars => (FilesInv /\ InodesInv)'
  BY FilesInvStep, InodesInvStep
<1>3. InodesInv => InodeIsFile
  BY DEF InodesInv, IsFile, InodeIsFile
<1> QED
  BY <1>1, <1>2, <1>3, PTL DEF Spec

-----------------------------------------------------------------------------
(* Writes *)

Written(p) == overlay[p] > 0 /\ files[overlay[p]].written
Closing(p) == \E t \in Threads : th[t].pc = "close" /\ th[t].path = p

(* After a write no descriptor of the path is good but that of its file; of    *)
(* the files being opened neither, and a read that began before keeps nothing. *)
UpToDate(h) ==
    open[h].path \in Paths /\ ~open[h].detached /\ Written(open[h].path) /\ ~Closing(open[h].path) =>
      open[h].cache.gen # gen /\ (open[h].cache.gen = -1 => open[h].cache.is = overlay[open[h].path])

OpensUpToDate(t) ==
    th[t].pc = "register" /\ Written(th[t].path) => /\ th[t].cache.gen = -1
                                                    /\ th[t].cache.is = overlay[th[t].path]

KeepsUpToDate(t) ==
    th[t].pc = "keep" /\ t \in open[th[t].handle].reads /\ th[t].cache.gen = gen /\ Written(th[t].path)
      => Closing(th[t].path)

WritesInv == /\ \A h \in Handles : UpToDate(h)
             /\ \A t \in Threads : OpensUpToDate(t) /\ KeepsUpToDate(t)

(* How a path comes to be written. *)
LEMMA WrittenBy ==
    ASSUME AnyTime = {}, FilesInv, [Next]_vars, NEW p \in Paths, Written(p)'
    PROVE  \/ Written(p) /\ overlay'[p] = overlay[p]
           \/ CreateFile(p)
           \/ \E t \in Threads : /\ Write(t) /\ th[t].path = p /\ th'[t].pc = "close" /\ th'[t].path = p
           \/ \E t \in Threads : /\ th[t].pc = "rename" /\ overlay[th[t].path] > 0 /\ Renamed(t)
                                 /\ th[t].to = p /\ Written(th[t].path)
<1> DEFINE Same == Written(p) /\ overlay'[p] = overlay[p]
<1>1. /\ Typed /\ NameInv /\ Len(files) \in Nat /\ files \in Seq(Files) /\ tree \in [Paths -> Nat]
      /\ overlay \in [Paths -> {Deleted, None} \cup 1 .. Len(files)]
  BY Parts DEF FilesInv, Typed, BaseTyped
<1>2. overlay[p] > 0 => overlay[p] \in 1 .. Len(files)
  BY <1>1 DEF Deleted, None
<1>3. ASSUME overlay'[p] \in {overlay[p], None},
             \A k \in 1 .. Len(files) : files'[k].written = files[k].written
      PROVE  Same
  BY <1>2, <1>3 DEF Written, None
<1>4. ASSUME NEW q \in Paths, NEW c \in Nat, NEW k \in BOOLEAN, NEW w \in BOOLEAN, AddFile(q, c, k, w)
      PROVE  (p # q => Same) /\ (p = q => w)
  <2>1. /\ \A i \in 1 .. Len(files) : files'[i] = files[i]
        /\ files'[Len(files) + 1] = [of |-> ids[q], content |-> c, create |-> k, written |-> w]
        /\ overlay'[q] = Len(files) + 1
        /\ \A r \in Paths \ {q} : overlay'[r] = overlay[r]
    BY <1>1, <1>4, AddFileEffect
  <2> QED
    BY <1>3, <2>1 DEF Written
<1>5. ASSUME NEW q \in Paths, CreateFile(q) PROVE Same \/ CreateFile(p)
  BY <1>1, <1>4, <1>5, CountEffect DEF CreateFile
<1>6. ASSUME NEW h \in Handles, WriteDetached(h) PROVE Same
  <2> DEFINE k == open[h].cache.is
             f == [files[k] EXCEPT !.content = NewContent]
  <2>1. k \in 1 .. Len(files) /\ files[k] \in Files
    BY <1>1, <1>6, Parts DEF WriteDetached, Typed, OpensTyped, Good
  <2>2. f \in Files /\ f.written = files[k].written
    BY <1>1, <2>1, CountEffect DEF Files
  <2>3. files' = [files EXCEPT ![k] = f] /\ UNCHANGED overlay
    BY <1>1, <1>6, <2>1 DEF WriteDetached
  <2> HIDE DEF k, f
  <2>4. \A i \in 1 .. Len(files) : files'[i].written = files[i].written
    BY <1>1, <2>1, <2>2, <2>3, RewriteEffect
  <2> QED
    BY <1>3, <2>3, <2>4
<1>7. ASSUME NEW t \in Threads, Write(t)
      PROVE  Same \/ (th[t].path = p /\ th'[t].pc = "close" /\ th'[t].path = p)
  <2> DEFINE q == th[t].path
  <2>1. q \in Paths
    BY <1>1, <1>7 DEF Write, Typed, StepsTyped, GoodStep
  <2>2. /\ \/ /\ overlay[q] > 0 /\ UNCHANGED overlay
              /\ files' = [files EXCEPT ![overlay[q]].content = NewContent, ![overlay[q]].written = TRUE]
           \/ \E b \in BOOLEAN : AddFile(q, NewContent, b, TRUE)
           \/ UNCHANGED <<overlay, files>>
        /\ Goes(t, "close") \/ UNCHANGED <<overlay, files>>
    BY <1>7 DEF Write
  <2>3. Goes(t, "close") => th'[t].pc = "close" /\ th'[t].path = q
    BY <1>1, GoesEffect DEF PCs
  <2> HIDE DEF q
  <2>4. CASE p # q
    <3>1. CASE \E b \in BOOLEAN : AddFile(q, NewContent, b, TRUE)
      BY <1>1, <1>4, <2>1, <2>4, <3>1, CountEffect
    <3>2. CASE overlay[q] > 0 /\ UNCHANGED overlay
               /\ files' = [files EXCEPT ![overlay[q]].content = NewContent, ![overlay[q]].written = TRUE]
      <4> DEFINE f == [files[overlay[q]] EXCEPT !.content = NewContent, !.written = TRUE]
      <4>1. overlay[q] \in {Deleted, None} \cup 1 .. Len(files)
        BY <1>1, <2>1
      <4>2. overlay[q] \in 1 .. Len(files)
        BY <3>2, <4>1 DEF Deleted, None
      <4>3. f \in Files
        BY <1>1, <4>2, Parts, CountEffect DEF Files
      <4>4. files' = [files EXCEPT ![overlay[q]] = f]
        BY <1>1, <3>2, <4>2
      <4> HIDE DEF f
      <4>5. \A k \in (1 .. Len(files)) \ {overlay[q]} : files'[k] = files[k]
        BY <1>1, <4>2, <4>3, <4>4, RewriteEffect
      <4>6. overlay[p] # overlay[q] \/ ~(overlay[p] > 0)
        <5>1. ASSUME overlay[p] > 0, overlay[p] = overlay[q] PROVE ids[p] = ids[q]
          BY <2>1, <3>2, <5>1 DEF FilesInv, FileInv
        <5>2. ids[p] # ids[q]
          BY <1>1, <2>1, <2>4 DEF Typed, BaseTyped
        <5> QED
          BY <5>1, <5>2
      <4> QED
        BY <1>2, <3>2, <4>5, <4>6 DEF Written
    <3>3. CASE UNCHANGED <<overlay, files>>
      BY <1>3, <3>3
    <3> QED
      BY <2>2, <3>1, <3>2, <3>3
  <2>5. CASE p = q
    BY <1>3, <2>2, <2>3, <2>5 DEF q
  <2> QED
    BY <2>4, <2>5
<1>8. ASSUME NEW t \in Threads, Ensure(t) PROVE Same
  <2> DEFINE q == IF th[t].pc = "ensure" THEN th[t].path ELSE th[t].to
  <2>1. q \in Paths /\ tree[q] \in Nat
    BY <1>1, <1>8 DEF Ensure, Typed, StepsTyped, GoodStep
  <2>2. AddFile(q, tree[q], FALSE, FALSE) \/ UNCHANGED <<overlay, files>>
    BY <1>8 DEF Ensure
  <2> HIDE DEF q
  <2> QED
    BY <1>3, <1>4, <2>1, <2>2
<1>9. ASSUME NEW t \in Threads, Remove(t) PROVE Same
  <2>1. overlay'[p] \in {overlay[p], Deleted} /\ UNCHANGED files
    BY <1>1, <1>9 DEF Remove
  <2> QED
    BY <1>2, <2>1 DEF Written, Deleted
<1>10. ASSUME NEW t \in Threads, Move(t)
       PROVE  Same \/ /\ th[t].pc = "rename" /\ overlay[th[t].path] > 0 /\ Renamed(t)
                      /\ th[t].to = p /\ Written(th[t].path)
  <2> DEFINE q == th[t].path
             r == th[t].to
  <2>1. th[t].pc = "rename" /\ overlay[q] > 0 /\ q \in Paths /\ r \in Paths /\ q # r
    BY <1>1, <1>10 DEF Move, NameInv, Named, Typed, StepsTyped, GoodStep
  <2>2. Renamed(t) /\ MoveEntry(q, r)
    BY <1>10, <2>1 DEF Move, Renamed
  <2> HIDE DEF q, r
  <2>3. /\ overlay'[r] = overlay[q] /\ overlay'[q] \in {None, Deleted}
        /\ \A x \in Paths \ {q, r} : overlay'[x] = overlay[x]
        /\ \A k \in 1 .. Len(files) : files'[k].written = files[k].written
    BY <1>1, <2>1, <2>2, MoveEffect
  <2>4. CASE p = r
    <3>1. overlay[q] \in {Deleted, None} \cup 1 .. Len(files)
      BY <1>1, <2>1
    <3>2. Written(q)
      BY <2>1, <2>3, <2>4, <3>1 DEF Written, Deleted, None
    <3> QED
      BY <2>1, <2>2, <2>4, <3>2 DEF q, r
  <2>5. CASE p # r
    BY <1>3, <2>3, <2>5 DEF Written, Deleted
  <2> QED
    BY <2>4, <2>5
<1>11. ASSUME Transition PROVE Same
  BY <1>3, <1>11 DEF Transition
<1>12. CASE UNCHANGED <<gen, tree, overlay, files, ids, clock>>
  BY <1>3, <1>12
<1> QED
  BY Frames, <1>5, <1>6, <1>7, <1>8, <1>9, <1>10, <1>11, <1>12

(* A thread that has written closes what is kept. *)
LEMMA ClosingEnds ==
    ASSUME Typed, [Next]_vars, NEW p \in Paths, Closing(p), ~(Closing(p)')
    PROVE  \E t \in Threads : Close(t) /\ th[t].path = p
<1>1. PICK t \in Threads : th[t].pc = "close" /\ th[t].path = p
  BY DEF Closing
<1>2. th'[t] # th[t]
  BY <1>1 DEF Closing
<1>3. PICK u \in Threads : ActsOf(u)
  BY <1>2, Frames DEF ActsOf
<1>4. u = t
  BY <1>2, <1>3, OthersStay
<1>5. Close(t)
  <2>1. ~Shares(t) /\ ~Alone
    BY <1>1 DEF Shares, Alone
  <2>2. \A i \in 1 .. MaxInodes : ~OpenFile(t, i) /\ ~Truncate(t, i)
    BY <2>1 DEF OpenFile, Truncate
  <2>3. \A h \in Handles : ~ReadFile(t, h) /\ ~WriteFile(t, h)
    BY <2>1 DEF ReadFile, WriteFile
  <2>4. \A q, r \in Paths : ~Unlink(t, q) /\ ~Rename(t, q, r)
    BY <2>1 DEF Unlink, Rename
  <2>5. ~Register(t) /\ ~Fetch(t) /\ ~Keep(t) /\ ~Write(t) /\ ~Ensure(t) /\ ~Pin(t) /\ ~Remove(t) /\ ~Move(t)
    BY <1>1 DEF Register, Fetch, Keep, Write, Ensure, Pin, Remove, Move
  <2> QED
    BY <1>3, <1>4, <2>2, <2>3, <2>4, <2>5 DEF ActsOf
<1> QED
  BY <1>1, <1>5

(* What a step does to an open file, and which reads of it go on. *)
OpenMoves(h) ==
    \/ /\ open'[h].path = open[h].path /\ open'[h].detached = open[h].detached
       /\ open'[h].cache \in {open[h].cache, NoCache}
    \/ \E p \in Paths : CreateFile(p) /\ open'[h].cache = NoCache
    \/ \E t \in Threads : /\ Register(t) /\ th[t].path \in Paths
                          /\ open'[h].path = th[t].path /\ open'[h].cache = th[t].cache
    \/ open'[h].path = None
    \/ \E t \in Threads : /\ Keep(t) /\ h = th[t].handle /\ open'[h].path = open[h].path
                          /\ open'[h].cache = th[t].cache /\ th[t].cache.gen = gen /\ t \in open[h].reads
    \/ \E t \in Threads : /\ Pin(t) /\ open'[h].path = open[h].path
                          /\ open'[h].cache = [gen |-> -1, is |-> overlay[open[h].path]]
    \/ open'[h].detached
    \/ \E t \in Threads : /\ th[t].pc = "rename" /\ overlay[th[t].path] > 0 /\ Renamed(t)
                          /\ open[h].path = th[t].path /\ open'[h].path = th[t].to
                          /\ open'[h].cache = open[h].cache /\ open'[h].detached = open[h].detached

LEMMA OpenChanges ==
    ASSUME AnyTime = {}, FilesInv, [Next]_vars, NEW h \in Handles
    PROVE  /\ OpenMoves(h)
           /\ open'[h].reads \subseteq open[h].reads \cup {t \in Threads : th[t].pc = "idle"}
<1> DEFINE Same == /\ open'[h].path = open[h].path /\ open'[h].detached = open[h].detached
                   /\ open'[h].cache \in {open[h].cache, NoCache}
           Reads == open'[h].reads \subseteq open[h].reads \cup {t \in Threads : th[t].pc = "idle"}
<1>1. Typed /\ open \in [Handles -> Opens] /\ NameInv
  BY DEF FilesInv, Typed, OpensTyped
<1>2. Same => OpenMoves(h)
  BY DEF OpenMoves
<1>3. ASSUME UNCHANGED open PROVE Same /\ Reads
  BY <1>3
<1>4. ASSUME NEW p \in Paths, CreateFile(p) PROVE OpenMoves(h) /\ Reads
  <2>1. PICK i \in 1 .. MaxInodes : Adds(p, i, NoCache)
    BY <1>4 DEF CreateFile
  <2>2. PICK k \in Handles : /\ \A g \in Handles \ {k} : open'[g] = open[g]
                             /\ open'[k].cache = NoCache /\ open'[k].reads = {}
    BY <1>1, <2>1, AddsEffect, Constants
  <2>3. CASE h = k
    BY <1>4, <2>2, <2>3 DEF OpenMoves
  <2>4. CASE h # k
    BY <1>2, <2>2, <2>4
  <2> QED
    BY <2>3, <2>4
<1>5. ASSUME NEW t \in Threads, Register(t) PROVE OpenMoves(h) /\ Reads
  <2>1. /\ th[t].path \in Paths /\ th[t].inode \in 0 .. MaxInodes /\ th[t].cache \in Caches
        /\ Adds(th[t].path, th[t].inode, th[t].cache)
    BY <1>1, <1>5, Parts DEF Register, Typed, StepsTyped, GoodStep
  <2>9. PICK p \in Paths, i \in 0 .. MaxInodes, c \in Caches :
          p = th[t].path /\ i = th[t].inode /\ c = th[t].cache /\ Adds(p, i, c)
    BY <2>1
  <2>2. PICK k \in Handles : /\ \A g \in Handles \ {k} : open'[g] = open[g]
                             /\ open'[k].path = p /\ open'[k].cache = c /\ open'[k].reads = {}
    <3>1. Adds(p, i, c)
      BY <2>9
    <3> QED
      BY <1>1, <3>1, AddsEffect
  <2>3. CASE h = k
    BY <1>5, <2>2, <2>3, <2>9 DEF OpenMoves
  <2>4. CASE h # k
    BY <1>2, <2>2, <2>4
  <2> QED
    BY <2>2, <2>3, <2>4
<1>6. ASSUME NEW k \in Handles, ReleaseFileHandle(k) PROVE OpenMoves(h) /\ Reads
  <2>1. open'[k] = Closed /\ \A g \in Handles \ {k} : open'[g] = open[g]
    BY <1>1, <1>6 DEF ReleaseFileHandle
  <2>2. CASE h = k
    BY <2>1, <2>2, Constants DEF OpenMoves
  <2>3. CASE h # k
    BY <1>2, <2>1, <2>3
  <2> QED
    BY <2>2, <2>3
<1>7. ASSUME NEW p \in Paths, CloseCached(p) PROVE Same /\ Reads
  BY <1>1, <1>7, CloseEffect
<1>8. ASSUME NEW t \in Threads,
             \/ \E i \in 1 .. MaxInodes : Truncate(t, i)
             \/ \E k \in Handles : WriteFile(t, k)
             \/ Close(t)
      PROVE  Same /\ Reads
  <2>1. ASSUME NEW i \in 1 .. MaxInodes, Truncate(t, i) PROVE Same /\ Reads
    BY <1>1, <1>7, <2>1, Parts DEF Truncate, Usable, Typed, InodesTyped
  <2>2. ASSUME NEW k \in Handles, WriteFile(t, k) PROVE Same /\ Reads
    BY <1>1, <1>7, <2>2 DEF WriteFile, Typed, OpensTyped
  <2>3. ASSUME Close(t) PROVE Same /\ Reads
    BY <1>1, <1>7, <2>3 DEF Close, Typed, StepsTyped, GoodStep
  <2> QED
    BY <1>8, <2>1, <2>2, <2>3
<1>9. ASSUME NEW t \in Threads, NEW k \in Handles, ReadFile(t, k) PROVE Same /\ Reads
  <2>1. th[t].pc = "idle"
    BY <1>9 DEF ReadFile, Shares
  <2>2. /\ open'[k].cache = NoCache /\ open'[k].reads \subseteq {t} \cup open[k].reads
        /\ \A g \in Handles \ {k} : open'[g] = open[g]
        /\ open'[h].path = open[h].path /\ open'[h].detached = open[h].detached
    BY <1>1, <1>9, ReadEffect
  <2> QED
    BY <2>1, <2>2
<1>10. ASSUME NEW t \in Threads, Fetch(t) PROVE Same /\ Reads
  <2>1. UNCHANGED open \/ /\ open'[h].cache = open[h].cache /\ open'[h].path = open[h].path
                          /\ open'[h].detached = open[h].detached /\ open'[h].reads \subseteq open[h].reads
    BY <1>1, <1>10, FetchEffect
  <2> QED
    BY <1>3, <2>1
<1>11. ASSUME NEW t \in Threads, Keep(t) PROVE OpenMoves(h) /\ Reads
  <2> DEFINE k == th[t].handle
  <2>1. /\ open'[k].reads \subseteq open[k].reads
        /\ \/ open'[k].cache = open[k].cache
           \/ open'[k].cache = th[t].cache /\ th[t].cache.gen = gen /\ t \in open[k].reads
        /\ \A g \in Handles \ {k} : open'[g] = open[g]
        /\ open'[h].path = open[h].path /\ open'[h].detached = open[h].detached
    BY <1>1, <1>11, KeepEffect
  <2>2. CASE h = k /\ open'[k].cache # open[k].cache
    BY <1>11, <2>1, <2>2 DEF OpenMoves
  <2>3. CASE h # k \/ open'[k].cache = open[k].cache
    BY <1>2, <2>1, <2>3
  <2>4. Reads
    BY <2>1
  <2> QED
    BY <2>2, <2>3, <2>4
<1>12. ASSUME NEW t \in Threads, Pin(t) PROVE OpenMoves(h) /\ Reads
  <2> DEFINE p == IF th[t].pc = "pin" THEN th[t].path ELSE th[t].to
  <2>1. /\ open'[h].path = open[h].path /\ open'[h].detached = open[h].detached /\ open'[h].reads = open[h].reads
        /\ \/ open'[h] = open[h]
           \/ open[h].path = p /\ open'[h].cache = [gen |-> -1, is |-> overlay[p]]
    BY <1>1, <1>12, PinEffect
  <2> HIDE DEF p
  <2>2. CASE open'[h] = open[h]
    BY <1>2, <2>1, <2>2
  <2>3. CASE open'[h] # open[h]
    BY <1>12, <2>1, <2>3 DEF OpenMoves
  <2> QED
    BY <2>1, <2>2, <2>3
<1>13. ASSUME NEW t \in Threads, Remove(t) PROVE OpenMoves(h) /\ Reads
  <2>1. /\ open'[h].reads = open[h].reads
        /\ open'[h].detached \/ open'[h] = open[h]
    BY <1>1, <1>13, RemoveEffect
  <2> QED
    BY <1>2, <2>1 DEF OpenMoves
<1>14. ASSUME NEW t \in Threads, Move(t) PROVE OpenMoves(h) /\ Reads
  <2>1. CASE ~(overlay[th[t].path] > 0)
    BY <1>2, <1>3, <1>14, <2>1 DEF Move, RenameAgain
  <2>2. CASE overlay[th[t].path] > 0
    <3>1. Renamed(t) /\ th[t].pc = "rename"
      BY <1>14, <2>2 DEF Move
    <3>2. /\ open'[h].cache = open[h].cache /\ open'[h].reads = open[h].reads
          /\ \/ open'[h].detached
             \/ /\ open[h].path = th[t].path /\ open'[h].path = th[t].to
                /\ open'[h].detached = open[h].detached
             \/ open'[h] = open[h]
      BY <1>1, <3>1, RenamedEffect
    <3>3. CASE open'[h] = open[h]
      BY <1>2, <3>2, <3>3
    <3>4. CASE open'[h] # open[h]
      BY <2>2, <3>1, <3>2, <3>4 DEF OpenMoves
    <3> QED
      BY <3>2, <3>3, <3>4
  <2> QED
    BY <2>1, <2>2
<1> HIDE DEF Same, Reads
<1>15. OpenMoves(h) /\ Reads
  BY Frames, <1>2, <1>3, <1>4, <1>5, <1>6, <1>8, <1>9, <1>10, <1>11, <1>12, <1>13, <1>14
<1> QED
  BY <1>15 DEF Reads

(* Who is alone closes nothing and neither opens nor reads. *)
LEMMA AloneIsAlone ==
    ASSUME FilesInv, NEW t \in Threads, th[t].pc \in Named
    PROVE  \A u \in Threads : th[u].pc \notin {"close", "register", "keep"}
  BY DEF FilesInv, AloneInv, Named

(* How a thread comes to open a file or to keep a descriptor. *)
LEMMA Begins ==
    ASSUME Typed, [Next]_vars, NEW t \in Threads
    PROVE  \/ th'[t] = th[t]
           \/ th'[t].pc \notin {"register", "keep"}
           \/ th'[t].pc = "register" /\ \E i \in 1 .. MaxInodes : OpenFile(t, i)
           \/ th'[t].pc = "keep" /\ Fetch(t)
<1> DEFINE Other == th'[t].pc \notin {"register", "keep"}
<1>1. th \in [Threads -> Steps] /\ th[t] \in Steps
  BY DEF Typed, StepsTyped
<1>2. ASSUME NEW s, th' = [th EXCEPT ![t] = s], s.pc \notin {"register", "keep"} PROVE Other
  BY <1>1, <1>2
<1>3. ASSUME NEW i \in 1 .. MaxInodes, OpenFile(t, i) PROVE th'[t].pc = "register"
  <2> DEFINE p == inodes[i].path
             c == IF overlay[p] > 0 THEN [gen |-> -1, is |-> overlay[p]] ELSE [gen |-> gen, is |-> tree[p]]
             s == [Idle EXCEPT !.pc = "register", !.path = p, !.inode = i, !.cache = c]
  <2>1. th' = [th EXCEPT ![t] = s]
    BY <1>3 DEF OpenFile
  <2>2. s.pc = "register"
    BY DEF Idle
  <2> HIDE DEF p, c, s
  <2> QED
    BY <1>1, <2>1, <2>2
<1>4. ASSUME NEW i \in 1 .. MaxInodes, Truncate(t, i) PROVE Other
  <2>1. [Idle EXCEPT !.pc = "write", !.path = inodes[i].path, !.inode = i].pc = "write"
    BY DEF Idle
  <2> QED
    BY <1>2, <1>4, <2>1 DEF Truncate
<1>5. ASSUME NEW h \in Handles, ReadFile(t, h) PROVE Other
  BY <1>5, ReadEffect
<1>6. ASSUME NEW h \in Handles, WriteFile(t, h) PROVE Other
  <2>1. [Idle EXCEPT !.pc = "write", !.handle = h, !.path = open[h].path, !.make = TRUE].pc = "write"
    BY DEF Idle
  <2> QED
    BY <1>2, <1>6, <2>1 DEF WriteFile
<1>7. ASSUME NEW p \in Paths, NEW q \in Paths, Unlink(t, p) \/ Rename(t, p, q) PROVE Other
  <2>1. [Idle EXCEPT !.pc = "ensure", !.path = p].pc = "ensure"
    BY DEF Idle
  <2>2. [Idle EXCEPT !.pc = "ensure", !.path = p, !.to = q].pc = "ensure"
    BY DEF Idle
  <2> QED
    BY <1>2, <1>7, <2>1, <2>2 DEF Unlink, Rename
<1>8. CASE Fetch(t)
  BY <1>8, FetchEffect, Constants
<1>9. CASE \/ Register(t) \/ Keep(t) \/ Write(t) \/ Close(t) \/ Ensure(t) \/ Pin(t) \/ Remove(t) \/ Move(t)
  <2>1. UNCHANGED th \/ Done(t) \/ \E pc \in PCs \ {"register", "keep"} : Goes(t, pc)
    <3>1. {"close", "pin", "pin2", "remove", "ensure2", "rename"} \subseteq PCs \ {"register", "keep"}
      BY DEF PCs
    <3> QED
      BY <1>9, <3>1 DEF Register, Keep, Write, Close, Ensure, Pin, AfterPin, Remove, Move, Renamed, Ends, RenameAgain
  <2>2. ASSUME NEW pc \in PCs \ {"register", "keep"}, Goes(t, pc) PROVE th'[t].pc = pc
    BY <2>2, GoesEffect
  <2>3. Typed
    OBVIOUS
  <2> QED
    BY <2>1, <2>2, <2>3, DoneEffect, Constants
<1> HIDE DEF Other
<1>10. ActsOf(t) => th'[t] = th[t] \/ Other \/ (th'[t].pc = "register" /\ \E i \in 1 .. MaxInodes : OpenFile(t, i))
                    \/ (th'[t].pc = "keep" /\ Fetch(t))
  BY <1>3, <1>4, <1>5, <1>6, <1>7, <1>8, <1>9 DEF ActsOf, Other
<1>11. ASSUME NEW u \in Threads \ {t}, ActsOf(u) PROVE th'[t] = th[t]
  BY <1>11, OthersStay
<1>12. UNCHANGED th \/ \E u \in Threads : ActsOf(u)
  BY Frames DEF ActsOf
<1> QED
  BY <1>10, <1>11, <1>12 DEF Other

LEMMA OpensUpToDateStep ==
    ASSUME AnyTime = {}, FilesInv, WritesInv, [Next]_vars, NEW t \in Threads
    PROVE  OpensUpToDate(t)'
<1>1. /\ Typed /\ th \in [Threads -> Steps] /\ OnTrack(t) /\ GoodStep(th[t], gen, Len(files))
      /\ OpensUpToDate(t)
  BY DEF FilesInv, StepInv, Typed, StepsTyped, WritesInv
<1>2. CASE th'[t] = th[t] /\ th[t].pc = "register"
  <2>1. PICK p \in Paths : p = th[t].path /\ Visible(p)
    BY <1>1, <1>2 DEF GoodStep, OnTrack
  <2>2. ASSUME Written(p)' PROVE th[t].cache.gen = -1 /\ th[t].cache.is = overlay'[p]
    <3>1. CASE Written(p) /\ overlay'[p] = overlay[p]
      BY <1>1, <1>2, <2>1, <3>1 DEF OpensUpToDate
    <3>2. ~CreateFile(p)
      BY <2>1 DEF CreateFile
    <3>3. ASSUME NEW u \in Threads, Write(u) PROVE th[u].path # p
      <4>1. "open" \notin AnyTime
        OBVIOUS
      <4> QED
        BY <1>2, <2>1, <3>3, <4>1 DEF Write
    <3>4. ASSUME NEW u \in Threads PROVE th[u].pc # "rename"
      BY <1>2, AloneIsAlone DEF Named
    <3> QED
      BY <2>2, <3>1, <3>2, <3>3, <3>4, WrittenBy
  <2>3. Written(p)' => (th[t].cache.gen = -1 /\ th[t].cache.is = overlay'[p])
    BY <2>2
  <2>4. th'[t].path = p /\ th'[t].cache = th[t].cache
    BY <1>2, <2>1
  <2> QED
    BY <2>3, <2>4 DEF OpensUpToDate, Written
<1>3. ASSUME NEW i \in 1 .. MaxInodes, OpenFile(t, i) PROVE OpensUpToDate(t)'
  <2> DEFINE p == inodes[i].path
             c == IF overlay[p] > 0 THEN [gen |-> -1, is |-> overlay[p]] ELSE [gen |-> gen, is |-> tree[p]]
             s == [Idle EXCEPT !.pc = "register", !.path = p, !.inode = i, !.cache = c]
  <2>1. th' = [th EXCEPT ![t] = s] /\ UNCHANGED <<overlay, files>>
    BY <1>3 DEF OpenFile
  <2>2. s.path = p /\ s.cache = c
    BY DEF Idle
  <2>3. overlay[p] > 0 => c.gen = -1 /\ c.is = overlay[p]
    OBVIOUS
  <2> HIDE DEF p, c, s
  <2>4. th'[t].path = p /\ th'[t].cache = c
    BY <1>1, <2>1, <2>2
  <2> QED
    BY <2>1, <2>3, <2>4 DEF OpensUpToDate, Written
<1>4. ASSUME th'[t].pc # "register" PROVE OpensUpToDate(t)'
  BY <1>4 DEF OpensUpToDate
<1>5. \/ th'[t] = th[t] \/ th'[t].pc # "register" \/ \E i \in 1 .. MaxInodes : OpenFile(t, i)
  BY <1>1, Begins
<1> QED
  BY <1>2, <1>3, <1>4, <1>5

(* When the last write of a path is over nothing is kept of it, and no read   *)
(* that is under way will keep anything.                                     *)
LEMMA ClosingCloses ==
    ASSUME FilesInv, [Next]_vars, NEW p \in Paths, Closing(p), ~(Closing(p)'),
           NEW h \in Handles, open[h].path = p, ~open[h].detached
    PROVE  open'[h].cache = NoCache /\ open'[h].reads = {}
<1>1. Typed
  BY DEF FilesInv
<1>2. PICK t \in Threads : Close(t) /\ th[t].path = p
  BY <1>1, ClosingEnds
<1>3. CloseCached(p)
  BY <1>2 DEF Close
<1> QED
  BY <1>1, <1>3, CloseEffect

LEMMA KeepsUpToDateStep ==
    ASSUME AnyTime = {}, FilesInv, WritesInv, [Next]_vars, NEW t \in Threads
    PROVE  KeepsUpToDate(t)'
<1>1. /\ Typed /\ OnTrack(t) /\ GoodStep(th[t], gen, Len(files)) /\ KeepsUpToDate(t)
      /\ gen <= gen' /\ gen \in Nat /\ gen' \in Nat /\ th[t].cache.gen \in -1 .. MaxHeads /\ MaxHeads \in Nat
  BY BaseStep, Parts, Constants DEF FilesInv, StepInv, Typed, StepsTyped, WritesInv
<1>2. CASE th'[t] = th[t] /\ th[t].pc = "keep"
  <2> DEFINE h == th[t].handle
  <2>1. PICK p \in Paths : p = th[t].path
    BY <1>1, <1>2 DEF GoodStep
  <2>2. h \in Handles /\ open[h].path = p /\ ~open[h].detached
    BY <1>1, <1>2, <2>1 DEF GoodStep, OnTrack
  <2>3. Visible(p)
    BY <2>1, <2>2 DEF FilesInv, OpenInv, HasFile
  <2> HIDE DEF h
  <2>4. ASSUME t \in open'[h].reads, th[t].cache.gen = gen', Written(p)' PROVE Closing(p)'
    <3>1. th[t].cache.gen = gen
      BY <1>1, <2>4 DEF GoodStep, Good
    <3>2. t \in open[h].reads
      BY <1>2, <2>2, <2>4, OpenChanges
    <3>3. CASE Written(p)
      <4>1. Closing(p)
        BY <1>1, <1>2, <2>1, <3>1, <3>2, <3>3 DEF KeepsUpToDate, h
      <4> QED
        BY <2>2, <2>4, <4>1, ClosingCloses
    <3>4. ~CreateFile(p)
      BY <2>3 DEF CreateFile
    <3>5. ASSUME NEW u \in Threads PROVE th[u].pc # "rename"
      BY <1>2, AloneIsAlone DEF Named
    <3>6. ASSUME NEW u \in Threads, th'[u].pc = "close", th'[u].path = p PROVE Closing(p)'
      BY <3>6 DEF Closing
    <3> QED
      BY <2>4, <3>3, <3>4, <3>5, <3>6, WrittenBy
  <2>5. (t \in open'[h].reads /\ th[t].cache.gen = gen' /\ Written(p)') => Closing(p)'
    BY <2>4
  <2>6. th'[t].path = p /\ th'[t].handle = h /\ th'[t].cache = th[t].cache
    BY <1>2, <2>1 DEF h
  <2> QED
    BY <2>5, <2>6 DEF KeepsUpToDate, Written, Closing
<1>3. ASSUME Fetch(t), th'[t].pc = "keep" PROVE KeepsUpToDate(t)'
  <2>1. overlay[th[t].path] = None /\ th'[t].path = th[t].path
    BY <1>1, <1>3, FetchEffect, Constants
  <2>2. UNCHANGED overlay
    BY <1>3 DEF Fetch
  <2>3. ~(overlay'[th'[t].path] > 0)
    BY <2>1, <2>2 DEF None
  <2> QED
    BY <2>3 DEF KeepsUpToDate, Written
<1>4. ASSUME th'[t].pc # "keep" PROVE KeepsUpToDate(t)'
  BY <1>4 DEF KeepsUpToDate
<1> QED
  BY <1>1, <1>2, <1>3, <1>4, Begins

LEMMA UpToDateStep ==
    ASSUME AnyTime = {}, FilesInv, WritesInv, [Next]_vars, NEW h \in Handles
    PROVE  UpToDate(h)'
<1>1. /\ Typed /\ HasFile(h) /\ UpToDate(h) /\ NoCache.gen = 0 /\ None \notin Paths
      /\ gen <= gen' /\ gen \in Nat \ {0} /\ gen' \in Nat
      /\ open[h].cache.gen \in -1 .. MaxHeads /\ MaxHeads \in Nat /\ open[h].cache.gen <= gen
  BY BaseStep, Parts, Constants DEF FilesInv, OpenInv, Typed, BaseTyped, OpensTyped, Good, WritesInv
<1> DEFINE Fresh(c, p) == c.gen # gen' /\ (c.gen = -1 => c.is = overlay'[p])
<1> SUFFICES ASSUME NEW p \in Paths, open'[h].path = p, ~open'[h].detached, Written(p)', ~(Closing(p)')
             PROVE  Fresh(open'[h].cache, p)
  BY DEF UpToDate, Written, Closing
<1>2. CASE open'[h].cache = NoCache
  BY <1>1, <1>2
<1>3. CASE open'[h].path = open[h].path /\ open'[h].detached = open[h].detached /\ open'[h].cache = open[h].cache
  <2>1. open[h].path = p /\ ~open[h].detached /\ Visible(p)
    BY <1>1, <1>3 DEF HasFile
  <2>2. CASE Written(p) /\ overlay'[p] = overlay[p]
    <3>1. CASE Closing(p)
      <4>1. open'[h].cache = NoCache
        BY <2>1, <3>1, ClosingCloses
      <4> QED
        BY <1>2, <4>1
    <3>2. CASE ~Closing(p)
      <4>1. open[h].cache.gen # gen /\ (open[h].cache.gen = -1 => open[h].cache.is = overlay[p])
        BY <1>1, <2>1, <2>2, <3>2 DEF UpToDate
      <4> QED
        BY <1>1, <1>3, <2>2, <4>1
    <3> QED
      BY <3>1, <3>2
  <2>3. ~CreateFile(p)
    BY <2>1 DEF CreateFile
  <2>4. ASSUME NEW t \in Threads PROVE ~(th'[t].pc = "close" /\ th'[t].path = p)
    BY DEF Closing
  <2>5. ASSUME NEW t \in Threads, th[t].pc = "rename", overlay[th[t].path] > 0, Renamed(t), th[t].to = p PROVE FALSE
    <3>1. /\ th[t].path # p
          /\ \/ open'[h].detached
             \/ open[h].path = th[t].path /\ open'[h].path = th[t].to
             \/ open[h].path \notin {th[t].path, th[t].to}
      BY <1>1, <2>5, RenamedEffect
    <3> QED
      BY <1>3, <2>1, <2>5, <3>1
  <2> QED
    BY <2>2, <2>3, <2>4, <2>5, WrittenBy
<1>4. ASSUME NEW t \in Threads, Register(t), th[t].path = p, open'[h].cache = th[t].cache
      PROVE  Fresh(open'[h].cache, p)
  <2>1. UNCHANGED <<overlay, files>> /\ th[t].pc = "register"
    BY <1>4 DEF Register
  <2>2. Written(p)
    BY <2>1 DEF Written
  <2>3. th[t].cache.gen = -1 /\ th[t].cache.is = overlay[p]
    BY <1>4, <2>1, <2>2 DEF WritesInv, OpensUpToDate
  <2> QED
    BY <1>1, <1>4, <2>1, <2>3
<1>5. ASSUME NEW t \in Threads, Keep(t), h = th[t].handle, open[h].path = p,
             th[t].cache.gen = gen, t \in open[h].reads
      PROVE  FALSE
  <2>1. UNCHANGED <<overlay, files>> /\ th[t].pc = "keep"
    BY <1>5 DEF Keep
  <2>2. th[t].path = p
    BY <1>5, <2>1 DEF FilesInv, StepInv, OnTrack
  <2>3. Closing(p)
    BY <1>5, <2>1, <2>2 DEF WritesInv, KeepsUpToDate, Written
  <2>4. PICK u \in Threads : th[u].pc = "close" /\ th[u].path = p
    BY <2>3 DEF Closing
  <2>5. u # t
    BY <2>1, <2>4
  <2>6. th'[u] = th[u]
    BY <1>1, <1>5, <2>5, OthersStay DEF ActsOf
  <2> QED
    BY <2>4, <2>6 DEF Closing
<1>6. ASSUME NEW t \in Threads, Pin(t), open[h].path = p, open'[h].cache = [gen |-> -1, is |-> overlay[p]]
      PROVE  Fresh(open'[h].cache, p)
  BY <1>1, <1>6 DEF Pin
<1>7. ASSUME NEW t \in Threads, th[t].pc = "rename", overlay[th[t].path] > 0, Renamed(t), open[h].path = th[t].path,
             th[t].to = p, open'[h].cache = open[h].cache, ~open[h].detached
      PROVE  Fresh(open'[h].cache, p)
  <2>1. PICK q \in Paths : q = th[t].path /\ q # p
    BY <1>1, <1>7, RenamedEffect
  <2>2. MoveEntry(q, p) /\ overlay[q] > 0 /\ UNCHANGED gen
    BY <1>7, <2>1 DEF Renamed, Ends
  <2>3. /\ overlay'[p] = overlay[q]
        /\ \A k \in 1 .. Len(files) : files'[k].written = files[k].written
    BY <1>1, <2>1, <2>2, MoveEffect
  <2>4. overlay[q] \in {Deleted, None} \cup 1 .. Len(files)
    BY <1>1 DEF Typed, BaseTyped
  <2>5. Written(q)
    BY <2>2, <2>3, <2>4 DEF Written, Deleted, None
  <2>6. ~Closing(q)
    BY <1>7, AloneIsAlone DEF Named, Closing
  <2>7. open[h].cache.gen # gen /\ (open[h].cache.gen = -1 => open[h].cache.is = overlay[q])
    BY <1>1, <1>7, <2>1, <2>5, <2>6 DEF UpToDate
  <2> QED
    BY <1>7, <2>2, <2>3, <2>7
<1> HIDE DEF Fresh
<1> QED
  BY <1>1, <1>2, <1>3, <1>4, <1>5, <1>6, <1>7, OpenChanges DEF OpenMoves

LEMMA WritesInvStep ==
    ASSUME AnyTime = {}, FilesInv, WritesInv, [Next]_vars PROVE WritesInv'
<1>1. /\ \A h \in Handles : UpToDate(h)'
      /\ \A t \in Threads : OpensUpToDate(t)' /\ KeepsUpToDate(t)'
  BY UpToDateStep, OpensUpToDateStep, KeepsUpToDateStep
<1> QED
  BY <1>1 DEF WritesInv

(* When a write is over every open file of the path shows it, whichever of    *)
(* them wrote, and whatever they had kept or were about to keep               *)
(* (closeCachedFilesForPath, invalidateSeq).                                 *)
THEOREM ShowsWritesHolds ==
    ASSUME AnyTime = {} PROVE Spec => []ShowsWrites
<1>1. Init => FilesInv /\ WritesInv
  <2> SUFFICES ASSUME Init PROVE FilesInv /\ WritesInv
    OBVIOUS
  <2>1. (\A p \in Paths : overlay[p] = None) /\ (\A h \in Handles : open[h] = Closed) /\ \A t \in Threads : th[t] = Idle
    BY DEF Init
  <2> QED
    BY <2>1, FilesInvInit, Constants DEF WritesInv, UpToDate, OpensUpToDate, KeepsUpToDate
<1>2. FilesInv /\ WritesInv /\ [Next]_vars => (FilesInv /\ WritesInv)'
  BY FilesInvStep, WritesInvStep
<1>3. FilesInv /\ WritesInv => ShowsWrites
  <2> SUFFICES ASSUME FilesInv, WritesInv, NEW h \in Handles, NEW p \in Paths,
                      open[h].path = p, ~open[h].detached, overlay[p] > 0, files[overlay[p]].written,
                      \A t \in Threads : ~(th[t].pc = "close" /\ th[t].path = p)
               PROVE  Shown(h).content = files[overlay[p]].content
    BY DEF ShowsWrites
  <2>1. open[h].cache.gen # gen /\ (open[h].cache.gen = -1 => open[h].cache.is = overlay[p])
    BY DEF WritesInv, UpToDate, Written, Closing
  <2>2. CASE open[h].cache.gen = -1
    BY <2>1, <2>2 DEF Shown
  <2>3. CASE open[h].cache.gen # -1
    BY <2>1, <2>3 DEF Shown
  <2> QED
    BY <2>2, <2>3
<1> QED
  BY <1>1, <1>2, <1>3, PTL DEF Spec

=============================================================================
