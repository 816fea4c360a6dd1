----------------------------- MODULE BatchPool -----------------------------
(***************************************************************************)
(* The pools of git cat-file --batch processes of internal/gitstore: what  *)
(* BlobToCache and ReadBlob do with a process, the pool that hands the      *)
(* processes out, and the store that replaces a pool after a preparation   *)
(* (invalidateBatchPool), resizes it and shuts it down.                    *)
(*                                                                         *)
(* The store has one git directory; Pools are the pools made for it, one   *)
(* after the other.  One action is one critical section of a mutex, or one *)
(* use of a process outside of it.                                         *)
(***************************************************************************)
EXTENDS Naturals, FiniteSets

CONSTANTS
    Procs,      \* identities of git processes, used again once nobody refers to them
    Ops,        \* goroutines that run BlobToCache or ReadBlob
    Pools,      \* identities of pools (a bound on invalidations)
    Sizes,      \* the sizes SetBatchPoolSize is called with
    FirstSize   \* the size of New

NoProc == "none"
NoPool == "none"

ASSUME ConstantsAssumption ==
    /\ IsFiniteSet(Procs) /\ NoProc \notin Procs
    /\ NoPool \notin Pools
    /\ Sizes \subseteq Nat \ {0}
    /\ FirstSize \in Nat \ {0}

VARIABLES
    all,      \* pool -> its processes
    free,     \* pool -> the processes nobody uses
    creating, \* pool -> the operations that are starting a process for it
    max,      \* pool -> maxSize
    closed,   \* the closed pools
    woken,    \* the waiting operations whose channel has been closed
    proc,     \* process -> "live", "dead" (not waited for) or "gone"
    behind,   \* the processes with output nobody has read
    current,  \* pools[gitDir] of the store
    made,     \* the pools made so far
    storeMax, \* poolMaxSize
    storeClosed, \* Close has been called on the store
    closing,  \* pools taken out of the store whose closeAll is still to run
    doomed,   \* processes a closeAll or setMaxSize has taken out and has to end
    pc, home, hold, kind, left  \* per operation: counter, pool, process, method, attempts

poolVars  == <<all, free, creating, max, closed>>
storeVars == <<current, made, storeMax, storeClosed, closing>>
procVars  == <<proc, behind>>
opVars    == <<pc, home, hold, kind, left>>
vars == <<poolVars, woken, procVars, storeVars, doomed, opVars>>

OpPcs == {"idle", "acquire", "alive", "spawn", "adopt", "wait", "work",
          "release", "return", "discard", "kill"}

(* alive() looks at ProcessState, which only Wait sets: a process that died   *)
(* by itself still counts.                                                   *)
Alive(b) == proc[b] \in {"live", "dead"}

TypeOK ==
    /\ all \in [Pools -> SUBSET Procs]
    /\ free \in [Pools -> SUBSET Procs]
    /\ creating \in [Pools -> SUBSET Ops]
    /\ max \in [Pools -> Nat]
    /\ closed \subseteq Pools
    /\ woken \subseteq Ops
    /\ proc \in [Procs -> {"live", "dead", "gone"}]
    /\ behind \subseteq Procs
    /\ current \in Pools \cup {NoPool}
    /\ made \subseteq Pools
    /\ storeMax \in Nat
    /\ storeClosed \in BOOLEAN
    /\ closing \subseteq Pools
    /\ doomed \subseteq Procs
    /\ pc \in [Ops -> OpPcs]
    /\ home \in [Ops -> Pools \cup {NoPool}]
    /\ hold \in [Ops -> Procs \cup {NoProc}]
    /\ kind \in [Ops -> {"file", "read"}]
    /\ left \in [Ops -> 0 .. 1]

Init ==
    /\ all = [p \in Pools |-> {}]
    /\ free = [p \in Pools |-> {}]
    /\ creating = [p \in Pools |-> {}]
    /\ max = [p \in Pools |-> FirstSize]
    /\ closed = {} /\ woken = {}
    /\ proc = [b \in Procs |-> "gone"]
    /\ behind = {}
    /\ current = NoPool /\ made = {} /\ storeMax = FirstSize
    /\ storeClosed = FALSE /\ closing = {} /\ doomed = {}
    /\ pc = [t \in Ops |-> "idle"]
    /\ home = [t \in Ops |-> NoPool]
    /\ hold = [t \in Ops |-> NoProc]
    /\ kind = [t \in Ops |-> "file"]
    /\ left = [t \in Ops |-> 0]

-----------------------------------------------------------------------------
Goto(t, l) == pc' = [pc EXCEPT ![t] = l]

(* The operation returns, with a result or an error. *)
Return(t) ==
    /\ Goto(t, "idle")
    /\ home' = [home EXCEPT ![t] = NoPool]
    /\ hold' = [hold EXCEPT ![t] = NoProc]
    /\ kind' = [kind EXCEPT ![t] = "file"]
    /\ left' = [left EXCEPT ![t] = 0]

(* The process is killed, or told to end, and waited for. *)
Reap(b) ==
    /\ proc' = [proc EXCEPT ![b] = "gone"]
    /\ behind' = behind \ {b}

(* signalLocked closes the channel every waiter of the pool waits on. *)
Signal(p) == woken' = woken \cup {t \in Ops : pc[t] = "wait" /\ home[t] = p}

Unused(b) ==
    /\ proc[b] = "gone"
    /\ b \notin doomed
    /\ \A t \in Ops : hold[t] # b
    /\ \A p \in Pools : b \notin all[p]

-----------------------------------------------------------------------------
(* BlobToCache and ReadBlob *)

(* getPool; BlobToCache and ReadBlob differ in what they do about an error.  *)
GetPool(t, m) ==
    /\ pc[t] = "idle" /\ ~storeClosed
    /\ Goto(t, "acquire")
    /\ kind' = [kind EXCEPT ![t] = m]
    /\ left' = [left EXCEPT ![t] = 1]
    /\ \/ /\ current # NoPool
          /\ home' = [home EXCEPT ![t] = current]
          /\ UNCHANGED <<current, made, max>>
       \/ /\ current = NoPool
          /\ \E p \in Pools \ made :
               /\ current' = p /\ made' = made \cup {p}
               /\ max' = [max EXCEPT ![p] = storeMax]
               /\ home' = [home EXCEPT ![t] = p]
    /\ UNCHANGED <<all, free, creating, closed, woken, procVars, storeMax, storeClosed,
                   closing, doomed, hold>>

(* Variant: the processes being started are not counted. *)
RoomForOneMore(p) == Cardinality(all[p]) < max[p]

Room(p) == Cardinality(all[p]) + Cardinality(creating[p]) < max[p]

(* The critical section of acquire. *)
AcquireClosed(t) ==
    /\ pc[t] = "acquire" /\ home[t] \in closed
    /\ Return(t)
    /\ UNCHANGED <<poolVars, woken, procVars, storeVars, doomed>>

(* Variant: the process is used but stays on the free list. *)
AcquireFreeKept(t) ==
    /\ pc[t] = "acquire" /\ home[t] \notin closed
    /\ \E b \in free[home[t]] : hold' = [hold EXCEPT ![t] = b]
    /\ Goto(t, "alive")
    /\ UNCHANGED <<poolVars, woken, procVars, storeVars, doomed, home, kind, left>>

(* The code takes the process that was put back last. *)
AcquireFree(t) ==
    /\ pc[t] = "acquire" /\ home[t] \notin closed
    /\ \E b \in free[home[t]] :
         /\ hold' = [hold EXCEPT ![t] = b]
         /\ free' = [free EXCEPT ![home[t]] = @ \ {b}]
    /\ Goto(t, "alive")
    /\ UNCHANGED <<all, creating, max, closed, woken, procVars, storeVars, doomed,
                   home, kind, left>>

AcquireNew(t) ==
    /\ pc[t] = "acquire" /\ home[t] \notin closed
    /\ free[home[t]] = {} /\ Room(home[t])
    /\ creating' = [creating EXCEPT ![home[t]] = @ \cup {t}]
    /\ Goto(t, "spawn")
    /\ UNCHANGED <<all, free, max, closed, woken, procVars, storeVars, doomed,
                   home, hold, kind, left>>

AcquireWait(t) ==
    /\ pc[t] = "acquire" /\ home[t] \notin closed
    /\ free[home[t]] = {} /\ ~Room(home[t])
    /\ Goto(t, "wait")
    /\ woken' = woken \ {t}
    /\ UNCHANGED <<poolVars, procVars, storeVars, doomed, home, hold, kind, left>>

Wake(t) ==
    /\ pc[t] = "wait" /\ t \in woken
    /\ Goto(t, "acquire")
    /\ woken' = woken \ {t}
    /\ UNCHANGED <<poolVars, procVars, storeVars, doomed, home, hold, kind, left>>

(* The context of the operation ends while it waits. *)
CancelWait(t) ==
    /\ pc[t] = "wait"
    /\ Return(t)
    /\ woken' = woken \ {t}
    /\ UNCHANGED <<poolVars, procVars, storeVars, doomed>>

(* A process from the free list is used if it is alive; if not, discard,     *)
(* whose kill has nothing to do any more, and the loop starts over.          *)
CheckAlive(t) ==
    /\ pc[t] = "alive"
    /\ IF Alive(hold[t])
       THEN Goto(t, "work") /\ UNCHANGED <<hold, all, woken>>
       ELSE /\ Goto(t, "acquire")
            /\ hold' = [hold EXCEPT ![t] = NoProc]
            /\ all' = [all EXCEPT ![home[t]] = @ \ {hold[t]}]
            /\ IF hold[t] \in all[home[t]] THEN Signal(home[t]) ELSE UNCHANGED woken
    /\ UNCHANGED <<free, creating, max, closed, procVars, storeVars, doomed, home, kind, left>>

(* newBatchCatFile, with no lock held; it may fail. *)
SpawnProcess(t) ==
    /\ pc[t] = "spawn"
    /\ \/ UNCHANGED <<procVars, hold>>
       \/ \E b \in Procs :
            /\ Unused(b)
            /\ proc' = [proc EXCEPT ![b] = "live"]
            /\ UNCHANGED behind
            /\ hold' = [hold EXCEPT ![t] = b]
    /\ Goto(t, "adopt")
    /\ UNCHANGED <<poolVars, woken, storeVars, doomed, home, kind, left>>

(* Variant: a process made for a pool that has been closed is left running. *)
AdoptUnchecked(t) ==
    /\ pc[t] = "adopt"
    /\ LET p == home[t] IN
       /\ creating' = [creating EXCEPT ![p] = @ \ {t}]
       /\ Signal(p)
       /\ IF hold[t] = NoProc \/ p \in closed
          THEN Return(t) /\ UNCHANGED all
          ELSE /\ all' = [all EXCEPT ![p] = @ \cup {hold[t]}]
               /\ Goto(t, "work")
               /\ UNCHANGED <<home, hold, kind, left>>
    /\ UNCHANGED <<free, max, closed, procVars, storeVars, doomed>>

(* Variant: a failed start is put into the pool like a process. *)
AdoptFailed(t) ==
    /\ pc[t] = "adopt"
    /\ LET p == home[t] IN
       /\ creating' = [creating EXCEPT ![p] = @ \ {t}]
       /\ Signal(p)
       /\ all' = [all EXCEPT ![p] = @ \cup {hold[t]}]
    /\ Goto(t, "work")
    /\ UNCHANGED <<free, max, closed, procVars, storeVars, doomed, home, hold, kind, left>>

(* Back under the lock: the pool may have been closed meanwhile. *)
Adopt(t) ==
    /\ pc[t] = "adopt"
    /\ LET p == home[t] IN
       /\ creating' = [creating EXCEPT ![p] = @ \ {t}]
       /\ Signal(p)
       /\ IF hold[t] = NoProc
          THEN Return(t) /\ UNCHANGED all
          ELSE IF p \in closed
          THEN /\ Goto(t, "kill")
               /\ left' = [left EXCEPT ![t] = 0]
               /\ UNCHANGED <<all, home, hold, kind>>
          ELSE /\ all' = [all EXCEPT ![p] = @ \cup {hold[t]}]
               /\ Goto(t, "work")
               /\ UNCHANGED <<home, hold, kind, left>>
    /\ UNCHANGED <<free, max, closed, procVars, storeVars, doomed>>

-----------------------------------------------------------------------------
(* The use of a process *)

(* A complete answer has been read. *)
Answer(t) ==
    /\ pc[t] = "work" /\ proc[hold[t]] = "live"
    /\ Goto(t, "release")
    /\ UNCHANGED <<poolVars, woken, procVars, storeVars, doomed, home, hold, kind, left>>

(* The process has died, or its answer cannot be used, which may leave output *)
(* nobody has read.  There is one more attempt.                              *)
Failure(t) ==
    /\ pc[t] = "work"
    /\ behind' = IF proc[hold[t]] = "live" THEN behind \cup {hold[t]} ELSE behind
    /\ Goto(t, "discard")
    /\ UNCHANGED <<poolVars, woken, proc, storeVars, doomed, home, hold, kind, left>>

(* Variant: the blob is left unread and the process goes back to the pool. *)
TooLargeReleased(t) ==
    /\ pc[t] = "work" /\ kind[t] = "read" /\ proc[hold[t]] = "live"
    /\ behind' = behind \cup {hold[t]}
    /\ Goto(t, "release")
    /\ UNCHANGED <<poolVars, woken, proc, storeVars, doomed, home, hold, kind, left>>

(* ErrBlobTooLarge: ReadBlob leaves the blob unread and does not try again.  *)
TooLarge(t) ==
    /\ pc[t] = "work" /\ kind[t] = "read" /\ proc[hold[t]] = "live"
    /\ behind' = behind \cup {hold[t]}
    /\ left' = [left EXCEPT ![t] = 0]
    /\ Goto(t, "discard")
    /\ UNCHANGED <<poolVars, woken, proc, storeVars, doomed, home, hold, kind>>

(* The context ends: the process is killed.  BlobToCache gives up, ReadBlob   *)
(* goes on to its second attempt.                                            *)
CancelWork(t) ==
    /\ pc[t] = "work"
    /\ Reap(hold[t])
    /\ left' = [left EXCEPT ![t] = IF kind[t] = "file" THEN 0 ELSE @]
    /\ Goto(t, "discard")
    /\ UNCHANGED <<poolVars, woken, storeVars, doomed, home, hold, kind>>

(* Variant: the waiters are not told of the room. *)
DiscardSilently(t) ==
    /\ pc[t] = "discard"
    /\ all' = [all EXCEPT ![home[t]] = @ \ {hold[t]}]
    /\ Goto(t, "kill")
    /\ UNCHANGED <<free, creating, max, closed, woken, procVars, storeVars, doomed,
                   home, hold, kind, left>>

Discard(t) ==
    /\ pc[t] = "discard"
    /\ all' = [all EXCEPT ![home[t]] = @ \ {hold[t]}]
    /\ IF hold[t] \in all[home[t]] THEN Signal(home[t]) ELSE UNCHANGED woken
    /\ Goto(t, "kill")
    /\ UNCHANGED <<free, creating, max, closed, procVars, storeVars, doomed,
                   home, hold, kind, left>>

(* kill or close, then the second attempt or the end. *)
Kill(t) ==
    /\ pc[t] = "kill"
    /\ Reap(hold[t])
    /\ IF left[t] = 0 THEN Return(t)
       ELSE /\ Goto(t, "acquire")
            /\ hold' = [hold EXCEPT ![t] = NoProc]
            /\ left' = [left EXCEPT ![t] = 0]
            /\ UNCHANGED <<home, kind>>
    /\ UNCHANGED <<poolVars, woken, storeVars, doomed>>

(* release looks at the process first and then takes the lock. *)
Release(t) ==
    /\ pc[t] = "release"
    /\ Goto(t, IF Alive(hold[t]) THEN "return" ELSE "discard")
    /\ left' = [left EXCEPT ![t] = 0]
    /\ UNCHANGED <<poolVars, woken, procVars, storeVars, doomed, home, hold, kind>>

GiveBack(t) ==
    /\ pc[t] = "return"
    /\ LET p == home[t] IN
       /\ Signal(p)
       /\ IF p \notin closed /\ Cardinality(all[p]) <= max[p]
          THEN /\ free' = [free EXCEPT ![p] = @ \cup {hold[t]}]
               /\ Return(t)
               /\ UNCHANGED all
          ELSE /\ all' = [all EXCEPT ![p] = @ \ {hold[t]}]
               /\ Goto(t, "kill")
               /\ UNCHANGED <<free, home, hold, kind, left>>
    /\ UNCHANGED <<creating, max, closed, procVars, storeVars, doomed>>

(* A process dies by itself; nobody notices until it is used. *)
Die(b) ==
    /\ proc[b] = "live"
    /\ proc' = [proc EXCEPT ![b] = "dead"]
    /\ UNCHANGED <<poolVars, woken, behind, storeVars, doomed, opVars>>

-----------------------------------------------------------------------------
(* The store *)

(* invalidateBatchPool and Close take the pool out of the store under the     *)
(* lock of the store and close it afterwards.                                *)
TakeOut ==
    /\ current' = NoPool
    /\ closing' = IF current = NoPool THEN closing ELSE closing \cup {current}

Invalidate ==
    /\ current # NoPool
    /\ TakeOut
    /\ UNCHANGED <<poolVars, woken, procVars, made, storeMax, storeClosed, doomed, opVars>>

Close ==
    /\ ~storeClosed /\ storeClosed' = TRUE
    /\ TakeOut
    /\ UNCHANGED <<poolVars, woken, procVars, made, storeMax, doomed, opVars>>

(* Variant: the waiters of the pool are not told. *)
CloseAllSilently(p) ==
    /\ p \in closing
    /\ closing' = closing \ {p}
    /\ closed' = closed \cup {p}
    /\ doomed' = doomed \cup all[p]
    /\ all' = [all EXCEPT ![p] = {}]
    /\ free' = [free EXCEPT ![p] = {}]
    /\ UNCHANGED <<creating, max, woken, procVars, current, made, storeMax, storeClosed, opVars>>

(* closeAll takes the processes out under the lock and kills them after it.  *)
CloseAll(p) ==
    /\ p \in closing
    /\ closing' = closing \ {p}
    /\ closed' = closed \cup {p}
    /\ doomed' = doomed \cup all[p]
    /\ all' = [all EXCEPT ![p] = {}]
    /\ free' = [free EXCEPT ![p] = {}]
    /\ Signal(p)
    /\ UNCHANGED <<creating, max, procVars, current, made, storeMax, storeClosed, opVars>>

KillDoomed(b) ==
    /\ b \in doomed
    /\ doomed' = doomed \ {b}
    /\ Reap(b)
    /\ UNCHANGED <<poolVars, woken, storeVars, opVars>>

(* SetBatchPoolSize; setMaxSize takes idle processes out until the pool is   *)
(* small enough or has no idle one left.                                     *)
SetBatchPoolSize(n) ==
    /\ ~storeClosed /\ n # storeMax
    /\ storeMax' = n
    /\ \/ current = NoPool /\ UNCHANGED <<all, free, max, woken, doomed>>
       \/ /\ current # NoPool
          /\ max' = [max EXCEPT ![current] = n]
          /\ Signal(current)
          /\ \E extras \in SUBSET free[current] :
               /\ \/ Cardinality(all[current] \ extras) = n
                  \/ Cardinality(all[current] \ extras) > n /\ extras = free[current]
                  \/ Cardinality(all[current]) < n /\ extras = {}
               /\ all' = [all EXCEPT ![current] = @ \ extras]
               /\ free' = [free EXCEPT ![current] = @ \ extras]
               /\ doomed' = doomed \cup extras
    /\ UNCHANGED <<creating, closed, procVars, current, made, storeClosed, closing, opVars>>

-----------------------------------------------------------------------------
Acquire(t) == AcquireClosed(t) \/ AcquireFree(t) \/ AcquireNew(t) \/ AcquireWait(t)

Use(t) == Answer(t) \/ Failure(t) \/ TooLarge(t) \/ CancelWork(t)

OpStep(t) == \/ Acquire(t) \/ Wake(t) \/ CheckAlive(t) \/ SpawnProcess(t) \/ Adopt(t)
             \/ Use(t) \/ Discard(t) \/ Kill(t) \/ Release(t) \/ GiveBack(t)

Next ==
    \/ \E t \in Ops : \/ OpStep(t) \/ CancelWait(t)
                      \/ \E m \in {"file", "read"} : GetPool(t, m)
    \/ \E b \in Procs : Die(b) \/ KillDoomed(b)
    \/ \E p \in Pools : CloseAll(p)
    \/ \E n \in Sizes : SetBatchPoolSize(n)
    \/ Invalidate
    \/ Close

Spec == Init /\ [][Next]_vars

(* Goroutines run.  Git answers, or the context of the operation ends: the    *)
(* hydrator gives every fetch a deadline of two minutes.                     *)
Fairness ==
    /\ \A t \in Ops : WF_vars(OpStep(t))
    /\ \A p \in Pools : WF_vars(CloseAll(p))
    /\ \A b \in Procs : WF_vars(KillDoomed(b))

FairSpec == Spec /\ Fairness

-----------------------------------------------------------------------------
(* Properties *)

Uses(t) == pc[t] \in {"alive", "work", "release", "return", "discard"}

(* A process has one user: the pool of free ones, or one operation           *)
(* (batchCatFile: "callers must ensure exclusive access").                   *)
ExclusiveUse ==
    /\ \A t \in Ops, p \in Pools : hold[t] # NoProc => hold[t] \notin free[p]
    /\ \A t, u \in Ops : t # u /\ hold[t] # NoProc => hold[t] # hold[u]
    /\ \A p, q \in Pools : p # q => free[p] \cap free[q] = {}

(* No operation is handed a process that still has to say something of an    *)
(* earlier request: it would store that blob under the wrong name.           *)
AnswersInOrder ==
    \A t \in Ops : pc[t] \in {"alive", "work"} /\ Alive(hold[t]) => hold[t] \notin behind

(* Every process that has not been waited for is in a pool, or in the hands   *)
(* of someone who will put it there or end it.                               *)
NoOrphanProcess ==
    \A b \in Procs : Alive(b) =>
        \/ \E p \in Pools : b \in all[p]
        \/ b \in doomed
        \/ \E t \in Ops : hold[t] = b /\ pc[t] # "idle"

(* Whoever waits without having been woken waits for a reason: the pool is   *)
(* open, nothing is free and there is no room for one more process.          *)
NoLostWakeup ==
    \A t \in Ops : pc[t] = "wait" /\ t \notin woken =>
        home[t] \notin closed /\ free[home[t]] = {} /\ ~Room(home[t])

(* A pool never grows beyond its size, also when it was made smaller while   *)
(* processes were in use or being started.                                   *)
Population(p) == Cardinality(all[p]) + Cardinality(creating[p])
GrowsWithinMax ==
    [][\A p \in Pools : Population(p)' > Population(p) => Population(p)' <= max'[p]]_vars

(* Once the store is closed every operation ends and no process is left.     *)
CloseEndsAll ==
    storeClosed ~> /\ \A t \in Ops : pc[t] = "idle"
                   /\ \A b \in Procs : ~Alive(b)

=============================================================================
