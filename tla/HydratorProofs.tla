--------------------------- MODULE HydratorProofs ---------------------------
(* What holds of the hydrator for any number of blobs, callers and workers.  *)
EXTENDS Hydrator, FiniteSetTheorems, TLAPS

(* A verification that has its verdict is one. *)
LEMMA VerdictKept ==
    ASSUME NEW x \in Verification, NEW d \in {"ok", "bad"}
    PROVE  [x EXCEPT !.stage = "deliver", !.verdict = d] \in Verification
  BY DEF Verification

(* Every variable stays in its type, and a thread inside an operation holds   *)
(* the key it works on (the locals of EnsureHydrated and step).              *)
THEOREM TypeCorrect == Spec => []TypeOK
<1> USE ConstantsAssumption
    DEF TypeOK, Threads, Callers, CallerPcs, WorkerPcs, PrefetchPcs, WorkerHolds, Validating,
        SawFile
<1>1. Init => TypeOK
  <2> SUFFICES ASSUME Init PROVE TypeOK
    OBVIOUS
  <2>1. pc \in [Threads -> CallerPcs \cup WorkerPcs]
    BY DEF Init
  <2>2. /\ \A t \in Callers : pc[t] = "idle"
        /\ \A t \in Workers : pc[t] = "off"
        /\ \A t \in Prefetchers : pc[t] = "idle"
    BY DEF Init
  <2>3. \A t \in Callers \cup Workers : pc[t] \notin SawFile
    BY <2>2
  <2>4. verif \in [Verifiers -> Verification \cup {NoVerification}]
    BY DEF Init
  <2>5. /\ key \in [Threads -> Keys \cup {NoKey}]
        /\ file \in [Threads -> File \cup {NoFile}]
        /\ answer \in [Threads -> {"none", "ok", "bad", "error", "stopped"}]
        /\ owed \in [Prefetchers -> Nat]
        /\ tampers \in 0 .. MaxTampers
    BY DEF Init
  <2>6. /\ prio \in [Keys -> Priorities \cup {0, ExplicitRead}]
        /\ active \subseteq Keys
        /\ wait \in [Keys -> SUBSET Callers]
        /\ verifying \in [Keys -> SUBSET (Callers \cup Workers)]
        /\ verified \in [Keys -> File \cup {NoFile}]
        /\ stopped \in BOOLEAN /\ started \in BOOLEAN /\ token \in BOOLEAN
        /\ cache \in [Keys -> File \cup {NoFile}]
    BY DEF Init
  <2> QED
    BY <2>1, <2>2, <2>3, <2>4, <2>5, <2>6
<1>2. TypeOK /\ [Next]_vars => TypeOK'
  <2> SUFFICES ASSUME TypeOK, [Next]_vars PROVE TypeOK'
    OBVIOUS
  <2> USE DEF queue, life, disk, locals
  <2>1. CASE Start
    BY <2>1 DEF Start
  <2>2. CASE Stop
    BY <2>2 DEF Stop
  <2>3. ASSUME NEW t \in Prefetchers, NEW S \in SUBSET Keys, NEW p \in Priorities,
               EnqueueBatch(t, S, p)
        PROVE  TypeOK'
    <3>1. Cardinality({k \in S : Enqueues(k, p)}) \in Nat
      BY FS_Subset, FS_CardinalityType
    <3> QED
      BY <2>3, <3>1 DEF EnqueueBatch, Offered
  <2>4. ASSUME NEW t \in Prefetchers, SignalBatch(t) PROVE TypeOK'
    BY <2>4 DEF SignalBatch
  <2>5. ASSUME NEW t \in Callers \cup Workers, Stat(t) PROVE TypeOK'
    BY <2>5 DEF Stat, Miss, OnMiss, Goto, NoFile
  <2>6. ASSUME NEW t \in Callers \cup Workers, StatFails(t) PROVE TypeOK'
    BY <2>6 DEF StatFails, Fail, Return, Goto
  <2>7. ASSUME NEW t \in Callers \cup Workers, Check(t) PROVE TypeOK'
    BY <2>7 DEF Check, IfVerified, Hit, OnHit, Goto
  <2>8. ASSUME NEW t \in Callers \cup Workers, VerifyOnce(t) PROVE TypeOK'
    <3>1. CASE stopped
      BY <2>8, <3>1 DEF VerifyOnce, Miss, OnMiss, Goto
    <3>2. CASE ~stopped /\ verifying[key[t]] # {}
      BY <2>8, <3>2 DEF VerifyOnce, Goto
    <3>3. CASE ~stopped /\ verifying[key[t]] = {}
      <4>1. key[t] \in Keys /\ file[t] \in File
        BY <2>8 DEF VerifyOnce
      <4>2. PICK v \in Verifiers : verif' = [verif EXCEPT ![v] =
              [key |-> key[t], file |-> file[t], stage |-> "run", verdict |-> "ok"]]
        BY <2>8, <3>3 DEF VerifyOnce
      <4> QED
        BY <2>8, <3>3, <4>1, <4>2 DEF VerifyOnce, Goto, Verification
    <3> QED
      BY <3>1, <3>2, <3>3
  <2>9. ASSUME NEW t \in Callers \cup Workers, AwaitVerdict(t) PROVE TypeOK'
    BY <2>9 DEF AwaitVerdict, Miss, OnMiss, Goto
  <2>10. ASSUME NEW t \in Callers \cup Workers, Restat(t) PROVE TypeOK'
    BY <2>10 DEF Restat, Miss, OnMiss, Goto
  <2>11. ASSUME NEW t \in Callers \cup Workers, RememberVerified(t) PROVE TypeOK'
    BY <2>11 DEF RememberVerified, Hit, OnHit, Goto
  <2>12. ASSUME NEW v \in Verifiers, RunVerifyBlob(v) PROVE TypeOK'
    BY <2>12 DEF RunVerifyBlob, Verification, NoVerification
  <2>13. ASSUME NEW v \in Verifiers, CompareFile(v) PROVE TypeOK'
    <3>1. verif[v] \in Verification
      BY <2>13 DEF CompareFile, NoVerification
    <3>2. verif'[v] \in Verification
      <4>1. PICK d \in {"ok", "bad"} :
              verif' = [verif EXCEPT ![v].stage = "deliver", ![v].verdict = d]
        BY <2>13 DEF CompareFile
      <4>2. verif'[v] = [verif[v] EXCEPT !.stage = "deliver", !.verdict = d]
        BY <4>1
      <4> QED
        BY <3>1, <4>1, <4>2, VerdictKept
    <3>3. \A u \in Verifiers : u # v => verif'[u] = verif[u]
      BY <2>13 DEF CompareFile
    <3>4. verif' \in [Verifiers -> Verification \cup {NoVerification}]
      BY <2>13, <3>2, <3>3 DEF CompareFile
    <3> QED
      BY <2>13, <3>4 DEF CompareFile
  <2>14. ASSUME NEW v \in Verifiers, DeliverVerdict(v) PROVE TypeOK'
    BY <2>14 DEF DeliverVerdict, Verification, NoVerification
  <2>15. ASSUME NEW t \in Callers, NEW k \in Keys, Call(t, k) PROVE TypeOK'
    BY <2>15 DEF Call, Again, Goto
  <2>16. ASSUME NEW t \in Callers, Enter(t) PROVE TypeOK'
    BY <2>16 DEF Enter, Return, Goto
  <2>17. ASSUME NEW t \in Callers, JoinInflight(t) PROVE TypeOK'
    BY <2>17 DEF JoinInflight, Goto
  <2>18. ASSUME NEW t \in Callers, Admit(t) PROVE TypeOK'
    BY <2>18 DEF Admit, Return, Offered, Goto
  <2>19. ASSUME NEW t \in Callers \cup Workers, SignalWork(t) PROVE TypeOK'
    BY <2>19 DEF SignalWork, AfterSignal, Goto
  <2>20. ASSUME NEW t \in Callers, Receive(t) PROVE TypeOK'
    BY <2>20 DEF Receive, Hit, OnHit, Return, Goto
  <2>21. ASSUME NEW t \in Callers, Cancel(t) PROVE TypeOK'
    BY <2>21 DEF Cancel, Return, Goto
  <2>22. ASSUME NEW t \in Callers, Open(t) PROVE TypeOK'
    BY <2>22 DEF Open, Again, Goto
  <2>23. ASSUME NEW t \in Callers, Pin(t) PROVE TypeOK'
    BY <2>23 DEF Pin, IfVerified, Again, Return, Goto
  <2>24. ASSUME NEW t \in Callers, ReadThrough(t) PROVE TypeOK'
    BY <2>24 DEF ReadThrough, Return, Goto
  <2>25. ASSUME NEW w \in Workers, Wake(w) \/ Exit(w) \/ PopEmpty(w) PROVE TypeOK'
    <3>1. \E l \in {"pop", "exited", "idle"} :
             Goto(w, l) /\ UNCHANGED <<prio, active, wait, verifying, verified, stopped, started,
                                       cache, verif, key, file, answer, owed, tampers>>
      BY <2>25 DEF Wake, Exit, PopEmpty
    <3>2. token' \in BOOLEAN
      BY <2>25 DEF Wake, Exit, PopEmpty
    <3> QED
      BY <3>1, <3>2 DEF Goto
  <2>26. ASSUME NEW w \in Workers, NEW k \in Keys, Pop(w, k) PROVE TypeOK'
    BY <2>26 DEF Pop, Goto
  <2>27. ASSUME NEW w \in Workers, Fetch(w) PROVE TypeOK'
    BY <2>27 DEF Fetch, Fail, Goto
  <2>28. ASSUME NEW w \in Workers, Finish(w) PROVE TypeOK'
    BY <2>28 DEF Finish, Release, LetGo, Goto
  <2>29. ASSUME NEW w \in Workers, Record(w) PROVE TypeOK'
    BY <2>29 DEF Record, Release, LetGo, Goto
  <2>30. ASSUME NEW k \in Keys, Replace(k) \/ Remove(k) PROVE TypeOK'
    BY <2>30 DEF Replace, Remove
  <2>31. CASE UNCHANGED vars
    BY <2>31 DEF vars
  <2> QED
    BY <2>1, <2>2, <2>3, <2>4, <2>5, <2>6, <2>7, <2>8, <2>9, <2>10, <2>11, <2>12, <2>13,
       <2>14, <2>15, <2>16, <2>17, <2>18, <2>19, <2>20, <2>21, <2>22, <2>23, <2>24, <2>25,
       <2>26, <2>27, <2>28, <2>29, <2>30, <2>31
    DEF Next, Validate, CallerStep, WorkerStep, VerifierStep
<1>3. QED
  BY <1>1, <1>2, PTL DEF Spec

-----------------------------------------------------------------------------
(* The queue, the active keys and the wait lists. *)

Holds(w) == pc[w] \in WorkerHolds

(* No worker runs before Start. *)
WorkersStarted == ~started => \A w \in Workers : pc[w] = "off"

(* The inductive invariant.  None of its parts is inductive alone: a worker  *)
(* may take a queued key because no queued key is active, and a waiter that  *)
(* joins a wait list relies on that list being served already.               *)
QueueInv ==
    /\ WorkersStarted
    /\ OneFetchPerKey
    /\ WaitersServed
    /\ NoPriorityInversion

(* A step that leaves the queue alone and moves no worker in or out of a     *)
(* fetch preserves it.                                                       *)
LEMMA QuietStep ==
    ASSUME QueueInv, UNCHANGED <<prio, active, wait, stopped, started>>,
           \A w \in Workers : /\ Holds(w)' <=> Holds(w)
                              /\ Holds(w) => key'[w] = key[w]
                              /\ pc[w] = "off" => pc'[w] = "off"
    PROVE  QueueInv'
<1>1. WorkersStarted'
  BY DEF QueueInv, WorkersStarted
<1>2. OneFetchPerKey'
  <2>1. {w \in Workers : Holds(w)}' = {w \in Workers : Holds(w)}
    OBVIOUS
  <2>2. {key[w] : w \in {u \in Workers : Holds(u)}}' = {key[w] : w \in {u \in Workers : Holds(u)}}
    BY <2>1
  <2> QED
    BY <2>2 DEF QueueInv, OneFetchPerKey, Holds, Queued
<1>3. WaitersServed' /\ NoPriorityInversion'
  BY DEF QueueInv, WaitersServed, NoPriorityInversion, Queued
<1> QED
  BY <1>1, <1>2, <1>3 DEF QueueInv

(* finishHydration and the end of step: w gives its key up and, unless the   *)
(* hydrator is stopped, nobody is left waiting for it.                       *)
LEMMA LetGoStep ==
    ASSUME TypeOK, QueueInv, NEW w \in Workers, Holds(w), LetGo(w),
           UNCHANGED <<prio, stopped, started>>,
           wait' = [wait EXCEPT ![key[w]] = {}] \/ (stopped /\ UNCHANGED wait)
    PROVE  QueueInv'
<1> USE DEF QueueInv, LetGo, Goto
<1>1. /\ key[w] \in Keys /\ key[w] \in active
      /\ pc'[w] = "resignal" /\ ~Holds(w)'
      /\ \A u \in Workers : u # w => pc'[u] = pc[u] /\ key'[u] = key[u]
  BY DEF TypeOK, OneFetchPerKey, Holds, WorkerHolds, Validating, Threads
<1>2. WorkersStarted'
  BY <1>1 DEF WorkersStarted, Holds, WorkerHolds, Validating
<1>3. \A u \in Workers : u # w /\ Holds(u) => key[u] # key[w]
  BY DEF OneFetchPerKey, Holds
<1>4. active' = {key'[u] : u \in {x \in Workers : Holds(x)'}}
  BY <1>1, <1>3 DEF OneFetchPerKey, Holds
<1>5. OneFetchPerKey'
  BY <1>1, <1>4 DEF OneFetchPerKey, Holds, Queued
<1>6. WaitersServed'
  BY <1>1 DEF WaitersServed, Queued, TypeOK
<1>7. NoPriorityInversion'
  BY <1>1 DEF NoPriorityInversion, Queued, TypeOK
<1> QED
  BY <1>2, <1>5, <1>6, <1>7

(* Validation, by a caller or by a worker that goes on holding its key. *)
LEMMA ValidateQuiet ==
    ASSUME TypeOK, QueueInv, NEW t \in Callers \cup Workers, Validate(t)
    PROVE  QueueInv'
<1> USE ConstantsAssumption
    DEF Validate, Stat, StatFails, Check, VerifyOnce, AwaitVerdict, Restat, RememberVerified
<1>1. UNCHANGED <<prio, active, wait, stopped, started>>
  BY DEF queue, life
<1>2. key' = key \/ t \in Callers
  BY DEF Miss, Hit, Fail, Return, locals
<1>3. key' \in [Threads -> Keys \cup {NoKey}] /\ \A u \in Workers : u # t => key'[u] = key[u]
  BY DEF Miss, Hit, Fail, Return, locals, TypeOK, Threads
<1>4. pc[t] \in Validating
  BY DEF Validating
<1>5. \E l : pc' = [pc EXCEPT ![t] = l] /\ (t \in Workers => l \in WorkerHolds)
  BY DEF Miss, Hit, Fail, Return, Goto, OnMiss, OnHit, WorkerHolds, Validating, Callers
<1>6. \A w \in Workers : /\ Holds(w)' <=> Holds(w)
                         /\ Holds(w) => key'[w] = key[w]
                         /\ pc[w] = "off" => pc'[w] = "off"
  BY <1>2, <1>3, <1>4, <1>5 DEF Holds, WorkerHolds, Validating, TypeOK, Threads
<1> QED
  BY <1>1, <1>6, QuietStep

(* The steps of a caller that leave the queue alone. *)
LEMMA CallerQuiet ==
    ASSUME TypeOK, QueueInv, NEW t \in Callers,
           \/ Enter(t) \/ SignalWork(t) \/ Receive(t) \/ Open(t) \/ Pin(t) \/ ReadThrough(t)
           \/ \E k \in Keys : Call(t, k)
    PROVE  QueueInv'
<1> USE ConstantsAssumption DEF Enter, SignalWork, Receive, Open, Pin, ReadThrough, Call
<1>1. UNCHANGED <<prio, active, wait, stopped, started>>
  BY DEF queue, life
<1>2. \A u \in Workers : pc'[u] = pc[u] /\ key'[u] = key[u]
  BY DEF Hit, Return, Goto, locals, TypeOK, Threads
<1> QED
  BY <1>1, <1>2, QuietStep DEF Holds

(* The steps of a worker that leave the queue alone. *)
LEMMA WorkerQuiet ==
    ASSUME TypeOK, QueueInv, NEW w \in Workers,
           Wake(w) \/ Exit(w) \/ PopEmpty(w) \/ Fetch(w) \/ SignalWork(w)
    PROVE  QueueInv'
<1> USE DEF Wake, Exit, PopEmpty, Fetch, SignalWork
<1>1. UNCHANGED <<prio, active, wait, stopped, started, key>>
  BY DEF queue, life, locals, Fail
<1>2. \E l : /\ pc' = [pc EXCEPT ![w] = l]
             /\ pc[w] # "off"
             /\ (l \in WorkerHolds) <=> (pc[w] \in WorkerHolds)
  <2>1. CASE Wake(w) \/ Exit(w) \/ PopEmpty(w)
    BY <2>1 DEF Goto, WorkerHolds, Validating
  <2>2. CASE Fetch(w)
    BY <2>2 DEF Fail, Goto, WorkerHolds, Validating
  <2>3. CASE SignalWork(w)
    <3>1. pc[w] \in {"signal", "more", "resignal"}
      BY <2>3 DEF AfterSignal
    <3>2. pc[w] \in WorkerPcs
      BY DEF TypeOK
    <3>3. pc[w] \in {"more", "resignal"}
      BY <3>1, <3>2 DEF WorkerPcs, WorkerHolds, Validating
    <3>4. AfterSignal[pc[w]] = IF pc[w] = "more" THEN "stat" ELSE "pop"
      BY <3>3 DEF AfterSignal
    <3> QED
      BY <2>3, <3>3, <3>4 DEF Goto, WorkerHolds, Validating
  <2> QED
    BY <2>1, <2>2, <2>3
<1>3. \A u \in Workers : (Holds(u)' <=> Holds(u)) /\ (pc[u] = "off" => pc'[u] = "off")
  BY <1>2 DEF Holds, TypeOK, Threads
<1> QED
  BY <1>1, <1>3, QuietStep

(* Callers and prefetchers that change the queue move no worker, so that the  *)
(* owners of the active keys stay what they were.                            *)
LEMMA OwnersStay ==
    ASSUME QueueInv, UNCHANGED <<active, started>>,
           \A w \in Workers : pc'[w] = pc[w] /\ key'[w] = key[w],
           active \cap Queued' = {}
    PROVE  WorkersStarted' /\ OneFetchPerKey'
<1>1. {w \in Workers : Holds(w)}' = {w \in Workers : Holds(w)}
  BY DEF Holds
<1>2. {key[w] : w \in {u \in Workers : Holds(u)}}' = {key[w] : w \in {u \in Workers : Holds(u)}}
  BY <1>1 DEF Holds
<1> QED
  BY <1>2 DEF QueueInv, WorkersStarted, OneFetchPerKey, Holds

(* A priority Offered computes is one of the queue's. *)
LEMMA PriorityRange ==
    ASSUME TypeOK
    PROVE  /\ \A k \in Keys : prio[k] \in 0 .. ExplicitRead
           /\ \A p \in Priorities : p \in Nat /\ 0 < p /\ p < ExplicitRead
<1>1. \A p \in Priorities : p \in Nat /\ 0 < p /\ p < ExplicitRead
  BY ConstantsAssumption
<1>2. ASSUME NEW k \in Keys PROVE prio[k] \in 0 .. ExplicitRead
  <2>1. prio \in [Keys -> Priorities \cup {0, ExplicitRead}]
    BY DEF TypeOK
  <2>2. prio[k] \in Priorities \/ prio[k] = 0 \/ prio[k] = ExplicitRead
    BY <2>1
  <2>3. ExplicitRead \in Nat
    BY ConstantsAssumption
  <2> QED
    BY <1>1, <2>2, <2>3
<1> QED
  BY <1>1, <1>2

(* A prefetch (EnqueueBatch) queues keys nobody works on, never below a wait. *)
LEMMA EnqueueBatchKeeps ==
    ASSUME TypeOK, QueueInv, NEW t \in Prefetchers, NEW S \in SUBSET Keys,
           NEW p \in Priorities, EnqueueBatch(t, S, p)
    PROVE  QueueInv'
<1> USE ConstantsAssumption DEF EnqueueBatch, locals, life
<1>1. p \in Nat /\ 0 < p /\ p < ExplicitRead /\ \A k \in Keys : prio[k] \in Nat
  BY PriorityRange
<1>2. \A k \in Keys : k \in active => prio[k] = 0
  BY <1>1 DEF QueueInv, OneFetchPerKey, Queued
<1>3. \A k \in Keys : prio'[k] = prio[k] \/ (prio'[k] = p /\ prio[k] < p /\ k \notin active)
  BY <1>1 DEF Offered
<1>4. WorkersStarted' /\ OneFetchPerKey'
  BY <1>1, <1>2, <1>3, OwnersStay DEF Queued
<1>5. WaitersServed'
  BY <1>1, <1>3 DEF QueueInv, WaitersServed, Queued
<1>6. NoPriorityInversion'
  BY <1>1, <1>2, <1>3 DEF QueueInv, WaitersServed, NoPriorityInversion, Queued
<1> QED
  BY <1>4, <1>5, <1>6 DEF QueueInv

(* A caller that queues its key (EnsureHydrated) joins the list it waits on. *)
LEMMA AdmitKeeps ==
    ASSUME TypeOK, QueueInv, NEW t \in Callers, Admit(t)
    PROVE  QueueInv'
<1> USE ConstantsAssumption DEF Admit, life
<1>1. \A w \in Workers : pc'[w] = pc[w] /\ key'[w] = key[w]
  BY DEF Goto, Return, locals, TypeOK, Threads
<1>2. key[t] \in Keys /\ (\A k \in Keys : prio[k] \in 0 .. ExplicitRead)
  <2>1. pc[t] # "idle"
    OBVIOUS
  <2>2. key[t] \in Keys
    BY <2>1 DEF TypeOK
  <2> QED
    BY <2>2, PriorityRange
<1>3. CASE stopped
  BY <1>1, <1>3, QuietStep DEF Holds
<1>4. CASE ~stopped /\ InFlight(key[t])
  <2>1. prio' = prio /\ wait' = [wait EXCEPT ![key[t]] = @ \cup {t}]
    BY <1>4
  <2>2. key[t] \in Queued \cup active
    BY <1>2, <1>4 DEF InFlight, QueueInv, WaitersServed
  <2>3. key[t] \in Queued => prio[key[t]] = ExplicitRead
    BY <1>4 DEF InFlight, QueueInv, OneFetchPerKey, NoPriorityInversion
  <2>4. WorkersStarted' /\ OneFetchPerKey'
    BY <1>1, <2>1, OwnersStay DEF Queued, QueueInv, OneFetchPerKey
  <2>5. WaitersServed' /\ NoPriorityInversion'
    BY <2>1, <2>2, <2>3 DEF QueueInv, WaitersServed, NoPriorityInversion, Queued, TypeOK
  <2> QED
    BY <2>4, <2>5 DEF QueueInv
<1>5. CASE ~stopped /\ ~InFlight(key[t])
  <2>1. /\ prio' = [prio EXCEPT ![key[t]] = ExplicitRead]
        /\ wait' = [wait EXCEPT ![key[t]] = @ \cup {t}]
    BY <1>2, <1>5 DEF InFlight, Offered, TypeOK
  <2>2. \A k \in Queued' : k \in Queued \/ k = key[t]
    BY <2>1 DEF Queued, TypeOK
  <2>3. WorkersStarted' /\ OneFetchPerKey'
    BY <1>1, <1>5, <2>2, OwnersStay DEF InFlight, QueueInv, OneFetchPerKey
  <2>4. WaitersServed' /\ NoPriorityInversion'
    BY <1>2, <2>1 DEF QueueInv, WaitersServed, NoPriorityInversion, Queued, TypeOK
  <2> QED
    BY <2>3, <2>4 DEF QueueInv
<1> QED
  BY <1>3, <1>4, <1>5

(* joinInflight adds a caller to a list that is queued or being fetched. *)
LEMMA JoinInflightKeeps ==
    ASSUME TypeOK, QueueInv, NEW t \in Callers, JoinInflight(t)
    PROVE  QueueInv'
<1> USE ConstantsAssumption DEF JoinInflight, life
<1>1. \A w \in Workers : pc'[w] = pc[w] /\ key'[w] = key[w]
  BY DEF Goto, locals, TypeOK, Threads
<1>2. WorkersStarted' /\ OneFetchPerKey'
  BY <1>1, OwnersStay DEF Queued, QueueInv, OneFetchPerKey
<1>3. wait' = wait \/ (InFlight(key[t]) /\ wait' = [wait EXCEPT ![key[t]] = @ \cup {t}])
  OBVIOUS
<1>4. WaitersServed'
  BY <1>3 DEF InFlight, QueueInv, WaitersServed, Queued, TypeOK
<1>5. NoPriorityInversion'
  BY <1>3 DEF InFlight, QueueInv, OneFetchPerKey, NoPriorityInversion, Queued, TypeOK
<1> QED
  BY <1>2, <1>4, <1>5 DEF QueueInv

(* A caller that gives up (unregister) leaves its list and nothing else. *)
LEMMA CancelKeeps ==
    ASSUME TypeOK, QueueInv, NEW t \in Callers, Cancel(t)
    PROVE  QueueInv'
<1> USE ConstantsAssumption DEF Cancel, life
<1>1. \A w \in Workers : pc'[w] = pc[w] /\ key'[w] = key[w]
  BY DEF Goto, Return, TypeOK, Threads
<1>2. WorkersStarted' /\ OneFetchPerKey'
  BY <1>1, OwnersStay DEF Queued, QueueInv, OneFetchPerKey
<1>3. \A k \in Keys : wait'[k] # {} => wait[k] # {}
  BY DEF TypeOK
<1>4. WaitersServed' /\ NoPriorityInversion'
  BY <1>3 DEF QueueInv, WaitersServed, NoPriorityInversion, Queued
<1> QED
  BY <1>2, <1>4 DEF QueueInv

(* step takes a key of the queue: it was nobody's, and now it is w's. *)
LEMMA PopKeeps ==
    ASSUME TypeOK, QueueInv, NEW w \in Workers, NEW k \in Keys, Pop(w, k)
    PROVE  QueueInv'
<1> USE DEF Pop, life, QueueInv
<1>1. k \notin active /\ k \in Queued
  BY DEF OneFetchPerKey
<1>2. /\ active' = active \cup {k}
      /\ key' = [key EXCEPT ![w] = k]
      /\ \E l \in WorkerHolds : pc' = [pc EXCEPT ![w] = l]
      /\ prio' = [prio EXCEPT ![k] = 0]
      /\ UNCHANGED <<wait, stopped, started>>
  BY <1>1 DEF Goto, WorkerHolds, Validating
<1>3. /\ key'[w] = k /\ Holds(w)' /\ ~Holds(w)
      /\ \A u \in Workers : u # w => key'[u] = key[u] /\ pc'[u] = pc[u]
  BY <1>2 DEF TypeOK, Threads, Holds, WorkerHolds, Validating
<1>4. WorkersStarted'
  BY <1>2, <1>3 DEF WorkersStarted
<1>5. Queued' = Queued \ {k}
  BY <1>2 DEF Queued, TypeOK
<1>6. \A u \in Workers : u # w /\ Holds(u) => key[u] \in active
  BY DEF OneFetchPerKey, Holds
<1>7. active' = {key'[u] : u \in {x \in Workers : Holds(x)'}}
  BY <1>2, <1>3 DEF OneFetchPerKey, Holds
<1>8. OneFetchPerKey'
  BY <1>1, <1>2, <1>3, <1>5, <1>6, <1>7 DEF OneFetchPerKey, Holds
<1>9. WaitersServed'
  BY <1>2, <1>5 DEF WaitersServed
<1>10. NoPriorityInversion'
  BY <1>2, <1>5 DEF NoPriorityInversion, Queued, TypeOK
<1> QED
  BY <1>4, <1>8, <1>9, <1>10

-----------------------------------------------------------------------------
(* Nothing is queued when the hydrator starts. *)
LEMMA QueueInvInit == Init => QueueInv
<1> SUFFICES ASSUME Init PROVE QueueInv
  OBVIOUS
<1>1. \A w \in Workers : pc[w] = "off" /\ ~Holds(w)
  BY DEF Init, Threads, Holds, WorkerHolds, Validating
<1>2. WorkersStarted
  BY <1>1 DEF WorkersStarted
<1>3. OneFetchPerKey
  BY <1>1 DEF OneFetchPerKey, Holds, Init
<1>4. WaitersServed /\ NoPriorityInversion
  BY DEF WaitersServed, NoPriorityInversion, Init, Queued
<1> QED
  BY <1>2, <1>3, <1>4 DEF QueueInv

(* Every step of callers, workers, Stop and files preserves the queue's invariant. *)
LEMMA QueueInvNext == TypeOK /\ QueueInv /\ [Next]_vars => QueueInv'
<1> SUFFICES ASSUME TypeOK, QueueInv, [Next]_vars PROVE QueueInv'
  OBVIOUS
<1>1. CASE Start
  <2>1. \A w \in Workers : pc[w] = "off" /\ pc'[w] = "idle"
    BY <1>1 DEF Start, QueueInv, WorkersStarted, Threads
  <2>2. active' = active /\ Queued' = Queued /\ wait' = wait /\ prio' = prio
    BY <1>1 DEF Start, queue, Queued
  <2>3. \A w \in Workers : ~Holds(w) /\ ~Holds(w)'
    BY <2>1 DEF Holds, WorkerHolds, Validating
  <2>4. OneFetchPerKey'
    BY <2>2, <2>3 DEF QueueInv, OneFetchPerKey, Holds
  <2> QED
    BY <1>1, <2>2, <2>4
    DEF Start, QueueInv, WorkersStarted, WaitersServed, NoPriorityInversion
<1>2. CASE Stop
  <2>1. \A w \in Workers : pc'[w] = pc[w] /\ key'[w] = key[w]
    BY <1>2 DEF Stop
  <2>2. Queued' = {}
    BY <1>2 DEF Stop, Queued
  <2>3. WorkersStarted' /\ OneFetchPerKey'
    BY <1>2, <2>1, <2>2, OwnersStay DEF Stop
  <2> QED
    BY <1>2, <2>2, <2>3 DEF Stop, QueueInv, WaitersServed, NoPriorityInversion
<1>3. ASSUME NEW t \in Prefetchers, SignalBatch(t) PROVE QueueInv'
  BY <1>3, QuietStep DEF SignalBatch, queue, life, locals, Holds
<1>4. ASSUME NEW t \in Callers, CallerStep(t) PROVE QueueInv'
  BY <1>4, CallerQuiet, AdmitKeeps, JoinInflightKeeps DEF CallerStep
<1>5. ASSUME NEW w \in Workers, Finish(w) PROVE QueueInv'
  BY <1>5, LetGoStep DEF Finish, Release, life, Holds, WorkerHolds
<1>6. ASSUME NEW w \in Workers, Record(w) PROVE QueueInv'
  BY <1>6, LetGoStep DEF Record, Release, life, Holds, WorkerHolds
<1>7. ASSUME NEW w \in Workers, WorkerStep(w) PROVE QueueInv'
  BY <1>5, <1>6, <1>7, WorkerQuiet DEF WorkerStep
<1>8. ASSUME NEW v \in Verifiers, VerifierStep(v) PROVE QueueInv'
  BY <1>8, QuietStep DEF VerifierStep, RunVerifyBlob, CompareFile, DeliverVerdict,
                         queue, life, locals, Holds
<1>9. ASSUME NEW k \in Keys, Replace(k) \/ Remove(k) PROVE QueueInv'
  BY <1>9, QuietStep DEF Replace, Remove, queue, life, locals, Holds
<1>10. CASE UNCHANGED vars
  BY <1>10, QuietStep DEF vars, Holds
<1> QED
  BY <1>1, <1>2, <1>3, <1>4, <1>7, <1>8, <1>9, <1>10,
     EnqueueBatchKeeps, CancelKeeps, ValidateQuiet, CallerQuiet, PopKeeps DEF Next

(* Each fetch has one owner: no two workers fetch one blob, and a blob that   *)
(* is being fetched is not queued to be fetched again (enqueueLocked, step).  *)
THEOREM OneFetchPerKeyHolds == Spec => []OneFetchPerKey
<1>1. QueueInv => OneFetchPerKey
  BY DEF QueueInv
<1> QED
  BY <1>1, TypeCorrect, QueueInvInit, QueueInvNext, PTL DEF Spec

(* Nobody is left on a wait list that no worker will take (EnsureHydrated,    *)
(* joinInflight, step, finishHydration), as long as the hydrator runs.       *)
THEOREM WaitersServedHolds == Spec => []WaitersServed
<1>1. QueueInv => WaitersServed
  BY DEF QueueInv
<1> QED
  BY <1>1, TypeCorrect, QueueInvInit, QueueInvNext, PTL DEF Spec

(* A blob somebody waits for is queued at the priority of explicit reads,     *)
(* also when a prefetch had queued it before (enqueueLocked).                *)
THEOREM NoPriorityInversionHolds == Spec => []NoPriorityInversion
<1>1. QueueInv => NoPriorityInversion
  BY DEF QueueInv
<1> QED
  BY <1>1, TypeCorrect, QueueInvInit, QueueInvNext, PTL DEF Spec

-----------------------------------------------------------------------------
(* workReady *)

Draining == WorkerHolds \cup {"pop", "resignal"}

(* One thread moves.  The work stays remembered if a caller leaves "signal"   *)
(* and a worker leaves its draining labels only with the signal sent.        *)
LEMMA MovesOn ==
    ASSUME TypeOK, WorkNotForgotten, NEW t \in Callers \cup Workers, NEW l,
           pc' = [pc EXCEPT ![t] = l], UNCHANGED <<prio, owed>>, token => token',
           t \in Callers /\ pc[t] = "signal" => token',
           t \in Workers /\ pc[t] \in Draining => l \in Draining \/ token'
    PROVE  WorkNotForgotten'
<1>1. \A u \in Callers \cup Workers : pc'[u] = IF u = t THEN l ELSE pc[u]
  BY DEF TypeOK, Threads
<1> QED
  BY <1>1, ConstantsAssumption DEF WorkNotForgotten, Queued, Draining

(* Admit owes the signal for the key it queues (signalWork after the unlock). *)
LEMMA AdmitRemembers ==
    ASSUME TypeOK, WorkNotForgotten, NEW t \in Callers, Admit(t)
    PROVE  WorkNotForgotten'
<1> USE DEF Admit
<1>1. CASE UNCHANGED prio
  <2>1. \E l : pc' = [pc EXCEPT ![t] = l]
    BY DEF Goto, Return
  <2> QED
    BY <1>1, <2>1, MovesOn, ConstantsAssumption DEF Draining
<1>2. CASE ~stopped /\ ~InFlight(key[t]) /\ Enqueues(key[t], ExplicitRead)
  <2>1. pc'[t] = "signal"
    BY <1>2 DEF Goto, TypeOK, Threads
  <2> QED
    BY <2>1 DEF WorkNotForgotten
<1>3. CASE ~stopped /\ ~InFlight(key[t]) /\ ~Enqueues(key[t], ExplicitRead)
  <2>1. prio[key[t]] >= ExplicitRead
    <3>1. key[t] \in Keys
      BY DEF TypeOK
    <3> QED
      BY <1>3, <3>1, PriorityRange, ConstantsAssumption DEF InFlight, Enqueues
  <2> QED
    BY <1>1, <1>3, <2>1 DEF Offered, TypeOK
<1> QED
  BY <1>1, <1>2, <1>3

(* EnqueueBatch owes one signal for every key it queues. *)
LEMMA EnqueueBatchRemembers ==
    ASSUME TypeOK, WorkNotForgotten, NEW t \in Prefetchers, NEW S \in SUBSET Keys,
           NEW p \in Priorities, EnqueueBatch(t, S, p)
    PROVE  WorkNotForgotten'
<1> DEFINE New == {k \in S : Enqueues(k, p)}
<1>1. owed' = [owed EXCEPT ![t] = Cardinality(New)] /\ IsFiniteSet(New)
  BY FS_Subset, ConstantsAssumption DEF EnqueueBatch
<1>2. CASE New = {}
  <2>1. owed' = owed
    BY <1>1, <1>2, FS_EmptySet DEF EnqueueBatch, TypeOK
  <2>2. \A k \in S : k \in active \/ prio[k] >= p
    BY <1>2, PriorityRange DEF Enqueues
  <2>3. prio' = prio
    BY <2>2 DEF EnqueueBatch, Offered, TypeOK
  <2> QED
    BY <2>1, <2>3 DEF EnqueueBatch, WorkNotForgotten, Queued
<1>3. CASE New # {}
  <2>1. Cardinality(New) \in Nat /\ Cardinality(New) # 0
    BY <1>1, <1>3, FS_EmptySet, FS_CardinalityType
  <2>2. owed'[t] > 0
    BY <1>1, <2>1 DEF TypeOK
  <2> QED
    BY <2>2 DEF WorkNotForgotten
<1> QED
  BY <1>2, <1>3

(* Whoever takes the token or the debt of a signal passes it on or drains. *)
LEMMA WorkNotForgottenNext ==
    TypeOK /\ QueueInv /\ WorkNotForgotten /\ [Next]_vars => WorkNotForgotten'
<1> SUFFICES ASSUME TypeOK, QueueInv, WorkNotForgotten, [Next]_vars PROVE WorkNotForgotten'
  OBVIOUS
<1> USE DEF queue, life, disk, locals
<1>1. CASE Start
  <2>1. \A w \in Workers : pc[w] = "off"
    BY <1>1 DEF Start, QueueInv, WorkersStarted
  <2>2. \A u \in Callers : pc'[u] = pc[u]
    BY <1>1, ConstantsAssumption DEF Start, Threads
  <2>3. \A w \in Workers : pc[w] \notin Draining
    BY <2>1 DEF Draining, WorkerHolds, Validating
  <2> QED
    BY <1>1, <2>2, <2>3 DEF Start, WorkNotForgotten, Queued, Draining
<1>2. CASE Stop
  BY <1>2 DEF Stop, WorkNotForgotten, Queued
<1>3. ASSUME NEW t \in Prefetchers, SignalBatch(t) PROVE WorkNotForgotten'
  BY <1>3 DEF SignalBatch, WorkNotForgotten
<1>4. ASSUME NEW t \in Callers \cup Workers, Validate(t) PROVE WorkNotForgotten'
  <2>1. \E l : pc' = [pc EXCEPT ![t] = l] /\ (t \in Workers => l \in Draining)
    BY <1>4, ConstantsAssumption
    DEF Validate, Stat, StatFails, Check, VerifyOnce, AwaitVerdict, Restat, RememberVerified,
        Miss, Hit, Fail, Return, Goto, OnMiss, OnHit, Draining, WorkerHolds, Validating, Callers
  <2>2. UNCHANGED <<prio, owed, token>> /\ pc[t] # "signal"
    BY <1>4 DEF Validate, Stat, StatFails, Check, VerifyOnce, AwaitVerdict, Restat,
                RememberVerified
  <2> QED
    BY <2>1, <2>2, MovesOn
<1>5. ASSUME NEW t \in Callers, Cancel(t) \/ CallerStep(t) \/ \E k \in Keys : Call(t, k)
      PROVE  WorkNotForgotten'
  <2>1. CASE Admit(t)
    BY <2>1, AdmitRemembers
  <2>2. CASE SignalWork(t)
    BY <2>2 DEF SignalWork, WorkNotForgotten
  <2>3. CASE ~Admit(t) /\ ~SignalWork(t)
    <3>1. /\ \E l : pc' = [pc EXCEPT ![t] = l]
          /\ UNCHANGED <<prio, owed, token>> /\ pc[t] # "signal"
      BY <1>5, <2>3 DEF CallerStep, Cancel, Call, Enter, JoinInflight, Receive, Open, Pin,
                        ReadThrough, Hit, Return, Goto
    <3> QED
      BY <3>1, MovesOn, ConstantsAssumption
  <2> QED
    BY <2>1, <2>2, <2>3
<1>6. ASSUME NEW w \in Workers, WorkerStep(w) PROVE WorkNotForgotten'
  <2>1. CASE SignalWork(w)
    BY <2>1 DEF SignalWork, WorkNotForgotten
  <2>2. CASE Wake(w)
    <3>1. pc'[w] = "pop"
      BY <2>2 DEF Wake, Goto, TypeOK, Threads
    <3> QED
      BY <3>1 DEF WorkNotForgotten
  <2>3. CASE PopEmpty(w)
    BY <2>3 DEF PopEmpty, WorkNotForgotten, Queued
  <2>4. CASE Exit(w) \/ Fetch(w) \/ Finish(w) \/ Record(w)
    <3>1. /\ \E l : /\ pc' = [pc EXCEPT ![w] = l]
                    /\ pc[w] \in Draining => l \in Draining
          /\ UNCHANGED <<prio, owed, token>>
      BY <2>4 DEF Exit, Fetch, Finish, Record, LetGo, Fail, Goto, Draining, WorkerHolds,
                  Validating
    <3> QED
      BY <3>1, MovesOn, ConstantsAssumption
  <2> QED
    BY <1>6, <2>1, <2>2, <2>3, <2>4 DEF WorkerStep
<1>7. ASSUME NEW w \in Workers, NEW k \in Keys, Pop(w, k) PROVE WorkNotForgotten'
  <2>1. pc'[w] \in Draining
    BY <1>7 DEF Pop, Goto, TypeOK, Threads, Draining, WorkerHolds, Validating
  <2> QED
    BY <2>1 DEF WorkNotForgotten, Draining
<1>8. ASSUME NEW v \in Verifiers, VerifierStep(v) PROVE WorkNotForgotten'
  BY <1>8 DEF VerifierStep, RunVerifyBlob, CompareFile, DeliverVerdict, WorkNotForgotten, Queued
<1>9. ASSUME NEW k \in Keys, Replace(k) \/ Remove(k) PROVE WorkNotForgotten'
  BY <1>9 DEF Replace, Remove, WorkNotForgotten, Queued
<1>10. CASE UNCHANGED vars
  BY <1>10 DEF vars, WorkNotForgotten, Queued
<1> QED
  BY <1>1, <1>2, <1>3, <1>4, <1>5, <1>6, <1>7, <1>8, <1>9, <1>10, EnqueueBatchRemembers DEF Next

(* No queued blob is forgotten although workReady holds one signal only and   *)
(* a signal sent when it is full is dropped (signalWork, step).              *)
THEOREM WorkNotForgottenHolds == Spec => []WorkNotForgotten
<1>1. Init => WorkNotForgotten
  BY DEF Init, WorkNotForgotten, Queued
<1> QED
  BY <1>1, TypeCorrect, QueueInvInit, QueueInvNext, WorkNotForgottenNext, PTL DEF Spec

-----------------------------------------------------------------------------
(* What is read is genuine, outside of the two windows of Replace. *)

(* An answer waits only for a thread that will take it. *)
Answered(t) == answer[t] # "none" => pc[t] \in {"signal", "await", "verdict", "finish"}

(* What a thread is about to rely on.  A positive verdict says something of   *)
(* the file in hand only as long as that file is the one in the cache: who    *)
(* joined a verification may have seen another file than was asked about.    *)
Vouched(t) ==
    /\ pc[t] = "restat" \/ (pc[t] = "verdict" /\ answer[t] = "ok") =>
          (cache[key[t]] = file[t] => file[t].content # "bad")
    /\ pc[t] = "remember" => file[t].content # "bad"
    /\ pc[t] = "record" => cache[key[t]].content # "bad"
    /\ t \in Callers /\ pc[t] = "idle" => file[t].content # "bad"

ThreadsInv == \A t \in Callers \cup Workers : Answered(t) /\ Vouched(t)

(* Whoever is on a list waits there and has not been answered. *)
ListsInv ==
    \A k \in Keys :
        /\ \A t \in wait[k] : pc[t] \in {"signal", "await"} /\ answer[t] = "none" /\ key[t] = k
        /\ \A t \in verifying[k] : pc[t] = "verdict" /\ answer[t] = "none" /\ key[t] = k

(* A positive verdict is true of the file asked about and, until it is        *)
(* delivered, of whatever file the cache has.                                *)
VerdictsInv ==
    \A v \in Verifiers : verif[v] # NoVerification =>
        /\ verif[v].stage = "compare" /\ cache[verif[v].key] = verif[v].file
              => verif[v].file.content # "bad"
        /\ verif[v].stage = "deliver" /\ verif[v].verdict = "ok"
              => verif[v].file.content # "bad" /\ cache[verif[v].key].content # "bad"

(* VerifiedIsGenuine, as it is said of a file that may be none. *)
NoneBad == \A k \in Keys : verified[k].content # "bad"

GenuineInv == ThreadsInv /\ ListsInv /\ VerdictsInv /\ NoneBad

LEMMA FileFacts ==
    ASSUME TypeOK
    PROVE  /\ NoFile.content = "none"
           /\ \A f \in File : f.content \in {"good", "bad"}
           /\ \A k \in Keys : cache[k] \in File \cup {NoFile} /\ verified[k] \in File \cup {NoFile}
           /\ \A t \in Threads : file[t] \in File \cup {NoFile}
BY DEF TypeOK, NoFile, File, Contents

(* One thread moves; of the lists only its own place changes. *)
LEMMA ThreadStep ==
    ASSUME TypeOK, GenuineInv, NEW t \in Callers \cup Workers, UNCHANGED <<cache, verif>>,
           \A u \in Callers \cup Workers : u # t =>
               pc'[u] = pc[u] /\ key'[u] = key[u] /\ file'[u] = file[u] /\ answer'[u] = answer[u],
           Answered(t)', Vouched(t)', NoneBad',
           \A k \in Keys :
               /\ wait'[k] \subseteq wait[k] \cup {t} /\ verifying'[k] \subseteq verifying[k] \cup {t}
               /\ t \in wait'[k] => pc'[t] \in {"signal", "await"} /\ answer'[t] = "none" /\ key'[t] = k
               /\ t \in verifying'[k] => pc'[t] = "verdict" /\ answer'[t] = "none" /\ key'[t] = k
    PROVE  GenuineInv'
<1>1. ASSUME NEW u \in Callers \cup Workers, u # t PROVE Answered(u)' /\ Vouched(u)'
  <2>1. /\ pc'[u] = pc[u] /\ key'[u] = key[u] /\ file'[u] = file[u] /\ answer'[u] = answer[u]
        /\ Answered(u) /\ Vouched(u)
    BY <1>1 DEF GenuineInv, ThreadsInv
  <2> QED
    BY <2>1 DEF Answered, Vouched
<1>2. ThreadsInv'
  BY <1>1 DEF ThreadsInv
<1>3. \A k \in Keys : wait[k] \subseteq Callers \cup Workers /\ verifying[k] \subseteq Callers \cup Workers
  BY DEF TypeOK
<1>4. ListsInv'
  BY <1>3 DEF ListsInv, GenuineInv
<1>5. VerdictsInv'
  BY DEF VerdictsInv, GenuineInv
<1> QED
  BY <1>2, <1>4, <1>5 DEF GenuineInv

(* One thread that is on no list moves. *)
LEMMA QuietThread ==
    ASSUME TypeOK, GenuineInv, NEW t \in Callers \cup Workers,
           UNCHANGED <<cache, verif, wait, verifying>>,
           \A u \in Callers \cup Workers : u # t =>
               pc'[u] = pc[u] /\ key'[u] = key[u] /\ file'[u] = file[u] /\ answer'[u] = answer[u],
           Answered(t)', Vouched(t)', NoneBad',
           pc[t] \notin {"signal", "await", "verdict"} \/ answer[t] # "none"
    PROVE  GenuineInv'
<1>1. \A k \in Keys : t \notin wait[k] /\ t \notin verifying[k]
  BY DEF GenuineInv, ListsInv
<1> QED
  BY <1>1, ThreadStep

(* os.Stat gives the file to judge, and may only forget a verified one. *)
LEMMA StatGenuine ==
    ASSUME TypeOK, GenuineInv, NEW t \in Callers \cup Workers, Stat(t)
    PROVE  GenuineInv'
<1> USE ConstantsAssumption
<1>0. t \in Callers \cup Workers /\ t \in Threads /\ Answered(t) /\ Vouched(t) /\ NoneBad
  BY DEF GenuineInv, ThreadsInv, Threads, Callers
<1>1. /\ UNCHANGED <<cache, verif, wait, verifying>>
      /\ \A u \in Callers \cup Workers : u # t =>
            pc'[u] = pc[u] /\ key'[u] = key[u] /\ file'[u] = file[u] /\ answer'[u] = answer[u]
  BY <1>0 DEF Stat, Miss, OnMiss, Goto, queue, disk, locals, life, TypeOK, Threads
<1>2. Answered(t)' /\ Vouched(t)'
  BY <1>0, <1>1, FileFacts
  DEF Stat, Miss, OnMiss, Goto, disk, locals, Answered, Vouched, TypeOK, CallerPcs, WorkerPcs,
      WorkerHolds, Validating
<1>3. NoneBad'
  BY <1>0, <1>1, FileFacts DEF Stat, NoneBad, Vouched, TypeOK
<1>4. pc[t] \notin {"signal", "await", "verdict"} \/ answer[t] # "none"
  BY DEF Stat
<1> QED
  BY <1>0, <1>1, <1>2, <1>3, <1>4, QuietThread

(* os.Stat that fails ends the operation with no file. *)
LEMMA StatFailsGenuine ==
    ASSUME TypeOK, GenuineInv, NEW t \in Callers \cup Workers, StatFails(t)
    PROVE  GenuineInv'
<1> USE ConstantsAssumption
<1>0. t \in Callers \cup Workers /\ t \in Threads /\ Answered(t) /\ Vouched(t) /\ NoneBad
  BY DEF GenuineInv, ThreadsInv, Threads, Callers
<1>1. /\ UNCHANGED <<cache, verif, wait, verifying>>
      /\ \A u \in Callers \cup Workers : u # t =>
            pc'[u] = pc[u] /\ key'[u] = key[u] /\ file'[u] = file[u] /\ answer'[u] = answer[u]
  BY <1>0 DEF StatFails, Fail, Return, Goto, queue, disk, locals, life, TypeOK, Threads
<1>2. Answered(t)' /\ Vouched(t)'
  BY <1>0, <1>1, FileFacts
  DEF StatFails, Fail, Return, Goto, disk, locals, Answered, Vouched, TypeOK, CallerPcs,
      WorkerPcs, WorkerHolds, Validating
<1>3. NoneBad'
  BY <1>0, <1>1, FileFacts DEF StatFails, NoneBad, Vouched, TypeOK
<1>4. pc[t] \notin {"signal", "await", "verdict"} \/ answer[t] # "none"
  BY DEF StatFails
<1> QED
  BY <1>0, <1>1, <1>2, <1>3, <1>4, QuietThread

(* isVerified forgets or keeps. *)
LEMMA CheckGenuine ==
    ASSUME TypeOK, GenuineInv, NEW t \in Callers \cup Workers, Check(t)
    PROVE  GenuineInv'
<1> USE ConstantsAssumption
<1>0. t \in Callers \cup Workers /\ t \in Threads /\ Answered(t) /\ Vouched(t) /\ NoneBad
  BY DEF GenuineInv, ThreadsInv, Threads, Callers
<1>1. /\ UNCHANGED <<cache, verif, wait, verifying>>
      /\ \A u \in Callers \cup Workers : u # t =>
            pc'[u] = pc[u] /\ key'[u] = key[u] /\ file'[u] = file[u] /\ answer'[u] = answer[u]
  BY <1>0 DEF Check, Hit, OnHit, Goto, queue, disk, locals, life, TypeOK, Threads
<1>2. Answered(t)' /\ Vouched(t)'
  BY <1>0, <1>1, FileFacts
  DEF Check, Hit, OnHit, Goto, disk, locals, Answered, Vouched, TypeOK, CallerPcs, WorkerPcs,
      WorkerHolds, Validating
<1>3. NoneBad'
  BY <1>0, <1>1, FileFacts DEF Check, IfVerified, NoneBad, Vouched, TypeOK
<1>4. pc[t] \notin {"signal", "await", "verdict"} \/ answer[t] # "none"
  BY DEF Check
<1> QED
  BY <1>0, <1>1, <1>2, <1>3, <1>4, QuietThread

(* A positive verdict goes with its thread to the second os.Stat. *)
LEMMA AwaitVerdictGenuine ==
    ASSUME TypeOK, GenuineInv, NEW t \in Callers \cup Workers, AwaitVerdict(t)
    PROVE  GenuineInv'
<1> USE ConstantsAssumption
<1>0. t \in Callers \cup Workers /\ t \in Threads /\ Answered(t) /\ Vouched(t) /\ NoneBad
  BY DEF GenuineInv, ThreadsInv, Threads, Callers
<1>1. /\ UNCHANGED <<cache, verif, wait, verifying>>
      /\ \A u \in Callers \cup Workers : u # t =>
            pc'[u] = pc[u] /\ key'[u] = key[u] /\ file'[u] = file[u] /\ answer'[u] = answer[u]
  BY <1>0 DEF AwaitVerdict, Miss, OnMiss, Goto, queue, disk, locals, life, TypeOK, Threads
<1>2. Answered(t)' /\ Vouched(t)'
  BY <1>0, <1>1, FileFacts
  DEF AwaitVerdict, Miss, OnMiss, Goto, disk, locals, Answered, Vouched, TypeOK, CallerPcs,
      WorkerPcs, WorkerHolds, Validating
<1>3. NoneBad'
  BY <1>0, <1>1, FileFacts DEF AwaitVerdict, NoneBad, Vouched, TypeOK
<1>4. pc[t] \notin {"signal", "await", "verdict"} \/ answer[t] # "none"
  BY DEF AwaitVerdict
<1> QED
  BY <1>0, <1>1, <1>2, <1>3, <1>4, QuietThread

(* The second os.Stat: a file that is still the one in hand is the one of the verdict. *)
LEMMA RestatGenuine ==
    ASSUME TypeOK, GenuineInv, NEW t \in Callers \cup Workers, Restat(t)
    PROVE  GenuineInv'
<1> USE ConstantsAssumption
<1>0. t \in Callers \cup Workers /\ t \in Threads /\ Answered(t) /\ Vouched(t) /\ NoneBad
  BY DEF GenuineInv, ThreadsInv, Threads, Callers
<1>1. /\ UNCHANGED <<cache, verif, wait, verifying>>
      /\ \A u \in Callers \cup Workers : u # t =>
            pc'[u] = pc[u] /\ key'[u] = key[u] /\ file'[u] = file[u] /\ answer'[u] = answer[u]
  BY <1>0 DEF Restat, Miss, OnMiss, Goto, queue, disk, locals, life, TypeOK, Threads
<1>2. Answered(t)' /\ Vouched(t)'
  BY <1>0, <1>1, FileFacts
  DEF Restat, Miss, OnMiss, Goto, disk, locals, Answered, Vouched, TypeOK, CallerPcs, WorkerPcs,
      WorkerHolds, Validating
<1>3. NoneBad'
  BY <1>0, <1>1, FileFacts DEF Restat, NoneBad, Vouched, TypeOK
<1>4. pc[t] \notin {"signal", "await", "verdict"} \/ answer[t] # "none"
  BY DEF Restat
<1> QED
  BY <1>0, <1>1, <1>2, <1>3, <1>4, QuietThread

(* rememberVerified *)
LEMMA RememberGenuine ==
    ASSUME TypeOK, GenuineInv, NEW t \in Callers \cup Workers, RememberVerified(t)
    PROVE  GenuineInv'
<1> USE ConstantsAssumption
<1>0. t \in Callers \cup Workers /\ t \in Threads /\ Answered(t) /\ Vouched(t) /\ NoneBad
  BY DEF GenuineInv, ThreadsInv, Threads, Callers
<1>1. /\ UNCHANGED <<cache, verif, wait, verifying>>
      /\ \A u \in Callers \cup Workers : u # t =>
            pc'[u] = pc[u] /\ key'[u] = key[u] /\ file'[u] = file[u] /\ answer'[u] = answer[u]
  BY <1>0 DEF RememberVerified, Hit, OnHit, Goto, queue, disk, locals, life, TypeOK, Threads
<1>2. Answered(t)' /\ Vouched(t)'
  BY <1>0, <1>1, FileFacts
  DEF RememberVerified, Hit, OnHit, Goto, disk, locals, Answered, Vouched, TypeOK, CallerPcs,
      WorkerPcs, WorkerHolds, Validating
<1>3. NoneBad'
  BY <1>0, <1>1, FileFacts DEF RememberVerified, NoneBad, Vouched, TypeOK
<1>4. pc[t] \notin {"signal", "await", "verdict"} \/ answer[t] # "none"
  BY DEF RememberVerified
<1> QED
  BY <1>0, <1>1, <1>2, <1>3, <1>4, QuietThread

(* EnsureHydrated on a stopped hydrator returns no file. *)
LEMMA EnterGenuine ==
    ASSUME TypeOK, GenuineInv, NEW t \in Callers, Enter(t)
    PROVE  GenuineInv'
<1> USE ConstantsAssumption
<1>0. t \in Callers \cup Workers /\ t \in Threads /\ Answered(t) /\ Vouched(t) /\ NoneBad
  BY DEF GenuineInv, ThreadsInv, Threads, Callers
<1>1. /\ UNCHANGED <<cache, verif, wait, verifying>>
      /\ \A u \in Callers \cup Workers : u # t =>
            pc'[u] = pc[u] /\ key'[u] = key[u] /\ file'[u] = file[u] /\ answer'[u] = answer[u]
  BY <1>0 DEF Enter, Return, Goto, queue, disk, locals, life, TypeOK, Threads
<1>2. Answered(t)' /\ Vouched(t)'
  BY <1>0, <1>1, FileFacts
  DEF Enter, Return, Goto, disk, locals, Answered, Vouched, TypeOK, CallerPcs, WorkerPcs,
      WorkerHolds, Validating
<1>3. NoneBad'
  BY <1>0, <1>1, FileFacts DEF Enter, NoneBad, Vouched, TypeOK
<1>4. pc[t] \notin {"signal", "await", "verdict"} \/ answer[t] # "none"
  BY DEF Enter
<1> QED
  BY <1>0, <1>1, <1>2, <1>3, <1>4, QuietThread

(* The answer of a worker is taken; the file is looked at again. *)
LEMMA ReceiveGenuine ==
    ASSUME TypeOK, GenuineInv, NEW t \in Callers, Receive(t)
    PROVE  GenuineInv'
<1> USE ConstantsAssumption
<1>0. t \in Callers \cup Workers /\ t \in Threads /\ Answered(t) /\ Vouched(t) /\ NoneBad
  BY DEF GenuineInv, ThreadsInv, Threads, Callers
<1>1. /\ UNCHANGED <<cache, verif, wait, verifying>>
      /\ \A u \in Callers \cup Workers : u # t =>
            pc'[u] = pc[u] /\ key'[u] = key[u] /\ file'[u] = file[u] /\ answer'[u] = answer[u]
  BY <1>0 DEF Receive, Return, Hit, OnHit, Goto, queue, disk, locals, life, TypeOK, Threads
<1>2. Answered(t)' /\ Vouched(t)'
  BY <1>0, <1>1, FileFacts
  DEF Receive, Return, Hit, OnHit, Goto, disk, locals, Answered, Vouched, TypeOK, CallerPcs,
      WorkerPcs, WorkerHolds, Validating
<1>3. NoneBad'
  BY <1>0, <1>1, FileFacts DEF Receive, NoneBad, Vouched, TypeOK
<1>4. pc[t] \notin {"signal", "await", "verdict"} \/ answer[t] # "none"
  BY DEF Receive
<1> QED
  BY <1>0, <1>1, <1>2, <1>3, <1>4, QuietThread

(* os.Open: a file that may be another one than was verified. *)
LEMMA OpenGenuine ==
    ASSUME TypeOK, GenuineInv, NEW t \in Callers, Open(t)
    PROVE  GenuineInv'
<1> USE ConstantsAssumption
<1>0. t \in Callers \cup Workers /\ t \in Threads /\ Answered(t) /\ Vouched(t) /\ NoneBad
  BY DEF GenuineInv, ThreadsInv, Threads, Callers
<1>1. /\ UNCHANGED <<cache, verif, wait, verifying>>
      /\ \A u \in Callers \cup Workers : u # t =>
            pc'[u] = pc[u] /\ key'[u] = key[u] /\ file'[u] = file[u] /\ answer'[u] = answer[u]
  BY <1>0 DEF Open, Again, Goto, queue, disk, locals, life, TypeOK, Threads
<1>2. Answered(t)' /\ Vouched(t)'
  BY <1>0, <1>1, FileFacts
  DEF Open, Again, Goto, disk, locals, Answered, Vouched, TypeOK, CallerPcs, WorkerPcs,
      WorkerHolds, Validating
<1>3. NoneBad'
  BY <1>0, <1>1, FileFacts DEF Open, NoneBad, Vouched, TypeOK
<1>4. pc[t] \notin {"signal", "await", "verdict"} \/ answer[t] # "none"
  BY DEF Open
<1> QED
  BY <1>0, <1>1, <1>2, <1>3, <1>4, QuietThread

(* An open file that is the verified one is handed out. *)
LEMMA PinGenuine ==
    ASSUME TypeOK, GenuineInv, NEW t \in Callers, Pin(t)
    PROVE  GenuineInv'
<1> USE ConstantsAssumption
<1>0. t \in Callers \cup Workers /\ t \in Threads /\ Answered(t) /\ Vouched(t) /\ NoneBad
  BY DEF GenuineInv, ThreadsInv, Threads, Callers
<1>1. /\ UNCHANGED <<cache, verif, wait, verifying>>
      /\ \A u \in Callers \cup Workers : u # t =>
            pc'[u] = pc[u] /\ key'[u] = key[u] /\ file'[u] = file[u] /\ answer'[u] = answer[u]
  BY <1>0 DEF Pin, Again, Return, Goto, NoneBad, queue, disk, locals, life, TypeOK, Threads
<1>2. Answered(t)' /\ Vouched(t)'
  BY <1>0, <1>1, FileFacts
  DEF Pin, Again, Return, Goto, NoneBad, disk, locals, Answered, Vouched, TypeOK, CallerPcs,
      WorkerPcs, WorkerHolds, Validating
<1>3. NoneBad'
  BY <1>0, <1>1, FileFacts DEF Pin, IfVerified, NoneBad, Vouched, TypeOK
<1>4. pc[t] \notin {"signal", "await", "verdict"} \/ answer[t] # "none"
  BY DEF Pin
<1> QED
  BY <1>0, <1>1, <1>2, <1>3, <1>4, QuietThread

(* ReadBlob without the cache *)
LEMMA ReadThroughGenuine ==
    ASSUME TypeOK, GenuineInv, NEW t \in Callers, ReadThrough(t)
    PROVE  GenuineInv'
<1> USE ConstantsAssumption
<1>0. t \in Callers \cup Workers /\ t \in Threads /\ Answered(t) /\ Vouched(t) /\ NoneBad
  BY DEF GenuineInv, ThreadsInv, Threads, Callers
<1>1. /\ UNCHANGED <<cache, verif, wait, verifying>>
      /\ \A u \in Callers \cup Workers : u # t =>
            pc'[u] = pc[u] /\ key'[u] = key[u] /\ file'[u] = file[u] /\ answer'[u] = answer[u]
  BY <1>0 DEF ReadThrough, Return, Goto, queue, disk, locals, life, TypeOK, Threads
<1>2. Answered(t)' /\ Vouched(t)'
  BY <1>0, <1>1, FileFacts
  DEF ReadThrough, Return, Goto, disk, locals, Answered, Vouched, TypeOK, CallerPcs, WorkerPcs,
      WorkerHolds, Validating
<1>3. NoneBad'
  BY <1>0, <1>1, FileFacts DEF ReadThrough, NoneBad, Vouched, TypeOK
<1>4. pc[t] \notin {"signal", "await", "verdict"} \/ answer[t] # "none"
  BY DEF ReadThrough
<1> QED
  BY <1>0, <1>1, <1>2, <1>3, <1>4, QuietThread

(* A new call has no file yet. *)
LEMMA CallGenuine ==
    ASSUME TypeOK, GenuineInv, NEW t \in Callers, NEW k \in Keys, Call(t, k)
    PROVE  GenuineInv'
<1> USE ConstantsAssumption
<1>0. t \in Callers \cup Workers /\ t \in Threads /\ Answered(t) /\ NoneBad
  BY DEF GenuineInv, ThreadsInv, Threads, Callers
<1>1. /\ UNCHANGED <<cache, verif, wait, verifying, verified>>
      /\ \A u \in Callers \cup Workers : u # t =>
            pc'[u] = pc[u] /\ key'[u] = key[u] /\ file'[u] = file[u] /\ answer'[u] = answer[u]
  BY DEF Call, Goto, queue, disk, TypeOK, Threads
<1>2. Answered(t)' /\ Vouched(t)'
  BY <1>0 DEF Call, Again, Goto, Answered, Vouched, TypeOK
<1>3. NoneBad'
  BY <1>0, <1>1 DEF NoneBad
<1> QED
  BY <1>0, <1>1, <1>2, <1>3, QuietThread DEF Call

(* A worker wakes, ends, finds no work or takes a key: it has no file to judge. *)
LEMMA WorkerMoves ==
    ASSUME TypeOK, GenuineInv, NEW w \in Workers,
           Wake(w) \/ Exit(w) \/ PopEmpty(w) \/ \E k \in Keys : Pop(w, k)
    PROVE  GenuineInv'
<1> USE ConstantsAssumption
<1>0. w \in Callers \cup Workers /\ w \in Threads /\ w \notin Callers /\ Answered(w) /\ NoneBad
  BY DEF GenuineInv, ThreadsInv, Threads, Callers
<1>1. /\ UNCHANGED <<cache, verif, wait, verifying, verified, file, answer>>
      /\ \A u \in Callers \cup Workers : u # w => pc'[u] = pc[u] /\ key'[u] = key[u]
      /\ pc[w] \in {"idle", "pop"} /\ pc'[w] \in {"idle", "pop", "exited", "resignal", "stat", "more"}
  BY <1>0 DEF Wake, Exit, PopEmpty, Pop, Goto, queue, disk, locals, TypeOK, Threads
<1>2. Answered(w)' /\ Vouched(w)'
  BY <1>0, <1>1 DEF Answered, Vouched
<1>3. NoneBad'
  BY <1>0, <1>1 DEF NoneBad
<1> QED
  BY <1>0, <1>1, <1>2, <1>3, QuietThread

(* verifyBlobOnce: the thread joins a list; a new verification has no verdict. *)
LEMMA VerifyOnceGenuine ==
    ASSUME TypeOK, GenuineInv, NEW t \in Callers \cup Workers, VerifyOnce(t)
    PROVE  GenuineInv'
<1> USE ConstantsAssumption
<1>0. t \in Threads /\ key[t] \in Keys /\ Answered(t) /\ Vouched(t) /\ NoneBad /\ pc[t] = "verify"
      /\ answer[t] = "none"
  BY
  DEF GenuineInv, ThreadsInv, Threads, Callers, Answered, VerifyOnce, TypeOK, WorkerHolds,
      Validating
<1>1. /\ UNCHANGED <<cache, wait, verified>>
      /\ \A u \in Callers \cup Workers : u # t =>
            pc'[u] = pc[u] /\ key'[u] = key[u] /\ file'[u] = file[u] /\ answer'[u] = answer[u]
  BY <1>0 DEF VerifyOnce, Miss, Goto, queue, disk, locals, TypeOK, Threads
<1>2. NoneBad'
  BY <1>0, <1>1 DEF NoneBad
<1>3. CASE stopped
  <2>1. UNCHANGED <<verifying, verif>> /\ answer'[t] = "none" /\ pc'[t] = OnMiss(t)
    BY <1>0, <1>3 DEF VerifyOnce, Miss, Goto, TypeOK, Threads
  <2>2. Answered(t)' /\ Vouched(t)'
    BY <2>1 DEF OnMiss, Answered, Vouched
  <2> QED
    BY <1>0, <1>1, <1>2, <2>1, <2>2, QuietThread
<1>4. CASE ~stopped
  <2>1. /\ pc'[t] = "verdict" /\ answer'[t] = "none" /\ key'[t] = key[t]
        /\ verifying' = [verifying EXCEPT ![key[t]] = @ \cup {t}]
    BY <1>0, <1>4 DEF VerifyOnce, Goto, locals, TypeOK, Threads
  <2>2. Answered(t)' /\ Vouched(t)'
    BY <2>1 DEF Answered, Vouched
  <2>3. ASSUME NEW k \in Keys
        PROVE  /\ t \notin wait[k] /\ t \notin verifying[k]
               /\ verifying'[k] \subseteq verifying[k] \cup {t}
               /\ t \in verifying'[k] => key[t] = k
    <3>1. t \notin wait[k] /\ t \notin verifying[k]
      BY <1>0 DEF GenuineInv, ListsInv
    <3> QED
      BY <2>1, <3>1 DEF TypeOK
  <2>4. ASSUME NEW v \in Verifiers
        PROVE  verif'[v] = verif[v] \/ (verif'[v].stage = "run" /\ verif'[v] # NoVerification)
    BY <1>0, <1>4 DEF VerifyOnce, NoVerification, TypeOK
  <2>5. VerdictsInv'
    BY <1>1, <2>4 DEF VerdictsInv, GenuineInv
  <2>6. ThreadsInv'
    <3>1. ASSUME NEW u \in Callers \cup Workers, u # t PROVE Answered(u)' /\ Vouched(u)'
      BY <1>1, <3>1 DEF GenuineInv, ThreadsInv, Answered, Vouched
    <3> QED
      BY <2>2, <3>1 DEF ThreadsInv
  <2>7. ListsInv'
    <3>1. ASSUME NEW k \in Keys, NEW u \in wait'[k]
          PROVE  pc'[u] \in {"signal", "await"} /\ answer'[u] = "none" /\ key'[u] = k
      BY <1>1, <2>3, <3>1 DEF GenuineInv, ListsInv, TypeOK
    <3>2. ASSUME NEW k \in Keys, NEW u \in verifying'[k]
          PROVE  pc'[u] = "verdict" /\ answer'[u] = "none" /\ key'[u] = k
      <4>1. CASE u = t
        BY <2>1, <2>3, <3>2, <4>1
      <4>2. CASE u # t
        BY <1>1, <2>3, <3>2, <4>2 DEF GenuineInv, ListsInv, TypeOK
      <4> QED
        BY <4>1, <4>2
    <3> QED
      BY <3>1, <3>2 DEF ListsInv
  <2> QED
    BY <1>2, <2>5, <2>6, <2>7 DEF GenuineInv
<1> QED
  BY <1>3, <1>4

(* A caller comes to a wait list, or leaves the lists it is on. *)
LEMMA ListGenuine ==
    ASSUME TypeOK, GenuineInv, NEW t \in Callers,
           JoinInflight(t) \/ Admit(t) \/ Cancel(t) \/ SignalWork(t)
    PROVE  GenuineInv'
<1> USE ConstantsAssumption
<1>0. t \in Callers \cup Workers /\ t \in Threads /\ t \notin Workers /\ key[t] \in Keys
      /\ Answered(t) /\ Vouched(t) /\ NoneBad
  <2>1. t \in Callers \cup Workers /\ t \in Threads /\ t \notin Workers
    BY DEF Threads, Callers
  <2>2. pc[t] # "idle"
    BY DEF JoinInflight, Admit, Cancel, SignalWork, AfterSignal
  <2> QED
    BY <2>1, <2>2 DEF GenuineInv, ThreadsInv, TypeOK
<1>1. /\ UNCHANGED <<cache, verif, verified>>
      /\ \A u \in Callers \cup Workers : u # t =>
            pc'[u] = pc[u] /\ key'[u] = key[u] /\ file'[u] = file[u] /\ answer'[u] = answer[u]
  <2>1. UNCHANGED <<cache, verif, verified>>
    BY DEF JoinInflight, Admit, Cancel, SignalWork, disk
  <2>2. \E l : pc' = [pc EXCEPT ![t] = l]
    BY DEF JoinInflight, Admit, Cancel, SignalWork, Return, Goto
  <2>3. \/ UNCHANGED <<key, file, answer>>
        \/ /\ \E x : key' = [key EXCEPT ![t] = x]
           /\ \E x : file' = [file EXCEPT ![t] = x]
           /\ \E x : answer' = [answer EXCEPT ![t] = x]
    BY DEF JoinInflight, Admit, Cancel, SignalWork, Return, locals
  <2> QED
    BY <1>0, <2>1, <2>2, <2>3 DEF TypeOK, Threads
<1>2. NoneBad'
  BY <1>0, <1>1 DEF NoneBad
<1>3. ASSUME NEW k \in Keys
      PROVE  /\ t \in wait[k] => pc[t] \in {"signal", "await"} /\ answer[t] = "none" /\ key[t] = k
             /\ t \in verifying[k] => pc[t] = "verdict" /\ answer[t] = "none" /\ key[t] = k
  BY DEF GenuineInv, ListsInv
<1>4. CASE JoinInflight(t) \/ Admit(t)
  <2>1. pc[t] \in {"join", "admit"} /\ answer[t] = "none" /\ verifying' = verifying
    BY <1>0, <1>4 DEF JoinInflight, Admit, Answered
  <2>2. \/ pc'[t] \in {"signal", "await"} /\ UNCHANGED <<key, answer, file>>
           /\ wait' = [wait EXCEPT ![key[t]] = @ \cup {t}]
        \/ /\ pc'[t] \in {"idle", "stat"} /\ answer'[t] = "none" /\ wait' = wait
           /\ file'[t] = NoFile \/ pc'[t] = "stat"
    BY <1>0, <1>4, <2>1 DEF JoinInflight, Admit, Return, Goto, locals, TypeOK, Threads
  <2>3. Answered(t)' /\ Vouched(t)'
    BY <2>1, <2>2, FileFacts DEF Answered, Vouched
  <2>4. ASSUME NEW k \in Keys
        PROVE  /\ wait'[k] \subseteq wait[k] \cup {t}
               /\ t \in wait'[k] => pc'[t] \in {"signal", "await"} /\ answer'[t] = "none" /\ key'[t] = k
               /\ t \notin verifying[k]
    BY <1>0, <1>3, <2>1, <2>2 DEF TypeOK
  <2> QED
    BY <1>0, <1>1, <1>2, <2>1, <2>3, <2>4, ThreadStep
<1>5. CASE Cancel(t)
  <2>1. /\ pc'[t] = "idle" /\ file'[t] = NoFile /\ answer'[t] = "none"
        /\ wait' = [wait EXCEPT ![key[t]] = @ \ {t}]
        /\ verifying' = [verifying EXCEPT ![key[t]] = @ \ {t}]
    BY <1>0, <1>5 DEF Cancel, Return, Goto, TypeOK, Threads
  <2>2. Answered(t)' /\ Vouched(t)'
    BY <2>1, FileFacts DEF Answered, Vouched
  <2>3. ASSUME NEW k \in Keys
        PROVE  /\ wait'[k] \subseteq wait[k] /\ verifying'[k] \subseteq verifying[k]
               /\ t \notin wait'[k] /\ t \notin verifying'[k]
    BY <1>0, <1>3, <2>1 DEF TypeOK
  <2> QED
    BY <1>0, <1>1, <1>2, <2>2, <2>3, ThreadStep
<1>6. CASE SignalWork(t)
  <2>1. pc[t] \in {"signal", "more", "resignal"} /\ pc[t] \in CallerPcs
    BY <1>6 DEF SignalWork, AfterSignal, TypeOK
  <2>2. pc[t] = "signal"
    BY <2>1 DEF CallerPcs, Validating
  <2>3. pc'[t] = "await" /\ UNCHANGED <<key, file, answer, wait, verifying>>
    BY <1>0, <1>6, <2>2 DEF SignalWork, AfterSignal, Goto, queue, locals, TypeOK, Threads
  <2>4. Answered(t)' /\ Vouched(t)'
    BY <2>3 DEF Answered, Vouched
  <2> QED
    BY <1>0, <1>1, <1>2, <1>3, <2>2, <2>3, <2>4, ThreadStep
<1> QED
  BY <1>4, <1>5, <1>6

(* signalWork by a worker *)
LEMMA WorkerSignals ==
    ASSUME TypeOK, GenuineInv, NEW w \in Workers, SignalWork(w)
    PROVE  GenuineInv'
<1> USE ConstantsAssumption
<1>0. w \in Callers \cup Workers /\ w \in Threads /\ w \notin Callers /\ Answered(w) /\ NoneBad
  BY DEF GenuineInv, ThreadsInv, Threads, Callers
<1>1. pc[w] \in {"signal", "more", "resignal"} /\ pc[w] \in WorkerPcs
  BY DEF SignalWork, AfterSignal, TypeOK
<1>2. pc[w] \in {"more", "resignal"}
  BY <1>1 DEF WorkerPcs, WorkerHolds, Validating
<1>3. /\ UNCHANGED <<cache, verif, wait, verifying, verified, key, file, answer>>
      /\ \A u \in Callers \cup Workers : u # w => pc'[u] = pc[u]
      /\ pc'[w] \in {"stat", "pop"}
  BY <1>0, <1>2 DEF SignalWork, AfterSignal, Goto, queue, disk, locals, TypeOK, Threads
<1>4. Answered(w)' /\ Vouched(w)' /\ NoneBad'
  BY <1>0, <1>2, <1>3 DEF Answered, Vouched, NoneBad
<1> QED
  BY <1>0, <1>2, <1>3, <1>4, QuietThread

(* A worker answers everybody on its key's wait list, and starts anew.       *)
LEMMA ReleaseGenuine ==
    ASSUME TypeOK, GenuineInv, NEW w \in Workers, pc[w] \in {"record", "finish"},
           \/ \E r : Release(w, r)
           \/ UNCHANGED <<wait, answer>> /\ pc[w] = "record",
           LetGo(w), NoneBad', UNCHANGED <<cache, verif, verifying, file>>
    PROVE  GenuineInv'
<1> USE ConstantsAssumption
<1>0. w \in Threads /\ w \notin Callers /\ key[w] \in Keys /\ Answered(w)
  BY DEF GenuineInv, ThreadsInv, Threads, Callers, TypeOK, WorkerHolds
<1>1. /\ pc'[w] = "resignal"
      /\ \A u \in Callers \cup Workers : u # w => pc'[u] = pc[u] /\ key'[u] = key[u]
  BY <1>0 DEF LetGo, Goto, TypeOK, Threads
<1>2. /\ w \notin wait[key[w]] /\ answer'[w] = "none"
      /\ \A k \in Keys : w \notin verifying[k] /\ w \notin wait[k]
      /\ \A k \in Keys : wait'[k] \subseteq wait[k]
  <2>1. \A k \in Keys : w \notin verifying[k] /\ w \notin wait[k]
    BY DEF GenuineInv, ListsInv
  <2> QED
    BY <1>0, <2>1 DEF Release, Answered, TypeOK
<1>3. ASSUME NEW u \in Callers \cup Workers, u # w
      PROVE  \/ answer'[u] = answer[u] /\ (\A k \in Keys : u \in wait'[k] => u \in wait[k])
             \/ /\ u \in wait[key[w]] /\ pc[u] \in {"signal", "await"}
                /\ \A k \in Keys : u \notin wait'[k] /\ u \notin verifying[k]
  <2>1. CASE UNCHANGED <<wait, answer>>
    BY <2>1
  <2>2. CASE \E r : Release(w, r)
    <3>1. u \in Threads
      BY DEF Threads
    <3>2. u \notin wait[key[w]] => answer'[u] = answer[u]
      BY <1>3, <2>2, <3>1 DEF Release
    <3>3. wait' = [wait EXCEPT ![key[w]] = {}]
      BY <2>2 DEF Release
    <3>4. u \in wait[key[w]] => /\ pc[u] \in {"signal", "await"} /\ key[u] = key[w]
                                /\ \A k \in Keys : u \notin verifying[k]
      BY <1>0 DEF GenuineInv, ListsInv
    <3>5. u \in wait[key[w]] => \A k \in Keys : u \notin wait'[k]
      BY <1>0, <3>3, <3>4 DEF GenuineInv, ListsInv, TypeOK
    <3>6. \A k \in Keys : u \in wait'[k] => u \in wait[k]
      BY <1>2
    <3> QED
      BY <3>2, <3>4, <3>5, <3>6
  <2> QED
    BY <2>1, <2>2
<1>4. ThreadsInv'
  <2>1. Answered(w)' /\ Vouched(w)'
    BY <1>0, <1>1, <1>2 DEF Answered, Vouched
  <2>2. ASSUME NEW u \in Callers \cup Workers, u # w PROVE Answered(u)' /\ Vouched(u)'
    BY <1>1, <1>3, <2>2 DEF GenuineInv, ThreadsInv, Answered, Vouched
  <2> QED
    BY <2>1, <2>2 DEF ThreadsInv
<1>5. ListsInv'
  <2>1. ASSUME NEW k \in Keys, NEW u \in wait'[k]
        PROVE  pc'[u] \in {"signal", "await"} /\ answer'[u] = "none" /\ key'[u] = k
    <3>1. u \in wait[k] /\ u # w /\ u \in Callers
      BY <1>2, <2>1 DEF TypeOK
    <3>2. pc[u] \in {"signal", "await"} /\ answer[u] = "none" /\ key[u] = k
      BY <3>1 DEF GenuineInv, ListsInv
    <3> QED
      BY <1>1, <1>3, <2>1, <3>1, <3>2
  <2>2. ASSUME NEW k \in Keys, NEW u \in verifying'[k]
        PROVE  pc'[u] = "verdict" /\ answer'[u] = "none" /\ key'[u] = k
    <3>1. u \in verifying[k] /\ u # w /\ u \in Callers \cup Workers
      BY <1>2, <2>2 DEF TypeOK
    <3>2. pc[u] = "verdict" /\ answer[u] = "none" /\ key[u] = k
      BY <3>1 DEF GenuineInv, ListsInv
    <3> QED
      BY <1>1, <1>3, <3>1, <3>2
  <2> QED
    BY <2>1, <2>2 DEF ListsInv
<1>6. VerdictsInv'
  BY DEF GenuineInv, VerdictsInv
<1> QED
  BY <1>4, <1>5, <1>6 DEF GenuineInv

(* finishHydration, and the recording of a fetch: what is at the cache path   *)
(* is what was fetched, or was fetched since, as nothing else is put there.  *)
LEMMA FinishGenuine ==
    ASSUME TypeOK, GenuineInv, NEW w \in Workers, Finish(w) \/ Record(w)
    PROVE  GenuineInv'
<1> USE ConstantsAssumption
<1>1. CASE Finish(w)
  <2>1. NoneBad'
    BY <1>1 DEF Finish, GenuineInv, NoneBad
  <2> QED
    BY <1>1, <2>1, ReleaseGenuine DEF Finish, disk
<1>2. CASE Record(w)
  <2>1. cache[key[w]].content # "bad" /\ key[w] \in Keys
    BY <1>2 DEF Record, GenuineInv, ThreadsInv, Vouched, TypeOK, WorkerHolds
  <2>2. NoneBad'
    BY <1>2, <2>1 DEF Record, GenuineInv, NoneBad, TypeOK
  <2> QED
    BY <1>2, <2>2, ReleaseGenuine DEF Record, disk
<1> QED
  BY <1>1, <1>2

(* A file appears at or goes from a cache path.  It is none that anybody has  *)
(* in hand; it is good where somebody counts on it.                          *)
LEMMA CacheStep ==
    ASSUME TypeOK, GenuineInv, NEW k \in Keys, NEW f \in File \cup {NoFile},
           cache' = [cache EXCEPT ![k] = f], UNCHANGED <<verif, wait, verifying, verified>>,
           f = NoFile \/ Fresh(f),
           \/ f.content # "bad"
           \/ /\ \A w \in Workers : ~(pc[w] = "record" /\ key[w] = k)
              /\ \A v \in Verifiers : ~(/\ verif[v] # NoVerification /\ verif[v].key = k
                                        /\ verif[v].stage = "deliver" /\ verif[v].verdict = "ok"),
           \A u \in Callers \cup Workers :
               \/ pc'[u] = pc[u] /\ key'[u] = key[u] /\ file'[u] = file[u] /\ answer'[u] = answer[u]
               \/ /\ Answered(u)' /\ Vouched(u)'
                  /\ \A j \in Keys : u \notin wait[j] /\ u \notin verifying[j]
    PROVE  GenuineInv'
<1> USE ConstantsAssumption
<1>0. /\ \A j \in Keys : j # k => cache'[j] = cache[j]
      /\ cache'[k] = f
  BY DEF TypeOK
<1>9. \A t \in Threads : file[t] \in File => f # file[t]
  <2>1. NoFile \notin File
    BY FileFacts
  <2> QED
    BY <2>1 DEF Fresh
<1>1. ASSUME NEW u \in Callers \cup Workers PROVE Answered(u)' /\ Vouched(u)'
  <2>1. CASE Answered(u)' /\ Vouched(u)'
    BY <2>1
  <2>2. CASE pc'[u] = pc[u] /\ key'[u] = key[u] /\ file'[u] = file[u] /\ answer'[u] = answer[u]
    <3>1. u \in Threads /\ Answered(u) /\ Vouched(u)
      BY DEF GenuineInv, ThreadsInv, Threads
    <3>2. pc'[u] = pc[u] /\ key'[u] = key[u] /\ file'[u] = file[u] /\ answer'[u] = answer[u]
      BY <2>2
    <3>3. pc[u] \in {"restat", "verdict", "record"} => key[u] \in Keys
      BY DEF TypeOK, WorkerHolds, Validating
    <3>4. pc[u] \in {"restat", "verdict"} => file[u] \in File
      BY DEF TypeOK, SawFile
    <3>5. Answered(u)'
      BY <3>1, <3>2 DEF Answered
    <3>6. pc[u] \in {"restat", "verdict"} /\ cache'[key[u]] = file[u]
             => cache[key[u]] = file[u]
      BY <1>0, <1>9, <3>1, <3>3, <3>4
    <3>7. pc[u] = "record" => cache'[key[u]].content # "bad"
      <4>1. SUFFICES ASSUME pc[u] = "record", key[u] = k, f.content = "bad" PROVE FALSE
        BY <1>0, <3>1, <3>3 DEF Vouched
      <4>2. u \in Workers
        BY <4>1 DEF TypeOK, CallerPcs, Validating
      <4> QED
        BY <4>1, <4>2
    <3> QED
      BY <3>1, <3>2, <3>5, <3>6, <3>7 DEF Vouched
  <2> QED
    BY <2>1, <2>2
<1>2. ListsInv'
  <2>1. \A j \in Keys : \A u \in wait[j] \cup verifying[j] :
           pc'[u] = pc[u] /\ key'[u] = key[u] /\ answer'[u] = answer[u]
    BY DEF TypeOK
  <2> QED
    BY <2>1 DEF GenuineInv, ListsInv
<1>3. VerdictsInv'
  <2>1. ASSUME NEW v \in Verifiers, verif[v] # NoVerification
        PROVE  /\ verif[v].stage = "compare" /\ cache'[verif[v].key] = verif[v].file
                     => verif[v].file.content # "bad"
               /\ verif[v].stage = "deliver" /\ verif[v].verdict = "ok"
                     => verif[v].file.content # "bad" /\ cache'[verif[v].key].content # "bad"
    <3>1. verif[v].key \in Keys /\ verif[v].file \in File
      BY <2>1 DEF TypeOK, Verification
    <3>2. f # verif[v].file \/ f.content # "bad"
      BY <2>1, <3>1, FileFacts DEF Fresh
    <3> QED
      BY <1>0, <2>1, <3>1, <3>2 DEF GenuineInv, VerdictsInv
  <2> QED
    BY <2>1 DEF VerdictsInv
<1>4. NoneBad'
  BY DEF GenuineInv, NoneBad
<1> QED
  BY <1>1, <1>2, <1>3, <1>4 DEF GenuineInv, ThreadsInv

(* BlobToCache puts a good file in place, or none. *)
LEMMA FetchGenuine ==
    ASSUME TypeOK, GenuineInv, NEW w \in Workers, Fetch(w)
    PROVE  GenuineInv'
<1> USE ConstantsAssumption
<1>0. /\ w \in Threads /\ w \in Callers \cup Workers /\ w \notin Callers /\ key[w] \in Keys
      /\ pc[w] = "fetch" /\ NoneBad
  BY DEF Fetch, GenuineInv, Threads, TypeOK, WorkerHolds
<1>1. /\ UNCHANGED <<verif, wait, verifying, verified, key>>
      /\ \A u \in Callers \cup Workers : u # w =>
            pc'[u] = pc[u] /\ file'[u] = file[u] /\ answer'[u] = answer[u]
      /\ pc'[w] \in {"record", "finish"}
      /\ pc'[w] = "record" => answer'[w] = answer[w]
  BY <1>0 DEF Fetch, Fail, Goto, queue, locals, TypeOK, Threads
<1>2. \A j \in Keys : w \notin wait[j] /\ w \notin verifying[j]
  BY <1>0 DEF GenuineInv, ListsInv
<1>3. Answered(w)'
  BY <1>0, <1>1 DEF GenuineInv, ThreadsInv, Answered
<1>4. NoneBad'
  BY <1>0, <1>1 DEF NoneBad
<1>5. CASE cache' = cache /\ pc'[w] = "finish"
  <2>1. Vouched(w)'
    BY <1>0, <1>5 DEF Vouched
  <2> QED
    BY <1>0, <1>1, <1>3, <1>4, <1>5, <2>1, QuietThread
<1>6. CASE \E f \in File : /\ f.content = "good" /\ Fresh(f)
                           /\ cache' = [cache EXCEPT ![key[w]] = f]
  <2>1. PICK f \in File : /\ f.content = "good" /\ Fresh(f)
                          /\ cache' = [cache EXCEPT ![key[w]] = f]
    BY <1>6
  <2>2. cache'[key[w]].content # "bad"
    BY <1>0, <2>1 DEF TypeOK
  <2>3. Vouched(w)'
    BY <1>0, <1>1, <2>2 DEF Vouched
  <2>4. \A u \in Callers \cup Workers :
           \/ pc'[u] = pc[u] /\ key'[u] = key[u] /\ file'[u] = file[u] /\ answer'[u] = answer[u]
           \/ /\ Answered(u)' /\ Vouched(u)'
              /\ \A j \in Keys : u \notin wait[j] /\ u \notin verifying[j]
    BY <1>1, <1>2, <1>3, <2>3
  <2>5. f.content # "bad"
    BY <2>1
  <2> QED
    BY <1>0, <1>1, <2>1, <2>4, <2>5, CacheStep
<1> QED
  BY <1>0, <1>5, <1>6 DEF Fetch, Fail, Goto, TypeOK

(* The cache directory changes from outside, in no window.  *)
LEMMA OutsideGenuine ==
    ASSUME TamperWindows = {}, TypeOK, GenuineInv, NEW k \in Keys, Replace(k) \/ Remove(k)
    PROVE  GenuineInv'
<1>1. PICK f \in File \cup {NoFile} : cache' = [cache EXCEPT ![k] = f] /\ (f = NoFile \/ Fresh(f))
  BY DEF Replace, Remove
<1>2. /\ UNCHANGED <<verif, wait, verifying, verified>>
      /\ \A u \in Callers \cup Workers :
           pc'[u] = pc[u] /\ key'[u] = key[u] /\ file'[u] = file[u] /\ answer'[u] = answer[u]
  BY DEF Replace, Remove, queue, locals
<1>3. CASE Replace(k)
  <2>1. /\ \A w \in Workers : ~(pc[w] = "record" /\ key[w] = k)
        /\ \A v \in Verifiers : ~(/\ verif[v] # NoVerification /\ verif[v].key = k
                                  /\ verif[v].stage = "deliver" /\ verif[v].verdict = "ok")
    BY <1>3 DEF Replace, InWindow
  <2> QED
    BY <1>1, <1>2, <2>1, CacheStep
<1>4. CASE Remove(k)
  <2>1. cache' = [cache EXCEPT ![k] = NoFile] /\ NoFile.content # "bad"
    BY <1>4, FileFacts DEF Remove
  <2> QED
    BY <1>2, <2>1, CacheStep
<1> QED
  BY <1>3, <1>4

(* VerifyBlob and the comparison after it: the file hashed is the file asked  *)
(* about if that one is still there, as no file comes back.                  *)
LEMMA VerifierGenuine ==
    ASSUME TypeOK, GenuineInv, NEW v \in Verifiers, RunVerifyBlob(v) \/ CompareFile(v)
    PROVE  GenuineInv'
<1> USE ConstantsAssumption
<1>0. /\ verif[v] # NoVerification /\ verif[v] \in Verification
      /\ verif[v].key \in Keys /\ verif[v].file \in File
  BY DEF RunVerifyBlob, CompareFile, TypeOK, Verification
<1>1. UNCHANGED <<cache, wait, verifying, verified, pc, key, file, answer>>
  BY DEF RunVerifyBlob, CompareFile, queue, disk, locals
<1>2. /\ \A u \in Verifiers : u # v => verif'[u] = verif[u]
      /\ verif'[v].key = verif[v].key /\ verif'[v].file = verif[v].file
      /\ \/ verif'[v].stage = "compare" /\ cache[verif[v].key].content = "good"
         \/ verif'[v].stage = "deliver" /\ verif'[v].verdict # "ok"
         \/ /\ verif[v].stage = "compare" /\ verif'[v].stage = "deliver"
            /\ cache[verif[v].key] = verif[v].file
  <2>1. CASE RunVerifyBlob(v)
    <3>1. PICK o \in {"ok", "bad", "error"} :
             /\ o = "ok" => cache[verif[v].key].content = "good"
             /\ verif' = [verif EXCEPT ![v].verdict = o,
                             ![v].stage = IF o = "ok" THEN "compare" ELSE "deliver"]
      BY <2>1 DEF RunVerifyBlob
    <3> DEFINE s == IF o = "ok" THEN "compare" ELSE "deliver"
    <3>2. /\ verif'[v] = [verif[v] EXCEPT !.verdict = o, !.stage = s]
          /\ \A u \in Verifiers : u # v => verif'[u] = verif[u]
      BY <3>1 DEF TypeOK
    <3>3. (s = "compare" /\ o = "ok") \/ (s = "deliver" /\ o # "ok")
      OBVIOUS
    <3> HIDE DEF s
    <3>4. /\ verif'[v].key = verif[v].key /\ verif'[v].file = verif[v].file
          /\ verif'[v].verdict = o /\ verif'[v].stage = s
      BY <1>0, <3>2 DEF Verification
    <3> QED
      BY <3>1, <3>2, <3>3, <3>4
  <2>2. CASE CompareFile(v)
    <3> DEFINE d == IF cache[verif[v].key] = verif[v].file THEN "ok" ELSE "bad"
    <3>1. /\ verif'[v] = [verif[v] EXCEPT !.stage = "deliver", !.verdict = d]
          /\ \A u \in Verifiers : u # v => verif'[u] = verif[u]
          /\ verif[v].stage = "compare"
      BY <2>2 DEF CompareFile, TypeOK
    <3>2. d # "ok" \/ cache[verif[v].key] = verif[v].file
      OBVIOUS
    <3> HIDE DEF d
    <3>3. /\ verif'[v].key = verif[v].key /\ verif'[v].file = verif[v].file
          /\ verif'[v].verdict = d /\ verif'[v].stage = "deliver"
      BY <1>0, <3>1 DEF Verification
    <3> QED
      BY <3>1, <3>2, <3>3
  <2> QED
    BY <2>1, <2>2
<1>3. ThreadsInv' /\ ListsInv' /\ NoneBad'
  BY <1>1 DEF GenuineInv, ThreadsInv, ListsInv, NoneBad, Answered, Vouched
<1>4. VerdictsInv'
  <2>1. ASSUME NEW u \in Verifiers, verif'[u] # NoVerification
        PROVE  /\ verif'[u].stage = "compare" /\ cache[verif'[u].key] = verif'[u].file
                     => verif'[u].file.content # "bad"
               /\ verif'[u].stage = "deliver" /\ verif'[u].verdict = "ok"
                     => verif'[u].file.content # "bad" /\ cache[verif'[u].key].content # "bad"
    <3>1. CASE u # v
      BY <1>2, <2>1, <3>1 DEF GenuineInv, VerdictsInv
    <3>2. CASE u = v
      BY <1>0, <1>2, <3>2 DEF GenuineInv, VerdictsInv
    <3> QED
      BY <3>1, <3>2
  <2> QED
    BY <1>1, <2>1 DEF VerdictsInv
<1> QED
  BY <1>3, <1>4 DEF GenuineInv

(* The verdict is given to everybody on the list, whatever file they asked    *)
(* about: that of the cache is good now, and theirs only counts if it is it. *)
LEMMA DeliverGenuine ==
    ASSUME TypeOK, GenuineInv, NEW v \in Verifiers, DeliverVerdict(v)
    PROVE  GenuineInv'
<1> USE ConstantsAssumption
<1> DEFINE k == verif[v].key
           d == verif[v].verdict
<1>0. /\ verif[v] # NoVerification /\ verif[v].stage = "deliver"
      /\ k \in Keys /\ verif[v].file \in File
      /\ d = "ok" => verif[v].file.content # "bad" /\ cache[k].content # "bad"
  BY DEF DeliverVerdict, TypeOK, Verification, GenuineInv, VerdictsInv
<1>1. /\ UNCHANGED <<cache, wait, pc, key, file>>
      /\ verifying' = [verifying EXCEPT ![k] = {}]
      /\ verif' = [verif EXCEPT ![v] = NoVerification]
      /\ verified' = IF d = "ok" THEN [verified EXCEPT ![k] = verif[v].file] ELSE verified
      /\ answer' = [t \in Threads |-> IF t \in verifying[k] THEN d ELSE answer[t]]
  BY DEF DeliverVerdict, queue, disk
<1> HIDE DEF k, d
<1>2. NoneBad'
  BY <1>0, <1>1 DEF GenuineInv, NoneBad, TypeOK
<1>3. VerdictsInv'
  BY <1>1 DEF GenuineInv, VerdictsInv, TypeOK
<1>4. \A u \in verifying[k] : pc[u] = "verdict" /\ key[u] = k
  BY <1>0 DEF GenuineInv, ListsInv
<1>5. ThreadsInv'
  <2>1. ASSUME NEW u \in Callers \cup Workers PROVE Answered(u)' /\ Vouched(u)'
    <3>1. Answered(u) /\ Vouched(u) /\ u \in Threads
      BY DEF GenuineInv, ThreadsInv, Threads
    <3>2. CASE u \notin verifying[k]
      BY <1>1, <3>1, <3>2 DEF Answered, Vouched
    <3>3. CASE u \in verifying[k]
      BY <1>0, <1>1, <1>4, <3>1, <3>3 DEF Answered, Vouched
    <3> QED
      BY <3>2, <3>3
  <2> QED
    BY <2>1 DEF ThreadsInv
<1>6. ListsInv'
  <2>1. ASSUME NEW j \in Keys, NEW u \in wait[j]
        PROVE  pc[u] \in {"signal", "await"} /\ answer'[u] = "none" /\ key[u] = j
    <3>1. pc[u] \in {"signal", "await"} /\ answer[u] = "none" /\ key[u] = j /\ u \in Threads
      BY DEF GenuineInv, ListsInv, TypeOK, Threads
    <3> QED
      BY <1>1, <1>4, <3>1
  <2>2. ASSUME NEW j \in Keys, NEW u \in verifying'[j]
        PROVE  pc[u] = "verdict" /\ answer'[u] = "none" /\ key[u] = j
    <3>1. u \in verifying[j] /\ j # k
      BY <1>0, <1>1, <2>2 DEF TypeOK
    <3>2. pc[u] = "verdict" /\ answer[u] = "none" /\ key[u] = j /\ u \in Threads
      BY <3>1 DEF GenuineInv, ListsInv, TypeOK, Threads
    <3> QED
      BY <1>1, <1>4, <3>1, <3>2
  <2> QED
    BY <1>1, <2>1, <2>2 DEF ListsInv
<1> QED
  BY <1>2, <1>3, <1>5, <1>6 DEF GenuineInv

(* Start and Stop: workers come, whoever waits is sent away. *)
LEMMA LifeGenuine ==
    ASSUME TypeOK, GenuineInv, WorkersStarted, Start \/ Stop
    PROVE  GenuineInv'
<1> USE ConstantsAssumption
<1>1. UNCHANGED <<cache, verif, verified, key, file>>
  BY DEF Start, Stop, disk, locals
<1>2. VerdictsInv' /\ NoneBad'
  BY <1>1 DEF GenuineInv, VerdictsInv, NoneBad
<1>3. CASE Start
  <2>1. /\ UNCHANGED <<wait, verifying, answer>>
        /\ \A t \in Callers : pc'[t] = pc[t]
        /\ \A t \in Workers : pc'[t] = "idle" /\ pc[t] = "off"
    BY <1>3 DEF Start, queue, locals, WorkersStarted, Threads, TypeOK
  <2>2. \A t \in Workers : answer[t] = "none"
    BY <2>1 DEF GenuineInv, ThreadsInv, Answered
  <2>3. ThreadsInv'
    <3>1. ASSUME NEW t \in Callers PROVE Answered(t)' /\ Vouched(t)'
      BY <1>1, <2>1 DEF GenuineInv, ThreadsInv, Answered, Vouched
    <3>2. ASSUME NEW t \in Workers PROVE Answered(t)' /\ Vouched(t)'
      BY <2>1, <2>2 DEF Answered, Vouched
    <3> QED
      BY <3>1, <3>2 DEF ThreadsInv
  <2>4. \A k \in Keys : \A t \in wait[k] \cup verifying[k] : t \in Callers
    BY <2>1 DEF GenuineInv, ListsInv, TypeOK
  <2>5. ListsInv'
    BY <1>1, <2>1, <2>4 DEF GenuineInv, ListsInv
  <2> QED
    BY <1>2, <2>3, <2>5 DEF GenuineInv
<1>4. CASE Stop
  <2>1. /\ pc' = pc /\ \A k \in Keys : wait'[k] = {} /\ verifying'[k] = {}
        /\ \A t \in Threads : answer'[t] = IF \E k \in Keys : t \in wait[k] \cup verifying[k]
                                           THEN "stopped" ELSE answer[t]
    BY <1>4 DEF Stop
  <2>2. \A t \in Callers \cup Workers : Answered(t)' /\ Vouched(t)'
    <3>1. ASSUME NEW t \in Callers \cup Workers PROVE Answered(t)' /\ Vouched(t)'
      <4>1. t \in Threads /\ Answered(t) /\ Vouched(t)
        BY DEF GenuineInv, ThreadsInv, Threads
      <4>2. CASE \E k \in Keys : t \in wait[k] \cup verifying[k]
        BY <1>1, <2>1, <4>1, <4>2 DEF GenuineInv, ListsInv, Answered, Vouched
      <4>3. CASE ~\E k \in Keys : t \in wait[k] \cup verifying[k]
        BY <1>1, <2>1, <4>1, <4>3 DEF Answered, Vouched
      <4> QED
        BY <4>2, <4>3
    <3> QED
      BY <3>1
  <2>3. ListsInv'
    BY <2>1 DEF ListsInv
  <2> QED
    BY <1>2, <2>2, <2>3 DEF GenuineInv, ThreadsInv
<1> QED
  BY <1>3, <1>4

LEMMA GenuineInit == Init => GenuineInv
<1> SUFFICES ASSUME Init PROVE GenuineInv
  OBVIOUS
<1> USE ConstantsAssumption
<1>1. \A t \in Callers \cup Workers :
         answer[t] = "none" /\ pc[t] \in {"off", "idle"} /\ file[t].content = "none"
  BY DEF Init, Threads, NoFile
<1>2. ThreadsInv
  BY <1>1 DEF ThreadsInv, Answered, Vouched
<1>3. ListsInv /\ VerdictsInv /\ NoneBad
  BY DEF Init, ListsInv, VerdictsInv, NoneBad, NoFile
<1> QED
  BY <1>2, <1>3 DEF GenuineInv

LEMMA GenuineNext ==
    TamperWindows = {} => (TypeOK /\ WorkersStarted /\ GenuineInv /\ [Next]_vars => GenuineInv')
<1> SUFFICES ASSUME TamperWindows = {}, TypeOK, WorkersStarted, GenuineInv, [Next]_vars
             PROVE  GenuineInv'
  OBVIOUS
<1>1. ASSUME NEW t \in Callers \cup Workers, Validate(t) PROVE GenuineInv'
  BY <1>1, StatGenuine, StatFailsGenuine, CheckGenuine, VerifyOnceGenuine, AwaitVerdictGenuine,
     RestatGenuine, RememberGenuine DEF Validate
<1>2. ASSUME NEW t \in Callers, CallerStep(t) \/ Cancel(t) PROVE GenuineInv'
  BY <1>2, EnterGenuine, ListGenuine, ReceiveGenuine, OpenGenuine, PinGenuine, ReadThroughGenuine
  DEF CallerStep
<1>3. ASSUME NEW w \in Workers, WorkerStep(w) PROVE GenuineInv'
  BY <1>3, WorkerMoves, FetchGenuine, FinishGenuine, WorkerSignals DEF WorkerStep
<1>4. ASSUME NEW v \in Verifiers, VerifierStep(v) PROVE GenuineInv'
  BY <1>4, VerifierGenuine, DeliverGenuine DEF VerifierStep
<1>5. CASE UNCHANGED <<cache, verif, wait, verifying, verified, pc, key, file, answer>>
  BY <1>5 DEF GenuineInv, ThreadsInv, ListsInv, VerdictsInv, NoneBad, Answered, Vouched
<1>6. ASSUME NEW t \in Prefetchers,
             SignalBatch(t) \/ \E S \in SUBSET Keys, p \in Priorities : EnqueueBatch(t, S, p)
      PROVE  GenuineInv'
  BY <1>5, <1>6 DEF SignalBatch, EnqueueBatch, queue, disk, locals
<1>7. CASE UNCHANGED vars
  BY <1>5, <1>7 DEF vars
<1>8. ASSUME NEW k \in Keys, Replace(k) \/ Remove(k) PROVE GenuineInv'
  BY <1>8, OutsideGenuine
<1>9. ASSUME NEW w \in Workers, NEW k \in Keys, Pop(w, k) PROVE GenuineInv'
  BY <1>9, WorkerMoves
<1> QED
  BY <1>1, <1>2, <1>3, <1>4, <1>6, <1>7, <1>8, <1>9, LifeGenuine, CallGenuine DEF Next

(* A file remembered as verified has the bytes of its object, whatever else   *)
(* puts files into the cache, and however many goroutines verify and fetch,   *)
(* as long as nothing is put there in the two windows the code leaves open   *)
(* (validateCachedBlob, runVerification, step).                              *)
THEOREM VerifiedIsGenuineHolds == TamperWindows = {} => (Spec => []VerifiedIsGenuine)
<1> SUFFICES ASSUME TamperWindows = {} PROVE Spec => []VerifiedIsGenuine
  OBVIOUS
<1>1. TypeOK /\ GenuineInv => VerifiedIsGenuine
  BY FileFacts DEF GenuineInv, NoneBad, VerifiedIsGenuine
<1>2. TypeOK /\ QueueInv /\ GenuineInv /\ [Next]_vars => GenuineInv'
  BY GenuineNext DEF QueueInv
<1> QED
  BY <1>1, <1>2, TypeCorrect, QueueInvInit, QueueInvNext, GenuineInit, PTL DEF Spec

(* So is every file an open returned, although the cache path is looked up    *)
(* again after the verdict and the lock is not held meanwhile (OpenHydrated). *)
THEOREM OpenedIsGenuineHolds == TamperWindows = {} => (Spec => []OpenedIsGenuine)
<1> SUFFICES ASSUME TamperWindows = {} PROVE Spec => []OpenedIsGenuine
  OBVIOUS
<1>1. TypeOK /\ GenuineInv => OpenedIsGenuine
  BY FileFacts DEF GenuineInv, ThreadsInv, Vouched, OpenedIsGenuine, Threads
<1>2. TypeOK /\ QueueInv /\ GenuineInv /\ [Next]_vars => GenuineInv'
  BY GenuineNext DEF QueueInv
<1> QED
  BY <1>1, <1>2, TypeCorrect, QueueInvInit, QueueInvNext, GenuineInit, PTL DEF Spec
=============================================================================
