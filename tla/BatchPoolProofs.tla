--------------------------- MODULE BatchPoolProofs ---------------------------
(* What holds of the pools of git processes for any number of operations,    *)
(* processes, pools and sizes.                                               *)
EXTENDS BatchPool, FiniteSetTheorems, TLAPS

-----------------------------------------------------------------------------
(* Types *)

(* What an operation has in its hands at each point of BlobToCache and        *)
(* ReadBlob, and where the pool counts the processes being started.          *)
HoldInv ==
    /\ \A t \in Ops :
         /\ Uses(t) \/ pc[t] = "kill" => hold[t] \in Procs
         /\ pc[t] \in {"idle", "acquire", "spawn", "wait"} => hold[t] = NoProc
         /\ pc[t] # "idle" => home[t] \in made
         /\ \A p \in Pools : t \in creating[p] <=> home[t] = p /\ pc[t] \in {"spawn", "adopt"}
    /\ current # NoPool => current \in made

(* The first state has the types. *)
LEMMA TypeInit == Init => TypeOK /\ HoldInv
<1> SUFFICES ASSUME Init PROVE TypeOK /\ HoldInv
  OBVIOUS
<1>1. /\ pc \in [Ops -> OpPcs] /\ home \in [Ops -> Pools \cup {NoPool}]
      /\ hold \in [Ops -> Procs \cup {NoProc}] /\ kind \in [Ops -> {"file", "read"}]
      /\ left \in [Ops -> 0 .. 1]
  BY DEF Init, OpPcs
<1>2. /\ all \in [Pools -> SUBSET Procs] /\ free \in [Pools -> SUBSET Procs]
      /\ creating \in [Pools -> SUBSET Ops] /\ max \in [Pools -> Nat]
      /\ proc \in [Procs -> {"live", "dead", "gone"}]
  BY ConstantsAssumption DEF Init
<1>3. /\ closed = {} /\ woken = {} /\ behind = {} /\ made = {} /\ closing = {} /\ doomed = {}
      /\ current \in Pools \cup {NoPool} /\ storeMax \in Nat /\ storeClosed \in BOOLEAN
  BY ConstantsAssumption DEF Init
<1>4. TypeOK
  BY <1>1, <1>2, <1>3 DEF TypeOK
<1>5. HoldInv
  BY DEF Init, HoldInv, Uses
<1> QED
  BY <1>4, <1>5

(* Every step keeps the types and what the operations hold. *)
LEMMA TypeNext == TypeOK /\ HoldInv /\ [Next]_vars => TypeOK' /\ HoldInv'
<1> SUFFICES ASSUME TypeOK, HoldInv, [Next]_vars
             PROVE  TypeOK' /\ HoldInv'
  OBVIOUS
<1> USE ConstantsAssumption
    DEF TypeOK, HoldInv, Uses, OpPcs, poolVars, storeVars, procVars, opVars, Goto, Return,
        Reap, Signal
<1>1. ASSUME NEW t \in Ops, NEW m \in {"file", "read"}, GetPool(t, m)
      PROVE  TypeOK' /\ HoldInv'
  BY <1>1 DEF GetPool
<1>2. ASSUME NEW t \in Ops, AcquireClosed(t)
      PROVE  TypeOK' /\ HoldInv'
  BY <1>2 DEF AcquireClosed
<1>3. ASSUME NEW t \in Ops, AcquireFree(t)
      PROVE  TypeOK' /\ HoldInv'
  BY <1>3 DEF AcquireFree
<1>4. ASSUME NEW t \in Ops, AcquireNew(t)
      PROVE  TypeOK' /\ HoldInv'
  BY <1>4 DEF AcquireNew
<1>5. ASSUME NEW t \in Ops, AcquireWait(t)
      PROVE  TypeOK' /\ HoldInv'
  BY <1>5 DEF AcquireWait
<1>6. ASSUME NEW t \in Ops, Wake(t)
      PROVE  TypeOK' /\ HoldInv'
  BY <1>6 DEF Wake
<1>7. ASSUME NEW t \in Ops, CancelWait(t)
      PROVE  TypeOK' /\ HoldInv'
  BY <1>7 DEF CancelWait
<1>8. ASSUME NEW t \in Ops, CheckAlive(t)
      PROVE  TypeOK' /\ HoldInv'
  BY <1>8 DEF CheckAlive
<1>9. ASSUME NEW t \in Ops, SpawnProcess(t)
      PROVE  TypeOK' /\ HoldInv'
  BY <1>9 DEF SpawnProcess
<1>10. ASSUME NEW t \in Ops, Adopt(t)
       PROVE  TypeOK' /\ HoldInv'
  BY <1>10 DEF Adopt
<1>11. ASSUME NEW t \in Ops, Answer(t)
       PROVE  TypeOK' /\ HoldInv'
  BY <1>11 DEF Answer
<1>12. ASSUME NEW t \in Ops, Failure(t)
       PROVE  TypeOK' /\ HoldInv'
  BY <1>12 DEF Failure
<1>13. ASSUME NEW t \in Ops, TooLarge(t)
       PROVE  TypeOK' /\ HoldInv'
  BY <1>13 DEF TooLarge
<1>14. ASSUME NEW t \in Ops, CancelWork(t)
       PROVE  TypeOK' /\ HoldInv'
  BY <1>14 DEF CancelWork
<1>15. ASSUME NEW t \in Ops, Discard(t)
       PROVE  TypeOK' /\ HoldInv'
  BY <1>15 DEF Discard
<1>16. ASSUME NEW t \in Ops, Kill(t)
       PROVE  TypeOK' /\ HoldInv'
  <2>1. CASE left[t] = 0
    BY <1>16, <2>1 DEF Kill
  <2>2. CASE left[t] # 0
    BY <1>16, <2>2 DEF Kill
  <2> QED
    BY <2>1, <2>2
<1>17. ASSUME NEW t \in Ops, Release(t)
       PROVE  TypeOK' /\ HoldInv'
  BY <1>17 DEF Release
<1>18. ASSUME NEW t \in Ops, GiveBack(t)
       PROVE  TypeOK' /\ HoldInv'
  <2>1. CASE home[t] \notin closed /\ Cardinality(all[home[t]]) <= max[home[t]]
    <3>1. /\ pc[t] = "return" /\ Return(t)
          /\ UNCHANGED <<all, creating, max, closed, procVars, storeVars, doomed>>
          /\ free' = [free EXCEPT ![home[t]] = @ \cup {hold[t]}]
          /\ woken' \subseteq Ops
      BY <1>18, <2>1 DEF GiveBack
    <3> QED
      BY <3>1
  <2>2. CASE ~(home[t] \notin closed /\ Cardinality(all[home[t]]) <= max[home[t]])
    BY <1>18, <2>2 DEF GiveBack
  <2> QED
    BY <2>1, <2>2
<1>19. ASSUME NEW b \in Procs, Die(b) \/ KillDoomed(b)
       PROVE  TypeOK' /\ HoldInv'
  BY <1>19 DEF Die, KillDoomed
<1>20. ASSUME NEW p \in Pools, CloseAll(p)
       PROVE  TypeOK' /\ HoldInv'
  BY <1>20 DEF CloseAll
<1>21. ASSUME NEW n \in Sizes, SetBatchPoolSize(n)
       PROVE  TypeOK' /\ HoldInv'
  <2>1. CASE current = NoPool
    BY <1>21, <2>1 DEF SetBatchPoolSize
  <2>2. CASE current # NoPool
    <3>1. /\ n \in Nat /\ UNCHANGED <<creating, closed, current, made, closing>>
          /\ UNCHANGED <<procVars, opVars>>
      BY <1>21 DEF SetBatchPoolSize
    <3>2. PICK extras \in SUBSET free[current] :
            /\ all' = [all EXCEPT ![current] = @ \ extras]
            /\ free' = [free EXCEPT ![current] = @ \ extras]
            /\ doomed' = doomed \cup extras
      BY <1>21, <2>2 DEF SetBatchPoolSize
    <3>3. max' = [max EXCEPT ![current] = n] /\ storeMax' = n /\ UNCHANGED storeClosed
      BY <1>21, <2>2 DEF SetBatchPoolSize
    <3>4. woken' \subseteq Ops
      BY <1>21, <2>2 DEF SetBatchPoolSize
    <3> QED
      BY <2>2, <3>1, <3>2, <3>3, <3>4
  <2> QED
    BY <2>1, <2>2
<1>22. CASE Invalidate \/ Close
  <2>1. current' = NoPool /\ closing' \subseteq Pools /\ storeClosed' \in BOOLEAN
    <3>1. TakeOut
      BY <1>22 DEF Invalidate, Close
    <3>2. storeClosed' \in BOOLEAN
      BY <1>22 DEF Invalidate, Close
    <3> QED
      BY <3>1, <3>2 DEF TakeOut
  <2>2. UNCHANGED <<poolVars, woken, procVars, made, storeMax, doomed, opVars>>
    BY <1>22 DEF Invalidate, Close
  <2> QED
    BY <2>1, <2>2
<1>23. CASE UNCHANGED vars
  BY <1>23 DEF vars
<1> HIDE DEF TypeOK, HoldInv, Goto, Return, Reap, Signal
<1> QED
  BY <1>1, <1>2, <1>3, <1>4, <1>5, <1>6, <1>7, <1>8, <1>9, <1>10, <1>11, <1>12, <1>13, <1>14,
     <1>15, <1>16, <1>17, <1>18, <1>19, <1>20, <1>21, <1>22, <1>23
     DEF Next, OpStep, Acquire, Use
-----------------------------------------------------------------------------
(* Ownership *)

(* Who has a process: it is in one pool at most, and there the free ones are  *)
(* those no operation holds; one that an operation uses is in the operation's *)
(* pool as long as that is open.                                             *)
OwnerInv ==
    /\ \A t, u \in Ops : t # u /\ hold[t] # NoProc => hold[t] # hold[u]
    /\ \A p, q \in Pools : p # q => all[p] \cap all[q] = {}
    /\ \A p \in Pools : free[p] \subseteq all[p] /\ (p \in closed => all[p] = {})
    /\ \A t \in Ops, p \in Pools :
         hold[t] \in all[p] => hold[t] \notin free[p] /\ home[t] = p /\ Uses(t)
    /\ \A t \in Ops : Uses(t) /\ home[t] \notin closed => hold[t] \in all[home[t]]

(* Taking processes out of a pool, or into one, leaves the other pools alone. *)
LEMMA PoolEdit ==
    ASSUME NEW f \in [Pools -> SUBSET Procs], NEW q, NEW S, NEW g
    PROVE  /\ g = [f EXCEPT ![q] = @ \ S]
                => \A p \in Pools : g[p] = IF p = q THEN f[p] \ S ELSE f[p]
           /\ g = [f EXCEPT ![q] = @ \cup S]
                => \A p \in Pools : g[p] = IF p = q THEN f[p] \cup S ELSE f[p]
<1>1. ASSUME NEW x PROVE \A p \in Pools : [f EXCEPT ![q] = x][p] = IF p = q THEN x ELSE f[p]
  OBVIOUS
<1> QED
  BY <1>1

(* Every step keeps OwnerInv. *)
LEMMA OwnerNext == TypeOK /\ HoldInv /\ OwnerInv /\ [Next]_vars => OwnerInv'
<1> SUFFICES ASSUME TypeOK, HoldInv, OwnerInv, [Next]_vars
             PROVE  OwnerInv'
  OBVIOUS
<1> USE ConstantsAssumption
    DEF poolVars, storeVars, procVars, opVars, Goto, Return, Reap
<1>a. all \in [Pools -> SUBSET Procs] /\ free \in [Pools -> SUBSET Procs]
  BY DEF TypeOK
<1>1. ASSUME NEW t \in Ops, NEW m \in {"file", "read"}, GetPool(t, m)
      PROVE  OwnerInv'
  BY <1>1 DEF GetPool, TypeOK, HoldInv, OwnerInv, Uses
<1>2. ASSUME NEW t \in Ops, AcquireClosed(t)
      PROVE  OwnerInv'
  BY <1>2 DEF AcquireClosed, TypeOK, HoldInv, OwnerInv, Uses
<1>3. ASSUME NEW t \in Ops, AcquireFree(t)
      PROVE  OwnerInv'
  BY <1>3 DEF AcquireFree, TypeOK, HoldInv, OwnerInv, Uses
<1>4. ASSUME NEW t \in Ops, AcquireNew(t) \/ AcquireWait(t) \/ Wake(t) \/ CancelWait(t)
      PROVE  OwnerInv'
  BY <1>4 DEF AcquireNew, AcquireWait, Wake, CancelWait, TypeOK, HoldInv, OwnerInv, Uses
<1>5. ASSUME NEW t \in Ops, CheckAlive(t)
      PROVE  OwnerInv'
  <2>1. CASE Alive(hold[t])
    BY <1>5, <2>1 DEF CheckAlive, TypeOK, HoldInv, OwnerInv, Uses
  <2>2. CASE ~Alive(hold[t])
    <3>1. /\ hold' = [hold EXCEPT ![t] = NoProc] /\ pc' = [pc EXCEPT ![t] = "acquire"]
          /\ all' = [all EXCEPT ![home[t]] = @ \ {hold[t]}]
          /\ UNCHANGED <<free, closed, home>> /\ pc[t] = "alive"
      BY <1>5, <2>2 DEF CheckAlive
    <3>2. \A p \in Pools : all'[p] = IF p = home[t] THEN all[p] \ {hold[t]} ELSE all[p]
      BY <1>a, <3>1, PoolEdit
    <3> QED
      BY <3>1, <3>2 DEF TypeOK, HoldInv, OwnerInv, Uses
  <2> QED
    BY <2>1, <2>2
<1>6. ASSUME NEW t \in Ops, SpawnProcess(t)
      PROVE  OwnerInv'
  <2>1. /\ pc' = [pc EXCEPT ![t] = "adopt"] /\ pc[t] = "spawn"
        /\ UNCHANGED <<all, free, closed, home>>
    BY <1>6 DEF SpawnProcess
  <2>2. CASE UNCHANGED hold
    BY <2>1, <2>2 DEF TypeOK, HoldInv, OwnerInv, Uses
  <2>3. ASSUME NEW b \in Procs, Unused(b), hold' = [hold EXCEPT ![t] = b]
        PROVE  OwnerInv'
    <3>1. (\A u \in Ops : hold[u] # b) /\ (\A p \in Pools : b \notin all[p])
      BY <2>3 DEF Unused
    <3> QED
      BY <2>1, <2>3, <3>1 DEF TypeOK, HoldInv, OwnerInv, Uses
  <2> QED
    BY <1>6, <2>2, <2>3 DEF SpawnProcess
<1>7. ASSUME NEW t \in Ops, Adopt(t)
      PROVE  OwnerInv'
  <2>1. CASE hold[t] = NoProc
    <3>1. /\ pc' = [pc EXCEPT ![t] = "idle"] /\ home' = [home EXCEPT ![t] = NoPool]
          /\ hold' = [hold EXCEPT ![t] = NoProc] /\ UNCHANGED <<all, free, closed>>
      BY <1>7, <2>1 DEF Adopt
    <3> QED
      BY <2>1, <3>1 DEF TypeOK, HoldInv, OwnerInv, Uses
  <2>2. CASE hold[t] # NoProc /\ home[t] \in closed
    <3>1. /\ pc' = [pc EXCEPT ![t] = "kill"] /\ pc[t] = "adopt"
          /\ UNCHANGED <<all, free, closed, home, hold>>
      BY <1>7, <2>2 DEF Adopt
    <3> QED
      BY <3>1 DEF TypeOK, OwnerInv, Uses
  <2>3. CASE hold[t] # NoProc /\ home[t] \notin closed
    <3>1. /\ pc' = [pc EXCEPT ![t] = "work"] /\ pc[t] = "adopt"
          /\ all' = [all EXCEPT ![home[t]] = @ \cup {hold[t]}]
          /\ UNCHANGED <<free, closed, home, hold>>
      BY <1>7, <2>3 DEF Adopt
    <3>2. home[t] \in Pools /\ hold[t] \in Procs /\ \A p \in Pools : hold[t] \notin all[p]
      BY <2>3, <3>1 DEF TypeOK, HoldInv, OwnerInv, Uses
    <3>3. \A p \in Pools : all'[p] = IF p = home[t] THEN all[p] \cup {hold[t]} ELSE all[p]
      BY <1>a, <3>1, PoolEdit
    <3> QED
      BY <2>3, <3>1, <3>2, <3>3 DEF TypeOK, OwnerInv, Uses
  <2> QED
    BY <2>1, <2>2, <2>3
<1>8. ASSUME NEW t \in Ops, Use(t)
      PROVE  OwnerInv'
  BY <1>8 DEF Use, Answer, Failure, TooLarge, CancelWork, TypeOK, OwnerInv, Uses
<1>9. ASSUME NEW t \in Ops, Discard(t)
      PROVE  OwnerInv'
  <2>1. /\ all' = [all EXCEPT ![home[t]] = @ \ {hold[t]}] /\ pc' = [pc EXCEPT ![t] = "kill"]
        /\ UNCHANGED <<free, closed, home, hold>> /\ pc[t] = "discard"
    BY <1>9 DEF Discard
  <2>2. \A p \in Pools : all'[p] = IF p = home[t] THEN all[p] \ {hold[t]} ELSE all[p]
    BY <1>a, <2>1, PoolEdit
  <2> QED
    BY <2>1, <2>2 DEF TypeOK, OwnerInv, Uses
<1>10. ASSUME NEW t \in Ops, Kill(t)
       PROVE  OwnerInv'
  <2>1. /\ hold' = [hold EXCEPT ![t] = NoProc] /\ pc[t] = "kill" /\ ~Uses(t)'
        /\ \A u \in Ops : u # t => Uses(u)' = Uses(u) /\ home'[u] = home[u]
        /\ UNCHANGED <<all, free, closed>>
    BY <1>10 DEF Kill, TypeOK, Uses
  <2>2. \A p \in Pools : NoProc \notin all[p]
    BY DEF TypeOK
  <2> QED
    BY <2>1, <2>2 DEF TypeOK, OwnerInv
<1>11. ASSUME NEW t \in Ops, Release(t)
       PROVE  OwnerInv'
  BY <1>11 DEF Release, TypeOK, OwnerInv, Uses
<1>12. ASSUME NEW t \in Ops, GiveBack(t)
       PROVE  OwnerInv'
  <2>1. CASE home[t] \notin closed /\ Cardinality(all[home[t]]) <= max[home[t]]
    <3>1. /\ free' = [free EXCEPT ![home[t]] = @ \cup {hold[t]}] /\ pc[t] = "return" /\ Return(t)
          /\ UNCHANGED <<all, closed>>
      BY <1>12, <2>1 DEF GiveBack
    <3>2. home[t] \in Pools /\ hold[t] \in Procs /\ hold[t] \in all[home[t]]
      BY <2>1, <3>1 DEF TypeOK, HoldInv, OwnerInv, Uses
    <3>3. \A p \in Pools : free'[p] = IF p = home[t] THEN free[p] \cup {hold[t]} ELSE free[p]
      BY <1>a, <3>1, PoolEdit
    <3> QED
      BY <3>1, <3>2, <3>3 DEF TypeOK, OwnerInv, Uses
  <2>2. CASE ~(home[t] \notin closed /\ Cardinality(all[home[t]]) <= max[home[t]])
    <3>1. /\ all' = [all EXCEPT ![home[t]] = @ \ {hold[t]}] /\ pc' = [pc EXCEPT ![t] = "kill"]
          /\ UNCHANGED <<free, closed, home, hold>> /\ pc[t] = "return"
      BY <1>12, <2>2 DEF GiveBack
    <3>2. \A p \in Pools : all'[p] = IF p = home[t] THEN all[p] \ {hold[t]} ELSE all[p]
      BY <1>a, <3>1, PoolEdit
    <3> QED
      BY <3>1, <3>2 DEF TypeOK, OwnerInv, Uses
  <2> QED
    BY <2>1, <2>2
<1>13. ASSUME NEW b \in Procs, Die(b) \/ KillDoomed(b)
       PROVE  OwnerInv'
  BY <1>13 DEF Die, KillDoomed, OwnerInv, Uses
<1>14. ASSUME NEW p \in Pools, CloseAll(p)
       PROVE  OwnerInv'
  BY <1>14 DEF CloseAll, TypeOK, OwnerInv, Uses
<1>15. ASSUME NEW n \in Sizes, SetBatchPoolSize(n)
       PROVE  OwnerInv'
  <2>1. UNCHANGED <<hold, pc, home, closed>>
    BY <1>15 DEF SetBatchPoolSize
  <2>2. CASE UNCHANGED <<all, free>>
    BY <2>1, <2>2 DEF OwnerInv, Uses
  <2>3. ASSUME current # NoPool, NEW extras \in SUBSET free[current],
               all' = [all EXCEPT ![current] = @ \ extras],
               free' = [free EXCEPT ![current] = @ \ extras]
        PROVE  OwnerInv'
    <3>1. /\ \A p \in Pools : all'[p] = IF p = current THEN all[p] \ extras ELSE all[p]
          /\ \A p \in Pools : free'[p] = IF p = current THEN free[p] \ extras ELSE free[p]
      BY <1>a, <2>3, PoolEdit
    <3>2. current \in Pools /\ \A t \in Ops : hold[t] \notin extras
      BY <2>3 DEF TypeOK, OwnerInv
    <3>3. \A p \in Pools : all'[p] \subseteq all[p] /\ free'[p] \subseteq free[p]
      BY <3>1
    <3>4. \A p \in Pools : free'[p] \subseteq all'[p] /\ (p \in closed => all'[p] = {})
      <4>1. \A p \in Pools : free[p] \subseteq all[p] /\ (p \in closed => all[p] = {})
        BY DEF OwnerInv
      <4> QED
        BY <3>1, <4>1
    <3>5. \A t \in Ops, p \in Pools : hold[t] \in all[p] => hold[t] \in all'[p]
      BY <3>1, <3>2
    <3>6. \A t \in Ops : Uses(t) => home[t] \in Pools
      BY DEF TypeOK, HoldInv, Uses
    <3> QED
      BY <2>1, <3>3, <3>4, <3>5, <3>6 DEF OwnerInv, Uses
  <2> QED
    BY <1>15, <2>2, <2>3 DEF SetBatchPoolSize
<1>16. CASE Invalidate \/ Close
  BY <1>16 DEF Invalidate, Close, OwnerInv, Uses
<1>17. CASE UNCHANGED vars
  BY <1>17 DEF vars, OwnerInv, Uses
<1> QED
  BY <1>1, <1>2, <1>3, <1>4, <1>5, <1>6, <1>7, <1>8, <1>9, <1>10, <1>11, <1>12, <1>13, <1>14,
     <1>15, <1>16, <1>17
     DEF Next, OpStep, Acquire

-----------------------------------------------------------------------------
(* Output, ends and waiting *)

(* Where a process may be that still has output nobody has read: in the hands *)
(* of an operation that will discard it, or among those that are to be ended. *)
OrderInv ==
    /\ \A b \in behind : proc[b] # "gone"
    /\ \A p \in Pools : free[p] \cap behind = {}
    /\ \A t \in Ops :
         pc[t] \in {"adopt", "alive", "work", "release", "return"} => hold[t] \notin behind

(* Every step keeps OrderInv. *)
LEMMA OrderNext == TypeOK /\ HoldInv /\ OwnerInv /\ OrderInv /\ [Next]_vars => OrderInv'
<1> SUFFICES ASSUME TypeOK, HoldInv, OwnerInv, OrderInv, [Next]_vars
             PROVE  OrderInv'
  OBVIOUS
<1> USE ConstantsAssumption
    DEF poolVars, storeVars, procVars, opVars, Goto, Return, Reap
<1>1. ASSUME NEW t \in Ops, NEW m \in {"file", "read"}, GetPool(t, m)
      PROVE  OrderInv'
  BY <1>1 DEF GetPool, TypeOK, HoldInv, OwnerInv, OrderInv, Uses
<1>2. ASSUME NEW t \in Ops, AcquireClosed(t)
      PROVE  OrderInv'
  BY <1>2 DEF AcquireClosed, TypeOK, HoldInv, OwnerInv, OrderInv, Uses
<1>3. ASSUME NEW t \in Ops, AcquireFree(t)
      PROVE  OrderInv'
  BY <1>3 DEF AcquireFree, TypeOK, HoldInv, OwnerInv, OrderInv, Uses
<1>4. ASSUME NEW t \in Ops, AcquireNew(t) \/ AcquireWait(t) \/ Wake(t) \/ CancelWait(t)
      PROVE  OrderInv'
  BY <1>4 DEF AcquireNew, AcquireWait, Wake, CancelWait, TypeOK, HoldInv, OwnerInv, OrderInv, Uses
<1>5. ASSUME NEW t \in Ops, CheckAlive(t)
      PROVE  OrderInv'
  BY <1>5 DEF CheckAlive, TypeOK, HoldInv, OwnerInv, OrderInv, Uses
<1>6. ASSUME NEW t \in Ops, SpawnProcess(t)
      PROVE  OrderInv'
  <2>1. /\ pc' = [pc EXCEPT ![t] = "adopt"] /\ pc[t] = "spawn"
        /\ UNCHANGED <<free, behind>>
    BY <1>6 DEF SpawnProcess
  <2>2. CASE UNCHANGED <<hold, proc>>
    <3>1. hold[t] = NoProc /\ NoProc \notin behind
      BY <2>1 DEF HoldInv, TypeOK
    <3> QED
      BY <2>1, <2>2, <3>1 DEF TypeOK, OrderInv
  <2>3. ASSUME NEW b \in Procs, Unused(b), hold' = [hold EXCEPT ![t] = b],
               proc' = [proc EXCEPT ![b] = "live"]
        PROVE  OrderInv'
    <3>1. b \notin behind
      BY <2>3 DEF Unused, OrderInv
    <3> QED
      BY <2>1, <2>3, <3>1 DEF TypeOK, OrderInv
  <2> QED
    BY <1>6, <2>2, <2>3 DEF SpawnProcess
<1>7. ASSUME NEW t \in Ops, Adopt(t)
      PROVE  OrderInv'
  BY <1>7 DEF Adopt, TypeOK, HoldInv, OwnerInv, OrderInv, Uses
<1>8. ASSUME NEW t \in Ops, Answer(t)
      PROVE  OrderInv'
  BY <1>8 DEF Answer, TypeOK, HoldInv, OwnerInv, OrderInv, Uses
<1>9. ASSUME NEW t \in Ops, Failure(t) \/ TooLarge(t)
      PROVE  OrderInv'
  BY <1>9 DEF Failure, TooLarge, TypeOK, HoldInv, OwnerInv, OrderInv, Uses
<1>10. ASSUME NEW t \in Ops, CancelWork(t)
       PROVE  OrderInv'
  BY <1>10 DEF CancelWork, TypeOK, HoldInv, OwnerInv, OrderInv, Uses
<1>11. ASSUME NEW t \in Ops, Discard(t)
       PROVE  OrderInv'
  BY <1>11 DEF Discard, TypeOK, HoldInv, OwnerInv, OrderInv, Uses
<1>12. ASSUME NEW t \in Ops, Kill(t)
       PROVE  OrderInv'
  BY <1>12 DEF Kill, TypeOK, HoldInv, OwnerInv, OrderInv, Uses
<1>13. ASSUME NEW t \in Ops, Release(t)
       PROVE  OrderInv'
  BY <1>13 DEF Release, TypeOK, HoldInv, OwnerInv, OrderInv, Uses
<1>14. ASSUME NEW t \in Ops, GiveBack(t)
       PROVE  OrderInv'
  <2>1. pc[t] = "return" /\ hold[t] \notin behind /\ UNCHANGED <<behind, proc>>
    BY <1>14 DEF GiveBack, OrderInv
  <2>2. \A p \in Pools : free'[p] \subseteq free[p] \cup {hold[t]}
    BY <1>14 DEF GiveBack, TypeOK
  <2>3. \A u \in Ops : u # t => pc'[u] = pc[u] /\ hold'[u] = hold[u]
    BY <1>14 DEF GiveBack, TypeOK
  <2>4. pc'[t] \in {"idle", "kill"}
    BY <1>14 DEF GiveBack, TypeOK
  <2> QED
    BY <2>1, <2>2, <2>3, <2>4 DEF OrderInv
<1>15. ASSUME NEW b \in Procs, Die(b) \/ KillDoomed(b)
       PROVE  OrderInv'
  BY <1>15 DEF Die, KillDoomed, TypeOK, HoldInv, OwnerInv, OrderInv, Uses
<1>16. ASSUME NEW p \in Pools, CloseAll(p)
       PROVE  OrderInv'
  BY <1>16 DEF CloseAll, TypeOK, HoldInv, OwnerInv, OrderInv, Uses
<1>17. ASSUME NEW n \in Sizes, SetBatchPoolSize(n)
       PROVE  OrderInv'
  <2>1. \A p \in Pools : free'[p] \subseteq free[p]
    <3>1. CASE UNCHANGED free
      BY <3>1
    <3>2. ASSUME NEW extras, free' = [free EXCEPT ![current] = @ \ extras]
          PROVE  \A p \in Pools : free'[p] \subseteq free[p]
      BY <3>2 DEF TypeOK
    <3> QED
      BY <1>17, <3>1, <3>2 DEF SetBatchPoolSize
  <2>2. UNCHANGED <<behind, proc, pc, hold>>
    BY <1>17 DEF SetBatchPoolSize
  <2> QED
    BY <2>1, <2>2 DEF OrderInv
<1>18. CASE Invalidate \/ Close
  BY <1>18 DEF Invalidate, Close, TypeOK, HoldInv, OwnerInv, OrderInv, Uses
<1>19. CASE UNCHANGED vars
  BY <1>19 DEF vars, TypeOK, HoldInv, OwnerInv, OrderInv, Uses
<1> QED
  BY <1>1, <1>2, <1>3, <1>4, <1>5, <1>6, <1>7, <1>8, <1>9, <1>10, <1>11, <1>12, <1>13, <1>14,
     <1>15, <1>16, <1>17, <1>18, <1>19
     DEF Next, OpStep, Acquire, Use

(* No step lets go of a process that runs. *)
LEMMA OrphanNext ==
    TypeOK /\ HoldInv /\ OwnerInv /\ NoOrphanProcess /\ [Next]_vars => NoOrphanProcess'
<1> SUFFICES ASSUME TypeOK, HoldInv, OwnerInv, NoOrphanProcess, [Next]_vars
             PROVE  NoOrphanProcess'
  OBVIOUS
<1> USE ConstantsAssumption
    DEF poolVars, storeVars, procVars, opVars, Goto, Return, Reap
<1>1. ASSUME NEW t \in Ops, NEW m \in {"file", "read"}, GetPool(t, m)
      PROVE  NoOrphanProcess'
  BY <1>1 DEF GetPool, TypeOK, HoldInv, OwnerInv, NoOrphanProcess, Uses, Alive
<1>2. ASSUME NEW t \in Ops, AcquireClosed(t)
      PROVE  NoOrphanProcess'
  BY <1>2 DEF AcquireClosed, TypeOK, HoldInv, OwnerInv, NoOrphanProcess, Uses, Alive
<1>3. ASSUME NEW t \in Ops, AcquireFree(t)
      PROVE  NoOrphanProcess'
  BY <1>3 DEF AcquireFree, TypeOK, HoldInv, OwnerInv, NoOrphanProcess, Uses, Alive
<1>4. ASSUME NEW t \in Ops, AcquireNew(t) \/ AcquireWait(t) \/ Wake(t) \/ CancelWait(t)
      PROVE  NoOrphanProcess'
  BY <1>4 DEF AcquireNew, AcquireWait, Wake, CancelWait,
              TypeOK, HoldInv, OwnerInv, NoOrphanProcess, Uses, Alive
<1>5. ASSUME NEW t \in Ops, CheckAlive(t)
      PROVE  NoOrphanProcess'
  BY <1>5 DEF CheckAlive, TypeOK, HoldInv, OwnerInv, NoOrphanProcess, Uses, Alive
<1>6. ASSUME NEW t \in Ops, SpawnProcess(t)
      PROVE  NoOrphanProcess'
  BY <1>6 DEF SpawnProcess, TypeOK, HoldInv, OwnerInv, NoOrphanProcess, Uses, Alive
<1>7. ASSUME NEW t \in Ops, Adopt(t)
      PROVE  NoOrphanProcess'
  BY <1>7 DEF Adopt, TypeOK, HoldInv, OwnerInv, NoOrphanProcess, Uses, Alive
<1>8. ASSUME NEW t \in Ops, Answer(t)
      PROVE  NoOrphanProcess'
  BY <1>8 DEF Answer, TypeOK, HoldInv, OwnerInv, NoOrphanProcess, Uses, Alive
<1>9. ASSUME NEW t \in Ops, Failure(t) \/ TooLarge(t)
      PROVE  NoOrphanProcess'
  BY <1>9 DEF Failure, TooLarge, TypeOK, HoldInv, OwnerInv, NoOrphanProcess, Uses, Alive
<1>10. ASSUME NEW t \in Ops, CancelWork(t)
       PROVE  NoOrphanProcess'
  BY <1>10 DEF CancelWork, TypeOK, HoldInv, OwnerInv, NoOrphanProcess, Uses, Alive
<1>11. ASSUME NEW t \in Ops, Discard(t)
       PROVE  NoOrphanProcess'
  BY <1>11 DEF Discard, TypeOK, HoldInv, OwnerInv, NoOrphanProcess, Uses, Alive
<1>12. ASSUME NEW t \in Ops, Kill(t)
       PROVE  NoOrphanProcess'
  BY <1>12 DEF Kill, TypeOK, HoldInv, OwnerInv, NoOrphanProcess, Uses, Alive
<1>13. ASSUME NEW t \in Ops, Release(t)
       PROVE  NoOrphanProcess'
  BY <1>13 DEF Release, TypeOK, HoldInv, OwnerInv, NoOrphanProcess, Uses, Alive
<1>14. ASSUME NEW t \in Ops, GiveBack(t)
       PROVE  NoOrphanProcess'
  <2>1. /\ pc[t] = "return" /\ UNCHANGED <<proc, doomed>>
        /\ \A u \in Ops : u # t => pc'[u] = pc[u] /\ hold'[u] = hold[u]
    BY <1>14 DEF GiveBack, TypeOK
  <2>2. CASE home[t] \notin closed /\ Cardinality(all[home[t]]) <= max[home[t]]
    <3>1. UNCHANGED all
      BY <1>14, <2>2 DEF GiveBack
    <3>2. home[t] \in Pools /\ hold[t] \in all[home[t]]
      BY <2>1, <2>2 DEF TypeOK, HoldInv, OwnerInv, Uses
    <3> QED
      BY <2>1, <3>1, <3>2 DEF NoOrphanProcess, Alive
  <2>3. CASE ~(home[t] \notin closed /\ Cardinality(all[home[t]]) <= max[home[t]])
    <3>1. /\ all' = [all EXCEPT ![home[t]] = @ \ {hold[t]}]
          /\ pc'[t] = "kill" /\ hold'[t] = hold[t]
      BY <1>14, <2>3 DEF GiveBack, TypeOK
    <3>2. \A p \in Pools : all[p] \ {hold[t]} \subseteq all'[p]
      BY <3>1 DEF TypeOK
    <3> QED
      BY <2>1, <3>1, <3>2 DEF NoOrphanProcess, Alive
  <2> QED
    BY <2>2, <2>3
<1>15. ASSUME NEW b \in Procs, Die(b) \/ KillDoomed(b)
       PROVE  NoOrphanProcess'
  BY <1>15 DEF Die, KillDoomed, TypeOK, HoldInv, OwnerInv, NoOrphanProcess, Uses, Alive
<1>16. ASSUME NEW p \in Pools, CloseAll(p)
       PROVE  NoOrphanProcess'
  BY <1>16 DEF CloseAll, TypeOK, HoldInv, OwnerInv, NoOrphanProcess, Uses, Alive
<1>17. ASSUME NEW n \in Sizes, SetBatchPoolSize(n)
       PROVE  NoOrphanProcess'
  <2>1. UNCHANGED <<proc, hold, pc>> /\ doomed \subseteq doomed'
    BY <1>17 DEF SetBatchPoolSize
  <2>2. CASE UNCHANGED all
    BY <2>1, <2>2 DEF NoOrphanProcess, Alive
  <2>3. ASSUME NEW extras, all' = [all EXCEPT ![current] = @ \ extras],
               doomed' = doomed \cup extras
        PROVE  NoOrphanProcess'
    <3>1. \A p \in Pools : all[p] \ extras \subseteq all'[p]
      BY <2>3 DEF TypeOK
    <3> QED
      BY <2>1, <2>3, <3>1 DEF NoOrphanProcess, Alive
  <2> QED
    BY <1>17, <2>2, <2>3 DEF SetBatchPoolSize
<1>18. CASE Invalidate \/ Close
  BY <1>18 DEF Invalidate, Close, TypeOK, HoldInv, OwnerInv, NoOrphanProcess, Uses, Alive
<1>19. CASE UNCHANGED vars
  BY <1>19 DEF vars, TypeOK, HoldInv, OwnerInv, NoOrphanProcess, Uses, Alive
<1> QED
  BY <1>1, <1>2, <1>3, <1>4, <1>5, <1>6, <1>7, <1>8, <1>9, <1>10, <1>11, <1>12, <1>13, <1>14,
     <1>15, <1>16, <1>17, <1>18, <1>19
     DEF Next, OpStep, Acquire, Use

(* Every step that makes room, frees a process or closes a pool wakes those who wait for it. *)
LEMMA WakeupNext == TypeOK /\ HoldInv /\ OwnerInv /\ NoLostWakeup /\ [Next]_vars => NoLostWakeup'
<1> SUFFICES ASSUME TypeOK, HoldInv, OwnerInv, NoLostWakeup, [Next]_vars
             PROVE  NoLostWakeup'
  OBVIOUS
<1> USE ConstantsAssumption
    DEF poolVars, storeVars, procVars, opVars, Goto, Return, Reap
<1>1. ASSUME NEW t \in Ops, NEW m \in {"file", "read"}, GetPool(t, m)
      PROVE  NoLostWakeup'
  BY <1>1 DEF GetPool, TypeOK, HoldInv, OwnerInv, NoLostWakeup, Room, Signal
<1>2. ASSUME NEW t \in Ops, AcquireClosed(t)
      PROVE  NoLostWakeup'
  BY <1>2 DEF AcquireClosed, TypeOK, HoldInv, OwnerInv, NoLostWakeup, Room, Signal
<1>3. ASSUME NEW t \in Ops, AcquireFree(t)
      PROVE  NoLostWakeup'
  BY <1>3 DEF AcquireFree, TypeOK, HoldInv, OwnerInv, NoLostWakeup, Room, Signal
<1>4. ASSUME NEW t \in Ops, AcquireNew(t) \/ AcquireWait(t) \/ Wake(t) \/ CancelWait(t)
      PROVE  NoLostWakeup'
  BY <1>4 DEF AcquireNew, AcquireWait, Wake, CancelWait,
              TypeOK, HoldInv, OwnerInv, NoLostWakeup, Room, Signal
<1>5. ASSUME NEW t \in Ops, CheckAlive(t)
      PROVE  NoLostWakeup'
  <2>1. CASE Alive(hold[t])
    BY <1>5, <2>1 DEF CheckAlive, TypeOK, NoLostWakeup, Room
  <2>2. CASE ~Alive(hold[t])
    <3>1. /\ UNCHANGED <<free, creating, max, closed, home>>
          /\ pc' = [pc EXCEPT ![t] = "acquire"] /\ pc[t] # "wait"
          /\ all' = [all EXCEPT ![home[t]] = @ \ {hold[t]}]
      BY <1>5, <2>2 DEF CheckAlive
    <3>2. CASE hold[t] \in all[home[t]]
      <4>1. Signal(home[t])
        BY <1>5, <2>2, <3>2 DEF CheckAlive
      <4>2. \A p \in Pools : p # home[t] => all'[p] = all[p]
        BY <3>1 DEF TypeOK
      <4> QED
        BY <3>1, <4>1, <4>2 DEF TypeOK, HoldInv, NoLostWakeup, Room, Signal
    <3>3. CASE hold[t] \notin all[home[t]]
      <4>1. UNCHANGED woken
        BY <1>5, <2>2, <3>3 DEF CheckAlive
      <4>2. all' = all
        BY <3>1, <3>3 DEF TypeOK
      <4> QED
        BY <3>1, <4>1, <4>2 DEF TypeOK, NoLostWakeup, Room
    <3> QED
      BY <3>2, <3>3
  <2> QED
    BY <2>1, <2>2
<1>6. ASSUME NEW t \in Ops, SpawnProcess(t)
      PROVE  NoLostWakeup'
  BY <1>6 DEF SpawnProcess, TypeOK, HoldInv, OwnerInv, NoLostWakeup, Room, Signal
<1>7. ASSUME NEW t \in Ops, Adopt(t)
      PROVE  NoLostWakeup'
  BY <1>7 DEF Adopt, TypeOK, HoldInv, OwnerInv, NoLostWakeup, Room, Signal
<1>8. ASSUME NEW t \in Ops, Answer(t)
      PROVE  NoLostWakeup'
  BY <1>8 DEF Answer, TypeOK, HoldInv, OwnerInv, NoLostWakeup, Room, Signal
<1>9. ASSUME NEW t \in Ops, Failure(t) \/ TooLarge(t)
      PROVE  NoLostWakeup'
  BY <1>9 DEF Failure, TooLarge, TypeOK, HoldInv, OwnerInv, NoLostWakeup, Room, Signal
<1>10. ASSUME NEW t \in Ops, CancelWork(t)
       PROVE  NoLostWakeup'
  BY <1>10 DEF CancelWork, TypeOK, HoldInv, OwnerInv, NoLostWakeup, Room, Signal
<1>11. ASSUME NEW t \in Ops, Discard(t)
       PROVE  NoLostWakeup'
  <2>1. /\ UNCHANGED <<free, creating, max, closed, home>>
        /\ pc' = [pc EXCEPT ![t] = "kill"] /\ pc[t] # "wait"
        /\ all' = [all EXCEPT ![home[t]] = @ \ {hold[t]}]
    BY <1>11 DEF Discard
  <2>2. CASE hold[t] \in all[home[t]]
    <3>1. Signal(home[t])
      BY <1>11, <2>2 DEF Discard
    <3>2. \A p \in Pools : p # home[t] => all'[p] = all[p]
      BY <2>1 DEF TypeOK
    <3> QED
      BY <2>1, <3>1, <3>2 DEF TypeOK, HoldInv, NoLostWakeup, Room, Signal
  <2>3. CASE hold[t] \notin all[home[t]]
    <3>1. UNCHANGED woken
      BY <1>11, <2>3 DEF Discard
    <3>2. all' = all
      BY <2>1, <2>3 DEF TypeOK
    <3> QED
      BY <2>1, <3>1, <3>2 DEF TypeOK, NoLostWakeup, Room
  <2> QED
    BY <2>2, <2>3
<1>12. ASSUME NEW t \in Ops, Kill(t)
       PROVE  NoLostWakeup'
  BY <1>12 DEF Kill, TypeOK, HoldInv, OwnerInv, NoLostWakeup, Room, Signal
<1>13. ASSUME NEW t \in Ops, Release(t)
       PROVE  NoLostWakeup'
  BY <1>13 DEF Release, TypeOK, HoldInv, OwnerInv, NoLostWakeup, Room, Signal
<1>14. ASSUME NEW t \in Ops, GiveBack(t)
       PROVE  NoLostWakeup'
  BY <1>14 DEF GiveBack, TypeOK, HoldInv, OwnerInv, NoLostWakeup, Room, Signal
<1>15. ASSUME NEW b \in Procs, Die(b) \/ KillDoomed(b)
       PROVE  NoLostWakeup'
  BY <1>15 DEF Die, KillDoomed, TypeOK, HoldInv, OwnerInv, NoLostWakeup, Room, Signal
<1>16. ASSUME NEW p \in Pools, CloseAll(p)
       PROVE  NoLostWakeup'
  BY <1>16 DEF CloseAll, TypeOK, HoldInv, OwnerInv, NoLostWakeup, Room, Signal
<1>17. ASSUME NEW n \in Sizes, SetBatchPoolSize(n)
       PROVE  NoLostWakeup'
  <2>1. UNCHANGED <<creating, closed, pc, home>>
    BY <1>17 DEF SetBatchPoolSize
  <2>2. CASE current = NoPool
    BY <1>17, <2>1, <2>2 DEF SetBatchPoolSize, NoLostWakeup, Room
  <2>3. CASE current # NoPool
    <3>1. PICK extras \in SUBSET free[current] :
            /\ all' = [all EXCEPT ![current] = @ \ extras]
            /\ free' = [free EXCEPT ![current] = @ \ extras]
      BY <1>17, <2>3 DEF SetBatchPoolSize
    <3>2. Signal(current) /\ max' = [max EXCEPT ![current] = n]
      BY <1>17, <2>3 DEF SetBatchPoolSize
    <3>3. \A p \in Pools \ {current} : all'[p] = all[p] /\ free'[p] = free[p] /\ max'[p] = max[p]
      BY <3>1, <3>2 DEF TypeOK
    <3> QED
      BY <2>1, <3>2, <3>3 DEF TypeOK, HoldInv, NoLostWakeup, Room, Signal
  <2> QED
    BY <2>2, <2>3
<1>18. CASE Invalidate \/ Close
  BY <1>18 DEF Invalidate, Close, TypeOK, HoldInv, OwnerInv, NoLostWakeup, Room, Signal
<1>19. CASE UNCHANGED vars
  BY <1>19 DEF vars, TypeOK, HoldInv, OwnerInv, NoLostWakeup, Room, Signal
<1> QED
  BY <1>1, <1>2, <1>3, <1>4, <1>5, <1>6, <1>7, <1>8, <1>9, <1>10, <1>11, <1>12, <1>13, <1>14,
     <1>15, <1>16, <1>17, <1>18, <1>19
     DEF Next, OpStep, Acquire, Use

-----------------------------------------------------------------------------
(* Sizes *)

(* The processes being started are counted with a finite number.             *)
CountInv == \A p \in Pools : IsFiniteSet(creating[p])

(* A pool without new processes, started or counted, has not grown.          *)
LEMMA NotGrown ==
    ASSUME TypeOK, CountInv, \A p \in Pools : all'[p] \subseteq all[p], UNCHANGED creating
    PROVE  \A p \in Pools : ~(Population(p)' > Population(p))
<1> SUFFICES ASSUME NEW p \in Pools
             PROVE  ~(Population(p)' > Population(p))
  OBVIOUS
<1>1. IsFiniteSet(all[p]) /\ all'[p] \subseteq all[p]
  BY ConstantsAssumption, FS_Subset DEF TypeOK
<1>2. Cardinality(all[p]) \in Nat /\ Cardinality(all'[p]) \in Nat
      /\ Cardinality(all'[p]) <= Cardinality(all[p])
  BY <1>1, FS_Subset, FS_CardinalityType
<1>3. Cardinality(creating[p]) \in Nat
  BY FS_CardinalityType DEF CountInv
<1> QED
  BY <1>2, <1>3 DEF Population

(* A step that makes a pool grow found room in it. *)
LEMMA GrowNext ==
    TypeOK /\ HoldInv /\ OwnerInv /\ CountInv /\ [Next]_vars
        => /\ CountInv'
           /\ \A p \in Pools : Population(p)' > Population(p) => Population(p)' <= max'[p]
<1> SUFFICES ASSUME TypeOK, HoldInv, OwnerInv, CountInv, [Next]_vars
             PROVE  /\ CountInv'
                    /\ \A p \in Pools : Population(p)' > Population(p) => Population(p)' <= max'[p]
  OBVIOUS
<1> DEFINE Grows == \A p \in Pools : Population(p)' > Population(p) => Population(p)' <= max'[p]
<1> SUFFICES CountInv' /\ Grows
  OBVIOUS
<1> USE DEF poolVars, storeVars, procVars, opVars
<1>1. ASSUME NEW t \in Ops, AcquireNew(t)
      PROVE  CountInv' /\ Grows
  <2>1. /\ creating' = [creating EXCEPT ![home[t]] = @ \cup {t}] /\ Room(home[t])
        /\ pc[t] = "acquire" /\ UNCHANGED <<all, max>>
    BY <1>1 DEF AcquireNew
  <2>2. home[t] \in Pools /\ t \notin creating[home[t]]
    BY <2>1 DEF TypeOK, HoldInv
  <2>3. /\ IsFiniteSet(creating[home[t]]) /\ IsFiniteSet(creating[home[t]] \cup {t})
        /\ Cardinality(creating[home[t]] \cup {t}) = Cardinality(creating[home[t]]) + 1
        /\ Cardinality(creating[home[t]]) \in Nat
    BY <2>2, FS_AddElement, FS_CardinalityType DEF CountInv
  <2>4. \A p \in Pools : creating'[p] = IF p = home[t] THEN creating[p] \cup {t} ELSE creating[p]
    BY <2>1 DEF TypeOK
  <2>5. CountInv'
    BY <2>3, <2>4 DEF CountInv
  <2>6. Cardinality(all[home[t]]) \in Nat /\ max[home[t]] \in Nat
    BY <2>2, ConstantsAssumption, FS_Subset, FS_CardinalityType DEF TypeOK
  <2>7. ASSUME NEW p \in Pools, Population(p)' > Population(p)
        PROVE  Population(p)' <= max'[p]
    <3>1. CASE p = home[t]
      BY <2>1, <2>3, <2>4, <2>6, <3>1 DEF Population, Room
    <3>2. CASE p # home[t]
      <4>1. IsFiniteSet(all[p]) /\ IsFiniteSet(creating[p])
        BY ConstantsAssumption, FS_Subset DEF TypeOK, CountInv
      <4>2. Population(p) \in Nat
        BY <4>1, FS_CardinalityType DEF Population
      <4>3. Population(p)' = Population(p)
        BY <2>1, <2>4, <3>2 DEF Population
      <4> QED
        BY <2>7, <4>2, <4>3
    <3> QED
      BY <3>1, <3>2
  <2> QED
    BY <2>5, <2>7
<1>2. ASSUME NEW t \in Ops, Adopt(t)
      PROVE  CountInv' /\ Grows
  <2>1. /\ creating' = [creating EXCEPT ![home[t]] = @ \ {t}] /\ pc[t] = "adopt"
        /\ \/ UNCHANGED all
           \/ hold[t] # NoProc /\ all' = [all EXCEPT ![home[t]] = @ \cup {hold[t]}]
    BY <1>2 DEF Adopt
  <2>2. home[t] \in Pools /\ t \in creating[home[t]]
    BY <2>1 DEF TypeOK, HoldInv
  <2>3. /\ IsFiniteSet(creating[home[t]]) /\ IsFiniteSet(creating[home[t]] \ {t})
        /\ Cardinality(creating[home[t]] \ {t}) = Cardinality(creating[home[t]]) - 1
        /\ Cardinality(creating[home[t]]) \in Nat
    BY <2>2, FS_RemoveElement, FS_CardinalityType DEF CountInv
  <2>4. \A p \in Pools : creating'[p] = IF p = home[t] THEN creating[p] \ {t} ELSE creating[p]
    BY <2>1 DEF TypeOK
  <2>5. CountInv'
    BY <2>3, <2>4 DEF CountInv
  <2>6. ASSUME NEW p \in Pools
        PROVE  ~(Population(p)' > Population(p))
    <3>1. /\ IsFiniteSet(all[p]) /\ IsFiniteSet(creating[p])
          /\ Cardinality(all[p]) \in Nat /\ Cardinality(creating[p]) \in Nat
      BY ConstantsAssumption, FS_Subset, FS_CardinalityType DEF TypeOK, CountInv
    <3>2. CASE p # home[t]
      <4>1. all'[p] = all[p] /\ creating'[p] = creating[p]
        BY <2>1, <2>4, <3>2 DEF TypeOK
      <4> QED
        BY <3>1, <4>1 DEF Population
    <3>3. CASE p = home[t]
      <4>1. all'[p] = all[p] \/ all'[p] = all[p] \cup {hold[t]}
        BY <2>1, <3>3 DEF TypeOK
      <4>2. Cardinality(all'[p]) \in Nat /\ Cardinality(all'[p]) <= Cardinality(all[p]) + 1
        <5>1. /\ IsFiniteSet(all[p] \cup {hold[t]})
              /\ Cardinality(all[p] \cup {hold[t]})
                   \in {Cardinality(all[p]), Cardinality(all[p]) + 1}
          BY <3>1, FS_AddElement
        <5>2. CASE all'[p] = all[p]
          BY <3>1, <5>2
        <5>3. CASE all'[p] = all[p] \cup {hold[t]}
          BY <3>1, <5>1, <5>3
        <5> QED
          BY <4>1, <5>2, <5>3
      <4> QED
        BY <2>3, <2>4, <3>1, <3>3, <4>2 DEF Population
    <3> QED
      BY <3>2, <3>3
  <2> QED
    BY <2>5, <2>6
<1>3. ASSUME \A p \in Pools : all'[p] \subseteq all[p], UNCHANGED creating
      PROVE  CountInv' /\ Grows
  BY <1>3, NotGrown DEF CountInv
<1>4. ASSUME NEW t \in Ops,
             \/ AcquireClosed(t) \/ AcquireFree(t) \/ AcquireWait(t) \/ Wake(t) \/ CancelWait(t)
             \/ SpawnProcess(t) \/ Use(t) \/ Kill(t) \/ Release(t)
             \/ \E m \in {"file", "read"} : GetPool(t, m)
      PROVE  UNCHANGED <<all, creating>>
  BY <1>4 DEF AcquireClosed, AcquireFree, AcquireWait, Wake, CancelWait, SpawnProcess, Use,
              Answer, Failure, TooLarge, CancelWork, Kill, Release, GetPool
<1>5. ASSUME NEW t \in Ops, CheckAlive(t) \/ Discard(t) \/ GiveBack(t)
      PROVE  (\A p \in Pools : all'[p] \subseteq all[p]) /\ UNCHANGED creating
  <2>1. /\ UNCHANGED creating
        /\ UNCHANGED all \/ all' = [all EXCEPT ![home[t]] = @ \ {hold[t]}]
    BY <1>5 DEF CheckAlive, Discard, GiveBack
  <2> QED
    BY <2>1 DEF TypeOK
<1>6. ASSUME NEW b \in Procs, Die(b) \/ KillDoomed(b)
      PROVE  CountInv' /\ Grows
  <2>1. UNCHANGED <<all, creating>>
    BY <1>6 DEF Die, KillDoomed
  <2> QED
    BY <1>3, <2>1
<1>7. ASSUME NEW p \in Pools, CloseAll(p)
      PROVE  CountInv' /\ Grows
  <2>1. (\A q \in Pools : all'[q] \subseteq all[q]) /\ UNCHANGED creating
    BY <1>7 DEF CloseAll, TypeOK
  <2> QED
    BY <1>3, <2>1
<1>8. ASSUME NEW n \in Sizes, SetBatchPoolSize(n)
      PROVE  CountInv' /\ Grows
  <2>1. CASE UNCHANGED all
    BY <1>3, <1>8, <2>1 DEF SetBatchPoolSize
  <2>2. ASSUME NEW extras, all' = [all EXCEPT ![current] = @ \ extras]
        PROVE  \A p \in Pools : all'[p] \subseteq all[p]
    BY <2>2 DEF TypeOK
  <2>3. UNCHANGED creating
    BY <1>8 DEF SetBatchPoolSize
  <2> QED
    BY <1>3, <1>8, <2>1, <2>2, <2>3 DEF SetBatchPoolSize
<1>9. CASE Invalidate \/ Close
  <2>1. UNCHANGED <<all, creating>>
    BY <1>9 DEF Invalidate, Close
  <2> QED
    BY <1>3, <2>1
<1>10. CASE UNCHANGED vars
  <2>1. UNCHANGED <<all, creating>>
    BY <1>10 DEF vars
  <2> QED
    BY <1>3, <2>1
<1>11. CASE UNCHANGED <<all, creating>>
  BY <1>3, <1>11
<1> HIDE DEF Grows
<1>12. ASSUME NEW t \in Ops, \/ OpStep(t) \/ CancelWait(t)
                             \/ \E m \in {"file", "read"} : GetPool(t, m)
       PROVE  CountInv' /\ Grows
  BY <1>1, <1>2, <1>3, <1>4, <1>5, <1>11, <1>12 DEF OpStep, Acquire
<1> QED
  BY <1>6, <1>7, <1>8, <1>9, <1>10, <1>12 DEF Next

-----------------------------------------------------------------------------
(* The properties *)

(* The first state has all the invariants. *)
LEMMA InvInit == Init => OwnerInv /\ OrderInv /\ CountInv /\ NoOrphanProcess /\ NoLostWakeup
  BY FS_EmptySet
     DEF Init, OwnerInv, OrderInv, CountInv, NoOrphanProcess, NoLostWakeup, Uses, Alive

(* What holds of processes and pools in every state. *)
LEMMA PoolInv == Spec => [](TypeOK /\ HoldInv /\ OwnerInv /\ OrderInv /\ CountInv)
<1>1. Init => TypeOK /\ HoldInv /\ OwnerInv /\ OrderInv /\ CountInv
  BY TypeInit, InvInit
<1>2. TypeOK /\ HoldInv /\ OwnerInv /\ OrderInv /\ CountInv /\ [Next]_vars
        => TypeOK' /\ HoldInv' /\ OwnerInv' /\ OrderInv' /\ CountInv'
  BY TypeNext, OwnerNext, OrderNext, GrowNext
<1> QED
  BY <1>1, <1>2, PTL DEF Spec

(* Every variable of the store, the pools and the operations stays in its     *)
(* type; with it goes what an operation holds at each point.                 *)
THEOREM TypeCorrect == Spec => []TypeOK
  BY PoolInv, PTL

(* A process has one user: the free list of one pool, or one operation        *)
(* (batchCatFile asks its callers for exclusive access).                     *)
THEOREM ExclusiveUseHolds == Spec => []ExclusiveUse
<1>1. TypeOK /\ OwnerInv => ExclusiveUse
  BY ConstantsAssumption DEF TypeOK, OwnerInv, ExclusiveUse
<1> QED
  BY <1>1, PoolInv, PTL

(* An operation is never handed a process with output of an earlier request   *)
(* (ErrBlobTooLarge, a cancelled read and an answer that cannot be parsed).  *)
THEOREM AnswersInOrderHolds == Spec => []AnswersInOrder
<1>1. OrderInv => AnswersInOrder
  BY DEF OrderInv, AnswersInOrder
<1> QED
  BY <1>1, PoolInv, PTL

(* No process that runs is forgotten, though pools are closed while processes *)
(* for them are being started or are in use (closeAll, acquire, release).    *)
THEOREM NoOrphanProcessHolds == Spec => []NoOrphanProcess
<1>1. TypeOK /\ HoldInv /\ OwnerInv /\ NoOrphanProcess /\ [Next]_vars => NoOrphanProcess'
  BY OrphanNext
<1> QED
  BY <1>1, InvInit, PoolInv, PTL DEF Spec

(* Who waits without having been woken has no process to take and no room for *)
(* one: every critical section that changes this closes the channel.         *)
THEOREM NoLostWakeupHolds == Spec => []NoLostWakeup
<1>1. TypeOK /\ HoldInv /\ OwnerInv /\ NoLostWakeup /\ [Next]_vars => NoLostWakeup'
  BY WakeupNext
<1> QED
  BY <1>1, InvInit, PoolInv, PTL DEF Spec

(* A pool grows only up to its size, also where the size was changed while     *)
(* processes were being started (setMaxSize, acquire).                       *)
THEOREM GrowsWithinMaxHolds == Spec => GrowsWithinMax
<1>1. TypeOK /\ HoldInv /\ OwnerInv /\ CountInv /\ [Next]_vars
        => [\A p \in Pools : Population(p)' > Population(p) => Population(p)' <= max'[p]]_vars
  BY GrowNext
<1> QED
  BY <1>1, PoolInv, PTL DEF Spec, GrowsWithinMax
=============================================================================
