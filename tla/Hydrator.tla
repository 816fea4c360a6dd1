------------------------------ MODULE Hydrator ------------------------------
(***************************************************************************)
(* The blob hydrator of internal/hydrator: a priority queue of blobs to    *)
(* fetch, a pool of workers that drains it, lists of readers waiting for a *)
(* blob, single-flight verification of cached blobs, and Stop.             *)
(*                                                                         *)
(* One action is one critical section of Service.mu, one file system       *)
(* access or one channel operation, so that every interleaving of the      *)
(* goroutines at those points is a behaviour.  A key is a taskKey (repo,   *)
(* object); the blob cache holds at most one file per key.                 *)
(***************************************************************************)
EXTENDS Naturals, FiniteSets

CONSTANTS
    Keys,            \* blobs
    Openers,         \* goroutines that run OpenHydrated
    Readers,         \* goroutines that run ReadBlob
    Prefetchers,     \* goroutines that run EnqueueBatch
    Workers,         \* goroutines started by Start
    Verifiers,       \* slots for runVerification goroutines (a bound)
    FileIds,         \* identities (device, inode, mtime) of cache files (a bound)
    Priorities,      \* priorities of speculative tasks
    ExplicitRead,    \* PriorityExplicitRead
    MaxTampers,      \* how often something else changes the cache directory
    TamperContents,  \* the contents such a change may leave
    TamperWindows,   \* the undefended windows in which it may happen
    StopAllowed      \* whether Stop may be called

Callers == Openers \cup Readers
Threads == Callers \cup Workers \cup Prefetchers

ASSUME ConstantsAssumption ==
    /\ IsFiniteSet(Keys)
    /\ ExplicitRead \in Nat
    /\ Priorities \subseteq 1 .. (ExplicitRead - 1)
    /\ ExplicitRead > 0
    /\ MaxTampers \in Nat
    /\ TamperContents \subseteq {"good", "bad"}
    /\ TamperWindows \subseteq {"record", "deliver"}
    /\ StopAllowed \in BOOLEAN
    /\ Openers \cap Readers = {}
    /\ Callers \cap Workers = {}
    /\ Callers \cap Prefetchers = {}
    /\ Workers \cap Prefetchers = {}

VARIABLES
    prio,       \* pq and queued: the priority key k is queued at, 0 if it is not
    active,     \* the keys some worker holds
    wait,       \* key -> the callers waiting for its hydration
    verifying,  \* key -> the threads waiting for its verification
    verified,   \* key -> the cache file whose content was found to be right
    stopped,    \* Stop has been called
    started,    \* Start has been called
    token,      \* workReady holds a signal
    cache,      \* key -> the file at its cache path
    verif,      \* the runVerification goroutines
    pc, key, file, answer,  \* per thread: program counter, locals, channel
    owed,       \* signals a prefetcher has still to send
    tampers     \* changes made to the cache directory from outside

vars == <<prio, active, wait, verifying, verified, stopped, started, token,
          cache, verif, pc, key, file, answer, owed, tampers>>

life   == <<stopped, started>>
queue  == <<prio, active, wait>>
locals == <<key, file, answer>>
disk   == <<cache, tampers>>

-----------------------------------------------------------------------------
(* Files.  A file is what os.FileInfo identifies (sameFileInfo) together    *)
(* with whether its bytes are those of the object.                          *)

Contents == {"good", "bad"}
File     == [id : FileIds, content : Contents]
NoFile   == [id |-> "none", content |-> "none"]
NoKey    == "none"

Verification == [key : Keys, file : File, stage : {"run", "compare", "deliver"},
                 verdict : {"ok", "bad", "error"}]
NoVerification == [stage |-> "free"]

(* A rename over the cache path installs a file no one has seen before. *)
Fresh(f) ==
    /\ \A k \in Keys : f.id # cache[k].id /\ f.id # verified[k].id
    /\ \A t \in Threads : f.id # file[t].id
    /\ \A v \in Verifiers : verif[v] # NoVerification => f.id # verif[v].file.id

Queued == {k \in Keys : prio[k] > 0}

-----------------------------------------------------------------------------
(* Who is where. *)

Validating == {"stat", "check", "verify", "verdict", "restat", "remember"}
CallerPcs  == {"idle"} \cup Validating
                \cup {"enter", "join", "admit", "signal", "await", "readthrough", "open", "pin"}
WorkerHolds == Validating \cup {"more", "fetch", "record", "finish"}
WorkerPcs   == {"off", "idle", "pop", "resignal", "exited"} \cup WorkerHolds
PrefetchPcs == {"idle"}

(* Labels at which a thread has a file it has seen in hand. *)
SawFile == {"check", "verify", "verdict", "restat", "remember", "pin"}

(* Variant: a worker on a miss takes the path of a caller. *)
OnMissAsCaller(t) == IF t \in Readers THEN "readthrough" ELSE "admit"

(* Where a thread goes when the cached blob is not usable, and when it is. *)
OnMiss(t) == IF t \in Workers THEN "fetch"
             ELSE IF t \in Readers THEN "readthrough" ELSE "admit"
OnHit(t)  == IF t \in Workers THEN "finish" ELSE "open"

Goto(t, l) == pc' = [pc EXCEPT ![t] = l]

(* A call returns: with the file it opened, or with none.  Locals that are   *)
(* dead at a label are reset there, which keeps equal states equal.          *)
Return(t, f) ==
    /\ Goto(t, "idle")
    /\ key' = [key EXCEPT ![t] = NoKey]
    /\ file' = [file EXCEPT ![t] = f]
    /\ answer' = [answer EXCEPT ![t] = "none"]

Miss(t) ==
    /\ Goto(t, OnMiss(t))
    /\ file' = [file EXCEPT ![t] = NoFile]
    /\ answer' = [answer EXCEPT ![t] = "none"]
    /\ UNCHANGED key

Hit(t) ==
    /\ Goto(t, OnHit(t))
    /\ file' = [file EXCEPT ![t] = NoFile]
    /\ answer' = [answer EXCEPT ![t] = IF t \in Workers THEN "ok" ELSE "none"]
    /\ UNCHANGED key

(* A worker's validation or fetch failed: finishHydration passes that on.    *)
Fail(w) ==
    /\ Goto(w, "finish")
    /\ file' = [file EXCEPT ![w] = NoFile]
    /\ answer' = [answer EXCEPT ![w] = "error"]
    /\ UNCHANGED key

-----------------------------------------------------------------------------
TypeOK ==
    /\ prio \in [Keys -> Priorities \cup {0, ExplicitRead}]
    /\ active \subseteq Keys
    /\ wait \in [Keys -> SUBSET Callers]
    /\ verifying \in [Keys -> SUBSET (Callers \cup Workers)]
    /\ verified \in [Keys -> File \cup {NoFile}]
    /\ stopped \in BOOLEAN
    /\ started \in BOOLEAN
    /\ token \in BOOLEAN
    /\ cache \in [Keys -> File \cup {NoFile}]
    /\ verif \in [Verifiers -> Verification \cup {NoVerification}]
    /\ pc \in [Threads -> CallerPcs \cup WorkerPcs]
    /\ \A t \in Callers : pc[t] \in CallerPcs
    /\ \A t \in Workers : pc[t] \in WorkerPcs
    /\ \A t \in Prefetchers : pc[t] \in PrefetchPcs
    /\ key \in [Threads -> Keys \cup {NoKey}]
    /\ \A t \in Callers : pc[t] # "idle" => key[t] \in Keys
    /\ \A t \in Workers : pc[t] \in WorkerHolds => key[t] \in Keys
    /\ file \in [Threads -> File \cup {NoFile}]
    /\ \A t \in Callers \cup Workers : pc[t] \in SawFile => file[t] \in File
    /\ answer \in [Threads -> {"none", "ok", "bad", "error", "stopped"}]
    /\ owed \in [Prefetchers -> Nat]
    /\ tampers \in 0 .. MaxTampers

(* A crash of an earlier daemon may have left any file at a cache path. *)
Init ==
    /\ prio = [k \in Keys |-> 0]
    /\ active = {}
    /\ wait = [k \in Keys |-> {}]
    /\ verifying = [k \in Keys |-> {}]
    /\ verified = [k \in Keys |-> NoFile]
    /\ stopped = FALSE /\ started = FALSE /\ token = FALSE
    /\ cache \in [Keys -> File \cup {NoFile}]
    /\ \A j, k \in Keys : j # k /\ cache[j] # NoFile => cache[j].id # cache[k].id
    /\ verif = [v \in Verifiers |-> NoVerification]
    /\ pc = [t \in Threads |-> IF t \in Workers THEN "off" ELSE "idle"]
    /\ key = [t \in Threads |-> NoKey]
    /\ file = [t \in Threads |-> NoFile]
    /\ answer = [t \in Threads |-> "none"]
    /\ owed = [t \in Prefetchers |-> 0]
    /\ tampers = 0

-----------------------------------------------------------------------------
(* enqueueLocked *)

(* Variant: a queued task keeps its priority. *)
OfferedNoUpgrade(k, p) == IF k \in active \/ prio[k] > 0 THEN prio[k] ELSE p

(* The priority key k is queued at once a task of priority p is offered. *)
Offered(k, p) == IF k \in active \/ prio[k] >= p THEN prio[k] ELSE p

(* Variant: only an upgrade counts as enqueued. *)
EnqueuesUpgrade(k, p) == k \notin active /\ prio[k] > 0 /\ p > prio[k]

(* Does offering it count as enqueued, so that the caller owes a signal? *)
Enqueues(k, p) == k \notin active /\ p > prio[k]

-----------------------------------------------------------------------------
(* Start, EnqueueBatch and Stop *)

Start ==
    /\ ~started /\ ~stopped
    /\ started' = TRUE
    /\ pc' = [t \in Threads |-> IF t \in Workers THEN "idle" ELSE pc[t]]
    /\ UNCHANGED <<queue, verifying, verified, stopped, token, disk, verif, locals, owed>>

(* PrefetchDir hands the children of a directory over in one batch. *)
EnqueueBatch(t, S, p) ==
    /\ ~stopped /\ owed[t] = 0 /\ S # {}
    /\ prio' = [k \in Keys |-> IF k \in S THEN Offered(k, p) ELSE prio[k]]
    /\ owed' = [owed EXCEPT ![t] = Cardinality({k \in S : Enqueues(k, p)})]
    /\ UNCHANGED <<active, wait, verifying, verified, life, token, disk, verif, pc, locals>>

(* signalWork fills workReady, which holds at most one signal; it is called   *)
(* after the lock is released: by a caller that enqueued, by a worker that    *)
(* left more behind, and by a worker about to look at the queue again.        *)
AfterSignal == [signal |-> "await", more |-> "stat", resignal |-> "pop"]

SignalWork(t) ==
    /\ pc[t] \in DOMAIN AfterSignal
    /\ token' = TRUE
    /\ Goto(t, AfterSignal[pc[t]])
    /\ UNCHANGED <<queue, verifying, verified, life, disk, verif, locals, owed>>

(* The signals are sent after the lock is released, one at a time. *)
SignalBatch(t) ==
    /\ owed[t] > 0
    /\ owed' = [owed EXCEPT ![t] = @ - 1]
    /\ token' = TRUE
    /\ UNCHANGED <<queue, verifying, verified, life, disk, verif, pc, locals>>

(* Stop answers everyone who waits now and empties the queue; it returns     *)
(* when every background goroutine has ended (StopReturned).                *)
Stop ==
    /\ StopAllowed /\ ~stopped
    /\ stopped' = TRUE
    /\ answer' = [t \in Threads |->
                    IF \E k \in Keys : t \in wait[k] \cup verifying[k]
                    THEN "stopped" ELSE answer[t]]
    /\ wait' = [k \in Keys |-> {}]
    /\ verifying' = [k \in Keys |-> {}]
    /\ prio' = [k \in Keys |-> 0]
    /\ UNCHANGED <<active, verified, started, token, disk, verif, pc, key, file, owed>>

StopReturned ==
    /\ stopped
    /\ \A t \in Workers : pc[t] \in {"off", "exited"}
    /\ \A v \in Verifiers : verif[v] = NoVerification

-----------------------------------------------------------------------------
(* validateCachedBlob, run by callers and by workers *)

(* os.Stat of the cache path.  A file of the wrong size is turned down      *)
(* without being read when the size of the object is known: a good file     *)
(* never is, a bad one may be.                                              *)
Stat(t) ==
    /\ pc[t] = "stat"
    /\ LET k == key[t] IN
       \/ /\ cache[k] = NoFile
          /\ Miss(t)
          /\ UNCHANGED verified
       \/ /\ cache[k] # NoFile
          /\ file' = [file EXCEPT ![t] = cache[k]]
          /\ Goto(t, "check")
          /\ UNCHANGED <<key, answer, verified>>
       \/ /\ cache[k].content = "bad"
          /\ verified' = [verified EXCEPT ![k] = NoFile]
          /\ Miss(t)
    /\ UNCHANGED <<queue, verifying, life, token, disk, verif, owed>>

(* os.Stat fails for another reason than a missing file. *)
StatFails(t) ==
    /\ pc[t] \in {"stat", "restat"}
    /\ IF t \in Workers THEN Fail(t) ELSE Return(t, NoFile)
    /\ UNCHANGED <<queue, verifying, verified, life, token, disk, verif, owed>>

(* isVerified forgets a recorded file that is not the one seen. *)
IfVerified(k, f) == [verified EXCEPT ![k] = IF @ = f THEN f ELSE NoFile]

Check(t) ==
    /\ pc[t] = "check"
    /\ verified' = IfVerified(key[t], file[t])
    /\ IF verified[key[t]] = file[t] THEN Hit(t)
       ELSE Goto(t, "verify") /\ UNCHANGED locals
    /\ UNCHANGED <<queue, verifying, life, token, disk, verif, owed>>

(* verifyBlobOnce: join the verification under way, or start one. *)
VerifyOnce(t) ==
    /\ pc[t] = "verify"
    /\ LET k == key[t] IN
       IF stopped
       THEN Miss(t) /\ UNCHANGED <<verifying, verif>>
       ELSE /\ verifying' = [verifying EXCEPT ![k] = @ \cup {t}]
            /\ Goto(t, "verdict") /\ UNCHANGED locals
            /\ IF verifying[k] # {} THEN UNCHANGED verif
               ELSE \E v \in Verifiers :
                      /\ verif[v] = NoVerification
                      /\ verif' = [verif EXCEPT ![v] =
                            [key |-> k, file |-> file[t], stage |-> "run", verdict |-> "ok"]]
    /\ UNCHANGED <<queue, verified, life, token, disk, owed>>

(* A verdict other than ok is a miss; only a negative one clears verified.   *)
AwaitVerdict(t) ==
    /\ pc[t] = "verdict" /\ answer[t] # "none"
    /\ IF answer[t] = "ok"
       THEN /\ Goto(t, "restat")
            /\ answer' = [answer EXCEPT ![t] = "none"]
            /\ UNCHANGED <<key, file, verified>>
       ELSE /\ Miss(t)
            /\ verified' = IF answer[t] = "bad"
                           THEN [verified EXCEPT ![key[t]] = NoFile] ELSE verified
    /\ UNCHANGED <<queue, verifying, life, token, disk, verif, owed>>

Restat(t) ==
    /\ pc[t] = "restat"
    /\ IF cache[key[t]] = file[t]
       THEN Goto(t, "remember") /\ UNCHANGED <<locals, verified>>
       ELSE /\ Miss(t)
            /\ verified' = IF cache[key[t]] = NoFile THEN verified
                           ELSE [verified EXCEPT ![key[t]] = NoFile]
    /\ UNCHANGED <<queue, verifying, life, token, disk, verif, owed>>

RememberVerified(t) ==
    /\ pc[t] = "remember"
    /\ verified' = [verified EXCEPT ![key[t]] = file[t]]
    /\ Hit(t)
    /\ UNCHANGED <<queue, verifying, life, token, disk, verif, owed>>

-----------------------------------------------------------------------------
(* runVerification, a goroutine of its own *)

(* VerifyBlob hashes whatever file is at the path now.  Stop cancels it.    *)
RunVerifyBlob(v) ==
    /\ verif[v] # NoVerification /\ verif[v].stage = "run"
    /\ LET f == cache[verif[v].key] IN
       \E outcome \in {"ok", "bad", "error"} :
          /\ outcome = "ok" => f.content = "good"
          /\ outcome = "bad" => f.content = "bad"
          /\ verif' = [verif EXCEPT ![v].verdict = outcome,
                        ![v].stage = IF outcome = "ok" THEN "compare" ELSE "deliver"]
    /\ UNCHANGED <<queue, verifying, verified, life, token, disk, pc, locals, owed>>

(* Variant: the file that was hashed is not compared. *)
CompareNothing(v) ==
    /\ verif[v] # NoVerification /\ verif[v].stage = "compare"
    /\ verif' = [verif EXCEPT ![v].stage = "deliver"]
    /\ UNCHANGED <<queue, verifying, verified, life, token, disk, pc, locals, owed>>

(* The file hashed has to be the one that was asked about. *)
CompareFile(v) ==
    /\ verif[v] # NoVerification /\ verif[v].stage = "compare"
    /\ verif' = [verif EXCEPT ![v].stage = "deliver",
                  ![v].verdict = IF cache[verif[v].key] = verif[v].file THEN "ok" ELSE "bad"]
    /\ UNCHANGED <<queue, verifying, verified, life, token, disk, pc, locals, owed>>

DeliverVerdict(v) ==
    /\ verif[v] # NoVerification /\ verif[v].stage = "deliver"
    /\ LET k == verif[v].key IN
       /\ verified' = IF verif[v].verdict = "ok"
                      THEN [verified EXCEPT ![k] = verif[v].file] ELSE verified
       /\ answer' = [t \in Threads |->
                       IF t \in verifying[k] THEN verif[v].verdict ELSE answer[t]]
       /\ verifying' = [verifying EXCEPT ![k] = {}]
    /\ verif' = [verif EXCEPT ![v] = NoVerification]
    /\ UNCHANGED <<queue, life, token, disk, pc, key, file, owed>>

-----------------------------------------------------------------------------
(* Callers: OpenHydrated (which runs EnsureHydrated) and ReadBlob *)

(* Where the loop of the operation starts over. *)
Again(t) == IF t \in Readers THEN "stat" ELSE "enter"

Call(t, k) ==
    /\ pc[t] = "idle"
    /\ key' = [key EXCEPT ![t] = k]
    /\ file' = [file EXCEPT ![t] = NoFile]
    /\ Goto(t, Again(t))
    /\ UNCHANGED <<queue, verifying, verified, life, token, disk, verif, answer, owed>>

(* The first look at stopped; the lock is released before joinInflight. *)
Enter(t) ==
    /\ pc[t] = "enter"
    /\ IF stopped THEN Return(t, NoFile) ELSE Goto(t, "join") /\ UNCHANGED locals
    /\ UNCHANGED <<queue, verifying, verified, life, token, disk, verif, owed>>

InFlight(k) == k \in active \/ wait[k] # {}

JoinInflight(t) ==
    /\ pc[t] = "join"
    /\ IF InFlight(key[t])
       THEN /\ wait' = [wait EXCEPT ![key[t]] = @ \cup {t}]
            /\ Goto(t, "await")
       ELSE Goto(t, "stat") /\ UNCHANGED wait
    /\ UNCHANGED <<prio, active, verifying, verified, life, token, disk, verif, locals, owed>>

(* The second critical section of EnsureHydrated, on a cache miss. *)
Admit(t) ==
    /\ pc[t] = "admit"
    /\ LET k == key[t] IN
       IF stopped
       THEN Return(t, NoFile) /\ UNCHANGED <<wait, prio>>
       ELSE /\ wait' = [wait EXCEPT ![k] = @ \cup {t}]
            /\ UNCHANGED locals
            /\ IF InFlight(k)
               THEN Goto(t, "await") /\ UNCHANGED prio
               ELSE /\ prio' = [prio EXCEPT ![k] = Offered(k, ExplicitRead)]
                    /\ Goto(t, IF Enqueues(k, ExplicitRead) THEN "signal" ELSE "await")
    /\ UNCHANGED <<active, verifying, verified, life, token, disk, verif, owed>>

Receive(t) ==
    /\ pc[t] = "await" /\ answer[t] # "none"
    /\ IF answer[t] = "ok" THEN Hit(t) ELSE Return(t, NoFile)
    /\ UNCHANGED <<queue, verifying, verified, life, token, disk, verif, owed>>

(* The context of the call ends while it waits: it leaves the list.  The     *)
(* select may take this branch even when the answer has arrived.             *)
Cancel(t) ==
    /\ pc[t] \in {"await", "verdict"}
    /\ wait' = [wait EXCEPT ![key[t]] = @ \ {t}]
    /\ verifying' = [verifying EXCEPT ![key[t]] = @ \ {t}]
    /\ Return(t, NoFile)
    /\ UNCHANGED <<prio, active, verified, life, token, disk, verif, owed>>

(* os.Open of the cache path.  Only OpenHydrated forgets a vanished file. *)
Open(t) ==
    /\ pc[t] = "open"
    /\ LET k == key[t] IN
       IF cache[k] = NoFile
       THEN /\ Goto(t, Again(t))
            /\ verified' = IF t \in Openers THEN [verified EXCEPT ![k] = NoFile] ELSE verified
            /\ UNCHANGED file
       ELSE /\ file' = [file EXCEPT ![t] = cache[k]]
            /\ Goto(t, "pin")
            /\ UNCHANGED verified
    /\ UNCHANGED <<queue, verifying, life, token, disk, verif, key, answer, owed>>

(* Variant: the open file is handed out unseen. *)
PinUnchecked(t) ==
    /\ pc[t] = "pin"
    /\ Return(t, file[t])
    /\ UNCHANGED <<queue, verifying, verified, life, token, disk, verif, owed>>

(* The open file is handed out only if it is the verified one; otherwise the *)
(* call starts over, unless its context has ended.                           *)
Pin(t) ==
    /\ pc[t] = "pin"
    /\ verified' = IfVerified(key[t], file[t])
    /\ \/ verified[key[t]] = file[t] /\ Return(t, file[t])
       \/ /\ verified[key[t]] # file[t]
          /\ \/ /\ Goto(t, Again(t))
                /\ file' = [file EXCEPT ![t] = NoFile]
                /\ UNCHANGED <<key, answer>>
             \/ Return(t, NoFile)
    /\ UNCHANGED <<queue, verifying, life, token, disk, verif, owed>>

(* ReadBlob takes the bytes from git when the cache has no good file, and    *)
(* has nothing to do with the cache whether that succeeds or not.            *)
ReadThrough(t) ==
    /\ pc[t] = "readthrough"
    /\ Return(t, NoFile)
    /\ UNCHANGED <<queue, verifying, verified, life, token, disk, verif, owed>>

-----------------------------------------------------------------------------
(* Workers *)

Wake(w) ==
    /\ pc[w] = "idle" /\ token
    /\ token' = FALSE
    /\ Goto(w, "pop")
    /\ UNCHANGED <<queue, verifying, verified, life, disk, verif, locals, owed>>

(* Variant: stopCh is looked at only after a signal. *)
ExitOnSignal(w) ==
    /\ pc[w] = "idle" /\ stopped /\ token
    /\ Goto(w, "exited")
    /\ UNCHANGED <<queue, verifying, verified, life, token, disk, verif, locals, owed>>

Exit(w) ==
    /\ pc[w] = "idle" /\ stopped
    /\ Goto(w, "exited")
    /\ UNCHANGED <<queue, verifying, verified, life, token, disk, verif, locals, owed>>

PopEmpty(w) ==
    /\ pc[w] = "pop" /\ Queued = {}
    /\ Goto(w, "idle")
    /\ UNCHANGED <<queue, verifying, verified, life, token, disk, verif, locals, owed>>

(* Variant: the key is not marked active. *)
PopUnmarked(w, k) ==
    /\ pc[w] = "pop" /\ k \in Queued
    /\ prio' = [prio EXCEPT ![k] = 0]
    /\ key' = [key EXCEPT ![w] = k]
    /\ Goto(w, IF Queued = {k} THEN "stat" ELSE "more")
    /\ UNCHANGED <<active, wait, verifying, verified, life, token, disk, verif, file, answer, owed>>

(* The heap gives a key of the highest priority. *)
Pop(w, k) ==
    /\ pc[w] = "pop" /\ k \in Queued
    /\ \A j \in Queued : prio[j] <= prio[k]
    /\ prio' = [prio EXCEPT ![k] = 0]
    /\ IF k \in active
       THEN Goto(w, "resignal") /\ UNCHANGED <<active, key>>
       ELSE /\ active' = active \cup {k}
            /\ key' = [key EXCEPT ![w] = k]
            /\ Goto(w, IF Queued = {k} THEN "stat" ELSE "more")
    /\ UNCHANGED <<wait, verifying, verified, life, token, disk, verif, file, answer, owed>>

(* BlobToCache writes a temporary file and renames it.  Its context ends     *)
(* after two minutes or on Stop, possibly after the rename.                  *)
Fetch(w) ==
    /\ pc[w] = "fetch"
    /\ \/ /\ \E f \in File : /\ f.content = "good" /\ Fresh(f)
                             /\ cache' = [cache EXCEPT ![key[w]] = f]
          /\ \/ Goto(w, "record") /\ UNCHANGED locals
             \/ Fail(w)
       \/ Fail(w) /\ UNCHANGED cache
    /\ UNCHANGED <<queue, verifying, verified, life, token, tampers, verif, owed>>

(* Variant: waiters are told of a success only. *)
ReleaseOnSuccess(w, result) ==
    /\ answer' = [t \in Threads |-> IF t \in wait[key[w]] /\ result = "ok" THEN result
                                    ELSE IF t = w THEN "none" ELSE answer[t]]
    /\ wait' = [wait EXCEPT ![key[w]] = {}]

(* finishHydration: answer everyone who waits and give the key up. *)
Release(w, result) ==
    /\ answer' = [t \in Threads |-> IF t \in wait[key[w]] THEN result
                                    ELSE IF t = w THEN "none" ELSE answer[t]]
    /\ wait' = [wait EXCEPT ![key[w]] = {}]

LetGo(w) ==
    /\ active' = active \ {key[w]}
    /\ key' = [key EXCEPT ![w] = NoKey]
    /\ Goto(w, "resignal")

(* Variant: the key is given up before the waiters are taken. *)
FinishSilently(w) ==
    /\ pc[w] = "finish"
    /\ answer' = [answer EXCEPT ![w] = "none"]
    /\ LetGo(w)
    /\ UNCHANGED <<prio, wait, verifying, verified, life, token, disk, verif, file, owed>>

Finish(w) ==
    /\ pc[w] = "finish"
    /\ Release(w, answer[w])
    /\ LetGo(w)
    /\ UNCHANGED <<prio, verifying, verified, life, token, disk, verif, file, owed>>

(* After a successful fetch.  Once stopped nobody is answered: Stop did it. *)
Record(w) ==
    /\ pc[w] = "record"
    /\ IF stopped
       THEN UNCHANGED <<verified, wait, answer>>
       ELSE /\ verified' = [verified EXCEPT
                              ![key[w]] = IF cache[key[w]] = NoFile THEN @ ELSE cache[key[w]]]
            /\ Release(w, "ok")
    /\ LetGo(w)
    /\ UNCHANGED <<prio, verifying, life, token, disk, verif, file, owed>>

-----------------------------------------------------------------------------
(* The cache directory changes under the hydrator.  There are two windows    *)
(* in which the code takes a file it has not looked at for a good one: when  *)
(* a fetch is recorded (the file stat'ed then), and when a positive verdict  *)
(* is about to be given to whoever joined the verification meanwhile.        *)

InWindow(k) ==
    (IF \E w \in Workers : pc[w] = "record" /\ key[w] = k THEN {"record"} ELSE {})
    \cup
    (IF \E v \in Verifiers : /\ verif[v] # NoVerification /\ verif[v].key = k
                             /\ verif[v].stage = "deliver" /\ verif[v].verdict = "ok"
     THEN {"deliver"} ELSE {})

Replace(k) ==
    /\ tampers < MaxTampers /\ InWindow(k) \subseteq TamperWindows
    /\ \E f \in File : /\ f.content \in TamperContents /\ Fresh(f)
                       /\ cache' = [cache EXCEPT ![k] = f]
    /\ tampers' = tampers + 1
    /\ UNCHANGED <<queue, verifying, verified, life, token, verif, pc, locals, owed>>

Remove(k) ==
    /\ tampers < MaxTampers /\ cache[k] # NoFile
    /\ cache' = [cache EXCEPT ![k] = NoFile]
    /\ tampers' = tampers + 1
    /\ UNCHANGED <<queue, verifying, verified, life, token, verif, pc, locals, owed>>

-----------------------------------------------------------------------------
Validate(t) == \/ Stat(t) \/ StatFails(t) \/ Check(t) \/ VerifyOnce(t)
               \/ AwaitVerdict(t) \/ Restat(t) \/ RememberVerified(t)

CallerStep(t) == \/ Enter(t) \/ JoinInflight(t) \/ Admit(t) \/ SignalWork(t)
                 \/ Receive(t) \/ Open(t) \/ Pin(t) \/ ReadThrough(t)

WorkerStep(w) == \/ Wake(w) \/ Exit(w) \/ PopEmpty(w) \/ Fetch(w)
                 \/ Finish(w) \/ Record(w) \/ SignalWork(w)

VerifierStep(v) == RunVerifyBlob(v) \/ CompareFile(v) \/ DeliverVerdict(v)

Next ==
    \/ Start
    \/ Stop
    \/ \E t \in Prefetchers : \/ SignalBatch(t)
                              \/ \E S \in SUBSET Keys, p \in Priorities : EnqueueBatch(t, S, p)
    \/ \E t \in Callers : \/ Cancel(t) \/ CallerStep(t) \/ Validate(t)
                          \/ \E k \in Keys : Call(t, k)
    \/ \E w \in Workers : \/ WorkerStep(w) \/ Validate(w)
                          \/ \E k \in Keys : Pop(w, k)
    \/ \E v \in Verifiers : VerifierStep(v)
    \/ \E k \in Keys : Replace(k) \/ Remove(k)

Spec == Init /\ [][Next]_vars

(* Goroutines run, git answers or is cut off by the two minute deadline, and *)
(* among keys of one priority the heap serves the oldest (EnqueuedAt), so a  *)
(* key that is first in the queue again and again is taken in the end.       *)
(* VerifyOnce waits for a slot only because Verifiers is bounded.            *)
(* Nothing makes anyone call, cancel, stop or touch the cache directory.     *)
Fairness ==
    /\ WF_vars(Start)
    /\ \A t \in Prefetchers : WF_vars(SignalBatch(t))
    /\ \A t \in Callers : WF_vars(CallerStep(t) \/ Validate(t))
    /\ \A w \in Workers : WF_vars(WorkerStep(w) \/ Validate(w) \/ \E k \in Keys : Pop(w, k))
    /\ \A v \in Verifiers : WF_vars(VerifierStep(v))
    /\ \A k \in Keys : SF_vars(\E w \in Workers : Pop(w, k))
    /\ \A t \in Callers \cup Workers : SF_vars(VerifyOnce(t))

FairSpec == Spec /\ Fairness

-----------------------------------------------------------------------------
(* Properties *)

(* Whoever waits for a blob has it in the queue or in a worker's hands: no   *)
(* caller is left on a list nobody will take (EnsureHydrated, step, Stop).   *)
WaitersServed ==
    ~stopped => \A k \in Keys : wait[k] # {} => k \in Queued \cup active

(* A blob a reader waits for is never queued at a speculative priority.      *)
NoPriorityInversion ==
    \A k \in Queued : wait[k] # {} => prio[k] = ExplicitRead

(* Each fetch has one owner: the active keys are exactly those in the hands  *)
(* of a worker, no two workers hold the same one, and a key that is being    *)
(* fetched is not also queued to be fetched again (enqueueLocked, step).     *)
OneFetchPerKey ==
    /\ active = {key[w] : w \in {u \in Workers : pc[u] \in WorkerHolds}}
    /\ \A u, w \in Workers :
          u # w /\ pc[u] \in WorkerHolds /\ pc[w] \in WorkerHolds => key[u] # key[w]
    /\ active \cap Queued = {}

(* Queued work is never forgotten: workReady holds its signal, or someone is *)
(* about to send one, or some worker is still draining (signalWork).         *)
WorkNotForgotten ==
    Queued # {} =>
      \/ token
      \/ \E t \in Callers : pc[t] = "signal"
      \/ \E t \in Prefetchers : owed[t] > 0
      \/ \E w \in Workers : pc[w] \in WorkerHolds \cup {"pop", "resignal"}

(* A file remembered as verified holds the bytes of its object.              *)
VerifiedIsGenuine ==
    \A k \in Keys : verified[k] # NoFile => verified[k].content = "good"

(* So does every file an open returned, whatever happened to the path since. *)
OpenedIsGenuine ==
    \A t \in Callers :
        pc[t] = "idle" /\ file[t] # NoFile => file[t].content = "good"

(* A call on a running hydrator returns: it finds the blob, gets an error or *)
(* is told of the failed fetch, but is never left waiting.                   *)
EveryCallReturns ==
    \A t \in Callers : pc[t] # "idle" ~> (pc[t] = "idle" \/ stopped)

(* Stop returns: every worker and every verification ends.                   *)
StopReturns == stopped ~> StopReturned

=============================================================================
