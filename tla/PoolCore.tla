------------------------------ MODULE PoolCore ------------------------------
(***************************************************************************)
(* The data plane of an ants pool: callers of submit, worker threads, the  *)
(* scavenger thread, tune() and release(), interleaved at the granularity  *)
(* of one atomic access or one critical section.                           *)
(*                                                                         *)
(* What each thread holds on to between two of its steps is state here; a  *)
(* critical section whose inner steps commute with everything the other    *)
(* threads can do meanwhile is one action.  reboot(), release_context()    *)
(* and the ticktock thread are not part of this module.                    *)
(***************************************************************************)
EXTENDS Integers, Sequences, SequencesExt, FiniteSets

CONSTANTS
  Callers,           \* threads that call Pool::submit
  Workers,           \* GoWorker objects that can be allocated
  Tuners,            \* threads that call Pool::tune
  MaxCalls,          \* bound: submissions per caller
  Size,              \* capacity given to the constructor, -1 when unlimited
  TuneSizes,         \* sizes the tuners ask for
  PreAlloc,          \* Options::pre_alloc: ring buffer instead of stack
  DisablePurge,      \* Options::disable_purge
  Nonblocking,       \* Options::nonblocking
  MaxBlockingTasks,  \* Options::max_blocking_tasks, any i32; 0 for no limit
  ChanCap,           \* slots of a worker channel: 0 (one CPU) or 1
  Outcomes,          \* how payloads may end: "ok", "stop" (nil), "panic"
  MayRelease,        \* whether some thread calls release()
  Finish,            \* Message::Finish
  None               \* no worker, no task

Tasks == Callers \X (1..MaxCalls)

ASSUME PoolCoreAssumption ==
  /\ IsFiniteSet(Callers)
  /\ IsFiniteSet(Workers)
  /\ MaxCalls \in Nat
  /\ Size \in Int /\ (Size = -1 \/ Size > 0)
  /\ TuneSizes \subseteq Int
  /\ PreAlloc \in BOOLEAN /\ (PreAlloc => Size > 0)
  /\ DisablePurge \in BOOLEAN
  /\ Nonblocking \in BOOLEAN
  /\ MaxBlockingTasks \in Int
  /\ ChanCap \in {0, 1}
  /\ Outcomes \subseteq {"ok", "stop", "panic"}
  /\ MayRelease \in BOOLEAN
  /\ Finish \notin Tasks
  /\ Callers \cap Workers = {}
  /\ None \notin Workers /\ None \notin Tasks

VARIABLES
  state,       \* PoolCore::state, "OPENED" or "CLOSED"
  capacity,    \* PoolCore::capacity
  running,     \* PoolCore::running
  waiting,     \* PoolCore::waiting
  locked,      \* SpinLock::state of PoolCore::lock
  items,       \* the idle workers, the queue that the lock protects
  tokens,      \* Cond: wake-up tokens issued and not consumed
  released,    \* Cond: parked callers whose generation has moved on
  allDone,     \* PoolCore::all_done is closed
  pc,          \* where each caller is in submit
  hand,        \* the worker a caller has retrieved and not yet fed
  calls,       \* how many submissions each caller has started
  seen,        \* the capacity a thread has read and not yet compared, or 0
  task,        \* what has become of each submitted task
  wpc,         \* where each worker object, or the thread behind it, is
  chan,        \* contents of each worker's channel
  cur,         \* the task each worker is executing
  signalling,  \* threads past recycle() that have yet to signal the cond
  ppc,         \* where the scavenger thread is
  stale,       \* workers the scavenger has taken out and not yet finished
  dormant,     \* purge_stale_workers' is_dormant
  rpc,         \* where the releasing thread is
  tuner        \* where each tuner is, with what it read and what it wants

coreVars   == <<state, capacity, running, waiting, locked, items, allDone>>
condVars   == <<tokens, released>>
callerVars == <<pc, hand, calls>>
workerVars == <<wpc, chan, cur, signalling>>
purgeVars  == <<ppc, stale, dormant>>
vars == <<coreVars, condVars, callerVars, seen, task, workerVars, purgeVars,
          rpc, tuner>>

CallerPC == {"idle", "locking", "check", "spawn", "register", "parked",
             "woken", "send"}
WorkerPC == {"fresh", "cached", "recv", "run", "revert", "shed", "insert",
             "exit", "last", "gone"}
TaskPhase == {"unsubmitted", "submitting", "accepted", "rejected",
              "executing", "executed"}

CoreTypeOK ==
  /\ state \in {"OPENED", "CLOSED"}
  /\ capacity \in Int
  /\ running \in Int
  /\ waiting \in Int
  /\ locked \in BOOLEAN
  /\ items \in Seq(Workers)
  /\ allDone \in BOOLEAN

CondTypeOK ==
  /\ tokens \in Nat
  /\ released \in SUBSET Callers

CallerTypeOK ==
  /\ pc \in [Callers -> CallerPC]
  /\ hand \in [Callers -> Workers \cup {None}]
  /\ calls \in [Callers -> 0..MaxCalls]
  /\ \A c \in Callers : pc[c] # "idle" => calls[c] > 0
  /\ task \in [Tasks -> TaskPhase]

WorkerTypeOK ==
  /\ wpc \in [Workers -> WorkerPC]
  /\ chan \in [Workers -> SUBSET (Tasks \cup {Finish})]
  /\ cur \in [Workers -> Tasks \cup {None}]
  /\ signalling \in Nat
  /\ seen \in [Callers \cup Workers -> Int]

OtherTypeOK ==
  /\ ppc \in {"tick", "scan", "finish", "done", "off"}
  /\ stale \in Seq(Workers)
  /\ dormant \in BOOLEAN
  /\ rpc \in {"open", "lock", "reset", "broadcast", "check", "done", "off"}
  /\ tuner \in [Tuners -> [at   : {"idle", "store", "signal", "broadcast",
                                   "done"},
                           seen : Int,
                           want : Int]]

TypeOK ==
  CoreTypeOK /\ CondTypeOK /\ CallerTypeOK /\ WorkerTypeOK /\ OtherTypeOK

Init ==
  /\ state = "OPENED"
  /\ capacity = Size
  /\ running = 0
  /\ waiting = 0
  /\ locked = FALSE
  /\ items = <<>>
  /\ tokens = 0
  /\ released = {}
  /\ allDone = FALSE
  /\ pc = [c \in Callers |-> "idle"]
  /\ hand = [c \in Callers |-> None]
  /\ calls = [c \in Callers |-> 0]
  /\ seen = [x \in Callers \cup Workers |-> 0]
  /\ task = [t \in Tasks |-> "unsubmitted"]
  /\ wpc = [w \in Workers |-> "fresh"]
  /\ chan = [w \in Workers |-> {}]
  /\ cur = [w \in Workers |-> None]
  /\ signalling = 0
  /\ ppc = IF DisablePurge THEN "off" ELSE "tick"
  /\ stale = <<>>
  /\ dormant = FALSE
  /\ rpc = IF MayRelease THEN "open" ELSE "off"
  /\ tuner = [t \in Tuners |-> [at |-> "idle", seen |-> 0, want |-> 0]]

-----------------------------------------------------------------------------
(* The condition variable.  Its counter of parked threads is the number of *)
(* callers in wait(); a caller is in "released" when a broadcast has       *)
(* happened since it registered, which is what comparing its generation    *)
(* with the current one tells.                                             *)

Parked == {c \in Callers : pc[c] = "parked"}

(* Mutant: signal without counting who is parked. *)
SignalUncounted == tokens' = tokens + 1 /\ UNCHANGED released

Signal ==
  /\ tokens' = IF Cardinality(Parked) > tokens THEN tokens + 1 ELSE tokens
  /\ UNCHANGED released

Broadcast ==
  /\ released' = Parked
  /\ tokens' = IF Parked # {} THEN 0 ELSE tokens

(* The spin lock.  Whoever finds its word taken yields for a while and     *)
(* tries again, which is waiting for it to be free; being granted the lock *)
(* and taking it is one compare-exchange.                                  *)
LockFree == ~locked
Lock == locked' = TRUE
Unlock == locked' = FALSE

(* The idle queue: the stack gives out the worker parked last, the ring    *)
(* buffer the one parked first; only the ring buffer can be full.          *)

Detached == IF PreAlloc THEN Head(items) ELSE Last(items)
RemainingPeeked == items
Remaining == IF PreAlloc THEN Tail(items) ELSE Front(items)
QueueIsFull == PreAlloc /\ Len(items) = Size

(* Worker channels have at most one slot.  A rendezvous channel takes a    *)
(* message only when its receiver is there to take it.                     *)
CanSend(w) == chan[w] = {} /\ (ChanCap = 0 => wpc[w] = "recv")

(* fetch_cached_worker: a recycled worker if there is one, a new one       *)
(* otherwise.                                                              *)
Cached == {w \in Workers : wpc[w] = "cached"}
Fetchable == IF Cached # {} THEN Cached
             ELSE {w \in Workers : wpc[w] = "fresh"}

IsClosed == state = "CLOSED"

(* The task of the call that caller c is in. *)
Current(c) == <<c, calls[c]>>

-----------------------------------------------------------------------------
(* submit: try_submit, retrieve_worker, input.                             *)

(* try_submit's early return, or the call of retrieve_worker. *)
TrySubmit(c) ==
  /\ pc[c] = "idle"
  /\ calls[c] < MaxCalls
  /\ calls' = [calls EXCEPT ![c] = @ + 1]
  /\ \/ /\ IsClosed
        /\ task' = [task EXCEPT ![<<c, calls[c] + 1>>] = "rejected"]
        /\ pc' = pc
     \/ /\ ~IsClosed
        /\ task' = [task EXCEPT ![<<c, calls[c] + 1>>] = "submitting"]
        /\ pc' = [pc EXCEPT ![c] = "locking"]
  /\ UNCHANGED <<coreVars, condVars, hand, seen, workerVars, purgeVars, rpc,
                 tuner>>

(* The head of retrieve_worker's loop, entered with the lock: leave with   *)
(* an idle worker, or read the capacity and go on, still holding the lock. *)
DetachOrCheck(c) ==
  \/ /\ items # <<>>
     /\ hand' = [hand EXCEPT ![c] = Detached]
     /\ items' = Remaining
     /\ pc' = [pc EXCEPT ![c] = "send"]
     /\ Unlock
     /\ UNCHANGED seen
  \/ /\ items = <<>>
     /\ pc' = [pc EXCEPT ![c] = "check"]
     /\ seen' = [seen EXCEPT ![c] = capacity]
     /\ Lock
     /\ UNCHANGED <<hand, items>>

Acquire(c) ==
  /\ pc[c] = "locking"
  /\ LockFree
  /\ DetachOrCheck(c)
  /\ UNCHANGED <<state, capacity, running, waiting, allDone, condVars, calls,
                 task, workerVars, purgeVars, rpc, tuner>>

(* capacity == -1 || capacity > running, with the capacity read before *)
HasRoomForOneMore(c) == seen[c] = -1 \/ seen[c] >= running   \* mutant
HasRoom(c) == seen[c] = -1 \/ seen[c] > running

(* Mutant: the lock is dropped between the check and the spawn. *)
FindRoomUnlocked(c) ==
  /\ pc[c] = "check"
  /\ HasRoom(c)
  /\ pc' = [pc EXCEPT ![c] = "spawn"]
  /\ seen' = [seen EXCEPT ![c] = 0]
  /\ Unlock
  /\ UNCHANGED <<state, capacity, running, waiting, items, allDone, condVars,
                 hand, calls, task, workerVars, purgeVars, rpc, tuner>>

FindRoom(c) ==
  /\ pc[c] = "check"
  /\ HasRoom(c)
  /\ pc' = [pc EXCEPT ![c] = "spawn"]
  /\ seen' = [seen EXCEPT ![c] = 0]
  /\ UNCHANGED <<coreVars, condVars, hand, calls, task, workerVars, purgeVars,
                 rpc, tuner>>

(* Mutant: one waiter too many. *)
OverloadedByTwo ==
  Nonblocking \/ (MaxBlockingTasks # 0 /\ waiting > MaxBlockingTasks)

(* nonblocking, or as many callers blocked already as may be *)
Overloaded ==
  Nonblocking \/ (MaxBlockingTasks # 0 /\ waiting >= MaxBlockingTasks)

RefuseOverload(c) ==
  /\ pc[c] = "check"
  /\ ~HasRoom(c)
  /\ Overloaded
  /\ task' = [task EXCEPT ![Current(c)] = "rejected"]
  /\ pc' = [pc EXCEPT ![c] = "idle"]
  /\ Unlock
  /\ seen' = [seen EXCEPT ![c] = 0]
  /\ UNCHANGED <<state, capacity, running, waiting, items, allDone, condVars,
                 hand, calls, workerVars, purgeVars, rpc, tuner>>

BecomeWaiter(c) ==
  /\ pc[c] = "check"
  /\ ~HasRoom(c)
  /\ ~Overloaded
  /\ waiting' = waiting + 1
  /\ pc' = [pc EXCEPT ![c] = "register"]
  /\ seen' = [seen EXCEPT ![c] = 0]
  /\ UNCHANGED <<state, capacity, running, locked, items, allDone, condVars,
                 hand, calls, task, workerVars, purgeVars, rpc, tuner>>

(* worker::run, called with the lock, which is dropped afterwards. *)
Spawn(c) ==
  /\ pc[c] = "spawn"
  /\ \E w \in Fetchable :
       /\ wpc' = [wpc EXCEPT ![w] = "recv"]
       /\ hand' = [hand EXCEPT ![c] = w]
  /\ running' = running + 1
  /\ pc' = [pc EXCEPT ![c] = "send"]
  /\ Unlock
  /\ UNCHANGED <<state, capacity, waiting, items, allDone, condVars, calls,
                 seen, task, chan, cur, signalling, purgeVars, rpc, tuner>>

(* Cond::wait up to the first time it blocks: register, drop the guard,    *)
(* and take a pending token, whoever it was issued for.                    *)
Register(c) ==
  /\ pc[c] = "register"
  /\ Unlock
  /\ \/ /\ tokens > 0
        /\ tokens' = tokens - 1
        /\ pc' = [pc EXCEPT ![c] = "woken"]
     \/ /\ tokens = 0
        /\ pc' = [pc EXCEPT ![c] = "parked"]
        /\ UNCHANGED tokens
  /\ UNCHANGED <<state, capacity, running, waiting, items, allDone, released,
                 hand, calls, seen, task, workerVars, purgeVars, rpc, tuner>>

(* Mutant: a token is consumed on both ways out of wait(). *)
WakeConsuming(c) ==
  /\ pc[c] = "parked"
  /\ tokens > 0 \/ c \in released
  /\ tokens' = tokens - 1
  /\ released' = released \ {c}
  /\ pc' = [pc EXCEPT ![c] = "woken"]
  /\ UNCHANGED <<coreVars, hand, calls, seen, task, workerVars, purgeVars,
                 rpc, tuner>>

(* The rest of Cond::wait: a token is looked at before the generation. *)
Wake(c) ==
  /\ pc[c] = "parked"
  /\ \/ /\ tokens > 0
        /\ tokens' = tokens - 1
     \/ /\ tokens = 0
        /\ c \in released
        /\ UNCHANGED tokens
  /\ released' = released \ {c}
  /\ pc' = [pc EXCEPT ![c] = "woken"]
  /\ UNCHANGED <<coreVars, hand, calls, seen, task, workerVars, purgeVars,
                 rpc, tuner>>

(* Mutant: a caller who finds the pool closed stays counted as waiting. *)
ResumeCounted(c) ==
  /\ pc[c] = "woken"
  /\ LockFree
  /\ \/ /\ IsClosed
        /\ task' = [task EXCEPT ![Current(c)] = "rejected"]
        /\ pc' = [pc EXCEPT ![c] = "idle"]
        /\ UNCHANGED <<hand, items, locked, seen, waiting>>
     \/ /\ ~IsClosed
        /\ DetachOrCheck(c)
        /\ waiting' = waiting - 1
        /\ UNCHANGED task
  /\ UNCHANGED <<state, capacity, running, allDone, condVars, calls,
                 workerVars, purgeVars, rpc, tuner>>

(* Back from Cond::wait with the lock: give up if the pool has been closed *)
(* meanwhile, start over otherwise.                                        *)
Resume(c) ==
  /\ pc[c] = "woken"
  /\ LockFree
  /\ waiting' = waiting - 1
  /\ \/ /\ IsClosed
        /\ task' = [task EXCEPT ![Current(c)] = "rejected"]
        /\ pc' = [pc EXCEPT ![c] = "idle"]
        /\ UNCHANGED <<hand, items, locked, seen>>
     \/ /\ ~IsClosed
        /\ DetachOrCheck(c)
        /\ UNCHANGED task
  /\ UNCHANGED <<state, capacity, running, allDone, condVars, calls,
                 workerVars, purgeVars, rpc, tuner>>

(* GoWorker::input, after which submit returns Ok. *)
Send(c) ==
  /\ pc[c] = "send"
  /\ CanSend(hand[c])
  /\ chan' = [chan EXCEPT ![hand[c]] = {Current(c)}]
  /\ task' = [task EXCEPT ![Current(c)] = "accepted"]
  /\ hand' = [hand EXCEPT ![c] = None]
  /\ pc' = [pc EXCEPT ![c] = "idle"]
  /\ UNCHANGED <<coreVars, condVars, calls, seen, wpc, cur, signalling,
                 purgeVars, rpc, tuner>>

-----------------------------------------------------------------------------
(* The worker thread: worker::work and revert_worker.                      *)

(* Mutant: a payload that arrives after the pool has been closed is dropped *)
(* and the worker stops.                                                   *)
ReceiveIfOpen(w) ==
  /\ wpc[w] = "recv"
  /\ \E m \in chan[w] :
       /\ chan' = [chan EXCEPT ![w] = @ \ {m}]
       /\ \/ /\ m = Finish \/ IsClosed
             /\ wpc' = [wpc EXCEPT ![w] = "exit"]
             /\ UNCHANGED <<cur, task>>
          \/ /\ m # Finish
             /\ ~IsClosed
             /\ wpc' = [wpc EXCEPT ![w] = "run"]
             /\ cur' = [cur EXCEPT ![w] = m]
             /\ task' = [task EXCEPT ![m] = "executing"]
  /\ UNCHANGED <<coreVars, condVars, callerVars, seen, signalling, purgeVars,
                 rpc, tuner>>

(* recv: stop on Finish, run a payload. *)
Receive(w) ==
  /\ wpc[w] = "recv"
  /\ \E m \in chan[w] :
       /\ chan' = [chan EXCEPT ![w] = @ \ {m}]
       /\ \/ /\ m = Finish
             /\ wpc' = [wpc EXCEPT ![w] = "exit"]
             /\ UNCHANGED <<cur, task>>
          \/ /\ m # Finish
             /\ wpc' = [wpc EXCEPT ![w] = "run"]
             /\ cur' = [cur EXCEPT ![w] = m]
             /\ task' = [task EXCEPT ![m] = "executing"]
  /\ UNCHANGED <<coreVars, condVars, callerVars, seen, signalling, purgeVars,
                 rpc, tuner>>

(* call() comes back for other reasons than a payload that has returned:   *)
(* it was the stop sentinel, or it panicked.                               *)
MayStop == Outcomes \ {"ok"} # {}

(* call returns: on to revert_worker, which reads the capacity first, or   *)
(* out of the loop after a nil payload or a panic.                         *)
Return(w) ==
  /\ wpc[w] = "run"
  /\ \/ /\ "ok" \in Outcomes
        /\ wpc' = [wpc EXCEPT ![w] = "revert"]
        /\ seen' = [seen EXCEPT ![w] = capacity]
     \/ /\ MayStop
        /\ wpc' = [wpc EXCEPT ![w] = "exit"]
        /\ UNCHANGED seen
  /\ task' = [task EXCEPT ![cur[w]] = "executed"]
  /\ cur' = [cur EXCEPT ![w] = None]
  /\ UNCHANGED <<coreVars, condVars, callerVars, chan, signalling, purgeVars,
                 rpc, tuner>>

(* A worker the pool has no use for: more workers than the capacity read   *)
(* before, or closed.                                                      *)
Surplus(w) == (seen[w] > 0 /\ running > seen[w]) \/ IsClosed

Revert(w) ==
  /\ wpc[w] = "revert"
  /\ wpc' = [wpc EXCEPT ![w] = IF Surplus(w) THEN "shed" ELSE "insert"]
  /\ seen' = [seen EXCEPT ![w] = 0]
  /\ UNCHANGED <<coreVars, condVars, callerVars, task, chan, cur, signalling,
                 purgeVars, rpc, tuner>>

(* Mutant: a refused worker is taken off the count here and when it exits. *)
ShedCounted(w) ==
  /\ wpc[w] = "shed"
  /\ Broadcast
  /\ running' = running - 1
  /\ wpc' = [wpc EXCEPT ![w] = "exit"]
  /\ UNCHANGED <<state, capacity, waiting, locked, items, allDone, callerVars,
                 seen, task, chan, cur, signalling, purgeVars, rpc, tuner>>

(* revert_worker's first refusal wakes every blocked caller up. *)
Shed(w) ==
  /\ wpc[w] = "shed"
  /\ Broadcast
  /\ wpc' = [wpc EXCEPT ![w] = "exit"]
  /\ UNCHANGED <<coreVars, callerVars, seen, task, chan, cur, signalling,
                 purgeVars, rpc, tuner>>

(* The second half of revert_worker: under the lock, check again whether   *)
(* the pool is closed, insert, and signal.                                 *)
RefusedUnchecked == QueueIsFull   \* mutant: no double check
Refused == IsClosed \/ QueueIsFull

Insert(w) ==
  /\ wpc[w] = "insert"
  /\ LockFree
  /\ \/ /\ Refused
        /\ wpc' = [wpc EXCEPT ![w] = "exit"]
        /\ UNCHANGED <<items, condVars>>
     \/ /\ ~Refused
        /\ items' = Append(items, w)
        /\ Signal
        /\ wpc' = [wpc EXCEPT ![w] = "recv"]
  /\ UNCHANGED <<state, capacity, running, waiting, locked, allDone,
                 callerVars, seen, task, chan, cur, signalling, purgeVars,
                 rpc, tuner>>

(* The epilogue: account for the exit ...                                  *)
Depart(w) ==
  /\ wpc[w] = "exit"
  /\ running' = running - 1
  /\ wpc' = [wpc EXCEPT ![w] = IF running = 1 THEN "last" ELSE "gone"]
  /\ UNCHANGED <<state, capacity, waiting, locked, items, allDone, condVars,
                 callerVars, seen, task, chan, cur, signalling, purgeVars,
                 rpc, tuner>>

LastOut(w) == wpc[w] = "last" /\ IsClosed

(* ... close the latch if this was the last worker of a closed pool, put   *)
(* the worker object into the cache ...                                    *)
Recycle(w) ==
  /\ wpc[w] \in {"last", "gone"}
  /\ allDone' = (allDone \/ LastOut(w))
  /\ wpc' = [wpc EXCEPT ![w] = "cached"]
  /\ signalling' = signalling + 1
  /\ UNCHANGED <<state, capacity, running, waiting, locked, items, condVars,
                 callerVars, seen, task, chan, cur, purgeVars, rpc, tuner>>

(* ... and, no longer holding on to any worker object, signal the cond.    *)
ExitSignal ==
  /\ signalling > 0
  /\ signalling' = signalling - 1
  /\ Signal
  /\ UNCHANGED <<coreVars, callerVars, seen, task, wpc, chan, cur, purgeVars,
                 rpc, tuner>>

-----------------------------------------------------------------------------
(* The scavenger thread: purge_stale_workers.                              *)

(* A tick, or the cancellation of the context; both end in is_closed().    *)
PurgeTick ==
  /\ ppc = "tick"
  /\ ppc' = IF IsClosed THEN "done" ELSE "scan"
  /\ UNCHANGED <<coreVars, condVars, callerVars, seen, task, workerVars,
                 stale, dormant, rpc, tuner>>

(* refresh() under the lock: the first n idle workers have expired.  Any   *)
(* prefix may have, since time is not part of this model.                  *)
Expired(n) == SubSeq(items, 1, n)
UnexpiredAndOne(n) == SubSeq(items, IF n = 0 THEN 1 ELSE n, Len(items))
Unexpired(n) == SubSeq(items, n + 1, Len(items))
NotDormant(n) == FALSE   \* mutant: nobody is woken up after a purge
IsDormant(n) == running = 0 \/ running = n

PurgeScan ==
  /\ ppc = "scan"
  /\ LockFree
  /\ \E n \in 0..Len(items) :
       /\ stale' = Expired(n)
       /\ items' = Unexpired(n)
       /\ dormant' = IsDormant(n)
  /\ ppc' = "finish"
  /\ UNCHANGED <<state, capacity, running, waiting, locked, allDone, condVars,
                 callerVars, seen, task, workerVars, rpc, tuner>>

PurgeFinish ==
  /\ ppc = "finish"
  /\ stale # <<>>
  /\ CanSend(Head(stale))
  /\ chan' = [chan EXCEPT ![Head(stale)] = {Finish}]
  /\ stale' = Tail(stale)
  /\ UNCHANGED <<coreVars, condVars, callerVars, seen, task, wpc, cur,
                 signalling, ppc, dormant, rpc, tuner>>

(* Awake the invokers when no worker is left that would.                   *)
PurgeAwake ==
  /\ ppc = "finish"
  /\ stale = <<>>
  /\ IF dormant /\ waiting > 0 THEN Broadcast ELSE UNCHANGED condVars
  /\ ppc' = "tick"
  /\ dormant' = FALSE
  /\ UNCHANGED <<coreVars, callerVars, seen, task, workerVars, stale, rpc,
                 tuner>>

-----------------------------------------------------------------------------
(* release.                                                                *)

ReleaseClose ==
  /\ rpc = "open"
  /\ state' = "CLOSED"
  /\ rpc' = "lock"
  /\ UNCHANGED <<capacity, running, waiting, locked, items, allDone, condVars,
                 callerVars, seen, task, workerVars, purgeVars, tuner>>

ReleaseLock ==
  /\ rpc = "lock"
  /\ LockFree
  /\ Lock
  /\ rpc' = "reset"
  /\ UNCHANGED <<state, capacity, running, waiting, items, allDone, condVars,
                 callerVars, seen, task, workerVars, purgeVars, tuner>>

(* WorkerQueue::reset: finish every idle worker, with the lock held ...    *)
ResetOne ==
  /\ rpc = "reset"
  /\ items # <<>>
  /\ CanSend(Head(items))
  /\ chan' = [chan EXCEPT ![Head(items)] = {Finish}]
  /\ items' = Tail(items)
  /\ UNCHANGED <<state, capacity, running, waiting, locked, allDone, condVars,
                 callerVars, seen, task, wpc, cur, signalling, purgeVars, rpc,
                 tuner>>

(* ... and drop it. *)
ReleaseUnlock ==
  /\ rpc = "reset"
  /\ items = <<>>
  /\ Unlock
  /\ rpc' = "broadcast"
  /\ UNCHANGED <<state, capacity, running, waiting, items, allDone, condVars,
                 callerVars, seen, task, workerVars, purgeVars, tuner>>

(* Mutant: release() wakes up one waiter. *)
ReleaseSignals ==
  /\ rpc = "broadcast"
  /\ Signal
  /\ rpc' = "check"
  /\ UNCHANGED <<coreVars, callerVars, seen, task, workerVars, purgeVars,
                 tuner>>

ReleaseBroadcast ==
  /\ rpc = "broadcast"
  /\ Broadcast
  /\ rpc' = "check"
  /\ UNCHANGED <<coreVars, callerVars, seen, task, workerVars, purgeVars,
                 tuner>>

(* Mutant: closing the latch is left to the last worker in any case. *)
ReleaseUnchecked ==
  /\ rpc = "check"
  /\ rpc' = "done"
  /\ UNCHANGED <<coreVars, condVars, callerVars, seen, task, workerVars,
                 purgeVars, tuner>>

(* Close the latch here if no worker is left to do it.                     *)
ReleaseCheck ==
  /\ rpc = "check"
  /\ allDone' = (allDone \/ running = 0)
  /\ rpc' = "done"
  /\ UNCHANGED <<state, capacity, running, waiting, locked, items, condVars,
                 callerVars, seen, task, workerVars, purgeVars, tuner>>

-----------------------------------------------------------------------------
(* tune: read the capacity, store the new one, wake callers up if it grew. *)

NoTuning(size) ==
  capacity = -1 \/ size <= 0 \/ size = capacity \/ PreAlloc

TuneRead(t) ==
  /\ tuner[t].at = "idle"
  /\ \E size \in TuneSizes :
       tuner' = [tuner EXCEPT ![t] =
                   [at   |-> IF NoTuning(size) THEN "done" ELSE "store",
                    seen |-> capacity,
                    want |-> size]]
  /\ UNCHANGED <<coreVars, condVars, callerVars, seen, task, workerVars,
                 purgeVars, rpc>>

(* By how much the capacity grew decides whom to wake up. *)
Wakeup(old, want) ==
  IF want <= old THEN "done"
  ELSE IF want - old = 1 THEN "signal" ELSE "broadcast"

TuneStore(t) ==
  /\ tuner[t].at = "store"
  /\ capacity' = tuner[t].want
  /\ tuner' = [tuner EXCEPT ![t].at = Wakeup(tuner[t].seen, tuner[t].want)]
  /\ UNCHANGED <<state, running, waiting, locked, items, allDone, condVars,
                 callerVars, seen, task, workerVars, purgeVars, rpc>>

TuneNotify(t) ==
  /\ \/ tuner[t].at = "signal" /\ Signal
     \/ tuner[t].at = "broadcast" /\ Broadcast
  /\ tuner' = [tuner EXCEPT ![t].at = "done"]
  /\ UNCHANGED <<coreVars, callerVars, seen, task, workerVars, purgeVars,
                 rpc>>

-----------------------------------------------------------------------------
(* What a caller does inside of submit, as opposed to calling it. *)
CallerStep(c) ==
  \/ Acquire(c) \/ FindRoom(c) \/ RefuseOverload(c) \/ BecomeWaiter(c)
  \/ Spawn(c) \/ Register(c) \/ Wake(c) \/ Resume(c) \/ Send(c)

WorkerStep(w) ==
  \/ Receive(w) \/ Return(w) \/ Revert(w) \/ Shed(w) \/ Insert(w)
  \/ Depart(w) \/ Recycle(w)

PurgeStep == PurgeTick \/ PurgeScan \/ PurgeFinish \/ PurgeAwake

ReleaseStep ==
  \/ ReleaseLock \/ ResetOne \/ ReleaseUnlock \/ ReleaseBroadcast
  \/ ReleaseCheck

TuneStep(t) == TuneStore(t) \/ TuneNotify(t)

Next ==
  \/ \E c \in Callers : TrySubmit(c) \/ CallerStep(c)
  \/ \E w \in Workers : WorkerStep(w)
  \/ ExitSignal
  \/ PurgeStep
  \/ ReleaseClose \/ ReleaseStep
  \/ \E t \in Tuners : TuneRead(t) \/ TuneStep(t)

Spec == Init /\ [][Next]_vars

-----------------------------------------------------------------------------
(* Invariants.                                                             *)

(* The workers that running counts: from worker::run's add_running(1) to   *)
(* the add_running(-1) of the epilogue.                                    *)
Live == {w \in Workers : wpc[w] \in {"recv", "run", "revert", "shed",
                                     "insert", "exit"}}

(* running is the number of live workers however they came and went:       *)
(* spawned under the lock, stopped, refused, panicked or purged.           *)
RunningIsLive == running = Cardinality(Live)

(* The spin lock is held exactly while one thread is inside of             *)
(* retrieve_worker's check-then-spawn or check-then-register, or release   *)
(* is resetting the queue, and never by two of them.                       *)
InCritical(c) == pc[c] \in {"check", "spawn", "register"}

LockExclusive ==
  /\ locked <=> (\E c \in Callers : InCritical(c)) \/ rpc = "reset"
  /\ \A c, d \in Callers : InCritical(c) /\ InCritical(d) => c = d
  /\ \A c \in Callers : InCritical(c) => rpc # "reset"

(* The capacities that a pool can have in its life: a pre-allocated one is *)
(* never tuned, and only a positive size is a size to tune to.             *)
Asked ==
  {Size} \cup (IF PreAlloc THEN {} ELSE {n \in TuneSizes : n > 0})

(* retrieve_worker never spawns past the capacity, although it reads the   *)
(* counters one by one while workers exit and tune() stores new sizes: a   *)
(* bounded pool never runs more workers than the largest capacity that was *)
(* ever asked for.                                                         *)
CapacityRespected ==
  Size = -1 \/ \E n \in Asked : running <= n

(* waiting is the number of callers between add_waiting(1) and             *)
(* add_waiting(-1), and max_blocking_tasks bounds it whatever the callers  *)
(* and the wake-ups do.                                                    *)
WaitingExact ==
  waiting = Cardinality({c \in Callers :
                           pc[c] \in {"register", "parked", "woken"}})

WaitingBounded ==
  /\ MaxBlockingTasks > 0 => waiting <= MaxBlockingTasks
  /\ Nonblocking \/ MaxBlockingTasks < 0 => waiting = 0

(* Cond never has more tokens than parked callers, so that none is left    *)
(* over to wake a caller who parks later for no reason.                    *)
NoStrayToken == tokens <= Cardinality(Parked)

(* A worker that waits for a message has one in its channel or is held at  *)
(* exactly one place, the idle queue, the scavenger's list or a caller's   *)
(* hand; a worker held anywhere waits with an empty channel.  It is what   *)
(* lets finish() and input() send without ever finding the slot taken, and *)
(* keeps a worker from getting two payloads.                               *)
Waits(w) == wpc[w] = "recv" /\ chan[w] = {}

Held(w) ==
  \/ w \in Range(items) \cup Range(stale)
  \/ \E c \in Callers : hand[c] = w

SoleOwner ==
  /\ IsInjective(items) /\ IsInjective(stale)
  /\ Range(items) \cap Range(stale) = {}
  /\ \A c \in Callers : hand[c] \notin Range(items) \cup Range(stale)
  /\ \A c, d \in Callers : hand[c] = hand[d] => c = d \/ hand[c] = None
  /\ \A w \in Workers : Held(w) <=> Waits(w)

(* A task whose submit returned Ok is in the channel of one live worker    *)
(* until that worker takes it, then it is executed by that worker alone; a *)
(* task that was refused never gets to a worker.                           *)
ExactlyOnce ==
  \A t \in Tasks :
    /\ IF task[t] = "accepted"
         THEN \E w \in Workers :
                wpc[w] = "recv" /\ {v \in Workers : t \in chan[v]} = {w}
         ELSE \A v \in Workers : t \notin chan[v]
    /\ IF task[t] = "executing"
         THEN \E w \in Workers :
                wpc[w] = "run" /\ {v \in Workers : cur[v] = t} = {w}
         ELSE \A v \in Workers : cur[v] # t

(* Once release() has reset the queue no worker gets parked in it again,   *)
(* where nothing would ever stop it: revert_worker's double check.         *)
ClosedQueueEmpty == rpc \in {"broadcast", "check", "done"} => items = <<>>

(* Between release() and the last worker somebody closes all_done: once    *)
(* release() is through and no worker is left, it is closed or a worker is *)
(* just about to close it.                                                 *)
LatchCloses ==
  rpc = "done" /\ running = 0
    => allDone \/ \E w \in Workers : wpc[w] = "last"

(* A pre-allocated queue has a slot for every worker that can be reverted, *)
(* so insert never fails with QueueIsFull.                                 *)
NeverFull ==
  \A w \in Workers : wpc[w] = "insert" => ~QueueIsFull

(* A send never waits: not a caller's input(), not the scavenger's         *)
(* finish(), nor the finish() in reset(), which runs with the spin lock    *)
(* held and would hold up every other thread.                              *)
SendsNeverWait ==
  /\ \A c \in Callers : pc[c] = "send" => CanSend(hand[c])
  /\ ppc = "finish" /\ stale # <<>> => CanSend(Head(stale))
  /\ rpc = "reset" /\ items # <<>> => CanSend(Head(items))

-----------------------------------------------------------------------------
(* Every thread that is inside of the pool's code keeps running and the    *)
(* ticker keeps ticking; nobody has to call submit, release or tune.  Weak *)
(* fairness is all the spin lock gives: a contender may be overtaken.      *)
ThreadFairness ==
  /\ \A c \in Callers : WF_vars(CallerStep(c))
  /\ WF_vars(ExitSignal)
  /\ WF_vars(PurgeStep)
  /\ WF_vars(ReleaseStep)
  /\ \A t \in Tuners : WF_vars(TuneStep(t))

(* Payloads may run for as long as they like. *)
BusySpec == Spec /\ ThreadFairness

(* Payloads end. *)
Fairness == ThreadFairness /\ \A w \in Workers : WF_vars(WorkerStep(w))

FairSpec == Spec /\ Fairness

-----------------------------------------------------------------------------
(* What the threads add up to: submit, the workers and release(), with all *)
(* their locks, wake-ups and hand-overs, are an executor that runs no more *)
(* tasks at a time than it was ever given room for, runs what it has       *)
(* accepted once, and refuses only when it is closed or overloaded.        *)
Executor == INSTANCE BoundedExecutor
  WITH Tasks <- Tasks,
       Sizes <- Asked,
       MayRefuse <- Nonblocking \/ MaxBlockingTasks # 0,
       phase <- task,
       closed <- IsClosed

ImplementsExecutor == Executor!ExecSpec

-----------------------------------------------------------------------------
(* Liveness.                                                               *)

(* A call of submit returns: whoever found no room is woken up when there  *)
(* is room again.                                                          *)
SubmitReturns ==
  \A t \in Tasks : task[t] = "submitting" ~> task[t] # "submitting"

(* While the pool stays open, that is: an open pool that is tuned and      *)
(* purged leaves nobody waiting, whether or not it will be closed.         *)
ServedWhileOpen ==
  \A t \in Tasks : task[t] = "submitting" ~> task[t] # "submitting" \/ IsClosed

(* A task that submit has accepted is executed, whatever happens to the    *)
(* pool: not lost in the channel of a worker that was told to stop first.  *)
AcceptedRuns == \A t \in Tasks : task[t] = "accepted" ~> task[t] = "executed"

(* Every caller who is waiting for a worker when release() gets to its     *)
(* broadcast returns, though the workers be busy for ever after: however   *)
(* many wait, nobody depends on a signal that only a worker would give.    *)
ReleaseFreesWaiters ==
  \A c \in Callers :
    [](rpc \in {"lock", "reset", "broadcast"} /\ pc[c] = "parked"
         => <>(pc[c] = "idle"))

(* After release() every worker exits, the scavenger ends and all_done is  *)
(* closed for good, so that release_context() and reboot() can return.     *)
PoolDrains ==
  IsClosed ~> [](running = 0 /\ allDone /\ ppc \in {"done", "off"})

=============================================================================
