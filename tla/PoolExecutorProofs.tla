------------------------- MODULE PoolExecutorProofs -------------------------
(***************************************************************************)
(* A pool keeps the promises of BoundedExecutor, and its ring buffer never *)
(* refuses a worker: what ownership, the fate of tasks, the counters and   *)
(* the capacity give together.                                             *)
(***************************************************************************)
EXTENDS PoolOwnershipProofs, PoolCountsProofs

-----------------------------------------------------------------------------
(* The room in the ring buffer.                                            *)

LEMMA CapacityAlways == Spec => [](Size # -1 => CapacityInv)
<1>1. CASE Size = -1
  <2>1. Size # -1 => CapacityInv
    BY <1>1
  <2> QED
    BY <2>1, PTL
<1>2. CASE Size # -1
  <2>1. Init => (Size # -1 => CapacityInv)
    BY <1>2, CapacityInit
  <2>2. /\ TypeOK /\ LockExclusive /\ (Size # -1 => CapacityInv)
        /\ [Next]_vars
        => (Size # -1 => CapacityInv)'
    BY <1>2, CapacityStep
  <2> QED
    BY <2>1, <2>2, TypeCorrect, MutualExclusion, PTL DEF Spec
<1> QED
  BY <1>1, <1>2

(* A sequence without repetitions is as long as the set of its elements.   *)
LEMMA LengthOfInjective ==
  ASSUME NEW S, NEW s \in Seq(S), IsInjective(s)
  PROVE  IsFiniteSet(Range(s)) /\ Cardinality(Range(s)) = Len(s)
<1>1. Len(s) \in Nat /\ s \in [1..Len(s) -> Range(s)]
  BY DEF Range
<1>2. IsFiniteSet(1..Len(s)) /\ Cardinality(1..Len(s)) = Len(s)
  BY <1>1, FS_Interval
<1>3. s \in Bijection(1..Len(s), Range(s))
  BY <1>1 DEF Bijection, Injection, Surjection, Range
<1> QED
  BY <1>2, <1>3, FS_Bijection DEF ExistsBijection

(* Whoever is in the queue waits for a message, a worker about to get in   *)
(* does not, and the two together are no more than the ring has slots.     *)
LEMMA RoomToInsert ==
  ASSUME TypeOK, OwnInv, RunningIsLive, Size # -1 => CapacityInv,
         NEW w \in Workers, wpc[w] = "insert", PreAlloc
  PROVE  Len(items) < Size
<1>1. items \in Seq(Workers) /\ IsInjective(items)
  BY DEF TypeOK, CoreTypeOK, OwnInv, SoleOwner
<1>2. Range(items) \subseteq Live \ {w}
  <2> SUFFICES ASSUME NEW v \in Range(items) PROVE v \in Live \ {w}
    OBVIOUS
  <2>1. v \in Workers
    BY <1>1, RangeType
  <2>2. Waits(v)
    BY <2>1 DEF OwnInv, SoleOwner, Held
  <2> QED
    BY <2>1, <2>2 DEF Waits, Live
<1>3. w \in Live
  BY DEF Live
<1>4. IsFiniteSet(Live \ {w}) /\ Cardinality(Live \ {w}) = running - 1
  BY <1>3, LiveFinite, FS_RemoveElement DEF RunningIsLive
<1>5. Len(items) <= running - 1
  BY <1>1, <1>2, <1>4, LengthOfInjective, FS_Subset
<1>6. running <= Size
  <2>1. Size \in Nat /\ Size > 0 /\ Asked = {Size}
    BY PoolCoreAssumption DEF Asked
  <2> QED
    BY <2>1 DEF CapacityInv
<1>7. Len(items) \in Nat /\ running \in Int /\ Size \in Int
  BY <1>1, PoolCoreAssumption DEF TypeOK, CoreTypeOK
<1> QED
  BY <1>5, <1>6, <1>7

(* The ring buffer of a pre-allocated pool has a slot for every worker     *)
(* that comes back: revert_worker's insert never fails, and no worker is   *)
(* lost for it (worker_loop_queue.rs insert()).                            *)
THEOREM RingHasRoom == Spec => []NeverFull
<1>1. TypeOK /\ OwnInv /\ RunningIsLive /\ (Size # -1 => CapacityInv)
        => NeverFull
  <2> SUFFICES ASSUME TypeOK, OwnInv, RunningIsLive,
                      Size # -1 => CapacityInv,
                      NEW w \in Workers, wpc[w] = "insert", QueueIsFull
               PROVE  FALSE
    BY DEF NeverFull
  <2>1. PreAlloc /\ Len(items) = Size
    BY DEF QueueIsFull
  <2>2. Len(items) < Size
    BY <2>1, RoomToInsert
  <2> QED
    BY <2>1, <2>2, PoolCoreAssumption
<1> QED
  BY <1>1, TypeCorrect, OwnAlways, RunningCounts, CapacityAlways, PTL

-----------------------------------------------------------------------------
(* The refinement.                                                         *)

(* Everything that was shown of a pool so far.                             *)
PoolInv ==
  /\ TypeOK /\ OwnInv /\ TaskInv /\ RunningIsLive
  /\ Size # -1 => CapacityInv

LEMMA TaskAlways == Spec => []TaskInv
  BY TaskInit, TaskStep, TypeCorrect, OwnAlways, PTL DEF Spec

LEMMA PoolAlways == Spec => []PoolInv
<1>1. TypeOK /\ OwnInv /\ TaskInv /\ RunningIsLive /\ (Size # -1 => CapacityInv)
        => PoolInv
  BY DEF PoolInv
<1> QED
  BY <1>1, TypeCorrect, OwnAlways, TaskAlways, RunningCounts, CapacityAlways,
     PTL

(* A worker that takes a task finds no more tasks executing than there are *)
(* other live workers.                                                     *)
LEMMA RoomToStart ==
  ASSUME PoolInv, NEW w \in Workers, wpc[w] = "recv"
  PROVE  \E n \in Asked : n = -1 \/ Cardinality(Executor!Executing) < n
<1>1. CASE Size = -1
  BY <1>1 DEF Asked
<1>2. CASE Size # -1
  <2> DEFINE E == Executor!Executing
             runner == [t \in E |-> CHOOSE v \in Workers : cur[v] = t]
  <2>1. \A t \in E : runner[t] \in Workers /\ cur[runner[t]] = t
    BY DEF Executor!Executing, PoolInv, TaskInv, Carried
  <2>2. \A t \in E : runner[t] \in Live \ {w}
    <3> SUFFICES ASSUME NEW t \in E PROVE runner[t] \in Live \ {w}
      OBVIOUS
    <3>1. t \in Tasks /\ t # None
      BY PoolCoreAssumption DEF Executor!Executing
    <3>2. wpc[runner[t]] = "run"
      BY <2>1, <3>1 DEF PoolInv, TaskInv, Carried
    <3> QED
      BY <2>1, <3>2 DEF Live
  <2>3. \A s, t \in E : runner[s] = runner[t] => s = t
    BY <2>1
  <2>4. runner \in Injection(E, Live \ {w})
    BY <2>2, <2>3 DEF Injection, IsInjective
  <2>5. w \in Live
    BY DEF Live
  <2>6. IsFiniteSet(Live \ {w}) /\ Cardinality(Live \ {w}) = running - 1
    BY <2>5, LiveFinite, FS_RemoveElement DEF PoolInv, RunningIsLive
  <2>7. IsFiniteSet(E) /\ Cardinality(E) <= running - 1
    BY <2>4, <2>6, FS_Injection
  <2>8. PICK n \in Asked : running <= n
    BY <1>2 DEF PoolInv, CapacityInv
  <2>9. Cardinality(E) \in Nat /\ n \in Int /\ running \in Int
    BY <1>2, <2>7, FS_CardinalityType, AskedPositive
    DEF PoolInv, TypeOK, CoreTypeOK
  <2> QED
    BY <2>7, <2>8, <2>9
<1> QED
  BY <1>1, <1>2

(* BoundedExecutor counts the way this module does.                        *)
LEMMA SameCardinality == \A S : Executor!Cardinality(S) = Cardinality(S)
BY DEF Cardinality, Executor!Cardinality

(* One task goes from one phase to another.                                *)
LEMMA Moves ==
  ASSUME NEW t, NEW from, NEW to, task[t] = from,
         task' = [task EXCEPT ![t] = to], state' = state
  PROVE  Executor!Move(t, from, to)
BY DEF Executor!Move, IsClosed

ExecutorStep == Executor!ExecNext \/ UNCHANGED Executor!execVars

LEMMA ExecutorQuiet ==
  ASSUME task' = task, state' = state
  PROVE  ExecutorStep
BY DEF ExecutorStep, Executor!execVars, IsClosed

LEMMA CallerRefines ==
  ASSUME PoolInv, NEW c \in Callers, TrySubmit(c) \/ CallerStep(c)
  PROVE  ExecutorStep
<1>0. TypeOK /\ TaskInv
  BY DEF PoolInv
<1>1. CASE TrySubmit(c)
  <2> DEFINE u == <<c, calls[c] + 1>>
  <2>1. u \in Tasks /\ task[u] = "unsubmitted"
    BY <1>0, <1>1, PoolCoreAssumption
    DEF TrySubmit, TypeOK, CallerTypeOK, Tasks, TaskInv, Called
  <2>2. state' = state
    BY <1>1 DEF TrySubmit, coreVars
  <2>3. CASE IsClosed
    <3>1. task' = [task EXCEPT ![u] = "rejected"]
      BY <1>1, <2>3 DEF TrySubmit
    <3>2. Executor!RefuseAtOnce(u)
      BY <2>1, <2>2, <2>3, <3>1, Moves DEF Executor!RefuseAtOnce
    <3> QED
      BY <2>1, <3>2 DEF ExecutorStep, Executor!ExecNext
  <2>4. CASE ~IsClosed
    <3>1. task' = [task EXCEPT ![u] = "submitting"]
      BY <1>1, <2>4 DEF TrySubmit
    <3>2. Executor!Submit(u)
      BY <2>1, <2>2, <2>4, <3>1, Moves DEF Executor!Submit
    <3> QED
      BY <2>1, <3>2 DEF ExecutorStep, Executor!ExecNext
  <2> QED
    BY <2>3, <2>4
<1>2. ASSUME pc[c] # "idle", Overloaded \/ IsClosed, state' = state,
             task' = [task EXCEPT ![Current(c)] = "rejected"]
      PROVE  ExecutorStep
  <2>1. Current(c) \in Tasks /\ task[Current(c)] = "submitting"
    BY <1>0, <1>2, CurrentTask DEF TaskInv, Called
  <2>2. IsClosed \/ Nonblocking \/ MaxBlockingTasks # 0
    BY <1>2 DEF Overloaded
  <2>3. Executor!Refuse(Current(c))
    BY <1>2, <2>1, <2>2, Moves DEF Executor!Refuse
  <2> QED
    BY <2>1, <2>3 DEF ExecutorStep, Executor!ExecNext
<1>3. CASE RefuseOverload(c)
  BY <1>2, <1>3 DEF RefuseOverload
<1>4. CASE Resume(c)
  <2>1. CASE IsClosed
    BY <1>2, <1>4, <2>1 DEF Resume
  <2>2. CASE ~IsClosed
    BY <1>4, <2>2, ExecutorQuiet DEF Resume
  <2> QED
    BY <2>1, <2>2
<1>5. CASE Send(c)
  <2>1. Current(c) \in Tasks /\ task[Current(c)] = "submitting"
    BY <1>0, <1>5, CurrentTask DEF Send, TaskInv, Called
  <2>2. state' = state /\ task' = [task EXCEPT ![Current(c)] = "accepted"]
    BY <1>5 DEF Send, coreVars
  <2>3. Executor!Accept(Current(c))
    BY <2>1, <2>2, Moves DEF Executor!Accept
  <2> QED
    BY <2>1, <2>3 DEF ExecutorStep, Executor!ExecNext
<1>6. CASE \/ Acquire(c) \/ FindRoom(c) \/ BecomeWaiter(c) \/ Spawn(c)
           \/ Register(c) \/ Wake(c)
  BY <1>6, ExecutorQuiet
  DEF Acquire, FindRoom, BecomeWaiter, Spawn, Register, Wake, coreVars
<1> QED
  BY <1>1, <1>3, <1>4, <1>5, <1>6 DEF CallerStep

LEMMA WorkerRefines ==
  ASSUME PoolInv, NEW w \in Workers, WorkerStep(w)
  PROVE  ExecutorStep
<1>0. TypeOK /\ TaskInv
  BY DEF PoolInv
<1>1. CASE Receive(w)
  <2>1. state' = state /\ wpc[w] = "recv"
    BY <1>1 DEF Receive, coreVars
  <2>2. PICK m \in chan[w] :
          IF m = Finish THEN task' = task
                        ELSE task' = [task EXCEPT ![m] = "executing"]
    BY <1>1 DEF Receive
  <2>3. CASE m = Finish
    BY <2>1, <2>2, <2>3, ExecutorQuiet
  <2>4. CASE m # Finish
    <3>1. m \in Tasks /\ task[m] = "accepted"
      BY <1>0, <2>2, <2>4 DEF TypeOK, WorkerTypeOK, TaskInv, Carried
    <3>2. Executor!Move(m, "accepted", "executing")
      BY <2>1, <2>2, <2>4, <3>1, Moves
    <3>3. \E n \in Asked : n = -1 \/ Cardinality(Executor!Executing) < n
      BY <2>1, RoomToStart
    <3>4. Executor!Start(m)
      BY <3>2, <3>3, SameCardinality DEF Executor!Start
    <3> QED
      BY <3>1, <3>4 DEF ExecutorStep, Executor!ExecNext
  <2> QED
    BY <2>3, <2>4
<1>2. CASE Return(w)
  <2>1. /\ wpc[w] = "run" /\ state' = state
        /\ task' = [task EXCEPT ![cur[w]] = "executed"]
    BY <1>2 DEF Return, coreVars
  <2>2. cur[w] \in Tasks /\ task[cur[w]] = "executing"
    BY <1>0, <2>1 DEF TypeOK, WorkerTypeOK, TaskInv, Carried
  <2>3. Executor!Complete(cur[w])
    BY <2>1, <2>2, Moves DEF Executor!Complete
  <2> QED
    BY <2>2, <2>3 DEF ExecutorStep, Executor!ExecNext
<1>3. CASE Revert(w) \/ Shed(w) \/ Insert(w) \/ Depart(w) \/ Recycle(w)
  BY <1>3, ExecutorQuiet
  DEF Revert, Shed, Insert, Depart, Recycle, coreVars
<1> QED
  BY <1>1, <1>2, <1>3 DEF WorkerStep

(* For any callers, workers, sizes and options a pool is an executor: each *)
(* submission is accepted or refused, once, and refused only for a reason; *)
(* what is accepted runs at most once, and no more runs at a time than the *)
(* largest size the pool was ever given.                                   *)
THEOREM PoolRefines == Spec => ImplementsExecutor
<1>1. Init => Executor!ExecInit
  BY DEF Init, Executor!ExecInit, IsClosed
<1>2. PoolInv /\ [Next]_vars => [Executor!ExecNext]_(Executor!execVars)
  <2> SUFFICES ASSUME PoolInv, [Next]_vars
               PROVE  ExecutorStep
    BY DEF ExecutorStep
  <2>1. ASSUME NEW c \in Callers, TrySubmit(c) \/ CallerStep(c)
        PROVE  ExecutorStep
    BY <2>1, CallerRefines
  <2>2. ASSUME NEW w \in Workers, WorkerStep(w)
        PROVE  ExecutorStep
    BY <2>2, WorkerRefines
  <2>3. CASE ReleaseClose
    <3>1. task' = task /\ IsClosed'
      BY <2>3 DEF ReleaseClose, IsClosed
    <3>2. CASE IsClosed
      BY <3>1, <3>2 DEF ExecutorStep, Executor!execVars
    <3>3. CASE ~IsClosed
      BY <3>1, <3>3 DEF ExecutorStep, Executor!ExecNext, Executor!Close
    <3> QED
      BY <3>2, <3>3
  <2>4. CASE ExitSignal \/ PurgeStep
    BY <2>4, ExecutorQuiet
    DEF ExitSignal, PurgeStep, PurgeTick, PurgeScan, PurgeFinish, PurgeAwake,
        coreVars
  <2>5. CASE ReleaseStep
    BY <2>5, ExecutorQuiet
    DEF ReleaseStep, ReleaseLock, ResetOne, ReleaseUnlock, ReleaseBroadcast,
        ReleaseCheck, coreVars
  <2>6. ASSUME NEW t \in Tuners, TuneRead(t) \/ TuneStep(t)
        PROVE  ExecutorStep
    BY <2>6, ExecutorQuiet DEF TuneRead, TuneStep, TuneStore, TuneNotify, coreVars
  <2>7. CASE UNCHANGED vars
    BY <2>7, ExecutorQuiet DEF vars, coreVars
  <2> QED
    BY <2>1, <2>2, <2>3, <2>4, <2>5, <2>6, <2>7 DEF Next
<1> QED
  BY <1>1, <1>2, PoolAlways, PTL DEF Spec, ImplementsExecutor, Executor!ExecSpec

=============================================================================
