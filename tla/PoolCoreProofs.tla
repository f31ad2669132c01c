---------------------------- MODULE PoolCoreProofs ----------------------------
(***************************************************************************)
(* Theorems about PoolCore, for every number of callers, workers and       *)
(* tuners and every option.                                                *)
(***************************************************************************)
EXTENDS PoolCore, TLAPS

(* Taking a worker out of the idle queue yields a worker and leaves a      *)
(* queue of workers, whichever end it is taken from.                       *)
LEMMA DetachType ==
  ASSUME items \in Seq(Workers), items # <<>>
  PROVE  Detached \in Workers /\ Remaining \in Seq(Workers)
<1>1. Len(items) \in Nat /\ Len(items) > 0
  OBVIOUS
<1>2. Head(items) \in Workers /\ Tail(items) \in Seq(Workers)
  OBVIOUS
<1>3. Last(items) \in Workers
  BY <1>1 DEF Last
<1>4. Front(items) \in Seq(Workers)
  BY <1>1 DEF Front
<1> QED
  BY <1>2, <1>3, <1>4 DEF Detached, Remaining

LEMMA TypeInit == Init => TypeOK
<1> SUFFICES ASSUME Init PROVE TypeOK
  OBVIOUS
<1> USE PoolCoreAssumption
<1>1. CoreTypeOK
  <2>1. state \in {"OPENED", "CLOSED"} /\ allDone \in BOOLEAN
    BY DEF Init
  <2>2. capacity \in Int /\ running \in Int /\ waiting \in Int
    BY DEF Init
  <2>3. locked \in BOOLEAN
    BY DEF Init
  <2>4. items \in Seq(Workers)
    BY DEF Init
  <2> QED
    BY <2>1, <2>2, <2>3, <2>4 DEF CoreTypeOK
<1>2. CondTypeOK
  BY DEF Init, CondTypeOK
<1>3. CallerTypeOK
  BY DEF Init, CallerTypeOK, CallerPC, TaskPhase
<1>4. WorkerTypeOK
  <2>1. wpc \in [Workers -> WorkerPC] /\ signalling \in Nat
    BY DEF Init, WorkerPC
  <2>2. chan \in [Workers -> SUBSET (Tasks \cup {Finish})]
    BY DEF Init
  <2>3. cur \in [Workers -> Tasks \cup {None}]
    BY DEF Init
  <2>4. seen \in [Callers \cup Workers -> Int]
    BY DEF Init
  <2> QED
    BY <2>1, <2>2, <2>3, <2>4 DEF WorkerTypeOK
<1>5. OtherTypeOK
  <2>1. ppc \in {"tick", "scan", "finish", "done", "off"}
    BY DEF Init
  <2>2. stale \in Seq(Workers)
    BY DEF Init
  <2>3. dormant \in BOOLEAN
    BY DEF Init
  <2>4. rpc \in {"open", "lock", "reset", "broadcast", "check", "done", "off"}
    BY DEF Init
  <2>5. tuner \in [Tuners -> [at   : {"idle", "store", "signal", "broadcast",
                                     "done"},
                             seen : Int,
                             want : Int]]
    BY DEF Init
  <2> QED
    BY <2>1, <2>2, <2>3, <2>4, <2>5 DEF OtherTypeOK
<1> QED
  BY <1>1, <1>2, <1>3, <1>4, <1>5 DEF TypeOK

(* Every step preserves the types: for each action, the parts that it      *)
(* writes one by one, then the others.                                     *)
LEMMA TypeStep == TypeOK /\ [Next]_vars => TypeOK'
<1> SUFFICES ASSUME TypeOK, [Next]_vars
             PROVE  TypeOK'
  OBVIOUS
<1> USE DEF TypeOK, LockFree, Lock, Unlock
<1>1. ASSUME NEW c \in Callers, TrySubmit(c)
      PROVE  TypeOK'
  <2>1. CallerTypeOK'
    <3>1. pc' \in [Callers -> CallerPC]
      BY <1>1, PoolCoreAssumption DEF TrySubmit, CallerTypeOK, callerVars,
                                      CallerPC, TaskPhase
    <3>2. hand' \in [Callers -> Workers \cup {None}]
      BY <1>1, PoolCoreAssumption DEF TrySubmit, CallerTypeOK, callerVars,
                                      CallerPC, TaskPhase
    <3>3. calls' \in [Callers -> 0..MaxCalls]
      BY <1>1, PoolCoreAssumption DEF TrySubmit, CallerTypeOK, callerVars,
                                      CallerPC, TaskPhase
    <3>4. \A d \in Callers : pc'[d] # "idle" => calls'[d] > 0
      BY <1>1, PoolCoreAssumption DEF TrySubmit, CallerTypeOK, callerVars,
                                      CallerPC, TaskPhase
    <3>5. task' \in [Tasks -> TaskPhase]
      BY <1>1, PoolCoreAssumption DEF TrySubmit, CallerTypeOK, callerVars,
                                      CallerPC, TaskPhase
    <3> QED
      BY <3>1, <3>2, <3>3, <3>4, <3>5 DEF CallerTypeOK
  <2>2. CoreTypeOK' /\ CondTypeOK' /\ WorkerTypeOK' /\ OtherTypeOK'
    BY <1>1 DEF TrySubmit, CoreTypeOK, CondTypeOK, WorkerTypeOK, OtherTypeOK,
                coreVars, condVars, workerVars, purgeVars
  <2> QED
    BY <2>1, <2>2
<1>2. ASSUME NEW c \in Callers, Acquire(c)
      PROVE  TypeOK'
  <2>1. CoreTypeOK'
    BY <1>2, DetachType DEF Acquire, CoreTypeOK, coreVars, DetachOrCheck
  <2>2. CallerTypeOK'
    <3>1. pc' \in [Callers -> CallerPC]
      BY <1>2, DetachType DEF Acquire, CallerTypeOK, callerVars,
                              DetachOrCheck, CallerPC, CoreTypeOK
    <3>2. hand' \in [Callers -> Workers \cup {None}]
      BY <1>2, DetachType DEF Acquire, CallerTypeOK, callerVars,
                              DetachOrCheck, CallerPC, CoreTypeOK
    <3>3. calls' \in [Callers -> 0..MaxCalls]
      BY <1>2, DetachType DEF Acquire, CallerTypeOK, callerVars,
                              DetachOrCheck, CallerPC, CoreTypeOK
    <3>4. \A d \in Callers : pc'[d] # "idle" => calls'[d] > 0
      BY <1>2, DetachType DEF Acquire, CallerTypeOK, callerVars,
                              DetachOrCheck, CallerPC, CoreTypeOK
    <3>5. task' \in [Tasks -> TaskPhase]
      BY <1>2, DetachType DEF Acquire, CallerTypeOK, callerVars,
                              DetachOrCheck, CallerPC, CoreTypeOK
    <3> QED
      BY <3>1, <3>2, <3>3, <3>4, <3>5 DEF CallerTypeOK
  <2>3. WorkerTypeOK'
    BY <1>2 DEF Acquire, WorkerTypeOK, workerVars, DetachOrCheck, CoreTypeOK
  <2>4. CondTypeOK' /\ OtherTypeOK'
    BY <1>2 DEF Acquire, CondTypeOK, OtherTypeOK, condVars, purgeVars
  <2> QED
    BY <2>1, <2>2, <2>3, <2>4
<1>3. ASSUME NEW c \in Callers, FindRoom(c)
      PROVE  TypeOK'
  <2>1. CallerTypeOK'
    BY <1>3 DEF FindRoom, CallerTypeOK, callerVars, CallerPC
  <2>2. WorkerTypeOK'
    BY <1>3 DEF FindRoom, WorkerTypeOK, workerVars
  <2>3. CoreTypeOK' /\ CondTypeOK' /\ OtherTypeOK'
    BY <1>3 DEF FindRoom, CoreTypeOK, CondTypeOK, OtherTypeOK, coreVars,
                condVars, purgeVars
  <2> QED
    BY <2>1, <2>2, <2>3
<1>4. ASSUME NEW c \in Callers, RefuseOverload(c)
      PROVE  TypeOK'
  <2>1. CoreTypeOK'
    BY <1>4 DEF RefuseOverload, CoreTypeOK, coreVars
  <2>2. CallerTypeOK'
    BY <1>4 DEF RefuseOverload, CallerTypeOK, callerVars, CallerPC, TaskPhase
  <2>3. WorkerTypeOK'
    BY <1>4 DEF RefuseOverload, WorkerTypeOK, workerVars
  <2>4. CondTypeOK' /\ OtherTypeOK'
    BY <1>4 DEF RefuseOverload, CondTypeOK, OtherTypeOK, condVars, purgeVars
  <2> QED
    BY <2>1, <2>2, <2>3, <2>4
<1>5. ASSUME NEW c \in Callers, BecomeWaiter(c)
      PROVE  TypeOK'
  <2>1. CoreTypeOK'
    BY <1>5 DEF BecomeWaiter, CoreTypeOK, coreVars
  <2>2. CallerTypeOK'
    BY <1>5 DEF BecomeWaiter, CallerTypeOK, callerVars, CallerPC
  <2>3. WorkerTypeOK'
    BY <1>5 DEF BecomeWaiter, WorkerTypeOK, workerVars
  <2>4. CondTypeOK' /\ OtherTypeOK'
    BY <1>5 DEF BecomeWaiter, CondTypeOK, OtherTypeOK, condVars, purgeVars
  <2> QED
    BY <2>1, <2>2, <2>3, <2>4
<1>6. ASSUME NEW c \in Callers, Spawn(c)
      PROVE  TypeOK'
  <2>1. CoreTypeOK'
    <3>1. state' \in {"OPENED", "CLOSED"}
      BY <1>6 DEF Spawn, CoreTypeOK, coreVars
    <3>2. capacity' \in Int
      BY <1>6 DEF Spawn, CoreTypeOK, coreVars
    <3>3. running' \in Int
      BY <1>6 DEF Spawn, CoreTypeOK, coreVars
    <3>4. waiting' \in Int
      BY <1>6 DEF Spawn, CoreTypeOK, coreVars
    <3>5. locked' \in BOOLEAN
      BY <1>6 DEF Spawn, CoreTypeOK, coreVars
    <3>6. items' \in Seq(Workers)
      BY <1>6 DEF Spawn, CoreTypeOK, coreVars
    <3>7. allDone' \in BOOLEAN
      BY <1>6 DEF Spawn, CoreTypeOK, coreVars
    <3> QED
      BY <3>1, <3>2, <3>3, <3>4, <3>5, <3>6, <3>7 DEF CoreTypeOK
  <2>2. CallerTypeOK'
    BY <1>6 DEF Spawn, CallerTypeOK, callerVars, CallerPC, Fetchable, Cached
  <2>3. WorkerTypeOK'
    BY <1>6 DEF Spawn, WorkerTypeOK, workerVars, WorkerPC
  <2>4. CondTypeOK' /\ OtherTypeOK'
    BY <1>6 DEF Spawn, CondTypeOK, OtherTypeOK, condVars, purgeVars
  <2> QED
    BY <2>1, <2>2, <2>3, <2>4
<1>7. ASSUME NEW c \in Callers, Register(c)
      PROVE  TypeOK'
  <2>1. CoreTypeOK'
    BY <1>7 DEF Register, CoreTypeOK, coreVars
  <2>2. CondTypeOK'
    BY <1>7 DEF Register, CondTypeOK, condVars
  <2>3. CallerTypeOK'
    BY <1>7 DEF Register, CallerTypeOK, callerVars, CallerPC
  <2>4. WorkerTypeOK' /\ OtherTypeOK'
    BY <1>7 DEF Register, WorkerTypeOK, OtherTypeOK, workerVars, purgeVars
  <2> QED
    BY <2>1, <2>2, <2>3, <2>4
<1>8. ASSUME NEW c \in Callers, Wake(c)
      PROVE  TypeOK'
  <2>1. CondTypeOK'
    BY <1>8 DEF Wake, CondTypeOK, condVars
  <2>2. CallerTypeOK'
    BY <1>8 DEF Wake, CallerTypeOK, callerVars, CallerPC
  <2>3. CoreTypeOK' /\ WorkerTypeOK' /\ OtherTypeOK'
    BY <1>8 DEF Wake, CoreTypeOK, WorkerTypeOK, OtherTypeOK, coreVars,
                workerVars, purgeVars
  <2> QED
    BY <2>1, <2>2, <2>3
<1>9. ASSUME NEW c \in Callers, Resume(c)
      PROVE  TypeOK'
  <2>1. CoreTypeOK'
    <3>1. state' \in {"OPENED", "CLOSED"}
      BY <1>9, DetachType DEF Resume, CoreTypeOK, coreVars, DetachOrCheck
    <3>2. capacity' \in Int
      BY <1>9, DetachType DEF Resume, CoreTypeOK, coreVars, DetachOrCheck
    <3>3. running' \in Int
      BY <1>9, DetachType DEF Resume, CoreTypeOK, coreVars, DetachOrCheck
    <3>4. waiting' \in Int
      BY <1>9, DetachType DEF Resume, CoreTypeOK, coreVars, DetachOrCheck
    <3>5. locked' \in BOOLEAN
      BY <1>9, DetachType DEF Resume, CoreTypeOK, coreVars, DetachOrCheck
    <3>6. items' \in Seq(Workers)
      BY <1>9, DetachType DEF Resume, CoreTypeOK, coreVars, DetachOrCheck
    <3>7. allDone' \in BOOLEAN
      BY <1>9, DetachType DEF Resume, CoreTypeOK, coreVars, DetachOrCheck
    <3> QED
      BY <3>1, <3>2, <3>3, <3>4, <3>5, <3>6, <3>7 DEF CoreTypeOK
  <2>2. CallerTypeOK'
    BY <1>9, DetachType DEF Resume, CallerTypeOK, callerVars, DetachOrCheck,
                            CallerPC, TaskPhase, CoreTypeOK
  <2>3. WorkerTypeOK'
    BY <1>9 DEF Resume, WorkerTypeOK, workerVars, DetachOrCheck, CoreTypeOK
  <2>4. CondTypeOK' /\ OtherTypeOK'
    BY <1>9 DEF Resume, CondTypeOK, OtherTypeOK, condVars, purgeVars
  <2> QED
    BY <2>1, <2>2, <2>3, <2>4
<1>10. ASSUME NEW c \in Callers, Send(c)
       PROVE  TypeOK'
  <2>1. CallerTypeOK'
    BY <1>10 DEF Send, CallerTypeOK, callerVars, CallerPC, TaskPhase
  <2>2. WorkerTypeOK'
    <3>1. wpc' \in [Workers -> WorkerPC]
      BY <1>10 DEF Send, WorkerTypeOK, workerVars, CallerTypeOK, Current,
                   Tasks
    <3>2. chan' \in [Workers -> SUBSET (Tasks \cup {Finish})]
      <4>1. Current(c) \in Tasks
        BY <1>10 DEF Send, CallerTypeOK, Current, Tasks
      <4> QED
        BY <1>10, <4>1 DEF Send, WorkerTypeOK
    <3>3. /\ cur' \in [Workers -> Tasks \cup {None}]
           /\ signalling' \in Nat
           /\ seen' \in [Callers \cup Workers -> Int]
      BY <1>10 DEF Send, WorkerTypeOK, workerVars, CallerTypeOK, Current,
                   Tasks
    <3> QED
      BY <3>1, <3>2, <3>3 DEF WorkerTypeOK
  <2>3. CoreTypeOK' /\ CondTypeOK' /\ OtherTypeOK'
    BY <1>10 DEF Send, CoreTypeOK, CondTypeOK, OtherTypeOK, coreVars,
                 condVars, purgeVars
  <2> QED
    BY <2>1, <2>2, <2>3
<1>11. ASSUME NEW w \in Workers, Receive(w)
       PROVE  TypeOK'
  <2>1. CallerTypeOK'
    BY <1>11 DEF Receive, CallerTypeOK, callerVars, TaskPhase
  <2>2. WorkerTypeOK'
    BY <1>11 DEF Receive, WorkerTypeOK, workerVars, WorkerPC
  <2>3. CoreTypeOK' /\ CondTypeOK' /\ OtherTypeOK'
    BY <1>11 DEF Receive, CoreTypeOK, CondTypeOK, OtherTypeOK, coreVars,
                 condVars, purgeVars
  <2> QED
    BY <2>1, <2>2, <2>3
<1>12. ASSUME NEW w \in Workers, Return(w)
       PROVE  TypeOK'
  <2>1. CallerTypeOK'
    BY <1>12 DEF Return, CallerTypeOK, callerVars, TaskPhase
  <2>2. WorkerTypeOK'
    BY <1>12 DEF Return, WorkerTypeOK, workerVars, WorkerPC, CoreTypeOK
  <2>3. CoreTypeOK' /\ CondTypeOK' /\ OtherTypeOK'
    BY <1>12 DEF Return, CoreTypeOK, CondTypeOK, OtherTypeOK, coreVars,
                 condVars, purgeVars
  <2> QED
    BY <2>1, <2>2, <2>3
<1>13. ASSUME NEW w \in Workers, Revert(w)
       PROVE  TypeOK'
  <2>1. WorkerTypeOK'
    BY <1>13 DEF Revert, WorkerTypeOK, workerVars, WorkerPC
  <2>2. CoreTypeOK' /\ CondTypeOK' /\ CallerTypeOK' /\ OtherTypeOK'
    BY <1>13 DEF Revert, CoreTypeOK, CondTypeOK, CallerTypeOK, OtherTypeOK,
                 coreVars, condVars, callerVars, purgeVars
  <2> QED
    BY <2>1, <2>2
<1>14. ASSUME NEW w \in Workers, Shed(w)
       PROVE  TypeOK'
  <2>1. CondTypeOK'
    BY <1>14 DEF Shed, CondTypeOK, condVars, Broadcast, Parked
  <2>2. WorkerTypeOK'
    BY <1>14 DEF Shed, WorkerTypeOK, workerVars, WorkerPC
  <2>3. CoreTypeOK' /\ CallerTypeOK' /\ OtherTypeOK'
    BY <1>14 DEF Shed, CoreTypeOK, CallerTypeOK, OtherTypeOK, coreVars,
                 callerVars, purgeVars
  <2> QED
    BY <2>1, <2>2, <2>3
<1>15. ASSUME NEW w \in Workers, Insert(w)
       PROVE  TypeOK'
  <2>1. CoreTypeOK'
    BY <1>15 DEF Insert, CoreTypeOK, coreVars
  <2>2. CondTypeOK'
    BY <1>15 DEF Insert, CondTypeOK, condVars, Signal
  <2>3. WorkerTypeOK'
    BY <1>15 DEF Insert, WorkerTypeOK, workerVars, WorkerPC
  <2>4. CallerTypeOK' /\ OtherTypeOK'
    BY <1>15 DEF Insert, CallerTypeOK, OtherTypeOK, callerVars, purgeVars
  <2> QED
    BY <2>1, <2>2, <2>3, <2>4
<1>16. ASSUME NEW w \in Workers, Depart(w)
       PROVE  TypeOK'
  <2>1. CoreTypeOK'
    BY <1>16 DEF Depart, CoreTypeOK, coreVars
  <2>2. WorkerTypeOK'
    BY <1>16 DEF Depart, WorkerTypeOK, workerVars, WorkerPC
  <2>3. CondTypeOK' /\ CallerTypeOK' /\ OtherTypeOK'
    BY <1>16 DEF Depart, CondTypeOK, CallerTypeOK, OtherTypeOK, condVars,
                 callerVars, purgeVars
  <2> QED
    BY <2>1, <2>2, <2>3
<1>17. ASSUME NEW w \in Workers, Recycle(w)
       PROVE  TypeOK'
  <2>1. CoreTypeOK'
    BY <1>17 DEF Recycle, CoreTypeOK, coreVars, LastOut
  <2>2. WorkerTypeOK'
    BY <1>17 DEF Recycle, WorkerTypeOK, workerVars, WorkerPC
  <2>3. CondTypeOK' /\ CallerTypeOK' /\ OtherTypeOK'
    BY <1>17 DEF Recycle, CondTypeOK, CallerTypeOK, OtherTypeOK, condVars,
                 callerVars, purgeVars
  <2> QED
    BY <2>1, <2>2, <2>3
<1>18. CASE ExitSignal
  <2>1. CondTypeOK'
    BY <1>18 DEF ExitSignal, CondTypeOK, condVars, Signal
  <2>2. WorkerTypeOK'
    BY <1>18 DEF ExitSignal, WorkerTypeOK, workerVars
  <2>3. CoreTypeOK' /\ CallerTypeOK' /\ OtherTypeOK'
    BY <1>18 DEF ExitSignal, CoreTypeOK, CallerTypeOK, OtherTypeOK, coreVars,
                 callerVars, purgeVars
  <2> QED
    BY <2>1, <2>2, <2>3
<1>19. CASE PurgeTick
  <2>1. OtherTypeOK'
    BY <1>19 DEF PurgeTick, OtherTypeOK, purgeVars
  <2>2. CoreTypeOK' /\ CondTypeOK' /\ CallerTypeOK' /\ WorkerTypeOK'
    BY <1>19 DEF PurgeTick, CoreTypeOK, CondTypeOK, CallerTypeOK,
                 WorkerTypeOK, coreVars, condVars, callerVars, workerVars
  <2> QED
    BY <2>1, <2>2
<1>20. CASE PurgeScan
  <2>1. CoreTypeOK'
    BY <1>20 DEF PurgeScan, CoreTypeOK, coreVars, Unexpired
  <2>2. OtherTypeOK'
    BY <1>20 DEF PurgeScan, OtherTypeOK, purgeVars, Expired, CoreTypeOK,
                 IsDormant
  <2>3. CondTypeOK' /\ CallerTypeOK' /\ WorkerTypeOK'
    BY <1>20 DEF PurgeScan, CondTypeOK, CallerTypeOK, WorkerTypeOK, condVars,
                 callerVars, workerVars
  <2> QED
    BY <2>1, <2>2, <2>3
<1>21. CASE PurgeFinish
  <2>1. WorkerTypeOK'
    BY <1>21 DEF PurgeFinish, WorkerTypeOK, workerVars
  <2>2. OtherTypeOK'
    BY <1>21 DEF PurgeFinish, OtherTypeOK, purgeVars
  <2>3. CoreTypeOK' /\ CondTypeOK' /\ CallerTypeOK'
    BY <1>21 DEF PurgeFinish, CoreTypeOK, CondTypeOK, CallerTypeOK, coreVars,
                 condVars, callerVars
  <2> QED
    BY <2>1, <2>2, <2>3
<1>22. CASE PurgeAwake
  <2>1. CondTypeOK'
    BY <1>22 DEF PurgeAwake, CondTypeOK, condVars, Broadcast, Parked
  <2>2. OtherTypeOK'
    BY <1>22 DEF PurgeAwake, OtherTypeOK, purgeVars
  <2>3. CoreTypeOK' /\ CallerTypeOK' /\ WorkerTypeOK'
    BY <1>22 DEF PurgeAwake, CoreTypeOK, CallerTypeOK, WorkerTypeOK,
                 coreVars, callerVars, workerVars
  <2> QED
    BY <2>1, <2>2, <2>3
<1>23. CASE ReleaseClose
  <2>1. CoreTypeOK'
    BY <1>23 DEF ReleaseClose, CoreTypeOK, coreVars
  <2>2. OtherTypeOK'
    BY <1>23 DEF ReleaseClose, OtherTypeOK, purgeVars
  <2>3. CondTypeOK' /\ CallerTypeOK' /\ WorkerTypeOK'
    BY <1>23 DEF ReleaseClose, CondTypeOK, CallerTypeOK, WorkerTypeOK,
                 condVars, callerVars, workerVars
  <2> QED
    BY <2>1, <2>2, <2>3
<1>24. CASE ReleaseLock
  <2>1. CoreTypeOK'
    BY <1>24 DEF ReleaseLock, CoreTypeOK, coreVars
  <2>2. OtherTypeOK'
    BY <1>24 DEF ReleaseLock, OtherTypeOK, purgeVars
  <2>3. CondTypeOK' /\ CallerTypeOK' /\ WorkerTypeOK'
    BY <1>24 DEF ReleaseLock, CondTypeOK, CallerTypeOK, WorkerTypeOK,
                 condVars, callerVars, workerVars
  <2> QED
    BY <2>1, <2>2, <2>3
<1>25. CASE ResetOne
  <2>1. CoreTypeOK'
    BY <1>25 DEF ResetOne, CoreTypeOK, coreVars
  <2>2. WorkerTypeOK'
    BY <1>25 DEF ResetOne, WorkerTypeOK, workerVars
  <2>3. CondTypeOK' /\ CallerTypeOK' /\ OtherTypeOK'
    BY <1>25 DEF ResetOne, CondTypeOK, CallerTypeOK, OtherTypeOK, condVars,
                 callerVars, purgeVars
  <2> QED
    BY <2>1, <2>2, <2>3
<1>26. CASE ReleaseUnlock
  <2>1. CoreTypeOK'
    BY <1>26 DEF ReleaseUnlock, CoreTypeOK, coreVars
  <2>2. OtherTypeOK'
    BY <1>26 DEF ReleaseUnlock, OtherTypeOK, purgeVars
  <2>3. CondTypeOK' /\ CallerTypeOK' /\ WorkerTypeOK'
    BY <1>26 DEF ReleaseUnlock, CondTypeOK, CallerTypeOK, WorkerTypeOK,
                 condVars, callerVars, workerVars
  <2> QED
    BY <2>1, <2>2, <2>3
<1>27. CASE ReleaseBroadcast
  <2>1. CondTypeOK'
    BY <1>27 DEF ReleaseBroadcast, CondTypeOK, condVars, Broadcast, Parked
  <2>2. OtherTypeOK'
    BY <1>27 DEF ReleaseBroadcast, OtherTypeOK, purgeVars
  <2>3. CoreTypeOK' /\ CallerTypeOK' /\ WorkerTypeOK'
    BY <1>27 DEF ReleaseBroadcast, CoreTypeOK, CallerTypeOK, WorkerTypeOK,
                 coreVars, callerVars, workerVars
  <2> QED
    BY <2>1, <2>2, <2>3
<1>28. CASE ReleaseCheck
  <2>1. CoreTypeOK'
    BY <1>28 DEF ReleaseCheck, CoreTypeOK, coreVars
  <2>2. OtherTypeOK'
    BY <1>28 DEF ReleaseCheck, OtherTypeOK, purgeVars
  <2>3. CondTypeOK' /\ CallerTypeOK' /\ WorkerTypeOK'
    BY <1>28 DEF ReleaseCheck, CondTypeOK, CallerTypeOK, WorkerTypeOK,
                 condVars, callerVars, workerVars
  <2> QED
    BY <2>1, <2>2, <2>3
<1>29. ASSUME NEW t \in Tuners, TuneRead(t)
       PROVE  TypeOK'
  <2>1. OtherTypeOK'
    BY <1>29, PoolCoreAssumption DEF TuneRead, OtherTypeOK, purgeVars,
                                     CoreTypeOK
  <2>2. CoreTypeOK' /\ CondTypeOK' /\ CallerTypeOK' /\ WorkerTypeOK'
    BY <1>29 DEF TuneRead, CoreTypeOK, CondTypeOK, CallerTypeOK,
                 WorkerTypeOK, coreVars, condVars, callerVars, workerVars
  <2> QED
    BY <2>1, <2>2
<1>30. ASSUME NEW t \in Tuners, TuneStore(t)
       PROVE  TypeOK'
  <2>1. CoreTypeOK'
    BY <1>30 DEF TuneStore, CoreTypeOK, coreVars, OtherTypeOK
  <2>2. OtherTypeOK'
    BY <1>30 DEF TuneStore, OtherTypeOK, purgeVars, Wakeup
  <2>3. CondTypeOK' /\ CallerTypeOK' /\ WorkerTypeOK'
    BY <1>30 DEF TuneStore, CondTypeOK, CallerTypeOK, WorkerTypeOK, condVars,
                 callerVars, workerVars
  <2> QED
    BY <2>1, <2>2, <2>3
<1>31. ASSUME NEW t \in Tuners, TuneNotify(t)
       PROVE  TypeOK'
  <2>1. CondTypeOK'
    BY <1>31 DEF TuneNotify, CondTypeOK, condVars, Signal, Broadcast, Parked
  <2>2. OtherTypeOK'
    BY <1>31 DEF TuneNotify, OtherTypeOK, purgeVars
  <2>3. CoreTypeOK' /\ CallerTypeOK' /\ WorkerTypeOK'
    BY <1>31 DEF TuneNotify, CoreTypeOK, CallerTypeOK, WorkerTypeOK,
                 coreVars, callerVars, workerVars
  <2> QED
    BY <2>1, <2>2, <2>3
<1>32. CASE UNCHANGED vars
  BY <1>32 DEF vars, coreVars, condVars, callerVars, workerVars, purgeVars,
     CoreTypeOK, CondTypeOK, CallerTypeOK, WorkerTypeOK, OtherTypeOK
<1> QED
  BY <1>1, <1>2, <1>3, <1>4, <1>5, <1>6, <1>7, <1>8, <1>9, <1>10, <1>11,
     <1>12, <1>13, <1>14, <1>15, <1>16, <1>17, <1>18, <1>19, <1>20, <1>21,
     <1>22, <1>23, <1>24, <1>25, <1>26, <1>27, <1>28, <1>29, <1>30, <1>31,
     <1>32
     DEF Next, CallerStep, WorkerStep, PurgeStep, ReleaseStep, TuneStep

(* Every variable keeps its type in every pool.                            *)
THEOREM TypeCorrect == Spec => []TypeOK
<1> QED
  BY TypeInit, TypeStep, PTL DEF Spec

-----------------------------------------------------------------------------
(* The lock.                                                               *)

(* What LockExclusive says does not depend on anything but locked, pc and  *)
(* rpc, and most actions leave the critical sections as they are.          *)
LEMMA LockQuiet ==
  ASSUME LockExclusive, locked' = locked,
         \A c \in Callers : InCritical(c)' <=> InCritical(c),
         rpc' = "reset" <=> rpc = "reset"
  PROVE  LockExclusive'
  BY DEF LockExclusive

LEMMA LockStep == TypeOK /\ LockExclusive /\ [Next]_vars => LockExclusive'
<1> SUFFICES ASSUME TypeOK, LockExclusive, [Next]_vars
             PROVE  LockExclusive'
  OBVIOUS
<1> USE DEF TypeOK, CallerTypeOK, CoreTypeOK, LockFree, Lock, Unlock
<1>1. ASSUME NEW c \in Callers, Acquire(c)
      PROVE  LockExclusive'
  BY <1>1 DEF Acquire, LockExclusive, InCritical, DetachOrCheck
<1>2. ASSUME NEW c \in Callers, FindRoom(c)
      PROVE  LockExclusive'
  <2>1. locked' = locked /\ rpc' = rpc
    BY <1>2 DEF FindRoom, coreVars
  <2>2. \A d \in Callers : InCritical(d)' <=> InCritical(d)
    BY <1>2 DEF FindRoom, InCritical
  <2> QED
    BY <2>1, <2>2, LockQuiet
<1>3. ASSUME NEW c \in Callers, RefuseOverload(c)
      PROVE  LockExclusive'
  BY <1>3 DEF RefuseOverload, LockExclusive, InCritical
<1>4. ASSUME NEW c \in Callers, BecomeWaiter(c)
      PROVE  LockExclusive'
  BY <1>4 DEF BecomeWaiter, LockExclusive, InCritical
<1>5. ASSUME NEW c \in Callers, Spawn(c)
      PROVE  LockExclusive'
  BY <1>5 DEF Spawn, LockExclusive, InCritical
<1>6. ASSUME NEW c \in Callers, Register(c)
      PROVE  LockExclusive'
  BY <1>6 DEF Register, LockExclusive, InCritical
<1>7. ASSUME NEW c \in Callers, Resume(c)
      PROVE  LockExclusive'
  BY <1>7 DEF Resume, LockExclusive, InCritical, DetachOrCheck
<1>8. CASE ReleaseLock
  <2>1. locked' /\ rpc' = "reset"
    BY <1>8 DEF ReleaseLock
  <2>2. \A d \in Callers : ~InCritical(d)
    BY <1>8 DEF ReleaseLock, LockExclusive
  <2>3. \A d \in Callers : InCritical(d)' <=> InCritical(d)
    BY <1>8 DEF ReleaseLock, InCritical, callerVars
  <2> QED
    BY <2>1, <2>2, <2>3 DEF LockExclusive
<1>9. CASE ReleaseUnlock
  <2>1. ~locked' /\ rpc' # "reset"
    BY <1>9 DEF ReleaseUnlock
  <2>2. \A d \in Callers : ~InCritical(d)
    BY <1>9 DEF ReleaseUnlock, LockExclusive
  <2>3. \A d \in Callers : InCritical(d)' <=> InCritical(d)
    BY <1>9 DEF ReleaseUnlock, InCritical, callerVars
  <2> QED
    BY <2>1, <2>2, <2>3 DEF LockExclusive
<1>10. ASSUME NEW c \in Callers, TrySubmit(c)
       PROVE  LockExclusive'
  BY <1>10, LockQuiet DEF TrySubmit, InCritical, coreVars
<1>11. ASSUME NEW c \in Callers, Wake(c)
       PROVE  LockExclusive'
  BY <1>11, LockQuiet DEF Wake, InCritical, coreVars
<1>12. ASSUME NEW c \in Callers, Send(c)
       PROVE  LockExclusive'
  BY <1>12, LockQuiet DEF Send, InCritical, coreVars
<1>13. ASSUME NEW w \in Workers, WorkerStep(w)
       PROVE  LockExclusive'
  BY <1>13, LockQuiet
     DEF WorkerStep, Receive, Return, Revert, Shed, Insert, Depart, Recycle,
         InCritical, coreVars, callerVars
<1>14. CASE ExitSignal \/ PurgeStep
  BY <1>14, LockQuiet
     DEF ExitSignal, PurgeStep, PurgeTick, PurgeScan, PurgeFinish, PurgeAwake,
         InCritical, coreVars, callerVars
<1>15. CASE ReleaseClose \/ ResetOne \/ ReleaseBroadcast \/ ReleaseCheck
  BY <1>15, LockQuiet
     DEF ReleaseClose, ResetOne, ReleaseBroadcast, ReleaseCheck, InCritical,
         coreVars, callerVars
<1>16. ASSUME NEW t \in Tuners, TuneRead(t) \/ TuneStep(t)
       PROVE  LockExclusive'
  BY <1>16, LockQuiet
     DEF TuneRead, TuneStep, TuneStore, TuneNotify, InCritical, coreVars,
         callerVars
<1>17. CASE UNCHANGED vars
  BY <1>17, LockQuiet DEF vars, InCritical, coreVars, callerVars
<1> QED
  BY <1>1, <1>2, <1>3, <1>4, <1>5, <1>6, <1>7, <1>8, <1>9, <1>10, <1>11, <1>12, <1>13, <1>14, <1>15, <1>16, <1>17
     DEF Next, CallerStep, ReleaseStep

(* In every pool at most one thread is in the critical sections that the   *)
(* model splits into steps, and the lock word says so.                     *)
THEOREM MutualExclusion == Spec => []LockExclusive
<1>1. Init => LockExclusive
  BY PoolCoreAssumption DEF Init, LockExclusive, InCritical
<1> QED
  BY <1>1, TypeCorrect, LockStep, PTL DEF Spec

-----------------------------------------------------------------------------
(* The capacity.                                                           *)

(* CapacityRespected says nothing of how a caller got to spawn a worker.   *)
(* What makes it inductive: whatever capacity was stored, or read and not  *)
(* yet used, was asked for; and a caller about to spawn has seen room that *)
(* nobody else can take, because it has held the lock ever since.          *)
CapacityInv ==
  /\ capacity \in Asked
  /\ \A t \in Tuners : tuner[t].at = "store" => tuner[t].want \in Asked
  /\ \A c \in Callers : pc[c] = "check" => seen[c] \in Asked
  /\ \A c \in Callers : pc[c] = "spawn" => \E n \in Asked : running < n
  /\ \E n \in Asked : running <= n

LEMMA AskedPositive ==
  ASSUME Size # -1
  PROVE  Asked \subseteq Int /\ \A n \in Asked : n > 0
BY PoolCoreAssumption DEF Asked

LEMMA CapacityInit ==
  ASSUME Size # -1, Init
  PROVE  CapacityInv
<1>1. Size \in Asked /\ Size > 0
  BY PoolCoreAssumption DEF Asked
<1>2. capacity = Size /\ running = 0
  BY DEF Init
<1>3. \A t \in Tuners : tuner[t].at # "store"
  BY DEF Init
<1>4. \A c \in Callers : pc[c] = "idle"
  BY DEF Init
<1>5. \E n \in Asked : running <= n
  <2>1. running <= Size
    BY <1>1, <1>2, PoolCoreAssumption
  <2> QED
    BY <2>1, <1>1
<1> QED
  BY <1>1, <1>2, <1>3, <1>4, <1>5 DEF CapacityInv

(* Most actions neither spawn nor store nor read a capacity.               *)
LEMMA CapacityQuiet ==
  ASSUME CapacityInv, capacity' = capacity, running' = running,
         \A t \in Tuners :
           tuner'[t].at = "store" => tuner[t].at = "store" /\ tuner'[t] = tuner[t],
         \A c \in Callers :
           /\ pc'[c] = "check" => pc[c] = "check" /\ seen'[c] = seen[c]
           /\ pc'[c] = "spawn" => pc[c] = "spawn"
  PROVE  CapacityInv'
<1>1. Asked' = Asked
  BY DEF Asked
<1> QED
  BY <1>1 DEF CapacityInv

LEMMA CapacityStep ==
  ASSUME Size # -1
  PROVE  TypeOK /\ LockExclusive /\ CapacityInv /\ [Next]_vars => CapacityInv'
<1> SUFFICES ASSUME TypeOK, LockExclusive, CapacityInv, [Next]_vars
             PROVE  CapacityInv'
  OBVIOUS
<1> USE DEF TypeOK
<1>1. ASSUME NEW c \in Callers, Acquire(c) \/ Resume(c)
      PROVE  CapacityInv'
  <2>1. /\ capacity' = capacity /\ running' = running /\ tuner' = tuner
        /\ Asked' = Asked
    BY <1>1 DEF Acquire, Resume, DetachOrCheck, Asked
  <2>2. \A d \in Callers : pc'[d] = "spawn" => pc[d] = "spawn"
    BY <1>1 DEF Acquire, Resume, DetachOrCheck, CallerTypeOK
  <2>3. \A d \in Callers :
          pc'[d] = "check" => seen'[d] = capacity \/ (pc[d] = "check" /\ seen'[d] = seen[d])
    BY <1>1 DEF Acquire, Resume, DetachOrCheck, CallerTypeOK, WorkerTypeOK
  <2> QED
    BY <2>1, <2>2, <2>3 DEF CapacityInv
<1>2. ASSUME NEW c \in Callers, FindRoom(c)
      PROVE  CapacityInv'
  <2>1. /\ capacity' = capacity /\ running' = running /\ tuner' = tuner
        /\ Asked' = Asked
    BY <1>2 DEF FindRoom, coreVars, Asked
  <2>2. seen[c] \in Asked /\ seen[c] # -1 /\ running < seen[c]
    <3>1. seen[c] \in Asked
      BY <1>2 DEF FindRoom, CapacityInv
    <3>2. seen[c] # -1 /\ seen[c] \in Int
      BY <3>1, AskedPositive
    <3> QED
      BY <1>2, <3>1, <3>2 DEF FindRoom, HasRoom, CoreTypeOK
  <2>3. \A d \in Callers \ {c} : pc'[d] = pc[d] /\ seen'[d] = seen[d]
    BY <1>2 DEF FindRoom, CallerTypeOK, WorkerTypeOK
  <2>4. pc'[c] = "spawn"
    BY <1>2 DEF FindRoom, CallerTypeOK
  <2> QED
    BY <2>1, <2>2, <2>3, <2>4 DEF CapacityInv
<1>3. ASSUME NEW c \in Callers, Spawn(c)
      PROVE  CapacityInv'
  <2>1. /\ capacity' = capacity /\ running' = running + 1 /\ tuner' = tuner
        /\ seen' = seen /\ Asked' = Asked
    BY <1>3 DEF Spawn, Asked
  <2>2. \A d \in Callers : pc'[d] = "check" => pc[d] = "check"
    BY <1>3 DEF Spawn, CallerTypeOK
  <2>3. \A d \in Callers : pc'[d] # "spawn"
    BY <1>3 DEF Spawn, CallerTypeOK, LockExclusive, InCritical
  <2>4. \E n \in Asked : running' <= n
    <3>1. PICK n \in Asked : running < n
      BY <1>3 DEF Spawn, CapacityInv
    <3>2. running + 1 <= n
      BY <3>1, AskedPositive DEF CoreTypeOK
    <3> QED
      BY <3>2, <2>1
  <2> QED
    BY <2>1, <2>2, <2>3, <2>4 DEF CapacityInv
<1>4. ASSUME NEW w \in Workers, Depart(w)
      PROVE  CapacityInv'
  <2>1. /\ capacity' = capacity /\ running' = running - 1 /\ tuner' = tuner
        /\ seen' = seen /\ pc' = pc /\ Asked' = Asked
    BY <1>4 DEF Depart, callerVars, Asked
  <2>2. \A n \in Asked : (running < n => running' < n) /\ (running <= n => running' <= n)
    BY <2>1, AskedPositive DEF CoreTypeOK
  <2> QED
    BY <2>1, <2>2 DEF CapacityInv
<1>5. ASSUME NEW t \in Tuners, TuneRead(t)
      PROVE  CapacityInv'
  <2>1. /\ capacity' = capacity /\ running' = running /\ seen' = seen
        /\ pc' = pc /\ Asked' = Asked
    BY <1>5 DEF TuneRead, coreVars, callerVars, Asked
  <2>2. PICK size \in TuneSizes :
          tuner' = [tuner EXCEPT ![t] =
                      [at   |-> IF NoTuning(size) THEN "done" ELSE "store",
                       seen |-> capacity,
                       want |-> size]]
    BY <1>5 DEF TuneRead
  <2>3. tuner'[t].at = "store" => tuner'[t].want \in Asked
    <3>1. tuner'[t].at = (IF NoTuning(size) THEN "done" ELSE "store")
      BY <2>2 DEF OtherTypeOK
    <3>2. tuner'[t].want = size
      BY <2>2 DEF OtherTypeOK
    <3>3. ~NoTuning(size) => size \in Asked
      BY PoolCoreAssumption DEF NoTuning, Asked
    <3> QED
      BY <3>1, <3>2, <3>3
  <2>4. \A u \in Tuners \ {t} : tuner'[u] = tuner[u]
    BY <2>2 DEF OtherTypeOK
  <2> QED
    BY <2>1, <2>3, <2>4 DEF CapacityInv
<1>6. ASSUME NEW t \in Tuners, TuneStore(t)
      PROVE  CapacityInv'
  <2>1. /\ running' = running /\ seen' = seen /\ pc' = pc /\ Asked' = Asked
        /\ capacity' = tuner[t].want
    BY <1>6 DEF TuneStore, callerVars, Asked
  <2>2. tuner[t].want \in Asked
    BY <1>6 DEF TuneStore, CapacityInv
  <2>3. \A u \in Tuners : tuner'[u].at = "store" => tuner'[u] = tuner[u]
    BY <1>6 DEF TuneStore, OtherTypeOK, Wakeup
  <2> QED
    BY <2>1, <2>2, <2>3 DEF CapacityInv
<1>7. ASSUME NEW t \in Tuners, TuneNotify(t)
      PROVE  CapacityInv'
  <2>1. \A u \in Tuners : tuner'[u].at = "store" => tuner'[u] = tuner[u]
    BY <1>7 DEF TuneNotify, OtherTypeOK
  <2> QED
    BY <1>7, <2>1, CapacityQuiet DEF TuneNotify, coreVars, callerVars
<1>8. ASSUME NEW c \in Callers,
             TrySubmit(c) \/ RefuseOverload(c) \/ BecomeWaiter(c) \/ Register(c)
             \/ Wake(c) \/ Send(c)
      PROVE  CapacityInv'
  <2>1. capacity' = capacity /\ running' = running /\ tuner' = tuner
    BY <1>8 DEF TrySubmit, RefuseOverload, BecomeWaiter, Register, Wake, Send,
                coreVars
  <2>2. \A d \in Callers :
          /\ pc'[d] = "check" => pc[d] = "check" /\ seen'[d] = seen[d]
          /\ pc'[d] = "spawn" => pc[d] = "spawn"
    BY <1>8 DEF TrySubmit, RefuseOverload, BecomeWaiter, Register, Wake, Send,
                CallerTypeOK, WorkerTypeOK
  <2> QED
    BY <2>1, <2>2, CapacityQuiet
<1>9. ASSUME NEW w \in Workers, Return(w) \/ Revert(w)
      PROVE  CapacityInv'
  <2>1. capacity' = capacity /\ running' = running /\ tuner' = tuner /\ pc' = pc
    BY <1>9 DEF Return, Revert, coreVars, callerVars
  <2>2. \A c \in Callers : seen'[c] = seen[c]
    BY <1>9, PoolCoreAssumption DEF Return, Revert, WorkerTypeOK
  <2> QED
    BY <2>1, <2>2, CapacityQuiet
<1>10. ASSUME NEW w \in Workers,
              Receive(w) \/ Shed(w) \/ Insert(w) \/ Recycle(w)
       PROVE  CapacityInv'
  BY <1>10, CapacityQuiet
     DEF Receive, Shed, Insert, Recycle, coreVars, callerVars
<1>11. CASE ExitSignal \/ PurgeStep
  BY <1>11, CapacityQuiet
     DEF ExitSignal, PurgeStep, PurgeTick, PurgeScan, PurgeFinish, PurgeAwake,
         coreVars, callerVars
<1>12. CASE ReleaseClose \/ ReleaseStep
  BY <1>12, CapacityQuiet
     DEF ReleaseClose, ReleaseStep, ReleaseLock, ResetOne, ReleaseUnlock,
         ReleaseBroadcast, ReleaseCheck, coreVars, callerVars
<1>13. CASE UNCHANGED vars
  BY <1>13, CapacityQuiet DEF vars, coreVars, callerVars
<1> QED
  BY <1>1, <1>2, <1>3, <1>4, <1>5, <1>6, <1>7, <1>8, <1>9, <1>10, <1>11, <1>12, <1>13
     DEF Next, CallerStep, WorkerStep, TuneStep

(* A bounded pool never runs more workers than the largest capacity that   *)
(* was ever asked for, for any number of callers, workers and tuners.      *)
THEOREM CapacityHolds == Spec => []CapacityRespected
<1>1. CASE Size = -1
  <2>1. CapacityRespected
    BY <1>1 DEF CapacityRespected
  <2> QED
    BY <2>1, PTL
<1>2. CASE Size # -1
  <2>1. Init => CapacityInv
    BY <1>2, CapacityInit
  <2>2. TypeOK /\ LockExclusive /\ CapacityInv /\ [Next]_vars => CapacityInv'
    BY <1>2, CapacityStep
  <2>3. CapacityInv => CapacityRespected
    BY DEF CapacityInv, CapacityRespected, Asked
  <2> QED
    BY <2>1, <2>2, <2>3, TypeCorrect, MutualExclusion, PTL DEF Spec
<1> QED
  BY <1>1, <1>2

=============================================================================
