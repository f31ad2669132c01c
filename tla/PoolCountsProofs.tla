--------------------------- MODULE PoolCountsProofs ---------------------------
(***************************************************************************)
(* What PoolCore counts, for every number of callers, workers and tuners   *)
(* and every option: running, waiting, the tokens of the condition         *)
(* variable; and what depends on the counts: who is refused, and who       *)
(* closes the latch.                                                       *)
(***************************************************************************)
EXTENDS PoolCoreProofs, FiniteSetTheorems

-----------------------------------------------------------------------------
(* running                                                                 *)

LEMMA LiveFinite == IsFiniteSet(Live) /\ Cardinality(Live) \in Nat
<1>1. Live \subseteq Workers
  BY DEF Live
<1> QED
  BY <1>1, PoolCoreAssumption, FS_Subset, FS_CardinalityType

LEMMA LiveQuiet ==
  ASSUME RunningIsLive, running' = running, Live' = Live
  PROVE  RunningIsLive'
  BY DEF RunningIsLive

LEMMA LiveStep == TypeOK /\ RunningIsLive /\ [Next]_vars => RunningIsLive'
<1> SUFFICES ASSUME TypeOK, RunningIsLive, [Next]_vars
             PROVE  RunningIsLive'
  OBVIOUS
<1> USE DEF TypeOK, WorkerTypeOK
<1>1. ASSUME NEW c \in Callers, Spawn(c)
      PROVE  RunningIsLive'
  <2>1. PICK w \in Fetchable : wpc' = [wpc EXCEPT ![w] = "recv"]
    BY <1>1 DEF Spawn
  <2>2. w \in Workers /\ w \notin Live
    BY DEF Fetchable, Cached, Live
  <2>3. Live' = Live \cup {w}
    BY <2>1, <2>2 DEF Live
  <2>4. running' = running + 1
    BY <1>1 DEF Spawn
  <2> QED
    BY <2>2, <2>3, <2>4, LiveFinite, FS_AddElement DEF RunningIsLive
<1>2. ASSUME NEW w \in Workers, Depart(w)
      PROVE  RunningIsLive'
  <2>1. w \in Live
    BY <1>2 DEF Depart, Live
  <2>2. Live' = Live \ {w}
    BY <1>2 DEF Depart, Live
  <2>3. running' = running - 1
    BY <1>2 DEF Depart
  <2> QED
    BY <2>1, <2>2, <2>3, LiveFinite, FS_RemoveElement DEF RunningIsLive
<1>3. ASSUME NEW w \in Workers, Receive(w)
      PROVE  RunningIsLive'
  <2>1. Live' = Live
    BY <1>3 DEF Receive, Live
  <2>2. running' = running
    BY <1>3 DEF Receive, coreVars
  <2> QED BY <2>1, <2>2, LiveQuiet
<1>4. ASSUME NEW w \in Workers, Return(w)
      PROVE  RunningIsLive'
  <2>1. Live' = Live
    BY <1>4 DEF Return, Live
  <2>2. running' = running
    BY <1>4 DEF Return, coreVars
  <2> QED BY <2>1, <2>2, LiveQuiet
<1>5. ASSUME NEW w \in Workers, Revert(w) \/ Shed(w)
      PROVE  RunningIsLive'
  <2>1. Live' = Live
    BY <1>5 DEF Revert, Shed, Live
  <2>2. running' = running
    BY <1>5 DEF Revert, Shed, coreVars
  <2> QED BY <2>1, <2>2, LiveQuiet
<1>6. ASSUME NEW w \in Workers, Insert(w) \/ Recycle(w)
      PROVE  RunningIsLive'
  <2>1. Live' = Live
    BY <1>6 DEF Insert, Recycle, Live
  <2>2. running' = running
    BY <1>6 DEF Insert, Recycle, coreVars
  <2> QED BY <2>1, <2>2, LiveQuiet
<1>7. ASSUME NEW c \in Callers,
             \/ TrySubmit(c) \/ Acquire(c) \/ FindRoom(c) \/ RefuseOverload(c)
             \/ BecomeWaiter(c) \/ Register(c) \/ Wake(c) \/ Resume(c) \/ Send(c)
      PROVE  RunningIsLive'
  <2>1. running' = running /\ wpc' = wpc
    BY <1>7 DEF TrySubmit, Acquire, FindRoom, RefuseOverload, BecomeWaiter,
                Register, Wake, Resume, Send, coreVars, workerVars
  <2> QED BY <2>1, LiveQuiet DEF Live
<1>8. CASE ExitSignal \/ PurgeStep
  <2>1. running' = running /\ wpc' = wpc
    BY <1>8 DEF ExitSignal, PurgeStep, PurgeTick, PurgeScan, PurgeFinish,
                PurgeAwake, coreVars, workerVars
  <2> QED BY <2>1, LiveQuiet DEF Live
<1>9. CASE ReleaseClose \/ ReleaseStep
  <2>1. running' = running /\ wpc' = wpc
    BY <1>9 DEF ReleaseClose, ReleaseStep, ReleaseLock, ResetOne, ReleaseUnlock,
                ReleaseBroadcast, ReleaseCheck, coreVars, workerVars
  <2> QED BY <2>1, LiveQuiet DEF Live
<1>10. ASSUME NEW t \in Tuners, TuneRead(t) \/ TuneStep(t)
       PROVE  RunningIsLive'
  <2>1. running' = running /\ wpc' = wpc
    BY <1>10 DEF TuneRead, TuneStep, TuneStore, TuneNotify, coreVars, workerVars
  <2> QED BY <2>1, LiveQuiet DEF Live
<1>11. CASE UNCHANGED vars
  <2>1. running' = running /\ wpc' = wpc
    BY <1>11 DEF vars, coreVars, workerVars
  <2> QED BY <2>1, LiveQuiet DEF Live
<1> QED
  BY <1>1, <1>2, <1>3, <1>4, <1>5, <1>6, <1>7, <1>8, <1>9, <1>10, <1>11
     DEF Next, CallerStep, WorkerStep

(* The count that decides about spawning, purging and the latch is the     *)
(* number of live workers, by whichever of its ways out each of them went  *)
(* (worker.rs run() and the epilogue of work()).                           *)
THEOREM RunningCounts == Spec => []RunningIsLive
<1>1. Init => RunningIsLive
  <2> SUFFICES ASSUME Init PROVE RunningIsLive
    OBVIOUS
  <2>1. Live = {}
    BY DEF Init, Live
  <2> QED BY <2>1, FS_EmptySet DEF Init, RunningIsLive
<1> QED
  BY <1>1, TypeCorrect, LiveStep, PTL DEF Spec

-----------------------------------------------------------------------------
(* waiting                                                                 *)

Waiters == {c \in Callers : pc[c] \in {"register", "parked", "woken"}}

LEMMA WaitersFinite ==
  /\ IsFiniteSet(Waiters) /\ Cardinality(Waiters) \in Nat
  /\ IsFiniteSet(Parked) /\ Cardinality(Parked) \in Nat
<1>1. Waiters \subseteq Callers /\ Parked \subseteq Callers
  BY DEF Waiters, Parked
<1> QED
  BY <1>1, PoolCoreAssumption, FS_Subset, FS_CardinalityType

(* Nonblocking, or a limit that any number of waiters has reached.         *)
NeverWaits == Nonblocking \/ MaxBlockingTasks < 0

WaitingInv == WaitingExact /\ WaitingBounded

LEMMA WaitingQuiet ==
  ASSUME WaitingInv, waiting' = waiting, Waiters' = Waiters
  PROVE  WaitingInv'
<1>1. WaitingExact'
  BY DEF WaitingInv, WaitingExact, Waiters
<1>2. WaitingBounded'
  BY DEF WaitingInv, WaitingBounded
<1> QED BY <1>1, <1>2 DEF WaitingInv

LEMMA WaitingStep == TypeOK /\ WaitingInv /\ [Next]_vars => WaitingInv'
<1> SUFFICES ASSUME TypeOK, WaitingInv, [Next]_vars
             PROVE  WaitingInv'
  OBVIOUS
<1> USE DEF TypeOK, CoreTypeOK, CallerTypeOK
<1>a. waiting = Cardinality(Waiters) /\ WaitingBounded
  BY DEF WaitingInv, WaitingExact, Waiters
<1>b. waiting' = Cardinality(Waiters)' => WaitingExact'
  BY DEF WaitingExact, Waiters
<1>1. ASSUME NEW c \in Callers, BecomeWaiter(c)
      PROVE  WaitingInv'
  <2>1. waiting' = waiting + 1 /\ ~Overloaded
    BY <1>1 DEF BecomeWaiter
  <2>2. c \notin Waiters /\ Waiters' = Waiters \cup {c}
    BY <1>1 DEF BecomeWaiter, Waiters
  <2>3. waiting' = Cardinality(Waiters')
    BY <1>a, <2>1, <2>2, WaitersFinite, FS_AddElement
  <2>4. ~Nonblocking /\ (MaxBlockingTasks = 0 \/ waiting < MaxBlockingTasks)
    BY <2>1, PoolCoreAssumption DEF Overloaded
  <2>5. waiting \in Nat
    BY <1>a, WaitersFinite
  <2>6. WaitingBounded'
    BY <2>1, <2>4, <2>5, PoolCoreAssumption DEF WaitingBounded
  <2> QED BY <1>b, <2>3, <2>6 DEF WaitingInv
<1>2. ASSUME NEW c \in Callers, Resume(c)
      PROVE  WaitingInv'
  <2>1. waiting' = waiting - 1 /\ pc[c] = "woken"
    BY <1>2 DEF Resume
  <2>2. c \in Waiters /\ Waiters' = Waiters \ {c}
    BY <1>2 DEF Resume, DetachOrCheck, Waiters
  <2>3. waiting' = Cardinality(Waiters')
    BY <1>a, <2>1, <2>2, WaitersFinite, FS_RemoveElement
  <2>4. waiting # 0
    BY <1>a, <2>2, WaitersFinite, FS_EmptySet
  <2>5. WaitingBounded'
    BY <1>a, <2>1, <2>4, PoolCoreAssumption DEF WaitingBounded
  <2> QED BY <1>b, <2>3, <2>5 DEF WaitingInv
<1>3. ASSUME NEW c \in Callers, Register(c) \/ Wake(c)
      PROVE  WaitingInv'
  <2>1. Waiters' = Waiters
    BY <1>3 DEF Register, Wake, Waiters
  <2>2. waiting' = waiting
    BY <1>3 DEF Register, Wake, coreVars
  <2> QED BY <2>1, <2>2, WaitingQuiet
<1>4. ASSUME NEW c \in Callers, TrySubmit(c) \/ Acquire(c) \/ FindRoom(c)
      PROVE  WaitingInv'
  <2>1. Waiters' = Waiters
    BY <1>4 DEF TrySubmit, Acquire, DetachOrCheck, FindRoom, Waiters
  <2>2. waiting' = waiting
    BY <1>4 DEF TrySubmit, Acquire, FindRoom, coreVars
  <2> QED BY <2>1, <2>2, WaitingQuiet
<1>5. ASSUME NEW c \in Callers, RefuseOverload(c) \/ Spawn(c) \/ Send(c)
      PROVE  WaitingInv'
  <2>1. Waiters' = Waiters
    BY <1>5 DEF RefuseOverload, Spawn, Send, Waiters
  <2>2. waiting' = waiting
    BY <1>5 DEF RefuseOverload, Spawn, Send, coreVars
  <2> QED BY <2>1, <2>2, WaitingQuiet
<1>6. ASSUME NEW w \in Workers, WorkerStep(w)
      PROVE  WaitingInv'
  <2>1. waiting' = waiting /\ pc' = pc
    BY <1>6 DEF WorkerStep, Receive, Return, Revert, Shed, Insert, Depart,
                Recycle, coreVars, callerVars
  <2> QED BY <2>1, WaitingQuiet DEF Waiters
<1>7. CASE ExitSignal \/ PurgeStep
  <2>1. waiting' = waiting /\ pc' = pc
    BY <1>7 DEF ExitSignal, PurgeStep, PurgeTick, PurgeScan, PurgeFinish,
                PurgeAwake, coreVars, callerVars
  <2> QED BY <2>1, WaitingQuiet DEF Waiters
<1>8. CASE ReleaseClose \/ ReleaseStep
  <2>1. waiting' = waiting /\ pc' = pc
    BY <1>8 DEF ReleaseClose, ReleaseStep, ReleaseLock, ResetOne, ReleaseUnlock,
                ReleaseBroadcast, ReleaseCheck, coreVars, callerVars
  <2> QED BY <2>1, WaitingQuiet DEF Waiters
<1>9. ASSUME NEW t \in Tuners, TuneRead(t) \/ TuneStep(t)
      PROVE  WaitingInv'
  <2>1. waiting' = waiting /\ pc' = pc
    BY <1>9 DEF TuneRead, TuneStep, TuneStore, TuneNotify, coreVars, callerVars
  <2> QED BY <2>1, WaitingQuiet DEF Waiters
<1>10. CASE UNCHANGED vars
  <2>1. waiting' = waiting /\ pc' = pc
    BY <1>10 DEF vars, coreVars, callerVars
  <2> QED BY <2>1, WaitingQuiet DEF Waiters
<1> QED
  BY <1>1, <1>2, <1>3, <1>4, <1>5, <1>6, <1>7, <1>8, <1>9, <1>10
     DEF Next, CallerStep

LEMMA WaitingAlways == Spec => []WaitingInv
<1>1. Init => WaitingInv
  <2> SUFFICES ASSUME Init PROVE WaitingInv
    OBVIOUS
  <2>1. Waiters = {} /\ waiting = 0
    BY DEF Init, Waiters
  <2>2. WaitingExact
    BY <2>1, FS_EmptySet DEF WaitingExact, Waiters
  <2>3. WaitingBounded
    BY <2>1, PoolCoreAssumption DEF WaitingBounded
  <2> QED BY <2>2, <2>3 DEF WaitingInv
<1> QED
  BY <1>1, TypeCorrect, WaitingStep, PTL DEF Spec

(* waiting counts the callers in wait(), woken ones included until they    *)
(* have the lock again (pool_common.rs retrieve_worker()).                 *)
THEOREM WaitingCounts == Spec => []WaitingExact
<1>1. WaitingInv => WaitingExact
  BY DEF WaitingInv
<1> QED BY <1>1, WaitingAlways, PTL

(* max_blocking_tasks bounds the callers that wait, and nobody waits where *)
(* it is negative or the pool is nonblocking.                              *)
THEOREM WaitersBounded == Spec => []WaitingBounded
<1>1. WaitingInv => WaitingBounded
  BY DEF WaitingInv
<1> QED BY <1>1, WaitingAlways, PTL

-----------------------------------------------------------------------------
(* The tokens of the condition variable                                    *)

LEMMA TokensQuiet ==
  ASSUME NoStrayToken, tokens' = tokens, Parked' = Parked
  PROVE  NoStrayToken'
  BY DEF NoStrayToken

(* Neither kind of wake-up issues a token to nobody.                       *)
LEMMA TokensIssued ==
  ASSUME TypeOK, NoStrayToken, Signal \/ Broadcast, pc' = pc
  PROVE  NoStrayToken'
<1>1. Parked' = Parked
  BY DEF Parked
<1>2. Cardinality(Parked) \in Nat /\ tokens \in Nat
  BY WaitersFinite DEF TypeOK, CondTypeOK
<1>3. tokens' <= Cardinality(Parked)
  BY <1>2 DEF Signal, Broadcast, NoStrayToken
<1> QED BY <1>1, <1>3 DEF NoStrayToken

LEMMA TokensStep == TypeOK /\ NoStrayToken /\ [Next]_vars => NoStrayToken'
<1> SUFFICES ASSUME TypeOK, NoStrayToken, [Next]_vars
             PROVE  NoStrayToken'
  OBVIOUS
<1>a. tokens \in Nat /\ pc \in [Callers -> CallerPC]
  BY DEF TypeOK, CondTypeOK, CallerTypeOK
<1>b. tokens <= Cardinality(Parked) /\ Cardinality(Parked) \in Nat
  BY WaitersFinite DEF NoStrayToken
<1>1. ASSUME NEW c \in Callers, Register(c)
      PROVE  NoStrayToken'
  <2>1. CASE tokens > 0
    <3>1. Parked' = Parked /\ tokens' = tokens - 1
      BY <1>1, <1>a, <2>1 DEF Register, Parked
    <3> QED BY <1>a, <1>b, <3>1 DEF NoStrayToken
  <2>2. CASE tokens = 0
    <3>1. Parked' = Parked \cup {c} /\ tokens' = 0
      BY <1>1, <1>a, <2>2 DEF Register, Parked
    <3>2. Cardinality(Parked \cup {c}) =
            IF c \in Parked THEN Cardinality(Parked) ELSE Cardinality(Parked) + 1
      BY WaitersFinite, FS_AddElement
    <3>3. Cardinality(Parked \cup {c}) >= 0
      BY <1>b, <3>2
    <3> QED BY <3>1, <3>3 DEF NoStrayToken
  <2> QED BY <1>a, <2>1, <2>2
<1>2. ASSUME NEW c \in Callers, Wake(c)
      PROVE  NoStrayToken'
  <2>1. c \in Parked /\ Parked' = Parked \ {c}
    BY <1>2, <1>a DEF Wake, Parked
  <2>2. Cardinality(Parked') = Cardinality(Parked) - 1
    BY <2>1, WaitersFinite, FS_RemoveElement
  <2>3. Cardinality(Parked) # 0
    BY <2>1, WaitersFinite, FS_EmptySet
  <2>4. tokens' = IF tokens > 0 THEN tokens - 1 ELSE 0
    BY <1>2, <1>a DEF Wake
  <2> QED BY <1>a, <1>b, <2>2, <2>3, <2>4 DEF NoStrayToken
<1>3. ASSUME NEW c \in Callers, TrySubmit(c) \/ Acquire(c) \/ FindRoom(c)
      PROVE  NoStrayToken'
  <2>1. Parked' = Parked
    BY <1>3, <1>a DEF TrySubmit, Acquire, DetachOrCheck, FindRoom, Parked
  <2>2. tokens' = tokens
    BY <1>3 DEF TrySubmit, Acquire, FindRoom, condVars
  <2> QED BY <2>1, <2>2, TokensQuiet
<1>4. ASSUME NEW c \in Callers,
             RefuseOverload(c) \/ BecomeWaiter(c) \/ Spawn(c) \/ Send(c)
      PROVE  NoStrayToken'
  <2>1. Parked' = Parked
    BY <1>4, <1>a DEF RefuseOverload, BecomeWaiter, Spawn, Send, Parked
  <2>2. tokens' = tokens
    BY <1>4 DEF RefuseOverload, BecomeWaiter, Spawn, Send, condVars
  <2> QED BY <2>1, <2>2, TokensQuiet
<1>5. ASSUME NEW c \in Callers, Resume(c)
      PROVE  NoStrayToken'
  <2>1. Parked' = Parked
    BY <1>5, <1>a DEF Resume, DetachOrCheck, Parked
  <2>2. tokens' = tokens
    BY <1>5 DEF Resume, condVars
  <2> QED BY <2>1, <2>2, TokensQuiet
<1>6. ASSUME NEW w \in Workers, WorkerStep(w)
      PROVE  NoStrayToken'
  <2>1. pc' = pc
    BY <1>6 DEF WorkerStep, Receive, Return, Revert, Shed, Insert, Depart,
                Recycle, callerVars
  <2>2. tokens' = tokens \/ Signal \/ Broadcast
    BY <1>6 DEF WorkerStep, Receive, Return, Revert, Shed, Insert, Depart,
                Recycle, condVars
  <2> QED BY <2>1, <2>2, TokensQuiet, TokensIssued DEF Parked
<1>7. CASE ExitSignal \/ PurgeStep
  <2>1. pc' = pc
    BY <1>7 DEF ExitSignal, PurgeStep, PurgeTick, PurgeScan, PurgeFinish,
                PurgeAwake, callerVars
  <2>2. tokens' = tokens \/ Signal \/ Broadcast
    BY <1>7 DEF ExitSignal, PurgeStep, PurgeTick, PurgeScan, PurgeFinish,
                PurgeAwake, condVars
  <2> QED BY <2>1, <2>2, TokensQuiet, TokensIssued DEF Parked
<1>8. CASE ReleaseClose \/ ReleaseStep
  <2>1. pc' = pc
    BY <1>8 DEF ReleaseClose, ReleaseStep, ReleaseLock, ResetOne, ReleaseUnlock,
                ReleaseBroadcast, ReleaseCheck, callerVars
  <2>2. tokens' = tokens \/ Broadcast
    BY <1>8 DEF ReleaseClose, ReleaseStep, ReleaseLock, ResetOne, ReleaseUnlock,
                ReleaseBroadcast, ReleaseCheck, condVars
  <2> QED BY <2>1, <2>2, TokensQuiet, TokensIssued DEF Parked
<1>9. ASSUME NEW t \in Tuners, TuneRead(t) \/ TuneStep(t)
      PROVE  NoStrayToken'
  <2>1. pc' = pc
    BY <1>9 DEF TuneRead, TuneStep, TuneStore, TuneNotify, callerVars
  <2>2. tokens' = tokens \/ Signal \/ Broadcast
    BY <1>9 DEF TuneRead, TuneStep, TuneStore, TuneNotify, condVars
  <2> QED BY <2>1, <2>2, TokensQuiet, TokensIssued DEF Parked
<1>10. CASE UNCHANGED vars
  BY <1>10, TokensQuiet DEF vars, condVars, callerVars, Parked
<1> QED
  BY <1>1, <1>2, <1>3, <1>4, <1>5, <1>6, <1>7, <1>8, <1>9, <1>10
     DEF Next, CallerStep

(* The condition variable never owes more wake-ups than it has sleepers    *)
(* (cond.rs signal(), broadcast() and both ways out of wait()).            *)
THEOREM TokensBounded == Spec => []NoStrayToken
<1>1. Init => NoStrayToken
  <2>1. Init => Parked = {} /\ tokens = 0
    BY DEF Init, Parked
  <2> QED BY <2>1, FS_EmptySet DEF NoStrayToken
<1> QED
  BY <1>1, TypeCorrect, TokensStep, PTL DEF Spec

-----------------------------------------------------------------------------
(* The end of a pool                                                       *)

(* release() goes past its exchange with the pool closed for good.         *)
ClosedFirst == rpc \notin {"open", "off"} => IsClosed

ReleaseInv == ClosedFirst /\ ClosedQueueEmpty /\ LatchCloses

LEMMA ReleaseQuiet ==
  ASSUME ReleaseInv, rpc' = rpc, state' = state, items = <<>> => items' = <<>>,
         running' = 0 => running = 0 \/ \E w \in Workers : wpc'[w] = "last",
         allDone => allDone',
         \A w \in Workers : wpc[w] = "last" => wpc'[w] = "last" \/ allDone'
  PROVE  ReleaseInv'
<1>1. ClosedFirst'
  BY DEF ReleaseInv, ClosedFirst, IsClosed
<1>2. ClosedQueueEmpty'
  BY DEF ReleaseInv, ClosedQueueEmpty
<1>3. LatchCloses'
  BY DEF ReleaseInv, LatchCloses
<1> QED BY <1>1, <1>2, <1>3 DEF ReleaseInv

LEMMA ReleaseStepKeeps ==
  TypeOK /\ RunningIsLive /\ ReleaseInv /\ [Next]_vars => ReleaseInv'
<1> SUFFICES ASSUME TypeOK, RunningIsLive, ReleaseInv, [Next]_vars
             PROVE  ReleaseInv'
  OBVIOUS
<1>a. running \in Nat
  BY LiveFinite DEF RunningIsLive
<1>b. wpc \in [Workers -> WorkerPC]
  BY DEF TypeOK, WorkerTypeOK
<1>1. ASSUME NEW c \in Callers, Spawn(c)
      PROVE  ReleaseInv'
  <2>1. PICK w \in Fetchable : wpc' = [wpc EXCEPT ![w] = "recv"]
    BY <1>1 DEF Spawn
  <2>2. wpc[w] \in {"cached", "fresh"}
    BY DEF Fetchable, Cached
  <2>3. \A v \in Workers : wpc[v] = "last" => wpc'[v] = "last"
    BY <1>b, <2>1, <2>2
  <2>4. running' = running + 1 /\ running' # 0
    BY <1>1, <1>a DEF Spawn
  <2>5. rpc' = rpc /\ state' = state /\ items' = items /\ allDone' = allDone
    BY <1>1 DEF Spawn
  <2> QED BY <2>3, <2>4, <2>5, ReleaseQuiet
<1>2. ASSUME NEW c \in Callers,
             TrySubmit(c) \/ FindRoom(c) \/ RefuseOverload(c) \/ BecomeWaiter(c)
      PROVE  ReleaseInv'
  <2>1. UNCHANGED <<rpc, state, items, running, allDone, wpc>>
    BY <1>2 DEF TrySubmit, FindRoom, RefuseOverload, BecomeWaiter, coreVars,
                workerVars
  <2> QED BY <2>1, ReleaseQuiet
<1>3. ASSUME NEW c \in Callers, Register(c) \/ Wake(c) \/ Send(c)
      PROVE  ReleaseInv'
  <2>1. UNCHANGED <<rpc, state, items, running, allDone, wpc>>
    BY <1>3 DEF Register, Wake, Send, coreVars, workerVars
  <2> QED BY <2>1, ReleaseQuiet
<1>4. ASSUME NEW c \in Callers, Acquire(c) \/ Resume(c)
      PROVE  ReleaseInv'
  <2>1. UNCHANGED <<rpc, state, running, allDone, wpc>>
    BY <1>4 DEF Acquire, Resume, workerVars
  <2>2. items = <<>> => items' = <<>>
    BY <1>4 DEF Acquire, Resume, DetachOrCheck
  <2> QED BY <2>1, <2>2, ReleaseQuiet
<1>5. ASSUME NEW w \in Workers, Receive(w) \/ Return(w) \/ Revert(w) \/ Shed(w)
      PROVE  ReleaseInv'
  <2>1. UNCHANGED <<rpc, state, items, running, allDone>>
    BY <1>5 DEF Receive, Return, Revert, Shed, coreVars
  <2>2. \A v \in Workers : wpc[v] = "last" => wpc'[v] = "last"
    BY <1>b, <1>5 DEF Receive, Return, Revert, Shed
  <2> QED BY <2>1, <2>2, ReleaseQuiet
<1>6. ASSUME NEW w \in Workers, Insert(w)
      PROVE  ReleaseInv'
  <2>1. UNCHANGED <<rpc, state, running, allDone>>
    BY <1>6 DEF Insert
  <2>2. \A v \in Workers : wpc[v] = "last" => wpc'[v] = "last"
    BY <1>b, <1>6 DEF Insert
  <2>3. IsClosed => items' = items
    BY <1>6 DEF Insert, Refused
  <2>4. ClosedFirst'
    BY <2>1 DEF ReleaseInv, ClosedFirst, IsClosed
  <2>5. ClosedQueueEmpty'
    BY <2>1, <2>3 DEF ReleaseInv, ClosedFirst, ClosedQueueEmpty
  <2>6. LatchCloses'
    BY <2>1, <2>2 DEF ReleaseInv, LatchCloses
  <2> QED BY <2>4, <2>5, <2>6 DEF ReleaseInv
<1>7. ASSUME NEW w \in Workers, Depart(w)
      PROVE  ReleaseInv'
  <2>1. UNCHANGED <<rpc, state, items, allDone>>
    BY <1>7 DEF Depart
  <2>2. running' = 0 => wpc'[w] = "last"
    BY <1>a, <1>b, <1>7 DEF Depart
  <2>3. \A v \in Workers : wpc[v] = "last" => wpc'[v] = "last"
    BY <1>b, <1>7 DEF Depart
  <2> QED BY <2>1, <2>2, <2>3, ReleaseQuiet
<1>8. ASSUME NEW w \in Workers, Recycle(w)
      PROVE  ReleaseInv'
  <2>1. UNCHANGED <<rpc, state, items, running>>
    BY <1>8 DEF Recycle
  <2>2. \A v \in Workers : v # w => wpc'[v] = wpc[v]
    BY <1>b, <1>8 DEF Recycle
  <2>3. allDone' = (allDone \/ (wpc[w] = "last" /\ IsClosed))
    BY <1>8 DEF Recycle, LastOut
  <2>4. ClosedFirst' /\ ClosedQueueEmpty'
    BY <2>1 DEF ReleaseInv, ClosedFirst, ClosedQueueEmpty, IsClosed
  <2>5. LatchCloses'
    <3> SUFFICES ASSUME rpc = "done", running = 0
                 PROVE  allDone' \/ \E v \in Workers : wpc'[v] = "last"
      BY <2>1 DEF LatchCloses
    <3>1. IsClosed
      BY DEF ReleaseInv, ClosedFirst
    <3>2. allDone \/ \E v \in Workers : wpc[v] = "last"
      BY DEF ReleaseInv, LatchCloses
    <3> QED BY <2>2, <2>3, <3>1, <3>2
  <2> QED BY <2>4, <2>5 DEF ReleaseInv
<1>9. CASE ExitSignal \/ PurgeTick \/ PurgeFinish \/ PurgeAwake
  <2>1. UNCHANGED <<rpc, state, items, running, allDone, wpc>>
    BY <1>9 DEF ExitSignal, PurgeTick, PurgeFinish, PurgeAwake, coreVars,
                workerVars
  <2> QED BY <2>1, ReleaseQuiet
<1>10. CASE PurgeScan
  <2>1. UNCHANGED <<rpc, state, running, allDone, wpc>>
    BY <1>10 DEF PurgeScan, workerVars
  <2>2. ASSUME items = <<>> PROVE items' = <<>>
    <3>1. PICK n \in 0..Len(items) : items' = SubSeq(items, n + 1, Len(items))
      BY <1>10 DEF PurgeScan, Unexpired
    <3>2. Len(items) = 0
      BY <2>2
    <3>3. items' = SubSeq(<<>>, 1, 0)
      BY <2>2, <3>1, <3>2
    <3> QED BY <3>3
  <2> QED BY <2>1, <2>2, ReleaseQuiet
<1>11. CASE ReleaseClose
  <2>1. state' = "CLOSED" /\ rpc' = "lock"
    BY <1>11 DEF ReleaseClose
  <2> QED
    BY <2>1 DEF ReleaseInv, ClosedFirst, ClosedQueueEmpty, LatchCloses, IsClosed
<1>12. CASE ReleaseStep
  <2>1. state' = state /\ rpc \notin {"open", "off"}
    BY <1>12 DEF ReleaseStep, ReleaseLock, ResetOne, ReleaseUnlock,
                 ReleaseBroadcast, ReleaseCheck, coreVars
  <2>2. ClosedFirst'
    BY <2>1 DEF ReleaseInv, ClosedFirst, IsClosed
  <2>3. ClosedQueueEmpty'
    BY <1>12 DEF ReleaseStep, ReleaseLock, ResetOne, ReleaseUnlock,
                 ReleaseBroadcast, ReleaseCheck, coreVars, ReleaseInv,
                 ClosedQueueEmpty
  <2>4. LatchCloses'
    <3>1. CASE ReleaseCheck
      BY <3>1 DEF ReleaseCheck, LatchCloses
    <3>2. CASE ReleaseLock \/ ResetOne \/ ReleaseUnlock \/ ReleaseBroadcast
      BY <3>2 DEF ReleaseLock, ResetOne, ReleaseUnlock, ReleaseBroadcast,
                  LatchCloses
    <3> QED BY <1>12, <3>1, <3>2 DEF ReleaseStep
  <2> QED BY <2>2, <2>3, <2>4 DEF ReleaseInv
<1>13. ASSUME NEW t \in Tuners, TuneRead(t) \/ TuneStep(t)
       PROVE  ReleaseInv'
  <2>1. UNCHANGED <<rpc, state, items, running, allDone, wpc>>
    BY <1>13 DEF TuneRead, TuneStep, TuneStore, TuneNotify, coreVars, workerVars
  <2> QED BY <2>1, ReleaseQuiet
<1>14. CASE UNCHANGED vars
  BY <1>14, ReleaseQuiet DEF vars, coreVars, workerVars
<1> QED
  BY <1>1, <1>2, <1>3, <1>4, <1>5, <1>6, <1>7, <1>8, <1>9, <1>10, <1>11, <1>12,
     <1>13, <1>14
     DEF Next, CallerStep, WorkerStep, PurgeStep

LEMMA ReleaseAlways == Spec => []ReleaseInv
<1>1. Init => ReleaseInv
  BY PoolCoreAssumption
     DEF Init, ReleaseInv, ClosedFirst, ClosedQueueEmpty, LatchCloses
<1> QED
  BY <1>1, TypeCorrect, RunningCounts, ReleaseStepKeeps, PTL DEF Spec

(* Once release() has emptied the queue it stays empty: no worker is       *)
(* parked where nothing would stop it (pool_common.rs revert_worker()'s    *)
(* second check).                                                          *)
THEOREM ClosedStaysEmpty == Spec => []ClosedQueueEmpty
<1>1. ReleaseInv => ClosedQueueEmpty
  BY DEF ReleaseInv
<1> QED BY <1>1, ReleaseAlways, PTL

(* Of release() and the last worker, each of which looks at the other's    *)
(* doings without a lock, one closes the latch (pool_common.rs release(),  *)
(* worker.rs work()'s epilogue).                                           *)
THEOREM SomebodyClosesLatch == Spec => []LatchCloses
<1>1. ReleaseInv => LatchCloses
  BY DEF ReleaseInv
<1> QED BY <1>1, ReleaseAlways, PTL

=============================================================================
