--------------------------- MODULE LifecycleProofs ---------------------------
(***************************************************************************)
(* What Lifecycle promises, for every number of workers, calls and         *)
(* reboots: its counts for any number of controllers, and, as long as the  *)
(* calls of release, release_context and reboot do not overlap, that there *)
(* is one background thread of a kind, that an open pool is served, and    *)
(* what a release that returns Ok has left behind.                         *)
(***************************************************************************)
EXTENDS Lifecycle, FiniteSetTheorems, TLAPS

(* One thread at a time releases and reboots the pool.  Without this the   *)
(* promises about the background threads do not hold: two reboots may both *)
(* get past their waiting before one of them opens the pool.               *)
Alone == \A c, d \in Controllers : c = d

-----------------------------------------------------------------------------
(* The inductive invariant.                                                *)

Counted == running = Cardinality(Live)

StepsInRange == \A c \in Controllers : step[c] \in 1..Len(Kinds)

TypeInv == LifecycleTypeOK /\ Counted /\ StepsInRange

(* Where a kind stands in the order of the background threads. *)
Position(k) == IF k = "ticktock" THEN Len(Kinds) ELSE 1

(* A controller at l is dealing with k, or has it still to do. *)
At(c, l, k) == pc[c] = l /\ step[c] = Position(k)
Ahead(c, l, k) == pc[c] = l /\ step[c] <= Position(k)

(* The pool is open again and this reboot has yet to start its thread k.   *)
Unborn(k) == \E c \in Controllers : \E l \in {"zero", "go", "arm"} : Ahead(c, l, k)

(* Where the one controller is tells whether the pool is closed, how far   *)
(* the reboot has waited, and what it installs.                            *)
Where(c) ==
  /\ pc[c] \in {"stop", "reset", "latch", "close", "after", "wait", "join",
                "verify", "flags", "fetch", "await", "retire", "open"} => IsClosed
  /\ op[c] = "ok" => pc[c] = "idle" /\ IsClosed
  /\ pc[c] \in {"zero", "go", "arm", "swap"} => ~IsClosed /\ latch[c] = gen
  /\ pc[c] \in {"retire", "flags"} =>
       \A k \in KindSet : Position(k) < step[c] => done[k]
  /\ pc[c] = "open" => \A k \in KindSet : done[k]
  /\ pc[c] \notin {"stops", "copy", "stop", "flags", "retire", "zero", "go", "arm"}
       => step[c] = 1

WhereClosed == \A c \in Controllers : Where(c)

(* The threads of earlier reboots have gone, those of later ones are not   *)
(* there yet, and no context is cancelled before it is made.               *)
OldAreGone(k) ==
  /\ \A g \in Gens : /\ g < gen => bg[k][g] = "gone"
                     /\ g > gen => bg[k][g] = "none"
  /\ cancelled[k] \subseteq 0..gen

BeingMade(k) ==
  /\ bg[k][gen] = "none"
  /\ gen \notin cancelled[k]
  /\ done[k] <=> ~\E c \in Controllers : At(c, "go", k) \/ At(c, "arm", k)
  /\ \A c \in Controllers : At(c, "arm", k) => ctx[k] = gen

(* The thread of the last reboot has the context that the pool has, which  *)
(* only a release cancels, and its done flag tells whether it has ended.   *)
Made(k) ==
  /\ bg[k][gen] # "none"
  /\ done[k] <=> bg[k][gen] = "gone"
  /\ ctx[k] = gen
  /\ bg[k][gen] = "loop" => mine[k][gen] = gen
  /\ ~IsClosed \/ (\E c \in Controllers : Ahead(c, "stop", k))
       => stop[k] = gen /\ gen \notin cancelled[k]
  /\ ~IsClosed => bg[k][gen] \in {"start", "loop"}

Background(k) ==
  /\ OldAreGone(k)
  /\ IF Unborn(k) THEN BeingMade(k) ELSE Made(k)

(* A closed pool's queue is empty once it has been reset. *)
NobodyParked ==
  IsClosed /\ (\A c \in Controllers : pc[c] \notin {"stop", "reset"})
    => \A w \in Workers : wpc[w] # "idle"

(* Who has counted no worker will find none but those spawned since. *)
OnlyLate == \A c \in Controllers : pc[c] = "flags" => Live \subseteq late

LifecycleInv ==
  /\ TypeInv
  /\ WhereClosed
  /\ \A k \in KindSet : Background(k)
  /\ NobodyParked
  /\ OnlyLate

-----------------------------------------------------------------------------
(* Types and counts.                                                       *)

(* Every kind has its position, and every position its kind. *)
LEMMA KindFacts ==
  /\ Len(Kinds) \in 1..2
  /\ \A i \in 1..Len(Kinds) : Kinds[i] \in KindSet /\ Position(Kinds[i]) = i
  /\ \A k \in KindSet : Position(k) \in 1..Len(Kinds) /\ Kinds[Position(k)] = k
<1>1. CASE DisablePurge
  BY <1>1 DEF Kinds, KindSet, Position
<1>2. CASE ~DisablePurge
  BY <1>2 DEF Kinds, KindSet, Position
<1> QED
  BY <1>1, <1>2

LEMMA LiveBound ==
  /\ IsFiniteSet(Live)
  /\ Cardinality(Live) \in 0..Cardinality(Workers)
<1>1. Live \subseteq Workers /\ IsFiniteSet(Workers)
  BY LifecycleAssumption DEF Live
<1>2. IsFiniteSet(Live) /\ Cardinality(Live) <= Cardinality(Workers)
  BY <1>1, FS_Subset
<1> QED
  BY <1>1, <1>2, FS_CardinalityType

(* A count of 0 means that there is nobody.                                *)
LEMMA NobodyLive ==
  ASSUME Counted, running = 0 PROVE Live = {}
<1>1. Cardinality(Live) = 0
  BY DEF Counted
<1> QED
  BY <1>1, LiveBound, FS_EmptySet

(* Whatever leaves the workers and the count alone.                        *)
LEMMA CountQuiet ==
  ASSUME Counted, running' = running, Live' = Live PROVE Counted'
  BY DEF Counted

LEMMA CountStep == LifecycleTypeOK /\ Counted /\ [Next]_vars => Counted'
<1> SUFFICES ASSUME LifecycleTypeOK, Counted, [Next]_vars
             PROVE  Counted'
  OBVIOUS
<1>0. wpc \in [Workers -> {"none", "admitted", "busy", "idle", "exit", "last",
                           "closing"}]
  BY DEF LifecycleTypeOK
<1>1. ASSUME NEW c \in Controllers, Call(c) \/ ReleaseStep(c)
      PROVE  Counted'
  <2>1. CASE ResetQueue(c)
    <3>1. Live' = Live
      BY <1>0, <2>1 DEF ResetQueue, Live
    <3> QED
      BY <2>1, <3>1, CountQuiet DEF ResetQueue, poolVars
  <2>2. CASE ~ResetQueue(c)
    <3>1. running' = running /\ wpc' = wpc
      BY <1>1, <2>2
      DEF Call, ReleaseStep, Admit, FindStop, CopyContext, Close, StopBackground,
          LookAtRunning, CloseLatch, AfterRelease, AwaitWorkers, JoinContexts,
          CountWorkers, CheckFlag, poolVars
    <3> QED
      BY <3>1, CountQuiet DEF Live
  <2> QED
    BY <2>1, <2>2
<1>2. ASSUME NEW c \in Controllers, RebootStep(c)
      PROVE  Counted'
  <2>1. running' = running /\ wpc' = wpc
    BY <1>2
    DEF RebootStep, Reboot, FetchLatch, AwaitLatch, AwaitBackground, Reopen,
        ZeroDone, RenewContext, ArmAndSpawn, SwapLatch, poolVars
  <2> QED
    BY <2>1, CountQuiet DEF Live
<1>3. ASSUME NEW k \in KindSet, NEW g \in Gens, BackgroundStep(k, g)
      PROVE  Counted'
  <2>1. running' = running /\ wpc' = wpc
    BY <1>3 DEF BackgroundStep, CopyOwnContext, LeaveLoop, StoreDone, poolVars
  <2> QED
    BY <2>1, CountQuiet DEF Live
<1>4. ASSUME NEW g \in Gens, PurgeIdle(g)
      PROVE  Counted'
  <2>1. Live' = Live
    BY <1>0, <1>4 DEF PurgeIdle, Live
  <2> QED
    BY <1>4, <2>1, CountQuiet DEF PurgeIdle, poolVars
<1>5. ASSUME NEW w \in Workers, AdmitCaller(w)
      PROVE  Counted'
  <2>1. Live' = Live
    BY <1>0, <1>5 DEF AdmitCaller, Live
  <2> QED
    BY <1>5, <2>1, CountQuiet DEF AdmitCaller, poolVars
<1>6. ASSUME NEW w \in Workers, SpawnWorker(w)
      PROVE  Counted'
  <2>1. w \notin Live /\ Live' = Live \cup {w} /\ running' = running + 1
    BY <1>0, <1>6 DEF SpawnWorker, Live
  <2> QED
    BY <2>1, LiveBound, FS_AddElement DEF Counted
<1>7. ASSUME NEW w \in Workers, FinishTask(w)
      PROVE  Counted'
  <2>1. Live' = Live
    BY <1>0, <1>7 DEF FinishTask, Live
  <2> QED
    BY <1>7, <2>1, CountQuiet DEF FinishTask, poolVars
<1>8. ASSUME NEW w \in Workers, Depart(w)
      PROVE  Counted'
  <2>1. w \in Live /\ Live' = Live \ {w} /\ running' = running - 1
    BY <1>0, <1>8 DEF Depart, Live
  <2> QED
    BY <2>1, LiveBound, FS_RemoveElement DEF Counted
<1>9. ASSUME NEW w \in Workers, LastLooks(w) \/ LastCloses(w)
      PROVE  Counted'
  <2>1. Live' = Live
    BY <1>0, <1>9 DEF LastLooks, LastCloses, Live
  <2> QED
    BY <1>9, <2>1, CountQuiet DEF LastLooks, LastCloses, poolVars
<1>10. CASE UNCHANGED vars
  BY <1>10, CountQuiet DEF vars, poolVars, Live
<1> QED
  BY <1>1, <1>2, <1>3, <1>4, <1>5, <1>6, <1>7, <1>8, <1>9, <1>10
  DEF Next, WorkerStep

(* The types, by who owns the variables. *)
PoolTypes ==
  /\ state \in {"OPENED", "CLOSED"}
  /\ allDone \in Gens /\ closed \subseteq Gens
  /\ ctx \in [KindSet -> Gens]
  /\ stop \in [KindSet -> Gens \cup {None}]
  /\ cancelled \in [KindSet -> SUBSET Gens]
  /\ done \in [KindSet -> BOOLEAN]
  /\ gen \in Gens

BackgroundTypes ==
  /\ bg \in [KindSet -> [Gens -> {"none", "start", "loop", "exit", "gone"}]]
  /\ mine \in [KindSet -> [Gens -> Gens]]

PlaceTypes ==
  /\ pc \in [Controllers -> ControllerPC]
  /\ step \in [Controllers -> 1..2]
  /\ StepsInRange

CallTypes ==
  /\ op \in [Controllers -> AllOps \cup {"ok", "closed", "expired", "none"}]
  /\ latch \in [Controllers -> Gens]
  /\ copy \in [Controllers -> [KindSet -> Gens]]
  /\ calls \in [Controllers -> 0..MaxCalls]

WorkerTypes ==
  /\ wpc \in [Workers -> {"none", "admitted", "busy", "idle", "exit", "last",
                          "closing"}]
  /\ late \subseteq Workers

AllTypes == PoolTypes /\ BackgroundTypes /\ PlaceTypes /\ CallTypes /\ WorkerTypes

LEMMA TypesByOwner ==
  LifecycleTypeOK /\ StepsInRange
    <=> AllTypes /\ running \in 0..Cardinality(Workers)
  BY DEF LifecycleTypeOK, AllTypes, PoolTypes, BackgroundTypes, PlaceTypes,
         CallTypes, WorkerTypes

(* Going on to the next kind, or past the last one. *)
LEMMA NextKindTypes ==
  ASSUME PlaceTypes, NEW c \in Controllers, NEW l \in ControllerPC,
         NEW m \in ControllerPC, NextKind(c, l, m)
  PROVE  PlaceTypes'
<1>1. Len(Kinds) \in 1..2
  BY KindFacts
<1>2. pc' \in [Controllers -> ControllerPC]
  BY DEF NextKind, Goto, PlaceTypes
<1>3. CASE step[c] < Len(Kinds)
  <2>1. step' = [step EXCEPT ![c] = step[c] + 1]
    BY <1>3 DEF NextKind
  <2>2. step[c] + 1 \in 1..2 /\ step[c] + 1 \in 1..Len(Kinds)
    <3> DEFINE n == Len(Kinds)
    <3>1. n \in 1..2 /\ step[c] \in 1..n /\ step[c] < n
      BY <1>1, <1>3 DEF PlaceTypes, StepsInRange
    <3> HIDE DEF n
    <3>2. step[c] + 1 \in 1..2 /\ step[c] + 1 \in 1..n
      BY <3>1
    <3> QED
      BY <3>2 DEF n
  <2> QED
    BY <1>2, <2>1, <2>2 DEF PlaceTypes, StepsInRange
<1>4. CASE ~(step[c] < Len(Kinds))
  <2>1. step' = [step EXCEPT ![c] = 1]
    BY <1>4 DEF NextKind
  <2> QED
    BY <1>1, <1>2, <2>1 DEF PlaceTypes, StepsInRange
<1> QED
  BY <1>3, <1>4

(* Going to a place, with the result of the call if it returns. *)
LEMMA GotoTypes ==
  ASSUME PlaceTypes, NEW c \in Controllers, NEW l \in ControllerPC, step' = step,
         pc' = [pc EXCEPT ![c] = l]
  PROVE  PlaceTypes'
  BY DEF PlaceTypes, StepsInRange

(* The steps of a controller change its place and result, and by name what *)
(* else there is; the rest of each group stays as it is.                   *)
LEMMA ControllerTypes ==
  ASSUME AllTypes, NEW c \in Controllers, Call(c) \/ ReleaseStep(c) \/ RebootStep(c)
  PROVE  AllTypes'
<1>0. PoolTypes /\ BackgroundTypes /\ PlaceTypes /\ CallTypes /\ WorkerTypes
  BY DEF AllTypes
<1>1. MaxGen \in Nat /\ MaxCalls \in Nat /\ Ops \subseteq AllOps /\ None \notin Gens
  BY LifecycleAssumption
<1>2. UNCHANGED <<state, allDone, closed, ctx, stop, cancelled, done, gen>> => PoolTypes'
  BY <1>0 DEF PoolTypes
<1>3. UNCHANGED <<bg, mine>> => BackgroundTypes'
  BY <1>0 DEF BackgroundTypes
<1>4. UNCHANGED <<wpc, late>> => WorkerTypes'
  BY <1>0 DEF WorkerTypes
<1>5. \A r \in {"ok", "closed", "expired", "none"} :
        Return(c, r) /\ UNCHANGED <<step, latch, copy, calls>>
          => PlaceTypes' /\ CallTypes'
  <2> SUFFICES ASSUME NEW r \in {"ok", "closed", "expired", "none"}, Return(c, r),
                      UNCHANGED <<step, latch, copy, calls>>
               PROVE  PlaceTypes' /\ CallTypes'
    OBVIOUS
  <2>1. PlaceTypes'
    BY <1>0, GotoTypes DEF Return, ControllerPC
  <2>2. CallTypes'
    BY <1>0 DEF Return, CallTypes
  <2> QED
    BY <2>1, <2>2
<1>6. \A l \in ControllerPC : Goto(c, l) /\ UNCHANGED step => PlaceTypes'
  BY <1>0, GotoTypes DEF Goto
<1>7. UNCHANGED <<op, latch, copy, calls>> => CallTypes'
  BY <1>0 DEF CallTypes
<1>8. CASE Call(c)
  <2>1. PICK o \in Ops :
          /\ op' = [op EXCEPT ![c] = o]
          /\ Goto(c, CASE o = "release" -> "cas"
                       [] o = "reboot" -> "reboot"
                       [] OTHER -> "admit")
    BY <1>8 DEF Call
  <2>2. PlaceTypes'
    BY <1>6, <1>8, <2>1 DEF Call, ControllerPC
  <2>3. calls' \in [Controllers -> 0..MaxCalls]
    <3>1. calls[c] + 1 \in 0..MaxCalls
      BY <1>0, <1>1, <1>8 DEF Call, CallTypes
    <3> QED
      BY <1>0, <1>8, <3>1 DEF Call, CallTypes
  <2>4. CallTypes'
    BY <1>0, <1>1, <1>8, <2>1, <2>3 DEF Call, CallTypes
  <2> QED
    BY <1>2, <1>3, <1>4, <1>8, <2>2, <2>4 DEF Call, poolVars, bgVars, AllTypes
<1>9. CASE Admit(c) \/ AwaitWorkers(c) \/ JoinContexts(c) \/ CountWorkers(c)
  <2>1. PlaceTypes' /\ CallTypes'
    <3>1. CASE \E l \in {"stops", "join", "verify", "flags", "wait"} :
                 Goto(c, l) /\ UNCHANGED <<op, step, latch, copy, calls>>
      BY <1>6, <1>7, <3>1 DEF ControllerPC
    <3>2. CASE /\ \/ Return(c, "closed") \/ Return(c, "expired")
               /\ UNCHANGED <<step, latch, copy, calls>>
      BY <1>5, <3>2
    <3> QED
      BY <1>9, <3>1, <3>2
      DEF Admit, AwaitWorkers, JoinContexts, CountWorkers, LookAgain, Expire
  <2> QED
    BY <1>2, <1>3, <1>4, <1>9, <2>1
    DEF Admit, AwaitWorkers, JoinContexts, CountWorkers, poolVars, bgVars, AllTypes
<1>10. CASE CopyContext(c)
  <2>1. PlaceTypes'
    BY <1>0, <1>10, NextKindTypes DEF CopyContext, ControllerPC
  <2>2. CallTypes'
    BY <1>0, <1>10 DEF CopyContext, CallTypes, PoolTypes
  <2> QED
    BY <1>2, <1>3, <1>4, <1>10, <2>1, <2>2 DEF CopyContext, poolVars, bgVars, AllTypes
<1>22. \A r \in {"ok", "closed", "expired"} :
         Return(c, r) /\ step' = [step EXCEPT ![c] = 1] /\ UNCHANGED <<latch, copy, calls>>
           => PlaceTypes' /\ CallTypes'
  <2> SUFFICES ASSUME NEW r \in {"ok", "closed", "expired"}, Return(c, r),
                      step' = [step EXCEPT ![c] = 1], UNCHANGED <<latch, copy, calls>>
               PROVE  PlaceTypes' /\ CallTypes'
    OBVIOUS
  <2>1. PlaceTypes'
    BY <1>0, KindFacts DEF Return, ControllerPC, PlaceTypes, StepsInRange
  <2>2. CallTypes'
    BY <1>0 DEF Return, CallTypes
  <2> QED
    BY <2>1, <2>2
<1>23. CASE FindStop(c)
  <2>1. PlaceTypes' /\ CallTypes'
    <3>1. CASE NextKind(c, "stops", "copy") /\ UNCHANGED op
      <4>1. PlaceTypes'
        BY <1>0, <3>1, NextKindTypes DEF ControllerPC
      <4> QED
        BY <1>7, <1>23, <3>1, <4>1 DEF FindStop
    <3>2. CASE Return(c, "closed") /\ step' = [step EXCEPT ![c] = 1]
      BY <1>22, <1>23, <3>2 DEF FindStop
    <3> QED
      BY <1>23, <3>1, <3>2 DEF FindStop
  <2> QED
    BY <1>2, <1>3, <1>4, <1>23, <2>1 DEF FindStop, poolVars, bgVars, AllTypes
<1>24. CASE CheckFlag(c)
  <2>1. PlaceTypes' /\ CallTypes'
    <3>1. CASE /\ step[c] < Len(Kinds) /\ step' = [step EXCEPT ![c] = @ + 1]
               /\ UNCHANGED <<pc, op>>
      <4>1. NextKind(c, "flags", "flags")
        BY <1>0, <1>24, <3>1 DEF CheckFlag, NextKind, Goto, PlaceTypes
      <4>2. PlaceTypes'
        BY <1>0, <4>1, NextKindTypes DEF ControllerPC
      <4> QED
        BY <1>7, <1>24, <3>1, <4>2 DEF CheckFlag
    <3>2. CASE /\ Return(c, "ok") \/ Return(c, "expired")
               /\ step' = [step EXCEPT ![c] = 1]
      BY <1>22, <1>24, <3>2 DEF CheckFlag
    <3>3. CASE Goto(c, "wait") /\ step' = [step EXCEPT ![c] = 1] /\ UNCHANGED op
      <4>1. PlaceTypes'
        BY <1>0, <3>3, KindFacts DEF Goto, ControllerPC, PlaceTypes, StepsInRange
      <4> QED
        BY <1>7, <1>24, <3>3, <4>1 DEF CheckFlag
    <3> QED
      BY <1>24, <3>1, <3>2, <3>3 DEF CheckFlag, LookAgain, Expire
  <2> QED
    BY <1>2, <1>3, <1>4, <1>24, <2>1 DEF CheckFlag, poolVars, bgVars, AllTypes
<1>11. CASE Close(c) \/ CloseLatch(c)
  <2>1. PlaceTypes'
    BY <1>6, <1>11 DEF Close, CloseLatch, ControllerPC
  <2>2. PoolTypes'
    BY <1>0, <1>11 DEF Close, CloseLatch, PoolTypes
  <2> QED
    BY <1>3, <1>4, <1>7, <1>11, <2>1, <2>2 DEF Close, CloseLatch, bgVars, AllTypes
<1>12. CASE StopBackground(c)
  <2>1. PlaceTypes'
    BY <1>0, <1>12, NextKindTypes DEF StopBackground, ControllerPC
  <2>2. Kind(c) \in KindSet
    BY <1>0, KindFacts DEF Kind, PlaceTypes, StepsInRange
  <2>3. cancelled' \in [KindSet -> SUBSET Gens]
    <3>1. stop[Kind(c)] \in Gens \cup {None} /\ cancelled[Kind(c)] \subseteq Gens
      BY <1>0, <2>2 DEF PoolTypes
    <3>2. (cancelled[Kind(c)] \cup {stop[Kind(c)]}) \ {None} \in SUBSET Gens
      BY <3>1
    <3>3. cancelled' = [cancelled EXCEPT ![Kind(c)] =
                          (cancelled[Kind(c)] \cup {stop[Kind(c)]}) \ {None}]
      BY <1>12 DEF StopBackground, Cancel
    <3> QED
      BY <1>0, <3>2, <3>3 DEF PoolTypes
  <2>4. PoolTypes'
    BY <1>0, <1>12, <2>3 DEF StopBackground, PoolTypes
  <2> QED
    BY <1>3, <1>4, <1>7, <1>12, <2>1, <2>4 DEF StopBackground, bgVars, AllTypes
<1>13. CASE ResetQueue(c) \/ LookAtRunning(c)
  <2>1. PlaceTypes'
    BY <1>6, <1>13 DEF ResetQueue, LookAtRunning, ControllerPC
  <2>2. WorkerTypes'
    BY <1>0, <1>13 DEF ResetQueue, LookAtRunning, WorkerTypes
  <2> QED
    BY <1>2, <1>3, <1>7, <1>13, <2>1, <2>2
    DEF ResetQueue, LookAtRunning, poolVars, bgVars, AllTypes
<1>14. CASE AfterRelease(c)
  <2>1. PlaceTypes' /\ CallTypes'
    <3>1. CASE Return(c, "none") /\ UNCHANGED latch
      BY <1>5, <1>14, <3>1 DEF AfterRelease
    <3>2. CASE /\ latch' = [latch EXCEPT ![c] = allDone]
               /\ Goto(c, "wait") /\ UNCHANGED op
      BY <1>0, <1>6, <1>14, <3>2 DEF AfterRelease, CallTypes, PoolTypes, ControllerPC
    <3> QED
      BY <1>14, <3>1, <3>2 DEF AfterRelease
  <2> QED
    BY <1>2, <1>3, <1>4, <1>14, <2>1 DEF AfterRelease, poolVars, bgVars, AllTypes
<1>15. CASE Reboot(c) \/ AwaitLatch(c)
  <2>1. PlaceTypes' /\ CallTypes'
    <3>1. CASE Goto(c, "fetch") /\ UNCHANGED <<op, step, latch, copy, calls>>
      BY <1>6, <1>7, <3>1 DEF ControllerPC
    <3>2. CASE Goto(c, "retire") /\ UNCHANGED <<op, step, latch, copy, calls>>
      BY <1>6, <1>7, <3>2 DEF ControllerPC
    <3>3. CASE Return(c, "none") /\ UNCHANGED <<step, latch, copy, calls>>
      BY <1>5, <3>3
    <3> QED
      BY <1>15, <3>1, <3>2, <3>3 DEF Reboot, AwaitLatch
  <2> QED
    BY <1>2, <1>3, <1>4, <1>15, <2>1 DEF Reboot, AwaitLatch, poolVars, bgVars, AllTypes
<1>16. CASE FetchLatch(c)
  <2>1. PlaceTypes'
    BY <1>6, <1>16 DEF FetchLatch, ControllerPC
  <2>2. CallTypes'
    BY <1>0, <1>16 DEF FetchLatch, CallTypes, PoolTypes
  <2> QED
    BY <1>2, <1>3, <1>4, <1>16, <2>1, <2>2 DEF FetchLatch, poolVars, bgVars, AllTypes
<1>17. CASE AwaitBackground(c)
  <2>1. PlaceTypes'
    BY <1>0, <1>17, NextKindTypes DEF AwaitBackground, ControllerPC
  <2> QED
    BY <1>2, <1>3, <1>4, <1>7, <1>17, <2>1 DEF AwaitBackground, poolVars, bgVars, AllTypes
<1>18. CASE Reopen(c)
  <2>1. CASE ~IsClosed
    <3>1. PlaceTypes' /\ CallTypes'
      BY <1>5, <1>18, <2>1 DEF Reopen
    <3> QED
      BY <1>2, <1>3, <1>4, <1>18, <2>1, <3>1 DEF Reopen, bgVars, AllTypes
  <2>2. CASE IsClosed
    <3>1. gen + 1 \in Gens
      BY <1>0, <1>1, <1>18, <2>2 DEF Reopen, PoolTypes, Gens
    <3>2. PlaceTypes'
      BY <1>6, <1>18, <2>2 DEF Reopen, ControllerPC
    <3>3. CallTypes'
      BY <1>0, <1>18, <2>2, <3>1 DEF Reopen, CallTypes
    <3>4. PoolTypes' /\ WorkerTypes'
      BY <1>0, <1>18, <2>2, <3>1 DEF Reopen, PoolTypes, WorkerTypes
    <3> QED
      BY <1>3, <1>18, <3>2, <3>3, <3>4 DEF Reopen, bgVars, AllTypes
  <2> QED
    BY <2>1, <2>2
<1>19. CASE ZeroDone(c) \/ RenewContext(c)
  <2>1. PlaceTypes'
    BY <1>6, <1>19 DEF ZeroDone, RenewContext, ControllerPC
  <2>2. PoolTypes'
    BY <1>0, <1>19 DEF ZeroDone, RenewContext, PoolTypes, CallTypes
  <2> QED
    BY <1>3, <1>4, <1>7, <1>19, <2>1, <2>2 DEF ZeroDone, RenewContext, bgVars, AllTypes
<1>20. CASE ArmAndSpawn(c)
  <2>1. PlaceTypes'
    BY <1>0, <1>20, NextKindTypes DEF ArmAndSpawn, ControllerPC
  <2>2. PoolTypes'
    BY <1>0, <1>20 DEF ArmAndSpawn, PoolTypes, CallTypes
  <2>3. BackgroundTypes'
    BY <1>0, <1>20 DEF ArmAndSpawn, BackgroundTypes
  <2> QED
    BY <1>4, <1>7, <1>20, <2>1, <2>2, <2>3 DEF ArmAndSpawn, AllTypes
<1>21. CASE SwapLatch(c)
  <2>1. PlaceTypes' /\ CallTypes'
    BY <1>5, <1>21 DEF SwapLatch
  <2>2. PoolTypes'
    BY <1>0, <1>21 DEF SwapLatch, PoolTypes, CallTypes
  <2> QED
    BY <1>3, <1>4, <1>21, <2>1, <2>2 DEF SwapLatch, bgVars, AllTypes
<1> QED
  BY <1>8, <1>9, <1>10, <1>11, <1>12, <1>13, <1>14, <1>15, <1>16, <1>17, <1>18,
     <1>19, <1>20, <1>21, <1>23, <1>24
  DEF ReleaseStep, RebootStep

LEMMA TypeStep == TypeInv /\ [Next]_vars => TypeInv'
<1> SUFFICES ASSUME TypeInv, [Next]_vars
             PROVE  TypeInv'
  OBVIOUS
<1>0. AllTypes /\ LifecycleTypeOK /\ Counted
  BY TypesByOwner DEF TypeInv
<1>1. Counted' /\ running' \in 0..Cardinality(Workers)
  <2>1. Counted'
    BY <1>0, CountStep
  <2>2. Cardinality(Live') \in 0..Cardinality(Workers)
    <3>1. Live' \subseteq Workers /\ IsFiniteSet(Workers)
      BY LifecycleAssumption DEF Live
    <3>2. IsFiniteSet(Live') /\ Cardinality(Live') <= Cardinality(Workers)
      BY <3>1, FS_Subset
    <3> QED
      BY <3>1, <3>2, FS_CardinalityType
  <2> QED
    BY <2>1, <2>2 DEF Counted
<1>2. ASSUME NEW c \in Controllers, Call(c) \/ ReleaseStep(c) \/ RebootStep(c)
      PROVE  AllTypes'
  BY <1>0, <1>2, ControllerTypes
<1>3. PoolTypes /\ BackgroundTypes /\ PlaceTypes /\ CallTypes /\ WorkerTypes
  BY <1>0 DEF AllTypes
<1>4. UNCHANGED ctlVars => PlaceTypes' /\ CallTypes'
  BY <1>3 DEF ctlVars, PlaceTypes, StepsInRange, CallTypes
<1>5. ASSUME NEW k \in KindSet, NEW g \in Gens, BackgroundStep(k, g)
      PROVE  AllTypes'
  <2>1. PlaceTypes' /\ CallTypes'
    BY <1>4, <1>5 DEF BackgroundStep, CopyOwnContext, LeaveLoop, StoreDone
  <2>2. CASE CopyOwnContext(k, g)
    BY <1>3, <2>1, <2>2
    DEF CopyOwnContext, poolVars, PoolTypes, BackgroundTypes, WorkerTypes, AllTypes
  <2>3. CASE LeaveLoop(k, g)
    BY <1>3, <2>1, <2>3
    DEF LeaveLoop, poolVars, PoolTypes, BackgroundTypes, WorkerTypes, AllTypes
  <2>4. CASE StoreDone(k, g)
    BY <1>3, <2>1, <2>4
    DEF StoreDone, PoolTypes, BackgroundTypes, WorkerTypes, AllTypes
  <2> QED
    BY <1>5, <2>2, <2>3, <2>4 DEF BackgroundStep
<1>6. ASSUME NEW g \in Gens, PurgeIdle(g)
      PROVE  AllTypes'
  <2>1. WorkerTypes'
    BY <1>3, <1>6 DEF PurgeIdle, WorkerTypes
  <2> QED
    BY <1>3, <1>4, <1>6, <2>1
    DEF PurgeIdle, poolVars, bgVars, PoolTypes, BackgroundTypes, AllTypes
<1>7. ASSUME NEW w \in Workers, AdmitCaller(w) \/ WorkerStep(w)
      PROVE  AllTypes'
  <2>1. PlaceTypes' /\ CallTypes' /\ BackgroundTypes'
    BY <1>3, <1>4, <1>7
    DEF AdmitCaller, WorkerStep, SpawnWorker, FinishTask, Depart, LastLooks,
        LastCloses, bgVars, BackgroundTypes
  <2>2. WorkerTypes'
    BY <1>3, <1>7
    DEF AdmitCaller, WorkerStep, SpawnWorker, FinishTask, Depart, LastLooks,
        LastCloses, WorkerTypes
  <2>3. PoolTypes'
    BY <1>3, <1>7
    DEF AdmitCaller, WorkerStep, SpawnWorker, FinishTask, Depart, LastLooks,
        LastCloses, poolVars, PoolTypes
  <2> QED
    BY <2>1, <2>2, <2>3 DEF AllTypes
<1>8. ASSUME UNCHANGED vars
      PROVE  AllTypes'
  BY <1>3, <1>4, <1>8
  DEF vars, poolVars, bgVars, PoolTypes, BackgroundTypes, WorkerTypes, AllTypes
<1>9. AllTypes'
  BY <1>2, <1>5, <1>6, <1>7, <1>8 DEF Next
<1>10. LifecycleTypeOK' /\ StepsInRange'
  BY <1>1, <1>9
  DEF LifecycleTypeOK, AllTypes, PoolTypes, BackgroundTypes, PlaceTypes, CallTypes,
      WorkerTypes
<1> QED
  BY <1>1, <1>10 DEF TypeInv

LEMMA TypeInitially == Init => TypeInv
<1> SUFFICES ASSUME Init PROVE TypeInv
  OBVIOUS
<1>1. Live = {}
  BY DEF Init, Live
<1>2. Counted /\ running \in 0..Cardinality(Workers)
  <2>1. Cardinality(Workers) \in Nat
    BY LifecycleAssumption, FS_CardinalityType
  <2> QED
    BY <1>1, <2>1, FS_EmptySet DEF Init, Counted
<1>3. 0 \in Gens /\ 0 \in 0..MaxCalls
  BY LifecycleAssumption DEF Gens
<1>4. StepsInRange
  <2>1. step = [c \in Controllers |-> 1]
    BY DEF Init
  <2> QED
    BY <2>1, KindFacts DEF StepsInRange
<1>5. LifecycleTypeOK
  BY <1>2, <1>3 DEF Init, LifecycleTypeOK, ControllerPC
<1> QED
  BY <1>2, <1>4, <1>5 DEF TypeInv

(* The counters, flags and places of release(), release_context() and      *)
(* reboot() (pool_common.rs) keep their types however many controllers run *)
(* at the same time.                                                       *)
THEOREM LifecycleTypes == Spec => []LifecycleTypeOK
<1>1. TypeInv => LifecycleTypeOK
  BY DEF TypeInv
<1> QED
  BY <1>1, TypeInitially, TypeStep, PTL DEF Spec

-----------------------------------------------------------------------------
(* Where the one controller is.                                            *)

(* Somebody else moves: the flags only get more. *)
LEMMA WhereQuiet ==
  ASSUME WhereClosed, UNCHANGED <<state, gen, pc, op, step, latch>>,
         \A k \in KindSet : done[k] => done'[k]
  PROVE  WhereClosed'
  BY DEF WhereClosed, Where, IsClosed

(* One more flag is found set. *)
LEMMA FlagsRead ==
  ASSUME StepsInRange, NEW c \in Controllers, done[Kind(c)],
         \A k \in KindSet : Position(k) < step[c] => done[k]
  PROVE  /\ \A k \in KindSet : Position(k) <= step[c] => done[k]
         /\ \A k \in KindSet : Position(k) < step[c] + 1 => done[k]
         /\ ~(step[c] < Len(Kinds)) => \A k \in KindSet : done[k]
<1> DEFINE n == Len(Kinds)
<1>0. n \in 1..2 /\ step[c] \in 1..n
  BY KindFacts DEF StepsInRange
<1>1. \A k \in KindSet : Position(k) \in 1..n /\ Kinds[Position(k)] = k
  BY KindFacts
<1> HIDE DEF n
<1>2. \A k \in KindSet : Position(k) <= step[c] => done[k]
  <2> SUFFICES ASSUME NEW k \in KindSet, Position(k) <= step[c]
               PROVE  done[k]
    OBVIOUS
  <2>1. CASE Position(k) = step[c]
    BY <1>1, <2>1 DEF Kind
  <2>2. CASE Position(k) < step[c]
    BY <2>2
  <2> QED
    BY <1>0, <1>1, <2>1, <2>2
<1>3. \A k \in KindSet : Position(k) < step[c] + 1 => Position(k) <= step[c]
  BY <1>0, <1>1
<1>4. ~(step[c] < n) => \A k \in KindSet : Position(k) <= step[c]
  BY <1>0, <1>1
<1> QED
  BY <1>2, <1>3, <1>4 DEF n

LEMMA WhereStep ==
  ASSUME Alone, LifecycleInv, [Next]_vars
  PROVE  WhereClosed'
<1>0. LifecycleTypeOK /\ StepsInRange /\ WhereClosed
  BY DEF LifecycleInv, TypeInv
<1>1. ASSUME NEW c \in Controllers, Call(c) \/ ReleaseStep(c) \/ RebootStep(c)
      PROVE  WhereClosed'
  <2>0. /\ pc \in [Controllers -> ControllerPC] /\ step \in [Controllers -> 1..2]
        /\ op \in [Controllers -> AllOps \cup {"ok", "closed", "expired", "none"}]
        /\ latch \in [Controllers -> Gens] /\ gen \in Nat
        /\ done \in [KindSet -> BOOLEAN]
    BY <1>0, LifecycleAssumption DEF LifecycleTypeOK, Gens
  <2>1. Where(c)
    BY <1>0 DEF WhereClosed
  <2>2. SUFFICES Where(c)'
    BY DEF Alone, WhereClosed
  <2>3. CASE Call(c)
    <3>1. PICK o \in Ops :
            /\ op' = [op EXCEPT ![c] = o]
            /\ Goto(c, CASE o = "release" -> "cas"
                         [] o = "reboot" -> "reboot"
                         [] OTHER -> "admit")
      BY <2>3 DEF Call
    <3>2. op'[c] # "ok"
      BY <2>0, <3>1, LifecycleAssumption DEF AllOps
    <3>3. pc'[c] \in {"cas", "reboot", "admit"}
      BY <2>0, <3>1 DEF Goto
    <3>4. step'[c] = 1
      BY <2>1, <2>3 DEF Call, Where
    <3> QED
      BY <3>2, <3>3, <3>4 DEF Where
  <2>4. CASE Admit(c) \/ FindStop(c) \/ CopyContext(c)
    <3>1. pc[c] \in {"admit", "stops", "copy"} /\ op'[c] # "ok"
          /\ pc'[c] \in {"stops", "copy", "cas", "idle"}
      BY <2>0, <2>1, <2>4 DEF Admit, FindStop, CopyContext, NextKind, Return, Goto, Where
    <3>2. pc'[c] \in {"cas", "idle"} => step'[c] = 1
      BY <2>0, <2>1, <2>4 DEF Admit, FindStop, CopyContext, NextKind, Return, Goto, Where
    <3> QED
      BY <2>1, <3>1, <3>2 DEF Where
  <2>5. CASE Close(c)
    BY <2>0, <2>1, <2>5 DEF Close, Goto, Where, IsClosed
  <2>6. CASE StopBackground(c)
    <3>1. pc'[c] \in {"stop", "reset"} /\ (pc'[c] = "reset" => step'[c] = 1)
          /\ UNCHANGED <<state, op>>
      BY <2>0, <2>6 DEF StopBackground, NextKind, Goto
    <3> QED
      BY <2>1, <2>6, <3>1 DEF Where, StopBackground, IsClosed
  <2>7. CASE ResetQueue(c) \/ LookAtRunning(c) \/ JoinContexts(c) \/ FetchLatch(c)
             \/ AwaitLatch(c) \/ CloseLatch(c)
    <3>1. /\ pc[c] \in {"reset", "latch", "join", "fetch", "await", "close"}
          /\ pc'[c] \in {"latch", "close", "after", "verify", "await", "retire"}
          /\ UNCHANGED <<state, op, step, done>>
      BY <2>0, <2>7
      DEF ResetQueue, LookAtRunning, JoinContexts, FetchLatch, AwaitLatch,
          CloseLatch, Goto, poolVars
    <3>2. step'[c] = 1 /\ IsClosed'
      BY <2>1, <3>1 DEF Where, IsClosed
    <3>3. \A k \in KindSet : ~(Position(k) < 1)
      BY KindFacts
    <3> QED
      BY <2>1, <3>1, <3>2, <3>3 DEF Where
  <2>8. CASE AfterRelease(c) \/ AwaitWorkers(c) \/ CountWorkers(c)
    <3>1. /\ pc[c] \in {"after", "wait", "verify"}
          /\ pc'[c] \in {"idle", "wait", "join", "flags"}
          /\ UNCHANGED <<state, step>>
          /\ op'[c] # "ok"
      BY <2>0, <2>1, <2>8
      DEF AfterRelease, AwaitWorkers, CountWorkers, LookAgain, Expire, Return, Goto,
          Where, poolVars
    <3>2. step'[c] = 1 /\ IsClosed'
      BY <2>1, <3>1 DEF Where, IsClosed
    <3>3. \A k \in KindSet : ~(Position(k) < 1)
      BY KindFacts
    <3> QED
      BY <3>1, <3>2, <3>3 DEF Where
  <2>15. CASE CheckFlag(c)
    <3>1. pc[c] = "flags" /\ UNCHANGED <<state, done>> /\ IsClosed' /\ op[c] # "ok"
      BY <2>1, <2>15 DEF CheckFlag, Where, IsClosed, poolVars
    <3>2. CASE done[Kind(c)] /\ step[c] < Len(Kinds)
      <4>1. pc' = pc /\ op' = op /\ step'[c] = step[c] + 1
        BY <2>0, <2>15, <3>2 DEF CheckFlag
      <4>2. \A k \in KindSet : Position(k) < step[c] + 1 => done[k]
        BY <1>0, <2>1, <3>1, <3>2, FlagsRead DEF Where
      <4> QED
        BY <3>1, <4>1, <4>2 DEF Where
    <3>3. CASE ~(done[Kind(c)] /\ step[c] < Len(Kinds))
      <4>1. step'[c] = 1 /\ pc'[c] \in {"idle", "wait"}
            /\ (op'[c] = "ok" => pc'[c] = "idle")
        BY <2>0, <2>15, <3>1, <3>3 DEF CheckFlag, LookAgain, Expire, Return, Goto
      <4> QED
        BY <3>1, <4>1 DEF Where
    <3> QED
      BY <3>2, <3>3
  <2>9. CASE Reboot(c)
    <3>1. /\ pc[c] = "reboot" /\ UNCHANGED <<state, step>>
          /\ \/ pc'[c] = "fetch" /\ IsClosed /\ op' = op
             \/ pc'[c] = "idle" /\ op'[c] = "none"
      BY <2>0, <2>9 DEF Reboot, Return, Goto, poolVars
    <3> QED
      BY <2>1, <3>1 DEF Where, IsClosed
  <2>10. CASE AwaitBackground(c)
    <3>1. pc[c] = "retire" /\ done[Kind(c)] /\ UNCHANGED <<state, op, done>>
      BY <2>10 DEF AwaitBackground, poolVars
    <3>2. IsClosed' /\ op'[c] # "ok"
      BY <2>1, <3>1 DEF Where, IsClosed
    <3>3. /\ \A k \in KindSet : Position(k) < step[c] + 1 => done[k]
          /\ ~(step[c] < Len(Kinds)) => \A k \in KindSet : done[k]
      BY <1>0, <2>1, <3>1, FlagsRead DEF Where
    <3>4. CASE step[c] < Len(Kinds)
      <4>1. pc'[c] = "retire" /\ step'[c] = step[c] + 1
        BY <2>0, <2>10, <3>4 DEF AwaitBackground, NextKind, Goto
      <4> QED
        BY <3>1, <3>2, <3>3, <4>1 DEF Where
    <3>5. CASE ~(step[c] < Len(Kinds))
      <4>1. pc'[c] = "open" /\ step'[c] = 1
        BY <2>0, <2>10, <3>5 DEF AwaitBackground, NextKind, Goto
      <4> QED
        BY <3>1, <3>2, <3>3, <3>5, <4>1 DEF Where
    <3> QED
      BY <3>4, <3>5
  <2>11. CASE Reopen(c)
    <3>1. pc[c] = "open" /\ IsClosed /\ step[c] = 1 /\ op[c] # "ok"
      BY <2>1, <2>11 DEF Reopen, Where
    <3>2. /\ state' = "OPENED" /\ gen' = gen + 1 /\ latch'[c] = gen + 1
          /\ pc'[c] = "zero" /\ step' = step /\ op' = op
      BY <2>0, <2>11, <3>1 DEF Reopen, Goto
    <3> QED
      BY <3>1, <3>2 DEF Where, IsClosed
  <2>12. CASE ZeroDone(c) \/ RenewContext(c)
    <3>1. /\ pc[c] \in {"zero", "go"} /\ pc'[c] \in {"go", "arm"}
          /\ UNCHANGED <<state, gen, latch, op, step>>
      BY <2>0, <2>12 DEF ZeroDone, RenewContext, Goto
    <3> QED
      BY <2>1, <3>1 DEF Where, IsClosed
  <2>13. CASE ArmAndSpawn(c)
    <3>1. /\ pc[c] = "arm" /\ pc'[c] \in {"zero", "swap"}
          /\ pc'[c] = "swap" => step'[c] = 1
          /\ UNCHANGED <<state, gen, latch, op>>
      BY <2>0, <2>13 DEF ArmAndSpawn, NextKind, Goto
    <3> QED
      BY <2>1, <3>1 DEF Where, IsClosed
  <2>14. CASE SwapLatch(c)
    <3>1. pc[c] = "swap" /\ pc'[c] = "idle" /\ op'[c] = "none" /\ UNCHANGED <<state, step>>
      BY <2>0, <2>14 DEF SwapLatch, Return
    <3> QED
      BY <2>1, <3>1 DEF Where, IsClosed
  <2> QED
    BY <1>1, <2>3, <2>4, <2>5, <2>6, <2>7, <2>8, <2>9, <2>10, <2>11, <2>12, <2>13,
       <2>14, <2>15
    DEF ReleaseStep, RebootStep
<1>2. ASSUME NEW k \in KindSet, NEW g \in Gens, BackgroundStep(k, g)
      PROVE  WhereClosed'
  <2>1. \A m \in KindSet : done[m] => done'[m]
    BY <1>0, <1>2
    DEF BackgroundStep, CopyOwnContext, LeaveLoop, StoreDone, poolVars, LifecycleTypeOK
  <2>2. UNCHANGED <<state, gen, pc, op, step, latch>>
    BY <1>2 DEF BackgroundStep, CopyOwnContext, LeaveLoop, StoreDone, poolVars, ctlVars
  <2> QED
    BY <1>0, <2>1, <2>2, WhereQuiet
<1>3. CASE \/ \E g \in Gens : PurgeIdle(g)
           \/ \E w \in Workers : AdmitCaller(w) \/ WorkerStep(w)
           \/ UNCHANGED vars
  <2>1. UNCHANGED <<state, gen, done, pc, op, step, latch>>
    BY <1>3
    DEF PurgeIdle, AdmitCaller, WorkerStep, SpawnWorker, FinishTask, Depart,
        LastLooks, LastCloses, vars, poolVars, ctlVars
  <2> QED
    BY <1>0, <2>1, WhereQuiet
<1> QED
  BY <1>1, <1>2, <1>3 DEF Next

-----------------------------------------------------------------------------
(* The background threads.                                                 *)

(* Where a controller is starting or stopping them. *)
Hands == {"stop", "zero", "go", "arm"}

(* Nobody touches the thread k, and no controller begins or ends doing so. *)
LEMMA QuietBackground ==
  ASSUME NEW k \in KindSet, Background(k),
         UNCHANGED <<state, ctx, stop, cancelled, done, gen, bg, mine>>,
         \A c \in Controllers : \/ UNCHANGED <<pc[c], step[c]>>
                                \/ pc[c] \notin Hands /\ pc'[c] \notin Hands
  PROVE  Background(k)'
<1>1. \A c \in Controllers : \A l \in Hands :
        (Ahead(c, l, k)' <=> Ahead(c, l, k)) /\ (At(c, l, k)' <=> At(c, l, k))
  BY DEF Ahead, At, Hands
<1>2. Unborn(k)' <=> Unborn(k)
  BY <1>1 DEF Unborn, Hands
<1>3. OldAreGone(k)'
  BY DEF Background, OldAreGone
<1>4. BeingMade(k) => BeingMade(k)'
  BY <1>1 DEF BeingMade, Hands
<1>5. Made(k) => Made(k)'
  BY <1>1 DEF Made, Hands, IsClosed
<1> QED
  BY <1>2, <1>3, <1>4, <1>5 DEF Background

LEMMA ControllerKeepsBackground ==
  ASSUME Alone, LifecycleInv, NEW c \in Controllers,
         Call(c) \/ ReleaseStep(c) \/ RebootStep(c), NEW k \in KindSet
  PROVE  Background(k)'
<1>0. /\ pc \in [Controllers -> ControllerPC] /\ step \in [Controllers -> 1..2]
      /\ latch \in [Controllers -> Gens] /\ gen \in Gens /\ Gens = 0..MaxGen
      /\ MaxGen \in Nat /\ None \notin Gens
      /\ done \in [KindSet -> BOOLEAN]
      /\ ctx \in [KindSet -> Gens]
      /\ stop \in [KindSet -> Gens \cup {None}]
      /\ cancelled \in [KindSet -> SUBSET Gens]
      /\ bg \in [KindSet -> [Gens -> {"none", "start", "loop", "exit", "gone"}]]
      /\ StepsInRange
  BY LifecycleAssumption DEF LifecycleInv, TypeInv, LifecycleTypeOK, Gens
<1>1. Background(k) /\ Where(c)
  BY DEF LifecycleInv, WhereClosed
<1>2. \A d \in Controllers : d = c
  BY DEF Alone
<1>3. Position(k) \in 1..2 /\ Kinds[Position(k)] = k
  <2>1. Len(Kinds) = 1 \/ Len(Kinds) = 2
    BY KindFacts
  <2> QED
    BY <2>1, KindFacts
<1>4. step[c] \in 1..2 /\ Kind(c) \in KindSet /\ (Kind(c) = k <=> step[c] = Position(k))
  BY <1>0, <1>3, KindFacts DEF Kind, StepsInRange
<1>5. CASE /\ UNCHANGED <<state, ctx, stop, cancelled, done, gen, bg, mine>>
           /\ pc[c] \notin Hands /\ pc'[c] \notin Hands
  BY <1>1, <1>2, <1>5, QuietBackground
<1>6. CASE Call(c)
  <2>1. PICK o \in Ops : Goto(c, CASE o = "release" -> "cas"
                                   [] o = "reboot" -> "reboot"
                                   [] OTHER -> "admit")
    BY <1>6 DEF Call
  <2>2. pc[c] \notin Hands /\ pc'[c] \notin Hands
    BY <1>0, <1>6, <2>1 DEF Call, Goto, Hands
  <2> QED
    BY <1>5, <1>6, <2>2 DEF Call, poolVars, bgVars
<1>7. CASE \/ Admit(c) \/ FindStop(c) \/ CopyContext(c) \/ ResetQueue(c)
           \/ LookAtRunning(c) \/ AfterRelease(c) \/ AwaitWorkers(c)
           \/ JoinContexts(c) \/ CountWorkers(c) \/ CheckFlag(c)
           \/ Reboot(c) \/ FetchLatch(c) \/ AwaitLatch(c)
  <2>1. pc[c] \notin Hands /\ pc'[c] \notin Hands
    BY <1>0, <1>7
    DEF Admit, FindStop, CopyContext, ResetQueue, LookAtRunning, AfterRelease,
        AwaitWorkers, JoinContexts, CountWorkers, CheckFlag, LookAgain, Expire, Reboot,
        FetchLatch, AwaitLatch, NextKind, Return, Goto, Hands
  <2> QED
    BY <1>5, <1>7, <2>1
    DEF Admit, FindStop, CopyContext, ResetQueue, LookAtRunning, AfterRelease,
        AwaitWorkers, JoinContexts, CountWorkers, CheckFlag, Reboot, FetchLatch,
        AwaitLatch, poolVars, bgVars
<1>8. CASE CloseLatch(c) \/ SwapLatch(c) \/ AwaitBackground(c)
  <2>1. pc[c] \notin Hands /\ pc'[c] \notin Hands
    BY <1>0, <1>8
    DEF CloseLatch, SwapLatch, AwaitBackground, NextKind, Return, Goto, Hands
  <2> QED
    BY <1>5, <1>8, <2>1 DEF CloseLatch, SwapLatch, AwaitBackground, poolVars, bgVars
<1>9. CASE Close(c)
  <2>1. pc[c] = "cas" /\ step[c] = 1 /\ UNCHANGED <<ctx, stop, cancelled, done, gen,
                                                    bg, mine, step>>
    BY <1>1, <1>9 DEF Close, Where, bgVars
  <2>2. CASE IsClosed
    <3>1. state' = state /\ pc'[c] = "after"
      BY <1>0, <1>9, <2>2 DEF Close, Goto, IsClosed
    <3> QED
      BY <1>5, <2>1, <3>1 DEF Hands
  <2>3. CASE ~IsClosed
    <3>1. pc'[c] = "stop" /\ IsClosed'
      BY <1>0, <1>9, <2>3 DEF Close, Goto, IsClosed
    <3>2. ~Unborn(k) /\ ~Unborn(k)' /\ Ahead(c, "stop", k)'
      BY <1>2, <1>3, <2>1, <3>1 DEF Unborn, Ahead
    <3>3. Made(k)'
      BY <1>1, <2>1, <2>3, <3>1, <3>2 DEF Background, Made
    <3> QED
      BY <1>1, <2>1, <3>2, <3>3 DEF Background, OldAreGone
  <2> QED
    BY <2>2, <2>3
<1>10. CASE StopBackground(c)
  <2>1. /\ pc[c] = "stop" /\ IsClosed /\ IsClosed'
        /\ UNCHANGED <<state, ctx, done, gen, bg, mine>>
    BY <1>1, <1>10 DEF StopBackground, Where, bgVars, IsClosed
  <2>2. pc'[c] \in {"stop", "reset"} /\ (pc'[c] = "stop" => step'[c] = step[c] + 1)
    BY <1>0, <1>10 DEF StopBackground, NextKind, Goto
  <2>3. ~Unborn(k) /\ ~Unborn(k)'
    BY <1>2, <2>1, <2>2 DEF Unborn, Ahead
  <2>4. Ahead(c, "stop", k)' => Ahead(c, "stop", k) /\ Kind(c) # k
    BY <1>0, <1>3, <1>4, <2>1, <2>2 DEF Ahead
  <2>5. Kind(c) # k => cancelled'[k] = cancelled[k] /\ stop'[k] = stop[k]
    BY <1>0, <1>4, <1>10 DEF StopBackground, Cancel
  <2>6. Kind(c) = k => stop[k] = gen /\ cancelled'[k] \subseteq cancelled[k] \cup {gen}
    <3> SUFFICES ASSUME Kind(c) = k
                 PROVE  stop[k] = gen /\ cancelled'[k] \subseteq cancelled[k] \cup {gen}
      OBVIOUS
    <3>1. Ahead(c, "stop", k)
      BY <1>3, <1>4, <2>1 DEF Ahead
    <3>2. stop[k] = gen
      BY <1>1, <2>3, <3>1 DEF Background, Made
    <3>3. cancelled'[k] = (cancelled[k] \cup {stop[k]}) \ {None}
      BY <1>0, <1>10 DEF StopBackground, Cancel
    <3> QED
      BY <3>2, <3>3
  <2>7. OldAreGone(k)'
    <3>1. cancelled'[k] \subseteq 0..gen
      BY <1>0, <1>1, <2>5, <2>6 DEF Background, OldAreGone
    <3> QED
      BY <1>1, <2>1, <3>1 DEF Background, OldAreGone
  <2>8. Made(k)'
    BY <1>1, <1>2, <2>1, <2>3, <2>4, <2>5 DEF Background, Made
  <2> QED
    BY <2>3, <2>7, <2>8 DEF Background
<1>11. CASE Reopen(c)
  <2>1. pc[c] = "open" /\ IsClosed /\ step[c] = 1 /\ done[k]
    BY <1>1, <1>11 DEF Reopen, Where
  <2>2. /\ pc'[c] = "zero" /\ gen' = gen + 1 /\ gen + 1 \in Gens
        /\ UNCHANGED <<ctx, stop, cancelled, done, bg, mine, step>>
    BY <1>0, <1>11, <2>1 DEF Reopen, Goto, bgVars
  <2>3. ~Unborn(k) /\ Unborn(k)' /\ ~At(c, "go", k)' /\ ~At(c, "arm", k)'
    <3>1. ~Unborn(k)
      BY <1>2, <2>1 DEF Unborn, Ahead
    <3>2. Ahead(c, "zero", k)'
      BY <1>3, <2>1, <2>2 DEF Ahead
    <3> QED
      BY <2>2, <3>1, <3>2 DEF Unborn, At
  <2>4. bg[k][gen] = "gone" /\ OldAreGone(k)
    BY <1>1, <2>1, <2>3 DEF Background, Made
  <2>5. OldAreGone(k)' /\ bg'[k][gen'] = "none" /\ gen' \notin cancelled'[k]
    BY <1>0, <2>2, <2>4 DEF OldAreGone
  <2>6. BeingMade(k)'
    BY <1>2, <2>1, <2>2, <2>3, <2>5 DEF BeingMade
  <2> QED
    BY <2>3, <2>5, <2>6 DEF Background
<1>12. CASE ZeroDone(c) \/ RenewContext(c)
  <2>1. /\ \/ pc[c] = "zero" /\ pc'[c] = "go" /\ done' = [done EXCEPT ![Kind(c)] = FALSE]
              /\ ctx' = ctx
           \/ pc[c] = "go" /\ pc'[c] = "arm" /\ done' = done
              /\ ctx' = [ctx EXCEPT ![Kind(c)] = gen]
        /\ ~IsClosed /\ latch[c] = gen
        /\ UNCHANGED <<state, stop, cancelled, gen, bg, mine, step>>
    BY <1>0, <1>1, <1>12 DEF ZeroDone, RenewContext, Where, Goto, bgVars
  <2>2. OldAreGone(k)'
    BY <1>1, <2>1 DEF Background, OldAreGone
  <2>3. CASE step[c] <= Position(k)
    <3>1. Unborn(k) /\ Unborn(k)'
      BY <2>1, <2>3 DEF Unborn, Ahead
    <3>2. BeingMade(k)'
      <4>1. BeingMade(k)
        BY <1>1, <3>1 DEF Background
      <4>2. CASE step[c] = Position(k)
        BY <1>0, <1>2, <1>4, <2>1, <4>1, <4>2 DEF BeingMade, At
      <4>3. CASE step[c] # Position(k)
        BY <1>0, <1>2, <1>4, <2>1, <4>1, <4>3 DEF BeingMade, At
      <4> QED
        BY <4>2, <4>3
    <3> QED
      BY <2>2, <3>1, <3>2 DEF Background
  <2>4. CASE ~(step[c] <= Position(k))
    <3>1. ~Unborn(k) /\ ~Unborn(k)'
      BY <1>2, <2>1, <2>4 DEF Unborn, Ahead
    <3>2. done'[k] = done[k] /\ ctx'[k] = ctx[k]
      BY <1>0, <1>3, <1>4, <2>1, <2>4
    <3>3. Made(k)'
      BY <1>1, <1>2, <2>1, <3>1, <3>2 DEF Background, Made, Ahead, IsClosed
    <3> QED
      BY <2>2, <3>1, <3>3 DEF Background
  <2> QED
    BY <2>3, <2>4
<1>13. CASE ArmAndSpawn(c)
  <2>1. /\ pc[c] = "arm" /\ pc'[c] \in {"zero", "swap"}
        /\ pc'[c] = "zero" => step'[c] = step[c] + 1
        /\ pc'[c] = "swap" => step[c] = Len(Kinds)
        /\ stop' = [stop EXCEPT ![Kind(c)] = gen]
        /\ bg' = [bg EXCEPT ![Kind(c)][gen] = "start"]
        /\ ~IsClosed
        /\ UNCHANGED <<state, ctx, cancelled, done, gen, mine>>
    <3>1. ~(step[c] < Len(Kinds)) => step[c] = Len(Kinds)
      <4> DEFINE n == Len(Kinds)
      <4>1. n \in 1..2 /\ step[c] \in 1..n
        BY <1>0, KindFacts DEF StepsInRange
      <4> HIDE DEF n
      <4>2. ~(step[c] < n) => step[c] = n
        BY <4>1
      <4> QED
        BY <4>2 DEF n
    <3> QED
      BY <1>0, <1>1, <1>13, <3>1 DEF ArmAndSpawn, NextKind, Where, Goto
  <2>2. OldAreGone(k)'
    BY <1>0, <1>1, <1>4, <2>1 DEF Background, OldAreGone
  <2>3. CASE step[c] = Position(k)
    <3>1. Kind(c) = k /\ Unborn(k) /\ At(c, "arm", k)
      BY <1>3, <1>4, <2>1, <2>3 DEF Unborn, Ahead, At
    <3>2. ~Unborn(k)'
      BY <1>2, <1>3, <1>4, <2>1, <2>3 DEF Unborn, Ahead
    <3>3. BeingMade(k)
      BY <1>1, <3>1 DEF Background
    <3>4. ~done[k] /\ ctx[k] = gen /\ gen \notin cancelled[k]
      BY <3>1, <3>3 DEF BeingMade
    <3>5. stop'[k] = gen /\ bg'[k][gen] = "start"
      BY <1>0, <2>1, <3>1
    <3>6. Made(k)'
      BY <2>1, <3>4, <3>5 DEF Made, IsClosed
    <3> QED
      BY <2>2, <3>2, <3>6 DEF Background
  <2>4. CASE step[c] < Position(k)
    <3>1. pc'[c] = "zero" /\ step'[c] = step[c] + 1
      <4>1. step[c] # Len(Kinds)
        <5> DEFINE n == Len(Kinds)
        <5>1. Position(k) \in 1..n /\ n \in 1..2
          BY KindFacts
        <5> HIDE DEF n
        <5>2. step[c] # n
          BY <1>4, <2>4, <5>1
        <5> QED
          BY <5>2 DEF n
      <4> QED
        BY <2>1, <4>1
    <3>2. Unborn(k) /\ Ahead(c, "zero", k)' /\ ~At(c, "arm", k) /\ ~At(c, "go", k)
      BY <1>3, <1>4, <2>1, <2>4, <3>1 DEF Unborn, Ahead, At
    <3>3. Unborn(k)' /\ ~At(c, "arm", k)' /\ ~At(c, "go", k)'
      BY <3>1, <3>2 DEF Unborn, At
    <3>4. bg'[k] = bg[k]
      BY <1>0, <1>4, <2>1, <2>4
    <3>5. BeingMade(k)'
      BY <1>1, <1>2, <2>1, <3>2, <3>3, <3>4 DEF Background, BeingMade
    <3> QED
      BY <2>2, <3>3, <3>5 DEF Background
  <2>5. CASE step[c] > Position(k)
    <3>1. ~Unborn(k) /\ ~Unborn(k)'
      BY <1>2, <1>3, <1>4, <2>1, <2>5 DEF Unborn, Ahead
    <3>2. stop'[k] = stop[k] /\ bg'[k] = bg[k]
      BY <1>0, <1>3, <1>4, <2>1, <2>5
    <3>3. Made(k)'
      BY <1>1, <1>2, <2>1, <3>1, <3>2 DEF Background, Made, Ahead, IsClosed
    <3> QED
      BY <2>2, <3>1, <3>3 DEF Background
  <2> QED
    BY <1>3, <1>4, <2>3, <2>4, <2>5
<1> QED
  BY <1>6, <1>7, <1>8, <1>9, <1>10, <1>11, <1>12, <1>13 DEF ReleaseStep, RebootStep

LEMMA BackgroundKept ==
  ASSUME Alone, LifecycleInv, [Next]_vars, NEW k \in KindSet
  PROVE  Background(k)'
<1>0. /\ done \in [KindSet -> BOOLEAN] /\ gen \in Gens /\ Gens \subseteq Nat
      /\ bg \in [KindSet -> [Gens -> {"none", "start", "loop", "exit", "gone"}]]
      /\ mine \in [KindSet -> [Gens -> Gens]]
  <2>1. LifecycleTypeOK
    BY DEF LifecycleInv, TypeInv
  <2>2. Gens \subseteq Nat
    BY LifecycleAssumption DEF Gens
  <2> QED
    BY <2>1, <2>2 DEF LifecycleTypeOK
<1>1. Background(k)
  BY DEF LifecycleInv
<1>2. ASSUME NEW c \in Controllers, Call(c) \/ ReleaseStep(c) \/ RebootStep(c)
      PROVE  Background(k)'
  BY <1>2, ControllerKeepsBackground
<1>3. ASSUME NEW m \in KindSet, NEW g \in Gens, BackgroundStep(m, g)
      PROVE  Background(k)'
  <2>1. /\ UNCHANGED <<state, ctx, stop, cancelled, gen, pc, step>>
        /\ bg[m][g] \in {"start", "loop", "exit"}
        /\ \A l \in KindSet : l # m =>
             bg'[l] = bg[l] /\ mine'[l] = mine[l] /\ done'[l] = done[l]
    BY <1>0, <1>3
    DEF BackgroundStep, CopyOwnContext, LeaveLoop, StoreDone, poolVars, ctlVars
  <2>2. /\ Unborn(k)' <=> Unborn(k)
        /\ \A c \in Controllers : \A l \in Hands :
             (Ahead(c, l, k)' <=> Ahead(c, l, k)) /\ (At(c, l, k)' <=> At(c, l, k))
    BY <2>1 DEF Unborn, Ahead, At
  <2>3. CASE m # k
    <3>1. OldAreGone(k)'
      BY <1>1, <2>1, <2>3 DEF Background, OldAreGone
    <3>2. BeingMade(k) => BeingMade(k)'
      BY <2>1, <2>2, <2>3 DEF BeingMade, Hands
    <3>3. Made(k) => Made(k)'
      BY <2>1, <2>2, <2>3 DEF Made, Hands, IsClosed
    <3> QED
      BY <1>1, <2>2, <3>1, <3>2, <3>3 DEF Background
  <2>4. CASE m = k
    <3>1. g = gen /\ ~Unborn(k) /\ Made(k)
      BY <1>0, <1>1, <2>1, <2>4 DEF Background, OldAreGone, BeingMade
    <3>2. OldAreGone(k)'
      <4>1. \A h \in Gens : h # gen => bg'[k][h] = bg[k][h]
        BY <1>0, <1>3, <2>4, <3>1
        DEF BackgroundStep, CopyOwnContext, LeaveLoop, StoreDone
      <4> QED
        BY <1>0, <1>1, <2>1, <4>1 DEF Background, OldAreGone
    <3>3. CASE CopyOwnContext(m, g)
      <4>1. bg'[k][gen] = "loop" /\ mine'[k][gen] = gen /\ done' = done
        BY <1>0, <2>4, <3>1, <3>3 DEF CopyOwnContext, poolVars, Made
      <4>2. Made(k)'
        BY <1>0, <2>1, <2>2, <2>4, <3>1, <3>3, <4>1 DEF Made, CopyOwnContext, Hands, IsClosed
      <4> QED
        BY <2>2, <3>1, <3>2, <4>2 DEF Background
    <3>4. CASE LeaveLoop(m, g)
      <4>1. bg'[k][gen] = "exit" /\ done' = done /\ bg[k][gen] = "loop"
        BY <1>0, <2>4, <3>1, <3>4 DEF LeaveLoop, poolVars
      <4>2. IsClosed
        BY <2>4, <3>1, <3>4, <4>1 DEF LeaveLoop, ContextDone, Made
      <4>3. Made(k)'
        BY <2>1, <2>2, <3>1, <4>1, <4>2 DEF Made, Hands, IsClosed
      <4> QED
        BY <2>2, <3>1, <3>2, <4>3 DEF Background
    <3>5. CASE StoreDone(m, g)
      <4>1. bg'[k][gen] = "gone" /\ done'[k] /\ bg[k][gen] = "exit"
        BY <1>0, <2>4, <3>1, <3>5 DEF StoreDone
      <4>2. Made(k)'
        BY <2>1, <2>2, <3>1, <4>1 DEF Made, Hands, IsClosed
      <4> QED
        BY <2>2, <3>1, <3>2, <4>2 DEF Background
    <3> QED
      BY <1>3, <3>3, <3>4, <3>5 DEF BackgroundStep
  <2> QED
    BY <2>3, <2>4
<1>4. CASE \/ \E g \in Gens : PurgeIdle(g)
           \/ \E w \in Workers : AdmitCaller(w) \/ WorkerStep(w)
           \/ UNCHANGED vars
  <2>1. UNCHANGED <<state, ctx, stop, cancelled, done, gen, bg, mine, pc, step>>
    BY <1>4
    DEF PurgeIdle, AdmitCaller, WorkerStep, SpawnWorker, FinishTask, Depart,
        LastLooks, LastCloses, vars, poolVars, bgVars, ctlVars
  <2> QED
    BY <1>1, <2>1, QuietBackground
<1> QED
  BY <1>2, <1>3, <1>4 DEF Next

-----------------------------------------------------------------------------
(* The workers.                                                            *)

LEMMA ParkedKept ==
  ASSUME Alone, LifecycleInv, [Next]_vars
  PROVE  NobodyParked'
<1>0. LifecycleTypeOK /\ NobodyParked /\ WhereClosed
  BY DEF LifecycleInv, TypeInv
<1>1. /\ pc \in [Controllers -> ControllerPC]
      /\ wpc \in [Workers -> {"none", "admitted", "busy", "idle", "exit", "last",
                              "closing"}]
      /\ state \in {"OPENED", "CLOSED"}
  BY <1>0 DEF LifecycleTypeOK
<1>2. ASSUME NEW c \in Controllers, Call(c) \/ ReleaseStep(c) \/ RebootStep(c)
      PROVE  NobodyParked'
  <2>1. \A d \in Controllers : d = c
    BY DEF Alone
  <2>2. CASE ResetQueue(c)
    BY <1>1, <2>2 DEF ResetQueue, NobodyParked
  <2>3. CASE Close(c)
    <3>1. wpc' = wpc /\ pc[c] = "cas"
      BY <2>3 DEF Close
    <3>2. CASE IsClosed
      BY <1>0, <2>1, <3>1, <3>2 DEF NobodyParked
    <3>3. CASE ~IsClosed
      <4>1. pc'[c] = "stop"
        BY <1>1, <2>3, <3>3 DEF Close, Goto
      <4> QED
        BY <4>1 DEF NobodyParked
    <3> QED
      BY <3>2, <3>3
  <2>4. CASE StopBackground(c)
    <3>1. pc'[c] \in {"stop", "reset"}
      BY <1>1, <2>4 DEF StopBackground, NextKind, Goto
    <3> QED
      BY <3>1 DEF NobodyParked
  <2>5. CASE Reopen(c) /\ IsClosed
    BY <2>5 DEF Reopen, NobodyParked, IsClosed
  <2>6. CASE ~ResetQueue(c) /\ ~Close(c) /\ ~StopBackground(c) /\ ~(Reopen(c) /\ IsClosed)
    <3>1. UNCHANGED <<state, wpc>>
      BY <1>2, <2>6
      DEF Call, ReleaseStep, Admit, FindStop, CopyContext, LookAtRunning, CloseLatch,
          AfterRelease, AwaitWorkers, JoinContexts, CountWorkers, CheckFlag,
          RebootStep, Reboot, FetchLatch, AwaitLatch, AwaitBackground, Reopen,
          ZeroDone, RenewContext, ArmAndSpawn, SwapLatch, poolVars
    <3>2. pc[c] \notin {"stop", "reset"}
      BY <1>2, <2>6
      DEF Call, ReleaseStep, Admit, FindStop, CopyContext, LookAtRunning, CloseLatch,
          AfterRelease, AwaitWorkers, JoinContexts, CountWorkers, CheckFlag,
          RebootStep, Reboot, FetchLatch, AwaitLatch, AwaitBackground, Reopen,
          ZeroDone, RenewContext, ArmAndSpawn, SwapLatch
    <3> QED
      BY <1>0, <2>1, <3>1, <3>2 DEF NobodyParked, IsClosed
  <2> QED
    BY <2>2, <2>3, <2>4, <2>5, <2>6
<1>3. ASSUME NEW w \in Workers, FinishTask(w)
      PROVE  NobodyParked'
  <2>1. UNCHANGED <<state, pc>>
    BY <1>3 DEF FinishTask, poolVars, ctlVars
  <2>2. IsClosed => \A v \in Workers : wpc'[v] = "idle" => wpc[v] = "idle"
    BY <1>1, <1>3 DEF FinishTask
  <2> QED
    BY <1>0, <2>1, <2>2 DEF NobodyParked, IsClosed
<1>4. CASE \/ \E k \in KindSet, g \in Gens : BackgroundStep(k, g)
           \/ \E g \in Gens : PurgeIdle(g)
           \/ \E w \in Workers : AdmitCaller(w) \/ SpawnWorker(w) \/ Depart(w)
                                \/ LastLooks(w) \/ LastCloses(w)
           \/ UNCHANGED vars
  <2>1. UNCHANGED <<state, pc>>
    BY <1>4
    DEF BackgroundStep, CopyOwnContext, LeaveLoop, StoreDone, PurgeIdle, AdmitCaller,
        SpawnWorker, Depart, LastLooks, LastCloses, vars, poolVars, ctlVars
  <2>2. \A v \in Workers : wpc'[v] = "idle" => wpc[v] = "idle"
    BY <1>1, <1>4
    DEF BackgroundStep, CopyOwnContext, LeaveLoop, StoreDone, PurgeIdle, AdmitCaller,
        SpawnWorker, Depart, LastLooks, LastCloses, vars
  <2> QED
    BY <1>0, <2>1, <2>2 DEF NobodyParked, IsClosed
<1> QED
  BY <1>2, <1>3, <1>4 DEF Next, WorkerStep

(* In a closed pool only a late worker joins those that count. *)
LEMMA LateStep ==
  ASSUME LifecycleTypeOK, [Next]_vars, IsClosed, IsClosed', Live \subseteq late
  PROVE  Live' \subseteq late'
<1>0. wpc \in [Workers -> {"none", "admitted", "busy", "idle", "exit", "last",
                           "closing"}]
  BY DEF LifecycleTypeOK
<1>1. CASE UNCHANGED <<wpc, late>>
  BY <1>1 DEF Live
<1>2. ASSUME NEW c \in Controllers, Call(c) \/ ReleaseStep(c) \/ RebootStep(c)
      PROVE  Live' \subseteq late'
  <2>1. CASE ResetQueue(c)
    BY <1>0, <2>1 DEF ResetQueue, Live
  <2>2. CASE ~ResetQueue(c)
    <3>1. UNCHANGED <<wpc, late>>
      BY <1>2, <2>2
      DEF Call, ReleaseStep, Admit, FindStop, CopyContext, Close, StopBackground,
          LookAtRunning, CloseLatch, AfterRelease, AwaitWorkers, JoinContexts,
          CountWorkers, CheckFlag, RebootStep, Reboot, FetchLatch, AwaitLatch,
          AwaitBackground, Reopen, ZeroDone, RenewContext, ArmAndSpawn, SwapLatch,
          IsClosed
    <3> QED
      BY <1>1, <3>1
  <2> QED
    BY <2>1, <2>2
<1>3. ASSUME NEW w \in Workers, AdmitCaller(w) \/ WorkerStep(w)
      PROVE  Live' \subseteq late'
  <2>1. CASE SpawnWorker(w)
    BY <1>0, <2>1 DEF SpawnWorker, Live
  <2>2. CASE Depart(w)
    BY <1>0, <2>2 DEF Depart, Live
  <2>3. CASE AdmitCaller(w) \/ FinishTask(w) \/ LastLooks(w) \/ LastCloses(w)
    BY <1>0, <2>3 DEF AdmitCaller, FinishTask, LastLooks, LastCloses, Live
  <2> QED
    BY <1>3, <2>1, <2>2, <2>3 DEF WorkerStep
<1>4. ASSUME NEW g \in Gens, PurgeIdle(g)
      PROVE  Live' \subseteq late'
  BY <1>0, <1>4 DEF PurgeIdle, Live
<1>5. CASE (\E k \in KindSet, g \in Gens : BackgroundStep(k, g)) \/ UNCHANGED vars
  <2>1. UNCHANGED <<wpc, late>>
    BY <1>5 DEF BackgroundStep, CopyOwnContext, LeaveLoop, StoreDone, vars
  <2> QED
    BY <1>1, <2>1
<1> QED
  BY <1>2, <1>3, <1>4, <1>5 DEF Next

(* Who gets to the flags has counted nobody in the meantime. *)
LEMMA FlagsReached ==
  ASSUME LifecycleTypeOK, Counted, [Next]_vars, NEW c \in Controllers,
         pc[c] # "flags", pc'[c] = "flags"
  PROVE  Live' = {}
<1>0. pc \in [Controllers -> ControllerPC]
  BY DEF LifecycleTypeOK
<1>1. ASSUME NEW d \in Controllers, Call(d) \/ ReleaseStep(d) \/ RebootStep(d)
      PROVE  running = 0 /\ wpc' = wpc
  <2>1. CASE Call(d)
    <3>1. PICK o \in Ops : Goto(d, CASE o = "release" -> "cas"
                                     [] o = "reboot" -> "reboot"
                                     [] OTHER -> "admit")
      BY <2>1 DEF Call
    <3> QED
      BY <1>0, <3>1 DEF Goto
  <2>2. CASE CountWorkers(d)
    BY <1>0, <2>2 DEF CountWorkers, LookAgain, Expire, Return, Goto
  <2>3. CASE ReleaseStep(d) /\ ~CountWorkers(d)
    BY <1>0, <2>3
    DEF ReleaseStep, Admit, FindStop, CopyContext, Close, StopBackground, ResetQueue,
        LookAtRunning, CloseLatch, AfterRelease, AwaitWorkers, JoinContexts, CheckFlag,
        LookAgain, Expire, NextKind, Return, Goto
  <2>4. CASE RebootStep(d)
    BY <1>0, <2>4
    DEF RebootStep, Reboot, FetchLatch, AwaitLatch, AwaitBackground, Reopen, ZeroDone,
        RenewContext, ArmAndSpawn, SwapLatch, NextKind, Return, Goto
  <2> QED
    BY <1>1, <2>1, <2>2, <2>3, <2>4
<1>2. ASSUME \/ \E k \in KindSet, g \in Gens : BackgroundStep(k, g)
             \/ \E g \in Gens : PurgeIdle(g)
             \/ \E w \in Workers : AdmitCaller(w) \/ WorkerStep(w)
             \/ UNCHANGED vars
      PROVE  FALSE
  <2>1. pc' = pc
    BY <1>2
    DEF BackgroundStep, CopyOwnContext, LeaveLoop, StoreDone, PurgeIdle, AdmitCaller,
        WorkerStep, SpawnWorker, FinishTask, Depart, LastLooks, LastCloses, vars, ctlVars
  <2> QED
    BY <2>1
<1>3. running = 0 /\ wpc' = wpc
  BY <1>1, <1>2 DEF Next
<1>4. Live = {}
  BY <1>3, NobodyLive
<1> QED
  BY <1>3, <1>4 DEF Live

LEMMA LateKept ==
  ASSUME LifecycleTypeOK, Counted, OnlyLate, [Next]_vars,
         \A c \in Controllers : pc[c] = "flags" /\ pc'[c] = "flags" => IsClosed /\ IsClosed'
  PROVE  OnlyLate'
<1> SUFFICES ASSUME NEW c \in Controllers, pc'[c] = "flags"
             PROVE  Live' \subseteq late'
  BY DEF OnlyLate
<1>1. CASE pc[c] = "flags"
  <2>1. IsClosed /\ IsClosed' /\ Live \subseteq late
    BY <1>1 DEF OnlyLate
  <2> QED
    BY <2>1, LateStep
<1>2. CASE pc[c] # "flags"
  <2>1. Live' = {}
    BY <1>2, FlagsReached
  <2> QED
    BY <2>1
<1> QED
  BY <1>1, <1>2

LEMMA LifecycleInitially == Init => LifecycleInv
<1> SUFFICES ASSUME Init PROVE LifecycleInv
  OBVIOUS
<1>1. TypeInv
  BY TypeInitially
<1>2. WhereClosed /\ NobodyParked /\ OnlyLate
  BY DEF Init, WhereClosed, Where, NobodyParked, OnlyLate, IsClosed
<1>3. ASSUME NEW k \in KindSet
      PROVE  Background(k)
  <2>1. 0 \in Gens /\ Gens \subseteq Nat
    BY LifecycleAssumption DEF Gens
  <2>2. ~Unborn(k)
    BY DEF Init, Unborn, Ahead
  <2>3. OldAreGone(k)
    BY <2>1 DEF Init, OldAreGone
  <2>4. Made(k)
    BY <2>1 DEF Init, Made
  <2> QED
    BY <2>2, <2>3, <2>4 DEF Background
<1> QED
  BY <1>1, <1>2, <1>3 DEF LifecycleInv

(* As long as release() and reboot() are not called at the same time, the  *)
(* contexts, cancel functions, threads and done flags that they pass on to *)
(* each other belong together (pool_common.rs release(), reboot()).        *)
THEOREM LifecycleInvariant ==
  ASSUME Alone PROVE Spec => []LifecycleInv
<1>1. Init => LifecycleInv
  BY LifecycleInitially
<1>2. LifecycleInv /\ [Next]_vars => LifecycleInv'
  <2> SUFFICES ASSUME LifecycleInv, [Next]_vars
               PROVE  LifecycleInv'
    OBVIOUS
  <2>1. TypeInv'
    BY TypeStep DEF LifecycleInv
  <2>2. WhereClosed' /\ NobodyParked'
    BY WhereStep, ParkedKept
  <2>3. \A k \in KindSet : Background(k)'
    BY BackgroundKept
  <2>4. (\A k \in KindSet : Background(k))'
    BY <2>3
  <2>5. OnlyLate'
    BY <2>2, LateKept DEF LifecycleInv, TypeInv, WhereClosed, Where
  <2> QED
    BY <2>1, <2>2, <2>4, <2>5 DEF LifecycleInv
<1> QED
  BY <1>1, <1>2, PTL DEF Spec

-----------------------------------------------------------------------------
(* What follows from it.                                                   *)

LEMMA OnlyTheLast ==
  ASSUME LifecycleInv, NEW k \in KindSet
  PROVE  /\ Alive(k) \subseteq {gen}
         /\ ~Unborn(k) /\ done[k] => Alive(k) = {}
<1>1. gen \in Gens /\ Gens \subseteq Nat /\ Background(k)
  <2>1. LifecycleTypeOK
    BY DEF LifecycleInv, TypeInv
  <2>2. Gens \subseteq Nat
    BY LifecycleAssumption DEF Gens
  <2> QED
    BY <2>1, <2>2 DEF LifecycleTypeOK, LifecycleInv
<1>2. \A g \in Gens : g # gen => bg[k][g] \in {"gone", "none"}
  BY <1>1 DEF Background, OldAreGone
<1>3. ~Unborn(k) /\ done[k] => bg[k][gen] = "gone"
  BY <1>1 DEF Background, Made
<1> QED
  BY <1>1, <1>2, <1>3 DEF Alive

(* A reboot does not start a background thread while the one of before     *)
(* still runs, so that one done flag for both is enough (pool_common.rs    *)
(* reboot()).                                                              *)
THEOREM OneOfAKind ==
  ASSUME Alone PROVE Spec => []OneBackground
<1>1. LifecycleInv => OneBackground
  <2> SUFFICES ASSUME LifecycleInv, NEW k \in KindSet
               PROVE  Cardinality(Alive(k)) <= 1
    BY DEF OneBackground
  <2>1. Alive(k) \subseteq {gen}
    BY OnlyTheLast
  <2>2. Alive(k) = {} \/ Alive(k) = {gen}
    BY <2>1
  <2> QED
    BY <2>2, FS_EmptySet, FS_Singleton
<1> QED
  BY <1>1, LifecycleInvariant, PTL

(* A pool that has been rebooted is purged and ticked like a new one, and  *)
(* can be released again (pool_common.rs reboot(), start_purge(),          *)
(* start_ticktock()).                                                      *)
THEOREM OpenIsServed ==
  ASSUME Alone PROVE Spec => []BackgroundServes
<1>1. LifecycleInv => BackgroundServes
  <2> SUFFICES ASSUME LifecycleInv, ~IsClosed,
                      \A c \in Controllers : pc[c] = "idle", NEW k \in KindSet
               PROVE  /\ stop[k] = ctx[k]
                      /\ ctx[k] \notin cancelled[k]
                      /\ \E g \in Gens :
                           \/ bg[k][g] = "start"
                           \/ bg[k][g] = "loop" /\ mine[k][g] = ctx[k]
    BY DEF BackgroundServes
  <2>1. ~Unborn(k)
    BY DEF Unborn, Ahead
  <2>2. Made(k)
    BY <2>1 DEF LifecycleInv, Background
  <2>3. gen \in Gens
    BY DEF LifecycleInv, TypeInv, LifecycleTypeOK
  <2> QED
    BY <2>2, <2>3 DEF Made
<1> QED
  BY <1>1, LifecycleInvariant, PTL

(* Whoever returns Ok has found the last flag set. *)
LEMMA OkIsLast ==
  ASSUME LifecycleTypeOK, StepsInRange, [Next]_vars, NEW c \in Controllers,
         op[c] # "ok", op'[c] = "ok"
  PROVE  pc[c] = "flags" /\ done[Kind(c)] /\ ~(step[c] < Len(Kinds))
<1>0. op \in [Controllers -> AllOps \cup {"ok", "closed", "expired", "none"}]
  BY DEF LifecycleTypeOK
<1>1. ASSUME NEW d \in Controllers, Call(d) \/ ReleaseStep(d) \/ RebootStep(d)
      PROVE  CheckFlag(c)
  <2>1. ~CheckFlag(d) => op'[d] # "ok" \/ op'[d] = op[d]
    BY <1>0, <1>1, LifecycleAssumption
    DEF Call, ReleaseStep, Admit, FindStop, CopyContext, Close, StopBackground,
        ResetQueue, LookAtRunning, CloseLatch, AfterRelease, AwaitWorkers,
        JoinContexts, CountWorkers, LookAgain, RebootStep, Reboot, FetchLatch,
        AwaitLatch, AwaitBackground, Reopen, ZeroDone, RenewContext, ArmAndSpawn,
        SwapLatch, Expire, Return, AllOps
  <2>2. d # c => op'[c] = op[c]
    BY <1>0, <1>1
    DEF Call, ReleaseStep, Admit, FindStop, CopyContext, Close, StopBackground,
        ResetQueue, LookAtRunning, CloseLatch, AfterRelease, AwaitWorkers,
        JoinContexts, CountWorkers, CheckFlag, LookAgain, RebootStep, Reboot,
        FetchLatch, AwaitLatch, AwaitBackground, Reopen, ZeroDone, RenewContext,
        ArmAndSpawn, SwapLatch, Expire, Return
  <2> QED
    BY <2>1, <2>2
<1>2. ASSUME \/ \E k \in KindSet, g \in Gens : BackgroundStep(k, g)
             \/ \E g \in Gens : PurgeIdle(g)
             \/ \E w \in Workers : AdmitCaller(w) \/ WorkerStep(w)
             \/ UNCHANGED vars
      PROVE  FALSE
  <2>1. op' = op
    BY <1>2
    DEF BackgroundStep, CopyOwnContext, LeaveLoop, StoreDone, PurgeIdle,
        AdmitCaller, WorkerStep, SpawnWorker, FinishTask, Depart, LastLooks,
        LastCloses, vars, ctlVars
  <2> QED
    BY <2>1
<1>3. CheckFlag(c)
  BY <1>1, <1>2 DEF Next
<1>4. pc[c] = "flags" /\ done[Kind(c)] /\ step[c] = Len(Kinds)
  BY <1>0, <1>3 DEF CheckFlag, LookAgain, Expire, Return
<1>5. \A n \in 1..2 : ~(n < n)
  OBVIOUS
<1> QED
  BY <1>4, <1>5, KindFacts

(* Ok from release_context() means that the background threads are gone,   *)
(* and so are the workers but for those that callers let in before the     *)
(* release have spawned since; none of these is ever parked in the closed  *)
(* pool (pool_common.rs release_context()).                                *)
THEOREM OkMeansClean ==
  ASSUME Alone PROVE Spec => CleanShutdown
<1>1. LifecycleInv /\ [Next]_vars =>
        [\A c \in Controllers :
           pc[c] = "flags" /\ op'[c] = "ok"
             => (\A k \in KindSet : Alive(k) = {}) /\ Live \subseteq late]_vars
  <2> SUFFICES ASSUME LifecycleInv, [Next]_vars, NEW c \in Controllers,
                      pc[c] = "flags", op'[c] = "ok"
               PROVE  (\A k \in KindSet : Alive(k) = {}) /\ Live \subseteq late
    OBVIOUS
  <2>0. LifecycleTypeOK /\ StepsInRange /\ Where(c) /\ op[c] # "ok"
    BY DEF LifecycleInv, WhereClosed, Where, TypeInv
  <2>1. \A k \in KindSet : done[k]
    BY <2>0, OkIsLast, FlagsRead DEF Where
  <2>2. ASSUME NEW k \in KindSet
        PROVE  Alive(k) = {}
    <3>1. ~Unborn(k)
      BY DEF Alone, Unborn, Ahead
    <3> QED
      BY <2>1, <3>1, OnlyTheLast
  <2> QED
    BY <2>2 DEF LifecycleInv, OnlyLate
<1>2. LifecycleInv =>
        \A c \in Controllers :
          pc[c] = "idle" /\ op[c] = "ok" => \A w \in Workers : wpc[w] # "idle"
  <2> SUFFICES ASSUME LifecycleInv, NEW c \in Controllers, pc[c] = "idle", op[c] = "ok"
               PROVE  \A w \in Workers : wpc[w] # "idle"
    OBVIOUS
  <2>1. IsClosed
    BY DEF LifecycleInv, WhereClosed, Where
  <2>2. \A d \in Controllers : pc[d] = "idle"
    BY DEF Alone
  <2> QED
    BY <2>1, <2>2 DEF LifecycleInv, NobodyParked
<1> QED
  BY <1>1, <1>2, LifecycleInvariant, PTL DEF Spec, CleanShutdown

-----------------------------------------------------------------------------
(* Any number of threads that release the pool and do not reboot it.       *)
ReleasesOnly == "reboot" \notin Ops

RebootPC == {"reboot", "fetch", "await", "retire", "open", "zero", "go", "arm", "swap"}

(* Once the pool is closed it stays closed, and nobody is parked in it any *)
(* more; who has counted the workers reads flags that stay set; and a      *)
(* background thread that has ended is the only one of its kind there has  *)
(* been.                                                                   *)
Closing ==
  {"stop", "reset", "latch", "close", "after", "wait", "join", "verify", "flags"}

Releasing(c) ==
  /\ pc[c] \notin RebootPC
  /\ pc[c] \in Closing => IsClosed
  /\ pc[c] \notin {"stops", "copy", "stop", "flags"} => step[c] = 1
  /\ pc[c] = "flags" => /\ \A k \in KindSet : Position(k) < step[c] => done[k]
                        /\ \A w \in Workers : wpc[w] # "idle"
  /\ op[c] = "ok" => IsClosed /\ pc[c] = "idle" /\ \A w \in Workers : wpc[w] # "idle"

ReleaseInv ==
  /\ TypeInv
  /\ OnlyLate
  /\ \A c \in Controllers : Releasing(c)
  /\ \A k \in KindSet :
       /\ \A g \in Gens : g # 0 => bg[k][g] = "none"
       /\ done[k] => bg[k][0] = "gone"

(* Whoever does nothing himself. *)
LEMMA ReleasingQuiet ==
  ASSUME NEW c \in Controllers, Releasing(c), UNCHANGED <<pc[c], op[c], step[c]>>,
         IsClosed => IsClosed', \A k \in KindSet : done[k] => done'[k],
         IsClosed => \A w \in Workers : wpc'[w] = "idle" => wpc[w] = "idle"
  PROVE  Releasing(c)'
  BY DEF Releasing, Closing

(* Everybody but the controllers: nobody is parked in a closed pool, and a *)
(* thread that ends is the first of its kind.                              *)
LEMMA OthersKeepReleaseInv ==
  ASSUME ReleaseInv, TypeInv', OnlyLate', UNCHANGED ctlVars,
         \/ \E k \in KindSet, g \in Gens : BackgroundStep(k, g)
         \/ \E g \in Gens : PurgeIdle(g)
         \/ \E w \in Workers : AdmitCaller(w) \/ WorkerStep(w)
         \/ UNCHANGED vars
  PROVE  ReleaseInv'
<1>0. /\ wpc \in [Workers -> {"none", "admitted", "busy", "idle", "exit", "last",
                              "closing"}]
      /\ done \in [KindSet -> BOOLEAN]
      /\ bg \in [KindSet -> [Gens -> {"none", "start", "loop", "exit", "gone"}]]
  BY DEF ReleaseInv, TypeInv, LifecycleTypeOK
<1>1. UNCHANGED <<state, pc, op, step>>
  BY DEF BackgroundStep, CopyOwnContext, LeaveLoop, StoreDone, PurgeIdle, AdmitCaller,
         WorkerStep, SpawnWorker, FinishTask, Depart, LastLooks, LastCloses, vars,
         poolVars, ctlVars
<1>2. IsClosed => \A w \in Workers : wpc'[w] = "idle" => wpc[w] = "idle"
  BY <1>0
  DEF BackgroundStep, CopyOwnContext, LeaveLoop, StoreDone, PurgeIdle, AdmitCaller,
      WorkerStep, SpawnWorker, FinishTask, Depart, LastLooks, LastCloses, vars
<1>4. \A k \in KindSet : done[k] => done'[k]
  BY <1>0
  DEF BackgroundStep, CopyOwnContext, LeaveLoop, StoreDone, PurgeIdle, AdmitCaller,
      WorkerStep, SpawnWorker, FinishTask, Depart, LastLooks, LastCloses, vars, poolVars
<1>5. ASSUME NEW c \in Controllers
      PROVE  Releasing(c)'
  BY <1>1, <1>2, <1>4, ReleasingQuiet DEF ReleaseInv, IsClosed
<1>3. ASSUME NEW k \in KindSet
      PROVE  /\ \A g \in Gens : g # 0 => bg'[k][g] = "none"
             /\ done'[k] => bg'[k][0] = "gone"
  <2>0. /\ \A g \in Gens : g # 0 => bg[k][g] = "none"
        /\ done[k] => bg[k][0] = "gone"
    BY DEF ReleaseInv
  <2>1. CASE \E j \in KindSet, g \in Gens : BackgroundStep(j, g)
    <3>1. PICK j \in KindSet, g \in Gens : BackgroundStep(j, g)
      BY <2>1
    <3>2. g = 0
      BY <3>1 DEF ReleaseInv, BackgroundStep, CopyOwnContext, LeaveLoop, StoreDone
    <3>3. CASE j = k
      BY <1>0, <2>0, <3>1, <3>2, <3>3
      DEF BackgroundStep, CopyOwnContext, LeaveLoop, StoreDone, poolVars
    <3>4. CASE j # k
      BY <1>0, <2>0, <3>1, <3>4
      DEF BackgroundStep, CopyOwnContext, LeaveLoop, StoreDone, poolVars
    <3> QED
      BY <3>3, <3>4
  <2>2. CASE UNCHANGED <<bg, done>>
    BY <2>0, <2>2
  <2>3. CASE \/ \E g \in Gens : PurgeIdle(g)
             \/ \E w \in Workers : AdmitCaller(w) \/ WorkerStep(w)
             \/ UNCHANGED vars
    <3>1. UNCHANGED <<bg, done>>
      BY <2>3
      DEF PurgeIdle, AdmitCaller, WorkerStep, SpawnWorker, FinishTask, Depart,
          LastLooks, LastCloses, vars, poolVars, bgVars
    <3> QED
      BY <2>2, <3>1
  <2> QED
    BY <2>1, <2>3
<1> QED
  BY <1>3, <1>5 DEF ReleaseInv

(* A step of a controller is a step of a release, which leaves the threads *)
(* alone and does not open the pool.                                       *)
LEMMA ReleasingKeepsReleaseInv ==
  ASSUME ReleasesOnly, ReleaseInv, TypeInv', OnlyLate', NEW c \in Controllers,
         Call(c) \/ ReleaseStep(c) \/ RebootStep(c)
  PROVE  ReleaseInv'
<1>0. /\ pc \in [Controllers -> ControllerPC] /\ step \in [Controllers -> 1..2]
      /\ op \in [Controllers -> AllOps \cup {"ok", "closed", "expired", "none"}]
      /\ state \in {"OPENED", "CLOSED"} /\ Counted /\ StepsInRange
      /\ wpc \in [Workers -> {"none", "admitted", "busy", "idle", "exit", "last",
                              "closing"}]
  BY DEF ReleaseInv, TypeInv, LifecycleTypeOK
<1>1. ~RebootStep(c) /\ Releasing(c)
  BY DEF ReleaseInv, Releasing, RebootPC, RebootStep, Reboot, FetchLatch, AwaitLatch,
         AwaitBackground, Reopen, ZeroDone, RenewContext, ArmAndSpawn, SwapLatch
<1>2. UNCHANGED <<bg, done>> /\ (IsClosed => IsClosed')
      /\ \A w \in Workers : wpc'[w] = "idle" => wpc[w] = "idle"
  BY <1>0, <1>1
  DEF Call, ReleaseStep, Admit, FindStop, CopyContext, Close, StopBackground,
      ResetQueue, LookAtRunning, CloseLatch, AfterRelease, AwaitWorkers, JoinContexts,
      CountWorkers, CheckFlag, poolVars, bgVars, IsClosed
<1>3. ASSUME NEW d \in Controllers, d # c
      PROVE  Releasing(d)'
  <2>1. pc'[d] = pc[d] /\ op'[d] = op[d] /\ step'[d] = step[d]
    BY <1>0, <1>1, <1>3
    DEF Call, ReleaseStep, Admit, FindStop, CopyContext, Close, StopBackground,
        ResetQueue, LookAtRunning, CloseLatch, AfterRelease, AwaitWorkers,
        JoinContexts, CountWorkers, CheckFlag, LookAgain, Expire, NextKind, Return, Goto
  <2> QED
    BY <1>2, <2>1, ReleasingQuiet DEF ReleaseInv
<1>4. Releasing(c)'
  <2>1. CASE Call(c)
    <3>1. PICK o \in Ops :
            /\ op' = [op EXCEPT ![c] = o]
            /\ Goto(c, CASE o = "release" -> "cas"
                         [] o = "reboot" -> "reboot"
                         [] OTHER -> "admit")
      BY <2>1 DEF Call
    <3>2. op'[c] # "ok" /\ o # "reboot"
      BY <1>0, <3>1, LifecycleAssumption DEF AllOps, ReleasesOnly
    <3>3. pc'[c] \in {"cas", "admit"} /\ step'[c] = 1
      BY <1>0, <1>1, <2>1, <3>1, <3>2 DEF Call, Goto, Releasing
    <3> QED
      BY <3>2, <3>3 DEF Releasing, Closing, RebootPC
  <2>2. CASE Admit(c) \/ FindStop(c) \/ CopyContext(c)
    <3>1. pc'[c] \in {"stops", "copy", "cas", "idle"} /\ op'[c] # "ok"
          /\ (pc'[c] \in {"cas", "idle"} => step'[c] = 1)
      BY <1>0, <1>1, <2>2
      DEF Admit, FindStop, CopyContext, NextKind, Return, Goto, Releasing
    <3> QED
      BY <3>1 DEF Releasing, Closing, RebootPC
  <2>3. CASE Close(c)
    <3>1. pc[c] = "cas" /\ pc'[c] \in {"stop", "after"} /\ op' = op /\ step' = step
          /\ IsClosed'
      BY <1>0, <2>3 DEF Close, Goto, IsClosed
    <3> QED
      BY <1>1, <3>1 DEF Releasing, Closing, RebootPC
  <2>4. CASE StopBackground(c) \/ ResetQueue(c) \/ LookAtRunning(c) \/ CloseLatch(c)
             \/ AfterRelease(c) \/ AwaitWorkers(c) \/ JoinContexts(c)
    <3>1. /\ pc[c] \in Closing /\ op[c] # "ok"
          /\ pc'[c] \in (Closing \ {"flags"}) \cup {"idle"} /\ op'[c] # "ok"
      BY <1>0, <1>1, <2>4
      DEF StopBackground, ResetQueue, LookAtRunning, CloseLatch, AfterRelease,
          AwaitWorkers, JoinContexts, Expire, NextKind, Return, Goto, Releasing, Closing
    <3>2. pc'[c] # "stop" => step'[c] = 1
      BY <1>0, <1>1, <2>4
      DEF StopBackground, ResetQueue, LookAtRunning, CloseLatch, AfterRelease,
          AwaitWorkers, JoinContexts, Expire, NextKind, Return, Goto, Releasing
    <3> QED
      BY <1>1, <1>2, <3>1, <3>2 DEF Releasing, Closing, RebootPC
  <2>5. CASE CountWorkers(c)
    <3>1. /\ pc[c] = "verify" /\ pc'[c] \in {"flags", "wait", "idle"} /\ op'[c] # "ok"
          /\ step'[c] = 1 /\ IsClosed'
          /\ pc'[c] = "flags" => running = 0 /\ wpc' = wpc
      BY <1>0, <1>1, <1>2, <2>5
      DEF CountWorkers, LookAgain, Expire, Return, Goto, Releasing, Closing
    <3>2. running = 0 => \A w \in Workers : wpc[w] # "idle"
      BY <1>0, NobodyLive DEF Live
    <3>3. \A k \in KindSet : ~(Position(k) < 1)
      BY KindFacts
    <3> QED
      BY <3>1, <3>2, <3>3 DEF Releasing, Closing, RebootPC
  <2>6. CASE CheckFlag(c)
    <3>1. /\ pc[c] = "flags" /\ IsClosed' /\ op[c] # "ok" /\ wpc' = wpc
          /\ \A w \in Workers : wpc[w] # "idle"
          /\ \A k \in KindSet : Position(k) < step[c] => done[k]
      BY <1>1, <1>2, <2>6 DEF CheckFlag, Releasing, Closing
    <3>2. CASE done[Kind(c)] /\ step[c] < Len(Kinds)
      <4>1. pc' = pc /\ op' = op /\ step'[c] = step[c] + 1
        BY <1>0, <2>6, <3>2 DEF CheckFlag
      <4>2. \A k \in KindSet : Position(k) < step[c] + 1 => done[k]
        BY <1>0, <3>1, <3>2, FlagsRead
      <4> QED
        BY <1>2, <3>1, <4>1, <4>2 DEF Releasing, RebootPC
    <3>3. CASE ~(done[Kind(c)] /\ step[c] < Len(Kinds))
      <4>1. step'[c] = 1 /\ pc'[c] \in {"idle", "wait"}
            /\ (op'[c] = "ok" => pc'[c] = "idle")
        BY <1>0, <2>6, <3>1, <3>3 DEF CheckFlag, LookAgain, Expire, Return, Goto
      <4> QED
        BY <3>1, <4>1 DEF Releasing, RebootPC
    <3> QED
      BY <3>2, <3>3
  <2> QED
    BY <1>1, <2>1, <2>2, <2>3, <2>4, <2>5, <2>6 DEF ReleaseStep
<1>5. \A d \in Controllers : Releasing(d)'
  BY <1>3, <1>4
<1>6. (\A d \in Controllers : Releasing(d))'
  BY <1>5
<1> QED
  BY <1>2, <1>6 DEF ReleaseInv

(* Nobody opens a closed pool. *)
LEMMA StaysClosed ==
  ASSUME ReleaseInv, [Next]_vars, IsClosed
  PROVE  IsClosed'
<1>1. ASSUME NEW c \in Controllers, Call(c) \/ ReleaseStep(c) \/ RebootStep(c)
      PROVE  IsClosed'
  <2>1. ~Reopen(c)
    BY DEF Reopen, ReleaseInv, Releasing, RebootPC
  <2> QED
    BY <1>1, <2>1
    DEF Call, ReleaseStep, Admit, FindStop, CopyContext, Close, StopBackground,
        ResetQueue, LookAtRunning, CloseLatch, AfterRelease, AwaitWorkers,
        JoinContexts, CountWorkers, CheckFlag, RebootStep, Reboot, FetchLatch,
        AwaitLatch, AwaitBackground, ZeroDone, RenewContext, ArmAndSpawn, SwapLatch,
        poolVars, IsClosed
<1>2. CASE \/ \E k \in KindSet, g \in Gens : BackgroundStep(k, g)
           \/ \E g \in Gens : PurgeIdle(g)
           \/ \E w \in Workers : AdmitCaller(w) \/ WorkerStep(w)
           \/ UNCHANGED vars
  <2>1. state' = state
    BY <1>2
    DEF BackgroundStep, CopyOwnContext, LeaveLoop, StoreDone, PurgeIdle, AdmitCaller,
        WorkerStep, SpawnWorker, FinishTask, Depart, LastLooks, LastCloses, vars, poolVars
  <2> QED
    BY <2>1 DEF IsClosed
<1> QED
  BY <1>1, <1>2 DEF Next

(* Ok means the same when several threads release the pool at once, one of *)
(* which stops the background threads and all of which wait for the same   *)
(* latch (pool_common.rs release_context()).                               *)
THEOREM ReleasesAreClean ==
  ASSUME ReleasesOnly PROVE Spec => CleanShutdown
<1>1. Init => ReleaseInv
  BY TypeInitially DEF Init, ReleaseInv, OnlyLate, Releasing, Closing, RebootPC
<1>2. ReleaseInv /\ [Next]_vars => ReleaseInv'
  <2> SUFFICES ASSUME ReleaseInv, [Next]_vars
               PROVE  ReleaseInv'
    OBVIOUS
  <2>1. TypeInv'
    BY TypeStep DEF ReleaseInv
  <2>2. OnlyLate'
    <3>1. \A c \in Controllers : pc[c] = "flags" => IsClosed /\ IsClosed'
      BY StaysClosed DEF ReleaseInv, Releasing, Closing
    <3> QED
      BY <3>1, LateKept DEF ReleaseInv, TypeInv
  <2>3. CASE \E c \in Controllers : Call(c) \/ ReleaseStep(c) \/ RebootStep(c)
    BY <2>1, <2>2, <2>3, ReleasingKeepsReleaseInv
  <2>4. CASE \/ \E k \in KindSet, g \in Gens : BackgroundStep(k, g)
             \/ \E g \in Gens : PurgeIdle(g)
             \/ \E w \in Workers : AdmitCaller(w) \/ WorkerStep(w)
             \/ UNCHANGED vars
    <3>1. UNCHANGED ctlVars
      BY <2>4
      DEF BackgroundStep, CopyOwnContext, LeaveLoop, StoreDone, PurgeIdle, AdmitCaller,
          WorkerStep, SpawnWorker, FinishTask, Depart, LastLooks, LastCloses, vars
    <3> QED
      BY <2>1, <2>2, <2>4, <3>1, OthersKeepReleaseInv
  <2> QED
    BY <2>3, <2>4 DEF Next
<1>3. ReleaseInv /\ [Next]_vars =>
        [\A c \in Controllers :
           pc[c] = "flags" /\ op'[c] = "ok"
             => (\A k \in KindSet : Alive(k) = {}) /\ Live \subseteq late]_vars
  <2> SUFFICES ASSUME ReleaseInv, [Next]_vars, NEW c \in Controllers,
                      pc[c] = "flags", op'[c] = "ok"
               PROVE  (\A k \in KindSet : Alive(k) = {}) /\ Live \subseteq late
    OBVIOUS
  <2>0. LifecycleTypeOK /\ StepsInRange /\ Releasing(c) /\ op[c] # "ok"
    BY DEF ReleaseInv, Releasing, TypeInv
  <2>1. \A k \in KindSet : done[k]
    BY <2>0, OkIsLast, FlagsRead DEF Releasing
  <2>2. \A k \in KindSet : Alive(k) = {}
    BY <2>1 DEF ReleaseInv, Alive
  <2> QED
    BY <2>2 DEF ReleaseInv, OnlyLate
<1>4. ReleaseInv =>
        \A c \in Controllers :
          pc[c] = "idle" /\ op[c] = "ok" => \A w \in Workers : wpc[w] # "idle"
  BY DEF ReleaseInv, Releasing
<1> QED
  BY <1>1, <1>2, <1>3, <1>4, PTL DEF Spec, CleanShutdown

=============================================================================
