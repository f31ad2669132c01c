------------------------------ MODULE Lifecycle ------------------------------
(***************************************************************************)
(* A pool from release to reboot and back: release(), release_context()    *)
(* and reboot() called by any number of threads, the purge and ticktock    *)
(* threads with their contexts and done flags, the all_done latch, and as  *)
(* much of the data plane as these can tell: callers admitted while the    *)
(* pool was open, and workers that are busy, idle or in their epilogue.    *)
(* What passes between callers and workers is PoolCore's subject.          *)
(***************************************************************************)
EXTENDS Integers, Sequences, FiniteSets

CONSTANTS
  Controllers,    \* threads that release and reboot the pool
  MaxCalls,       \* bound: calls per controller
  MaxGen,         \* bound: reboots
  Ops,            \* what the controllers call
  Workers,        \* slots for callers and the workers they spawn
  DisablePurge,   \* Options::disable_purge
  None

(* release(); release_context() with no context, with one that is never    *)
(* done, and with one that may expire at any time; reboot().               *)
AllOps == {"release", "nil", "live", "deadline", "reboot"}

(* The background threads, in the order the code deals with them. *)
Kinds == IF DisablePurge THEN <<"ticktock">> ELSE <<"purge", "ticktock">>
KindSet == {Kinds[i] : i \in DOMAIN Kinds}
Gens == 0..MaxGen

ASSUME LifecycleAssumption ==
  /\ IsFiniteSet(Workers)
  /\ MaxCalls \in Nat
  /\ MaxGen \in Nat
  /\ Ops \subseteq AllOps
  /\ DisablePurge \in BOOLEAN
  /\ None \notin Gens

VARIABLES
  state,       \* PoolCore::state
  running,     \* PoolCore::running
  allDone,     \* the latch in PoolCore::all_done, by who installed it
  closed,      \* the latches that are closed
  ctx,         \* PoolCore::purge_ctx and ticktock_ctx
  stop,        \* PoolCore::stop_purge and stop_ticktock
  cancelled,   \* the contexts that are cancelled, by kind
  done,        \* PoolCore::purge_done and ticktock_done are 1
  bg,          \* where each background thread is
  mine,        \* the context a background thread has copied
  gen,         \* reboots so far, which number what they install
  pc,          \* where each controller is
  op,          \* what it is calling, and how its last call ended
  step,        \* index of the kind it is dealing with
  latch,       \* the latch it has fetched
  copy,        \* the contexts it has fetched
  calls,       \* how many calls it has made
  wpc,         \* what is in each slot
  late         \* history: the workers spawned into the closed pool

poolVars == <<state, running, allDone, closed, ctx, stop, cancelled, done, gen>>
bgVars == <<bg, mine>>
ctlVars == <<pc, op, step, latch, copy, calls>>
vars == <<poolVars, bgVars, ctlVars, wpc, late>>

ControllerPC ==
  {"idle", "admit", "stops", "copy", "cas", "stop", "reset", "latch", "close",
   "after", "wait", "join", "verify", "flags", "reboot", "fetch", "await",
   "retire", "open", "zero", "go", "arm", "swap"}

LifecycleTypeOK ==
  /\ state \in {"OPENED", "CLOSED"}
  /\ running \in 0..Cardinality(Workers)
  /\ allDone \in Gens /\ closed \subseteq Gens
  /\ ctx \in [KindSet -> Gens]
  /\ stop \in [KindSet -> Gens \cup {None}]
  /\ cancelled \in [KindSet -> SUBSET Gens]
  /\ done \in [KindSet -> BOOLEAN]
  /\ bg \in [KindSet -> [Gens -> {"none", "start", "loop", "exit", "gone"}]]
  /\ mine \in [KindSet -> [Gens -> Gens]]
  /\ gen \in Gens
  /\ pc \in [Controllers -> ControllerPC]
  /\ op \in [Controllers -> AllOps \cup {"ok", "closed", "expired", "none"}]
  /\ step \in [Controllers -> 1..2]
  /\ latch \in [Controllers -> Gens]
  /\ copy \in [Controllers -> [KindSet -> Gens]]
  /\ calls \in [Controllers -> 0..MaxCalls]
  /\ wpc \in [Workers -> {"none", "admitted", "busy", "idle", "exit", "last",
                          "closing"}]
  /\ late \subseteq Workers

(* The pool as new() leaves it. *)
Init ==
  /\ state = "OPENED"
  /\ running = 0
  /\ allDone = 0 /\ closed = {}
  /\ ctx = [k \in KindSet |-> 0]
  /\ stop = [k \in KindSet |-> 0]
  /\ cancelled = [k \in KindSet |-> {}]
  /\ done = [k \in KindSet |-> FALSE]
  /\ bg = [k \in KindSet |-> [g \in Gens |-> IF g = 0 THEN "start" ELSE "none"]]
  /\ mine = [k \in KindSet |-> [g \in Gens |-> 0]]
  /\ gen = 0
  /\ pc = [c \in Controllers |-> "idle"]
  /\ op = [c \in Controllers |-> "none"]
  /\ step = [c \in Controllers |-> 1]
  /\ latch = [c \in Controllers |-> 0]
  /\ copy = [c \in Controllers |-> [k \in KindSet |-> 0]]
  /\ calls = [c \in Controllers |-> 0]
  /\ wpc = [w \in Workers |-> "none"]
  /\ late = {}

IsClosed == state = "CLOSED"

(* The latch l is closed: Event::wait returns, wait_timeout returns true.  *)
LatchClosed(l) == l \in closed

(* A context of kind k is cancelled, and its CancelFunc cancels it.  These *)
(* contexts have no deadline.                                              *)
ContextDone(k, x) == x \in cancelled[k]
Cancel(k, x) == cancelled' = [cancelled EXCEPT ![k] = (@ \cup {x}) \ {None}]

(* The kind a controller is dealing with, and going on to the next. *)
Kind(c) == Kinds[step[c]]
Goto(c, l) == pc' = [pc EXCEPT ![c] = l]
NextKind(c, again, after) ==
  IF step[c] < Len(Kinds)
    THEN step' = [step EXCEPT ![c] = @ + 1] /\ Goto(c, again)
    ELSE step' = [step EXCEPT ![c] = 1] /\ Goto(c, after)

Return(c, result) ==
  /\ pc' = [pc EXCEPT ![c] = "idle"]
  /\ op' = [op EXCEPT ![c] = result]

Call(c) ==
  /\ pc[c] = "idle"
  /\ calls[c] < MaxCalls
  /\ calls' = [calls EXCEPT ![c] = @ + 1]
  /\ \E o \in Ops :
       /\ op' = [op EXCEPT ![c] = o]
       /\ Goto(c, CASE o = "release" -> "cas"
                    [] o = "reboot" -> "reboot"
                    [] OTHER -> "admit")
  /\ UNCHANGED <<poolVars, bgVars, step, latch, copy, wpc, late>>

-----------------------------------------------------------------------------
(* release_context, up to the call of release. *)

Admit(c) ==
  /\ pc[c] = "admit"
  /\ IF IsClosed THEN Return(c, "closed") ELSE Goto(c, "stops") /\ UNCHANGED op
  /\ UNCHANGED <<poolVars, bgVars, step, latch, copy, calls, wpc, late>>

(* A cancel function that has been taken means that somebody was here.     *)
FindStop(c) ==
  /\ pc[c] = "stops"
  /\ \/ /\ stop[Kind(c)] = None
        /\ step' = [step EXCEPT ![c] = 1]
        /\ Return(c, "closed")
     \/ /\ stop[Kind(c)] # None
        /\ NextKind(c, "stops", "copy")
        /\ UNCHANGED op
  /\ UNCHANGED <<poolVars, bgVars, latch, copy, calls, wpc, late>>

CopyContext(c) ==
  /\ pc[c] = "copy"
  /\ copy' = [copy EXCEPT ![c][Kind(c)] = ctx[Kind(c)]]
  /\ NextKind(c, "copy", "cas")
  /\ UNCHANGED <<poolVars, bgVars, op, latch, calls, wpc, late>>

(* release *)

Close(c) ==
  /\ pc[c] = "cas"
  /\ state' = "CLOSED"
  /\ Goto(c, IF IsClosed THEN "after" ELSE "stop")
  /\ UNCHANGED <<running, allDone, closed, ctx, stop, cancelled, done, gen,
                 bgVars, op, step, latch, copy, calls, wpc, late>>

(* Take the cancel function and call it. *)
StopBackground(c) ==
  /\ pc[c] = "stop"
  /\ Cancel(Kind(c), stop[Kind(c)])
  /\ stop' = [stop EXCEPT ![Kind(c)] = None]
  /\ NextKind(c, "stop", "reset")
  /\ UNCHANGED <<state, running, allDone, closed, ctx, done, gen, bgVars, op,
                 latch, copy, calls, wpc, late>>

(* reset() under the lock: every idle worker is told to finish. *)
ResetQueue(c) ==
  /\ pc[c] = "reset"
  /\ wpc' = [w \in Workers |-> IF wpc[w] = "idle" THEN "exit" ELSE wpc[w]]
  /\ Goto(c, "latch")
  /\ UNCHANGED <<poolVars, bgVars, op, step, latch, copy, calls, late>>

LookAtRunning(c) ==
  /\ pc[c] = "latch"
  /\ Goto(c, IF running = 0 THEN "close" ELSE "after")
  /\ UNCHANGED <<poolVars, bgVars, op, step, latch, copy, calls, wpc, late>>

CloseLatch(c) ==
  /\ pc[c] = "close"
  /\ closed' = closed \cup {allDone}
  /\ Goto(c, "after")
  /\ UNCHANGED <<state, running, allDone, ctx, stop, cancelled, done, gen,
                 bgVars, op, step, latch, copy, calls, wpc, late>>

(* release() returns, and so does release_context() without a context. *)
AfterRelease(c) ==
  /\ pc[c] = "after"
  /\ IF op[c] \in {"release", "nil"}
       THEN Return(c, "none") /\ UNCHANGED latch
       ELSE /\ latch' = [latch EXCEPT ![c] = allDone]
            /\ Goto(c, "wait")
            /\ UNCHANGED op
  /\ UNCHANGED <<poolVars, bgVars, step, copy, calls, wpc, late>>

(* The rest of release_context: the latch, the contexts, then the counts,  *)
(* over again until they agree or the context is done.                     *)

Expire(c) == op[c] = "deadline" /\ Return(c, "expired")

AwaitWorkers(c) ==
  /\ pc[c] = "wait"
  /\ \/ LatchClosed(latch[c]) /\ Goto(c, "join") /\ UNCHANGED op
     \/ ~LatchClosed(latch[c]) /\ Expire(c)
  /\ UNCHANGED <<poolVars, bgVars, step, latch, copy, calls, wpc, late>>

JoinContexts(c) ==
  /\ pc[c] = "join"
  /\ \A k \in KindSet : ContextDone(k, copy[c][k])
  /\ Goto(c, "verify")
  /\ UNCHANGED <<poolVars, bgVars, op, step, latch, copy, calls, wpc, late>>

(* Not everything has gone yet: over again, unless the context is done.    *)
LookAgain(c) == Expire(c) \/ (Goto(c, "wait") /\ UNCHANGED op)

(* Mutant: the latch is trusted, and nobody counts. *)
CountNobody(c) ==
  /\ pc[c] = "verify"
  /\ Goto(c, "flags")
  /\ UNCHANGED <<poolVars, bgVars, op, step, latch, copy, calls, wpc, late>>

(* First the workers are counted ...                                       *)
CountWorkers(c) ==
  /\ pc[c] = "verify"
  /\ IF running = 0 THEN Goto(c, "flags") /\ UNCHANGED op ELSE LookAgain(c)
  /\ UNCHANGED <<poolVars, bgVars, step, latch, copy, calls, wpc, late>>

(* ... then the done flags are read one after the other.                   *)
CheckFlag(c) ==
  /\ pc[c] = "flags"
  /\ \/ /\ done[Kind(c)] /\ step[c] < Len(Kinds)
        /\ step' = [step EXCEPT ![c] = @ + 1]
        /\ UNCHANGED <<pc, op>>
     \/ /\ done[Kind(c)] /\ step[c] = Len(Kinds)
        /\ step' = [step EXCEPT ![c] = 1]
        /\ Return(c, "ok")
     \/ /\ ~done[Kind(c)]
        /\ step' = [step EXCEPT ![c] = 1]
        /\ LookAgain(c)
  /\ UNCHANGED <<poolVars, bgVars, latch, copy, calls, wpc, late>>

-----------------------------------------------------------------------------
(* reboot *)

Reboot(c) ==
  /\ pc[c] = "reboot"
  /\ IF IsClosed THEN Goto(c, "fetch") /\ UNCHANGED op ELSE Return(c, "none")
  /\ UNCHANGED <<poolVars, bgVars, step, latch, copy, calls, wpc, late>>

FetchLatch(c) ==
  /\ pc[c] = "fetch"
  /\ latch' = [latch EXCEPT ![c] = allDone]
  /\ Goto(c, "await")
  /\ UNCHANGED <<poolVars, bgVars, op, step, copy, calls, wpc, late>>

AwaitLatch(c) ==
  /\ pc[c] = "await"
  /\ LatchClosed(latch[c])
  /\ Goto(c, "retire")
  /\ UNCHANGED <<poolVars, bgVars, op, step, latch, copy, calls, wpc, late>>

(* Mutant: the background threads are not waited for. *)
AwaitNobody(c) ==
  /\ pc[c] = "retire"
  /\ Goto(c, "open")
  /\ UNCHANGED <<poolVars, bgVars, op, step, latch, copy, calls, wpc, late>>

AwaitBackground(c) ==
  /\ pc[c] = "retire"
  /\ done[Kind(c)]
  /\ NextKind(c, "retire", "open")
  /\ UNCHANGED <<poolVars, bgVars, op, latch, copy, calls, wpc, late>>

(* The bound on reboots keeps a controller from getting here once more. *)
Reopen(c) ==
  /\ pc[c] = "open"
  /\ \/ /\ IsClosed
        /\ gen < MaxGen
        /\ state' = "OPENED"
        /\ gen' = gen + 1
        /\ latch' = [latch EXCEPT ![c] = gen + 1]
        /\ late' = {}
        /\ Goto(c, "zero")
        /\ UNCHANGED op
     \/ /\ ~IsClosed
        /\ Return(c, "none")
        /\ UNCHANGED <<state, gen, latch, late>>
  /\ UNCHANGED <<running, allDone, closed, ctx, stop, cancelled, done, bgVars,
                 step, copy, calls, wpc>>

(* From here on latch[c] numbers what this reboot installs. *)

ZeroDone(c) ==
  /\ pc[c] = "zero"
  /\ done' = [done EXCEPT ![Kind(c)] = FALSE]
  /\ Goto(c, "go")
  /\ UNCHANGED <<state, running, allDone, closed, ctx, stop, cancelled, gen,
                 bgVars, op, step, latch, copy, calls, wpc, late>>

(* Mutant: the context of the last time is used again. *)
RenewNothing(c) ==
  /\ pc[c] = "go"
  /\ Goto(c, "arm")
  /\ UNCHANGED <<poolVars, bgVars, op, step, latch, copy, calls, wpc, late>>

RenewContext(c) ==
  /\ pc[c] = "go"
  /\ ctx' = [ctx EXCEPT ![Kind(c)] = latch[c]]
  /\ Goto(c, "arm")
  /\ UNCHANGED <<state, running, allDone, closed, stop, cancelled, done, gen,
                 bgVars, op, step, latch, copy, calls, wpc, late>>

ArmAndSpawn(c) ==
  /\ pc[c] = "arm"
  /\ stop' = [stop EXCEPT ![Kind(c)] = latch[c]]
  /\ bg' = [bg EXCEPT ![Kind(c)][latch[c]] = "start"]
  /\ NextKind(c, "zero", "swap")
  /\ UNCHANGED <<state, running, allDone, closed, ctx, cancelled, done, gen,
                 mine, op, latch, copy, calls, wpc, late>>

SwapLatch(c) ==
  /\ pc[c] = "swap"
  /\ allDone' = latch[c]
  /\ Return(c, "none")
  /\ UNCHANGED <<state, running, closed, ctx, stop, cancelled, done, gen,
                 bgVars, step, latch, copy, calls, wpc, late>>

-----------------------------------------------------------------------------
(* purge_stale_workers and ticktock *)

CopyOwnContext(k, g) ==
  /\ bg[k][g] = "start"
  /\ mine' = [mine EXCEPT ![k][g] = ctx[k]]
  /\ bg' = [bg EXCEPT ![k][g] = "loop"]
  /\ UNCHANGED <<poolVars, ctlVars, wpc, late>>

(* The context is cancelled, or the tick finds the pool closed. *)
LeaveLoop(k, g) ==
  /\ bg[k][g] = "loop"
  /\ ContextDone(k, mine[k][g]) \/ IsClosed
  /\ bg' = [bg EXCEPT ![k][g] = "exit"]
  /\ UNCHANGED <<poolVars, mine, ctlVars, wpc, late>>

(* A tick of the purge thread finishes idle workers. *)
PurgeIdle(g) ==
  /\ ~DisablePurge
  /\ bg["purge"][g] = "loop"
  /\ ~ContextDone("purge", mine["purge"][g]) /\ ~IsClosed
  /\ \E w \in Workers :
       wpc[w] = "idle" /\ wpc' = [wpc EXCEPT ![w] = "exit"]
  /\ UNCHANGED <<poolVars, bgVars, ctlVars, late>>

(* Mutant: the thread ends without a word. *)
EndSilently(k, g) ==
  /\ bg[k][g] = "exit"
  /\ bg' = [bg EXCEPT ![k][g] = "gone"]
  /\ UNCHANGED <<poolVars, mine, ctlVars, wpc, late>>

StoreDone(k, g) ==
  /\ bg[k][g] = "exit"
  /\ done' = [done EXCEPT ![k] = TRUE]
  /\ bg' = [bg EXCEPT ![k][g] = "gone"]
  /\ UNCHANGED <<state, running, allDone, closed, ctx, stop, cancelled, gen,
                 mine, ctlVars, wpc, late>>

-----------------------------------------------------------------------------
(* Callers and workers *)

(* submit finds the pool open ... *)
AdmitCaller(w) ==
  /\ wpc[w] = "none"
  /\ ~IsClosed
  /\ wpc' = [wpc EXCEPT ![w] = "admitted"]
  /\ UNCHANGED <<poolVars, bgVars, ctlVars, late>>

(* ... and spawns a worker, whatever has happened to the pool since. *)
SpawnWorker(w) ==
  /\ wpc[w] = "admitted"
  /\ running' = running + 1
  /\ wpc' = [wpc EXCEPT ![w] = "busy"]
  /\ late' = IF IsClosed THEN late \cup {w} ELSE late
  /\ UNCHANGED <<state, allDone, closed, ctx, stop, cancelled, done, gen,
                 bgVars, ctlVars>>

(* Mutant: a worker that cannot be parked is taken off the count here as    *)
(* well as when it exits.                                                  *)
FinishTaskCounted(w) ==
  /\ wpc[w] = "busy"
  /\ wpc' = [wpc EXCEPT ![w] = IF IsClosed THEN "exit" ELSE "idle"]
  /\ running' = IF IsClosed THEN running - 1 ELSE running
  /\ UNCHANGED <<state, allDone, closed, ctx, stop, cancelled, done, gen,
                 bgVars, ctlVars, late>>

(* A payload ends: the worker is parked, which a closed pool refuses, or   *)
(* exits.                                                                  *)
FinishTask(w) ==
  /\ wpc[w] = "busy"
  /\ \/ ~IsClosed /\ wpc' = [wpc EXCEPT ![w] = "idle"]
     \/ wpc' = [wpc EXCEPT ![w] = "exit"]
  /\ UNCHANGED <<poolVars, bgVars, ctlVars, late>>

Depart(w) ==
  /\ wpc[w] = "exit"
  /\ running' = running - 1
  /\ wpc' = [wpc EXCEPT ![w] = IF running = 1 THEN "last" ELSE "none"]
  /\ late' = late \ {w}
  /\ UNCHANGED <<state, allDone, closed, ctx, stop, cancelled, done, gen,
                 bgVars, ctlVars>>

(* Mutant: the latch is left to release(). *)
LastLooksAway(w) ==
  /\ wpc[w] = "last"
  /\ wpc' = [wpc EXCEPT ![w] = "none"]
  /\ UNCHANGED <<poolVars, bgVars, ctlVars, late>>

LastLooks(w) ==
  /\ wpc[w] = "last"
  /\ wpc' = [wpc EXCEPT ![w] = IF IsClosed THEN "closing" ELSE "none"]
  /\ UNCHANGED <<poolVars, bgVars, ctlVars, late>>

LastCloses(w) ==
  /\ wpc[w] = "closing"
  /\ closed' = closed \cup {allDone}
  /\ wpc' = [wpc EXCEPT ![w] = "none"]
  /\ UNCHANGED <<state, running, allDone, ctx, stop, cancelled, done, gen,
                 bgVars, ctlVars, late>>

-----------------------------------------------------------------------------
ReleaseStep(c) ==
  \/ Admit(c) \/ FindStop(c) \/ CopyContext(c) \/ Close(c)
  \/ StopBackground(c) \/ ResetQueue(c) \/ LookAtRunning(c) \/ CloseLatch(c)
  \/ AfterRelease(c) \/ AwaitWorkers(c) \/ JoinContexts(c) \/ CountWorkers(c)
  \/ CheckFlag(c)

RebootStep(c) ==
  \/ Reboot(c) \/ FetchLatch(c) \/ AwaitLatch(c) \/ AwaitBackground(c)
  \/ Reopen(c) \/ ZeroDone(c) \/ RenewContext(c) \/ ArmAndSpawn(c)
  \/ SwapLatch(c)

BackgroundStep(k, g) ==
  CopyOwnContext(k, g) \/ LeaveLoop(k, g) \/ StoreDone(k, g)

WorkerStep(w) ==
  SpawnWorker(w) \/ FinishTask(w) \/ Depart(w) \/ LastLooks(w) \/ LastCloses(w)

Next ==
  \/ \E c \in Controllers : Call(c) \/ ReleaseStep(c) \/ RebootStep(c)
  \/ \E k \in KindSet, g \in Gens : BackgroundStep(k, g)
  \/ \E g \in Gens : PurgeIdle(g)
  \/ \E w \in Workers : AdmitCaller(w) \/ WorkerStep(w)

Spec == Init /\ [][Next]_vars

(* Threads inside of the pool's code keep running, payloads end and timers *)
(* tick; nobody has to submit, release or reboot, and no deadline has to   *)
(* expire.                                                                 *)
Fairness ==
  /\ \A c \in Controllers : WF_vars(ReleaseStep(c) \/ RebootStep(c))
  /\ \A k \in KindSet, g \in Gens : WF_vars(BackgroundStep(k, g))
  /\ \A w \in Workers : WF_vars(WorkerStep(w))

FairSpec == Spec /\ Fairness

-----------------------------------------------------------------------------
(* There is never more than one purge thread and one ticktock thread: the  *)
(* ones of before a reboot have ended when it starts new ones, so that     *)
(* their done flags are not mixed up.                                      *)
Alive(k) == {g \in Gens : bg[k][g] \in {"start", "loop", "exit"}}

OneBackground == \A k \in KindSet : Cardinality(Alive(k)) <= 1

(* While the pool is open and nobody is releasing or rebooting it, its     *)
(* background threads run and can be stopped: a reboot does not leave a    *)
(* pool that is not purged, or that release_context() takes for closed.    *)
BackgroundServes ==
  (~IsClosed /\ \A c \in Controllers : pc[c] = "idle")
    => \A k \in KindSet :
         /\ stop[k] = ctx[k]
         /\ ctx[k] \notin cancelled[k]
         /\ \E g \in Gens :
              \/ bg[k][g] = "start"
              \/ bg[k][g] = "loop" /\ mine[k][g] = ctx[k]

(* The workers that running counts. *)
Live == {w \in Workers : wpc[w] \in {"busy", "idle", "exit"}}

(* When release_context() returns Ok the background threads are gone, and  *)
(* so is every worker that was there when the pool was closed, whoever had *)
(* closed the latch and when.  A caller let in before may have spawned one *)
(* since, even after the workers were counted; but no worker is parked in  *)
(* the closed pool, then or later, where nothing would ever stop it.       *)
CleanShutdown ==
  /\ [][\A c \in Controllers :
         pc[c] = "flags" /\ op'[c] = "ok"
           => (\A k \in KindSet : Alive(k) = {}) /\ Live \subseteq late]_vars
  /\ [](\A c \in Controllers :
          pc[c] = "idle" /\ op[c] = "ok" => \A w \in Workers : wpc[w] # "idle")

(* reboot() does not wait forever for workers that have exited.            *)
RebootReturns ==
  \A c \in Controllers : pc[c] = "await" ~> pc[c] # "await"

(* release_context() returns even if its context is never done.            *)
ReleaseReturns ==
  \A c \in Controllers : op[c] = "live" ~> op[c] # "live"

=============================================================================
