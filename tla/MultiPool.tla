------------------------------- MODULE MultiPool -------------------------------
(***************************************************************************)
(* A multi-pool: clients dispatch to one of several pools, in rotation or  *)
(* to the one with the fewest workers, and try another pool on overload;   *)
(* controllers release, reboot and tune all pools.  A pool is its state    *)
(* and its numbers of workers.  When a pool wakes the clients it has       *)
(* blocked is PoolCore's subject: here a wake-up may come at any time, or  *)
(* never, as it does in the windows of LateWaiter and MissedExit.          *)
(***************************************************************************)
EXTENDS Construct, FiniteSets

CONSTANTS
  Requests,      \* what the constructor may be called with
  IndexWrap,     \* values of the rotation cursor, 2^32 in the code
  Clients,       \* threads that dispatch
  MaxCalls,      \* bound: calls of dispatch
  Controllers,   \* threads that release, reboot and tune
  MaxOps,        \* bound: calls per controller
  Contexts,      \* what a release may be given: None or one
  TuneSizes      \* sizes the controllers ask for

ASSUME MultiPoolAssumption ==
  /\ \A r \in Requests :
       r.size \in Int /\ r.perPool \in Int /\ r.flavour \in Flavours
  /\ IndexWrap \in Nat \ {0}
  /\ MaxCalls \in Nat
  /\ MaxOps \in Nat
  /\ Contexts \subseteq {"nil", "live"}
  /\ TuneSizes \subseteq Int

VARIABLES
  asked,     \* the constructor's arguments
  state,     \* MultiPoolCore::state
  index,     \* MultiPoolCore::index
  pool,      \* each pool's state, capacity, workers and latch
  pc,        \* where each client is in dispatch
  target,    \* the pool it delivers to
  scan,      \* next()'s loop over the pools: where it is, the least so far
  retry,     \* it has been refused once
  calls,
  ctl,       \* what each controller is doing
  ctx,       \* the context of its release
  left,      \* the pools it has still to deal with
  waits,     \* the pools whose workers it waits for
  failed,    \* the pools that have returned an error
  want,      \* the size it tunes to
  ops,
  turns,     \* history: how often the rotation chose each pool
  resets     \* history: how often the cursor wrapped or was set to 0

clientVars == <<pc, target, scan, retry, calls>>
releaseVars == <<ctx, waits, failed>>
ctlVars == <<ctl, left, releaseVars, want, ops>>
history == <<turns, resets>>
vars == <<asked, state, index, pool, clientVars, ctlVars, history>>

Pools == DOMAIN pool
Ready == Pools # {}
RoundRobin == asked.lbs = ROUND_ROBIN
Opts == NewMultiPool(asked).value.opts

MultiPoolTypeOK ==
  /\ asked \in Requests
  /\ state \in {"OPENED", "CLOSED"}
  /\ index \in 0..(IndexWrap - 1)
  /\ pool \in [Pools -> [state : {"OPENED", "CLOSED"}, cap : Int, busy : Nat,
                         idle : Nat, leaving : Nat, drained : BOOLEAN]]
  /\ \A i \in Pools : pool[i].state = "CLOSED" => pool[i].idle = 0
  /\ pc \in [Clients -> {"idle", "next", "scan", "enter", "retrieve", "blocked"}]
  /\ Ready => target \in [Clients -> Pools]
  /\ scan \in [Clients -> [at : Nat, least : 0..I32Max]]
  /\ retry \in [Clients -> BOOLEAN]
  /\ calls \in 0..MaxCalls
  /\ ctl \in [Controllers -> {"idle", "release", "reset", "reboot", "tune"}]
  /\ ctx \in [Controllers -> {"nil", "live", "ended"}]
  /\ left \in [Controllers -> SUBSET Pools]
  /\ waits \in [Controllers -> SUBSET Pools]
  /\ failed \in [Controllers -> SUBSET Pools]
  /\ want \in [Controllers -> TuneSizes \cup {0}]
  /\ ops \in [Controllers -> 0..MaxOps]

(* new: the multi-pool that was asked for, or no pool at all. *)
Init ==
  /\ asked \in Requests
  /\ state = "OPENED"
  /\ index = IndexWrap - 1
  /\ pool = LET made == NewMultiPool(asked)
            IN  [i \in IF IsOk(made) THEN 0..(asked.size - 1) ELSE {} |->
                   [state |-> "OPENED", cap |-> made.value.size, busy |-> 0,
                    idle |-> 0, leaving |-> 0, drained |-> FALSE]]
  /\ pc = [c \in Clients |-> "idle"]
  /\ target = [c \in Clients |-> 0]
  /\ scan = [c \in Clients |-> [at |-> 0, least |-> I32Max]]
  /\ retry = [c \in Clients |-> FALSE]
  /\ calls = 0
  /\ ctl = [k \in Controllers |-> "idle"]
  /\ ctx = [k \in Controllers |-> "nil"]
  /\ left = [k \in Controllers |-> {}]
  /\ waits = [k \in Controllers |-> {}]
  /\ failed = [k \in Controllers |-> {}]
  /\ want = [k \in Controllers |-> 0]
  /\ ops = [k \in Controllers |-> 0]
  /\ turns = [i \in Pools |-> 0]
  /\ resets = 0

Running(i) == pool[i].busy + pool[i].idle + pool[i].leaving
Waiting(i) == {c \in Clients : pc[c] = "blocked" /\ target[c] = i}

-----------------------------------------------------------------------------
(* dispatch *)

(* The call returns r; only where the clients are is kept. *)
Reply(c, r) ==
  /\ r \in {"Ok", "PoolClosed", "PoolOverload"}
  /\ pc' = [pc EXCEPT ![c] = "idle"]
  /\ target' = [target EXCEPT ![c] = 0]
  /\ retry' = [retry EXCEPT ![c] = FALSE]

Goto(c, l) ==
  /\ pc' = [pc EXCEPT ![c] = l]
  /\ UNCHANGED <<target, retry>>

Dispatch(c) ==
  /\ Ready
  /\ pc[c] = "idle"
  /\ calls < MaxCalls
  /\ calls' = calls + 1
  /\ \/ state = "CLOSED" /\ Reply(c, "PoolClosed")
     \/ /\ state = "OPENED"
        /\ pc' = [pc EXCEPT ![c] = "next"]
        /\ UNCHANGED <<target, retry>>
  /\ UNCHANGED <<asked, state, index, pool, scan, ctlVars, history>>

(* Mutant: the cursor sticks to its last value. *)
TicketSaturating == IF index = IndexWrap - 1 THEN index ELSE index + 1

(* fetch_add(1) and wrapping_add(1) on a u32 *)
Ticket == (index + 1) % IndexWrap

Rotate(c) ==
  /\ RoundRobin
  /\ pc[c] = "next"
  /\ ~retry[c]
  /\ index' = Ticket
  /\ LET i == Ticket % asked.size
     IN  /\ target' = [target EXCEPT ![c] = i]
         /\ turns' = [turns EXCEPT ![i] = @ + 1]
  /\ resets' = IF Ticket = 0 /\ \E i \in Pools : turns[i] > 0
                 THEN resets + 1 ELSE resets
  /\ pc' = [pc EXCEPT ![c] = "enter"]
  /\ UNCHANGED <<asked, state, pool, scan, retry, calls, ctlVars>>

NoScan == [at |-> 0, least |-> I32Max]

(* next(LEAST_TASKS) reads running() of one pool after the other. *)
ScanOne(c) ==
  LET i == scan[c].at
      last == i + 1 \notin Pools
      less == Running(i) < scan[c].least
  IN  /\ pc[c] = "scan" \/ (pc[c] = "next" /\ (retry[c] \/ ~RoundRobin))
      /\ scan' = [scan EXCEPT ![c] =
                    IF last THEN NoScan
                    ELSE [at |-> i + 1, least |-> IF less THEN Running(i) ELSE @.least]]
      /\ target' = [target EXCEPT ![c] = IF i = 0 \/ less THEN i ELSE @]
      /\ pc' = [pc EXCEPT ![c] = IF last THEN "enter" ELSE "scan"]
      /\ UNCHANGED <<asked, state, index, pool, retry, calls, ctlVars, history>>

-----------------------------------------------------------------------------
(* deliver: try_submit of the pool *)

(* Mutant: nobody asks whether the pool is closed. *)
EnterAnyway(c) ==
  /\ pc[c] = "enter"
  /\ Goto(c, "retrieve")
  /\ UNCHANGED <<asked, state, index, pool, scan, calls, ctlVars, history>>

(* The pool's own is_closed(), which is not asked again before a worker is *)
(* looked for.                                                             *)
Enter(c) ==
  /\ pc[c] = "enter"
  /\ \/ pool[target[c]].state = "CLOSED" /\ Reply(c, "PoolClosed")
     \/ pool[target[c]].state = "OPENED" /\ Goto(c, "retrieve")
  /\ UNCHANGED <<asked, state, index, pool, scan, calls, ctlVars, history>>

HasRoom(i) ==
  pool[i].idle > 0 \/ pool[i].cap = -1 \/ Running(i) < pool[i].cap

(* An idle worker gets the task, or else a new one. *)
Taken(i) ==
  IF pool[i].idle > 0
    THEN [pool EXCEPT ![i].idle = @ - 1, ![i].busy = @ + 1]
    ELSE [pool EXCEPT ![i].busy = @ + 1]

Overloaded(i) ==
  \/ Opts.nonblocking
  \/ Opts.maxBlocking # 0 /\ Cardinality(Waiting(i)) >= Opts.maxBlocking

Retrieve(c) ==
  LET i == target[c]
  IN  /\ pc[c] = "retrieve"
      /\ \/ HasRoom(i) /\ pool' = Taken(i) /\ Reply(c, "Ok")
         \/ ~HasRoom(i) /\ ~Overloaded(i) /\ Goto(c, "blocked") /\ UNCHANGED pool
         \/ /\ ~HasRoom(i) /\ Overloaded(i)
            /\ IF RoundRobin /\ ~retry[c]
                 THEN /\ retry' = [retry EXCEPT ![c] = TRUE]
                      /\ pc' = [pc EXCEPT ![c] = "next"]
                      /\ UNCHANGED target
                 ELSE Reply(c, "PoolOverload")
            /\ UNCHANGED pool
      /\ UNCHANGED <<asked, state, index, scan, calls, ctlVars, history>>

(* Woken up for whatever reason, a caller finds the pool closed or looks   *)
(* for a worker again.                                                     *)
Woken(c) ==
  /\ pc[c] = "blocked"
  /\ \/ pool[target[c]].state = "CLOSED" /\ Reply(c, "PoolClosed")
     \/ pool[target[c]].state = "OPENED" /\ Goto(c, "retrieve")
  /\ UNCHANGED <<asked, state, index, pool, scan, calls, ctlVars, history>>

-----------------------------------------------------------------------------
(* The workers of a pool *)

(* The last worker of a closed pool closes its latch. *)
Drains(i) == pool[i].drained \/ (pool[i].state = "CLOSED" /\ Running(i) = 1)

(* Mutant: a worker is parked whatever the state of the pool. *)
TaskEndsParked(i) ==
  /\ pool[i].busy > 0
  /\ pool' = [pool EXCEPT ![i].busy = @ - 1, ![i].idle = @ + 1]
  /\ UNCHANGED <<asked, state, index, clientVars, ctlVars, history>>

(* A task ends and its worker is parked, or it exits: it has panicked or   *)
(* been stopped, is one too many, or finds the pool closed.                *)
TaskEnds(i) ==
  /\ pool[i].busy > 0
  /\ \/ /\ pool[i].state = "OPENED"
        /\ pool[i].cap = -1 \/ Running(i) <= pool[i].cap
        /\ pool' = [pool EXCEPT ![i].busy = @ - 1, ![i].idle = @ + 1]
     \/ pool' = [pool EXCEPT ![i].busy = @ - 1, ![i].drained = Drains(i)]
  /\ UNCHANGED <<asked, state, index, clientVars, ctlVars, history>>

Purged(i) ==
  /\ ~Opts.disablePurge
  /\ pool[i].idle > 0
  /\ pool' = [pool EXCEPT ![i].idle = @ - 1, ![i].leaving = @ + 1]
  /\ UNCHANGED <<asked, state, index, clientVars, ctlVars, history>>

(* Mutant: the last worker leaves the latch open. *)
LeavesQuietly(i) ==
  /\ pool[i].leaving > 0
  /\ pool' = [pool EXCEPT ![i].leaving = @ - 1]
  /\ UNCHANGED <<asked, state, index, clientVars, ctlVars, history>>

(* A worker that was told to finish has gone. *)
Leaves(i) ==
  /\ pool[i].leaving > 0
  /\ pool' = [pool EXCEPT ![i].leaving = @ - 1, ![i].drained = Drains(i)]
  /\ UNCHANGED <<asked, state, index, clientVars, ctlVars, history>>

-----------------------------------------------------------------------------
(* release_context and release_pools *)

Release(k) ==
  /\ Ready
  /\ ctl[k] = "idle"
  /\ ops[k] < MaxOps
  /\ ops' = [ops EXCEPT ![k] = @ + 1]
  /\ state' = "CLOSED"
  /\ \/ /\ state = "OPENED"
        /\ \E x \in Contexts : ctx' = [ctx EXCEPT ![k] = x]
        /\ ctl' = [ctl EXCEPT ![k] = "release"]
        /\ left' = [left EXCEPT ![k] = Pools]
     \/ state = "CLOSED" /\ UNCHANGED <<ctl, ctx, left>>
  /\ UNCHANGED <<asked, index, pool, waits, failed, want, clientVars, history>>

(* One of the scoped threads closes its pool, in any order, and goes on to *)
(* wait for the workers unless the context is None.                        *)
ReleasePool(k, i) ==
  /\ ctl[k] = "release"
  /\ i \in left[k]
  /\ left' = [left EXCEPT ![k] = @ \ {i}]
  /\ IF pool[i].state = "CLOSED"
       THEN /\ failed' = [failed EXCEPT ![k] = @ \cup {i}]
            /\ UNCHANGED <<pool, waits>>
       ELSE /\ pool' = [pool EXCEPT ![i].state = "CLOSED",
                                    ![i].leaving = @ + pool[i].idle,
                                    ![i].idle = 0,
                                    ![i].drained = Running(i) = 0]
            /\ waits' = [waits EXCEPT ![k] =
                           IF ctx[k] = "nil" THEN @ ELSE @ \cup {i}]
            /\ UNCHANGED failed
  /\ UNCHANGED <<asked, state, index, clientVars, ctl, ctx, want, ops,
                 history>>

WaitEnds(k, i) ==
  /\ i \in waits[k]
  /\ pool[i].drained /\ Running(i) = 0
  /\ waits' = [waits EXCEPT ![k] = @ \ {i}]
  /\ UNCHANGED <<asked, state, index, pool, clientVars, ctl, left, ctx, failed,
                 want, ops, history>>

(* Mutant: a thread that gives up has nothing to report. *)
GivesUpQuietly(k, i) ==
  /\ i \in waits[k]
  /\ ctx[k] = "ended"
  /\ waits' = [waits EXCEPT ![k] = @ \ {i}]
  /\ UNCHANGED <<asked, state, index, pool, clientVars, ctl, left, ctx, failed,
                 want, ops, history>>

GivesUp(k, i) ==
  /\ i \in waits[k]
  /\ ctx[k] = "ended"
  /\ waits' = [waits EXCEPT ![k] = @ \ {i}]
  /\ failed' = [failed EXCEPT ![k] = @ \cup {i}]
  /\ UNCHANGED <<asked, state, index, pool, clientVars, ctl, left, ctx, want,
                 ops, history>>

ContextEnds(k) ==
  /\ ctl[k] = "release"
  /\ ctx[k] = "live"
  /\ ctx' = [ctx EXCEPT ![k] = "ended"]
  /\ UNCHANGED <<asked, state, index, pool, clientVars, ctl, left, waits, failed,
                 want, ops, history>>

(* All threads are joined; one error is enough to return one. *)
ReturnsOk(k) == failed[k] = {}

Joined(k) ==
  /\ ctl[k] = "release"
  /\ left[k] = {} /\ waits[k] = {}
  /\ ctl' = [ctl EXCEPT ![k] = "idle"]
  /\ failed' = [failed EXCEPT ![k] = {}]
  /\ ctx' = [ctx EXCEPT ![k] = "nil"]
  /\ UNCHANGED <<asked, state, index, pool, clientVars, left, waits, want, ops,
                 history>>

-----------------------------------------------------------------------------
(* reboot and tune *)

Reboot(k) ==
  /\ Ready
  /\ ctl[k] = "idle"
  /\ ops[k] < MaxOps
  /\ ops' = [ops EXCEPT ![k] = @ + 1]
  /\ state' = "OPENED"
  /\ ctl' = [ctl EXCEPT ![k] = IF state = "CLOSED" THEN "reset" ELSE "idle"]
  /\ UNCHANGED <<asked, index, pool, clientVars, left, releaseVars, want, history>>

ResetIndex(k) ==
  /\ ctl[k] = "reset"
  /\ index' = 0
  /\ resets' = resets + 1
  /\ left' = [left EXCEPT ![k] = Pools]
  /\ ctl' = [ctl EXCEPT ![k] = "reboot"]
  /\ UNCHANGED <<asked, state, pool, clientVars, releaseVars, want, ops, turns>>

(* The pools are rebooted, and tuned, in order. *)
TakesNext(k, i) ==
  /\ i \in left[k] /\ \A j \in left[k] : i <= j
  /\ left' = [left EXCEPT ![k] = @ \ {i}]
  /\ ctl' = [ctl EXCEPT ![k] = IF left[k] = {i} THEN "idle" ELSE @]

(* Mutant: a pool that still has workers is passed over. *)
RebootPoolImpatient(k, i) ==
  /\ ctl[k] = "reboot"
  /\ TakesNext(k, i)
  /\ pool' = IF pool[i].state = "CLOSED" /\ pool[i].drained
               THEN [pool EXCEPT ![i].state = "OPENED", ![i].drained = FALSE]
               ELSE pool
  /\ UNCHANGED <<asked, state, index, clientVars, releaseVars, want, ops, history>>

(* A pool's reboot() waits for the latch of a closed pool. *)
RebootPool(k, i) ==
  /\ ctl[k] = "reboot"
  /\ TakesNext(k, i)
  /\ IF pool[i].state = "OPENED"
       THEN UNCHANGED pool
       ELSE /\ pool[i].drained
            /\ pool' = [pool EXCEPT ![i].state = "OPENED", ![i].drained = FALSE]
  /\ UNCHANGED <<asked, state, index, clientVars, releaseVars, want, ops, history>>

Tune(k) ==
  /\ Ready
  /\ ctl[k] = "idle"
  /\ ops[k] < MaxOps
  /\ ops' = [ops EXCEPT ![k] = @ + 1]
  /\ \E n \in TuneSizes : want' = [want EXCEPT ![k] = n]
  /\ left' = [left EXCEPT ![k] = Pools]
  /\ ctl' = [ctl EXCEPT ![k] = "tune"]
  /\ UNCHANGED <<asked, state, index, pool, clientVars, releaseVars, history>>

(* A pool's tune(), with nothing to do if it is unlimited or pre-allocated.*)
TunePool(k, i) ==
  /\ ctl[k] = "tune"
  /\ TakesNext(k, i)
  /\ want' = [want EXCEPT ![k] = IF left[k] = {i} THEN 0 ELSE @]
  /\ pool' = IF pool[i].cap = -1 \/ want[k] <= 0 \/ Opts.preAlloc
               THEN pool
               ELSE [pool EXCEPT ![i].cap = want[k]]
  /\ UNCHANGED <<asked, state, index, clientVars, releaseVars, ops, history>>

-----------------------------------------------------------------------------
ClientStep(c) ==
  \/ Rotate(c) \/ ScanOne(c) \/ Enter(c) \/ Retrieve(c) \/ Woken(c)

ControllerStep(k) ==
  \/ \E i \in Pools :
       \/ ReleasePool(k, i) \/ WaitEnds(k, i) \/ GivesUp(k, i)
       \/ RebootPool(k, i) \/ TunePool(k, i)
  \/ Joined(k) \/ ResetIndex(k)

Call(k) == Release(k) \/ Reboot(k) \/ Tune(k)

Next ==
  \/ \E c \in Clients : Dispatch(c) \/ ClientStep(c)
  \/ \E i \in Pools : TaskEnds(i) \/ Purged(i) \/ Leaves(i)
  \/ \E k \in Controllers : Call(k) \/ ControllerStep(k) \/ ContextEnds(k)

Spec == Init /\ [][Next]_vars

(* The controllers go on, tasks end, and a worker told to finish goes.     *)
(* Nothing is asked of the clients: any of them may stay blocked.          *)
Fairness ==
  /\ \A k \in Controllers : WF_vars(ControllerStep(k))
  /\ WF_vars(\E i \in Pools : TaskEnds(i) \/ Leaves(i))

FairSpec == Spec /\ Fairness

-----------------------------------------------------------------------------
AtRest == \A k \in Controllers : ctl[k] = "idle"

(* When nobody is releasing, rebooting or tuning, the pools are what the   *)
(* multi-pool says: none of them left closed behind an open one, where it  *)
(* would turn its share of the tasks away, none left open behind a closed  *)
(* one, which nobody could release any more, and none with a capacity of   *)
(* its own.                                                                *)
PoolsAgree ==
  AtRest => \A i, j \in Pools : pool[i].state = state /\ pool[i].cap = pool[j].cap

(* Rotation is fair: no pool gets more than one turn ahead of another,     *)
(* plus one for each time the cursor has wrapped or been reset.            *)
RotationFair ==
  \A i, j \in Pools : turns[i] <= turns[j] + 1 + resets

(* Once a release is through, no client gets into a pool until a reboot    *)
(* begins, not even one who has found the multi-pool open before.  (A      *)
(* client who was inside when its pool was closed may still be served.)    *)
ClosedTakesNothing ==
  [][AtRest /\ state = "CLOSED" =>
       \A c \in Clients : pc'[c] = "retrieve" => pc[c] = "retrieve"]_vars

(* A release that was given a context and returns Ok has seen the workers  *)
(* of every pool go: a failure of one pool is not lost among the others.   *)
OkMeansDrained ==
  [][\A k \in Controllers :
       Joined(k) /\ ctx[k] # "nil" /\ ReturnsOk(k) =>
         \A i \in Pools : pool[i].drained]_vars

(* Every release, reboot and tune returns: what a pool's reboot waits for  *)
(* does happen, whichever release came before, whatever it returned and    *)
(* whoever is still blocked.                                               *)
ControlReturns == \A k \in Controllers : ctl[k] # "idle" ~> ctl[k] = "idle"

=============================================================================
