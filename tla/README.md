# A TLA+ model of ants

`ants` runs tasks on a bounded set of reusable threads. A submission takes an
idle worker, starts a new one while there is room, or blocks or is refused. Idle
workers are purged after a while; a pool can be resized, released and rebooted;
several pools can be put behind a load balancer. This directory holds a model of
that machinery in TLA+, the TLC configurations that check it, and proofs that
TLAPS checks. Source paths below are relative to the repository.

## 1. The system

### Components

| component | source | state it keeps | operations |
|---|---|---|---|
| pool core | `src/pool_common.rs`, `src/pool.rs` | `state`, `capacity`, `running`, `waiting`, the locked idle queue, `cond`, `all_done`, worker cache, purge and ticktock contexts, their cancel functions and done flags, cached clock | `submit`/`try_submit`, `retrieve_worker`, `revert_worker`, `tune`, `release`, `release_context`, `release_timeout`, `reboot`, the purge and ticktock threads |
| worker | `src/worker.rs` | a channel of at most one message, `last_used`, its thread | `run`, `work`, `input`, `finish`, `call` |
| worker stack | `src/worker_stack.rs` | a vector, oldest first | `insert`, `detach` (newest), `refresh`, `reset` |
| loop queue | `src/worker_loop_queue.rs` | a ring: slots, head, tail, full flag | `insert` (may refuse), `detach` (oldest), `refresh`, `reset` |
| queue factory | `src/worker_queue.rs` | - | choice of stack or ring |
| condition variable | `src/deps/cond.rs` | parked threads, tokens, generation | `wait`, `signal`, `broadcast` |
| spin lock | `src/pkg/sync/spinlock.rs` | one word | `lock`, `unlock` |
| event latch | `src/deps/event.rs` | a flag under a mutex, its sleepers | `close`, `wait`, `wait_timeout` |
| context | `src/deps/context.rs` | a latch and a deadline | `cancel`, `is_done`, `err`, `wait`, `wait_done_for` |
| multi-pools | `src/multipool*.rs` | the pools, `index`, `state`, strategy | `new`, `dispatch`, `next`, `tune`, `release_context`, `release_timeout`, `reboot`, sums of counters |
| function pools | `src/pool_func*.rs` | a pool core whose payload is an argument | `invoke` and forwards |
| options and constructors | `src/options.rs`, `PoolCore::new` and the `new` of every flavour | configuration values | setters applied in order, checks in order |
| clock, logger, default pool | `src/deps/gotime.rs`, `src/deps/golog.rs`, `src/lib.rs` | durations, a pool made on first use | conversions, output, forwards |

### How they interact

* Callers, workers, the scavenger and `release()` share the **idle queue** under
  the **spin lock**. `running`, `waiting`, `state` and `capacity` are atomics
  which everybody reads and writes without the lock, one at a time.
* A caller hands a worker its task through the worker's **channel**, of which it
  must be the only user: `finish()` sends on the same channel. A waiting worker is
  therefore in the idle queue, or with one caller, or on the scavenger's list.
* A caller that finds no room waits on the **condition variable**; a worker that
  is parked signals it under the lock; an exiting worker, `tune`, a refused
  worker, the scavenger and `release` signal or broadcast *without* the lock.
* `release()` cancels the **contexts** of the two background threads and closes
  the **latch** `all_done` if no worker is left; otherwise the last worker does.
  `release_context` and `reboot` wait on the latch and on the done flags.
* A multi-pool calls its pools' `deliver`, `release_context` and `reboot`; it has
  no lock of its own, only an atomic state and an atomic cursor.

### What is hard, and what has to hold

| component | hard behaviour | what makes it correct |
|---|---|---|
| submit and workers | capacity is checked with atomics that others change; state is read before the lock; a worker changes hands between callers, the queue and the scavenger while several threads use it | running counts live workers; capacity is never exceeded; a worker has one owner; a task is executed once or refused; a task accepted is executed |
| condition variable | signals without the lock; tokens that any waiter may take | no stray token; nobody sleeps while there is room |
| release | races with submissions in flight, with workers being parked, with the last exit | a closed queue stays empty; the latch is closed by somebody; parked callers return; all workers exit |
| reboot, release_context | a second generation of threads, contexts, flags and latch is built while parts of the first are still ending | one thread of each kind; a release that returns Ok leaves no background thread behind and no worker in the queue; neither call waits forever |
| queues | positions modulo the size, a flag to tell full from empty, a binary search on a wrapped range | the ring is a bounded FIFO, the stack a LIFO, refresh takes exactly the expired |
| purge | compares true time with stamps from a cached clock | the queue is sorted, so that the search finds all that expired |
| latch, context | a sleeper looks at a flag and then sleeps; it may wake up for no reason, or for its neighbour; a deadline passes while it waits for a cancellation | no wake-up is lost; no bounded wait ends early or never; no answer is wrong |
| options | each option overwrites what an earlier one has set; checks are made in an order | an accepted pool has what the rest of the code takes for granted |
| multi-pool | its state and its pools' states change one after the other; a client acts on what it saw before; some pools release in time and others do not | they agree when nobody is at work; nobody gets into a pool after a release; Ok means that all have drained; rotation is fair; every call returns |

`PROJECT.json` lists the hazards one by one, each at its line, with the property
that would notice.

## 2. The modules

```
BoundedExecutor   what a pool promises            IdleQueue   what a queue promises
      ^ refinement (checked, proved)                  ^ two refinements (checked, proved)
PoolCore  <- MCPoolCore (for TLC)                 WorkerQueue = LoopQueue + WorkerStack
      ^ PoolCoreProofs                                <- QueueProofs
          ^ PoolOwnershipProofs  ^ PoolCountsProofs   Expiry = WorkerStack + two clocks
              ^ PoolExecutorProofs
                                                  DoneSignal  what a context promises
Lifecycle   release / reboot / background             ^ refinement (checked, proved)
            <- LifecycleProofs                    Context     <- ContextProofs

Construct   options and checks of constructors
      ^ MultiPool  several pools  <- MCMultiPool (for TLC), MultiPoolProofs
```

`A <- B`: B extends A. The proof modules extend the module they prove about and,
where drawn one above the other, each other.

### `PoolCore`: submit, workers, scavenger, tune, release

One action is one access to an atomic that others may change meanwhile, or one
critical section. The program counters are `pc` (callers), `wpc` (workers),
`ppc` (scavenger), `rpc` (the releasing thread), `tuner`.

| model | code |
|---|---|
| `TrySubmit` | `Pool::try_submit` up to `retrieve_worker`, with the early return |
| `Acquire`, `FindRoom`, `RefuseOverload`, `BecomeWaiter`, `Resume` | `retrieve_worker`: the lock, detach, capacity, running, the overload test, what follows `wait` |
| `Spawn`, `Send` | `worker::run`, `GoWorker::input` |
| `Register`, `Wake`, `Signal`, `Broadcast` | `Cond::wait`, `signal`, `broadcast`: each critical section of its inner mutex is one step |
| `Receive`, `Return`, `Depart`, `Recycle`, `ExitSignal` | `worker::work` with its epilogue in its order |
| `Revert`, `Shed`, `Insert` | `revert_worker`: the first check, the broadcast on refusal, the second half under the lock |
| `PurgeTick`, `PurgeScan`, `PurgeFinish`, `PurgeAwake` | `purge_stale_workers` |
| `ReleaseClose` to `ReleaseCheck` | `release`, `reset` worker by worker with the lock held |
| `TuneRead`, `TuneStore`, `TuneNotify` | `tune` |
| `LockFree`, `Lock`, `Unlock` | `SpinLock`; waiting for the word to be free stands for the back-off |

Why steps could be merged. Two accesses are one action only if no other thread
can do anything in between that would make a difference:

* under the lock, the reads and writes of the queue are invisible to everybody
  else. The two places that are *not* merged are those where the critical section
  also reads an atomic which others write without the lock (the capacity, then
  `running`), and those where it sends (`reset`), since a send may block;
* `capacity` is read together with the step just before it, which is local to the
  reader (`DetachOrCheck`, `Return`) and kept in `seen` until it is compared.
  A caller that reads `running` later sees what others did in between;
* in `Revert`, `running` and `state` are read together: each only decides
  whether the worker sheds, and one read later is one behaviour among those the
  model has anyway;
* `Insert` reads `state` and appends in one step. `release()` stores the state
  before it takes the lock, so that an insertion that saw an open pool is before
  the reset whichever way the store falls;
* `PurgeAwake`, `Recycle` and `ReleaseCheck` read an atomic and act on it; the
  latch is only ever closed in this module, and a broadcast for a waiter that has
  just left or come is one of the broadcasts the model has;
* a rendezvous channel takes the message when the receiver is there; that the
  sender returns a moment later cannot be told.

Data is abstract: a task is a pair of a caller and a number, a message is a task
or `Finish`, time is absent (any prefix of the idle queue may have expired), the
ring and the stack appear as sequences that differ in the end they give out from
and in their limit (`WorkerQueue` justifies this). `MaxBlockingTasks` is any
integer, as in the code, which rejects none: a negative one makes every full pool
refuse.

### `BoundedExecutor`: the promise

A submission is accepted or refused, once. It is refused only by a closed pool
or one that may refuse under load; one that begins after the close is refused at
once; what is accepted runs at most once, and no more run at a time than the
largest size the pool was ever given. `PoolCore!ImplementsExecutor` maps `task`,
`IsClosed` and `Asked`, the sizes, to it.

### `LoopQueue`, `WorkerStack`, `WorkerQueue`, `IdleQueue`

Every operation of both queues with the code's indices, the binary searches as
recursive functions, behind the factory's choice. `out` records what the last
operation returned and, for `refresh`, which expiry it was asked for, so that the
abstract queue cannot explain an answer with another question. The environment
inserts each worker at most once and stamps it with a clock that does not go back.
With such a clock the expired are the first in the queue, so that `IdleQueue!Refresh`
is a cut: the first `n` go, and they are exactly those that have expired. A queue
out of order has no such cut, and no step of it would be allowed there.

### `Expiry`

What the pool really does about that clock: `revert_worker` stamps a worker with
the *cached* time and then contends for the lock.

### `Lifecycle`: release, release_context, reboot

The control plane, at one step per access to `state`, a done flag, a context, a
cancel function or the latch. What a reboot installs is numbered by the reboot
(`gen`), which tells the old latch, contexts and threads from the new. Callers
and workers are present as far as they matter here: admitted while the pool was
open, busy, idle, exiting, about to close the latch (`LastLooks` and `LastCloses`
are two steps here, because a reboot can get in between). `release_context` is
modelled with a context that never ends and with one that may expire at any moment;
with none it is `release` behind the same checks (operation `"nil"`, in the module
and its proofs). Its checks at the beginning (`Admit`, then `FindStop` for either
cancel function), the copies of the contexts (`CopyContext`) and the reads that
decide on Ok (`CountWorkers`, then `CheckFlag` for either thread) are steps of their
own: between the count and the flags a caller let in earlier can spawn a worker,
which is what `late` records, the workers spawned into the closed pool.

### `Context`, `DoneSignal`

`Context` has the contexts of `deps/context.rs` and the latch of `deps/event.rs`
below them, used by any number of threads. A thread is in one of three calls:
`wait`, `wait_done_for`, or `err`, which is also `is_done` and the head of every
round of `wait`. Each look at the clock is a step; each critical section of the
latch's mutex is one, except where it ends in a sleep: then the mutex stays taken
(`holder`) from the look at the flag (`Test`) to the sleep (`Sleep`), and time may
pass in between, which is what `close()` setting the flag under the mutex is for.

| model | code |
|---|---|
| `Err`, `Wait`, `WaitDoneFor` | the calls: `err`, `wait`, `wait_done_for` with the smaller of its limit and the time left |
| `LookAtFlag`, `LookAtClock` | `is_done`, then the deadline |
| `Measure`, `Arm` | what is left to the deadline; `wait_timeout`'s own deadline |
| `Test`, `Settle`, `Sleep` | the loop of `wait_timeout` and of `wait`, with the flag looked at before the time |
| `WakeUp`, `WakeForNoReason` | notified or timed out; a spurious wake-up |
| `Close`, `Tick` | `Event::close`; the clock |

`Init` has a context of every kind: without a deadline, with one in the future,
with one that has passed. `DoneSignal` is what all this promises: done for good
once cancelled or past the deadline; reported as done only then; a wait without a
limit answers nothing else. In `Lifecycle` and `PoolCore` a latch is a flag, a
context something that ends at some time: `Context` is why they may do so.

### `Construct`

Pure operators: `LoadOptions` applies a list of options from left to right,
`NewCore` makes the checks of `PoolCore::new` in their order and replaces a size
that is not positive by -1 and an expiry of zero by the default; `NewPool` adds the
check of the function pools, `NewMultiPool` those of a multi-pool. `DefaultPool` is
the pool that the crate's free functions share.

The loop that releases the pools made so far when a later one fails
(`multipool.rs:165-170`) is not modelled because nothing gets there: all pools are
made with the same arguments, on which alone the outcome of the constructor depends, so that the
first one fails if any does.

### `MultiPool`

`dispatch` with its second try, `next` (the cursor, and the scan that reads the
pools one after the other), `deliver` with the pool's own look at its state,
`release_context` and `release_timeout` (`release_pools`' scoped threads close
pools in any order, each then waits for its pool or gives up, and an error of any
is the result), `reboot` (in order, each waiting for a pool that still drains) and
`tune`. The pools are those that `NewMultiPool` makes of one of the calls in
`Requests`; if it returns an error there are none. A pool is its state, its
capacity, its latch and its numbers of busy, idle and leaving workers. A client
that a full pool has blocked may be woken at any time, or never, as in
`BoundedExecutor`, which promises no wake-up: `LateWaiter` and `MissedExit` show
that a pool may forget one. Nothing is therefore said here about whether `dispatch`
returns; what the model shows of release, reboot and tune holds even if a blocked
client never does. `turns` and `resets` are history variables.

`MCMultiPool` gives the calls of the constructor and compares `Construct` with
reference definitions, as assumptions TLC evaluates: options against "the last one
that sets a field wins" (all lists of up to three of six options), acceptance
against a condition without an order (all flavours, five sizes, all lists of up to
two), the default pool, and the error of each rejected call.

## 3. The runs

| run | instance | distinct states | shows |
|---|---|---|---|
| `PoolStack` | 3 callers, capacity 1, stack, every outcome, no scavenger, release at any time | 114 000 | capacity, counters, lock, tokens, closed queue, latch; release frees both of two waiters though their pool stay busy for ever |
| `PoolRing` | 3 callers, ring of 1, rendezvous channels, `max_blocking_tasks` 1, release | 619 000 | no refusal by the ring, no send that waits, the waiting bound, refinement of `BoundedExecutor` |
| `PoolServes` | 3 callers, capacity 1, scavenger, panics, pool stays open | 53 000 | every submit returns, of two waiters too |
| `PoolDrains` | 2 callers, capacity 1, a tuner to 2, scavenger, panics, release at any time | 102 000 | ownership, task fate; accepted tasks still run, nobody waits in an open pool although `tune` signals without the lock, workers and scavenger end, latch stays closed |
| `Queues` | 5 workers, 4 slots, 3 instants, three queue types | 82 000 | both queues implement `IdleQueue`; `RingExact` |
| `Lifecycle` | 1 controller x 4 calls of `release`, `release_context` with a context, `reboot`; 2 slots | 342 000 | one background thread of a kind, an open pool is served, what Ok means, both calls return |
| `Context` | 2 threads x 1 call, lifetimes 2 and none, limits 1 and 3, 4 instants | 102 000 | no answer wrong, early or never; no lost wake-up; refinement of `DoneSignal` |
| `MultiPool` | 8 calls of `new` (3 good), up to 2 pools, 2 clients, 3 dispatches, 1 controller x 2 calls | 121 000 | agreement, Ok means drained, fair rotation, nobody gets in after a release, every release, reboot and tune returns |
| `LateWaiter` | violation | | a caller parks in a closed pool for good |
| `MissedExit` | violation | | a caller parks in an empty pool for good |
| `Unsorted` | violation | | refresh misses an expired worker |
| `RebootRace` | violation | | reboot waits for a latch nobody will close |

Every property of a passing run has a mutant in `PROJECT.json`: a definition of
the model and an altered form of it, defined just before it, which a plausible
slip in the code would amount to and which makes the property fail.

### What the violations say

* **`LateWaiter`** (`src/pool_common.rs:521`). `retrieve_worker` asks whether the
  pool is closed only after it has waited. A caller that was let in before
  `release()`, finds the pool full, and registers after release's broadcast and
  after the last worker's exit signal, is not woken by anybody.
* **`MissedExit`** (`src/worker.rs:170`). `cond.rs` promises that a signal cannot
  slip past an unregistered waiter. This needs signals to be sent under the lock;
  the epilogue of `work` sends its own without. The scavenger's broadcast repairs
  it at the next tick; with `disable_purge` nothing does. `tune` has the same
  window, which `PoolDrains` shows the scavenger to close too (`ServedWhileOpen`).
* **`Unsorted`** (`src/pool_common.rs:540`). Two workers stamped on either side of
  a tick of the cached clock may be parked in the opposite order.
* **`RebootRace`** (`src/pool_common.rs:477`). `reboot` opens the pool well before
  it replaces the latch; a `release` in between closes the old one.

Divergences met and not given a run: `multipool.rs:45` calls what `LEAST_TASKS`
compares *pending tasks*, the code compares workers, idle ones included;
`worker_loop_queue.rs:33-34` expects the ring to refuse the surplus of a pool that
has been tuned down, but `tune` ignores pre-allocated pools and `NeverFull` shows
that the ring never refuses; `pool_common.rs:449` says `reboot` waits for all
workers, but a caller admitted before the release may spawn one after the latch
was closed, and a slow last worker may close the next latch;
`pool_common.rs:380-381` says that `release_context` waits for all workers to exit,
but it may return Ok with a worker at work: one that a caller let in before the
release spawns after the count was read as 0 and before the flags are
(`pool_common.rs:425-427`), or after the flags. Such a worker exits by itself when its
task ends. `CleanShutdown` says what Ok does mean: the background threads are gone,
so is every worker but those spawned into the closed pool, and none is parked in
it, then or later.

### Bounds, and why they are enough

* Capacity 1 makes every second caller contend. Three callers are two waiters behind
  one worker: with a single waiter, a signal could not be told from a broadcast, nor
  could one waiter take another's token. `PoolStack` and `PoolServes` have two, one for
  the broadcast of release, which has to do without the workers (`BusySpec`), the other
  for their signals. `PoolStack` does without the scavenger, whose broadcasts would
  hide a missing one. In `PoolDrains` two callers, a tuner and the release reach a
  caller that waits for the room that tune is making. Tuning to fewer workers would
  take these runs beyond minutes: what happens then is left to the theorems, which
  hold for any sizes (`CapacityHolds`, `RunningCounts`, `OneOwner`, `RunsOnce`,
  `PoolRefines`). The same goes for what a caller's second call could find left over
  from its first: the proofs hold for any `MaxCalls`. `Workers` is as large as the number of
  submissions, since each spawns at most one worker, so that the model never runs
  short (`MCPoolCore!EnoughWorkers` has TLC check this).
* Channels have one slot or none; both occur (`PoolStack`, `PoolRing`).
* Ring of four slots: every head, every length, every wrap, and searches of three
  rounds. Three instants: before, at and after the expiry.
* `MaxGen` 2 never stops a run of four calls: a reboot succeeds only after a
  release. One controller in `Lifecycle` and in the run of `MultiPool`. This is a
  restriction of the runs and not one that the code or its documentation makes
  (`README.md:97` calls `tune` thread-safe, and nothing is said of release and
  reboot): with two controllers the properties fail, `RebootRace` shows one way, and
  in a multi-pool a release during a reboot leaves open pools behind a closed
  multi-pool. Both modules take any number, and `ReleasesAreClean` is proved for any
  number of threads that only release.
* `Context`: two threads are one that sleeps and one that is notified in its place,
  is not yet asleep, or holds the mutex. A deadline at 2 with limits of 1 and 3 is on
  either side of them, and instant 3 is after everything but the later limit, which
  falls on it (`After` and `Horizon`). A thread that has returned has left nothing
  behind in the latch, so that a second call of its would be a first one.
* `IndexWrap` is 3 instead of 2^32: the wrap happens, and 3 is not a multiple of
  the number of pools, which is the interesting case. `RotationIsFair` is proved for
  all values. Two pools are enough for a least and for a failure among others; two
  operations are release and reboot, or release twice, or tune before either.
* `CHECK_DEADLOCK FALSE`: the number of calls is bounded and a pool that has
  served them all, or has been released, has nothing left to do.
* No run uses symmetry.

### Fairness

In `PoolCore`, weak fairness of every thread that is inside of the pool's code and of
the scavenger, whose ticker ticks (`ThreadFairness`). `FairSpec` adds the workers,
whose payloads end; `BusySpec` does not, so that a worker may stay at its payload for
ever, and `ReleaseFreesWaiters` is checked under it. Nobody is obliged to call
`submit`, `tune`, `release`, `reboot`, `dispatch` or `cancel`, and no context is
obliged to expire. The spin lock is not fair: with weak fairness a contender may be
overtaken as long as others keep taking the lock, and the properties hold all the
same. The OS schedules every runnable thread, which is all that is assumed there.

In `Context` a thread that wants the latch's mutex gets it at some time although
others may take it in between (strong fairness of `LookAtFlag` and `Test`): a
`std::sync::Mutex` is not strictly fair, but its waiters are woken and nobody holds
it for long. Spurious wake-ups are not obliged to happen, and neither is the
passing of time: `CancelWakes` must not rest on it, and `TimeEnds` says what
follows once it is late enough.

In `MultiPool` workers finish, the controller and its release threads go on, and a
wait that a release thread gives up counts as a step of it; nobody's context has to
end, and clients need not go on.

## 4. The proofs

Eight modules, each on top of the module it is about. All statements hold for any
number of threads and any values of the constants that satisfy the module's
assumption. Where a theorem needs more, it says so: `Alone` is that there is at most one
controller, as in the runs, `ReleasesOnly` that no controller reboots. Every safety
property that a passing run checks is the statement of a theorem.

`PoolCoreProofs`, and on top of it `PoolOwnershipProofs`, `PoolCountsProofs` and,
on top of these two, `PoolExecutorProofs`:

| theorem | statement | argument |
|---|---|---|
| `TypeCorrect` | `Spec => []TypeOK` | inductive as it stands. It is more than types: tokens and the signals still to be sent do not go below zero, and a caller inside of submit has a current task |
| `MutualExclusion` | `Spec => []LockExclusive` | inductive together with `TypeOK`; `LockQuiet` disposes of the actions that touch neither the lock nor a critical section |
| `CapacityHolds` | `Spec => []CapacityRespected` | the strengthening `CapacityInv` |
| `OneOwner` | `Spec => []SoleOwner` | the strengthening `OwnInv` |
| `PromptSends` | `Spec => []SendsNeverWait` | from `OwnInv`: whoever is held waits |
| `RunsOnce` | `Spec => []ExactlyOnce` | the strengthening `TaskInv`, together with `OwnInv` |
| `RunningCounts` | `Spec => []RunningIsLive` | inductive: only a spawn adds a live worker, only a departure takes one away |
| `WaitingCounts`, `WaitersBounded` | `Spec => []WaitingExact`, `[]WaitingBounded` | inductive together: the bound needs that the count is exact, and so not negative |
| `TokensBounded` | `Spec => []NoStrayToken` | inductive: a token is issued to somebody who sleeps, and who wakes up takes one if there is any, even if a broadcast has woken it |
| `ClosedStaysEmpty` | `Spec => []ClosedQueueEmpty` | the strengthening `ReleaseInv` |
| `SomebodyClosesLatch` | `Spec => []LatchCloses` | the strengthening `ReleaseInv`, with `RunningIsLive` |
| `RingHasRoom` | `Spec => []NeverFull` | those in the queue wait, so they are live and not the worker that wants to get in; the live ones are as many as `running`, which is at most `Size` in a pool that is never tuned |
| `PoolRefines` | `Spec => ImplementsExecutor` | one step of the pool is one step of the executor or none, by `TaskInv` for what a step does to a task; that a task that starts finds room follows from an injection of the tasks that run into the live workers other than its own |

`LifecycleProofs`:

| theorem | statement | argument |
|---|---|---|
| `LifecycleTypes` | `Spec => []LifecycleTypeOK`, any controllers | inductive with `running` being the number of live workers and every list of background threads to stop being within its bounds |
| `OneOfAKind` | `Spec => []OneBackground`, under `Alone` | the inductive `LifecycleInv` (theorem `LifecycleInvariant`) |
| `OpenIsServed` | `Spec => []BackgroundServes`, under `Alone` | `LifecycleInv` |
| `OkMeansClean` | `Spec => CleanShutdown`, under `Alone` | `LifecycleInv`: the flags mean that the threads have ended, and `OnlyLate` carries the count of workers to the reads of the flags |
| `ReleasesAreClean` | `Spec => CleanShutdown`, under `ReleasesOnly` | the inductive `ReleaseInv`, for any number of threads that release at once |

`QueueProofs`:

| theorem | statement | argument |
|---|---|---|
| `QueueTypesCorrect` | `Spec => []QueueTypeOK` | the inductive `QueueInv` (theorem `QueueInvariant`) |
| `RingIsExact` | `Spec => []RingExact` | `QueueInv` |
| `RingRefines` | `Spec => RingImplementsQueue` | one lemma per operation says what it does to the sequence the ring stands for (`InsertEffect`, `DetachEffect`, `RefreshEffect`, `ResetEffect`); the search by `RingSearch` |
| `StackRefines` | `Spec => StackImplementsQueue` | the same, with `RefreshStackEffect` |

`ContextProofs` and `MultiPoolProofs`:

| theorem | statement | argument |
|---|---|---|
| `ContextTypes` | `Spec => []ContextTypeOK` | inductive as it stands |
| `CallsMissNothing`, `BoundedWaitLasts` | `Spec => []NothingMissed`, `[]NeverEarly` | the inductive `ContextInv` (theorem `ContextInvariant`) |
| `ContextRefines` | `Spec => ImplementsSignal` | `ContextInv`; `StepRefines` has one case per action: it answers, and rightly so, or shows nothing |
| `AcceptedFits` | what `NewCore` accepts satisfies what `PoolCoreAssumption` says of sizes and options | case by case; it ties the assumptions of the proofs about `PoolCore` to the constructor |
| `RotationIsFair` | `Spec => []RotationFair`, any controllers | the inductive `RotationInv` |
| `MultiPoolTypes` | `Spec => []MultiPoolTypeOK`, any controllers | inductive, with one part per actor |
| `PoolsDoAgree` | `Spec => []PoolsAgree`, under `Alone` | the inductive `AgreeInv` (theorem `AgreeInvariant`) |
| `NothingGetsIn` | `Spec => ClosedTakesNothing`, under `Alone` | `AgreeInv`: a multi-pool that is closed and not being released has closed pools only |
| `OkHasDrained` | `Spec => OkMeansDrained`, under `Alone` | `AgreeInv`, for the pools still waited for (`Draining`) |

Why `CapacityInv` is needed: `CapacityRespected` says only what `running` is, not
why a caller at `spawn` may raise it. `CapacityInv` adds that every capacity
stored, or read and not yet compared, or about to be stored by a tuner, was asked
for, and that a caller at `spawn` has seen `running` below one of them. The latter
survives other callers' steps because they would have to be in the critical
section too (`MutualExclusion`), and workers' steps because these only lower
`running`. An unlimited pool (`Size = -1`) makes the property trivially true.

Why `OwnInv` is needed: `SoleOwner` relates where a worker is held to whether it
waits, but does not say why a caller who gives a worker away had it. `OwnInv` adds
that a caller holds a worker just while it is about to send, that only a receiving
worker has a message and never two, and that the scavenger has emptied its list
before it scans again. With that, each transfer is one lemma (`OwnDetach`,
`OwnSpawn`, `OwnSend`, `OwnInsert`, `OwnScan`, `OwnFinish`, `OwnReset`), resting on
four lemmas about sequences without repetitions, and `OwnQuiet` disposes of the
rest. The spin lock does not appear: the actions that touch the queue are whole
critical sections, whose atomicity is the model's use of the lock.

Why `TaskInv` is needed: `ExactlyOnce` must know that the task a caller is about to
hand over is one that nobody has yet. `Called` says that a caller inside of submit
has its current task still "submitting" and its later ones untouched; `Carried` is
`ExactlyOnce` taken apart into who has a task and what is recorded of it. A task
cannot be overwritten in a channel because the channel of a worker in a caller's
hand is empty (`OwnInv`).

Why `ReleaseInv` is needed: both of its properties speak of `release()` past some
point, and rest on the pool being closed by then (`ClosedFirst`); with that, an
insertion is refused by the double check, and the last worker that recycles itself
closes the latch. That `running` does not become 0 otherwise, nor negative, is
`RunningIsLive`.

Why `ContextInv` is needed: `NothingMissed` and `NeverEarly` speak of answers only.
`ContextInv` says at each place inside of a call what is known there of the call's
beginning and of its limit: a thread past the flag of `err` was not called on a
cancelled context, one that sleeps until an instant will not be early at it.

Why `RotationInv` is needed: in a round of the rotation the pools before the cursor
have had one turn more than those after it, which `RotationFair` does not say. A
wrap of the cursor starts a new round anywhere, so that a pool may then get two
turns ahead, and one more with each wrap: `resets` counts them. `NextModulo` is
the arithmetic of it, from `Division` and `Multiples`, since the provers know
little of `%` with a variable divisor.

Why `LifecycleInv` is needed: `OneBackground` and `BackgroundServes` look at threads
that run. What keeps them right is where the controller is (`Where`): which contexts
it has still to cancel and which threads to wait for, that the pool is closed while
it does, and that every thread of an earlier generation either has ended or has been
told to (`Background`). `CleanShutdown` needs in addition that nobody is parked in a
closed pool once its queue was emptied (`NobodyParked`), and that between the count and
the return whoever is alive was spawned since (`OnlyLate`): only late callers start
workers while the pool is closed. With several threads that only
release, generations do not change and the first that closes the pool does the
work, so that `ReleaseInv` does with less. With a reboot among them the properties
are false, which `RebootRace` shows for one of them.

Why `AgreeInv` is needed: `PoolsAgree` holds between operations. `AgreeInv` says what
holds during one (`Agreeing`): which pools a release has closed already and which a
reboot has opened, and for a wait which pools are known to be empty. TLC finds each of
the three properties violated with two controllers; `Alone` cannot be dropped.

Why `QueueInv` is needed: `RingExact` does not say that head, tail and flag determine
the length, nor that what is queued is in order. `QueueInv` says so (`RingNow`,
`Sorted`), and that the clock has shown every instant up to now. The order is what a
binary search needs. Its recursive function is treated in `HalvingExists` and
`HalvingFinds`: on data of which the positions from `c` on are late, a function that
satisfies the recursion exists, since the closed form does, and every such function
finds `c - 1`, since a smallest span with another answer would contain a smaller one.
`Remainder`, `SlotIs`, `InWindow`, `Placed` and `SlotSum` are the arithmetic of slots.
In the pool itself the order does not always hold, because the clock that stamps is a
cached one (`Unsorted`); what the theorems say then is that nothing else is wrong.

`PoolCoreAssumption` says: finite sets of callers and workers that do not overlap,
a size that is positive or -1, positive if pre-allocated (the constructor refuses
anything else, which is `AcceptedFits`), integer sizes to tune to, any integer for
`max_blocking_tasks`, channels of one slot or none, and that the marker values are
none of the others. `LoopQueueAssumption` asks for a positive size, which `LoopQueue::new`
checks, and instants that are positive. `LifecycleAssumption`, `ContextAssumption`,
`MultiPoolAssumption` and `WorkerQueueAssumption` give constants their types, and
`LifecycleAssumption` makes the set of workers finite.

Only model-checked: all liveness (`SubmitReturns`, `AcceptedRuns`,
`ReleaseFreesWaiters`, `PoolDrains`, `RebootReturns`, `ReleaseReturns`,
`ServedWhileOpen`, `ControlReturns`, `CancelWakes`, `TimeEnds`), since TLAPS 1.4.5 does not
handle fairness; and the comparison of `Construct` with its reference definitions,
since the fold over a list of options needs induction over data.

## 5. Not modelled

* `golog.rs`: formatting and output under a mutex of its own.
* `gotime.rs`: arithmetic on nanoseconds and the text of a duration. Deadlines and
  saturating differences are in `Context`, the cached clock in `Expiry`.
* Pure reads: `running`, `free`, `cap`, `waiting` of a pool, their sums and look-ups
  by index of a multi-pool. Two of them have numeric edges, listed as hazards: `free`
  of a pool that was tuned down is negative, and the sum of default capacities
  overflows.
* The default pool beyond its construction: every other function forwards. Two
  first uses that race are left to `OnceLock`.
* The panic handler and the logger among the options; a panic handler that panics;
  a thread that cannot be spawned, which panics with the lock held; payloads that
  submit to their own pool. They need a model of unwinding or of payloads that do
  something, and are listed as hazards.
* Two controllers at a time in the runs of `Lifecycle` and `MultiPool`.
* The inside of `Cond`: its inner mutex is the atomicity of its actions, its OS wait
  set is left out since spurious wake-ups lead back into the loop that looks at
  tokens and generation. The inside of the latch, which is built the same way, is
  in `Context`.
* `LEAST_TASKS` on several pools while their workers change is part of `MultiPool`;
  that it counts idle workers as load is a divergence noted above, without a
  property.

## 6. Plan

Done, in this order: `PoolCore` with its abstract specification, runs and first
proofs; the queues; `Expiry`; `Lifecycle`; `MultiPool`; `Context` with its proofs;
`Construct` and the whole of `MultiPool`; the counters, the end of a pool and the
refinement of `BoundedExecutor` proved; the safety of `Lifecycle`, of `MultiPool` and
of the queues, with both refinements of `IdleQueue`, proved.

Next in the proofs:

1. Two controllers in `MultiPool`: what still holds when both only release.
2. The steps that the liveness properties rest on (what a fair step does and what
   keeps it possible), as action properties.

Next in the model:

1. Two controllers in `Lifecycle`: what still holds.
2. A panic handler that panics, a spawn that fails.
3. `Cond` and `SpinLock` opened up (inner mutex, wait set, back-off), shown to
   implement the atomic operators of `PoolCore`.
