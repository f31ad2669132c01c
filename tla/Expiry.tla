-------------------------------- MODULE Expiry --------------------------------
(***************************************************************************)
(* How idle workers get their last-use time and how the scavenger judges   *)
(* it: a worker is stamped with the pool's cached clock before it contends *)
(* for the lock under which it is parked, the cached clock is set by the   *)
(* ticktock thread, and the scavenger compares with the true clock.        *)
(***************************************************************************)
EXTENDS WorkerStack

CONSTANTS
  ExpiryDuration,   \* Options::expiry_duration, in ticks of the clock
  MaxTime           \* bound: the clock stops here

VARIABLES
  time,    \* the system's clock
  now,     \* PoolCore::now
  where,   \* what each worker is doing
  stamp    \* GoWorker::last_used

vars == <<items, out, time, now, where, stamp>>

Init ==
  /\ StackInit
  /\ time = 1
  /\ now = 1
  /\ where = [w \in Workers |-> "busy"]
  /\ stamp = [w \in Workers |-> 0]

TimePasses ==
  /\ time < MaxTime
  /\ time' = time + 1
  /\ UNCHANGED <<items, out, now, where, stamp>>

Ticktock ==
  /\ now' = time
  /\ UNCHANGED <<items, out, time, where, stamp>>

(* revert_worker up to the lock, for a worker the pool wants to keep. *)
Stamp(w) ==
  /\ where[w] = "busy"
  /\ stamp' = [stamp EXCEPT ![w] = now]
  /\ where' = [where EXCEPT ![w] = "stamped"]
  /\ UNCHANGED <<items, out, time, now>>

(* The rest of revert_worker, under the lock. *)
Park(w) ==
  /\ where[w] = "stamped"
  /\ Push(w, stamp[w])
  /\ where' = [where EXCEPT ![w] = "idle"]
  /\ UNCHANGED <<time, now, stamp>>

(* retrieve_worker: a caller takes a worker. *)
Retrieve ==
  /\ items # <<>>
  /\ Pop
  /\ where' = [where EXCEPT ![Last(items).who] = "busy"]
  /\ UNCHANGED <<time, now, stamp>>

(* purge_stale_workers: the expired ones are told to finish. *)
Purge ==
  /\ RefreshStack(time - ExpiryDuration)
  /\ where' = [w \in Workers |-> IF w \in out'.got THEN "gone" ELSE where[w]]
  /\ UNCHANGED <<time, now, stamp>>

Next ==
  \/ TimePasses \/ Ticktock \/ Retrieve \/ Purge
  \/ \E w \in Workers : Stamp(w) \/ Park(w)

Spec == Init /\ [][Next]_vars

(* refresh() removes every worker that has expired, and no other, because  *)
(* the queue is sorted by last-use time.                                   *)
RefreshFindsExpired ==
  [][Purge => out'.got = {items[i].who :
                            i \in {j \in DOMAIN items :
                                     items[j].at <= time - ExpiryDuration}}]_vars

=============================================================================
