----------------------------- MODULE WorkerQueue -----------------------------
(***************************************************************************)
(* The pool's idle queue behind its trait: the factory's choice between    *)
(* the ring and the stack, and every sequence of operations a pool may     *)
(* call, on workers stamped by one clock in the order they are inserted.   *)
(***************************************************************************)
EXTENDS LoopQueue

CONSTANTS
  QueueTypes,   \* queue types the factory is asked for
  LoopType      \* QueueType::LOOP_QUEUE

(* The clock starts at 1. *)
ASSUME WorkerQueueAssumption == 1 \in Times

VARIABLES
  queueType,   \* which implementation was built
  items,       \* the stack; the ring is LoopQueue's
  clock        \* the time workers are stamped with

vars == <<queueType, ringVars, items, out, clock>>

Stack == INSTANCE WorkerStack

IsLoop == queueType = LoopType

(* A worker is parked once at a time. *)
Parked == IF IsLoop THEN {e.who : e \in {slots[i] : i \in Occupied}}
          ELSE {items[i].who : i \in DOMAIN items}

(* new_worker_queue: any type it does not know gives a stack. *)
Init ==
  /\ queueType \in QueueTypes
  /\ LoopInit
  /\ Stack!StackInit
  /\ clock = 1

QueueInsert ==
  /\ \E w \in Workers \ Parked :
       \/ IsLoop /\ Insert(w, clock) /\ UNCHANGED items
       \/ ~IsLoop /\ Stack!Push(w, clock) /\ UNCHANGED ringVars
  /\ UNCHANGED <<queueType, clock>>

QueueDetach ==
  /\ \/ IsLoop /\ Detach /\ UNCHANGED items
     \/ ~IsLoop /\ Stack!Pop /\ UNCHANGED ringVars
  /\ UNCHANGED <<queueType, clock>>

(* The expiry time is the time now less the expiry duration. *)
QueueRefresh ==
  /\ \E expiry \in 0..clock :
       \/ IsLoop /\ Refresh(expiry) /\ UNCHANGED items
       \/ ~IsLoop /\ Stack!RefreshStack(expiry) /\ UNCHANGED ringVars
  /\ UNCHANGED <<queueType, clock>>

QueueReset ==
  /\ \/ IsLoop /\ Reset /\ UNCHANGED items
     \/ ~IsLoop /\ Stack!ResetStack /\ UNCHANGED ringVars
  /\ UNCHANGED <<queueType, clock>>

(* ticktock: the pool's clock advances. *)
Tick ==
  /\ clock + 1 \in Times
  /\ clock' = clock + 1
  /\ UNCHANGED <<queueType, ringVars, items, out>>

Next == QueueInsert \/ QueueDetach \/ QueueRefresh \/ QueueReset \/ Tick

Spec == Init /\ [][Next]_vars

-----------------------------------------------------------------------------
QueueTypeOK ==
  /\ queueType \in QueueTypes
  /\ LoopTypeOK
  /\ Stack!StackTypeOK
  /\ clock \in Times

(* Each implementation, as the abstract queue sees it; the one that was    *)
(* not built stays empty and returns nothing.                              *)
Nothing == [full |-> FALSE, got |-> {}, expiry |-> 0]

RingQueue == INSTANCE IdleQueue
  WITH idle <- Idle, Fifo <- TRUE, Limit <- Size,
       out <- IF IsLoop THEN out ELSE Nothing

StackQueue == INSTANCE IdleQueue
  WITH idle <- items, Fifo <- FALSE, Limit <- -1,
       out <- IF IsLoop THEN Nothing ELSE out

(* The ring behaves as a bounded first-in-first-out queue whatever the     *)
(* sequence of operations and wherever its contents wrap: what it hands    *)
(* out, whom it refuses, and exactly whom refresh() finds expired.         *)
RingImplementsQueue == RingQueue!QueueSpec

(* The stack behaves as a last-in-first-out queue without a limit.         *)
StackImplementsQueue == StackQueue!QueueSpec

(* len(), computed from head, tail and the flag, is the number of          *)
(* occupied slots, and they are the ones from the head on: nobody is left  *)
(* behind in a slot the ring takes for empty.                              *)
RingExact == {i \in Index : slots[i] # None} = Occupied

=============================================================================
