------------------------------ MODULE LoopQueue ------------------------------
(***************************************************************************)
(* The ring buffer of a pre-allocated pool, operation by operation.  Slots *)
(* are numbered from 0 as in the code; head = tail means full or empty,    *)
(* and a flag tells which.                                                 *)
(***************************************************************************)
EXTENDS Integers, Sequences

CONSTANTS
  Workers,
  Times,    \* instants a worker can be stamped with; 0 is before any of them
  Size,     \* slots
  None      \* an empty slot

ASSUME LoopQueueAssumption ==
  /\ Size \in Nat \ {0}
  /\ Times \subseteq Nat \ {0}
  /\ None \notin [who : Workers, at : Times]

VARIABLES
  slots,    \* LoopQueue::items
  head,
  tail,
  isFull,
  out       \* what the last operation returned, and for which expiry time

ringVars == <<slots, head, tail, isFull>>

Index == 0..(Size - 1)
Entry == [who : Workers, at : Times]
Returned(got, expiry) == [full |-> FALSE, got |-> got, expiry |-> expiry]
QueueIsFull == [full |-> TRUE, got |-> {}, expiry |-> 0]

LoopTypeOK ==
  /\ slots \in [Index -> Entry \cup {None}]
  /\ head \in Index
  /\ tail \in Index
  /\ isFull \in BOOLEAN
  /\ out \in [full : BOOLEAN, got : SUBSET Workers, expiry : Times \cup {0}]

LoopInit ==
  /\ slots = [i \in Index |-> None]
  /\ head = 0
  /\ tail = 0
  /\ isFull = FALSE
  /\ out = Returned({}, 0)

IsEmpty == head = tail /\ ~isFull

Length ==
  IF IsEmpty THEN 0
  ELSE IF head = tail THEN Size
  ELSE IF tail > head THEN tail - head
  ELSE Size - head + tail

Occupied == {(head + k) % Size : k \in 0..(Length - 1)}

(* The worker in a slot, if there is one. *)
Occupant(i) == IF slots[i] = None THEN {} ELSE {slots[i].who}
LastUsed(i) == IF slots[i] = None THEN 0 ELSE slots[i].at

(* Mutant: the tail does not wrap. *)
InsertUnwrapped(w, t) ==
  /\ ~isFull
  /\ slots' = [slots EXCEPT ![tail] = [who |-> w, at |-> t]]
  /\ tail' = tail + 1
  /\ isFull' = (tail' = head)
  /\ out' = Returned({}, 0)
  /\ UNCHANGED head

Insert(w, t) ==
  \/ /\ isFull
     /\ out' = QueueIsFull
     /\ UNCHANGED ringVars
  \/ /\ ~isFull
     /\ slots' = [slots EXCEPT ![tail] = [who |-> w, at |-> t]]
     /\ tail' = (tail + 1) % Size
     /\ isFull' = (tail' = head)
     /\ out' = Returned({}, 0)
     /\ UNCHANGED head

(* Mutant: a ring that was full stays marked as full. *)
DetachStuck ==
  /\ ~IsEmpty
  /\ out' = Returned(Occupant(head), 0)
  /\ slots' = [slots EXCEPT ![head] = None]
  /\ head' = (head + 1) % Size
  /\ UNCHANGED <<tail, isFull>>

Detach ==
  \/ /\ IsEmpty
     /\ out' = Returned({}, 0)
     /\ UNCHANGED ringVars
  \/ /\ ~IsEmpty
     /\ out' = Returned(Occupant(head), 0)
     /\ slots' = [slots EXCEPT ![head] = None]
     /\ head' = (head + 1) % Size
     /\ isFull' = FALSE
     /\ UNCHANGED tail

(* Mutant: the search runs over true positions, as in the stack. *)
BinarySearchUnmapped(expiry) ==
  IF IsEmpty \/ expiry < LastUsed(head) THEN -1
  ELSE LET search[l \in 0..Size, r \in -1..(Size - 1)] ==
             IF l > r THEN r
             ELSE LET mid == l + (r - l) \div 2
                  IN  IF expiry < LastUsed(mid) THEN search[l, mid - 1]
                      ELSE search[mid + 1, r]
       IN  search[0, Size - 1]

(* The last expired position of left..right.  Positions are mapped so that *)
(* the head is 0.                                                          *)
Search(left, right, expiry) ==
  LET search[span \in (left..(right + 1)) \X ((left - 1)..right)] ==
        LET l == span[1]
            r == span[2]
            mid == l + (r - l) \div 2
        IN  IF l > r THEN r
            ELSE IF expiry < LastUsed((mid + head) % Size)
                   THEN search[<<l, mid - 1>>]
                   ELSE search[<<mid + 1, r>>]
  IN  search[<<left, right>>]

(* The true index of the last expired worker: the answer, mapped back.     *)
BinarySearch(expiry) ==
  IF IsEmpty \/ expiry < LastUsed(head) THEN -1
  ELSE (Search(0, (tail + Size - 1 - head) % Size, expiry) + head + Size) % Size

(* The slots from the head to index, which may wrap. *)
UpTo(index) ==
  IF head <= index THEN head..index ELSE (0..index) \cup (head..(Size - 1))

Refresh(expiry) ==
  LET index == BinarySearch(expiry)
      expired == UNION {Occupant(i) : i \in UpTo(index)}
  IN  \/ /\ index = -1
         /\ out' = Returned({}, expiry)
         /\ UNCHANGED ringVars
      \/ /\ index # -1
         /\ out' = Returned(expired, expiry)
         /\ slots' = [i \in Index |->
                        IF i \in UpTo(index) THEN None ELSE slots[i]]
         /\ head' = (index + 1) % Size
         /\ isFull' = (isFull /\ expired = {})
         /\ UNCHANGED tail

(* Every worker is detached and finished; an empty ring is left alone.     *)
Reset ==
  /\ out' = Returned(UNION {Occupant(i) : i \in Occupied}, 0)
  /\ slots' = [i \in Index |-> IF i \in Occupied THEN None ELSE slots[i]]
  /\ isFull' = FALSE
  /\ IF IsEmpty THEN UNCHANGED <<head, tail>> ELSE head' = 0 /\ tail' = 0

-----------------------------------------------------------------------------
(* The queue that the ring stands for. *)
Idle == [k \in 1..Length |-> slots[(head + k - 1) % Size]]

=============================================================================
