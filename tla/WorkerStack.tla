----------------------------- MODULE WorkerStack -----------------------------
(***************************************************************************)
(* The stack that an ordinary pool keeps its idle workers in, operation by *)
(* operation.  The code counts from 0, TLA+ sequences from 1.              *)
(***************************************************************************)
EXTENDS Integers, Sequences, SequencesExt

CONSTANTS
  Workers,
  Times    \* instants a worker can be stamped with

VARIABLES
  items,   \* WorkerStack::items
  out      \* what the last operation returned, and for which expiry time

StackEntry == [who : Workers, at : Times]
Handed(s, expiry) ==
  [full |-> FALSE, got |-> {s[i].who : i \in DOMAIN s}, expiry |-> expiry]

StackTypeOK ==
  /\ items \in Seq(StackEntry)
  /\ out \in [full : BOOLEAN, got : SUBSET Workers, expiry : Times \cup {0}]

StackInit ==
  /\ items = <<>>
  /\ out = Handed(<<>>, 0)

Push(w, t) ==
  /\ items' = Append(items, [who |-> w, at |-> t])
  /\ out' = Handed(<<>>, 0)

Pop ==
  \/ /\ items = <<>>
     /\ out' = Handed(<<>>, 0)
     /\ UNCHANGED items
  \/ /\ items # <<>>
     /\ out' = Handed(<<Last(items)>>, 0)
     /\ items' = Front(items)

(* Mutant: workers that expire right now are kept. *)
BinarySearchStrict(left, right, expiry) ==
  LET search[l \in left..(right + 1), r \in (left - 1)..right] ==
        IF l > r THEN r
        ELSE LET mid == l + (r - l) \div 2
             IN  IF expiry <= items[mid + 1].at THEN search[l, mid - 1]
                 ELSE search[mid + 1, r]
  IN  search[left, right]

(* The index of the last worker in left..right that has expired. *)
BinarySearch(left, right, expiry) ==
  LET search[span \in (left..(right + 1)) \X ((left - 1)..right)] ==
        LET l == span[1]
            r == span[2]
            mid == l + (r - l) \div 2
        IN  IF l > r THEN r
            ELSE IF expiry < items[mid + 1].at THEN search[<<l, mid - 1>>]
            ELSE search[<<mid + 1, r>>]
  IN  search[<<left, right>>]

RefreshStack(expiry) ==
  LET index == IF items = <<>> THEN -1
               ELSE BinarySearch(0, Len(items) - 1, expiry)
  IN  /\ out' = Handed(SubSeq(items, 1, index + 1), expiry)
      /\ items' = SubSeq(items, index + 2, Len(items))

ResetStack ==
  /\ out' = Handed(items, 0)
  /\ items' = <<>>

=============================================================================
