------------------------------ MODULE IdleQueue ------------------------------
(***************************************************************************)
(* What a pool expects of the container of its idle workers: it hands out  *)
(* the longest or the shortest idle one, refuses a worker only when it is  *)
(* full, gives up exactly the workers that have expired, and forgets none. *)
(***************************************************************************)
EXTENDS Integers, Sequences, SequencesExt

CONSTANTS
  Workers,   \* what is queued
  Times,     \* when a worker was used last
  Fifo,      \* hand out the worker that was queued first, or last
  Limit      \* most workers it holds, -1 when unlimited

VARIABLES
  idle,   \* the queued workers, with the time each was used last
  out     \* what the last operation returned, and for which expiry time

queueVars == <<idle, out>>

Entry == [who : Workers, at : Times]
Returned(s, expiry) ==
  [full |-> FALSE, got |-> {s[i].who : i \in DOMAIN s}, expiry |-> expiry]

QueueTypeOK ==
  /\ idle \in Seq(Entry)
  /\ out \in [full : BOOLEAN, got : SUBSET Workers, expiry : Times \cup {0}]

QueueInit ==
  /\ idle = <<>>
  /\ out = Returned(<<>>, 0)

Full == Limit # -1 /\ Len(idle) >= Limit

Insert(w, t) ==
  \/ /\ ~Full
     /\ idle' = Append(idle, [who |-> w, at |-> t])
     /\ out' = Returned(<<>>, 0)
  \/ /\ Full
     /\ out' = [full |-> TRUE, got |-> {}, expiry |-> 0]
     /\ UNCHANGED idle

Detach ==
  \/ /\ idle = <<>>
     /\ out' = Returned(<<>>, 0)
     /\ UNCHANGED idle
  \/ /\ idle # <<>>
     /\ out' = Returned(<<IF Fifo THEN Head(idle) ELSE Last(idle)>>, 0)
     /\ idle' = IF Fifo THEN Tail(idle) ELSE Front(idle)

(* The first n are those that have expired, and all of those. *)
Refresh(expiry) ==
  \E n \in 0..Len(idle) :
    /\ \A i \in DOMAIN idle : idle[i].at <= expiry <=> i <= n
    /\ out' = Returned(SubSeq(idle, 1, n), expiry)
    /\ idle' = SubSeq(idle, n + 1, Len(idle))

Reset ==
  /\ out' = Returned(idle, 0)
  /\ idle' = <<>>

QueueNext ==
  \/ \E w \in Workers, t \in Times : Insert(w, t)
  \/ Detach
  \/ \E expiry \in Times \cup {0} : Refresh(expiry)
  \/ Reset

QueueSpec == QueueInit /\ [][QueueNext]_queueVars

=============================================================================
