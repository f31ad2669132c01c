----------------------------- MODULE DoneSignal -----------------------------
(***************************************************************************)
(* What a context promises to the threads that ask it or wait on it,       *)
(* whatever its clock, its lock and its condition variable do: it becomes  *)
(* done for good, a thread is told so only then, and a thread that waits   *)
(* without a limit of its own gets no other answer.                        *)
(***************************************************************************)
CONSTANT Threads

VARIABLES
  cancelled,  \* it has been cancelled
  expired,    \* its deadline has passed
  phase       \* what each thread is asking, or the answer to its last call

Questions == {"wait", "bounded", "ask"}
Answers == {"none", "done", "live", "canceled", "exceeded"}

signal == <<cancelled, expired, phase>>

SignalInit ==
  /\ cancelled = FALSE
  /\ expired \in BOOLEAN
  /\ phase = [t \in Threads |-> "none"]

Cancelled == cancelled' = TRUE /\ UNCHANGED <<expired, phase>>
Expires == expired' = TRUE /\ UNCHANGED <<cancelled, phase>>

Asks(t) ==
  /\ phase[t] \in Answers
  /\ \E q \in Questions : phase' = [phase EXCEPT ![t] = q]
  /\ UNCHANGED <<cancelled, expired>>

(* What may be answered to each question.                                  *)
MayAnswer(q, a) ==
  \/ q \in {"wait", "bounded"} /\ a = "done" /\ (cancelled \/ expired)
  \/ q \in {"bounded", "ask"} /\ a = "live"
  \/ q = "ask" /\ a = "canceled" /\ cancelled
  \/ q = "ask" /\ a = "exceeded" /\ expired

IsAnswered(t) ==
  /\ \E a \in Answers :
       MayAnswer(phase[t], a) /\ phase' = [phase EXCEPT ![t] = a]
  /\ UNCHANGED <<cancelled, expired>>

SignalNext ==
  Cancelled \/ Expires \/ \E t \in Threads : Asks(t) \/ IsAnswered(t)

SignalSpec == SignalInit /\ [][SignalNext]_signal

=============================================================================
