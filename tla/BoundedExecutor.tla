--------------------------- MODULE BoundedExecutor ---------------------------
(***************************************************************************)
(* What a pool promises to the callers of submit, without a word on how:   *)
(* a submission is accepted or refused, once; it is refused only if the    *)
(* pool has been closed or is allowed to refuse work under load; one that  *)
(* begins after the pool has been closed is refused at once; what has been *)
(* accepted is executed at most once, and only that is; and no more tasks  *)
(* execute at a time than the largest size the pool was ever given.        *)
(***************************************************************************)
EXTENDS Integers, FiniteSets

CONSTANTS
  Tasks,      \* the submissions
  Sizes,      \* the sizes given to the pool, -1 for unlimited
  MayRefuse   \* whether an open pool may refuse work

VARIABLES
  phase,   \* what has become of each task
  closed   \* the pool has been closed

execVars == <<phase, closed>>

ExecTypeOK ==
  /\ phase \in [Tasks -> {"unsubmitted", "submitting", "accepted", "rejected",
                          "executing", "executed"}]
  /\ closed \in BOOLEAN

ExecInit ==
  /\ phase = [t \in Tasks |-> "unsubmitted"]
  /\ closed = FALSE

Move(t, from, to) ==
  /\ phase[t] = from
  /\ phase' = [phase EXCEPT ![t] = to]
  /\ UNCHANGED closed

Executing == {t \in Tasks : phase[t] = "executing"}

Submit(t) == ~closed /\ Move(t, "unsubmitted", "submitting")
Accept(t) == Move(t, "submitting", "accepted")
Refuse(t) == (closed \/ MayRefuse) /\ Move(t, "submitting", "rejected")
RefuseAtOnce(t) == closed /\ Move(t, "unsubmitted", "rejected")
Start(t) ==
  /\ \E n \in Sizes : n = -1 \/ Cardinality(Executing) < n
  /\ Move(t, "accepted", "executing")
Complete(t) == Move(t, "executing", "executed")
Close == ~closed /\ closed' = TRUE /\ UNCHANGED phase

ExecNext ==
  \/ \E t \in Tasks :
       \/ Submit(t) \/ Accept(t) \/ Refuse(t) \/ RefuseAtOnce(t)
       \/ Start(t) \/ Complete(t)
  \/ Close

ExecSpec == ExecInit /\ [][ExecNext]_execVars

=============================================================================
