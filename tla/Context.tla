------------------------------- MODULE Context -------------------------------
(***************************************************************************)
(* A context and the event latch below it, used by any number of threads:  *)
(* wait(), wait_done_for() and err() against cancel() and a deadline.  The *)
(* latch is a flag under a mutex with a condition variable, whose sleepers *)
(* may wake up without a reason.                                           *)
(*                                                                         *)
(* A critical section of the mutex is one step, unless it ends in a sleep: *)
(* then the mutex is held from the look at the flag to the sleep, and time *)
(* may pass in between.  Every look at the clock is a step of its own.     *)
(***************************************************************************)
EXTENDS Integers, FiniteSets

CONSTANTS
  Threads,     \* threads that ask the context or wait on it
  Lifetimes,   \* what with_timeout() may be given, None for no deadline
  Timeouts,    \* what wait_done_for() may be given
  MaxCalls,    \* bound: calls per thread
  Horizon,     \* bound: the last instant; what is due later is due then
  None         \* nobody, no deadline

ASSUME ContextAssumption ==
  /\ Horizon \in Nat
  /\ Lifetimes \subseteq Nat \cup {None}
  /\ Timeouts \subseteq Nat
  /\ MaxCalls \in Nat
  /\ None \notin Nat /\ None \notin Threads

VARIABLES
  now,       \* Instant::now()
  deadline,  \* Inner::deadline
  closed,    \* Event::closed, the flag of Inner::cancelled
  holder,    \* who holds the flag's mutex, other than for a moment
  asleep,    \* the sleepers on Event::changed that nobody has notified
  pc,        \* where each thread is
  call,      \* what it has called
  left,      \* a Duration it has computed: how long it still waits
  until,     \* an Instant it has computed: when it stops waiting
  result,    \* what its last call returned
  calls,
  begun      \* history: what was true when its call began, and its limit

latchVars == <<closed, holder, asleep>>
callVars == <<call, calls, begun>>
vars == <<now, deadline, latchVars, pc, left, until, result, callVars>>

Instants == 0..Horizon

ContextTypeOK ==
  /\ now \in Instants
  /\ deadline \in Instants \cup {None}
  /\ closed \in BOOLEAN
  /\ holder \in Threads \cup {None}
  /\ asleep \subseteq Threads
  /\ pc \in [Threads -> {"idle", "flag", "clock", "measure", "arm", "test",
                         "sleep", "asleep"}]
  /\ call \in [Threads -> {"wait", "bounded", "ask"}]
  /\ left \in [Threads -> Nat \cup {None}]
  /\ until \in [Threads -> Instants \cup {None}]
  /\ result \in [Threads -> {"none", "done", "live", "canceled", "exceeded"}]
  /\ calls \in [Threads -> 0..MaxCalls]
  /\ begun \in [Threads -> [limit : Instants,
                          was : {"live", "canceled", "exceeded"}]]

(* Instant arithmetic, within the horizon.                                 *)
After(d) == IF now + d < Horizon THEN now + d ELSE Horizon
Due(instant) == instant # None /\ now >= instant
Until(instant) == IF now >= instant THEN 0 ELSE instant - now

(* background(), with_cancel() and with_timeout().                         *)
Init ==
  /\ now = 0
  /\ deadline \in {IF d = None THEN None ELSE After(d) : d \in Lifetimes}
  /\ closed = FALSE
  /\ holder = None
  /\ asleep = {}
  /\ pc = [t \in Threads |-> "idle"]
  /\ call = [t \in Threads |-> "ask"]
  /\ left = [t \in Threads |-> 0]
  /\ until = [t \in Threads |-> None]
  /\ result = [t \in Threads |-> "none"]
  /\ calls = [t \in Threads |-> 0]
  /\ begun = [t \in Threads |-> [limit |-> 0, was |-> "live"]]

PastDeadline == Due(deadline)

Goto(t, l) == pc' = [pc EXCEPT ![t] = l]

Return(t, r) ==
  /\ Goto(t, "idle")
  /\ result' = [result EXCEPT ![t] = r]
  /\ left' = [left EXCEPT ![t] = 0]
  /\ until' = [until EXCEPT ![t] = None]

Continue(t, l) == Goto(t, l) /\ UNCHANGED <<result, left, until>>

-----------------------------------------------------------------------------
(* cancel(): Event::close.                                                 *)

(* Mutant: the flag is set without its mutex. *)
CloseUnlocked ==
  /\ closed' = TRUE
  /\ asleep' = IF closed THEN asleep ELSE {}
  /\ UNCHANGED <<now, deadline, holder, pc, left, until, result, callVars>>

Close ==
  /\ holder = None
  /\ closed' = TRUE
  /\ asleep' = IF closed THEN asleep ELSE {}
  /\ UNCHANGED <<now, deadline, holder, pc, left, until, result, callVars>>

-----------------------------------------------------------------------------
(* The calls begin.                                                        *)

Begin(t, c, d) ==
  /\ pc[t] = "idle"
  /\ calls[t] < MaxCalls
  /\ calls' = [calls EXCEPT ![t] = @ + 1]
  /\ call' = [call EXCEPT ![t] = c]
  /\ begun' = [begun EXCEPT ![t] = 
               [limit |-> IF c = "bounded" THEN After(d) ELSE 0,
                was |-> IF closed THEN "canceled"
                        ELSE IF PastDeadline THEN "exceeded" ELSE "live"]]
  /\ result' = [result EXCEPT ![t] = "none"]
  /\ UNCHANGED <<now, deadline, latchVars, until>>

(* err(), and is_done(), and every round of wait() start with the flag ... *)
Err(t) == Begin(t, "ask", 0) /\ Goto(t, "flag") /\ UNCHANGED left
Wait(t) == Begin(t, "wait", 0) /\ Goto(t, "flag") /\ UNCHANGED left

(* Mutant: the time that is left to the deadline is not looked at. *)
WaitDoneForHalf(t) ==
  \E d \in Timeouts :
    /\ Begin(t, "bounded", d)
    /\ left' = [left EXCEPT ![t] = d \div 2]
    /\ Goto(t, "arm")

(* ... while wait_done_for() starts with the smaller of the time left to   *)
(* the deadline and its timeout.                                           *)
WaitDoneFor(t) ==
  \E d \in Timeouts :
    /\ Begin(t, "bounded", d)
    /\ left' = [left EXCEPT ![t] =
                  IF deadline # None /\ Until(deadline) < d
                    THEN Until(deadline) ELSE d]
    /\ Goto(t, "arm")

-----------------------------------------------------------------------------
(* is_done() and err(): the flag, then the clock.                          *)

LookAtFlag(t) ==
  /\ pc[t] = "flag"
  /\ holder = None
  /\ \/ closed /\ Return(t, IF call[t] = "ask" THEN "canceled" ELSE "done")
     \/ ~closed /\ Continue(t, "clock")
  /\ UNCHANGED <<now, deadline, latchVars, callVars>>

LookAtClock(t) ==
  /\ pc[t] = "clock"
  /\ \/ /\ PastDeadline
        /\ Return(t, IF call[t] = "ask" THEN "exceeded" ELSE "done")
     \/ /\ ~PastDeadline
        /\ IF call[t] = "wait"
             THEN Continue(t, "measure")
             ELSE Return(t, "live")
  /\ UNCHANGED <<now, deadline, latchVars, callVars>>

(* Mutant: wait() has forgotten the deadline. *)
MeasureNothing(t) ==
  /\ pc[t] = "measure"
  /\ left' = [left EXCEPT ![t] = None]
  /\ Goto(t, "arm")
  /\ UNCHANGED <<now, deadline, latchVars, until, result, callVars>>

(* wait(): until the deadline, or without a limit.                         *)
Measure(t) ==
  /\ pc[t] = "measure"
  /\ left' = [left EXCEPT ![t] =
                IF deadline = None THEN None ELSE Until(deadline)]
  /\ Goto(t, "arm")
  /\ UNCHANGED <<now, deadline, latchVars, until, result, callVars>>

-----------------------------------------------------------------------------
(* Event::wait, and Event::wait_timeout, which computes its own deadline.  *)

Arm(t) ==
  /\ pc[t] = "arm"
  /\ until' = [until EXCEPT ![t] =
                 IF left[t] = None THEN None ELSE After(left[t])]
  /\ Goto(t, "test")
  /\ UNCHANGED <<now, deadline, latchVars, left, result, callVars>>

(* Ready to sleep: the flag's mutex is kept until then.                    *)
Settle(t) ==
  /\ ~closed
  /\ ~Due(until[t])
  /\ holder' = t
  /\ left' = [left EXCEPT ![t] =
                IF until[t] = None THEN None ELSE until[t] - now]
  /\ Goto(t, "sleep")
  /\ UNCHANGED <<result, until>>

(* Mutant: a wait that has timed out reports what it waited for. *)
TestSaysClosed(t) ==
  /\ pc[t] = "test"
  /\ holder = None
  /\ \/ (closed \/ Due(until[t])) /\ Return(t, "done") /\ UNCHANGED holder
     \/ Settle(t)
  /\ UNCHANGED <<now, deadline, closed, asleep, callVars>>

(* Mutant: wait_done_for() reports what the latch says, not the context. *)
TestSaysOpen(t) ==
  /\ pc[t] = "test"
  /\ holder = None
  /\ \/ closed /\ Return(t, "done") /\ UNCHANGED holder
     \/ /\ ~closed /\ Due(until[t])
        /\ IF call[t] = "bounded" THEN Return(t, "live") ELSE Continue(t, "flag")
        /\ UNCHANGED holder
     \/ Settle(t)
  /\ UNCHANGED <<now, deadline, closed, asleep, callVars>>

(* The head of the loop.  A wait that has timed out asks is_done() again.  *)
Test(t) ==
  /\ pc[t] = "test"
  /\ holder = None
  /\ \/ closed /\ Return(t, "done") /\ UNCHANGED holder
     \/ ~closed /\ Due(until[t]) /\ Continue(t, "flag") /\ UNCHANGED holder
     \/ Settle(t)
  /\ UNCHANGED <<now, deadline, closed, asleep, callVars>>

(* Condvar::wait and wait_timeout: give the mutex up and fall asleep.      *)
Sleep(t) ==
  /\ pc[t] = "sleep"
  /\ holder' = None
  /\ asleep' = asleep \cup {t}
  /\ left' = [left EXCEPT ![t] = IF @ = None THEN None ELSE After(@)]
  /\ Goto(t, "asleep")
  /\ UNCHANGED <<now, deadline, closed, until, result, callVars>>

(* A sleeper's left is the instant at which it wakes up by itself.         *)
Awake(t) ==
  /\ pc[t] = "asleep"
  /\ asleep' = asleep \ {t}
  /\ Goto(t, "test")
  /\ UNCHANGED <<now, deadline, closed, holder, left, until, result, callVars>>

WakeUp(t) == (t \notin asleep \/ Due(left[t])) /\ Awake(t)
WakeForNoReason(t) == t \in asleep /\ ~Due(left[t]) /\ Awake(t)

-----------------------------------------------------------------------------
Tick ==
  /\ now < Horizon
  /\ now' = now + 1
  /\ UNCHANGED <<deadline, latchVars, pc, left, until, result, callVars>>

Call(t) == Err(t) \/ Wait(t) \/ WaitDoneFor(t)

Step(t) ==
  \/ LookAtFlag(t) \/ LookAtClock(t) \/ Measure(t) \/ Arm(t) \/ Test(t)
  \/ Sleep(t) \/ WakeUp(t)

Next ==
  \/ Close
  \/ Tick
  \/ \E t \in Threads : Call(t) \/ Step(t) \/ WakeForNoReason(t)

Spec == Init /\ [][Next]_vars

(* Threads inside of a call keep running, and one that wants the mutex gets *)
(* it: it is only ever held for a few instructions.  Time need not pass.   *)
Fairness ==
  \A t \in Threads :
    WF_vars(Step(t)) /\ SF_vars(LookAtFlag(t)) /\ SF_vars(Test(t))

FairSpec == Spec /\ Fairness

-----------------------------------------------------------------------------
(* Properties.                                                             *)

Answered(t) == pc[t] = "idle" /\ result[t] # "none"

(* The context keeps what DoneSignal promises: nobody is told that it is   *)
(* done before it is, and wait() gives no other answer, however the looks  *)
(* at the flag and at the clock fall among cancel(), the deadline and      *)
(* sleepers that wake up for no reason.                                    *)
Signal ==
  INSTANCE DoneSignal
    WITH cancelled <- closed,
         expired <- PastDeadline,
         phase <- [t \in Threads |-> IF pc[t] = "idle" THEN result[t]
                                                        ELSE call[t]]
ImplementsSignal == Signal!SignalSpec

(* What was already so when a call began is not missed: a context done by  *)
(* then is not reported live, and one cancelled by then is reported        *)
(* cancelled by err(), even past its deadline.                             *)
NothingMissed ==
  \A t \in Threads : Answered(t) =>
    /\ begun[t].was # "live" => result[t] # "live"
    /\ begun[t].was = "canceled" => result[t] \in {"canceled", "done"}

(* wait_done_for() does not give up early: it reports a live context only  *)
(* once its timeout is over, whoever woke it up meanwhile.                 *)
NeverEarly ==
  \A t \in Threads : Answered(t) /\ call[t] = "bounded" /\ result[t] = "live" =>
    now >= begun[t].limit

(* cancel() ends every call at once: no fairness of the clock is assumed,  *)
(* so a sleeper the cancellation slipped past would sleep on.              *)
CancelWakes ==
  \A t \in Threads : closed /\ pc[t] # "idle" ~> pc[t] = "idle"

(* Time ends a call that has a limit, its own or the context's deadline,   *)
(* also when nobody ever cancels.                                          *)
TimeEnds ==
  \A t \in Threads :
    now = Horizon /\ pc[t] # "idle" /\ (call[t] = "bounded" \/ deadline # None)
      ~> pc[t] = "idle"

=============================================================================
