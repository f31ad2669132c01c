---------------------------- MODULE ContextProofs ----------------------------
(***************************************************************************)
(* Whatever the number of threads, the deadline and the timeouts: the      *)
(* types of Context, what its calls may answer, and that it implements     *)
(* DoneSignal.                                                             *)
(***************************************************************************)
EXTENDS Context, TLAPS

(* A call of each kind is only ever at places that belong to it.           *)
Places ==
  \A t \in Threads :
    /\ pc[t] \in {"measure", "arm", "test", "sleep", "asleep"} => call[t] # "ask"
    /\ pc[t] = "measure" => call[t] = "wait"

(* A context that was done when the call began still is, and a cancelled   *)
(* one leaves no call on its way to the clock or to sleep.                 *)
StillDone ==
  \A t \in Threads : pc[t] # "idle" =>
    /\ begun[t].was = "canceled" => closed /\ pc[t] \in {"flag", "arm", "test"}
    /\ begun[t].was = "exceeded" => PastDeadline

(* The instant i is past the limit of t's call, or past the deadline.      *)
LateEnough(t, i) == i >= begun[t].limit \/ (deadline # None /\ i >= deadline)

(* What a bounded wait is heading for is late enough.                      *)
Heading ==
  \A t \in Threads : call[t] = "bounded" =>
    /\ pc[t] = "arm" => left[t] # None /\ LateEnough(t, After(left[t]))
    /\ pc[t] \in {"test", "sleep", "asleep"} =>
         until[t] # None /\ LateEnough(t, until[t])
    /\ pc[t] \in {"flag", "clock"} => LateEnough(t, now)

ContextInv ==
  ContextTypeOK /\ Places /\ StillDone /\ Heading /\ NothingMissed /\ NeverEarly

-----------------------------------------------------------------------------
(* Instants stay within the horizon, and only grow with the clock.         *)
LEMMA AfterInstant ==
  ASSUME ContextTypeOK, NEW d \in Nat
  PROVE  After(d) \in Instants
  BY ContextAssumption DEF After, ContextTypeOK, Instants

LEMMA UntilNat ==
  ASSUME ContextTypeOK, NEW i \in Instants
  PROVE  Until(i) \in Nat
  BY ContextAssumption DEF Until, ContextTypeOK, Instants

LEMMA AfterUntil ==
  ASSUME ContextTypeOK, NEW i \in Instants
  PROVE  After(Until(i)) >= i
  BY ContextAssumption DEF After, Until, ContextTypeOK, Instants

(* The initial states have the types of the variables and satisfy the rest.*)
LEMMA InitInv == Init => ContextInv
<1> SUFFICES ASSUME Init PROVE ContextInv
  OBVIOUS
<1>1. now \in Instants
  BY ContextAssumption DEF Init, Instants
<1>2. deadline \in Instants \cup {None}
  BY ContextAssumption DEF Init, Instants, After
<1>3. ContextTypeOK
  <2>1. begun \in [Threads -> [limit : Instants,
                               was : {"live", "canceled", "exceeded"}]]
    BY ContextAssumption DEF Init, Instants
  <2>2. calls \in [Threads -> 0..MaxCalls]
    BY ContextAssumption DEF Init
  <2>3. pc \in [Threads -> {"idle", "flag", "clock", "measure", "arm", "test",
                            "sleep", "asleep"}]
    BY DEF Init
  <2>4. left \in [Threads -> Nat \cup {None}]
    BY DEF Init
  <2> QED
    BY <1>1, <1>2, <2>1, <2>2, <2>3, <2>4 DEF Init, ContextTypeOK
<1>4. Places /\ StillDone
  BY DEF Init, Places, StillDone
<1>5. Heading
  BY DEF Init, Heading
<1>6. NothingMissed /\ NeverEarly
  BY DEF Init, NothingMissed, NeverEarly, Answered
<1> QED
  BY <1>3, <1>4, <1>5, <1>6 DEF ContextInv

(* The types, where most steps change only these. *)
CallTypes ==
  /\ call \in [Threads -> {"wait", "bounded", "ask"}]
  /\ calls \in [Threads -> 0..MaxCalls]
  /\ begun \in [Threads -> [limit : Instants,
                            was : {"live", "canceled", "exceeded"}]]

PathTypes ==
  /\ pc \in [Threads -> {"idle", "flag", "clock", "measure", "arm", "test",
                         "sleep", "asleep"}]
  /\ left \in [Threads -> Nat \cup {None}]
  /\ until \in [Threads -> Instants \cup {None}]
  /\ result \in [Threads -> {"none", "done", "live", "canceled", "exceeded"}]

WorldTypes ==
  /\ now \in Instants
  /\ deadline \in Instants \cup {None}
  /\ closed \in BOOLEAN
  /\ holder \in Threads \cup {None}
  /\ asleep \subseteq Threads

LEMMA TypesSplit == ContextTypeOK <=> CallTypes /\ PathTypes /\ WorldTypes
  BY DEF ContextTypeOK, CallTypes, PathTypes, WorldTypes

(* A call that begins.                                                     *)
LEMMA BeginTypes ==
  ASSUME ContextTypeOK, NEW t \in Threads, NEW c \in {"wait", "bounded", "ask"},
         NEW d \in Nat, Begin(t, c, d)
  PROVE  CallTypes' /\ WorldTypes'
<1> DEFINE limit == IF c = "bounded" THEN After(d) ELSE 0
           was == IF closed THEN "canceled"
                  ELSE IF PastDeadline THEN "exceeded" ELSE "live"
<1>1. limit \in Instants
  BY AfterInstant, ContextAssumption DEF Instants
<1>2. was \in {"live", "canceled", "exceeded"}
  OBVIOUS
<1>3. begun' = [begun EXCEPT ![t] = [limit |-> limit, was |-> was]]
  BY DEF Begin
<1> HIDE DEF limit, was
<1>4. begun' \in [Threads -> [limit : Instants,
                             was : {"live", "canceled", "exceeded"}]]
  BY <1>1, <1>2, <1>3 DEF ContextTypeOK
<1>5. call' \in [Threads -> {"wait", "bounded", "ask"}]
  BY DEF Begin, ContextTypeOK
<1>6. calls' \in [Threads -> 0..MaxCalls]
  BY ContextAssumption DEF Begin, ContextTypeOK
<1>7. WorldTypes'
  BY DEF Begin, ContextTypeOK, WorldTypes, latchVars
<1> QED
  BY <1>4, <1>5, <1>6, <1>7 DEF CallTypes

(* Where a step sends a thread, and how a call ends.                       *)
LEMMA GotoTypes ==
  ASSUME ContextTypeOK, NEW t \in Threads,
         NEW l \in {"idle", "flag", "clock", "measure", "arm", "test", "sleep",
                   "asleep"},
         Goto(t, l)
  PROVE  pc' \in [Threads -> {"idle", "flag", "clock", "measure", "arm", "test",
                             "sleep", "asleep"}]
  BY DEF Goto, ContextTypeOK

LEMMA ReturnTypes ==
  ASSUME ContextTypeOK, NEW t \in Threads,
         NEW r \in {"none", "done", "live", "canceled", "exceeded"},
         Return(t, r)
  PROVE  PathTypes'
  BY GotoTypes DEF Return, ContextTypeOK, PathTypes

LEMMA ContinueTypes ==
  ASSUME ContextTypeOK, NEW t \in Threads, NEW l \in {"flag", "clock", "measure"},
         Continue(t, l)
  PROVE  PathTypes'
  BY GotoTypes DEF Continue, ContextTypeOK, PathTypes

(* Every step keeps the types.                                             *)
LEMMA TypeStep ==
  ASSUME ContextTypeOK, [Next]_vars
  PROVE  ContextTypeOK'
<1> SUFFICES CallTypes' /\ PathTypes' /\ WorldTypes'
  BY DEF ContextTypeOK, CallTypes, PathTypes, WorldTypes
<1>0. CallTypes /\ PathTypes /\ WorldTypes
  BY TypesSplit
<1>1. CASE Close
  BY <1>0, <1>1 DEF Close, CallTypes, PathTypes, WorldTypes, callVars
<1>2. CASE Tick
  <2>1. now' \in Instants
    BY <1>0, <1>2, ContextAssumption DEF Tick, Instants, WorldTypes
  <2> QED
    BY <1>0, <1>2, <2>1
    DEF Tick, CallTypes, PathTypes, WorldTypes, callVars, latchVars
<1>3. ASSUME NEW t \in Threads, Err(t) \/ Wait(t)
      PROVE  CallTypes' /\ PathTypes' /\ WorldTypes'
  <2>1. PICK c \in {"wait", "ask"} :
          Begin(t, c, 0) /\ Goto(t, "flag") /\ UNCHANGED left
    BY <1>3 DEF Err, Wait
  <2>2. CallTypes' /\ WorldTypes'
    BY <2>1, BeginTypes
  <2>3. PathTypes'
    BY <2>1, GotoTypes DEF Begin, ContextTypeOK, PathTypes
  <2> QED
    BY <2>2, <2>3
<1>4. ASSUME NEW t \in Threads, WaitDoneFor(t)
      PROVE  CallTypes' /\ PathTypes' /\ WorldTypes'
  <2>1. PICK d \in Timeouts :
          /\ Begin(t, "bounded", d)
          /\ left' = [left EXCEPT ![t] =
                        IF deadline # None /\ Until(deadline) < d
                          THEN Until(deadline) ELSE d]
          /\ Goto(t, "arm")
    BY <1>4 DEF WaitDoneFor
  <2>2. d \in Nat
    BY ContextAssumption
  <2>3. CallTypes' /\ WorldTypes'
    BY <2>1, <2>2, BeginTypes
  <2>4. (IF deadline # None /\ Until(deadline) < d THEN Until(deadline) ELSE d)
          \in Nat
    BY <2>2, UntilNat DEF ContextTypeOK
  <2>5. left' \in [Threads -> Nat \cup {None}]
    BY <2>1, <2>4 DEF ContextTypeOK
  <2>6. PathTypes'
    BY <2>1, <2>5, GotoTypes DEF Begin, ContextTypeOK, PathTypes
  <2> QED
    BY <2>3, <2>6
<1>5. ASSUME NEW t \in Threads, LookAtFlag(t)
      PROVE  CallTypes' /\ PathTypes' /\ WorldTypes'
  <2>1. PathTypes'
    BY <1>5, ReturnTypes, ContinueTypes DEF LookAtFlag
  <2> QED
    BY <1>0, <1>5, <2>1
    DEF LookAtFlag, CallTypes, WorldTypes, callVars, latchVars
<1>6. ASSUME NEW t \in Threads, LookAtClock(t)
      PROVE  CallTypes' /\ PathTypes' /\ WorldTypes'
  <2>1. PathTypes'
    BY <1>6, ReturnTypes, ContinueTypes DEF LookAtClock
  <2> QED
    BY <1>0, <1>6, <2>1
    DEF LookAtClock, CallTypes, WorldTypes, callVars, latchVars
<1>7. ASSUME NEW t \in Threads, Measure(t)
      PROVE  CallTypes' /\ PathTypes' /\ WorldTypes'
  <2>1. (IF deadline = None THEN None ELSE Until(deadline)) \in Nat \cup {None}
    BY UntilNat DEF ContextTypeOK
  <2>2. left' \in [Threads -> Nat \cup {None}]
    BY <1>7, <2>1 DEF Measure, ContextTypeOK
  <2>3. PathTypes'
    BY <1>7, <2>2, GotoTypes DEF Measure, ContextTypeOK, PathTypes
  <2> QED
    BY <1>0, <1>7, <2>3
    DEF Measure, CallTypes, WorldTypes, callVars, latchVars
<1>8. ASSUME NEW t \in Threads, Arm(t)
      PROVE  CallTypes' /\ PathTypes' /\ WorldTypes'
  <2>1. (IF left[t] = None THEN None ELSE After(left[t])) \in Instants \cup {None}
    BY AfterInstant DEF ContextTypeOK
  <2>2. until' \in [Threads -> Instants \cup {None}]
    BY <1>8, <2>1 DEF Arm, ContextTypeOK
  <2>3. PathTypes'
    BY <1>8, <2>2, GotoTypes DEF Arm, ContextTypeOK, PathTypes
  <2> QED
    BY <1>0, <1>8, <2>3 DEF Arm, CallTypes, WorldTypes, callVars, latchVars
<1>9. ASSUME NEW t \in Threads, Test(t)
      PROVE  CallTypes' /\ PathTypes' /\ WorldTypes'
  <2>1. CASE Settle(t)
    <3>1. (IF until[t] = None THEN None ELSE until[t] - now) \in Nat \cup {None}
      BY <2>1 DEF Settle, Due, ContextTypeOK, Instants
    <3>2. left' \in [Threads -> Nat \cup {None}]
      BY <2>1, <3>1 DEF Settle, ContextTypeOK
    <3>3. PathTypes'
      BY <2>1, <3>2, GotoTypes DEF Settle, ContextTypeOK, PathTypes
    <3> QED
      BY <1>0, <1>9, <2>1, <3>3 DEF Test, Settle, CallTypes, WorldTypes, callVars
  <2>2. CASE ~Settle(t)
    <3>1. PathTypes' /\ UNCHANGED holder
      BY <1>9, <2>2, ReturnTypes, ContinueTypes DEF Test
    <3> QED
      BY <1>0, <1>9, <3>1 DEF Test, CallTypes, WorldTypes, callVars
  <2> QED
    BY <2>1, <2>2
<1>10. ASSUME NEW t \in Threads, Sleep(t)
       PROVE  CallTypes' /\ PathTypes' /\ WorldTypes'
  <2>1. (IF left[t] = None THEN None ELSE After(left[t])) \in Nat \cup {None}
    BY AfterInstant DEF ContextTypeOK, Instants
  <2>2. left' \in [Threads -> Nat \cup {None}]
    BY <1>10, <2>1 DEF Sleep, ContextTypeOK
  <2>3. PathTypes'
    BY <1>10, <2>2, GotoTypes DEF Sleep, ContextTypeOK, PathTypes
  <2> QED
    BY <1>0, <1>10, <2>3 DEF Sleep, CallTypes, WorldTypes, callVars
<1>11. ASSUME NEW t \in Threads, WakeUp(t) \/ WakeForNoReason(t)
       PROVE  CallTypes' /\ PathTypes' /\ WorldTypes'
  <2>1. Awake(t)
    BY <1>11 DEF WakeUp, WakeForNoReason
  <2>2. PathTypes'
    BY <2>1, GotoTypes DEF Awake, ContextTypeOK, PathTypes
  <2> QED
    BY <1>0, <2>1, <2>2 DEF Awake, CallTypes, WorldTypes, callVars
<1>12. CASE UNCHANGED vars
  BY <1>0, <1>12 DEF vars, latchVars, callVars, CallTypes, PathTypes, WorldTypes
<1> QED
  BY <1>1, <1>2, <1>3, <1>4, <1>5, <1>6, <1>7, <1>8, <1>9, <1>10, <1>11, <1>12
  DEF Next, Call, Step

(* Every variable keeps to its type: the deadline and what the threads     *)
(* compute from it stay instants, and no time left is negative.            *)
THEOREM ContextTypes == Spec => []ContextTypeOK
<1>1. Init => ContextTypeOK
  BY InitInv DEF ContextInv
<1>2. ContextTypeOK /\ [Next]_vars => ContextTypeOK'
  BY TypeStep
<1> QED
  BY <1>1, <1>2, PTL DEF Spec

-----------------------------------------------------------------------------
(* What the invariant says of one thread.                                  *)
Fine(t) ==
  /\ pc[t] \in {"measure", "arm", "test", "sleep", "asleep"} => call[t] # "ask"
  /\ pc[t] = "measure" => call[t] = "wait"
  /\ pc[t] # "idle" =>
       /\ begun[t].was = "canceled" => closed /\ pc[t] \in {"flag", "arm", "test"}
       /\ begun[t].was = "exceeded" => PastDeadline
  /\ call[t] = "bounded" =>
       /\ pc[t] = "arm" => left[t] # None /\ LateEnough(t, After(left[t]))
       /\ pc[t] \in {"test", "sleep", "asleep"} =>
            until[t] # None /\ LateEnough(t, until[t])
       /\ pc[t] \in {"flag", "clock"} => LateEnough(t, now)
  /\ Answered(t) =>
       /\ begun[t].was # "live" => result[t] # "live"
       /\ begun[t].was = "canceled" => result[t] \in {"canceled", "done"}
       /\ call[t] = "bounded" /\ result[t] = "live" => now >= begun[t].limit

LEMMA FineAll == ContextInv <=> ContextTypeOK /\ \A t \in Threads : Fine(t)
<1>1. Places /\ StillDone /\ Heading /\ NothingMissed /\ NeverEarly
        <=> \A t \in Threads : Fine(t)
  BY DEF Places, StillDone, Heading, NothingMissed, NeverEarly, Fine
<1> QED
  BY <1>1 DEF ContextInv

(* A step in which time does not go back and a closed latch   *)
(* stays closed, is fine for a thread it leaves alone.                     *)
LEMMA Untouched ==
  ASSUME ContextTypeOK, ContextTypeOK', NEW s \in Threads, Fine(s),
         pc'[s] = pc[s], call'[s] = call[s], left'[s] = left[s],
         until'[s] = until[s], result'[s] = result[s], begun'[s] = begun[s],
         now' >= now, deadline' = deadline, closed => closed'
  PROVE  Fine(s)'
<1> USE DEF ContextTypeOK, Instants
<1>1. PastDeadline => PastDeadline'
  BY ContextAssumption DEF PastDeadline, Due
<1>2. ASSUME NEW i \in Instants, LateEnough(s, i)
      PROVE  LateEnough(s, i)'
  BY <1>2 DEF LateEnough
<1>3. LateEnough(s, now) => LateEnough(s, now)'
  BY ContextAssumption DEF LateEnough
<1>4. left[s] # None /\ LateEnough(s, After(left[s]))
        => LateEnough(s, After(left[s]))'
  BY ContextAssumption DEF LateEnough, After
<1>5. until[s] # None /\ LateEnough(s, until[s]) => LateEnough(s, until[s])'
  BY ContextAssumption DEF LateEnough
<1>6. Answered(s)' <=> Answered(s)
  BY DEF Answered
<1>7. now >= begun[s].limit => now' >= begun'[s].limit
  BY ContextAssumption
<1> QED
  BY <1>1, <1>3, <1>4, <1>5, <1>6, <1>7 DEF Fine

(* A call that begins: it finds the context as it is.                      *)
LEMMA BeginFine ==
  ASSUME ContextTypeOK, ContextTypeOK', NEW t \in Threads,
         NEW c \in {"wait", "bounded", "ask"}, NEW d \in Nat, Begin(t, c, d)
  PROVE  /\ call'[t] = c
         /\ begun'[t].limit = IF c = "bounded" THEN After(d) ELSE 0
         /\ begun'[t].was = "canceled" => closed'
         /\ begun'[t].was = "exceeded" => PastDeadline'
  BY DEF Begin, ContextTypeOK, latchVars, PastDeadline, Due

LEMMA AskFine ==
  ASSUME ContextTypeOK, ContextTypeOK', NEW t \in Threads, Err(t) \/ Wait(t)
  PROVE  Fine(t)'
<1>1. PICK c \in {"wait", "ask"} : Begin(t, c, 0) /\ Goto(t, "flag")
  BY DEF Err, Wait
<1>2. pc'[t] = "flag"
  BY <1>1 DEF Goto, ContextTypeOK
<1>3. /\ call'[t] # "bounded"
      /\ begun'[t].was = "canceled" => closed'
      /\ begun'[t].was = "exceeded" => PastDeadline'
  BY <1>1, BeginFine
<1> QED
  BY <1>2, <1>3 DEF Fine, Answered

LEMMA WaitDoneForFine ==
  ASSUME ContextTypeOK, ContextTypeOK', NEW t \in Threads, WaitDoneFor(t)
  PROVE  Fine(t)'
<1>1. PICK d \in Timeouts :
        /\ Begin(t, "bounded", d)
        /\ left' = [left EXCEPT ![t] =
                      IF deadline # None /\ Until(deadline) < d
                        THEN Until(deadline) ELSE d]
        /\ Goto(t, "arm")
  BY DEF WaitDoneFor
<1>2. d \in Nat
  BY ContextAssumption
<1>3. /\ call'[t] = "bounded"
      /\ begun'[t].limit = After(d)
      /\ begun'[t].was = "canceled" => closed'
      /\ begun'[t].was = "exceeded" => PastDeadline'
  BY <1>1, <1>2, BeginFine
<1>4. pc'[t] = "arm"
  BY <1>1 DEF Goto, ContextTypeOK
<1>5. now' = now /\ deadline' = deadline
  BY <1>1 DEF Begin
<1>6. CASE deadline # None /\ Until(deadline) < d
  <2>1. left'[t] = Until(deadline)
    BY <1>1, <1>6 DEF ContextTypeOK
  <2>2. After(Until(deadline)) >= deadline
    BY <1>6, AfterUntil DEF ContextTypeOK
  <2>3. left'[t] # None
    BY <1>6, <2>1, UntilNat, ContextAssumption DEF ContextTypeOK
  <2>4. LateEnough(t, After(left[t]))'
    BY <1>5, <1>6, <2>1, <2>2 DEF LateEnough, After
  <2> QED
    BY <1>3, <1>4, <2>3, <2>4 DEF Fine, Answered
<1>7. CASE ~(deadline # None /\ Until(deadline) < d)
  <2>1. left'[t] = d
    BY <1>1, <1>7 DEF ContextTypeOK
  <2>2. After(d) >= After(d)
    BY <1>2, AfterInstant DEF Instants
  <2>3. LateEnough(t, After(left[t]))'
    BY <1>3, <1>5, <2>1, <2>2 DEF LateEnough, After
  <2> QED
    BY <1>2, <1>3, <1>4, <2>1, <2>3, ContextAssumption DEF Fine, Answered
<1> QED
  BY <1>6, <1>7

LEMMA LookAtFlagFine ==
  ASSUME ContextTypeOK, ContextTypeOK', NEW t \in Threads, Fine(t), LookAtFlag(t)
  PROVE  Fine(t)'
<1>1. /\ UNCHANGED <<now, deadline, closed>>
      /\ call'[t] = call[t] /\ begun'[t] = begun[t]
  BY DEF LookAtFlag, latchVars, callVars
<1>2. pc[t] = "flag"
  BY DEF LookAtFlag
<1>3. CASE closed
  <2>1. /\ pc'[t] = "idle"
        /\ result'[t] = IF call[t] = "ask" THEN "canceled" ELSE "done"
    BY <1>3 DEF LookAtFlag, Return, Goto, ContextTypeOK
  <2> QED
    BY <1>1, <2>1 DEF Fine, Answered
<1>4. CASE ~closed
  <2>1. pc'[t] = "clock"
    BY <1>4 DEF LookAtFlag, Continue, Goto, ContextTypeOK
  <2>2. call[t] = "bounded" => LateEnough(t, now)'
    BY <1>1, <1>2 DEF Fine, LateEnough
  <2>3. begun[t].was # "canceled" /\ (begun[t].was = "exceeded" => PastDeadline')
    BY <1>1, <1>2, <1>4 DEF Fine, PastDeadline, Due
  <2> QED
    BY <1>1, <2>1, <2>2, <2>3 DEF Fine, Answered
<1> QED
  BY <1>3, <1>4

LEMMA LookAtClockFine ==
  ASSUME ContextTypeOK, ContextTypeOK', NEW t \in Threads, Fine(t), LookAtClock(t)
  PROVE  Fine(t)'
<1>1. /\ UNCHANGED <<now, deadline, closed>>
      /\ call'[t] = call[t] /\ begun'[t] = begun[t]
  BY DEF LookAtClock, latchVars, callVars
<1>2. pc[t] = "clock" /\ begun[t].was # "canceled"
  BY DEF LookAtClock, Fine
<1>3. CASE PastDeadline
  <2>1. /\ pc'[t] = "idle"
        /\ result'[t] = IF call[t] = "ask" THEN "exceeded" ELSE "done"
    BY <1>3 DEF LookAtClock, Return, Goto, ContextTypeOK
  <2> QED
    BY <1>1, <1>2, <2>1 DEF Fine, Answered
<1>4. CASE ~PastDeadline /\ call[t] = "wait"
  <2>1. pc'[t] = "measure"
    BY <1>4 DEF LookAtClock, Continue, Goto, ContextTypeOK
  <2>2. begun[t].was # "exceeded"
    BY <1>2, <1>4 DEF Fine
  <2> QED
    BY <1>1, <1>2, <1>4, <2>1, <2>2 DEF Fine, Answered
<1>5. CASE ~PastDeadline /\ call[t] # "wait"
  <2>1. pc'[t] = "idle" /\ result'[t] = "live"
    BY <1>5 DEF LookAtClock, Return, Goto, ContextTypeOK
  <2>2. begun[t].was = "live"
    BY <1>2, <1>5 DEF Fine, ContextTypeOK
  <2>3. call[t] = "bounded" => now >= begun[t].limit
    BY <1>2, <1>5 DEF Fine, LateEnough, PastDeadline, Due
  <2> QED
    BY <1>1, <2>1, <2>2, <2>3 DEF Fine, Answered
<1> QED
  BY <1>3, <1>4, <1>5

LEMMA MeasureFine ==
  ASSUME ContextTypeOK, ContextTypeOK', NEW t \in Threads, Fine(t), Measure(t)
  PROVE  Fine(t)'
<1>1. /\ UNCHANGED <<now, deadline, closed>>
      /\ call'[t] = call[t] /\ begun'[t] = begun[t]
  BY DEF Measure, latchVars, callVars
<1>2. pc[t] = "measure" /\ call[t] = "wait" /\ begun[t].was # "canceled"
  BY DEF Measure, Fine
<1>3. pc'[t] = "arm"
  BY DEF Measure, Goto, ContextTypeOK
<1>4. begun[t].was = "exceeded" => PastDeadline'
  BY <1>1, <1>2 DEF Fine, PastDeadline, Due
<1> QED
  BY <1>1, <1>2, <1>3, <1>4 DEF Fine, Answered

LEMMA ArmFine ==
  ASSUME ContextTypeOK, ContextTypeOK', NEW t \in Threads, Fine(t), Arm(t)
  PROVE  Fine(t)'
<1>1. /\ UNCHANGED <<now, deadline, closed>>
      /\ call'[t] = call[t] /\ begun'[t] = begun[t]
  BY DEF Arm, latchVars, callVars
<1>2. pc[t] = "arm" /\ pc'[t] = "test"
  BY DEF Arm, Goto, ContextTypeOK
<1>3. until'[t] = IF left[t] = None THEN None ELSE After(left[t])
  BY DEF Arm, ContextTypeOK
<1>4. call[t] = "bounded" => until'[t] # None /\ LateEnough(t, until[t])'
  <2> SUFFICES ASSUME call[t] = "bounded"
               PROVE  until'[t] # None /\ LateEnough(t, until[t])'
    OBVIOUS
  <2>1. left[t] # None /\ LateEnough(t, After(left[t]))
    BY <1>2 DEF Fine
  <2>2. After(left[t]) \in Nat
    BY <2>1, AfterInstant DEF ContextTypeOK, Instants
  <2> QED
    BY <1>1, <1>3, <2>1, <2>2, ContextAssumption DEF LateEnough
<1>5. /\ begun[t].was = "exceeded" => PastDeadline'
      /\ begun[t].was = "canceled" => closed'
      /\ call[t] # "ask"
  BY <1>1, <1>2 DEF Fine, PastDeadline, Due
<1> QED
  BY <1>1, <1>2, <1>4, <1>5 DEF Fine, Answered

LEMMA TestFine ==
  ASSUME ContextTypeOK, ContextTypeOK', NEW t \in Threads, Fine(t), Test(t)
  PROVE  Fine(t)'
<1>1. /\ UNCHANGED <<now, deadline, closed>>
      /\ call'[t] = call[t] /\ begun'[t] = begun[t]
  BY DEF Test, callVars
<1>2. pc[t] = "test" /\ call[t] # "ask"
  BY DEF Test, Fine
<1>3. CASE closed
  <2>1. pc'[t] = "idle" /\ result'[t] = "done"
    BY <1>3 DEF Test, Settle, Return, Goto, ContextTypeOK
  <2> QED
    BY <1>1, <2>1 DEF Fine, Answered
<1>4. CASE ~closed /\ Due(until[t])
  <2>1. pc'[t] = "flag"
    BY <1>4 DEF Test, Settle, Continue, Goto, ContextTypeOK
  <2>2. call[t] = "bounded" => LateEnough(t, now)'
    <3>1. call[t] = "bounded" => until[t] # None /\ LateEnough(t, until[t])
      BY <1>2 DEF Fine
    <3> QED
      BY <1>1, <1>4, <3>1, ContextAssumption
      DEF LateEnough, Due, ContextTypeOK, Instants
  <2>3. begun[t].was # "canceled" /\ (begun[t].was = "exceeded" => PastDeadline')
    BY <1>1, <1>2, <1>4 DEF Fine, PastDeadline, Due
  <2> QED
    BY <1>1, <2>1, <2>2, <2>3 DEF Fine, Answered
<1>5. CASE ~closed /\ ~Due(until[t])
  <2>1. pc'[t] = "sleep" /\ until'[t] = until[t]
    BY <1>5 DEF Test, Settle, Continue, Goto, ContextTypeOK
  <2>2. call[t] = "bounded" => until'[t] # None /\ LateEnough(t, until[t])'
    BY <1>1, <1>2, <2>1 DEF Fine, LateEnough
  <2>3. begun[t].was # "canceled" /\ (begun[t].was = "exceeded" => PastDeadline')
    BY <1>1, <1>2, <1>5 DEF Fine, PastDeadline, Due
  <2> QED
    BY <1>1, <1>2, <2>1, <2>2, <2>3 DEF Fine, Answered
<1> QED
  BY <1>3, <1>4, <1>5

LEMMA SleepFine ==
  ASSUME ContextTypeOK, ContextTypeOK', NEW t \in Threads, Fine(t),
         Sleep(t) \/ Awake(t)
  PROVE  Fine(t)'
<1>1. /\ UNCHANGED <<now, deadline, closed, until>>
      /\ call'[t] = call[t] /\ begun'[t] = begun[t]
  BY DEF Sleep, Awake, callVars
<1>2. pc[t] \in {"sleep", "asleep"} /\ pc'[t] \in {"asleep", "test"}
  BY DEF Sleep, Awake, Goto, ContextTypeOK
<1>3. call[t] # "ask"
  BY <1>2 DEF Fine
<1>4. call[t] = "bounded" => until'[t] # None /\ LateEnough(t, until[t])'
  BY <1>1, <1>2 DEF Fine, LateEnough
<1>5. begun[t].was # "canceled" /\ (begun[t].was = "exceeded" => PastDeadline')
  BY <1>1, <1>2 DEF Fine, PastDeadline, Due
<1> QED
  BY <1>1, <1>2, <1>3, <1>4, <1>5 DEF Fine, Answered

(* A step of t's calls changes nothing of another thread, and only the     *)
(* clock and cancel() change the context.                                  *)
LEMMA StepTouches ==
  ASSUME ContextTypeOK, NEW t \in Threads,
         Call(t) \/ Step(t) \/ WakeForNoReason(t)
  PROVE  /\ UNCHANGED <<now, deadline, closed>>
         /\ \A s \in Threads \ {t} :
              /\ pc'[s] = pc[s] /\ call'[s] = call[s] /\ left'[s] = left[s]
              /\ until'[s] = until[s] /\ result'[s] = result[s]
              /\ begun'[s] = begun[s]
<1> USE DEF ContextTypeOK, Goto, Return, Continue, latchVars, callVars
<1>1. CASE Call(t)
  BY <1>1 DEF Call, Err, Wait, WaitDoneFor, Begin
<1>2. CASE LookAtFlag(t) \/ LookAtClock(t)
  BY <1>2 DEF LookAtFlag, LookAtClock
<1>3. CASE Measure(t) \/ Arm(t)
  BY <1>3 DEF Measure, Arm
<1>4. CASE Test(t)
  BY <1>4 DEF Test, Settle
<1>5. CASE Sleep(t) \/ WakeUp(t) \/ WakeForNoReason(t)
  BY <1>5 DEF Sleep, WakeUp, WakeForNoReason, Awake
<1> QED
  BY <1>1, <1>2, <1>3, <1>4, <1>5 DEF Step

(* The invariant is kept.                                                  *)
LEMMA InvStep ==
  ASSUME ContextInv, [Next]_vars
  PROVE  ContextInv'
<1>1. ContextTypeOK /\ \A s \in Threads : Fine(s)
  BY FineAll
<1>2. ContextTypeOK'
  BY <1>1, TypeStep
<1>3. ASSUME NEW s \in Threads PROVE Fine(s)'
  <2>1. CASE Close
    BY <1>1, <1>2, <2>1, Untouched
    DEF Close, callVars, ContextTypeOK, Instants
  <2>2. CASE Tick
    BY <1>1, <1>2, <2>2, Untouched
    DEF Tick, callVars, latchVars, ContextTypeOK, Instants
  <2>3. ASSUME NEW t \in Threads, Call(t) \/ Step(t) \/ WakeForNoReason(t)
        PROVE  Fine(s)'
    <3>1. CASE s = t
      <4>1. CASE Call(t)
        BY <1>1, <1>2, <3>1, <4>1, AskFine, WaitDoneForFine DEF Call
      <4>2. CASE Step(t)
        BY <1>1, <1>2, <3>1, <4>2, LookAtFlagFine, LookAtClockFine, MeasureFine,
           ArmFine, TestFine, SleepFine
        DEF Step, WakeUp
      <4>3. CASE WakeForNoReason(t)
        BY <1>1, <1>2, <3>1, <4>3, SleepFine DEF WakeForNoReason
      <4> QED
        BY <2>3, <4>1, <4>2, <4>3
    <3>2. CASE s # t
      BY <1>1, <1>2, <2>3, <3>2, StepTouches, Untouched
      DEF ContextTypeOK, Instants
    <3> QED
      BY <3>1, <3>2
  <2>4. CASE UNCHANGED vars
    BY <1>1, <1>2, <2>4, Untouched
    DEF vars, callVars, latchVars, ContextTypeOK, Instants
  <2> QED
    BY <2>1, <2>2, <2>3, <2>4 DEF Next
<1>4. ContextTypeOK' /\ \A s \in Threads : Fine(s)'
  BY <1>2, <1>3
<1>5. (Places /\ StillDone /\ Heading /\ NothingMissed /\ NeverEarly)'
  BY <1>3 DEF Places, StillDone, Heading, NothingMissed, NeverEarly, Fine
<1> QED
  BY <1>4, <1>5 DEF ContextInv

(* The strengthening from which the theorems below follow.                 *)
THEOREM ContextInvariant == Spec => []ContextInv
<1>1. Init => ContextInv
  BY InitInv
<1>2. ContextInv /\ [Next]_vars => ContextInv'
  BY InvStep
<1> QED
  BY <1>1, <1>2, PTL DEF Spec

(* No call of wait(), wait_done_for(), is_done() or err() misses what was  *)
(* already so when it began.                                               *)
THEOREM CallsMissNothing == Spec => []NothingMissed
<1>1. ContextInv => NothingMissed
  BY DEF ContextInv
<1> QED
  BY <1>1, ContextInvariant, PTL

(* wait_done_for() never gives up before its timeout.                      *)
THEOREM BoundedWaitLasts == Spec => []NeverEarly
<1>1. ContextInv => NeverEarly
  BY DEF ContextInv
<1> QED
  BY <1>1, ContextInvariant, PTL

-----------------------------------------------------------------------------
(* The refinement.                                                         *)

Shown == [t \in Threads |-> IF pc[t] = "idle" THEN result[t] ELSE call[t]]

LEMMA SignalInitially == Init => Signal!SignalInit
  BY DEF Init, Signal!SignalInit, PastDeadline, Due

(* A call that begins is a question.                                       *)
LEMMA BeginAsks ==
  ASSUME ContextTypeOK, NEW t \in Threads, Call(t)
  PROVE  Signal!Asks(t)
<1>1. PICK c \in {"wait", "bounded", "ask"}, d \in Nat, p \in {"flag", "arm"} :
        Begin(t, c, d) /\ Goto(t, p)
  BY ContextAssumption DEF Call, Err, Wait, WaitDoneFor
<1>2. Shown[t] = result[t]
  BY <1>1 DEF Shown, Begin
<1>3. Shown' = [Shown EXCEPT ![t] = c]
  BY <1>1 DEF Shown, Begin, Goto, ContextTypeOK
<1>4. UNCHANGED <<closed, PastDeadline>>
  BY <1>1 DEF Begin, latchVars, PastDeadline, Due
<1> QED
  BY <1>2, <1>3, <1>4
  DEF Signal!Asks, Signal!Answers, Signal!Questions, Shown, ContextTypeOK

(* A call that goes on shows nothing.                                      *)
LEMMA ContinueShowsNothing ==
  ASSUME ContextTypeOK, NEW t \in Threads, pc[t] # "idle",
         NEW l \in {"flag", "clock", "measure", "arm", "test", "sleep", "asleep"},
         Goto(t, l), UNCHANGED <<result, call>>
  PROVE  Shown' = Shown
  BY DEF Shown, Goto, ContextTypeOK

(* A call that returns has an answer the context may give.                 *)
LEMMA ReturnAnswers ==
  ASSUME ContextTypeOK, NEW t \in Threads, pc[t] # "idle",
         NEW r \in {"done", "live", "canceled", "exceeded"}, Return(t, r),
         Signal!MayAnswer(call[t], r), UNCHANGED <<now, deadline, closed, call>>
  PROVE  Signal!IsAnswered(t)
<1>1. Shown[t] = call[t]
  BY DEF Shown
<1>2. Shown' = [Shown EXCEPT ![t] = r]
  BY DEF Shown, Return, Goto, ContextTypeOK
<1>3. UNCHANGED <<closed, PastDeadline>>
  BY DEF PastDeadline, Due
<1> QED
  BY <1>1, <1>2, <1>3 DEF Signal!IsAnswered, Signal!Answers, Shown

LEMMA StepRefines ==
  ASSUME ContextInv, NEW t \in Threads, Step(t) \/ WakeForNoReason(t)
  PROVE  Signal!IsAnswered(t) \/ UNCHANGED <<closed, PastDeadline, Shown>>
<1>0. ContextTypeOK /\ Places
  BY DEF ContextInv
<1>1. UNCHANGED <<now, deadline, closed>>
  BY <1>0, StepTouches
<1>2. UNCHANGED <<closed, PastDeadline>>
  BY <1>1 DEF PastDeadline, Due
<1>3. CASE LookAtFlag(t)
  <2>1. pc[t] = "flag" /\ UNCHANGED call
    BY <1>3 DEF LookAtFlag, callVars
  <2>2. CASE closed
    <3> DEFINE r == IF call[t] = "ask" THEN "canceled" ELSE "done"
    <3>1. Return(t, r)
      BY <1>3, <2>2 DEF LookAtFlag
    <3>2. Signal!MayAnswer(call[t], r)
      BY <1>0, <2>2 DEF Signal!MayAnswer, ContextTypeOK
    <3> QED
      BY <1>0, <1>1, <2>1, <3>1, <3>2, ReturnAnswers
  <2>3. CASE ~closed
    BY <1>0, <1>2, <1>3, <2>1, <2>3, ContinueShowsNothing
    DEF LookAtFlag, Continue
  <2> QED
    BY <2>2, <2>3
<1>4. CASE LookAtClock(t)
  <2>1. pc[t] = "clock" /\ UNCHANGED call
    BY <1>4 DEF LookAtClock, callVars
  <2>2. CASE PastDeadline
    <3> DEFINE r == IF call[t] = "ask" THEN "exceeded" ELSE "done"
    <3>1. Return(t, r)
      BY <1>4, <2>2 DEF LookAtClock
    <3>2. Signal!MayAnswer(call[t], r)
      BY <1>0, <2>2 DEF Signal!MayAnswer, ContextTypeOK
    <3> QED
      BY <1>0, <1>1, <2>1, <3>1, <3>2, ReturnAnswers
  <2>3. CASE ~PastDeadline /\ call[t] = "wait"
    BY <1>0, <1>2, <1>4, <2>1, <2>3, ContinueShowsNothing
    DEF LookAtClock, Continue
  <2>4. CASE ~PastDeadline /\ call[t] # "wait"
    <3>1. Return(t, "live")
      BY <1>4, <2>4 DEF LookAtClock
    <3>2. Signal!MayAnswer(call[t], "live")
      BY <1>0, <2>4 DEF Signal!MayAnswer, ContextTypeOK
    <3> QED
      BY <1>0, <1>1, <2>1, <3>1, <3>2, ReturnAnswers
  <2> QED
    BY <2>2, <2>3, <2>4
<1>5. CASE Measure(t) \/ Arm(t)
  BY <1>0, <1>2, <1>5, ContinueShowsNothing DEF Measure, Arm, callVars
<1>6. CASE Test(t)
  <2>1. pc[t] = "test" /\ UNCHANGED call /\ call[t] # "ask"
    BY <1>0, <1>6 DEF Test, callVars, Places
  <2>2. CASE closed
    <3>1. Return(t, "done")
      BY <1>6, <2>2 DEF Test, Settle
    <3>2. Signal!MayAnswer(call[t], "done")
      BY <1>0, <2>1, <2>2 DEF Signal!MayAnswer, ContextTypeOK
    <3> QED
      BY <1>0, <1>1, <2>1, <3>1, <3>2, ReturnAnswers
  <2>3. CASE ~closed
    BY <1>0, <1>2, <1>6, <2>1, <2>3, ContinueShowsNothing
    DEF Test, Settle, Continue
  <2> QED
    BY <2>2, <2>3
<1>7. CASE Sleep(t) \/ WakeUp(t) \/ WakeForNoReason(t)
  BY <1>0, <1>2, <1>7, ContinueShowsNothing
  DEF Sleep, WakeUp, WakeForNoReason, Awake, callVars
<1> QED
  BY <1>3, <1>4, <1>5, <1>6, <1>7 DEF Step

(* The context, its latch and its clock implement DoneSignal.              *)
THEOREM ContextRefines == Spec => ImplementsSignal
<1>1. Init => Signal!SignalInit
  BY SignalInitially
<1>2. ContextInv /\ [Next]_vars => [Signal!SignalNext]_(Signal!signal)
  <2> SUFFICES ASSUME ContextInv, [Next]_vars
               PROVE  Signal!SignalNext \/ UNCHANGED <<closed, PastDeadline, Shown>>
    BY DEF Signal!signal, Shown
  <2>0. ContextTypeOK
    BY DEF ContextInv
  <2>1. CASE Close
    BY <2>1
    DEF Close, callVars, Signal!SignalNext, Signal!Cancelled, PastDeadline, Due
  <2>2. CASE Tick
    <3>1. PastDeadline => PastDeadline'
      BY <2>0, <2>2 DEF Tick, PastDeadline, Due, ContextTypeOK, Instants
    <3>2. UNCHANGED <<closed, Shown>>
      BY <2>2 DEF Tick, Shown, callVars, latchVars
    <3> QED
      BY <3>1, <3>2 DEF Signal!SignalNext, Signal!Expires, Shown, PastDeadline, Due
  <2>3. ASSUME NEW t \in Threads, Call(t)
        PROVE  Signal!SignalNext
    BY <2>0, <2>3, BeginAsks DEF Signal!SignalNext
  <2>4. ASSUME NEW t \in Threads, Step(t) \/ WakeForNoReason(t)
        PROVE  Signal!SignalNext \/ UNCHANGED <<closed, PastDeadline, Shown>>
    BY <2>4, StepRefines DEF Signal!SignalNext
  <2>5. CASE UNCHANGED vars
    BY <2>5 DEF vars, latchVars, callVars, PastDeadline, Due, Shown
  <2> QED
    BY <2>1, <2>2, <2>3, <2>4, <2>5 DEF Next
<1> QED
  BY <1>1, <1>2, ContextInvariant, PTL DEF Spec, ImplementsSignal, Signal!SignalSpec

=============================================================================
