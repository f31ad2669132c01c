--------------------------- MODULE MultiPoolProofs ---------------------------
(***************************************************************************)
(* What a constructor returns is what PoolCore takes for granted; rotation *)
(* is fair, and everything keeps its type, whatever the number of pools,   *)
(* clients and controllers and the width of the cursor; and, as long as    *)
(* calls of release, reboot and tune do not overlap, the pools agree, a    *)
(* closed multi-pool takes no task, and Ok means that all pools are empty. *)
(***************************************************************************)
EXTENDS MultiPool, TLAPS

(* Multiples of a positive number.                                         *)
LEMMA Multiples ==
  ASSUME NEW k \in Nat \ {0}, NEW d \in Int
  PROVE  /\ d >= 2 => k * d >= 2 * k
         /\ d <= -1 => k * d <= -k
         /\ k * 0 = 0
         /\ k * 1 = k
<1>1. d >= 2 => k * d >= 2 * k
  BY SMTT(30)
<1>2. d <= -1 => k * d <= -k
  BY SMTT(30)
<1> QED BY <1>1, <1>2

(* Division with remainder.                                                *)
LEMMA Division ==
  ASSUME NEW n \in Nat, NEW k \in Nat \ {0}
  PROVE  /\ n \div k \in Nat
         /\ n % k \in 0..(k - 1)
         /\ n = k * (n \div k) + (n % k)
<1>1. n \div k \in Int
  BY SMTT(30)
<1>2. n % k \in 0..(k - 1)
  BY SMTT(30)
<1>3. n = k * (n \div k) + (n % k)
  BY SMTT(30)
<1>4. ~(n \div k <= -1)
  BY <1>1, <1>2, <1>3, Multiples
<1> QED BY <1>1, <1>2, <1>3, <1>4

(* The next ticket modulo the number of pools is the next pool, around the *)
(* end of the list.                                                        *)
LEMMA NextModulo ==
  ASSUME NEW n \in Nat, NEW k \in Nat \ {0}
  PROVE  (n + 1) % k = IF (n % k) + 1 = k THEN 0 ELSE (n % k) + 1
<1> DEFINE q == n \div k
           p == (n + 1) \div k
           r == n % k
           s == (n + 1) % k
<1>1. /\ q \in Nat /\ r \in 0..(k - 1) /\ n = k * q + r
      /\ p \in Nat /\ s \in 0..(k - 1) /\ n + 1 = k * p + s
  <2>1. q \in Nat /\ r \in 0..(k - 1) /\ n = k * q + r
    BY Division
  <2>2. n + 1 \in Nat
    OBVIOUS
  <2>3. p \in Nat /\ s \in 0..(k - 1) /\ n + 1 = k * p + s
    BY <2>2, Division
  <2> QED BY <2>1, <2>3
<1> HIDE DEF q, p, r, s
<1>2. k * (p - q) = k * p - k * q
  BY <1>1
<1>3. k * (p - q) = r + 1 - s
  BY <1>1, <1>2
<1>4. p - q \in Int
  BY <1>1
<1>5. p - q = 0 \/ p - q = 1
  BY <1>1, <1>3, <1>4, Multiples
<1>6. s = IF r + 1 = k THEN 0 ELSE r + 1
  BY <1>1, <1>3, <1>5, Multiples
<1> QED BY <1>6 DEF r, s

-----------------------------------------------------------------------------
(* Any size and any options that NewCore accepts give a pool of the kind   *)
(* PoolCore models, whatever the size and whatever the options.            *)
THEOREM AcceptedFits ==
  ASSUME NEW size \in Int, NEW opts \in Options, IsOk(NewCore(size, opts))
  PROVE  FitsPoolCore(NewCore(size, opts).value)
<1> DEFINE made == [size |-> CoreSize(size),
                    opts |-> [opts EXCEPT !.expiry = CoreExpiry(opts)]]
<1>1. /\ opts.disablePurge \/ opts.expiry >= 0
      /\ ~(opts.preAlloc /\ CoreSize(size) = -1)
      /\ NewCore(size, opts).value = made
  BY DEF NewCore, IsOk, Ok, Err, Options
<1>2. CoreSize(size) = -1 \/ CoreSize(size) > 0
  BY DEF CoreSize
<1>3. CoreExpiry(opts) \in Int /\ (opts.disablePurge \/ CoreExpiry(opts) > 0)
  BY <1>1, ConstructAssumption DEF CoreExpiry, Options
<1>4. made.opts \in Options
  BY <1>3 DEF Options
<1>5. made.opts.preAlloc = opts.preAlloc /\ made.opts.disablePurge = opts.disablePurge
      /\ made.opts.expiry = CoreExpiry(opts) /\ made.size = CoreSize(size)
  BY DEF Options
<1> QED BY <1>1, <1>2, <1>3, <1>4, <1>5 DEF FitsPoolCore

-----------------------------------------------------------------------------
Numbered ==
  /\ Ready => asked.size \in Nat \ {0} /\ Pools = 0..(asked.size - 1)
  /\ index \in 0..(IndexWrap - 1)
  /\ turns \in [Pools -> Nat]
  /\ resets \in Nat

(* A round goes from pool 0 to the last: with the cursor at pool p, those  *)
(* up to p have had the turn of this round and the others have not.        *)
Lead(p, i, j) == IF i <= p /\ p < j THEN 1 ELSE IF j <= p /\ p < i THEN -1 ELSE 0

Fresh ==
  index = IndexWrap - 1 /\ resets = 0 /\ \A i \in Pools : turns[i] = 0

InRound ==
  \A i, j \in Pools : turns[i] - turns[j] <= resets + Lead(index % asked.size, i, j)

RotationInv == Numbered /\ (Fresh \/ InRound)

(* The constructor numbers its pools from 0 and starts the cursor so that  *)
(* the first ticket is 0.                                                  *)
LEMMA StartsFresh == Init => RotationInv
<1> SUFFICES ASSUME Init PROVE RotationInv
  OBVIOUS
<1>1. Pools = IF IsOk(NewMultiPool(asked)) THEN 0..(asked.size - 1) ELSE {}
  BY DEF Init, Pools
<1>2. Ready => asked.size \in Nat \ {0} /\ Pools = 0..(asked.size - 1)
  <2>1. asked.size \in Int
    BY MultiPoolAssumption DEF Init
  <2>2. IsOk(NewMultiPool(asked)) => asked.size > 0
    BY <2>1 DEF NewMultiPool, IsOk, Err
  <2> QED BY <1>1, <2>1, <2>2 DEF Ready
<1>3. index = IndexWrap - 1 /\ index \in 0..(IndexWrap - 1)
  BY MultiPoolAssumption DEF Init
<1>4. turns = [i \in Pools |-> 0] /\ resets = 0
  BY DEF Init
<1>5. turns \in [Pools -> Nat] /\ resets \in Nat
  BY <1>4
<1> QED BY <1>2, <1>3, <1>4, <1>5 DEF RotationInv, Numbered, Fresh

(* Everything but a turn and a reset leaves the rotation alone.            *)
Rotation == <<asked, index, Pools, turns, resets>>

LEMMA OthersKeepRotation ==
  ASSUME [Next]_vars,
         \A c \in Clients : ~Rotate(c),
         \A k \in Controllers : ~ResetIndex(k)
  PROVE  UNCHANGED Rotation
<1>1. ASSUME NEW c \in Clients, Dispatch(c)
      PROVE  UNCHANGED Rotation
  BY <1>1 DEF Dispatch, Rotation, Pools, history
<1>2. ASSUME NEW c \in Clients, ClientStep(c)
      PROVE  UNCHANGED Rotation
  <2>1. CASE ScanOne(c)
    BY <2>1 DEF ScanOne, Rotation, Pools, history
  <2>2. CASE Enter(c)
    BY <2>2 DEF Enter, Rotation, Pools, history
  <2>3. CASE Retrieve(c)
    BY <2>3 DEF Retrieve, Taken, Rotation, Pools, history
  <2>4. CASE Woken(c)
    BY <2>4 DEF Woken, Rotation, Pools, history
  <2> QED BY <1>2, <2>1, <2>2, <2>3, <2>4 DEF ClientStep
<1>3. ASSUME NEW i \in Pools, TaskEnds(i) \/ Purged(i) \/ Leaves(i)
      PROVE  UNCHANGED Rotation
  BY <1>3 DEF TaskEnds, Purged, Leaves, Rotation, Pools, history
<1>4. ASSUME NEW k \in Controllers, Call(k)
      PROVE  UNCHANGED Rotation
  BY <1>4 DEF Call, Release, Reboot, Tune, Rotation, Pools, history
<1>5. ASSUME NEW k \in Controllers, ContextEnds(k)
      PROVE  UNCHANGED Rotation
  BY <1>5 DEF ContextEnds, Rotation, Pools, history
<1>6. ASSUME NEW k \in Controllers, ControllerStep(k)
      PROVE  UNCHANGED Rotation
  <2>1. ASSUME NEW i \in Pools, ReleasePool(k, i)
        PROVE  UNCHANGED Rotation
    BY <2>1 DEF ReleasePool, Rotation, Pools, history
  <2>2. ASSUME NEW i \in Pools, WaitEnds(k, i) \/ GivesUp(k, i)
        PROVE  UNCHANGED Rotation
    BY <2>2 DEF WaitEnds, GivesUp, Rotation, Pools, history
  <2>3. ASSUME NEW i \in Pools, RebootPool(k, i)
        PROVE  UNCHANGED Rotation
    BY <2>3 DEF RebootPool, Rotation, Pools, history
  <2>4. ASSUME NEW i \in Pools, TunePool(k, i)
        PROVE  UNCHANGED Rotation
    BY <2>4 DEF TunePool, Rotation, Pools, history
  <2>5. CASE Joined(k)
    BY <2>5 DEF Joined, Rotation, Pools, history
  <2> QED BY <1>6, <2>1, <2>2, <2>3, <2>4, <2>5 DEF ControllerStep
<1>7. CASE UNCHANGED vars
  BY <1>7 DEF vars, Rotation, Pools, history
<1> QED BY <1>1, <1>2, <1>3, <1>4, <1>5, <1>6, <1>7 DEF Next

(* A turn goes to the pool after the last one, or to pool 0 when the       *)
(* cursor wraps, which may cut the round short: that is what the reset     *)
(* pays for.                                                               *)
LEMMA TurnKeepsRound ==
  ASSUME RotationInv, NEW c \in Clients, Rotate(c)
  PROVE  RotationInv'
<1> DEFINE k == asked.size
           t == Ticket % k
<1>1. Numbered /\ (Fresh \/ InRound)
  BY DEF RotationInv
<1>2. /\ asked' = asked /\ Pools' = Pools /\ index' = Ticket
      /\ turns' = [turns EXCEPT ![t] = @ + 1]
      /\ resets' = IF Ticket = 0 /\ \E i \in Pools : turns[i] > 0
                     THEN resets + 1 ELSE resets
  BY DEF Rotate, Pools
<1>3. /\ turns \in [Pools -> Nat] /\ resets \in Nat
      /\ index \in 0..(IndexWrap - 1)
      /\ Ready => k \in Nat \ {0} /\ Pools = 0..(k - 1)
  BY <1>1 DEF Numbered
<1>4. Ticket = (IF index + 1 = IndexWrap THEN 0 ELSE index + 1)
  <2>1. index % IndexWrap = index
    BY <1>3, MultiPoolAssumption, SMTT(30)
  <2>2. index \in Nat /\ IndexWrap \in Nat \ {0}
    BY <1>3, MultiPoolAssumption
  <2> QED BY <2>1, <2>2, NextModulo DEF Ticket
<1>5. Ticket \in 0..(IndexWrap - 1)
  BY <1>3, <1>4, MultiPoolAssumption
<1>6. turns' \in [Pools -> Nat] /\ resets' \in Nat
  <2>1. turns' \in [Pools -> Nat]
    <3> HIDE DEF t
    <3>1. turns' = [i \in Pools |-> IF i = t THEN turns[i] + 1 ELSE turns[i]]
      BY <1>2, <1>3
    <3>2. \A i \in Pools : turns[i] \in Nat /\ turns[i] + 1 \in Nat
      BY <1>3
    <3> QED BY <3>1, <3>2
  <2>2. resets' \in Nat
    BY <1>2, <1>3
  <2> QED BY <2>1, <2>2
<1>7. Numbered'
  BY <1>2, <1>3, <1>5, <1>6 DEF Numbered, Ready
<1>8. InRound'
  <2> SUFFICES ASSUME NEW i \in Pools, NEW j \in Pools
               PROVE  turns'[i] - turns'[j] <= resets' + Lead(t, i, j)
    BY <1>2 DEF InRound
  <2> DEFINE p == index % k
  <2>1. k \in Nat \ {0} /\ Pools = 0..(k - 1)
    BY <1>3 DEF Ready
  <2>2. p \in 0..(k - 1) /\ t \in 0..(k - 1)
    <3>1. index \in Nat /\ Ticket \in Nat
      BY <1>3, <1>5, MultiPoolAssumption
    <3> QED BY <2>1, <3>1, Division
  <2>3. Ticket = 0 => t = 0
    <3>1. 0 % k = 0
      BY <2>1, SMTT(30)
    <3> QED BY <3>1
  <2>4. Ticket # 0 => t = IF p + 1 = k THEN 0 ELSE p + 1
    <3>1. Ticket # 0 => Ticket = index + 1
      BY <1>4
    <3>2. index \in Nat
      BY <1>3, MultiPoolAssumption
    <3> QED BY <2>1, <3>1, <3>2, NextModulo
  <2>5. /\ turns'[i] = (IF i = t THEN turns[i] + 1 ELSE turns[i])
        /\ turns'[j] = (IF j = t THEN turns[j] + 1 ELSE turns[j])
        /\ turns[i] \in Nat /\ turns[j] \in Nat
        /\ i \in 0..(k - 1) /\ j \in 0..(k - 1)
    BY <1>2, <1>3, <2>1
  <2>6. Fresh => turns[i] = 0 /\ turns[j] = 0 /\ resets = 0 /\ Ticket = 0
    BY <1>4, MultiPoolAssumption DEF Fresh
  <2>7. InRound => turns[i] - turns[j] <= resets + Lead(p, i, j)
    BY DEF InRound
  <2>8. Ticket = 0 => \/ resets' = resets + 1
                      \/ turns[i] = 0 /\ turns[j] = 0 /\ resets' = resets
    BY <1>2, <2>5
  <2>9. Ticket # 0 => resets' = resets
    BY <1>2
  <2> HIDE DEF p, t, k
  <2>10. CASE Ticket = 0
    BY <1>1, <1>3, <2>1, <2>2, <2>3, <2>5, <2>6, <2>7, <2>8, <2>10 DEF Lead
  <2>11. CASE Ticket # 0
    BY <1>1, <1>3, <2>1, <2>2, <2>4, <2>5, <2>6, <2>7, <2>9, <2>11 DEF Lead
  <2> QED BY <2>10, <2>11
<1> QED BY <1>7, <1>8 DEF RotationInv

(* A reboot sets the cursor to 0 in the middle of a round.                 *)
LEMMA ResetKeepsRound ==
  ASSUME RotationInv, NEW c \in Controllers, ResetIndex(c)
  PROVE  RotationInv'
<1> DEFINE k == asked.size
<1>1. Numbered /\ (Fresh \/ InRound)
  BY DEF RotationInv
<1>2. /\ asked' = asked /\ Pools' = Pools /\ turns' = turns
      /\ index' = 0 /\ resets' = resets + 1
  BY DEF ResetIndex, Pools
<1>3. /\ turns \in [Pools -> Nat] /\ resets \in Nat
      /\ index \in 0..(IndexWrap - 1)
      /\ Ready => k \in Nat \ {0} /\ Pools = 0..(k - 1)
  BY <1>1 DEF Numbered
<1>4. Numbered'
  BY <1>2, <1>3, MultiPoolAssumption DEF Numbered, Ready
<1>5. InRound'
  <2> SUFFICES ASSUME NEW i \in Pools, NEW j \in Pools
               PROVE  turns[i] - turns[j] <= resets + 1 + Lead(0 % k, i, j)
    BY <1>2 DEF InRound
  <2> DEFINE p == index % k
  <2>1. k \in Nat \ {0} /\ Pools = 0..(k - 1)
    BY <1>3 DEF Ready
  <2>2. p \in 0..(k - 1)
    <3>1. index \in Nat
      BY <1>3, MultiPoolAssumption
    <3> QED BY <2>1, <3>1, Division
  <2>3. 0 % k = 0
    BY <2>1, SMTT(30)
  <2>4. Fresh => turns[i] = 0 /\ turns[j] = 0 /\ resets = 0
    BY DEF Fresh
  <2>5. InRound => turns[i] - turns[j] <= resets + Lead(p, i, j)
    BY DEF InRound
  <2>6. turns[i] \in Nat /\ turns[j] \in Nat /\ i \in 0..(k - 1) /\ j \in 0..(k - 1)
    BY <1>3, <2>1
  <2> HIDE DEF p, k
  <2> QED BY <1>1, <1>3, <2>1, <2>2, <2>3, <2>4, <2>5, <2>6 DEF Lead
<1> QED BY <1>4, <1>5 DEF RotationInv

LEMMA StepKeepsRound ==
  ASSUME RotationInv, [Next]_vars PROVE RotationInv'
<1>1. CASE \E c \in Clients : Rotate(c)
  BY <1>1, TurnKeepsRound
<1>2. CASE \E k \in Controllers : ResetIndex(k)
  BY <1>2, ResetKeepsRound
<1>3. CASE UNCHANGED Rotation
  <2>1. Numbered'
    BY <1>3 DEF RotationInv, Numbered, Rotation, Ready
  <2>2. Fresh => Fresh'
    BY <1>3 DEF Fresh, Rotation
  <2>3. InRound => InRound'
    BY <1>3 DEF InRound, Rotation
  <2> QED BY <2>1, <2>2, <2>3 DEF RotationInv
<1> QED BY <1>1, <1>2, <1>3, OthersKeepRotation

LEMMA RoundIsFair == RotationInv => RotationFair
<1> SUFFICES ASSUME RotationInv, NEW i \in Pools, NEW j \in Pools
             PROVE  turns[i] <= turns[j] + 1 + resets
  BY DEF RotationFair
<1>1. turns[i] \in Nat /\ turns[j] \in Nat /\ resets \in Nat
  BY DEF RotationInv, Numbered
<1>2. CASE Fresh
  BY <1>1, <1>2 DEF Fresh
<1>3. CASE InRound
  <2>1. turns[i] - turns[j] <= resets + Lead(index % asked.size, i, j)
    BY <1>3 DEF InRound
  <2>2. Lead(index % asked.size, i, j) \in {-1, 0, 1}
    BY DEF Lead
  <2> QED BY <1>1, <2>1, <2>2
<1> QED BY <1>2, <1>3 DEF RotationInv

(* The inductive invariant of the rotation (multipool.rs next() and        *)
(* reboot()).                                                              *)
THEOREM RotationInvariant == Spec => []RotationInv
<1>1. Init => RotationInv
  BY StartsFresh
<1>2. RotationInv /\ [Next]_vars => RotationInv'
  BY StepKeepsRound
<1> QED BY <1>1, <1>2, PTL DEF Spec

(* No pool of a multi-pool in rotation gets more than one turn ahead of    *)
(* another, but for the wraps and the resets of the cursor, however many   *)
(* clients and controllers race (multipool.rs next()).                     *)
THEOREM RotationIsFair == Spec => []RotationFair
  BY RotationInvariant, RoundIsFair, PTL

-----------------------------------------------------------------------------
(* The types, by who owns the variables.                                   *)

PoolRecords ==
  [state : {"OPENED", "CLOSED"}, cap : Int, busy : Nat, idle : Nat, leaving : Nat,
   drained : BOOLEAN]

PoolTypes ==
  /\ pool \in [Pools -> PoolRecords]
  /\ \A i \in Pools : pool[i].state = "CLOSED" => pool[i].idle = 0

(* A client is only inside of dispatch if there is a pool, and next()'s    *)
(* loop does not go past the last one.                                     *)
ClientTypes ==
  /\ pc \in [Clients -> {"idle", "next", "scan", "enter", "retrieve", "blocked"}]
  /\ target \in [Clients -> Nat]
  /\ scan \in [Clients -> [at : Nat, least : 0..I32Max]]
  /\ retry \in [Clients -> BOOLEAN]
  /\ \A c \in Clients :
       /\ Ready => target[c] \in Pools
       /\ pc[c] # "idle" => Ready
       /\ pc[c] # "scan" => scan[c].at = 0
       /\ pc[c] = "scan" => scan[c].at \in Pools

ControllerTypes ==
  /\ ctl \in [Controllers -> {"idle", "release", "reset", "reboot", "tune"}]
  /\ ctx \in [Controllers -> {"nil", "live", "ended"}]
  /\ left \in [Controllers -> SUBSET Pools]
  /\ waits \in [Controllers -> SUBSET Pools]
  /\ failed \in [Controllers -> SUBSET Pools]
  /\ want \in [Controllers -> TuneSizes \cup {0}]
  /\ ops \in [Controllers -> 0..MaxOps]

SharedTypes ==
  /\ asked \in Requests
  /\ state \in {"OPENED", "CLOSED"}
  /\ calls \in 0..MaxCalls

TypeInv == RotationInv /\ SharedTypes /\ PoolTypes /\ ClientTypes /\ ControllerTypes

LEMMA PoolsStay == ASSUME RotationInv, [Next]_vars PROVE UNCHANGED <<asked, Pools>>
<1>1. CASE \E c \in Clients : Rotate(c)
  BY <1>1 DEF Rotate, Pools
<1>2. CASE \E k \in Controllers : ResetIndex(k)
  BY <1>2 DEF ResetIndex, Pools
<1>3. CASE UNCHANGED Rotation
  BY <1>3 DEF Rotation
<1> QED BY <1>1, <1>2, <1>3, OthersKeepRotation

(* One pool changes. *)
LEMMA OnePool ==
  ASSUME PoolTypes, NEW i \in Pools, NEW p \in PoolRecords,
         p.state = "CLOSED" => p.idle = 0, pool' = [pool EXCEPT ![i] = p]
  PROVE  PoolTypes'
  BY DEF PoolTypes, Pools

(* The changes that are made to one. *)
LEMMA PoolChanges ==
  ASSUME NEW p \in PoolRecords, NEW n \in Nat, NEW m \in Nat, NEW b \in BOOLEAN,
         NEW q \in Int
  PROVE  /\ [p EXCEPT !.busy = n] \in PoolRecords
         /\ [p EXCEPT !.busy = n, !.idle = m] \in PoolRecords
         /\ [p EXCEPT !.idle = n, !.busy = m] \in PoolRecords
         /\ [p EXCEPT !.busy = n, !.drained = b] \in PoolRecords
         /\ [p EXCEPT !.leaving = n, !.drained = b] \in PoolRecords
         /\ [p EXCEPT !.idle = n, !.leaving = m] \in PoolRecords
         /\ [p EXCEPT !.state = "CLOSED", !.leaving = n, !.idle = 0, !.drained = b]
              \in PoolRecords
         /\ [p EXCEPT !.state = "OPENED", !.drained = FALSE] \in PoolRecords
         /\ [p EXCEPT !.cap = q] \in PoolRecords
  BY DEF PoolRecords

LEMMA PoolFields ==
  ASSUME PoolTypes, NEW i \in Pools
  PROVE  /\ pool \in [Pools -> PoolRecords] /\ pool[i] \in PoolRecords
         /\ pool[i].busy \in Nat /\ pool[i].idle \in Nat /\ pool[i].leaving \in Nat
         /\ pool[i].cap \in Int /\ pool[i].drained \in BOOLEAN
         /\ pool[i].state \in {"OPENED", "CLOSED"}
         /\ pool[i].state = "CLOSED" => pool[i].idle = 0
  BY DEF PoolTypes, PoolRecords

(* A worker changes its pool's counts and latch, which a closed pool       *)
(* allows only if it parks nobody.                                         *)
LEMMA WorkerKeepsPool ==
  ASSUME PoolTypes, NEW i \in Pools, TaskEnds(i) \/ Purged(i) \/ Leaves(i)
  PROVE  PoolTypes'
<1>0. Drains(i) \in BOOLEAN
  BY PoolFields DEF Drains
<1>1. CASE pool[i].busy > 0 /\ pool[i].state = "OPENED"
           /\ pool' = [pool EXCEPT ![i].busy = @ - 1, ![i].idle = @ + 1]
  <2> DEFINE p == [pool[i] EXCEPT !.busy = @ - 1, !.idle = @ + 1]
  <2>1. pool[i].busy - 1 \in Nat /\ pool[i].idle + 1 \in Nat
    BY <1>1, PoolFields
  <2>2. p \in PoolRecords
    BY <2>1, PoolFields, PoolChanges
  <2>3. p.state = "OPENED" /\ pool' = [pool EXCEPT ![i] = p]
    BY <1>1, PoolFields DEF PoolRecords
  <2> QED BY <2>2, <2>3, OnePool
<1>2. CASE pool[i].busy > 0
           /\ pool' = [pool EXCEPT ![i].busy = @ - 1, ![i].drained = Drains(i)]
  <2> DEFINE p == [pool[i] EXCEPT !.busy = @ - 1, !.drained = Drains(i)]
  <2>1. pool[i].busy - 1 \in Nat
    BY <1>2, PoolFields
  <2>2. p \in PoolRecords
    BY <1>0, <2>1, PoolFields, PoolChanges
  <2>3. /\ p.state = pool[i].state /\ p.idle = pool[i].idle
        /\ pool' = [pool EXCEPT ![i] = p]
    BY <1>2, PoolFields DEF PoolRecords
  <2> QED BY <2>2, <2>3, PoolFields, OnePool
<1>3. CASE Purged(i)
  <2> DEFINE p == [pool[i] EXCEPT !.idle = @ - 1, !.leaving = @ + 1]
  <2>1. pool[i].idle - 1 \in Nat /\ pool[i].leaving + 1 \in Nat
    BY <1>3, PoolFields DEF Purged
  <2>2. p \in PoolRecords
    BY <2>1, PoolFields, PoolChanges
  <2>3. p.state # "CLOSED" /\ pool' = [pool EXCEPT ![i] = p]
    BY <1>3, PoolFields DEF Purged, PoolRecords
  <2> QED BY <2>2, <2>3, OnePool
<1>4. CASE Leaves(i)
  <2> DEFINE p == [pool[i] EXCEPT !.leaving = @ - 1, !.drained = Drains(i)]
  <2>1. pool[i].leaving - 1 \in Nat
    BY <1>4, PoolFields DEF Leaves
  <2>2. p \in PoolRecords
    BY <1>0, <2>1, PoolFields, PoolChanges
  <2>3. /\ p.state = pool[i].state /\ p.idle = pool[i].idle
        /\ pool' = [pool EXCEPT ![i] = p]
    BY <1>4, PoolFields DEF Leaves, PoolRecords
  <2> QED BY <2>2, <2>3, PoolFields, OnePool
<1> QED BY <1>1, <1>2, <1>3, <1>4 DEF TaskEnds

(* An idle worker of the pool, or a new one, gets a task. *)
LEMMA TakenKeepsPool ==
  ASSUME PoolTypes, NEW i \in Pools, pool' = Taken(i)
  PROVE  PoolTypes'
<1>1. CASE pool[i].idle > 0
  <2> DEFINE p == [pool[i] EXCEPT !.idle = @ - 1, !.busy = @ + 1]
  <2>1. pool[i].idle - 1 \in Nat /\ pool[i].busy + 1 \in Nat
    BY <1>1, PoolFields
  <2>2. p \in PoolRecords
    BY <2>1, PoolFields, PoolChanges
  <2>3. p.state # "CLOSED" /\ pool' = [pool EXCEPT ![i] = p]
    BY <1>1, PoolFields DEF Taken, PoolRecords
  <2> QED BY <2>2, <2>3, OnePool
<1>2. CASE ~(pool[i].idle > 0)
  <2> DEFINE p == [pool[i] EXCEPT !.busy = @ + 1]
  <2>1. pool[i].busy + 1 \in Nat
    BY PoolFields
  <2>2. p \in PoolRecords
    BY <2>1, PoolFields, PoolChanges
  <2>3. /\ p.state = pool[i].state /\ p.idle = pool[i].idle
        /\ pool' = [pool EXCEPT ![i] = p]
    BY <1>2, PoolFields DEF Taken, PoolRecords
  <2> QED BY <2>2, <2>3, PoolFields, OnePool
<1> QED BY <1>1, <1>2

(* A pool is closed, opened again, or given another capacity. *)
LEMMA ControllerKeepsPool ==
  ASSUME PoolTypes, ControllerTypes, NEW k \in Controllers,
         NEW i \in Pools, ReleasePool(k, i) \/ RebootPool(k, i) \/ TunePool(k, i)
  PROVE  PoolTypes'
<1>0. want[k] \in Int
  <2>1. want[k] \in TuneSizes \cup {0}
    BY DEF ControllerTypes
  <2>2. want[k] \in TuneSizes => want[k] \in Int
    BY MultiPoolAssumption
  <2>3. want[k] = 0 => want[k] \in Int
    OBVIOUS
  <2> QED BY <2>1, <2>2, <2>3
<1>1. CASE ReleasePool(k, i) /\ pool[i].state # "CLOSED"
  <2> DEFINE b == Running(i) = 0
             p == [pool[i] EXCEPT !.state = "CLOSED", !.leaving = @ + pool[i].idle,
                                  !.idle = 0, !.drained = b]
  <2>1. pool[i].leaving + pool[i].idle \in Nat /\ b \in BOOLEAN
    BY PoolFields
  <2>2. pool' = [pool EXCEPT ![i].state = "CLOSED", ![i].leaving = @ + pool[i].idle,
                             ![i].idle = 0, ![i].drained = b]
    BY <1>1 DEF ReleasePool
  <2> HIDE DEF b
  <2>3. p \in PoolRecords
    BY <2>1, PoolFields, PoolChanges
  <2>4. p.idle = 0 /\ pool' = [pool EXCEPT ![i] = p]
    BY <2>2, PoolFields DEF PoolRecords
  <2> QED BY <2>3, <2>4, OnePool
<1>2. CASE RebootPool(k, i) /\ pool[i].state # "OPENED"
  <2> DEFINE p == [pool[i] EXCEPT !.state = "OPENED", !.drained = FALSE]
  <2>1. p \in PoolRecords
    BY PoolFields, PoolChanges
  <2>2. p.state = "OPENED" /\ pool' = [pool EXCEPT ![i] = p]
    BY <1>2, PoolFields DEF RebootPool, PoolRecords
  <2> QED BY <2>1, <2>2, OnePool
<1>3. CASE TunePool(k, i) /\ pool' # pool
  <2> DEFINE p == [pool[i] EXCEPT !.cap = want[k]]
  <2>1. p \in PoolRecords
    BY <1>0, PoolFields, PoolChanges
  <2>2. /\ p.state = pool[i].state /\ p.idle = pool[i].idle
        /\ pool' = [pool EXCEPT ![i] = p]
    BY <1>3, PoolFields DEF TunePool, PoolRecords
  <2> QED BY <2>1, <2>2, PoolFields, OnePool
<1>4. CASE pool' = pool
  BY <1>4 DEF PoolTypes, Pools
<1> QED BY <1>1, <1>2, <1>3, <1>4 DEF ReleasePool, RebootPool

(* A client moves, and the pools stay or one of them takes its task.       *)
LEMMA ClientKeepsTypes ==
  ASSUME TypeInv, asked' = asked, Pools' = Pools, NEW c \in Clients,
         Dispatch(c) \/ ClientStep(c)
  PROVE  SharedTypes' /\ PoolTypes' /\ ClientTypes' /\ ControllerTypes'
<1>0. /\ pc \in [Clients -> {"idle", "next", "scan", "enter", "retrieve", "blocked"}]
      /\ target \in [Clients -> Nat]
      /\ scan \in [Clients -> [at : Nat, least : 0..I32Max]]
      /\ retry \in [Clients -> BOOLEAN]
      /\ \A d \in Clients :
           /\ Ready => target[d] \in Pools
           /\ pc[d] # "idle" => Ready
           /\ pc[d] # "scan" => scan[d].at = 0
           /\ pc[d] = "scan" => scan[d].at \in Pools
  BY DEF TypeInv, ClientTypes
<1>1. /\ asked \in Requests /\ state \in {"OPENED", "CLOSED"} /\ calls \in 0..MaxCalls
      /\ PoolTypes /\ ControllerTypes /\ MaxCalls \in Nat
      /\ Ready => asked.size \in Nat \ {0} /\ Pools = 0..(asked.size - 1) /\ 0 \in Pools
      /\ Ready' = Ready
  BY MultiPoolAssumption DEF TypeInv, SharedTypes, RotationInv, Numbered, Ready
<1>2. ControllerTypes'
  <2>1. UNCHANGED ctlVars
    BY DEF Dispatch, ClientStep, Rotate, ScanOne, Enter, Retrieve, Woken
  <2> QED BY <1>1, <2>1 DEF ControllerTypes, ctlVars, releaseVars
<1>3. SharedTypes'
  <2>1. CASE Dispatch(c)
    BY <1>1, <2>1 DEF Dispatch, SharedTypes
  <2>2. CASE ClientStep(c)
    <3>1. state' = state /\ calls' = calls
      BY <2>2 DEF ClientStep, Rotate, ScanOne, Enter, Retrieve, Woken
    <3> QED BY <1>1, <3>1 DEF SharedTypes
  <2> QED BY <2>1, <2>2
<1>4. PoolTypes'
  <2>1. CASE pool' = pool
    BY <1>1, <2>1 DEF PoolTypes
  <2>2. CASE Retrieve(c) /\ pool' = Taken(target[c])
    <3>1. target[c] \in Pools
      BY <1>0, <2>2 DEF Retrieve
    <3> QED BY <1>1, <2>2, <3>1, TakenKeepsPool
  <2> QED
    BY <2>1, <2>2 DEF Dispatch, ClientStep, Rotate, ScanOne, Enter, Retrieve, Woken
<1>5. ASSUME /\ scan' = scan /\ retry' \in [Clients -> BOOLEAN]
             /\ pc' \in [Clients -> {"idle", "next", "scan", "enter", "retrieve",
                                     "blocked"}]
             /\ target' \in [Clients -> Nat]
             /\ \A d \in Clients : d # c => pc'[d] = pc[d] /\ target'[d] = target[d]
             /\ pc[c] # "scan" /\ pc'[c] # "scan" /\ (pc'[c] # "idle" => Ready)
             /\ Ready => target'[c] \in Pools
      PROVE  ClientTypes'
  BY <1>0, <1>1, <1>5 DEF ClientTypes
<1>6. ASSUME Dispatch(c)
      PROVE  ClientTypes'
  <2>1. scan' = scan /\ pc[c] # "scan" /\ Ready
    BY <1>6 DEF Dispatch
  <2>2. pc' \in [Clients -> {"idle", "next", "scan", "enter", "retrieve", "blocked"}]
        /\ pc'[c] # "scan" /\ \A d \in Clients : d # c => pc'[d] = pc[d]
    BY <1>0, <1>6 DEF Dispatch, Reply
  <2>3. target' \in [Clients -> Nat] /\ retry' \in [Clients -> BOOLEAN]
        /\ target'[c] \in {target[c], 0}
        /\ \A d \in Clients : d # c => target'[d] = target[d]
    BY <1>0, <1>6 DEF Dispatch, Reply
  <2> QED BY <1>0, <1>1, <1>5, <2>1, <2>2, <2>3
<1>7. ASSUME Rotate(c)
      PROVE  ClientTypes'
  <2> DEFINE i == Ticket % asked.size
  <2>1. Ready /\ i \in Pools /\ i \in Nat
    <3>1. Ready
      BY <1>0, <1>7 DEF Rotate
    <3>2. Ticket \in Nat
      <4>1. index + 1 \in Nat /\ IndexWrap \in Nat \ {0}
        BY MultiPoolAssumption DEF TypeInv, RotationInv, Numbered
      <4>2. Ticket \in 0..(IndexWrap - 1)
        BY <4>1, Division DEF Ticket
      <4> QED BY <4>1, <4>2
    <3>3. i \in 0..(asked.size - 1) /\ asked.size \in Nat
      BY <1>1, <3>1, <3>2, Division
    <3> HIDE DEF i
    <3> QED BY <1>1, <3>1, <3>3
  <2>2. /\ scan' = scan /\ retry' = retry /\ pc[c] = "next"
        /\ pc' = [pc EXCEPT ![c] = "enter"] /\ target' = [target EXCEPT ![c] = i]
    BY <1>7 DEF Rotate
  <2> HIDE DEF i
  <2> QED BY <1>0, <1>5, <2>1, <2>2
<1>8. ASSUME Enter(c) \/ Woken(c) \/ Retrieve(c)
      PROVE  ClientTypes'
  <2>1. Ready /\ pc[c] # "scan" /\ scan' = scan
    BY <1>0, <1>8 DEF Enter, Woken, Retrieve
  <2>2. pc' \in [Clients -> {"idle", "next", "scan", "enter", "retrieve", "blocked"}]
        /\ pc'[c] # "scan" /\ \A d \in Clients : d # c => pc'[d] = pc[d]
    BY <1>0, <1>8 DEF Enter, Woken, Retrieve, Reply, Goto
  <2>3. target' \in [Clients -> Nat] /\ target'[c] \in {target[c], 0}
        /\ \A d \in Clients : d # c => target'[d] = target[d]
    BY <1>0, <1>8 DEF Enter, Woken, Retrieve, Reply, Goto
  <2>4. retry' \in [Clients -> BOOLEAN]
    BY <1>0, <1>8 DEF Enter, Woken, Retrieve, Reply, Goto
  <2> QED BY <1>0, <1>1, <1>5, <2>1, <2>2, <2>3, <2>4
<1>9. ASSUME ScanOne(c)
      PROVE  ClientTypes'
  <2> DEFINE i == scan[c].at
             last == i + 1 \notin Pools
             less == Running(i) < scan[c].least
             next == IF last THEN NoScan
                     ELSE [at |-> i + 1, least |-> IF less THEN Running(i)
                                                   ELSE scan[c].least]
  <2>1. Ready /\ i \in Pools /\ i \in Nat /\ scan[c].least \in 0..I32Max
    BY <1>0, <1>1, <1>9 DEF ScanOne
  <2>2. Running(i) \in Nat
    <3>1. pool[i].busy \in Nat /\ pool[i].idle \in Nat /\ pool[i].leaving \in Nat
      BY <1>1, <2>1, PoolFields
    <3> HIDE DEF i
    <3> QED BY <3>1 DEF Running
  <2>3. /\ scan' = [scan EXCEPT ![c] = next]
        /\ target' = [target EXCEPT ![c] = IF i = 0 \/ less THEN i ELSE target[c]]
        /\ pc' = [pc EXCEPT ![c] = IF last THEN "enter" ELSE "scan"]
        /\ retry' = retry
    BY <1>9 DEF ScanOne
  <2>4. next \in [at : Nat, least : 0..I32Max]
        /\ (last => next.at = 0) /\ (~last => next.at \in Pools)
    <3>1. I32Max \in Nat
      BY ConstructAssumption
    <3>2. less => Running(i) \in 0..I32Max
      BY <2>1, <2>2, <3>1
    <3>3. (IF less THEN Running(i) ELSE scan[c].least) \in 0..I32Max
      BY <2>1, <3>2
    <3> QED BY <2>1, <3>1, <3>3 DEF NoScan
  <2> HIDE DEF i, last, less, next
  <2>5. scan' \in [Clients -> [at : Nat, least : 0..I32Max]]
        /\ scan'[c] = next /\ \A d \in Clients : d # c => scan'[d] = scan[d]
    BY <1>0, <2>3, <2>4
  <2>6. target' \in [Clients -> Nat] /\ \A d \in Clients : Ready => target'[d] \in Pools
    BY <1>0, <2>1, <2>3
  <2>7. pc' \in [Clients -> {"idle", "next", "scan", "enter", "retrieve", "blocked"}]
        /\ pc'[c] = (IF last THEN "enter" ELSE "scan")
        /\ \A d \in Clients : d # c => pc'[d] = pc[d]
    BY <1>0, <2>3
  <2> QED BY <1>0, <1>1, <2>1, <2>3, <2>4, <2>5, <2>6, <2>7 DEF ClientTypes
<1> QED
  BY <1>2, <1>3, <1>4, <1>6, <1>7, <1>8, <1>9 DEF ClientStep

(* A controller begins, deals with one pool after the other, and ends.     *)
LEMMA ControllerKeepsTypes ==
  ASSUME TypeInv, asked' = asked, Pools' = Pools, NEW k \in Controllers,
         Call(k) \/ ControllerStep(k) \/ ContextEnds(k)
  PROVE  SharedTypes' /\ PoolTypes' /\ ClientTypes' /\ ControllerTypes'
<1>0. /\ ctl \in [Controllers -> {"idle", "release", "reset", "reboot", "tune"}]
      /\ ctx \in [Controllers -> {"nil", "live", "ended"}]
      /\ left \in [Controllers -> SUBSET Pools]
      /\ waits \in [Controllers -> SUBSET Pools]
      /\ failed \in [Controllers -> SUBSET Pools]
      /\ want \in [Controllers -> TuneSizes \cup {0}]
      /\ ops \in [Controllers -> 0..MaxOps]
      /\ MaxOps \in Nat /\ Contexts \subseteq {"nil", "live"}
  BY MultiPoolAssumption DEF TypeInv, ControllerTypes
<1>1. /\ asked \in Requests /\ state \in {"OPENED", "CLOSED"} /\ calls \in 0..MaxCalls
      /\ PoolTypes /\ ControllerTypes /\ ClientTypes
  BY DEF TypeInv, SharedTypes
<1>2. ClientTypes' /\ SharedTypes'
  <2>1. UNCHANGED clientVars /\ state' \in {"OPENED", "CLOSED"}
    BY <1>1
    DEF Call, Release, Reboot, Tune, ControllerStep, ReleasePool, WaitEnds, GivesUp,
        RebootPool, TunePool, Joined, ResetIndex, ContextEnds
  <2> QED BY <1>1, <2>1 DEF ClientTypes, SharedTypes, clientVars, Ready
<1>3. PoolTypes'
  <2>1. CASE \E i \in Pools : ReleasePool(k, i) \/ RebootPool(k, i) \/ TunePool(k, i)
    BY <1>1, <2>1, ControllerKeepsPool
  <2>2. CASE pool' = pool
    BY <1>1, <2>2 DEF PoolTypes
  <2> QED
    BY <2>1, <2>2
    DEF Call, Release, Reboot, Tune, ControllerStep, WaitEnds, GivesUp, Joined,
        ResetIndex, ContextEnds
<1>4. ASSUME Call(k)
      PROVE  ControllerTypes'
  <2>1. ops' \in [Controllers -> 0..MaxOps]
    <3>1. ops[k] + 1 \in 0..MaxOps
      BY <1>0, <1>4 DEF Call, Release, Reboot, Tune
    <3> QED BY <1>0, <1>4, <3>1 DEF Call, Release, Reboot, Tune
  <2>2. /\ ctl' \in [Controllers -> {"idle", "release", "reset", "reboot", "tune"}]
        /\ left' \in [Controllers -> SUBSET Pools]
        /\ want' \in [Controllers -> TuneSizes \cup {0}]
        /\ UNCHANGED <<waits, failed>>
    BY <1>0, <1>4 DEF Call, Release, Reboot, Tune, releaseVars
  <2>3. ctx' \in [Controllers -> {"nil", "live", "ended"}]
    BY <1>0, <1>4 DEF Call, Release, Reboot, Tune, releaseVars
  <2> QED BY <1>0, <2>1, <2>2, <2>3 DEF ControllerTypes
<1>5. ASSUME ContextEnds(k)
      PROVE  ControllerTypes'
  BY <1>0, <1>5 DEF ContextEnds, ControllerTypes
<1>6. ASSUME Joined(k) \/ ResetIndex(k)
      PROVE  ControllerTypes'
  BY <1>0, <1>6 DEF Joined, ResetIndex, ControllerTypes, releaseVars
<1>7. ASSUME \E i \in Pools : ReleasePool(k, i) \/ WaitEnds(k, i) \/ GivesUp(k, i)
      PROVE  ControllerTypes'
  BY <1>0, <1>7 DEF ReleasePool, WaitEnds, GivesUp, ControllerTypes
<1>8. ASSUME \E i \in Pools : RebootPool(k, i) \/ TunePool(k, i)
      PROVE  ControllerTypes'
  BY <1>0, <1>8 DEF RebootPool, TunePool, TakesNext, ControllerTypes, releaseVars
<1> QED
  BY <1>2, <1>3, <1>4, <1>5, <1>6, <1>7, <1>8 DEF ControllerStep

LEMMA TypeStep == TypeInv /\ [Next]_vars => TypeInv'
<1> SUFFICES ASSUME TypeInv, [Next]_vars
             PROVE  TypeInv'
  OBVIOUS
<1>1. RotationInv' /\ UNCHANGED <<asked, Pools>>
  BY StepKeepsRound, PoolsStay DEF TypeInv
<1>2. CASE \E c \in Clients : Dispatch(c) \/ ClientStep(c)
  BY <1>1, <1>2, ClientKeepsTypes DEF TypeInv
<1>3. CASE \E k \in Controllers : Call(k) \/ ControllerStep(k) \/ ContextEnds(k)
  BY <1>1, <1>3, ControllerKeepsTypes DEF TypeInv
<1>4. CASE \E i \in Pools : TaskEnds(i) \/ Purged(i) \/ Leaves(i)
  <2>1. PoolTypes'
    BY <1>4, WorkerKeepsPool DEF TypeInv
  <2>2. UNCHANGED <<state, clientVars, ctlVars>>
    BY <1>4 DEF TaskEnds, Purged, Leaves
  <2>3. SharedTypes' /\ ClientTypes' /\ ControllerTypes'
    BY <1>1, <2>2
    DEF TypeInv, SharedTypes, ClientTypes, ControllerTypes, clientVars, ctlVars,
        releaseVars, Ready
  <2> QED BY <1>1, <2>1, <2>3 DEF TypeInv
<1>5. CASE UNCHANGED vars
  BY <1>1, <1>5
  DEF TypeInv, SharedTypes, PoolTypes, ClientTypes, ControllerTypes, vars, clientVars,
      ctlVars, releaseVars, Ready
<1> QED BY <1>2, <1>3, <1>4, <1>5 DEF Next

LEMMA TypeInitially == Init => TypeInv
<1> SUFFICES ASSUME Init PROVE TypeInv
  OBVIOUS
<1>1. RotationInv
  BY StartsFresh
<1>2. I32Max \in Nat /\ MaxCalls \in Nat /\ MaxOps \in Nat /\ asked \in Requests
  BY ConstructAssumption, MultiPoolAssumption DEF Init
<1>3. SharedTypes /\ ControllerTypes
  BY <1>2 DEF Init, SharedTypes, ControllerTypes
<1>4. ClientTypes
  <2>1. Ready => 0 \in Pools
    BY <1>1 DEF RotationInv, Numbered
  <2> QED BY <1>2, <2>1 DEF Init, ClientTypes
<1>5. PoolTypes
  <2> DEFINE made == NewMultiPool(asked)
             new == [state |-> "OPENED", cap |-> made.value.size, busy |-> 0,
                     idle |-> 0, leaving |-> 0, drained |-> FALSE]
  <2>1. pool = [i \in IF IsOk(made) THEN 0..(asked.size - 1) ELSE {} |-> new]
    BY DEF Init
  <2>2. IsOk(made) => made.value.size \in Int
    <3>1. asked.perPool \in Int
      BY <1>2, MultiPoolAssumption
    <3>2. CoreSize(asked.perPool) \in Int
      BY <3>1 DEF CoreSize
    <3> QED BY <3>2 DEF NewMultiPool, NewPool, NewCore, IsOk, Ok, Err
  <2>3. IsOk(made) => new \in PoolRecords
    BY <2>2 DEF PoolRecords
  <2> HIDE DEF made
  <2> QED BY <2>1, <2>3 DEF PoolTypes, Pools
<1> QED BY <1>1, <1>3, <1>4, <1>5 DEF TypeInv

(* The counts, cursors and places of a multi-pool keep their types, and a  *)
(* closed pool has no idle workers, whatever the number of pools, clients  *)
(* and controllers (multipool.rs).                                         *)
THEOREM MultiPoolTypes == Spec => []MultiPoolTypeOK
<1>1. TypeInv => MultiPoolTypeOK
  <2> SUFFICES ASSUME TypeInv PROVE MultiPoolTypeOK
    OBVIOUS
  <2>1. Ready => target \in [Clients -> Pools]
    BY DEF TypeInv, ClientTypes
  <2> QED
    BY <2>1
    DEF TypeInv, RotationInv, Numbered, SharedTypes, PoolTypes, PoolRecords,
        ClientTypes, ControllerTypes, MultiPoolTypeOK
<1> QED BY <1>1, TypeInitially, TypeStep, PTL DEF Spec

-----------------------------------------------------------------------------
(* What the pools have in common while one thread at a time releases,      *)
(* reboots and tunes them.                                                 *)

(* Without this the promises do not hold: a reboot that begins before a    *)
(* release has closed the last pool passes over the ones still open.       *)
Alone == \A k, m \in Controllers : k = m

AllAre(s) == \A i \in Pools : pool[i].state = s
OneCapacity == \A i, j \in Pools : pool[i].cap = pool[j].cap

(* What a tune makes of a capacity of n. *)
Retuned(k, n) == IF n = -1 \/ want[k] <= 0 \/ Opts.preAlloc THEN n ELSE want[k]

(* The pools that k has dealt with are done, the others as before. *)
Agreeing(k) ==
  /\ ctl[k] # "tune" => OneCapacity
  /\ ctl[k] \in {"idle", "reset"} => left[k] = {}
  /\ ctl[k] = "idle" => AllAre(state)
  /\ ctl[k] = "release" =>
       state = "CLOSED" /\ \A i \in Pools \ left[k] : pool[i].state = "CLOSED"
  /\ ctl[k] \in {"reset", "reboot"} => state = "OPENED"
  /\ ctl[k] = "reboot" => \A i \in Pools \ left[k] : pool[i].state = "OPENED"
  /\ ctl[k] = "tune" =>
       /\ AllAre(state)
       /\ \A i, j \in left[k] : pool[i].cap = pool[j].cap
       /\ \A i \in Pools \ left[k], j \in Pools :
            pool[i].cap = IF j \in left[k] THEN Retuned(k, pool[j].cap)
                          ELSE pool[j].cap

(* A pool that a release with a context has closed is waited for, has been *)
(* given up, or has no workers left.                                       *)
Draining(k) ==
  ctl[k] = "release" /\ ctx[k] # "nil" =>
    \A i \in Pools \ left[k] : i \in waits[k] \/ i \in failed[k] \/ pool[i].drained

AgreeInv ==
  /\ TypeInv
  /\ \A k \in Controllers : Agreeing(k) /\ Draining(k)
  /\ Controllers = {} => AllAre(state) /\ OneCapacity

(* Clients and workers change nothing that the pools have in common, and   *)
(* do not open a latch again.                                              *)
SameForAll ==
  /\ UNCHANGED <<asked, Pools, state, ctlVars>>
  /\ \A i \in Pools : /\ pool'[i].state = pool[i].state
                      /\ pool'[i].cap = pool[i].cap
                      /\ pool[i].drained => pool'[i].drained

LEMMA SameKeepsAgreement ==
  ASSUME ControllerTypes, NEW k \in Controllers, Agreeing(k), Draining(k), SameForAll
  PROVE  Agreeing(k)' /\ Draining(k)'
<1>1. /\ UNCHANGED <<state, ctl, left, ctx, waits, failed, want>>
      /\ Pools' = Pools /\ Opts' = Opts
      /\ \A i \in Pools : /\ pool'[i].state = pool[i].state
                          /\ pool'[i].cap = pool[i].cap
                          /\ pool[i].drained => pool'[i].drained
  BY DEF SameForAll, ctlVars, releaseVars, Opts
<1>2. Draining(k)'
  BY <1>1 DEF Draining
<1>3. \A s : AllAre(s)' <=> AllAre(s)
  BY <1>1 DEF AllAre
<1>4. CASE ctl[k] # "tune"
  BY <1>1, <1>2, <1>3, <1>4 DEF Agreeing, OneCapacity
<1>5. CASE ctl[k] = "tune"
  <2>1. (Opts.preAlloc)' = Opts.preAlloc
    BY <1>1
  <2>2. \A i \in Pools \ left[k], j \in Pools :
          pool'[i].cap = IF j \in left[k] THEN Retuned(k, pool[j].cap) ELSE pool'[j].cap
    BY <1>1, <1>5 DEF Agreeing
  <2>3. (\A i \in Pools \ left[k], j \in Pools :
           pool[i].cap = IF j \in left[k] THEN Retuned(k, pool[j].cap)
                         ELSE pool[j].cap)'
    BY <1>1, <2>1, <2>2 DEF Retuned
  <2>4. AllAre(state)' /\ (\A i, j \in left[k] : pool[i].cap = pool[j].cap)'
    <3>1. left'[k] \subseteq Pools
      BY <1>1 DEF ControllerTypes
    <3> QED BY <1>1, <1>3, <1>5, <3>1 DEF Agreeing
  <2> QED BY <1>1, <1>2, <1>5, <2>3, <2>4 DEF Agreeing
<1> QED BY <1>4, <1>5

LEMMA ClientsAndWorkersKeepSame ==
  ASSUME TypeInv, [Next]_vars,
         ~\E k \in Controllers : Call(k) \/ ControllerStep(k) \/ ContextEnds(k)
  PROVE  SameForAll
<1>0. UNCHANGED <<asked, Pools>> /\ PoolTypes
  BY PoolsStay DEF TypeInv
<1>1. ASSUME NEW i \in Pools, TaskEnds(i) \/ Purged(i) \/ Leaves(i)
      PROVE  SameForAll
  <2>1. \A j \in Pools : /\ pool'[j].state = pool[j].state
                         /\ pool'[j].cap = pool[j].cap
                         /\ pool[j].drained => pool'[j].drained
    <3> SUFFICES ASSUME NEW j \in Pools
                 PROVE  /\ pool'[j].state = pool[j].state
                        /\ pool'[j].cap = pool[j].cap
                        /\ pool[j].drained => pool'[j].drained
      OBVIOUS
    <3>1. pool \in [Pools -> PoolRecords]
      BY <1>0 DEF PoolTypes
    <3>2. CASE TaskEnds(i)
      BY <3>1, <3>2 DEF TaskEnds, Drains, PoolRecords
    <3>3. CASE Purged(i)
      BY <3>1, <3>3 DEF Purged, PoolRecords
    <3>4. CASE Leaves(i)
      BY <3>1, <3>4 DEF Leaves, Drains, PoolRecords
    <3> QED BY <1>1, <3>2, <3>3, <3>4
  <2>2. UNCHANGED <<state, ctlVars>>
    BY <1>1 DEF TaskEnds, Purged, Leaves
  <2> QED BY <1>0, <2>1, <2>2 DEF SameForAll
<1>2. ASSUME NEW c \in Clients, Dispatch(c) \/ ClientStep(c)
      PROVE  SameForAll
  <2>1. UNCHANGED <<state, ctlVars>>
    BY <1>2 DEF Dispatch, ClientStep, Rotate, ScanOne, Enter, Retrieve, Woken
  <2>2. CASE pool' = pool
    BY <1>0, <2>1, <2>2 DEF SameForAll
  <2>3. CASE pool' = Taken(target[c])
    <3>1. pool \in [Pools -> PoolRecords]
      BY <1>0 DEF PoolTypes
    <3>2. \A j \in Pools : /\ pool'[j].state = pool[j].state
                           /\ pool'[j].cap = pool[j].cap
                           /\ pool[j].drained => pool'[j].drained
      BY <2>3, <3>1 DEF Taken, PoolRecords
    <3> QED BY <1>0, <2>1, <3>2 DEF SameForAll
  <2> QED
    BY <1>2, <2>2, <2>3
    DEF Dispatch, ClientStep, Rotate, ScanOne, Enter, Retrieve, Woken
<1>3. CASE UNCHANGED vars
  BY <1>0, <1>3 DEF vars, SameForAll
<1> QED BY <1>1, <1>2, <1>3 DEF Next

(* The one controller deals with one more pool, or goes from one call to   *)
(* the next with all of them done.                                         *)
LEMMA ControllerKeepsAgreement ==
  ASSUME TypeInv, Pools' = Pools, asked' = asked, NEW k \in Controllers,
         Agreeing(k), Draining(k), Call(k) \/ ControllerStep(k) \/ ContextEnds(k)
  PROVE  Agreeing(k)' /\ Draining(k)'
<1>0. /\ ctl \in [Controllers -> {"idle", "release", "reset", "reboot", "tune"}]
      /\ ctx \in [Controllers -> {"nil", "live", "ended"}]
      /\ left \in [Controllers -> SUBSET Pools] /\ left[k] \subseteq Pools
      /\ waits \in [Controllers -> SUBSET Pools]
      /\ failed \in [Controllers -> SUBSET Pools]
      /\ want \in [Controllers -> TuneSizes \cup {0}]
      /\ state \in {"OPENED", "CLOSED"}
      /\ pool \in [Pools -> PoolRecords]
  BY DEF TypeInv, ControllerTypes, SharedTypes, PoolTypes
<1>1. (Opts.preAlloc)' = Opts.preAlloc
  BY DEF Opts
<1>2. ASSUME pool' = pool, ctl[k] = "idle" \/ ctl[k] = "reset", ctl'[k] # "tune",
             state' = "CLOSED" \/ state' = state
                \/ (state' = "OPENED" /\ ctl'[k] = "reset"),
             \/ ctl'[k] = ctl[k] /\ left' = left /\ state' = state
             \/ ctl'[k] = "release" /\ left'[k] = Pools /\ state' = "CLOSED"
             \/ ctl'[k] = "reboot" /\ left'[k] = Pools /\ state' = "OPENED"
             \/ ctl'[k] = "reset" /\ left' = left /\ state' = "OPENED"
      PROVE  Agreeing(k)' /\ Draining(k)'
  BY <1>0, <1>2 DEF Agreeing, Draining, AllAre, OneCapacity
<1>3. CASE Release(k)
  BY <1>0, <1>2, <1>3 DEF Release
<1>4. CASE Reboot(k)
  BY <1>0, <1>2, <1>4 DEF Reboot
<1>5. CASE ResetIndex(k)
  <2>1. state = "OPENED"
    BY <1>5 DEF ResetIndex, Agreeing
  <2> QED BY <1>0, <1>2, <1>5, <2>1 DEF ResetIndex
<1>6. CASE Tune(k)
  <2>1. pool' = pool /\ state' = state /\ ctl'[k] = "tune" /\ left'[k] = Pools
    BY <1>0, <1>6 DEF Tune
  <2>2. AllAre(state) /\ OneCapacity
    BY <1>6 DEF Tune, Agreeing
  <2> QED BY <2>1, <2>2 DEF Agreeing, Draining, AllAre, OneCapacity
<1>7. CASE ContextEnds(k)
  BY <1>0, <1>7 DEF ContextEnds, Agreeing, Draining, AllAre, OneCapacity
<1>8. CASE \E i \in Pools : ReleasePool(k, i)
  <2>1. PICK i \in Pools : ReleasePool(k, i)
    BY <1>8
  <2>2. /\ ctl[k] = "release" /\ UNCHANGED <<state, ctl, ctx>>
        /\ left'[k] = left[k] \ {i}
        /\ \A j \in Pools : j # i => pool'[j] = pool[j]
        /\ \A j \in Pools : pool'[j].cap = pool[j].cap
        /\ pool'[i].state = "CLOSED"
    BY <1>0, <2>1 DEF ReleasePool, PoolRecords
  <2>3. /\ ctx[k] # "nil" => i \in waits'[k] \/ i \in failed'[k]
        /\ waits[k] \subseteq waits'[k] /\ failed[k] \subseteq failed'[k]
    BY <1>0, <2>1 DEF ReleasePool
  <2>4. Agreeing(k)'
    BY <2>2 DEF Agreeing, OneCapacity
  <2>5. Draining(k)'
    BY <2>2, <2>3 DEF Draining
  <2> QED BY <2>4, <2>5
<1>9. CASE \E i \in Pools : WaitEnds(k, i) \/ GivesUp(k, i)
  <2>1. PICK i \in Pools : WaitEnds(k, i) \/ GivesUp(k, i)
    BY <1>9
  <2>2. UNCHANGED <<state, pool, ctl, left, ctx, want>>
    BY <2>1 DEF WaitEnds, GivesUp
  <2>3. /\ failed[k] \subseteq failed'[k] /\ waits'[k] = waits[k] \ {i}
        /\ i \in failed'[k] \/ pool[i].drained
    BY <1>0, <2>1 DEF WaitEnds, GivesUp
  <2>4. Agreeing(k)'
    BY <1>1, <2>2 DEF Agreeing, AllAre, OneCapacity, Retuned
  <2>5. Draining(k)'
    BY <2>2, <2>3 DEF Draining
  <2> QED BY <2>4, <2>5
<1>10. CASE Joined(k)
  <2>1. /\ ctl[k] = "release" /\ left[k] = {} /\ ctl'[k] = "idle"
        /\ UNCHANGED <<state, pool, left>>
    BY <1>0, <1>10 DEF Joined
  <2> QED BY <2>1 DEF Agreeing, Draining, AllAre, OneCapacity
<1>11. CASE \E i \in Pools : RebootPool(k, i)
  <2>1. PICK i \in Pools : RebootPool(k, i)
    BY <1>11
  <2>2. /\ ctl[k] = "reboot" /\ state' = state
        /\ left'[k] = left[k] \ {i}
        /\ ctl'[k] = IF left[k] = {i} THEN "idle" ELSE "reboot"
    BY <1>0, <2>1 DEF RebootPool, TakesNext
  <2>3. /\ \A j \in Pools : j # i => pool'[j] = pool[j]
        /\ \A j \in Pools : pool'[j].cap = pool[j].cap
        /\ pool'[i].state = "OPENED"
    BY <1>0, <2>1 DEF RebootPool, PoolRecords
  <2> QED BY <2>2, <2>3 DEF Agreeing, Draining, AllAre, OneCapacity
<1>12. CASE \E i \in Pools : TunePool(k, i)
  <2>1. PICK i \in Pools : TunePool(k, i)
    BY <1>12
  <2>2. /\ ctl[k] = "tune" /\ state' = state /\ i \in left[k]
        /\ left'[k] = left[k] \ {i}
        /\ ctl'[k] = IF left[k] = {i} THEN "idle" ELSE "tune"
        /\ left[k] # {i} => want'[k] = want[k]
    BY <1>0, <2>1 DEF TunePool, TakesNext
  <2>3. /\ \A j \in Pools : j # i => pool'[j].cap = pool[j].cap
        /\ \A j \in Pools : pool'[j].state = pool[j].state
        /\ pool'[i].cap = Retuned(k, pool[i].cap)
    BY <1>0, <2>1 DEF TunePool, PoolRecords, Retuned
  <2>4. /\ AllAre(state)
        /\ \A m, j \in left[k] : pool[m].cap = pool[j].cap
        /\ \A m \in Pools \ left[k], j \in Pools :
             pool[m].cap = IF j \in left[k] THEN Retuned(k, pool[j].cap)
                           ELSE pool[j].cap
    BY <2>2 DEF Agreeing
  <2>5. \A j \in Pools : pool'[j].state = state'
    BY <2>2, <2>3, <2>4 DEF AllAre
  <2>6. \A m \in Pools \ left'[k] : pool'[m].cap = Retuned(k, pool[i].cap)
    BY <1>0, <2>2, <2>3, <2>4
  <2>7. CASE left[k] = {i}
    <3>1. ctl'[k] = "idle" /\ left'[k] = {}
      BY <2>2, <2>7
    <3>2. OneCapacity'
      BY <2>6, <3>1 DEF OneCapacity
    <3> QED BY <2>5, <3>1, <3>2 DEF Agreeing, Draining, AllAre
  <2>8. CASE left[k] # {i}
    <3>1. ctl'[k] = "tune" /\ want'[k] = want[k]
      BY <2>2, <2>8
    <3>2. \A m, j \in left'[k] : pool'[m].cap = pool'[j].cap
      BY <1>0, <2>2, <2>3, <2>4
    <3>3. \A j \in left'[k] : pool'[j].cap = pool[i].cap
      BY <1>0, <2>2, <2>3, <2>4
    <3>4. \A m \in Pools \ left'[k], j \in Pools :
             pool'[m].cap = IF j \in left'[k] THEN Retuned(k, pool'[j].cap)
                            ELSE pool'[j].cap
      BY <2>6, <3>3
    <3>5. (\A m \in Pools \ left[k], j \in Pools :
             pool[m].cap = IF j \in left[k] THEN Retuned(k, pool[j].cap)
                           ELSE pool[j].cap)'
      BY <1>1, <3>1, <3>4 DEF Retuned
    <3> QED BY <2>5, <3>1, <3>2, <3>5 DEF Agreeing, Draining, AllAre
  <2> QED BY <2>7, <2>8
<1> QED
  BY <1>3, <1>4, <1>5, <1>6, <1>7, <1>8, <1>9, <1>10, <1>11, <1>12
  DEF Call, ControllerStep

LEMMA AgreeStep ==
  ASSUME Alone, AgreeInv, [Next]_vars PROVE AgreeInv'
<1>1. TypeInv /\ TypeInv' /\ UNCHANGED <<asked, Pools>>
  BY TypeStep, PoolsStay DEF AgreeInv, TypeInv
<1>2. CASE \E k \in Controllers : Call(k) \/ ControllerStep(k) \/ ContextEnds(k)
  <2>1. PICK k \in Controllers : Call(k) \/ ControllerStep(k) \/ ContextEnds(k)
    BY <1>2
  <2>2. Agreeing(k)' /\ Draining(k)'
    BY <1>1, <2>1, ControllerKeepsAgreement DEF AgreeInv
  <2>3. \A m \in Controllers : m = k
    BY DEF Alone
  <2>4. (\A m \in Controllers : Agreeing(m) /\ Draining(m))'
    BY <2>2, <2>3
  <2> QED BY <1>1, <2>4 DEF AgreeInv
<1>3. CASE ~\E k \in Controllers : Call(k) \/ ControllerStep(k) \/ ContextEnds(k)
  <2>1. SameForAll
    BY <1>1, <1>3, ClientsAndWorkersKeepSame
  <2>2. \A k \in Controllers : Agreeing(k)' /\ Draining(k)'
    BY <1>1, <2>1, SameKeepsAgreement DEF AgreeInv, TypeInv
  <2>3. (\A k \in Controllers : Agreeing(k) /\ Draining(k))'
    BY <2>2
  <2>4. AllAre(state) /\ OneCapacity => (AllAre(state) /\ OneCapacity)'
    BY <2>1 DEF SameForAll, AllAre, OneCapacity
  <2> QED BY <1>1, <2>3, <2>4 DEF AgreeInv
<1> QED BY <1>2, <1>3

LEMMA AgreeInitially == Init => AgreeInv
<1> SUFFICES ASSUME Init PROVE AgreeInv
  OBVIOUS
<1>1. TypeInv
  BY TypeInitially
<1>2. AllAre(state) /\ OneCapacity
  <2> DEFINE made == NewMultiPool(asked)
  <2>1. pool = [i \in IF IsOk(made) THEN 0..(asked.size - 1) ELSE {} |->
                  [state |-> "OPENED", cap |-> made.value.size, busy |-> 0,
                   idle |-> 0, leaving |-> 0, drained |-> FALSE]]
        /\ state = "OPENED"
    BY DEF Init
  <2> HIDE DEF made
  <2> QED BY <2>1 DEF AllAre, OneCapacity, Pools
<1>3. \A k \in Controllers : Agreeing(k) /\ Draining(k)
  BY <1>2 DEF Init, Agreeing, Draining
<1> QED BY <1>1, <1>2, <1>3 DEF AgreeInv

(* While one thread at a time releases, reboots and tunes the multi-pool,  *)
(* its pools change together (multipool.rs release_context(), reboot(),    *)
(* tune()).                                                                *)
THEOREM AgreeInvariant ==
  ASSUME Alone PROVE Spec => []AgreeInv
<1>1. Init => AgreeInv
  BY AgreeInitially
<1>2. AgreeInv /\ [Next]_vars => AgreeInv'
  BY AgreeStep
<1> QED BY <1>1, <1>2, PTL DEF Spec

LEMMA AtRestAgree ==
  ASSUME AgreeInv, AtRest PROVE AllAre(state) /\ OneCapacity
<1>1. CASE Controllers = {}
  BY <1>1 DEF AgreeInv
<1>2. CASE Controllers # {}
  <2>1. PICK k \in Controllers : TRUE
    BY <1>2
  <2> QED BY <2>1 DEF AgreeInv, AtRest, Agreeing
<1> QED BY <1>1, <1>2

(* No pool is left behind in another state or with another capacity than   *)
(* the multi-pool's (multipool.rs).                                        *)
THEOREM PoolsDoAgree ==
  ASSUME Alone PROVE Spec => []PoolsAgree
<1>1. AgreeInv => PoolsAgree
  BY AtRestAgree DEF PoolsAgree, AllAre, OneCapacity
<1> QED BY <1>1, AgreeInvariant, PTL

(* A client who found the multi-pool open is turned away by the pool it is *)
(* sent to (multipool.rs deliver(), pool_common.rs retrieve_worker()).     *)
THEOREM NothingGetsIn ==
  ASSUME Alone PROVE Spec => ClosedTakesNothing
<1>1. AgreeInv /\ [Next]_vars =>
        [AtRest /\ state = "CLOSED" =>
           \A c \in Clients : pc'[c] = "retrieve" => pc[c] = "retrieve"]_vars
  <2> SUFFICES ASSUME AgreeInv, [Next]_vars, AtRest, state = "CLOSED",
                      NEW c \in Clients, pc'[c] = "retrieve", pc[c] # "retrieve"
               PROVE  FALSE
    OBVIOUS
  <2>0. /\ pc \in [Clients -> {"idle", "next", "scan", "enter", "retrieve", "blocked"}]
        /\ \A d \in Clients : pc[d] # "idle" => target[d] \in Pools
    BY DEF AgreeInv, TypeInv, ClientTypes
  <2>1. \A i \in Pools : pool[i].state = "CLOSED"
    BY AtRestAgree DEF AllAre
  <2>2. pc' # pc
    OBVIOUS
  <2>3. PICK d \in Clients : Dispatch(d) \/ ClientStep(d)
    <3>1. ~\E i \in Pools : TaskEnds(i) \/ Purged(i) \/ Leaves(i)
      BY <2>2 DEF TaskEnds, Purged, Leaves, clientVars
    <3>2. ~\E k \in Controllers : Call(k)
      <4>1. \A k \in Controllers : Release(k) \/ Reboot(k) \/ Tune(k) => pc' = pc
        BY DEF Release, Reboot, Tune, clientVars
      <4> QED BY <2>2, <4>1 DEF Call
    <3>3. ~\E k \in Controllers : ControllerStep(k) \/ ContextEnds(k)
      <4>1. \A k \in Controllers : \A i \in Pools :
              ReleasePool(k, i) \/ WaitEnds(k, i) \/ GivesUp(k, i) => pc' = pc
        BY DEF ReleasePool, WaitEnds, GivesUp, clientVars
      <4>2. \A k \in Controllers : \A i \in Pools :
              RebootPool(k, i) \/ TunePool(k, i) => pc' = pc
        BY DEF RebootPool, TunePool, clientVars
      <4>3. \A k \in Controllers :
              Joined(k) \/ ResetIndex(k) \/ ContextEnds(k) => pc' = pc
        BY DEF Joined, ResetIndex, ContextEnds, clientVars
      <4> QED BY <2>2, <4>1, <4>2, <4>3 DEF ControllerStep
    <3>4. ~UNCHANGED vars
      BY <2>2 DEF vars, clientVars
    <3> QED BY <3>1, <3>2, <3>3, <3>4 DEF Next
  <2>4. d = c
    <3> SUFFICES ASSUME d # c PROVE pc'[c] = pc[c]
      OBVIOUS
    <3>1. CASE Dispatch(d) \/ Rotate(d) \/ ScanOne(d)
      BY <2>0, <3>1 DEF Dispatch, Rotate, ScanOne, Reply
    <3>2. CASE Enter(d) \/ Retrieve(d) \/ Woken(d)
      BY <2>0, <3>2 DEF Enter, Retrieve, Woken, Reply, Goto
    <3> QED BY <2>3, <3>1, <3>2 DEF ClientStep
  <2>5. CASE Enter(c) \/ Woken(c)
    BY <2>0, <2>1, <2>5 DEF Enter, Woken, Reply
  <2>6. CASE Dispatch(c) \/ Rotate(c) \/ ScanOne(c) \/ Retrieve(c)
    BY <2>0, <2>6 DEF Dispatch, Rotate, ScanOne, Retrieve, Reply, Goto
  <2> QED BY <2>3, <2>4, <2>5, <2>6 DEF ClientStep
<1> QED BY <1>1, AgreeInvariant, PTL DEF Spec, ClosedTakesNothing

(* One error among the pools is enough for release_context() to return an  *)
(* error (multipool.rs release_pools()).                                   *)
THEOREM OkHasDrained ==
  ASSUME Alone PROVE Spec => OkMeansDrained
<1>1. AgreeInv /\ [Next]_vars =>
        [\A k \in Controllers :
           Joined(k) /\ ctx[k] # "nil" /\ ReturnsOk(k) =>
             \A i \in Pools : pool[i].drained]_vars
  BY DEF AgreeInv, Draining, Joined, ReturnsOk
<1> QED BY <1>1, AgreeInvariant, PTL DEF Spec, OkMeansDrained

=============================================================================
