------------------------- MODULE PoolOwnershipProofs -------------------------
(***************************************************************************)
(* Who holds which worker, and what becomes of each task: theorems about   *)
(* PoolCore for every number of callers, workers and tuners and every      *)
(* option.                                                                 *)
(***************************************************************************)
EXTENDS PoolCoreProofs

(* Sequences without repetitions, and who is in them.                      *)

LEMMA TakeHead ==
  ASSUME NEW S, NEW s \in Seq(S), s # <<>>, IsInjective(s)
  PROVE  /\ Head(s) \in Range(s)
         /\ Range(Tail(s)) = Range(s) \ {Head(s)}
         /\ IsInjective(Tail(s))
<1>1. Len(s) \in Nat /\ Len(s) > 0 /\ DOMAIN s = 1..Len(s)
  OBVIOUS
<1>2. /\ DOMAIN Tail(s) = 1..(Len(s) - 1)
      /\ \A i \in 1..(Len(s) - 1) : Tail(s)[i] = s[i + 1]
  BY <1>1
<1>3. Head(s) = s[1]
  OBVIOUS
<1>4. Head(s) \in Range(s)
  BY <1>1, <1>3 DEF Range
<1>5. IsInjective(Tail(s))
  BY <1>1, <1>2 DEF IsInjective
<1>6. ASSUME NEW x \in Range(Tail(s))
      PROVE  x \in Range(s) \ {Head(s)}
  BY <1>1, <1>2, <1>3 DEF Range, IsInjective
<1>7. ASSUME NEW x \in Range(s) \ {Head(s)}
      PROVE  x \in Range(Tail(s))
  <2>1. PICK i \in 1..Len(s) : s[i] = x
    BY <1>1 DEF Range
  <2>2. i - 1 \in 1..(Len(s) - 1)
    BY <1>1, <1>3, <2>1
  <2>3. Tail(s)[i - 1] = x
    BY <1>2, <2>1, <2>2
  <2> QED
    BY <1>2, <2>2, <2>3 DEF Range
<1> QED
  BY <1>4, <1>5, <1>6, <1>7

LEMMA TakeLast ==
  ASSUME NEW S, NEW s \in Seq(S), s # <<>>, IsInjective(s)
  PROVE  /\ Last(s) \in Range(s)
         /\ Range(Front(s)) = Range(s) \ {Last(s)}
         /\ IsInjective(Front(s))
<1>1. Len(s) \in Nat /\ Len(s) > 0 /\ DOMAIN s = 1..Len(s)
  OBVIOUS
<1>2. /\ DOMAIN Front(s) = 1..(Len(s) - 1)
      /\ \A i \in 1..(Len(s) - 1) : Front(s)[i] = s[i]
  BY <1>1 DEF Front
<1>3. Last(s) = s[Len(s)]
  BY DEF Last
<1>4. Last(s) \in Range(s)
  BY <1>1, <1>3 DEF Range
<1>5. IsInjective(Front(s))
  BY <1>1, <1>2 DEF IsInjective
<1>6. ASSUME NEW x \in Range(Front(s))
      PROVE  x \in Range(s) \ {Last(s)}
  BY <1>1, <1>2, <1>3 DEF Range, IsInjective
<1>7. ASSUME NEW x \in Range(s) \ {Last(s)}
      PROVE  x \in Range(Front(s))
  <2>1. PICK i \in 1..Len(s) : s[i] = x
    BY <1>1 DEF Range
  <2>2. i \in 1..(Len(s) - 1)
    BY <1>1, <1>3, <2>1
  <2> QED
    BY <1>2, <2>1, <2>2 DEF Range
<1> QED
  BY <1>4, <1>5, <1>6, <1>7

LEMMA SplitAt ==
  ASSUME NEW S, NEW s \in Seq(S), IsInjective(s), NEW n \in 0..Len(s)
  PROVE  /\ Range(SubSeq(s, 1, n)) \cup Range(SubSeq(s, n + 1, Len(s))) = Range(s)
         /\ Range(SubSeq(s, 1, n)) \cap Range(SubSeq(s, n + 1, Len(s))) = {}
         /\ IsInjective(SubSeq(s, 1, n))
         /\ IsInjective(SubSeq(s, n + 1, Len(s)))
<1>1. Len(s) \in Nat /\ DOMAIN s = 1..Len(s)
  OBVIOUS
<1> DEFINE a == SubSeq(s, 1, n)
           b == SubSeq(s, n + 1, Len(s))
<1>2. DOMAIN a = 1..n /\ \A i \in 1..n : a[i] = s[i]
  BY <1>1
<1>3. /\ DOMAIN b = 1..(Len(s) - n)
      /\ \A i \in 1..(Len(s) - n) : b[i] = s[n + i]
  BY <1>1
<1> HIDE DEF a, b
<1>4. IsInjective(a)
  BY <1>1, <1>2 DEF IsInjective
<1>5. IsInjective(b)
  <2> SUFFICES ASSUME NEW i \in 1..(Len(s) - n), NEW j \in 1..(Len(s) - n),
                      b[i] = b[j]
               PROVE  i = j
    BY <1>3 DEF IsInjective
  <2>1. n + i \in 1..Len(s) /\ n + j \in 1..Len(s)
    BY <1>1
  <2>2. s[n + i] = s[n + j]
    BY <1>3
  <2>3. n + i = n + j
    BY <1>1, <2>1, <2>2 DEF IsInjective
  <2> QED
    BY <2>3
<1>6. Range(a) \subseteq Range(s) /\ Range(b) \subseteq Range(s)
  <2>1. ASSUME NEW i \in 1..n PROVE a[i] \in Range(s)
    BY <1>1, <1>2 DEF Range
  <2>2. ASSUME NEW i \in 1..(Len(s) - n) PROVE b[i] \in Range(s)
    <3>1. n + i \in 1..Len(s) /\ b[i] = s[n + i]
      BY <1>1, <1>3
    <3> QED
      BY <1>1, <3>1 DEF Range
  <2> QED
    BY <1>2, <1>3, <2>1, <2>2 DEF Range
<1>7. ASSUME NEW x \in Range(s)
      PROVE  x \in Range(a) \cup Range(b)
  <2>1. PICK i \in 1..Len(s) : s[i] = x
    BY <1>1 DEF Range
  <2>2. CASE i <= n
    BY <1>2, <2>1, <2>2 DEF Range
  <2>3. CASE i > n
    <3>1. i - n \in 1..(Len(s) - n) /\ b[i - n] = x
      BY <1>1, <1>3, <2>1, <2>3
    <3> QED
      BY <1>3, <3>1 DEF Range
  <2> QED
    BY <2>2, <2>3
<1>8. ASSUME NEW x \in Range(a), x \in Range(b)
      PROVE  FALSE
  <2>1. PICK i \in 1..n : s[i] = x
    BY <1>2 DEF Range
  <2>2. PICK j \in 1..(Len(s) - n) : s[n + j] = x
    BY <1>3, <1>8 DEF Range
  <2>3. i = n + j
    BY <1>1, <2>1, <2>2 DEF IsInjective
  <2> QED
    BY <2>3
<1> QED
  BY <1>4, <1>5, <1>6, <1>7, <1>8 DEF a, b

LEMMA AppendNew ==
  ASSUME NEW S, NEW s \in Seq(S), NEW x \in S, IsInjective(s), x \notin Range(s)
  PROVE  /\ Range(Append(s, x)) = Range(s) \cup {x}
         /\ IsInjective(Append(s, x))
<1>1. Len(s) \in Nat /\ DOMAIN s = 1..Len(s)
  OBVIOUS
<1> DEFINE a == Append(s, x)
<1>2. /\ DOMAIN a = 1..(Len(s) + 1)
      /\ a[Len(s) + 1] = x
      /\ \A i \in 1..Len(s) : a[i] = s[i]
  BY <1>1
<1> HIDE DEF a
<1>3. \A i \in 1..Len(s) : s[i] # x
  BY <1>1 DEF Range
<1>4. IsInjective(a)
  BY <1>1, <1>2, <1>3 DEF IsInjective
<1>5. ASSUME NEW y \in Range(a)
      PROVE  y \in Range(s) \cup {x}
  <2>1. PICK i \in 1..(Len(s) + 1) : a[i] = y
    BY <1>2 DEF Range
  <2> QED
    BY <1>1, <1>2, <2>1 DEF Range
<1>6. ASSUME NEW y \in Range(s) \cup {x}
      PROVE  y \in Range(a)
  <2>1. CASE y = x
    BY <1>1, <1>2, <2>1 DEF Range
  <2>2. CASE y \in Range(s)
    <3>1. PICK i \in 1..Len(s) : s[i] = y
      BY <1>1, <2>2 DEF Range
    <3> QED
      BY <1>1, <1>2, <3>1 DEF Range
  <2> QED
    BY <2>1, <2>2
<1> QED
  BY <1>4, <1>5, <1>6 DEF a

LEMMA RangeType ==
  ASSUME NEW S, NEW s \in Seq(S)
  PROVE  Range(s) \subseteq S /\ (s = <<>> <=> Range(s) = {})
<1>1. Len(s) \in Nat /\ DOMAIN s = 1..Len(s) /\ \A i \in 1..Len(s) : s[i] \in S
  OBVIOUS
<1>2. Range(s) \subseteq S
  BY <1>1 DEF Range
<1>3. s = <<>> => Range(s) = {}
  BY DEF Range
<1>4. ASSUME s # <<>> PROVE Range(s) # {}
  <2>1. 1 \in 1..Len(s)
    BY <1>1, <1>4
  <2> QED
    BY <1>1, <2>1 DEF Range
<1> QED
  BY <1>2, <1>3, <1>4

(* The empty sequence has no repetitions. *)
LEMMA EmptyInjective == IsInjective(<<>>) /\ Range(<<>>) = {}
BY DEF IsInjective, Range

(* Whichever end of the idle queue a worker is taken from, it was in the   *)
(* queue and is not any more.                                              *)
LEMMA DetachOne ==
  ASSUME items \in Seq(Workers), items # <<>>, IsInjective(items)
  PROVE  /\ Detached \in Range(items)
         /\ Range(Remaining) = Range(items) \ {Detached}
         /\ IsInjective(Remaining)
BY TakeHead, TakeLast DEF Detached, Remaining

-----------------------------------------------------------------------------
(* Ownership.                                                              *)

(* SoleOwner is not inductive: it does not say that a caller holds a       *)
(* worker just while it is about to send, nor that only a receiving worker *)
(* has something in its channel, and just one thing, nor that the          *)
(* scavenger has finished all it took out before it looks again.           *)
OwnInv ==
  /\ SoleOwner
  /\ \A c \in Callers : hand[c] # None <=> pc[c] = "send"
  /\ \A w \in Workers : chan[w] # {} => wpc[w] = "recv"
  /\ \A w \in Workers : \A m, n \in chan[w] : m = n
  /\ ppc # "finish" => stale = <<>>

(* The part of it that is about the channels alone. *)
ChannelsOK ==
  /\ \A w \in Workers : chan[w] # {} => wpc[w] = "recv"
  /\ \A w \in Workers : \A m, n \in chan[w] : m = n

LEMMA OwnInit == Init => OwnInv
<1> SUFFICES ASSUME Init PROVE OwnInv
  OBVIOUS
<1>1. /\ items = <<>> /\ stale = <<>>
      /\ \A c \in Callers : hand[c] = None /\ pc[c] = "idle"
      /\ \A w \in Workers : wpc[w] = "fresh" /\ chan[w] = {}
  BY DEF Init
<1>2. SoleOwner
  <2>1. \A w \in Workers : ~Held(w) /\ ~Waits(w)
    BY <1>1, EmptyInjective, PoolCoreAssumption DEF Held, Waits
  <2> QED
    BY <1>1, <2>1, EmptyInjective DEF SoleOwner
<1> QED
  BY <1>1, <1>2 DEF OwnInv

(* A step that moves no worker from one holder to another, and lets none   *)
(* start or stop to wait.                                                  *)
LEMMA OwnQuiet ==
  ASSUME OwnInv, ChannelsOK', items' = items, stale' = stale, hand' = hand,
         \A c \in Callers : pc'[c] = "send" <=> pc[c] = "send",
         \A w \in Workers : Waits(w)' <=> Waits(w),
         ppc' # "finish" => ppc # "finish" \/ stale = <<>>
  PROVE  OwnInv'
<1>1. SoleOwner'
  <2>1. \A w \in Workers : Held(w)' <=> Held(w)
    BY DEF Held
  <2> QED
    BY <2>1 DEF SoleOwner, OwnInv
<1> QED
  BY <1>1 DEF OwnInv, ChannelsOK

(* The idle queue gives a worker to a caller. *)
LEMMA OwnDetach ==
  ASSUME TypeOK, OwnInv, NEW c \in Callers, pc[c] # "send", items # <<>>,
         items' = Remaining, hand' = [hand EXCEPT ![c] = Detached],
         pc' = [pc EXCEPT ![c] = "send"], stale' = stale, ppc' = ppc,
         wpc' = wpc, chan' = chan
  PROVE  OwnInv'
<1> DEFINE x == Detached
<1>1. items \in Seq(Workers) /\ stale \in Seq(Workers)
  BY DEF TypeOK, CoreTypeOK, OtherTypeOK
<1>2. x \in Workers /\ x # None
  BY <1>1, DetachType, PoolCoreAssumption
<1>3. x \in Range(items) /\ Range(items') = Range(items) \ {x} /\ IsInjective(items')
  BY <1>1, DetachOne DEF OwnInv, SoleOwner
<1>4. hand'[c] = x /\ \A d \in Callers \ {c} : hand'[d] = hand[d]
  BY DEF TypeOK, CallerTypeOK
<1>5. pc'[c] = "send" /\ \A d \in Callers \ {c} : pc'[d] = pc[d]
  BY DEF TypeOK, CallerTypeOK
<1>6. hand[c] = None /\ \A d \in Callers : hand[d] # x
  BY <1>3 DEF OwnInv, SoleOwner
<1> HIDE DEF x
<1>7. ASSUME NEW w \in Workers
      PROVE  Held(w)' <=> Held(w)
  <2>1. CASE w = x
    BY <1>3, <1>4, <2>1 DEF Held
  <2>2. CASE w # x
    <3>1. w \in Range(items') <=> w \in Range(items)
      BY <1>3, <2>2
    <3>2. \A d \in Callers : hand'[d] = w <=> hand[d] = w
      BY <1>4, <1>6, <2>2, PoolCoreAssumption
    <3> QED
      BY <3>1, <3>2 DEF Held
  <2> QED
    BY <2>1, <2>2
<1>8. \A w \in Workers : Waits(w)' <=> Waits(w)
  BY DEF Waits
<1>9. \A d \in Callers : hand'[d] \notin Range(items') \cup Range(stale')
  BY <1>3, <1>4 DEF OwnInv, SoleOwner
<1>10. \A d, e \in Callers : hand'[d] = hand'[e] => d = e \/ hand'[d] = None
  BY <1>4, <1>6 DEF OwnInv, SoleOwner
<1>11. SoleOwner'
  BY <1>3, <1>7, <1>8, <1>9, <1>10 DEF OwnInv, SoleOwner
<1>12. \A d \in Callers : hand'[d] # None <=> pc'[d] = "send"
  BY <1>2, <1>4, <1>5 DEF OwnInv
<1> QED
  BY <1>11, <1>12 DEF OwnInv

(* A worker object that was not waiting starts to wait, for the caller who *)
(* has spawned it.                                                         *)
LEMMA OwnSpawn ==
  ASSUME TypeOK, OwnInv, NEW c \in Callers, Spawn(c)
  PROVE  OwnInv'
<1>1. PICK x \in Fetchable :
        wpc' = [wpc EXCEPT ![x] = "recv"] /\ hand' = [hand EXCEPT ![c] = x]
  BY DEF Spawn
<1>2. x \in Workers /\ x # None /\ wpc[x] # "recv"
  BY <1>1, PoolCoreAssumption DEF Fetchable, Cached
<1>3. /\ items' = items /\ stale' = stale /\ ppc' = ppc /\ chan' = chan
      /\ pc' = [pc EXCEPT ![c] = "send"] /\ pc[c] = "spawn"
  BY DEF Spawn, purgeVars
<1>4. hand'[c] = x /\ \A d \in Callers \ {c} : hand'[d] = hand[d]
  BY <1>1 DEF TypeOK, CallerTypeOK
<1>5. pc'[c] = "send" /\ \A d \in Callers \ {c} : pc'[d] = pc[d]
  BY <1>3 DEF TypeOK, CallerTypeOK
<1>6. wpc'[x] = "recv" /\ \A w \in Workers \ {x} : wpc'[w] = wpc[w]
  BY <1>1, <1>2 DEF TypeOK, WorkerTypeOK
<1>7. hand[c] = None
  BY <1>3 DEF OwnInv
<1>8. chan[x] = {} /\ ~Held(x)
  BY <1>2 DEF OwnInv, SoleOwner, Waits
<1>9. /\ x \notin Range(items) /\ x \notin Range(stale)
      /\ \A d \in Callers : hand[d] # x
  BY <1>8 DEF Held
<1>10. ASSUME NEW w \in Workers
       PROVE  Held(w)' <=> Waits(w)'
  <2>1. CASE w = x
    BY <1>3, <1>4, <1>6, <1>8, <2>1 DEF Held, Waits
  <2>2. CASE w # x
    <3>1. \A d \in Callers : hand'[d] = w <=> hand[d] = w
      BY <1>2, <1>4, <1>7, <2>2, PoolCoreAssumption
    <3>2. Held(w)' <=> Held(w)
      BY <1>3, <3>1 DEF Held
    <3>3. Waits(w)' <=> Waits(w)
      BY <1>3, <1>6, <2>2 DEF Waits
    <3> QED
      BY <3>2, <3>3 DEF OwnInv, SoleOwner
  <2> QED
    BY <2>1, <2>2
<1>11. \A d \in Callers : hand'[d] \notin Range(items') \cup Range(stale')
  BY <1>3, <1>4, <1>9 DEF OwnInv, SoleOwner
<1>12. \A d, e \in Callers : hand'[d] = hand'[e] => d = e \/ hand'[d] = None
  BY <1>4, <1>9 DEF OwnInv, SoleOwner
<1>13. SoleOwner'
  BY <1>3, <1>10, <1>11, <1>12 DEF OwnInv, SoleOwner
<1>14. \A d \in Callers : hand'[d] # None <=> pc'[d] = "send"
  BY <1>2, <1>4, <1>5 DEF OwnInv
<1>15. ChannelsOK'
  BY <1>3, <1>6 DEF OwnInv, ChannelsOK
<1> QED
  BY <1>3, <1>13, <1>14, <1>15 DEF OwnInv, ChannelsOK

(* A worker who has a message in its channel stops to be anybody's. *)
LEMMA OwnMessage ==
  ASSUME TypeOK, OwnInv, NEW x \in Workers, NEW m, Waits(x),
         chan' = [chan EXCEPT ![x] = {m}], wpc' = wpc
  PROVE  /\ ChannelsOK'
         /\ \A w \in Workers : Waits(w)' <=> Waits(w) /\ w # x
<1>1. chan'[x] = {m} /\ \A w \in Workers \ {x} : chan'[w] = chan[w]
  BY DEF TypeOK, WorkerTypeOK
<1> QED
  BY <1>1 DEF OwnInv, ChannelsOK, Waits

(* The caller hands its task over. *)
LEMMA OwnSend ==
  ASSUME TypeOK, OwnInv, NEW c \in Callers, Send(c)
  PROVE  OwnInv'
<1> DEFINE x == hand[c]
<1>1. x \in Workers /\ x # None
  BY DEF Send, OwnInv, TypeOK, CallerTypeOK
<1>2. Held(x)
  BY <1>1 DEF Held
<1>3. Waits(x)
  BY <1>1, <1>2 DEF OwnInv, SoleOwner
<1>4. /\ items' = items /\ stale' = stale /\ ppc' = ppc /\ wpc' = wpc
      /\ pc' = [pc EXCEPT ![c] = "idle"] /\ pc[c] = "send"
      /\ hand' = [hand EXCEPT ![c] = None]
      /\ chan' = [chan EXCEPT ![x] = {Current(c)}]
  BY DEF Send, coreVars, purgeVars
<1>5. hand'[c] = None /\ \A d \in Callers \ {c} : hand'[d] = hand[d]
  BY <1>4 DEF TypeOK, CallerTypeOK
<1>6. pc'[c] = "idle" /\ \A d \in Callers \ {c} : pc'[d] = pc[d]
  BY <1>4 DEF TypeOK, CallerTypeOK
<1>7. ChannelsOK' /\ \A w \in Workers : Waits(w)' <=> Waits(w) /\ w # x
  BY <1>1, <1>3, <1>4, OwnMessage
<1>8. /\ x \notin Range(items) /\ x \notin Range(stale)
      /\ \A d \in Callers \ {c} : hand[d] # x
  BY <1>1 DEF OwnInv, SoleOwner
<1> HIDE DEF x
<1>9. ASSUME NEW w \in Workers
      PROVE  Held(w)' <=> Held(w) /\ w # x
  <2>1. \A d \in Callers : hand'[d] = w <=> hand[d] = w /\ w # x
    BY <1>5, <1>8, PoolCoreAssumption DEF x
  <2>2. w \in Range(items) \cup Range(stale) => w # x
    BY <1>8
  <2> QED
    BY <1>4, <2>1, <2>2 DEF Held
<1>10. \A w \in Workers : Held(w)' <=> Waits(w)'
  BY <1>7, <1>9 DEF OwnInv, SoleOwner
<1>11. None \notin Range(items) \cup Range(stale)
  BY RangeType, PoolCoreAssumption DEF TypeOK, CoreTypeOK, OtherTypeOK
<1>12. \A d \in Callers : hand'[d] \notin Range(items') \cup Range(stale')
  BY <1>4, <1>5, <1>11 DEF OwnInv, SoleOwner
<1>13. \A d, e \in Callers : hand'[d] = hand'[e] => d = e \/ hand'[d] = None
  BY <1>5 DEF OwnInv, SoleOwner
<1>14. SoleOwner'
  BY <1>4, <1>10, <1>12, <1>13 DEF OwnInv, SoleOwner
<1>15. \A d \in Callers : hand'[d] # None <=> pc'[d] = "send"
  BY <1>5, <1>6 DEF OwnInv
<1> QED
  BY <1>4, <1>7, <1>14, <1>15 DEF OwnInv, ChannelsOK

(* A worker that the queue accepts starts to wait, and is the queue's. *)
LEMMA OwnInsert ==
  ASSUME TypeOK, OwnInv, NEW x \in Workers, Insert(x)
  PROVE  OwnInv'
<1>1. /\ stale' = stale /\ ppc' = ppc /\ chan' = chan /\ hand' = hand
      /\ pc' = pc /\ wpc[x] = "insert"
  BY DEF Insert, purgeVars, callerVars
<1>2. chan[x] = {} /\ ~Waits(x) /\ ~Held(x)
  BY <1>1 DEF OwnInv, SoleOwner, Waits
<1>3. /\ x \notin Range(items) /\ x \notin Range(stale)
      /\ \A d \in Callers : hand[d] # x
  BY <1>2 DEF Held
<1>4. CASE items' = items /\ wpc' = [wpc EXCEPT ![x] = "exit"]
  <2>1. wpc'[x] = "exit" /\ \A w \in Workers \ {x} : wpc'[w] = wpc[w]
    BY <1>4 DEF TypeOK, WorkerTypeOK
  <2>2. \A w \in Workers : Waits(w)' <=> Waits(w)
    BY <1>1, <1>2, <2>1 DEF Waits
  <2>3. ChannelsOK'
    BY <1>1, <1>2, <2>1 DEF OwnInv, ChannelsOK
  <2> QED
    BY <1>1, <1>4, <2>2, <2>3, OwnQuiet
<1>5. CASE items' = Append(items, x) /\ wpc' = [wpc EXCEPT ![x] = "recv"]
  <2>1. wpc'[x] = "recv" /\ \A w \in Workers \ {x} : wpc'[w] = wpc[w]
    BY <1>5 DEF TypeOK, WorkerTypeOK
  <2>2. Range(items') = Range(items) \cup {x} /\ IsInjective(items')
    BY <1>3, <1>5, AppendNew DEF TypeOK, CoreTypeOK, OwnInv, SoleOwner
  <2>3. ASSUME NEW w \in Workers
        PROVE  Held(w)' <=> Waits(w)'
    <3>1. CASE w = x
      BY <1>1, <1>2, <2>1, <2>2, <3>1 DEF Held, Waits
    <3>2. CASE w # x
      <4>1. Held(w)' <=> Held(w)
        BY <1>1, <2>2, <3>2 DEF Held
      <4>2. Waits(w)' <=> Waits(w)
        BY <1>1, <2>1, <3>2 DEF Waits
      <4> QED
        BY <4>1, <4>2 DEF OwnInv, SoleOwner
    <3> QED
      BY <3>1, <3>2
  <2>4. SoleOwner'
    BY <1>1, <1>3, <2>2, <2>3 DEF OwnInv, SoleOwner
  <2>5. ChannelsOK'
    BY <1>1, <2>1 DEF OwnInv, ChannelsOK
  <2> QED
    BY <1>1, <2>4, <2>5 DEF OwnInv, ChannelsOK
<1> QED
  BY <1>4, <1>5 DEF Insert

(* The scavenger takes a prefix of the queue. *)
LEMMA OwnScan ==
  ASSUME TypeOK, OwnInv, PurgeScan
  PROVE  OwnInv'
<1>1. PICK n \in 0..Len(items) : stale' = Expired(n) /\ items' = Unexpired(n)
  BY DEF PurgeScan
<1>2. /\ ppc = "scan" /\ ppc' = "finish" /\ hand' = hand /\ pc' = pc
      /\ wpc' = wpc /\ chan' = chan
  BY DEF PurgeScan, callerVars, workerVars
<1>3. items \in Seq(Workers) /\ IsInjective(items) /\ Range(stale) = {}
  BY <1>2, EmptyInjective DEF TypeOK, CoreTypeOK, OwnInv, SoleOwner
<1>4. /\ Range(stale') \cup Range(items') = Range(items)
      /\ Range(stale') \cap Range(items') = {}
      /\ IsInjective(stale') /\ IsInjective(items')
  BY <1>1, <1>3, SplitAt DEF Expired, Unexpired
<1>5. \A w \in Workers : Held(w)' <=> Held(w)
  BY <1>2, <1>3, <1>4 DEF Held
<1>6. \A w \in Workers : Waits(w)' <=> Waits(w)
  BY <1>2 DEF Waits
<1>7. SoleOwner'
  BY <1>2, <1>3, <1>4, <1>5, <1>6 DEF OwnInv, SoleOwner
<1> QED
  BY <1>2, <1>7 DEF OwnInv

(* The scavenger tells a worker it has taken out to stop. *)
LEMMA OwnFinish ==
  ASSUME TypeOK, OwnInv, PurgeFinish
  PROVE  OwnInv'
<1> DEFINE x == Head(stale)
<1>1. /\ items' = items /\ stale' = Tail(stale) /\ stale # <<>>
      /\ ppc = "finish" /\ ppc' = "finish" /\ hand' = hand /\ pc' = pc
      /\ wpc' = wpc /\ chan' = [chan EXCEPT ![x] = {Finish}]
  BY DEF PurgeFinish, coreVars, callerVars
<1>2. stale \in Seq(Workers) /\ IsInjective(stale)
  BY DEF TypeOK, OtherTypeOK, OwnInv, SoleOwner
<1>3. /\ x \in Range(stale) /\ Range(stale') = Range(stale) \ {x}
      /\ IsInjective(stale')
  BY <1>1, <1>2, TakeHead
<1>4. x \in Workers
  BY <1>2, <1>3, RangeType
<1> HIDE DEF x
<1>5. Waits(x)
  BY <1>3, <1>4 DEF Held, OwnInv, SoleOwner
<1>6. ChannelsOK' /\ \A w \in Workers : Waits(w)' <=> Waits(w) /\ w # x
  BY <1>1, <1>4, <1>5, OwnMessage
<1>7. x \notin Range(items) /\ \A d \in Callers : hand[d] # x
  BY <1>3 DEF OwnInv, SoleOwner
<1>8. ASSUME NEW w \in Workers
      PROVE  Held(w)' <=> Held(w) /\ w # x
  <2>1. w \in Range(stale') <=> w \in Range(stale) /\ w # x
    BY <1>3
  <2> QED
    BY <1>1, <1>7, <2>1 DEF Held
<1>9. \A w \in Workers : Held(w)' <=> Waits(w)'
  BY <1>6, <1>8 DEF OwnInv, SoleOwner
<1>10. SoleOwner'
  BY <1>1, <1>3, <1>9 DEF OwnInv, SoleOwner
<1> QED
  BY <1>1, <1>6, <1>10 DEF OwnInv, ChannelsOK

(* release() tells an idle worker to stop. *)
LEMMA OwnReset ==
  ASSUME TypeOK, OwnInv, ResetOne
  PROVE  OwnInv'
<1> DEFINE x == Head(items)
<1>1. /\ stale' = stale /\ items' = Tail(items) /\ items # <<>>
      /\ ppc' = ppc /\ hand' = hand /\ pc' = pc
      /\ wpc' = wpc /\ chan' = [chan EXCEPT ![x] = {Finish}]
  BY DEF ResetOne, purgeVars, callerVars
<1>2. items \in Seq(Workers) /\ IsInjective(items)
  BY DEF TypeOK, CoreTypeOK, OwnInv, SoleOwner
<1>3. /\ x \in Range(items) /\ Range(items') = Range(items) \ {x}
      /\ IsInjective(items')
  BY <1>1, <1>2, TakeHead
<1>4. x \in Workers
  BY <1>2, <1>3, RangeType
<1> HIDE DEF x
<1>5. Waits(x)
  BY <1>3, <1>4 DEF Held, OwnInv, SoleOwner
<1>6. ChannelsOK' /\ \A w \in Workers : Waits(w)' <=> Waits(w) /\ w # x
  BY <1>1, <1>4, <1>5, OwnMessage
<1>7. x \notin Range(stale) /\ \A d \in Callers : hand[d] # x
  BY <1>3 DEF OwnInv, SoleOwner
<1>8. ASSUME NEW w \in Workers
      PROVE  Held(w)' <=> Held(w) /\ w # x
  <2>1. w \in Range(items') <=> w \in Range(items) /\ w # x
    BY <1>3
  <2> QED
    BY <1>1, <1>7, <2>1 DEF Held
<1>9. \A w \in Workers : Held(w)' <=> Waits(w)'
  BY <1>6, <1>8 DEF OwnInv, SoleOwner
<1>10. SoleOwner'
  BY <1>1, <1>3, <1>9 DEF OwnInv, SoleOwner
<1> QED
  BY <1>1, <1>6, <1>10 DEF OwnInv, ChannelsOK

LEMMA OwnStep == TypeOK /\ OwnInv /\ [Next]_vars => OwnInv'
<1> SUFFICES ASSUME TypeOK, OwnInv, [Next]_vars
             PROVE  OwnInv'
  OBVIOUS
<1>1. ASSUME NEW c \in Callers, Acquire(c) \/ Resume(c)
      PROVE  OwnInv'
  <2>1. /\ stale' = stale /\ ppc' = ppc /\ wpc' = wpc /\ chan' = chan
        /\ pc[c] \in {"locking", "woken"}
    BY <1>1 DEF Acquire, Resume, purgeVars, workerVars
  <2>2. CASE /\ items # <<>> /\ items' = Remaining
             /\ hand' = [hand EXCEPT ![c] = Detached]
             /\ pc' = [pc EXCEPT ![c] = "send"]
    BY <2>1, <2>2, OwnDetach
  <2>3. CASE /\ items' = items /\ hand' = hand
             /\ \/ pc' = [pc EXCEPT ![c] = "check"]
                \/ pc' = [pc EXCEPT ![c] = "idle"]
    <3>1. \A d \in Callers : pc'[d] = "send" <=> pc[d] = "send"
      BY <2>1, <2>3 DEF TypeOK, CallerTypeOK
    <3>2. ChannelsOK' /\ \A w \in Workers : Waits(w)' <=> Waits(w)
      BY <2>1 DEF OwnInv, ChannelsOK, Waits
    <3> QED
      BY <2>1, <2>3, <3>1, <3>2, OwnQuiet
  <2> QED
    BY <1>1, <2>2, <2>3 DEF Acquire, Resume, DetachOrCheck
<1>2. ASSUME NEW c \in Callers,
             TrySubmit(c) \/ FindRoom(c) \/ RefuseOverload(c)
             \/ BecomeWaiter(c) \/ Register(c) \/ Wake(c)
      PROVE  OwnInv'
  <2>1. /\ items' = items /\ stale' = stale /\ ppc' = ppc /\ hand' = hand
        /\ wpc' = wpc /\ chan' = chan
    BY <1>2 DEF TrySubmit, FindRoom, RefuseOverload, BecomeWaiter, Register,
                Wake, coreVars, purgeVars, workerVars
  <2>2. \A d \in Callers : pc'[d] = "send" <=> pc[d] = "send"
    BY <1>2 DEF TrySubmit, FindRoom, RefuseOverload, BecomeWaiter, Register,
                Wake, TypeOK, CallerTypeOK
  <2>3. ChannelsOK' /\ \A w \in Workers : Waits(w)' <=> Waits(w)
    BY <2>1 DEF OwnInv, ChannelsOK, Waits
  <2> QED
    BY <2>1, <2>2, <2>3, OwnQuiet
<1>3. ASSUME NEW w \in Workers, Receive(w)
      PROVE  OwnInv'
  <2>1. /\ items' = items /\ stale' = stale /\ ppc' = ppc /\ hand' = hand
        /\ pc' = pc /\ wpc[w] = "recv"
    BY <1>3 DEF Receive, coreVars, purgeVars, callerVars
  <2>2. PICK m \in chan[w] :
          /\ chan' = [chan EXCEPT ![w] = @ \ {m}]
          /\ \E at \in {"exit", "run"} : wpc' = [wpc EXCEPT ![w] = at]
    BY <1>3 DEF Receive
  <2>3. chan'[w] = {} /\ \A v \in Workers \ {w} : chan'[v] = chan[v]
    BY <2>2 DEF TypeOK, WorkerTypeOK, OwnInv
  <2>4. wpc'[w] # "recv" /\ \A v \in Workers \ {w} : wpc'[v] = wpc[v]
    BY <2>2 DEF TypeOK, WorkerTypeOK
  <2>5. ChannelsOK'
    BY <2>3, <2>4 DEF OwnInv, ChannelsOK
  <2>6. \A v \in Workers : Waits(v)' <=> Waits(v)
    BY <2>2, <2>3, <2>4 DEF Waits
  <2> QED
    BY <2>1, <2>5, <2>6, OwnQuiet
<1>4. ASSUME NEW w \in Workers,
             Return(w) \/ Revert(w) \/ Shed(w) \/ Depart(w) \/ Recycle(w)
      PROVE  OwnInv'
  <2>1. /\ items' = items /\ stale' = stale /\ ppc' = ppc /\ hand' = hand
        /\ pc' = pc /\ chan' = chan
    BY <1>4 DEF Return, Revert, Shed, Depart, Recycle, coreVars, purgeVars,
                callerVars
  <2>2. wpc[w] # "recv" /\ wpc'[w] # "recv"
        /\ \A v \in Workers \ {w} : wpc'[v] = wpc[v]
    BY <1>4 DEF Return, Revert, Shed, Depart, Recycle, TypeOK, WorkerTypeOK
  <2>3. ChannelsOK' /\ \A v \in Workers : Waits(v)' <=> Waits(v)
    BY <2>1, <2>2 DEF OwnInv, ChannelsOK, Waits
  <2> QED
    BY <2>1, <2>3, OwnQuiet
<1>5. CASE ExitSignal \/ PurgeTick \/ PurgeAwake
  <2>1. /\ items' = items /\ stale' = stale /\ hand' = hand /\ pc' = pc
        /\ wpc' = wpc /\ chan' = chan
        /\ ppc' # "finish" => ppc # "finish" \/ stale = <<>>
    BY <1>5 DEF ExitSignal, PurgeTick, PurgeAwake, coreVars, purgeVars,
                callerVars, workerVars
  <2>2. ChannelsOK' /\ \A w \in Workers : Waits(w)' <=> Waits(w)
    BY <2>1 DEF OwnInv, ChannelsOK, Waits
  <2> QED
    BY <2>1, <2>2, OwnQuiet
<1>6. CASE ReleaseClose \/ ReleaseLock \/ ReleaseUnlock \/ ReleaseBroadcast
           \/ ReleaseCheck
  <2>1. /\ items' = items /\ stale' = stale /\ ppc' = ppc /\ hand' = hand
        /\ pc' = pc /\ wpc' = wpc /\ chan' = chan
    BY <1>6 DEF ReleaseClose, ReleaseLock, ReleaseUnlock, ReleaseBroadcast,
                ReleaseCheck, coreVars, purgeVars, callerVars, workerVars
  <2>2. ChannelsOK' /\ \A w \in Workers : Waits(w)' <=> Waits(w)
    BY <2>1 DEF OwnInv, ChannelsOK, Waits
  <2> QED
    BY <2>1, <2>2, OwnQuiet
<1>7. CASE UNCHANGED vars
           \/ \E t \in Tuners : TuneRead(t) \/ TuneStore(t) \/ TuneNotify(t)
  <2>1. /\ items' = items /\ stale' = stale /\ ppc' = ppc /\ hand' = hand
        /\ pc' = pc /\ wpc' = wpc /\ chan' = chan
    BY <1>7 DEF TuneRead, TuneStore, TuneNotify, vars, coreVars, purgeVars,
                callerVars, workerVars
  <2>2. ChannelsOK' /\ \A w \in Workers : Waits(w)' <=> Waits(w)
    BY <2>1 DEF OwnInv, ChannelsOK, Waits
  <2> QED
    BY <2>1, <2>2, OwnQuiet
<1> QED
  BY <1>1, <1>2, <1>3, <1>4, <1>5, <1>6, <1>7, OwnSpawn, OwnSend, OwnInsert,
     OwnScan, OwnFinish, OwnReset
     DEF Next, CallerStep, WorkerStep, PurgeStep, ReleaseStep, TuneStep

LEMMA OwnAlways == Spec => []OwnInv
BY OwnInit, OwnStep, TypeCorrect, PTL DEF Spec

(* In every pool, with any option, a worker that waits for a message is    *)
(* held at exactly one place, and whatever is held waits with an empty     *)
(* channel.                                                                *)
THEOREM OneOwner == Spec => []SoleOwner
<1>1. OwnInv => SoleOwner
  BY DEF OwnInv
<1> QED
  BY <1>1, OwnAlways, PTL

(* No input() and no finish() ever finds the worker's channel occupied or, *)
(* on a rendezvous channel, the worker away: what retrieve_worker hands    *)
(* out, what the scavenger collects and what reset() walks through, spin   *)
(* lock held, are workers who wait with an empty channel.                  *)
THEOREM PromptSends == Spec => []SendsNeverWait
<1>1. ASSUME TypeOK, OwnInv
      PROVE  SendsNeverWait
  <2>1. \A w \in Workers : Held(w) => CanSend(w)
    BY <1>1 DEF OwnInv, SoleOwner, Waits, CanSend
  <2>2. \A c \in Callers : pc[c] = "send" => CanSend(hand[c])
    <3>1. \A c \in Callers :
            pc[c] = "send" => hand[c] \in Workers /\ Held(hand[c])
      BY <1>1 DEF OwnInv, TypeOK, CallerTypeOK, Held
    <3> QED
      BY <2>1, <3>1
  <2>3. ASSUME stale # <<>> PROVE CanSend(Head(stale))
    <3>1. Head(stale) \in Range(stale)
      BY <1>1, <2>3, TakeHead DEF OwnInv, SoleOwner, TypeOK, OtherTypeOK
    <3>2. Head(stale) \in Workers
      BY <1>1, <3>1, RangeType DEF TypeOK, OtherTypeOK
    <3> QED
      BY <2>1, <3>1, <3>2 DEF Held
  <2>4. ASSUME items # <<>> PROVE CanSend(Head(items))
    <3>1. Head(items) \in Range(items)
      BY <1>1, <2>4, TakeHead DEF OwnInv, SoleOwner, TypeOK, CoreTypeOK
    <3>2. Head(items) \in Workers
      BY <1>1, <3>1, RangeType DEF TypeOK, CoreTypeOK
    <3> QED
      BY <2>1, <3>1, <3>2 DEF Held
  <2> QED
    BY <2>2, <2>3, <2>4 DEF SendsNeverWait
<1> QED
  BY <1>1, TypeCorrect, OwnAlways, PTL

-----------------------------------------------------------------------------
(* What becomes of a task.                                                 *)

(* ExactlyOnce, taken apart: who has a task and what is recorded of it.    *)
Carried ==
  /\ \A t \in Tasks : \A w \in Workers : t \in chan[w] => task[t] = "accepted"
  /\ \A t \in Tasks : task[t] = "accepted" => \E w \in Workers : t \in chan[w]
  /\ \A t \in Tasks : \A v, w \in Workers : t \in chan[v] /\ t \in chan[w] => v = w
  /\ \A t \in Tasks : \A w \in Workers : cur[w] = t => task[t] = "executing"
  /\ \A t \in Tasks : task[t] = "executing" => \E w \in Workers : cur[w] = t
  /\ \A v, w \in Workers : cur[v] = cur[w] => v = w \/ cur[v] = None
  /\ \A w \in Workers : cur[w] # None <=> wpc[w] = "run"

(* The callers' side of it: the task of a call that has not returned is    *)
(* being submitted, those of later calls are not submitted yet.            *)
Called ==
  /\ \A c \in Callers : pc[c] # "idle" => task[Current(c)] = "submitting"
  /\ \A c \in Callers : \A i \in 1..MaxCalls :
       i > calls[c] => task[<<c, i>>] = "unsubmitted"

TaskInv == Carried /\ Called

LEMMA TaskInit == Init => TaskInv
<1> SUFFICES ASSUME Init PROVE TaskInv
  OBVIOUS
<1>1. /\ \A t \in Tasks : task[t] = "unsubmitted"
      /\ \A w \in Workers : chan[w] = {} /\ cur[w] = None /\ wpc[w] = "fresh"
      /\ \A c \in Callers : pc[c] = "idle"
  BY DEF Init
<1>2. Carried
  BY <1>1, PoolCoreAssumption DEF Carried
<1>3. \A c \in Callers : \A i \in 1..MaxCalls : <<c, i>> \in Tasks
  BY DEF Tasks
<1>4. Called
  BY <1>1, <1>3 DEF Called
<1> QED
  BY <1>2, <1>4 DEF TaskInv

(* The tasks of the calls that callers are in. *)
LEMMA CurrentTask ==
  ASSUME TypeOK, NEW c \in Callers, pc[c] # "idle"
  PROVE  /\ Current(c) \in Tasks
         /\ \A d \in Callers \ {c} : Current(d) # Current(c)
         /\ \A d \in Callers : \A i \in 1..MaxCalls :
              i > calls[d] => <<d, i>> # Current(c)
<1>1. calls[c] \in 1..MaxCalls
  BY PoolCoreAssumption DEF TypeOK, CallerTypeOK
<1>2. \A d \in Callers : calls[d] \in Nat
  BY PoolCoreAssumption DEF TypeOK, CallerTypeOK
<1> QED
  BY <1>1, <1>2 DEF Current, Tasks

(* Nobody gets a task, or is done with one. *)
LEMMA CarriedQuiet ==
  ASSUME Carried, cur' = cur,
         \A t \in Tasks : \A w \in Workers : t \in chan'[w] <=> t \in chan[w],
         \A w \in Workers : wpc'[w] = "run" <=> wpc[w] = "run",
         \A t \in Tasks : task'[t] # task[t] =>
           {task[t], task'[t]} \cap {"accepted", "executing"} = {}
  PROVE  Carried'
<1>1. Tasks' = Tasks
  BY DEF Tasks
<1>2. \A t \in Tasks :
        /\ task'[t] = "accepted" <=> task[t] = "accepted"
        /\ task'[t] = "executing" <=> task[t] = "executing"
  OBVIOUS
<1>3. \A t \in Tasks : \A w \in Workers : t \in chan'[w] => task'[t] = "accepted"
  BY <1>2 DEF Carried
<1>4. \A t \in Tasks : task'[t] = "accepted" => \E w \in Workers : t \in chan'[w]
  <2>1. \A t \in Tasks : task[t] = "accepted" => \E w \in Workers : t \in chan[w]
    BY DEF Carried
  <2> QED
    BY <1>2, <2>1
<1>5. \A t \in Tasks : \A v, w \in Workers : t \in chan'[v] /\ t \in chan'[w] => v = w
  <2>1. \A t \in Tasks : \A v, w \in Workers : t \in chan[v] /\ t \in chan[w] => v = w
    BY DEF Carried
  <2> QED
    BY <2>1
<1>6. \A t \in Tasks : \A w \in Workers : cur'[w] = t => task'[t] = "executing"
  BY <1>2 DEF Carried
<1>7. \A t \in Tasks : task'[t] = "executing" => \E w \in Workers : cur'[w] = t
  <2>1. \A t \in Tasks : task[t] = "executing" => \E w \in Workers : cur[w] = t
    BY DEF Carried
  <2> QED
    BY <1>2, <2>1
<1>8. /\ \A v, w \in Workers : cur'[v] = cur'[w] => v = w \/ cur'[v] = None
      /\ \A w \in Workers : cur'[w] # None <=> wpc'[w] = "run"
  BY DEF Carried
<1> QED
  BY <1>1, <1>3, <1>4, <1>5, <1>6, <1>7, <1>8 DEF Carried

(* Nobody calls submit, or returns from it. *)
LEMMA CalledQuiet ==
  ASSUME TypeOK, Called, calls' = calls,
         \A c \in Callers : pc'[c] # "idle" => pc[c] # "idle",
         \A t \in Tasks :
           task[t] \in {"unsubmitted", "submitting"} => task'[t] = task[t]
  PROVE  Called'
<1>1. \A c \in Callers : Current(c)' = Current(c)
  BY DEF Current
<1>2. \A c \in Callers : pc'[c] # "idle" => task'[Current(c)] = "submitting"
  BY CurrentTask DEF Called
<1>3. \A c \in Callers : \A i \in 1..MaxCalls :
        i > calls[c] => task'[<<c, i>>] = "unsubmitted"
  <2>1. \A c \in Callers : \A i \in 1..MaxCalls : <<c, i>> \in Tasks
    BY DEF Tasks
  <2> QED
    BY <2>1 DEF Called
<1> QED
  BY <1>1, <1>2, <1>3 DEF Called

(* A caller hands its task over to a worker whose channel is empty. *)
LEMMA CarriedSend ==
  ASSUME TypeOK, OwnInv, TaskInv, NEW c \in Callers, Send(c)
  PROVE  TaskInv'
<1> DEFINE x == hand[c]
           u == Current(c)
<1>1. /\ pc[c] = "send" /\ chan[x] = {} /\ chan' = [chan EXCEPT ![x] = {u}]
      /\ task' = [task EXCEPT ![u] = "accepted"] /\ cur' = cur /\ wpc' = wpc
      /\ calls' = calls /\ pc' = [pc EXCEPT ![c] = "idle"]
  BY DEF Send, CanSend
<1>2. x \in Workers
  BY <1>1 DEF OwnInv, TypeOK, CallerTypeOK
<1>3. u \in Tasks /\ task[u] = "submitting"
  BY <1>1, CurrentTask DEF TaskInv, Called
<1> HIDE DEF x, u
<1>4. chan'[x] = {u} /\ \A w \in Workers \ {x} : chan'[w] = chan[w]
  BY <1>1, <1>2 DEF TypeOK, WorkerTypeOK
<1>5. task'[u] = "accepted" /\ \A t \in Tasks \ {u} : task'[t] = task[t]
  BY <1>1, <1>3 DEF TypeOK, CallerTypeOK
<1>6. \A w \in Workers : u \notin chan[w] /\ cur[w] # u
  BY <1>3 DEF TaskInv, Carried
<1>7. \A t \in Tasks : \A w \in Workers :
        t \in chan'[w] <=> IF t = u THEN w = x ELSE t \in chan[w]
  BY <1>1, <1>4, <1>6
<1>8. Tasks' = Tasks
  BY DEF Tasks
<1>9. \A t \in Tasks : \A w \in Workers : t \in chan'[w] => task'[t] = "accepted"
  BY <1>5, <1>7 DEF TaskInv, Carried
<1>10. \A t \in Tasks : task'[t] = "accepted" => \E w \in Workers : t \in chan'[w]
  <2>1. \A t \in Tasks : task[t] = "accepted" => \E w \in Workers : t \in chan[w]
    BY DEF TaskInv, Carried
  <2> QED
    BY <1>2, <1>5, <1>7, <2>1
<1>11. \A t \in Tasks : \A v, w \in Workers : t \in chan'[v] /\ t \in chan'[w] => v = w
  <2>1. \A t \in Tasks : \A v, w \in Workers : t \in chan[v] /\ t \in chan[w] => v = w
    BY DEF TaskInv, Carried
  <2> QED
    BY <1>7, <2>1
<1>12. \A t \in Tasks : \A w \in Workers : cur'[w] = t => task'[t] = "executing"
  BY <1>1, <1>5, <1>6 DEF TaskInv, Carried
<1>13. \A t \in Tasks : task'[t] = "executing" => \E w \in Workers : cur'[w] = t
  <2>1. \A t \in Tasks : task[t] = "executing" => \E w \in Workers : cur[w] = t
    BY DEF TaskInv, Carried
  <2> QED
    BY <1>1, <1>5, <2>1
<1>14. /\ \A v, w \in Workers : cur'[v] = cur'[w] => v = w \/ cur'[v] = None
       /\ \A w \in Workers : cur'[w] # None <=> wpc'[w] = "run"
  BY <1>1 DEF TaskInv, Carried
<1>15. Carried'
  BY <1>8, <1>9, <1>10, <1>11, <1>12, <1>13, <1>14 DEF Carried
<1>16. ASSUME NEW d \in Callers, pc'[d] # "idle"
       PROVE  task'[Current(d)'] = "submitting"
  <2>1. d # c /\ pc[d] # "idle"
    BY <1>1, <1>16 DEF TypeOK, CallerTypeOK
  <2>2. Current(d)' = Current(d) /\ Current(d) \in Tasks /\ Current(d) # u
    BY <1>1, <2>1, CurrentTask DEF Current, u
  <2> QED
    BY <1>5, <2>1, <2>2 DEF TaskInv, Called
<1>17. ASSUME NEW d \in Callers, NEW i \in 1..MaxCalls, i > calls'[d]
       PROVE  task'[<<d, i>>] = "unsubmitted"
  <2>1. <<d, i>> \in Tasks /\ <<d, i>> # u
    BY <1>1, <1>17, CurrentTask DEF Tasks, u
  <2> QED
    BY <1>1, <1>5, <1>17, <2>1 DEF TaskInv, Called
<1>18. Called'
  BY <1>16, <1>17 DEF Called
<1> QED
  BY <1>15, <1>18 DEF TaskInv

(* A worker takes a task out of its channel. *)
LEMMA CarriedReceive ==
  ASSUME TypeOK, OwnInv, Carried, NEW x \in Workers, NEW u \in Tasks,
         u \in chan[x], wpc[x] = "recv",
         chan' = [chan EXCEPT ![x] = @ \ {u}], wpc' = [wpc EXCEPT ![x] = "run"],
         cur' = [cur EXCEPT ![x] = u], task' = [task EXCEPT ![u] = "executing"]
  PROVE  Carried'
<1>1. chan'[x] = {} /\ \A w \in Workers \ {x} : chan'[w] = chan[w]
  BY DEF TypeOK, WorkerTypeOK, OwnInv
<1>2. wpc'[x] = "run" /\ \A w \in Workers \ {x} : wpc'[w] = wpc[w]
  BY DEF TypeOK, WorkerTypeOK
<1>3. cur'[x] = u /\ \A w \in Workers \ {x} : cur'[w] = cur[w]
  BY DEF TypeOK, WorkerTypeOK
<1>4. task'[u] = "executing" /\ \A t \in Tasks \ {u} : task'[t] = task[t]
  BY DEF TypeOK, CallerTypeOK
<1>5. /\ task[u] = "accepted" /\ cur[x] = None
      /\ \A w \in Workers : cur[w] # u
      /\ \A w \in Workers \ {x} : u \notin chan[w]
  BY DEF Carried
<1>6. \A t \in Tasks : t \in chan[x] => t = u
  BY DEF OwnInv
<1>7. \A t \in Tasks : \A w \in Workers :
        t \in chan'[w] <=> t # u /\ t \in chan[w]
  BY <1>1, <1>5, <1>6
<1>8. u # None
  BY PoolCoreAssumption
<1>9. Tasks' = Tasks
  BY DEF Tasks
<1>10. \A t \in Tasks : \A w \in Workers : t \in chan'[w] => task'[t] = "accepted"
  BY <1>4, <1>7 DEF Carried
<1>11. \A t \in Tasks : task'[t] = "accepted" => \E w \in Workers : t \in chan'[w]
  <2>1. \A t \in Tasks : task[t] = "accepted" => \E w \in Workers : t \in chan[w]
    BY DEF Carried
  <2> QED
    BY <1>4, <1>7, <2>1
<1>12. \A t \in Tasks : \A v, w \in Workers : t \in chan'[v] /\ t \in chan'[w] => v = w
  <2>1. \A t \in Tasks : \A v, w \in Workers : t \in chan[v] /\ t \in chan[w] => v = w
    BY DEF Carried
  <2> QED
    BY <1>7, <2>1
<1>13. \A t \in Tasks : \A w \in Workers : cur'[w] = t => task'[t] = "executing"
  BY <1>3, <1>4 DEF Carried
<1>14. \A t \in Tasks : task'[t] = "executing" => \E w \in Workers : cur'[w] = t
  <2>1. \A t \in Tasks : task[t] = "executing" => \E w \in Workers : cur[w] = t
    BY DEF Carried
  <2> QED
    BY <1>3, <1>4, <1>5, <1>8, PoolCoreAssumption, <2>1
<1>15. \A v, w \in Workers : cur'[v] = cur'[w] => v = w \/ cur'[v] = None
  <2>1. \A v, w \in Workers : cur[v] = cur[w] => v = w \/ cur[v] = None
    BY DEF Carried
  <2> QED
    BY <1>3, <1>5, <2>1
<1>16. \A w \in Workers : cur'[w] # None <=> wpc'[w] = "run"
  BY <1>2, <1>3, <1>8 DEF Carried
<1> QED
  BY <1>9, <1>10, <1>11, <1>12, <1>13, <1>14, <1>15, <1>16 DEF Carried

(* A worker is done with its task. *)
LEMMA CarriedReturn ==
  ASSUME TypeOK, Carried, NEW x \in Workers, Return(x)
  PROVE  Carried'
<1> DEFINE u == cur[x]
<1>1. /\ chan' = chan /\ wpc[x] = "run"
      /\ cur' = [cur EXCEPT ![x] = None] /\ task' = [task EXCEPT ![u] = "executed"]
  BY DEF Return
<1>2. wpc'[x] # "run" /\ \A w \in Workers \ {x} : wpc'[w] = wpc[w]
  BY DEF Return, TypeOK, WorkerTypeOK
<1>3. u \in Tasks /\ u # None /\ task[u] = "executing"
  BY <1>1 DEF TypeOK, WorkerTypeOK, Carried
<1>4. \A w \in Workers \ {x} : cur[w] # u
  BY <1>3 DEF Carried
<1> HIDE DEF u
<1>5. cur'[x] = None /\ \A w \in Workers \ {x} : cur'[w] = cur[w]
  BY <1>1 DEF TypeOK, WorkerTypeOK
<1>6. task'[u] = "executed" /\ \A t \in Tasks \ {u} : task'[t] = task[t]
  BY <1>1, <1>3 DEF TypeOK, CallerTypeOK
<1>7. Tasks' = Tasks
  BY DEF Tasks
<1>8. \A w \in Workers : u \notin chan[w]
  BY <1>3 DEF Carried
<1>9. \A t \in Tasks : \A w \in Workers : t \in chan'[w] => task'[t] = "accepted"
  BY <1>1, <1>6, <1>8 DEF Carried
<1>10. \A t \in Tasks : task'[t] = "accepted" => \E w \in Workers : t \in chan'[w]
  <2>1. \A t \in Tasks : task[t] = "accepted" => \E w \in Workers : t \in chan[w]
    BY DEF Carried
  <2> QED
    BY <1>1, <1>6, <2>1
<1>11. \A t \in Tasks : \A v, w \in Workers : t \in chan'[v] /\ t \in chan'[w] => v = w
  BY <1>1 DEF Carried
<1>12. \A t \in Tasks : \A w \in Workers : cur'[w] = t => task'[t] = "executing"
  BY <1>4, <1>5, <1>6, PoolCoreAssumption DEF Carried
<1>13. \A t \in Tasks : task'[t] = "executing" => \E w \in Workers : cur'[w] = t
  <2>1. \A t \in Tasks : task[t] = "executing" => \E w \in Workers : cur[w] = t
    BY DEF Carried
  <2>2. ASSUME NEW t \in Tasks, task'[t] = "executing"
        PROVE  \E w \in Workers : cur'[w] = t
    <3>1. t # u /\ task[t] = "executing"
      BY <1>6, <2>2
    <3>2. PICK w \in Workers : cur[w] = t
      BY <2>1, <3>1
    <3>3. cur'[w] = t
      BY <1>5, <3>1, <3>2 DEF u
    <3> QED
      BY <3>3
  <2> QED
    BY <2>2
<1>14. \A v, w \in Workers : cur'[v] = cur'[w] => v = w \/ cur'[v] = None
  <2>1. \A v, w \in Workers : cur[v] = cur[w] => v = w \/ cur[v] = None
    BY DEF Carried
  <2> QED
    BY <1>5, <2>1
<1>15. \A w \in Workers : cur'[w] # None <=> wpc'[w] = "run"
  BY <1>2, <1>5 DEF Carried
<1> QED
  BY <1>7, <1>9, <1>10, <1>11, <1>12, <1>13, <1>14, <1>15 DEF Carried

(* A call of submit that begins, or that is refused: its task is in no     *)
(* channel and no worker executes it.                                      *)
LEMMA CarriedMark ==
  ASSUME TypeOK, Carried, NEW u \in Tasks, task[u] \in {"unsubmitted", "submitting"},
         NEW p \in {"submitting", "rejected"}, task' = [task EXCEPT ![u] = p],
         chan' = chan, cur' = cur, wpc' = wpc
  PROVE  Carried' /\ task'[u] = p /\ \A t \in Tasks \ {u} : task'[t] = task[t]
<1>1. task'[u] = p /\ \A t \in Tasks \ {u} : task'[t] = task[t]
  BY DEF TypeOK, CallerTypeOK
<1>2. \A t \in Tasks : task'[t] # task[t] =>
        {task[t], task'[t]} \cap {"accepted", "executing"} = {}
  BY <1>1
<1> QED
  BY <1>1, <1>2, CarriedQuiet

LEMMA TaskStart ==
  ASSUME TypeOK, TaskInv, NEW c \in Callers, TrySubmit(c)
  PROVE  TaskInv'
<1> DEFINE i == calls[c] + 1
           u == <<c, i>>
<1>1. i \in 1..MaxCalls /\ i > calls[c] /\ u \in Tasks
  BY PoolCoreAssumption DEF TrySubmit, TypeOK, CallerTypeOK, Tasks
<1>2. task[u] = "unsubmitted"
  BY <1>1 DEF TaskInv, Called
<1>3. /\ pc[c] = "idle" /\ chan' = chan /\ cur' = cur /\ wpc' = wpc
      /\ calls' = [calls EXCEPT ![c] = i]
  BY DEF TrySubmit, workerVars
<1>4. calls'[c] = i /\ \A d \in Callers \ {c} : calls'[d] = calls[d]
  BY <1>3 DEF TypeOK, CallerTypeOK
<1>5. PICK p \in {"submitting", "rejected"} :
        /\ task' = [task EXCEPT ![u] = p]
        /\ pc' = IF p = "submitting" THEN [pc EXCEPT ![c] = "locking"] ELSE pc
  BY DEF TrySubmit
<1>6. \A d \in Callers \ {c} : pc'[d] = pc[d]
  BY <1>5 DEF TypeOK, CallerTypeOK
<1>7. pc'[c] # "idle" => p = "submitting"
  BY <1>3, <1>5 DEF TypeOK, CallerTypeOK
<1>8. Carried' /\ task'[u] = p /\ \A t \in Tasks \ {u} : task'[t] = task[t]
  BY <1>1, <1>2, <1>3, <1>5, CarriedMark DEF TaskInv
<1>9. ASSUME NEW d \in Callers, pc'[d] # "idle"
      PROVE  task'[Current(d)'] = "submitting"
  <2>1. CASE d = c
    BY <1>4, <1>7, <1>8, <1>9, <2>1 DEF Current
  <2>2. CASE d # c
    <3>1. Current(d)' = Current(d) /\ Current(d) # u
      BY <1>4, <2>2 DEF Current
    <3>2. pc[d] # "idle"
      BY <1>6, <1>9, <2>2
    <3>3. Current(d) \in Tasks /\ task[Current(d)] = "submitting"
      BY <3>2, CurrentTask DEF TaskInv, Called
    <3> QED
      BY <1>8, <3>1, <3>3
  <2> QED
    BY <2>1, <2>2
<1>10. ASSUME NEW d \in Callers, NEW j \in 1..MaxCalls, j > calls'[d]
       PROVE  task'[<<d, j>>] = "unsubmitted"
  <2>1. j > calls[d] /\ <<d, j>> # u
    BY <1>1, <1>4, <1>10 DEF TypeOK, CallerTypeOK
  <2>2. <<d, j>> \in Tasks
    BY DEF Tasks
  <2> QED
    BY <1>8, <2>1, <2>2 DEF TaskInv, Called
<1>11. Called'
  BY <1>9, <1>10 DEF Called
<1> QED
  BY <1>8, <1>11 DEF TaskInv

(* submit gives up. *)
LEMMA TaskRefuse ==
  ASSUME TypeOK, TaskInv, NEW c \in Callers, pc[c] # "idle",
         pc' = [pc EXCEPT ![c] = "idle"], calls' = calls,
         task' = [task EXCEPT ![Current(c)] = "rejected"],
         chan' = chan, cur' = cur, wpc' = wpc
  PROVE  TaskInv'
<1> DEFINE u == Current(c)
<1>1. u \in Tasks /\ task[u] = "submitting"
  BY CurrentTask DEF TaskInv, Called
<1>2. Carried' /\ task'[u] = "rejected" /\ \A t \in Tasks \ {u} : task'[t] = task[t]
  BY <1>1, CarriedMark DEF TaskInv
<1>3. ASSUME NEW d \in Callers, pc'[d] # "idle"
      PROVE  task'[Current(d)'] = "submitting"
  <2>1. d # c /\ pc[d] # "idle"
    BY <1>3 DEF TypeOK, CallerTypeOK
  <2>2. Current(d)' = Current(d) /\ Current(d) \in Tasks /\ Current(d) # u
    BY <2>1, CurrentTask DEF Current
  <2> QED
    BY <1>2, <2>1, <2>2 DEF TaskInv, Called
<1>4. ASSUME NEW d \in Callers, NEW i \in 1..MaxCalls, i > calls'[d]
      PROVE  task'[<<d, i>>] = "unsubmitted"
  <2>1. <<d, i>> \in Tasks /\ <<d, i>> # u
    BY <1>4, CurrentTask DEF Tasks
  <2> QED
    BY <1>2, <1>4, <2>1 DEF TaskInv, Called
<1>5. Called'
  BY <1>3, <1>4 DEF Called
<1> QED
  BY <1>2, <1>5 DEF TaskInv

LEMMA TaskStep == TypeOK /\ OwnInv /\ TaskInv /\ [Next]_vars => TaskInv'
<1> SUFFICES ASSUME TypeOK, OwnInv, TaskInv, [Next]_vars
             PROVE  TaskInv'
  OBVIOUS
<1> USE DEF TaskInv
<1>1. ASSUME NEW c \in Callers, TrySubmit(c)
      PROVE  TaskInv'
  BY <1>1, TaskStart
<1>2. ASSUME NEW c \in Callers, Send(c)
      PROVE  TaskInv'
  BY <1>2, CarriedSend
<1>3. ASSUME NEW c \in Callers, RefuseOverload(c)
      PROVE  TaskInv'
  BY <1>3, TaskRefuse DEF RefuseOverload, workerVars
<1>4. ASSUME NEW c \in Callers,
             \/ Acquire(c) \/ FindRoom(c) \/ BecomeWaiter(c) \/ Spawn(c)
             \/ Register(c) \/ Wake(c) \/ (Resume(c) /\ ~IsClosed)
      PROVE  TaskInv'
  <2>1. calls' = calls /\ task' = task /\ chan' = chan /\ cur' = cur
    BY <1>4 DEF Acquire, FindRoom, BecomeWaiter, Spawn, Register, Wake, Resume,
                workerVars
  <2>2. \A d \in Callers : pc'[d] # "idle" => pc[d] # "idle"
    BY <1>4 DEF Acquire, FindRoom, BecomeWaiter, Spawn, Register, Wake, Resume,
                DetachOrCheck, TypeOK, CallerTypeOK
  <2>3. \A w \in Workers : wpc'[w] = "run" <=> wpc[w] = "run"
    <3>1. CASE Spawn(c)
      <4>1. PICK x \in Fetchable : wpc' = [wpc EXCEPT ![x] = "recv"]
        BY <3>1 DEF Spawn
      <4>2. x \in Workers /\ wpc[x] # "run"
        BY <4>1 DEF Fetchable, Cached
      <4> QED
        BY <4>1, <4>2 DEF TypeOK, WorkerTypeOK
    <3>2. CASE ~Spawn(c)
      BY <1>4, <3>2 DEF Acquire, FindRoom, BecomeWaiter, Register, Wake,
                        Resume, workerVars
    <3> QED
      BY <3>1, <3>2
  <2>4. Carried'
    BY <2>1, <2>3, CarriedQuiet
  <2>5. Called'
    BY <2>1, <2>2, CalledQuiet
  <2> QED
    BY <2>4, <2>5
<1>5. ASSUME NEW c \in Callers, Resume(c), IsClosed
      PROVE  TaskInv'
  BY <1>5, TaskRefuse DEF Resume, workerVars
<1>6. ASSUME NEW w \in Workers, Receive(w)
      PROVE  TaskInv'
  <2>1. calls' = calls /\ pc' = pc /\ wpc[w] = "recv"
    BY <1>6 DEF Receive, callerVars
  <2>2. PICK m \in chan[w] :
          /\ chan' = [chan EXCEPT ![w] = @ \ {m}]
          /\ \/ /\ m = Finish
                /\ wpc' = [wpc EXCEPT ![w] = "exit"]
                /\ UNCHANGED <<cur, task>>
             \/ /\ m # Finish
                /\ wpc' = [wpc EXCEPT ![w] = "run"]
                /\ cur' = [cur EXCEPT ![w] = m]
                /\ task' = [task EXCEPT ![m] = "executing"]
    BY <1>6 DEF Receive
  <2>3. CASE m = Finish
    <3>1. \A t \in Tasks : \A v \in Workers : t \in chan'[v] <=> t \in chan[v]
      BY <2>2, <2>3, PoolCoreAssumption DEF TypeOK, WorkerTypeOK
    <3>2. \A v \in Workers : wpc'[v] = "run" <=> wpc[v] = "run"
      BY <2>1, <2>2, <2>3 DEF TypeOK, WorkerTypeOK
    <3>3. Carried'
      BY <2>2, <2>3, <3>1, <3>2, CarriedQuiet
    <3> QED
      BY <2>1, <2>2, <2>3, <3>3, CalledQuiet
  <2>4. CASE m # Finish
    <3>1. m \in Tasks
      BY <2>2, <2>4 DEF TypeOK, WorkerTypeOK
    <3>2. Carried'
      BY <2>1, <2>2, <2>4, <3>1, CarriedReceive
    <3>3. task[m] = "accepted" /\ \A t \in Tasks \ {m} : task'[t] = task[t]
      BY <2>2, <2>4, <3>1 DEF Carried, TypeOK, CallerTypeOK
    <3> QED
      BY <2>1, <3>2, <3>3, CalledQuiet
  <2> QED
    BY <2>3, <2>4
<1>7. ASSUME NEW w \in Workers, Return(w)
      PROVE  TaskInv'
  <2>1. calls' = calls /\ pc' = pc /\ wpc[w] = "run"
        /\ task' = [task EXCEPT ![cur[w]] = "executed"]
    BY <1>7 DEF Return, callerVars
  <2>2. cur[w] \in Tasks /\ task[cur[w]] = "executing"
    BY <2>1 DEF Carried, TypeOK, WorkerTypeOK
  <2>3. \A t \in Tasks : task[t] \in {"unsubmitted", "submitting"} => task'[t] = task[t]
    BY <2>1, <2>2 DEF TypeOK, CallerTypeOK
  <2> QED
    BY <1>7, <2>1, <2>3, CarriedReturn, CalledQuiet
<1>8. ASSUME NEW w \in Workers,
             Revert(w) \/ Shed(w) \/ Insert(w) \/ Depart(w) \/ Recycle(w)
      PROVE  TaskInv'
  <2>1. /\ calls' = calls /\ pc' = pc /\ task' = task /\ chan' = chan /\ cur' = cur
    BY <1>8 DEF Revert, Shed, Insert, Depart, Recycle, callerVars
  <2>2. \A v \in Workers : wpc'[v] = "run" <=> wpc[v] = "run"
    BY <1>8 DEF Revert, Shed, Insert, Depart, Recycle, TypeOK, WorkerTypeOK
  <2> QED
    BY <2>1, <2>2, CarriedQuiet, CalledQuiet
<1>9. CASE PurgeFinish \/ ResetOne
  <2>1. /\ calls' = calls /\ pc' = pc /\ task' = task /\ wpc' = wpc /\ cur' = cur
        /\ \E x : chan[x] = {} /\ chan' = [chan EXCEPT ![x] = {Finish}]
    BY <1>9 DEF PurgeFinish, ResetOne, CanSend, callerVars
  <2>2. PICK x : chan[x] = {} /\ chan' = [chan EXCEPT ![x] = {Finish}]
    BY <2>1
  <2>3. \A t \in Tasks : \A v \in Workers : t \in chan'[v] <=> t \in chan[v]
    BY <2>2, PoolCoreAssumption DEF TypeOK, WorkerTypeOK
  <2> QED
    BY <2>1, <2>3, CarriedQuiet, CalledQuiet
<1>10. CASE \/ ExitSignal \/ PurgeTick \/ PurgeScan \/ PurgeAwake
            \/ ReleaseClose \/ ReleaseLock \/ ReleaseUnlock
            \/ ReleaseBroadcast \/ ReleaseCheck \/ UNCHANGED vars
            \/ \E t \in Tuners : TuneRead(t) \/ TuneStore(t) \/ TuneNotify(t)
  <2>1. /\ calls' = calls /\ pc' = pc /\ task' = task /\ wpc' = wpc
        /\ chan' = chan /\ cur' = cur
    BY <1>10 DEF ExitSignal, PurgeTick, PurgeScan, PurgeAwake, ReleaseClose,
                 ReleaseLock, ReleaseUnlock, ReleaseBroadcast, ReleaseCheck,
                 TuneRead, TuneStore, TuneNotify, vars, callerVars, workerVars
  <2> QED
    BY <2>1, CarriedQuiet, CalledQuiet
<1> QED
  BY <1>1, <1>2, <1>3, <1>4, <1>5, <1>6, <1>7, <1>8, <1>9, <1>10
     DEF Next, CallerStep, WorkerStep, PurgeStep, ReleaseStep, TuneStep

(* In every pool a task whose submit returned Ok is in the channel of one  *)
(* live worker, then executed by that worker alone, and a task that was    *)
(* refused never gets to a worker: none is lost between the channels, none *)
(* runs twice, whoever is purged, shed, released or panics meanwhile.      *)
THEOREM RunsOnce == Spec => []ExactlyOnce
<1>1. ASSUME OwnInv, TaskInv
      PROVE  ExactlyOnce
  <2> SUFFICES ASSUME NEW t \in Tasks
               PROVE  /\ IF task[t] = "accepted"
                            THEN \E w \in Workers :
                                   wpc[w] = "recv" /\ {v \in Workers : t \in chan[v]} = {w}
                            ELSE \A v \in Workers : t \notin chan[v]
                      /\ IF task[t] = "executing"
                            THEN \E w \in Workers :
                                   wpc[w] = "run" /\ {v \in Workers : cur[v] = t} = {w}
                            ELSE \A v \in Workers : cur[v] # t
    BY DEF ExactlyOnce
  <2>1. CASE task[t] = "accepted"
    <3>1. PICK w \in Workers : t \in chan[w]
      BY <1>1, <2>1 DEF TaskInv, Carried
    <3>2. wpc[w] = "recv"
      BY <1>1, <3>1 DEF OwnInv
    <3>3. \A v \in Workers : t \in chan[v] <=> v = w
      BY <1>1, <3>1 DEF TaskInv, Carried
    <3>4. {v \in Workers : t \in chan[v]} = {w}
      BY <3>3
    <3>5. \A v \in Workers : cur[v] # t
      BY <1>1, <2>1 DEF TaskInv, Carried
    <3> QED
      BY <2>1, <3>2, <3>4, <3>5
  <2>2. CASE task[t] = "executing"
    <3>1. PICK w \in Workers : cur[w] = t
      BY <1>1, <2>2 DEF TaskInv, Carried
    <3>2. t # None
      BY PoolCoreAssumption
    <3>3. wpc[w] = "run"
      BY <1>1, <3>1, <3>2 DEF TaskInv, Carried
    <3>4. \A v \in Workers : cur[v] = t <=> v = w
      BY <1>1, <3>1, <3>2 DEF TaskInv, Carried
    <3>5. {v \in Workers : cur[v] = t} = {w}
      BY <3>4
    <3>6. \A v \in Workers : t \notin chan[v]
      BY <1>1, <2>2 DEF TaskInv, Carried
    <3> QED
      BY <2>2, <3>3, <3>5, <3>6
  <2>3. CASE task[t] \notin {"accepted", "executing"}
    BY <1>1, <2>3 DEF TaskInv, Carried
  <2> QED
    BY <2>1, <2>2, <2>3
<1> QED
  BY <1>1, TypeCorrect, OwnAlways, TaskInit, TaskStep, PTL DEF Spec

=============================================================================
