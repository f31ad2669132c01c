----------------------------- MODULE QueueProofs -----------------------------
(***************************************************************************)
(* The ring and the stack are the queues that a pool expects.  In order:   *)
(* what a search by halving finds, for any data; the arithmetic of slots   *)
(* that wrap; sorted sequences; what each operation does to the sequence   *)
(* the ring stands for; the invariant; the refinements.                    *)
(*                                                                         *)
(* The ring is described by its slots, head and tail and by how many it    *)
(* holds (Ring), so that each operation is one lemma about plain values.   *)
(***************************************************************************)
EXTENDS WorkerQueue, TLAPS, WellFoundedInduction

(* The spans l..r that a search of n positions looks at, empty ones too.   *)
Spans(n) == (0..n) \X ((-1)..(n - 1))

(* One round of a search for the last position that is not late. *)
Halving(late, n, g) ==
  [span \in Spans(n) |->
     LET l == span[1]
         r == span[2]
         mid == l + (r - l) \div 2
     IN  IF l > r THEN r
         ELSE IF mid \in late THEN g[<<l, mid - 1>>]
         ELSE g[<<mid + 1, r>>]]

(* What the search of l..r returns when the positions from c on are late.  *)
Found(c, l, r) ==
  IF l > r THEN r ELSE IF c <= l THEN l - 1 ELSE IF c > r THEN r ELSE c - 1

(* Of n positions, those from c on are late.                               *)
Ascending(late, n, c) ==
  /\ n \in Nat /\ c \in 0..n
  /\ \A k \in 0..(n - 1) : k \in late <=> k >= c

(* The middle of a span lies within it. *)
LEMMA MidWithin ==
  ASSUME NEW l \in Int, NEW r \in Int, l <= r
  PROVE  /\ l + (r - l) \div 2 \in Int
         /\ l <= l + (r - l) \div 2 /\ l + (r - l) \div 2 <= r
OBVIOUS

(* A round of the search on what is found in its two halves. *)
LEMMA FoundHalves ==
  ASSUME NEW late, NEW n, NEW c, Ascending(late, n, c),
         NEW l \in 0..n, NEW r \in (-1)..(n - 1), l <= r,
         NEW mid \in Int, l <= mid, mid <= r
  PROVE  Found(c, l, r) = IF mid \in late THEN Found(c, l, mid - 1)
                          ELSE Found(c, mid + 1, r)
<1>1. mid \in 0..(n - 1) /\ n \in Nat /\ c \in 0..n
  BY DEF Ascending
<1>2. mid \in late <=> mid >= c
  BY <1>1 DEF Ascending
<1> QED BY <1>1, <1>2 DEF Found

(* The recursion defines something: what is found satisfies it.            *)
LEMMA HalvingExists ==
  ASSUME NEW late, NEW n, NEW c, Ascending(late, n, c)
  PROVE  \E g : g = Halving(late, n, g)
<1> DEFINE f == [span \in Spans(n) |-> Found(c, span[1], span[2])]
           h == Halving(late, n, f)
<1>0. n \in Nat /\ c \in 0..n
  BY DEF Ascending
<1>1. ASSUME NEW l \in 0..n, NEW r \in (-1)..(n - 1)
      PROVE  f[<<l, r>>] = h[<<l, r>>]
  <2> DEFINE mid == l + (r - l) \div 2
  <2>1. f[<<l, r>>] = Found(c, l, r)
    BY DEF Spans
  <2>2. h[<<l, r>>] = IF l > r THEN r
                      ELSE IF mid \in late THEN f[<<l, mid - 1>>]
                      ELSE f[<<mid + 1, r>>]
    BY DEF Spans, Halving
  <2>3. CASE l > r
    BY <2>1, <2>2, <2>3 DEF Found
  <2>4. CASE l <= r
    <3>1. mid \in Int /\ l <= mid /\ mid <= r
      BY <2>4, MidWithin
    <3> HIDE DEF mid
    <3>2. /\ <<l, mid - 1>> \in Spans(n) /\ <<mid + 1, r>> \in Spans(n)
      BY <1>0, <3>1 DEF Spans
    <3>3. /\ f[<<l, mid - 1>>] = Found(c, l, mid - 1)
          /\ f[<<mid + 1, r>>] = Found(c, mid + 1, r)
      BY <3>2
    <3>4. ~(l > r)
      BY <1>0, <2>4
    <3> HIDE DEF f, h
    <3> QED BY <2>1, <2>2, <2>4, <3>1, <3>3, <3>4, FoundHalves
  <2> QED BY <1>0, <2>3, <2>4
<1>2. f = h
  <2>1. f = [span \in Spans(n) |-> f[span]] /\ h = [span \in Spans(n) |-> h[span]]
    BY DEF Halving
  <2>2. \A span \in Spans(n) : f[span] = h[span]
    BY <1>1 DEF Spans
  <2> HIDE DEF f, h
  <2> QED BY <2>1, <2>2
<1> QED BY <1>2

(* Any search that halves finds the last position before c: a smallest     *)
(* span with another answer would have a smaller one.                      *)
LEMMA HalvingFinds ==
  ASSUME NEW late, NEW n, NEW c, Ascending(late, n, c),
         NEW g, g = Halving(late, n, g)
  PROVE  g[<<0, n - 1>>] = c - 1
<1>0. n \in Nat /\ c \in 0..n
  BY DEF Ascending
<1> DEFINE Bad == {d \in Nat : \E l \in 0..n, r \in (-1)..(n - 1) :
                                 /\ l <= r /\ d = r - l
                                 /\ g[<<l, r>>] # Found(c, l, r)}
<1>1. Bad = {}
  <2> SUFFICES ASSUME Bad # {} PROVE FALSE
    OBVIOUS
  <2>1. IsWellFoundedOn(OpToRel(<, Nat), Nat)
    BY NatLessThanWellFounded
  <2>2. PICK d \in Bad : \A e \in Bad : ~(<<e, d>> \in OpToRel(<, Nat))
    <3>1. Bad \subseteq Nat
      OBVIOUS
    <3> HIDE DEF Bad
    <3> QED BY <2>1, <3>1, WFMin
  <2>3. \A e \in Bad : ~(e < d)
    BY <2>2 DEF OpToRel
  <2>4. PICK l \in 0..n, r \in (-1)..(n - 1) :
          l <= r /\ d = r - l /\ g[<<l, r>>] # Found(c, l, r)
    OBVIOUS
  <2> DEFINE mid == l + (r - l) \div 2
  <2>5. mid \in Int /\ l <= mid /\ mid <= r
    BY <2>4, MidWithin
  <2>6. g[<<l, r>>] = IF l > r THEN r
                      ELSE IF mid \in late THEN g[<<l, mid - 1>>]
                      ELSE g[<<mid + 1, r>>]
    <3>1. <<l, r>> \in Spans(n)
      BY DEF Spans
    <3>2. Halving(late, n, g)[<<l, r>>] =
            IF l > r THEN r ELSE IF mid \in late THEN g[<<l, mid - 1>>]
                                 ELSE g[<<mid + 1, r>>]
      BY <3>1 DEF Halving
    <3> HIDE DEF mid
    <3> QED BY <3>2
  <2> HIDE DEF mid
  <2>7. ASSUME NEW a \in 0..n, NEW b \in (-1)..(n - 1), b - a < r - l
        PROVE  g[<<a, b>>] = Found(c, a, b)
    <3>1. CASE a <= b
      <4>1. b - a \in Nat /\ b - a < d
        BY <1>0, <2>4, <2>7, <3>1
      <4>2. b - a \notin Bad
        BY <2>3, <4>1
      <4> QED BY <3>1, <4>1, <4>2
    <3>2. CASE a > b
      <4>1. <<a, b>> \in Spans(n)
        BY DEF Spans
      <4>2. Halving(late, n, g)[<<a, b>>] = b
        BY <3>2, <4>1 DEF Halving
      <4> QED BY <3>2, <4>2 DEF Found
    <3> QED BY <1>0, <3>1, <3>2
  <2>8. /\ l \in 0..n /\ mid - 1 \in (-1)..(n - 1) /\ (mid - 1) - l < r - l
        /\ mid + 1 \in 0..n /\ r - (mid + 1) < r - l
    BY <1>0, <2>4, <2>5
  <2>9. /\ g[<<l, mid - 1>>] = Found(c, l, mid - 1)
        /\ g[<<mid + 1, r>>] = Found(c, mid + 1, r)
    BY <2>7, <2>8
  <2>10. ~(l > r)
    BY <1>0, <2>4
  <2> HIDE DEF Bad
  <2> QED BY <2>4, <2>5, <2>6, <2>9, <2>10, FoundHalves
<1>2. CASE n = 0
  <2>1. <<0, n - 1>> \in Spans(n) /\ 0 > n - 1
    BY <1>2 DEF Spans
  <2>2. Halving(late, n, g)[<<0, n - 1>>] = n - 1
    BY <2>1 DEF Halving
  <2> QED BY <1>0, <1>2, <2>2
<1>3. CASE n > 0
  <2>1. (n - 1) - 0 \in Nat /\ 0 \in 0..n /\ n - 1 \in (-1)..(n - 1)
    BY <1>0, <1>3
  <2>2. (n - 1) - 0 \notin Bad
    BY <1>1
  <2>3. g[<<0, n - 1>>] = Found(c, 0, n - 1)
    BY <2>1, <2>2
  <2> QED BY <1>0, <1>3, <2>3 DEF Found
<1> QED BY <1>0, <1>2, <1>3

-----------------------------------------------------------------------------
(* The slot k places after h.                                              *)
Slot(h, k) == (h + k) % Size

Window(h, n) == {Slot(h, k) : k \in 0..(n - 1)}

(* What the n slots from h on hold.                                        *)
View(s, h, n) == [k \in 1..n |-> s[Slot(h, k - 1)]]

(* Slots, head and tail of a ring that holds n.                            *)
Ring(s, h, t, n) ==
  /\ s \in [Index -> Entry \cup {None}]
  /\ h \in Index
  /\ n \in 0..Size
  /\ t = Slot(h, n)
  /\ \A i \in Index : s[i] # None <=> i \in Window(h, n)

(* len(), of any head, tail and flag.                                      *)
LengthOf(h, t, f) ==
  IF h = t /\ ~f THEN 0
  ELSE IF h = t THEN Size
  ELSE IF t > h THEN t - h
  ELSE Size - h + t

(* Indices wrap once.                                                      *)
LEMMA Remainder ==
  ASSUME NEW x \in Nat, NEW m \in Nat \ {0}, x < 2 * m
  PROVE  x % m = IF x < m THEN x ELSE x - m
<1>1. ASSUME x < m PROVE x % m = x
  BY <1>1, SMTT(30)
<1>2. ASSUME x >= m PROVE x % m = x - m
  <2>1. x - m \in 0..(m - 1) /\ x = 1 * m + (x - m)
    BY <1>2
  <2>2. (1 * m + (x - m)) % m = x - m
    BY <2>1, SMTT(30)
  <2> QED BY <2>1, <2>2
<1> QED BY <1>1, <1>2

(* ... and twice, when a mapped position is mapped back.                   *)
LEMMA RemainderAgain ==
  ASSUME NEW x \in Nat, NEW m \in Nat \ {0}, x < 2 * m
  PROVE  (x + m) % m = IF x < m THEN x ELSE x - m
<1>1. ASSUME x < m PROVE (x + m) % m = x
  <2>1. x \in 0..(m - 1) /\ x + m = 1 * m + x
    BY <1>1
  <2>2. (1 * m + x) % m = x
    BY <2>1, SMTT(30)
  <2> QED BY <2>1, <2>2
<1>2. ASSUME x >= m PROVE (x + m) % m = x - m
  <2>1. x - m \in 0..(m - 1) /\ x + m = 2 * m + (x - m)
    BY <1>2
  <2>2. (2 * m + (x - m)) % m = x - m
    BY <2>1, SMTT(30)
  <2> QED BY <2>1, <2>2
<1> QED BY <1>1, <1>2

(* A slot is below the end of the ring, or wraps.                          *)
LEMMA SlotIs ==
  ASSUME NEW h \in Index, NEW k \in 0..Size
  PROVE  /\ Slot(h, k) = IF h + k < Size THEN h + k ELSE h + k - Size
         /\ Slot(h, k) \in Index
<1>1. Size \in Nat \ {0} /\ h \in 0..(Size - 1)
  BY LoopQueueAssumption DEF Index
<1>2. h + k \in Nat /\ h + k < 2 * Size
  BY <1>1
<1> DEFINE x == h + k
<1>3. x % Size = IF x < Size THEN x ELSE x - Size
  <2> HIDE DEF x
  <2>1. x \in Nat /\ x < 2 * Size
    BY <1>2 DEF x
  <2> QED BY <1>1, <2>1, Remainder
<1>4. Slot(h, k) = x % Size /\ x = h + k
  BY DEF Slot
<1>5. Slot(h, k) = IF x < Size THEN x ELSE x - Size
  <2> HIDE DEF x
  <2> QED BY <1>3, <1>4
<1> QED BY <1>1, <1>4, <1>5 DEF Index

(* Different places are different slots.                                   *)
LEMMA InWindow ==
  ASSUME NEW h \in Index, NEW n \in 0..Size, NEW k \in 0..(Size - 1)
  PROVE  Slot(h, k) \in Window(h, n) <=> k < n
<1>1. Size \in Nat \ {0} /\ h \in 0..(Size - 1)
  BY LoopQueueAssumption DEF Index
<1>2. k < n => Slot(h, k) \in Window(h, n)
  BY <1>1 DEF Window
<1>3. ASSUME NEW j \in 0..(n - 1), Slot(h, j) = Slot(h, k)
      PROVE  j = k
  BY <1>1, <1>3, SlotIs
<1>4. Slot(h, k) \in Window(h, n) => k < n
  BY <1>1, <1>3 DEF Window
<1> QED BY <1>2, <1>4

(* Every slot is at some place after h.                                    *)
LEMMA Placed ==
  ASSUME NEW h \in Index, NEW i \in Index
  PROVE  \E k \in 0..(Size - 1) : i = Slot(h, k)
<1>1. Size \in Nat \ {0} /\ h \in 0..(Size - 1) /\ i \in 0..(Size - 1)
  BY LoopQueueAssumption DEF Index
<1>2. CASE i >= h
  <2>1. i - h \in 0..(Size - 1) /\ h + (i - h) = i
    BY <1>1, <1>2
  <2>2. i = Slot(h, i - h)
    BY <1>1, <2>1, SlotIs
  <2> QED BY <2>1, <2>2
<1>3. CASE i < h
  <2>1. i - h + Size \in 0..(Size - 1) /\ h + (i - h + Size) = i + Size
    BY <1>1, <1>3
  <2>2. i = Slot(h, i - h + Size)
    BY <1>1, <2>1, SlotIs
  <2> QED BY <2>1, <2>2
<1> QED BY <1>1, <1>2, <1>3

(* A place counted from a later slot.                                      *)
LEMMA SlotSum ==
  ASSUME NEW h \in Index, NEW c \in 0..Size, NEW k \in 0..Size, c + k <= Size
  PROVE  Slot(Slot(h, c), k) = Slot(h, c + k)
<1>1. Size \in Nat \ {0} /\ h \in 0..(Size - 1) /\ c + k \in 0..Size
  BY LoopQueueAssumption DEF Index
<1> DEFINE g == Slot(h, c)
<1>2. /\ g \in Index
      /\ g = IF h + c < Size THEN h + c ELSE h + c - Size
      /\ Slot(h, c + k) = IF h + (c + k) < Size THEN h + (c + k) ELSE h + (c + k) - Size
  BY <1>1, SlotIs
<1> HIDE DEF g
<1>3. Slot(g, k) = IF g + k < Size THEN g + k ELSE g + k - Size
  BY <1>2, SlotIs
<1>4. Slot(g, k) = Slot(h, c + k)
  BY <1>1, <1>2, <1>3
<1> QED BY <1>4 DEF g

(* len() is what the ring holds.                                           *)
LEMMA RingLength ==
  ASSUME NEW s, NEW h, NEW t, NEW n, Ring(s, h, t, n),
         NEW f, f <=> n = Size
  PROVE  LengthOf(h, t, f) = n /\ t \in Index
<1>1. Size \in Nat \ {0} /\ h \in 0..(Size - 1) /\ n \in 0..Size /\ h \in Index
  BY LoopQueueAssumption DEF Index, Ring
<1>2. t = IF h + n < Size THEN h + n ELSE h + n - Size
  BY <1>1, SlotIs DEF Ring
<1>4. t \in Index
  BY <1>1, <1>2 DEF Index
<1>5. /\ h = t <=> n = 0 \/ n = Size
      /\ t > h => n = t - h
      /\ h > t => n = Size - h + t
  BY <1>1, <1>2
<1>6. t \in Int /\ h \in Int
  BY <1>1, <1>4 DEF Index
<1>7. LengthOf(h, t, f) = n
  <2>1. CASE n = 0
    <3>1. ~f /\ h = t
      BY <1>1, <1>5, <2>1
    <3> QED BY <2>1, <3>1 DEF LengthOf
  <2>2. CASE n = Size
    <3>1. f /\ h = t
      BY <1>1, <1>5, <2>2
    <3> QED BY <2>2, <3>1 DEF LengthOf
  <2>3. CASE n # 0 /\ n # Size
    <3>1. h # t
      BY <1>5, <2>3
    <3>2. LengthOf(h, t, f) = IF t > h THEN t - h ELSE Size - h + t
      BY <3>1 DEF LengthOf
    <3>3. ~(t > h) => h > t
      BY <1>1, <1>6, <3>1
    <3> QED BY <1>5, <3>2, <3>3
  <2> QED BY <2>1, <2>2, <2>3
<1> QED BY <1>4, <1>7

-----------------------------------------------------------------------------
(* In the order of the times at which they were used last, none after now. *)
Sorted(q, now) ==
  /\ \A k \in DOMAIN q : q[k].at \in Int /\ q[k].at <= now
  /\ \A j, k \in DOMAIN q : j <= k => q[j].at <= q[k].at

(* The first c of q have expired, and no others.                           *)
Cut(q, c, expiry) ==
  /\ c \in 0..Len(q)
  /\ \A k \in DOMAIN q : q[k].at <= expiry <=> k <= c

(* What has expired comes first in a sorted queue.                         *)
LEMMA CutExists ==
  ASSUME NEW S, NEW q \in Seq(S), NEW now, Sorted(q, now), NEW expiry \in Int
  PROVE  \E c : Cut(q, c, expiry)
<1> DEFINE Late == {k \in DOMAIN q : ~(q[k].at <= expiry)}
<1>0. Len(q) \in Nat /\ DOMAIN q = 1..Len(q)
  OBVIOUS
<1>1. CASE Late = {}
  <2>1. Cut(q, Len(q), expiry)
    BY <1>0, <1>1 DEF Cut
  <2> QED BY <2>1
<1>2. CASE Late # {}
  <2>1. Late \subseteq Nat
    BY <1>0
  <2>2. IsWellFoundedOn(OpToRel(<, Nat), Nat)
    BY NatLessThanWellFounded
  <2>3. PICK m \in Late : \A k \in Late : ~(<<k, m>> \in OpToRel(<, Nat))
    <3> HIDE DEF Late
    <3> QED BY <1>2, <2>1, <2>2, WFMin
  <2>4. \A k \in Late : ~(k < m)
    BY <2>1, <2>3 DEF OpToRel
  <2>5. m \in 1..Len(q) /\ ~(q[m].at <= expiry) /\ m - 1 \in 0..Len(q)
    BY <1>0
  <2>6. ASSUME NEW k \in DOMAIN q
        PROVE  q[k].at <= expiry <=> k <= m - 1
    <3>1. k \in 1..Len(q)
      BY <1>0
    <3>2. k < m => q[k].at <= expiry
      BY <2>4
    <3>3. k >= m => q[m].at <= q[k].at /\ q[m].at \in Int /\ q[k].at \in Int
      BY <1>0, <2>5, <3>1 DEF Sorted
    <3> QED BY <2>5, <3>1, <3>2, <3>3
  <2>7. Cut(q, m - 1, expiry)
    BY <2>5, <2>6 DEF Cut
  <2> QED BY <2>7
<1> QED BY <1>1, <1>2

(* The clock does not go back, so that the newest comes last.              *)
LEMMA SortedAppend ==
  ASSUME NEW S, NEW q \in Seq(S), NEW now \in Int, Sorted(q, now),
         NEW e \in S, e.at = now
  PROVE  Sorted(Append(q, e), now)
<1>1. /\ Len(q) \in Nat /\ DOMAIN q = 1..Len(q)
      /\ DOMAIN Append(q, e) = 1..(Len(q) + 1)
      /\ \A k \in 1..Len(q) : Append(q, e)[k] = q[k]
      /\ Append(q, e)[Len(q) + 1] = e
  OBVIOUS
<1> DEFINE a == Append(q, e)
           n == Len(q)
<1>2. ASSUME NEW k \in 1..(n + 1)
      PROVE  a[k].at \in Int /\ a[k].at <= now /\ (k = n + 1 => a[k].at = now)
  BY <1>1 DEF Sorted
<1>3. ASSUME NEW j \in 1..(n + 1), NEW k \in 1..(n + 1), j <= k
      PROVE  a[j].at <= a[k].at
  <2>1. CASE k = n + 1
    BY <1>2, <2>1
  <2>2. CASE k # n + 1
    <3>1. j \in 1..n /\ k \in 1..n
      BY <1>1, <1>3, <2>2
    <3> QED BY <1>1, <1>3, <3>1 DEF Sorted
  <2> QED BY <2>1, <2>2
<1> HIDE DEF a, n
<1>4. DOMAIN a = 1..(n + 1)
  BY <1>1 DEF a, n
<1>5. Sorted(a, now)
  BY <1>2, <1>3, <1>4 DEF Sorted
<1> QED BY <1>5 DEF a

(* What is left of a sorted queue is sorted.                               *)
LEMMA SortedPart ==
  ASSUME NEW S, NEW q \in Seq(S), NEW now, Sorted(q, now),
         NEW a \in 1..(Len(q) + 1), NEW b \in 0..Len(q), a <= b + 1
  PROVE  Sorted(SubSeq(q, a, b), now)
<1> DEFINE p == SubSeq(q, a, b)
<1>1. /\ Len(q) \in Nat /\ DOMAIN q = 1..Len(q)
      /\ DOMAIN p = 1..(b - a + 1)
      /\ \A k \in 1..(b - a + 1) : p[k] = q[k + a - 1]
  OBVIOUS
<1>2. \A k \in 1..(b - a + 1) : k + a - 1 \in 1..Len(q)
  BY <1>1
<1> HIDE DEF p
<1>3. \A k \in DOMAIN p : p[k].at \in Int /\ p[k].at <= now
  BY <1>1, <1>2 DEF Sorted
<1>4. ASSUME NEW j \in DOMAIN p, NEW k \in DOMAIN p, j <= k
      PROVE  p[j].at <= p[k].at
  <2>1. /\ j + a - 1 \in 1..Len(q) /\ k + a - 1 \in 1..Len(q)
        /\ j + a - 1 <= k + a - 1
        /\ p[j] = q[j + a - 1] /\ p[k] = q[k + a - 1]
    <3>1. j \in 1..(b - a + 1) /\ k \in 1..(b - a + 1)
      BY <1>1
    <3>2. j + a - 1 \in 1..Len(q) /\ k + a - 1 \in 1..Len(q)
      BY <1>2, <3>1
    <3>3. p[j] = q[j + a - 1] /\ p[k] = q[k + a - 1]
      BY <1>1, <3>1
    <3>4. j + a - 1 <= k + a - 1
      BY <1>4, <3>1
    <3> QED BY <3>2, <3>3, <3>4
  <2> QED BY <1>1, <2>1 DEF Sorted
<1>5. Sorted(p, now)
  BY <1>3, <1>4 DEF Sorted
<1> QED BY <1>5 DEF p

-----------------------------------------------------------------------------
(* A worker and when it was used last.                                     *)
LEMMA EntryType ==
  ASSUME NEW e \in Entry
  PROVE  e.who \in Workers /\ e.at \in Times /\ e.at \in Int
<1>1. e.who \in Workers /\ e.at \in Times
  BY DEF Entry
<1>2. \A t \in Times : t \in Int
  BY LoopQueueAssumption
<1> QED BY <1>1, <1>2

(* The slots in use hold workers, one each.                                *)
LEMMA ViewType ==
  ASSUME NEW s, NEW h, NEW t, NEW n, Ring(s, h, t, n)
  PROVE  /\ View(s, h, n) \in Seq(Entry)
         /\ Len(View(s, h, n)) = n
         /\ DOMAIN View(s, h, n) = 1..n
         /\ \A k \in 0..(n - 1) : /\ Slot(h, k) \in Index
                                  /\ s[Slot(h, k)] \in Entry
                                  /\ s[Slot(h, k)] # None
                                  /\ View(s, h, n)[k + 1] = s[Slot(h, k)]
<1>1. /\ s \in [Index -> Entry \cup {None}] /\ h \in Index /\ n \in 0..Size
      /\ \A i \in Index : s[i] # None <=> i \in Window(h, n)
      /\ Size \in Nat \ {0} /\ n \in Nat
  BY LoopQueueAssumption DEF Ring
<1>2. ASSUME NEW k \in 0..(n - 1)
      PROVE  Slot(h, k) \in Index /\ s[Slot(h, k)] # None /\ s[Slot(h, k)] \in Entry
  <2>1. Slot(h, k) \in Index
    BY <1>1, SlotIs
  <2>2. Slot(h, k) \in Window(h, n)
    BY DEF Window
  <2> QED BY <1>1, <2>1, <2>2
<1>3. \A j \in 1..n : j - 1 \in 0..(n - 1)
  BY <1>1
<1>4. View(s, h, n) \in [1..n -> Entry]
  BY <1>2, <1>3 DEF View
<1>5. \A k \in 0..(n - 1) : k + 1 \in 1..n /\ (k + 1) - 1 = k
  BY <1>1
<1>6. \A k \in 0..(n - 1) : View(s, h, n)[k + 1] = s[Slot(h, k)]
  BY <1>5 DEF View
<1> HIDE DEF View
<1>7. View(s, h, n) \in Seq(Entry) /\ Len(View(s, h, n)) = n
  BY <1>1, <1>4
<1> QED BY <1>2, <1>4, <1>6, <1>7

(* One more at the end; a name that the provers do not look into.          *)
Longer(q, e) == Append(q, e)

(* Insertion at the tail.                                                  *)
LEMMA RingInsert ==
  ASSUME NEW s, NEW h, NEW t, NEW n, Ring(s, h, t, n), n # Size,
         NEW e \in Entry
  PROVE  /\ Ring([s EXCEPT ![t] = e], h, (t + 1) % Size, n + 1)
         /\ (t + 1) % Size = h <=> n + 1 = Size
         /\ View([s EXCEPT ![t] = e], h, n + 1) = Longer(View(s, h, n), e)
<1> DEFINE t2 == Slot(h, n + 1)
           s2 == [s EXCEPT ![t] = e]
<1>1. /\ s \in [Index -> Entry \cup {None}] /\ h \in Index /\ n \in 0..Size
      /\ \A i \in Index : s[i] # None <=> i \in Window(h, n)
      /\ Size \in Nat \ {0} /\ n # Size /\ t = Slot(h, n)
      /\ None \notin Entry
  BY LoopQueueAssumption DEF Ring, Entry
<1>2. n \in 0..(Size - 1) /\ n + 1 \in 0..Size /\ n \in Nat
  BY <1>1
<1>3. t \in Index
  BY <1>1, <1>2, SlotIs
<1>4. t2 = (t + 1) % Size
  <2>1. Slot(t, 1) = Slot(h, n + 1)
    BY <1>1, <1>2, SlotSum
  <2> QED BY <2>1 DEF Slot
<1>5. (t2 = h) <=> (n + 1 = Size)
  <2>1. h \in 0..(Size - 1)
    BY <1>1 DEF Index
  <2>2. t2 = IF h + (n + 1) < Size THEN h + (n + 1) ELSE h + (n + 1) - Size
    BY <1>1, <1>2, SlotIs
  <2> HIDE DEF t2
  <2> QED BY <1>1, <1>2, <2>1, <2>2
<1>6. \A i \in Index : i \in Window(h, n + 1) <=> i \in Window(h, n) \/ i = t
  <2> SUFFICES ASSUME NEW i \in Index
               PROVE  i \in Window(h, n + 1) <=> i \in Window(h, n) \/ i = t
    OBVIOUS
  <2>1. PICK k \in 0..(Size - 1) : i = Slot(h, k)
    BY <1>1, Placed
  <2>2. /\ i \in Window(h, n + 1) <=> k < n + 1
        /\ i \in Window(h, n) <=> k < n
    BY <1>1, <1>2, <2>1, InWindow
  <2>3. i = t => i \in Window(h, n + 1) /\ i \notin Window(h, n)
    <3>1. n < n + 1 /\ ~(n < n)
      BY <1>2
    <3> QED BY <1>1, <1>2, <3>1, InWindow
  <2>4. k = n => i = t
    BY <1>1, <2>1
  <2> QED BY <1>2, <2>1, <2>2, <2>3, <2>4
<1>7. s2 \in [Index -> Entry \cup {None}]
  BY <1>1
<1>8. \A i \in Index : s2[i] = IF i = t THEN e ELSE s[i]
  BY <1>1
<1>9. Ring(s2, h, t2, n + 1)
  <2> HIDE DEF s2, t2
  <2>1. \A i \in Index : s2[i] # None <=> i \in Window(h, n + 1)
    BY <1>1, <1>6, <1>8
  <2>2. t2 = Slot(h, n + 1)
    BY DEF t2
  <2> QED BY <1>1, <1>2, <1>7, <2>1, <2>2 DEF Ring
<1>10. View(s2, h, n + 1) = Longer(View(s, h, n), e)
  <2> HIDE DEF s2, t2
  <2> DEFINE v == View(s, h, n)
             v2 == View(s2, h, n + 1)
  <2>1. /\ v \in Seq(Entry) /\ Len(v) = n
        /\ \A k \in 0..(n - 1) : v[k + 1] = s[Slot(h, k)]
    BY ViewType
  <2>2. /\ v2 \in Seq(Entry) /\ Len(v2) = n + 1
        /\ \A k \in 0..((n + 1) - 1) : v2[k + 1] = s2[Slot(h, k)]
    BY <1>9, ViewType
  <2>3. ASSUME NEW k \in 0..((n + 1) - 1)
        PROVE  v2[k + 1] = IF k = n THEN e ELSE v[k + 1]
    <3>1. k = n => v2[k + 1] = e
      BY <1>1, <1>3, <1>8, <2>2
    <3>2. ASSUME k # n PROVE v2[k + 1] = v[k + 1]
      <4>1. k \in 0..(n - 1) /\ k \in 0..(Size - 1) /\ k < n
        BY <1>1, <1>2, <3>2
      <4>2. Slot(h, k) \in Window(h, n) /\ Slot(h, k) \in Index
        BY <1>1, <4>1, InWindow, SlotIs
      <4>3. t \notin Window(h, n)
        <5>1. ~(n < n)
          BY <1>2
        <5> QED BY <1>1, <1>2, <5>1, InWindow
      <4>4. s2[Slot(h, k)] = s[Slot(h, k)]
        BY <1>8, <4>2, <4>3
      <4> QED BY <2>1, <2>2, <4>1, <4>4
    <3> QED BY <3>1, <3>2
  <2>4. \A j \in 1..(n + 1) : v2[j] = IF j = n + 1 THEN e ELSE v[j]
    <3> SUFFICES ASSUME NEW j \in 1..(n + 1)
                 PROVE  v2[j] = IF j = n + 1 THEN e ELSE v[j]
      OBVIOUS
    <3>1. j - 1 \in 0..((n + 1) - 1) /\ (j - 1) + 1 = j
      BY <1>2
    <3>2. v2[(j - 1) + 1] = IF j - 1 = n THEN e ELSE v[(j - 1) + 1]
      BY <2>3, <3>1
    <3> HIDE DEF v, v2
    <3> QED BY <1>2, <3>1, <3>2
  <2> HIDE DEF v, v2
  <2>5. v2 = Append(v, e)
    <3>1. Append(v, e) \in Seq(Entry) /\ Len(Append(v, e)) = n + 1
      BY <2>1
    <3>2. \A j \in 1..(n + 1) : Append(v, e)[j] = IF j = n + 1 THEN e ELSE v[j]
      BY <1>2, <2>1
    <3>3. \A j \in 1..(n + 1) : v2[j] = Append(v, e)[j]
      BY <2>4, <3>2
    <3> QED BY <1>2, <2>2, <3>1, <3>3
  <2> QED BY <2>5 DEF v, v2, Longer
<1> QED BY <1>4, <1>5, <1>9, <1>10

(* Removal of the first c.                                                 *)
LEMMA RingCut ==
  ASSUME NEW s, NEW h, NEW t, NEW n, Ring(s, h, t, n),
         NEW c \in 1..n
  PROVE  LET s2 == [i \in Index |-> IF i \in Window(h, c) THEN None ELSE s[i]]
         IN  /\ Ring(s2, Slot(h, c), t, n - c) /\ n - c # Size
             /\ View(s2, Slot(h, c), n - c) = SubSeq(View(s, h, n), c + 1, n)
<1> DEFINE h2 == Slot(h, c)
           s2 == [i \in Index |-> IF i \in Window(h, c) THEN None ELSE s[i]]
<1>1. /\ s \in [Index -> Entry \cup {None}] /\ h \in Index /\ n \in 0..Size
      /\ \A i \in Index : s[i] # None <=> i \in Window(h, n)
      /\ Size \in Nat \ {0} /\ t = Slot(h, n)
  BY LoopQueueAssumption DEF Ring
<1>2. n \in Nat /\ c \in Nat /\ n - c \in 0..Size /\ n - c # Size /\ c \in 0..Size
  BY <1>1
<1>3. h2 \in Index
  BY <1>1, <1>2, SlotIs
<1>4. Slot(h2, n - c) = t
  <2>1. c + (n - c) = n
    BY <1>2
  <2>2. Slot(Slot(h, c), n - c) = Slot(h, c + (n - c))
    BY <1>1, <1>2, <2>1, SlotSum
  <2> QED BY <1>1, <2>1, <2>2
<1>5. \A k \in 0..((n - c) - 1) :
        Slot(h2, k) = Slot(h, c + k) /\ c + k \in 0..(Size - 1) /\ c + k < n
          /\ Slot(h2, k) \in Index
  <2> SUFFICES ASSUME NEW k \in 0..((n - c) - 1)
               PROVE  Slot(h2, k) = Slot(h, c + k) /\ c + k \in 0..(Size - 1)
                        /\ c + k < n /\ Slot(h2, k) \in Index
    OBVIOUS
  <2>1. c + k \in 0..(Size - 1) /\ c + k < n /\ k \in 0..Size /\ c + k <= Size
    BY <1>1, <1>2
  <2>2. Slot(h2, k) = Slot(h, c + k)
    BY <1>1, <1>2, <2>1, SlotSum
  <2>3. Slot(h2, k) \in Index
    BY <1>3, <2>1, SlotIs
  <2> QED BY <2>1, <2>2, <2>3
<1>6. \A i \in Index : i \in Window(h2, n - c)
                         <=> i \in Window(h, n) /\ i \notin Window(h, c)
  <2> SUFFICES ASSUME NEW i \in Index
               PROVE  i \in Window(h2, n - c)
                        <=> i \in Window(h, n) /\ i \notin Window(h, c)
    OBVIOUS
  <2>1. PICK k \in 0..(Size - 1) : i = Slot(h, k)
    BY <1>1, Placed
  <2>2. /\ i \in Window(h, n) <=> k < n
        /\ i \in Window(h, c) <=> k < c
    BY <1>1, <1>2, <2>1, InWindow
  <2>3. ASSUME c <= k, k < n PROVE i \in Window(h2, n - c)
    <3>1. k - c \in 0..((n - c) - 1) /\ c + (k - c) = k
      BY <1>2, <2>1, <2>3
    <3>2. i = Slot(h2, k - c)
      BY <1>5, <2>1, <3>1
    <3> HIDE DEF h2
    <3> QED BY <3>1, <3>2 DEF Window
  <2>4. ASSUME i \in Window(h2, n - c)
        PROVE  i \in Window(h, n) /\ i \notin Window(h, c)
    <3>1. PICK m \in 0..((n - c) - 1) : i = Slot(h2, m)
      <4> HIDE DEF h2
      <4> QED BY <2>4 DEF Window
    <3>2. i = Slot(h, c + m) /\ c + m \in 0..(Size - 1) /\ c + m < n
      BY <1>5, <3>1
    <3>3. ~(c + m < c)
      BY <1>2
    <3> QED BY <1>1, <1>2, <3>2, <3>3, InWindow
  <2>5. ~(k < c) => c <= k
    BY <1>2
  <2> QED BY <2>2, <2>3, <2>4, <2>5
<1>7. /\ s2 \in [Index -> Entry \cup {None}]
      /\ \A i \in Index : s2[i] = IF i \in Window(h, c) THEN None ELSE s[i]
  BY <1>1
<1>8. Ring(s2, h2, t, n - c)
  <2> HIDE DEF s2, h2
  <2>1. \A i \in Index : s2[i] # None <=> i \in Window(h2, n - c)
    BY <1>1, <1>6, <1>7
  <2> QED BY <1>2, <1>3, <1>4, <1>7, <2>1 DEF Ring
<1>9. View(s2, h2, n - c) = SubSeq(View(s, h, n), c + 1, n)
  <2> HIDE DEF s2, h2
  <2> DEFINE v == View(s, h, n)
             v2 == View(s2, h2, n - c)
             p == SubSeq(v, c + 1, n)
  <2>1. /\ v \in Seq(Entry) /\ Len(v) = n
        /\ \A k \in 0..(n - 1) : v[k + 1] = s[Slot(h, k)]
    BY ViewType
  <2>2. v2 = [j \in 1..(n - c) |-> s2[Slot(h2, j - 1)]]
    BY DEF View
  <2>3. ASSUME NEW j \in 1..(n - c)
        PROVE  s2[Slot(h2, j - 1)] = v[c + j]
    <3> DEFINE k == j - 1
    <3>1. k \in 0..((n - c) - 1) /\ c + k \in 0..(n - 1) /\ (c + k) + 1 = c + j
      BY <1>2
    <3> HIDE DEF k
    <3>2. /\ Slot(h2, k) = Slot(h, c + k) /\ c + k \in 0..(Size - 1) /\ c + k < n
          /\ Slot(h2, k) \in Index
      BY <1>5, <3>1
    <3>3. Slot(h, c + k) \notin Window(h, c)
      <4>1. ~(c + k < c)
        BY <1>2, <3>1
      <4> QED BY <1>1, <1>2, <3>2, <4>1, InWindow
    <3>4. s2[Slot(h2, k)] = s[Slot(h, c + k)]
      BY <1>7, <3>2, <3>3
    <3>5. s2[Slot(h2, k)] = v[c + j]
      <4>1. v[(c + k) + 1] = s[Slot(h, c + k)]
        BY <2>1, <3>1
      <4> HIDE DEF v
      <4> QED BY <3>1, <3>4, <4>1
    <3> QED BY <3>5 DEF k
  <2> HIDE DEF v, v2
  <2>4. p = [j \in 1..(n - c) |-> v[c + j]]
    <3>1. p = [j \in 1..(n - (c + 1) + 1) |-> v[j + (c + 1) - 1]]
      BY <1>2, <2>1
    <3>2. n - (c + 1) + 1 = n - c /\ \A j \in 1..(n - c) : j + (c + 1) - 1 = c + j
      BY <1>2
    <3> QED BY <3>1, <3>2
  <2>5. v2 = p
    <3> HIDE DEF p
    <3> QED BY <2>2, <2>3, <2>4
  <2> QED BY <2>5 DEF v, v2
<1> QED BY <1>2, <1>8, <1>9

-----------------------------------------------------------------------------
(* The search of a sorted ring finds the cut.                              *)
LEMMA SearchFinds ==
  ASSUME NEW n \in Nat, NEW c \in 0..n, NEW expiry,
         \A k \in 0..(n - 1) : expiry < LastUsed((k + head) % Size) <=> k >= c
  PROVE  Search(0, n - 1, expiry) = c - 1
<1> DEFINE late == {k \in 0..(n - 1) : expiry < LastUsed((k + head) % Size)}
           Round(g) ==
             [span \in (0..((n - 1) + 1)) \X ((0 - 1)..(n - 1)) |->
                LET l == span[1]
                    r == span[2]
                    mid == l + (r - l) \div 2
                IN  IF l > r THEN r
                    ELSE IF expiry < LastUsed((mid + head) % Size)
                           THEN g[<<l, mid - 1>>]
                           ELSE g[<<mid + 1, r>>]]
<1>1. Ascending(late, n, c)
  BY DEF Ascending
<1>2. Spans(n) = (0..((n - 1) + 1)) \X ((0 - 1)..(n - 1))
  BY DEF Spans
<1>3. ASSUME NEW g PROVE Round(g) = Halving(late, n, g)
  <2>1. ASSUME NEW span \in Spans(n)
        PROVE  Round(g)[span] = Halving(late, n, g)[span]
    <3> DEFINE l == span[1]
               r == span[2]
               mid == l + (r - l) \div 2
    <3>1. l \in 0..n /\ r \in (-1)..(n - 1)
      BY DEF Spans
    <3>2. l <= r => mid \in 0..(n - 1)
      <4>1. l \in Int /\ r \in Int
        BY <3>1
      <4>2. l <= r => mid \in Int /\ l <= mid /\ mid <= r
        BY <4>1, MidWithin
      <4> HIDE DEF l, r, mid
      <4> QED BY <3>1, <4>2
    <3>3. l <= r => (mid \in late <=> expiry < LastUsed((mid + head) % Size))
      <4> HIDE DEF l, r, mid
      <4> QED BY <3>2
    <3>4. Round(g)[span] = IF l > r THEN r
                           ELSE IF expiry < LastUsed((mid + head) % Size)
                                  THEN g[<<l, mid - 1>>]
                                  ELSE g[<<mid + 1, r>>]
      BY Zenon, <1>2
    <3>5. Halving(late, n, g)[span] = IF l > r THEN r
                                      ELSE IF mid \in late THEN g[<<l, mid - 1>>]
                                      ELSE g[<<mid + 1, r>>]
      BY Zenon DEF Halving
    <3>6. l > r \/ l <= r
      BY <3>1
    <3> HIDE DEF Round, late, l, r, mid
    <3> QED BY <3>1, <3>3, <3>4, <3>5, <3>6
  <2>2. /\ Round(g) = [span \in Spans(n) |-> Round(g)[span]]
        /\ Halving(late, n, g) = [span \in Spans(n) |-> Halving(late, n, g)[span]]
    BY <1>2 DEF Halving
  <2> HIDE DEF Round, late
  <2> QED BY <2>1, <2>2
<1>4. Search(0, n - 1, expiry) = (CHOOSE g : g = Round(g))[<<0, n - 1>>]
  BY DEF Search
<1> HIDE DEF Round, late
<1>5. \E g : g = Round(g)
  BY <1>1, <1>3, HalvingExists
<1> DEFINE found == CHOOSE g : g = Round(g)
<1>6. found = Round(found)
  BY <1>5
<1> HIDE DEF found
<1>7. found = Halving(late, n, found)
  BY <1>3, <1>6
<1>8. found[<<0, n - 1>>] = c - 1
  BY <1>1, <1>7, HalvingFinds
<1> QED BY <1>4, <1>8 DEF found

(* ... and maps it back to a slot.                                         *)
LEMMA RingSearch ==
  ASSUME NEW n, Ring(slots, head, tail, n), IsEmpty <=> n = 0,
         NEW expiry \in Int, NEW c, Cut(View(slots, head, n), c, expiry)
  PROVE  BinarySearch(expiry) = IF c = 0 THEN -1 ELSE Slot(head, c - 1)
<1> DEFINE v == View(slots, head, n)
<1>1. /\ head \in Index /\ n \in 0..Size /\ tail = Slot(head, n)
      /\ Size \in Nat \ {0} /\ head \in 0..(Size - 1)
  BY LoopQueueAssumption DEF Ring, Index
<1>2. /\ v \in Seq(Entry) /\ Len(v) = n /\ DOMAIN v = 1..n
      /\ \A k \in 0..(n - 1) : /\ slots[Slot(head, k)] \in Entry
                               /\ slots[Slot(head, k)] # None
                               /\ v[k + 1] = slots[Slot(head, k)]
  BY ViewType
<1>3. /\ c \in 0..n /\ n \in Nat
      /\ \A k \in 1..n : v[k].at <= expiry <=> k <= c
  BY <1>1, <1>2 DEF Cut
<1> HIDE DEF v
<1>4. ASSUME NEW k \in 0..(n - 1)
      PROVE  expiry < LastUsed(Slot(head, k)) <=> k >= c
  <2>1. k + 1 \in 1..n /\ k \in Int /\ c \in Int
    BY <1>3
  <2>2. LastUsed(Slot(head, k)) = v[k + 1].at
    BY <1>2 DEF LastUsed
  <2>3. v[k + 1] \in Entry
    BY <1>2
  <2>4. v[k + 1].at \in Int
    BY <2>3, EntryType
  <2>5. v[k + 1].at <= expiry <=> k + 1 <= c
    BY <1>3, <2>1
  <2>6. expiry < v[k + 1].at <=> ~(v[k + 1].at <= expiry)
    <3> DEFINE at == v[k + 1].at
    <3>1. at \in Int
      BY <2>4
    <3> HIDE DEF at
    <3>2. expiry < at <=> ~(at <= expiry)
      BY <3>1
    <3> QED BY <3>2 DEF at
  <2>7. ~(k + 1 <= c) <=> k >= c
    BY <2>1
  <2> QED BY <2>2, <2>5, <2>6, <2>7
<1>5. CASE n = 0
  BY <1>3, <1>5 DEF BinarySearch
<1>6. CASE n > 0
  <2>1. Slot(head, 0) = head
    BY <1>1, SlotIs
  <2>2. 0 \in 0..(n - 1)
    BY <1>3, <1>6
  <2>3. expiry < LastUsed(head) <=> c = 0
    <3>1. 0 >= c <=> c = 0
      BY <1>3
    <3> QED BY <1>4, <2>1, <2>2, <3>1
  <2>4. ~IsEmpty
    BY <1>3, <1>6
  <2>5. (tail + Size - 1 - head) % Size = n - 1
    <3> DEFINE x == tail + Size - 1 - head
    <3>1. tail = IF head + n < Size THEN head + n ELSE head + n - Size
      BY <1>1, SlotIs
    <3>2. x \in Nat /\ x < 2 * Size /\ (x = n - 1 \/ x = n - 1 + Size)
      BY <1>1, <1>6, <3>1
    <3> HIDE DEF x
    <3>3. x % Size = IF x < Size THEN x ELSE x - Size
      BY <1>1, <3>2, Remainder
    <3>4. x % Size = n - 1
      BY <1>1, <1>3, <1>6, <3>2, <3>3
    <3> QED BY <3>4 DEF x
  <2>6. Search(0, n - 1, expiry) = c - 1
    <3>1. \A k \in 0..(n - 1) : (k + head) % Size = Slot(head, k)
      <4> SUFFICES ASSUME NEW k \in 0..(n - 1)
                   PROVE  (k + head) % Size = Slot(head, k)
        OBVIOUS
      <4>1. k + head = head + k
        BY <1>1
      <4> QED BY <4>1 DEF Slot
    <3>2. \A k \in 0..(n - 1) :
            expiry < LastUsed((k + head) % Size) <=> k >= c
      BY <1>4, <3>1
    <3> QED BY <1>3, <3>2, SearchFinds
  <2>7. ASSUME c # 0 PROVE ((c - 1) + head + Size) % Size = Slot(head, c - 1)
    <3> DEFINE y == head + (c - 1)
    <3>1. y \in Nat /\ y < 2 * Size /\ c - 1 \in 0..Size
      BY <1>1, <1>3, <2>7
    <3>2. Slot(head, c - 1) = IF y < Size THEN y ELSE y - Size
      BY <1>1, <3>1, SlotIs
    <3>3. (c - 1) + head + Size = y + Size
      BY <1>1, <1>3
    <3> HIDE DEF y
    <3>4. (y + Size) % Size = IF y < Size THEN y ELSE y - Size
      BY <1>1, <3>1, RemainderAgain
    <3> QED BY <3>2, <3>3, <3>4
  <2> QED BY <2>3, <2>4, <2>5, <2>6, <2>7 DEF BinarySearch
<1> QED BY <1>3, <1>5, <1>6

(* refresh() empties the slots that hold the first c.                      *)
LEMMA UpToIs ==
  ASSUME NEW n, Ring(slots, head, tail, n), NEW c \in 1..n
  PROVE  /\ UpTo(Slot(head, c - 1)) = Window(head, c)
         /\ (Slot(head, c - 1) + 1) % Size = Slot(head, c)
         /\ Slot(head, c - 1) # -1
<1>1. /\ head \in Index /\ n \in 0..Size /\ c \in 0..Size
      /\ c - 1 \in 0..Size /\ 1 \in 0..Size /\ (c - 1) + 1 = c
      /\ Size \in Nat \ {0} /\ head \in 0..(Size - 1) /\ c \in 1..Size
  BY LoopQueueAssumption DEF Ring, Index
<1> DEFINE g == Slot(head, c - 1)
<1>2. /\ g = IF head + (c - 1) < Size THEN head + (c - 1) ELSE head + (c - 1) - Size
      /\ g \in Index /\ g \in 0..(Size - 1)
  BY <1>1, SlotIs DEF Index
<1>3. (g + 1) % Size = Slot(head, c)
  <2>1. Slot(g, 1) = Slot(head, (c - 1) + 1)
    BY <1>1, SlotSum
  <2> QED BY <1>1, <2>1 DEF Slot
<1> HIDE DEF g
<1>4. UpTo(g) \subseteq Index /\ Window(head, c) \subseteq Index
  <2>1. UpTo(g) \subseteq Index
    BY <1>1, <1>2 DEF UpTo, Index
  <2>2. \A k \in 0..(c - 1) : k \in 0..Size
    BY <1>1
  <2>3. Window(head, c) \subseteq Index
    BY <1>1, <2>2, SlotIs DEF Window
  <2> QED BY <2>1, <2>3
<1>5. ASSUME NEW i \in Index PROVE i \in UpTo(g) <=> i \in Window(head, c)
  <2>1. PICK k \in 0..(Size - 1) : i = Slot(head, k)
    BY <1>1, Placed
  <2>2. i \in Window(head, c) <=> k < c
    BY <1>1, <2>1, InWindow
  <2>3. i = IF head + k < Size THEN head + k ELSE head + k - Size
    BY <1>1, <2>1, SlotIs
  <2>4. i \in UpTo(g) <=> k < c
    <3>1. i \in 0..(Size - 1)
      BY DEF Index
    <3>2. CASE head <= g
      <4>1. i \in UpTo(g) <=> head <= i /\ i <= g
        BY <1>1, <1>2, <3>1, <3>2 DEF UpTo
      <4> QED BY <1>1, <1>2, <2>3, <3>2, <4>1
    <3>3. CASE ~(head <= g)
      <4>1. i \in UpTo(g) <=> i <= g \/ head <= i
        BY <1>1, <1>2, <3>1, <3>3 DEF UpTo
      <4> QED BY <1>1, <1>2, <2>3, <3>3, <4>1
    <3> QED BY <3>2, <3>3
  <2> QED BY <2>2, <2>4
<1>6. UpTo(g) = Window(head, c)
  BY <1>4, <1>5
<1>7. g # -1
  BY <1>1, <1>2
<1> QED BY <1>3, <1>6, <1>7 DEF g

-----------------------------------------------------------------------------
(* The ring is one that holds len(), and is marked full just when that is  *)
(* its size.                                                               *)
RingNow == Ring(slots, head, tail, Length) /\ (isFull <=> Length = Size)

(* RingNow makes RingExact inductive.  That the queues are sorted is what  *)
(* the searches need; it holds as long as one clock, read under the lock,  *)
(* stamps the workers in the order they are inserted.                      *)
QueueInv ==
  /\ QueueTypeOK
  /\ RingNow
  /\ Sorted(Idle, clock)
  /\ Sorted(items, clock)
  /\ 1..clock \subseteq Times

(* The sequence the ring stands for, and what the flag and the indices say *)
(* about it.                                                               *)
LEMMA IdleIsView ==
  ASSUME head \in Int, Length \in Int
  PROVE  Idle = View(slots, head, Length)
<1> DEFINE n == Length
<1>1. Idle = [k \in 1..n |-> slots[(head + k - 1) % Size]]
  BY DEF Idle
<1>2. View(slots, head, n) = [k \in 1..n |-> slots[(head + (k - 1)) % Size]]
  BY DEF View, Slot
<1>3. n \in Int
  OBVIOUS
<1> HIDE DEF n
<1>4. \A k \in 1..n : head + k - 1 = head + (k - 1)
  BY <1>3
<1>5. Idle = View(slots, head, n)
  BY <1>1, <1>2, <1>4
<1> QED BY <1>5 DEF n

(* is_empty() and is_full, told by the length.                             *)
LEMMA Ringed ==
  ASSUME RingNow
  PROVE  /\ Idle = View(slots, head, Length)
         /\ Idle \in Seq(Entry) /\ Len(Idle) = Length /\ Length \in Nat
         /\ DOMAIN Idle = 1..Length
         /\ IsEmpty <=> Length = 0
         /\ isFull <=> Length = Size
<1>1. /\ Length \in 0..Size /\ head \in 0..(Size - 1) /\ Size \in Nat \ {0}
      /\ isFull <=> Length = Size
      /\ tail = Slot(head, Length) /\ head \in Index
  BY LoopQueueAssumption DEF RingNow, Ring, Index
<1>2. head \in Int /\ Length \in Int /\ Length \in Nat
  BY <1>1
<1>3. Idle = View(slots, head, Length)
  BY <1>2, IdleIsView
<1>4. /\ Idle \in Seq(Entry) /\ Len(Idle) = Length /\ DOMAIN Idle = 1..Length
  BY <1>3, ViewType DEF RingNow
<1>5. IsEmpty => Length = 0
  BY DEF Length
<1>6. Length = 0 => IsEmpty
  <2> SUFFICES ASSUME Length = 0 PROVE IsEmpty
    OBVIOUS
  <2>1. Slot(head, 0) = head
    BY <1>1, SlotIs
  <2>2. ~isFull
    BY <1>1
  <2> QED BY <1>1, <2>1, <2>2 DEF IsEmpty
<1> QED BY <1>1, <1>2, <1>3, <1>4, <1>5, <1>6

(* The ring after a step, once it is known what it holds.                  *)
LEMMA RingStep ==
  ASSUME NEW n, Ring(slots', head', tail', n), isFull' <=> n = Size
  PROVE  /\ RingNow' /\ Length' = n /\ n \in Nat
         /\ Idle' = View(slots', head', n)
         /\ slots' \in [Index -> Entry \cup {None}]
         /\ head' \in Index /\ tail' \in Index
<1>1. Length' = LengthOf(head', tail', isFull')
  BY DEF Length, LengthOf, IsEmpty
<1>2. Length' = n /\ tail' \in Index
  BY <1>1, RingLength
<1>3. RingNow'
  BY <1>2 DEF RingNow
<1>4. /\ head' \in Index /\ n \in 0..Size /\ Size \in Nat
      /\ slots' \in [Index -> Entry \cup {None}]
  BY LoopQueueAssumption DEF Ring
<1>5. head' \in Int /\ n \in Int /\ n \in Nat
  BY <1>4 DEF Index
<1>6. Idle' = View(slots', head', n)
  <2>1. Idle' = [k \in 1..n |-> slots'[(head' + k - 1) % Size]]
    BY <1>2 DEF Idle
  <2>2. View(slots', head', n) = [k \in 1..n |-> slots'[(head' + (k - 1)) % Size]]
    BY DEF View, Slot
  <2>3. \A k \in 1..n : head' + k - 1 = head' + (k - 1)
    BY <1>5
  <2> QED BY <2>1, <2>2, <2>3
<1> QED BY <1>2, <1>3, <1>4, <1>5, <1>6

(* Whatever leaves the ring alone.                                         *)
LEMMA RingQuiet ==
  ASSUME RingNow, UNCHANGED ringVars
  PROVE  RingNow' /\ Idle' = Idle
<1>1. slots' = slots /\ head' = head /\ tail' = tail /\ isFull' = isFull
  BY DEF ringVars
<1>2. Length' = Length
  BY <1>1 DEF Length, IsEmpty
<1> QED BY <1>1, <1>2 DEF RingNow, Idle

-----------------------------------------------------------------------------
(* What each operation of the ring does to the queue it stands for.        *)
RingKept ==
  /\ RingNow'
  /\ slots' \in [Index -> Entry \cup {None}]
  /\ head' \in Index /\ tail' \in Index /\ isFull' \in BOOLEAN

(* insert(): refused by a full ring, queued behind the others otherwise.   *)
LEMMA InsertEffect ==
  ASSUME QueueInv, NEW w \in Workers, NEW t \in Times, Insert(w, t)
  PROVE  /\ RingKept
         /\ \/ /\ Len(Idle) = Size
               /\ Idle' = Idle
               /\ out' = QueueIsFull
            \/ /\ Len(Idle) < Size
               /\ Idle' = Append(Idle, [who |-> w, at |-> t])
               /\ out' = Returned({}, 0)
<1>1. RingNow /\ LoopTypeOK
  BY DEF QueueInv, QueueTypeOK
<1>2. CASE isFull /\ out' = QueueIsFull /\ UNCHANGED ringVars
  <2>1. RingNow' /\ Idle' = Idle
    BY <1>1, <1>2, RingQuiet
  <2>2. Len(Idle) = Size
    BY <1>1, <1>2, Ringed
  <2>3. RingKept
    BY <1>1, <1>2, <2>1 DEF RingKept, LoopTypeOK, ringVars
  <2> QED BY <1>2, <2>1, <2>2, <2>3
<1>3. CASE /\ ~isFull
           /\ slots' = [slots EXCEPT ![tail] = [who |-> w, at |-> t]]
           /\ tail' = (tail + 1) % Size
           /\ isFull' = (tail' = head)
           /\ out' = Returned({}, 0)
           /\ UNCHANGED head
  <2> DEFINE e == [who |-> w, at |-> t]
  <2>1. e \in Entry
    BY DEF Entry
  <2> HIDE DEF e
  <2>2. /\ Ring(slots', head', tail', Length + 1)
        /\ isFull' <=> Length + 1 = Size
        /\ View(slots', head', Length + 1) = Longer(View(slots, head, Length), e)
    <3>1. Ring(slots, head, tail, Length) /\ Length # Size
      BY <1>1, <1>3 DEF RingNow
    <3>2. /\ Ring([slots EXCEPT ![tail] = e], head, (tail + 1) % Size, Length + 1)
          /\ (tail + 1) % Size = head <=> Length + 1 = Size
          /\ View([slots EXCEPT ![tail] = e], head, Length + 1)
               = Longer(View(slots, head, Length), e)
      BY <2>1, <3>1, RingInsert
    <3> QED BY <1>3, <3>2 DEF e
  <2>3. /\ RingNow' /\ Idle' = View(slots', head', Length + 1)
        /\ slots' \in [Index -> Entry \cup {None}]
        /\ head' \in Index /\ tail' \in Index
    BY <2>2, RingStep
  <2>4. Len(Idle) < Size /\ Idle = View(slots, head, Length)
    <3>1. Length \in 0..Size /\ Size \in Nat
      BY <1>1, LoopQueueAssumption DEF RingNow, Ring
    <3>2. Len(Idle) = Length /\ Length # Size /\ Idle = View(slots, head, Length)
      BY <1>1, <1>3, Ringed
    <3> QED BY <3>1, <3>2
  <2>5. isFull' \in BOOLEAN
    BY <1>3
  <2> QED BY <1>3, <2>2, <2>3, <2>4, <2>5 DEF RingKept, e, Longer
<1> QED BY <1>2, <1>3 DEF Insert

(* A sequence is all of itself.                                            *)
LEMMA WholePart ==
  ASSUME NEW S, NEW q \in Seq(S) PROVE SubSeq(q, 0 + 1, Len(q)) = q
<1>1. SubSeq(q, 1, Len(q)) \in Seq(S) /\ Len(SubSeq(q, 1, Len(q))) = Len(q)
  OBVIOUS
<1>2. \A k \in 1..Len(q) : SubSeq(q, 1, Len(q))[k] = q[k]
  OBVIOUS
<1>3. 0 + 1 = 1
  OBVIOUS
<1>4. SubSeq(q, 1, Len(q)) = q
  BY <1>1, <1>2
<1> QED BY <1>3, <1>4

(* Who the first c are.                                                    *)
Heads(q, c) == {q[k].who : k \in 1..c}

(* Whom the first c slots hold.                                            *)
LEMMA WindowHolds ==
  ASSUME RingNow, NEW c \in 0..Length
  PROVE  /\ UNION {Occupant(i) : i \in Window(head, c)} = Heads(Idle, c)
         /\ c > 0 => UNION {Occupant(i) : i \in Window(head, c)} # {}
<1>1. /\ Idle = View(slots, head, Length) /\ Length \in Nat
      /\ \A k \in 0..(Length - 1) : /\ slots[Slot(head, k)] # None
                                    /\ Idle[k + 1] = slots[Slot(head, k)]
  BY Ringed, ViewType DEF RingNow
<1>2. \A k \in 0..(c - 1) :
        Occupant(Slot(head, k)) = {Idle[k + 1].who} /\ k + 1 \in 1..c
  <2> SUFFICES ASSUME NEW k \in 0..(c - 1)
               PROVE  Occupant(Slot(head, k)) = {Idle[k + 1].who} /\ k + 1 \in 1..c
    OBVIOUS
  <2>1. k \in 0..(Length - 1) /\ k + 1 \in 1..c
    BY <1>1
  <2>2. Occupant(Slot(head, k)) = {slots[Slot(head, k)].who}
    BY <1>1, <2>1 DEF Occupant
  <2> QED BY <1>1, <2>1, <2>2
<1>3. UNION {Occupant(i) : i \in Window(head, c)}
        = UNION {Occupant(Slot(head, k)) : k \in 0..(c - 1)}
  BY DEF Window
<1>4. UNION {Occupant(Slot(head, k)) : k \in 0..(c - 1)}
        = UNION {{Idle[k + 1].who} : k \in 0..(c - 1)}
  BY <1>2
<1>5. \A j \in 1..c : j - 1 \in 0..(c - 1) /\ (j - 1) + 1 = j
  BY <1>1
<1>6. UNION {{Idle[k + 1].who} : k \in 0..(c - 1)} = Heads(Idle, c)
  <2>1. ASSUME NEW x \in Heads(Idle, c)
        PROVE  x \in UNION {{Idle[k + 1].who} : k \in 0..(c - 1)}
    <3>1. PICK j \in 1..c : x = Idle[j].who
      BY <2>1 DEF Heads
    <3>2. j - 1 \in 0..(c - 1) /\ x \in {Idle[(j - 1) + 1].who}
      BY <1>5, <3>1
    <3> QED BY <3>2
  <2>2. ASSUME NEW x \in UNION {{Idle[k + 1].who} : k \in 0..(c - 1)}
        PROVE  x \in Heads(Idle, c)
    <3>1. PICK k \in 0..(c - 1) : x = Idle[k + 1].who
      BY <2>2
    <3> QED BY <1>2, <3>1 DEF Heads
  <2> QED BY <2>1, <2>2
<1>7. c > 0 => Idle[1].who \in Heads(Idle, c)
  BY <1>1 DEF Heads
<1> QED BY <1>3, <1>4, <1>6, <1>7

(* The ring without its first c.                                           *)
LEMMA CutEffect ==
  ASSUME RingNow, LoopTypeOK, NEW c \in 1..Length,
         slots' = [i \in Index |-> IF i \in Window(head, c) THEN None ELSE slots[i]],
         head' = Slot(head, c), ~isFull', tail' = tail
  PROVE  /\ RingNow' /\ Idle' = SubSeq(Idle, c + 1, Len(Idle))
         /\ slots' \in [Index -> Entry \cup {None}]
         /\ head' \in Index /\ tail' \in Index
<1>1. Ring(slots, head, tail, Length)
  BY DEF RingNow
<1>2. /\ Ring(slots', head', tail', Length - c) /\ Length - c # Size
      /\ View(slots', head', Length - c)
           = SubSeq(View(slots, head, Length), c + 1, Length)
  BY <1>1, RingCut
<1>3. isFull' <=> Length - c = Size
  BY <1>2
<1>4. /\ RingNow' /\ Idle' = View(slots', head', Length - c)
      /\ slots' \in [Index -> Entry \cup {None}]
      /\ head' \in Index /\ tail' \in Index
  BY <1>2, <1>3, RingStep
<1>5. Idle = View(slots, head, Length) /\ Len(Idle) = Length
  BY Ringed
<1> QED BY <1>2, <1>4, <1>5

(* detach(): the one that was queued first.                                *)
LEMMA DetachEffect ==
  ASSUME QueueInv, Detach
  PROVE  /\ RingKept
         /\ \/ /\ Len(Idle) = 0
               /\ Idle' = Idle
               /\ out' = Returned({}, 0)
            \/ /\ Len(Idle) > 0
               /\ Idle' = SubSeq(Idle, 2, Len(Idle))
               /\ out' = Returned({Idle[1].who}, 0)
<1>1. RingNow /\ LoopTypeOK
  BY DEF QueueInv, QueueTypeOK
<1>2. CASE IsEmpty /\ out' = Returned({}, 0) /\ UNCHANGED ringVars
  <2>1. RingNow' /\ Idle' = Idle
    BY <1>1, <1>2, RingQuiet
  <2>2. Len(Idle) = 0
    BY <1>1, <1>2, Ringed
  <2>3. RingKept
    BY <1>1, <1>2, <2>1 DEF RingKept, LoopTypeOK, ringVars
  <2> QED BY <1>2, <2>1, <2>2, <2>3
<1>3. CASE /\ ~IsEmpty
           /\ out' = Returned(Occupant(head), 0)
           /\ slots' = [slots EXCEPT ![head] = None]
           /\ head' = (head + 1) % Size
           /\ isFull' = FALSE
           /\ UNCHANGED tail
  <2>1. Length \in Nat /\ Length # 0 /\ Len(Idle) = Length
    BY <1>1, <1>3, Ringed
  <2>2. /\ 1 \in 1..Length /\ 1 \in 0..Length
        /\ head \in Index /\ slots \in [Index -> Entry \cup {None}]
    BY <1>1, <2>1 DEF LoopTypeOK
  <2>3. Slot(head, 0) = head
    <3>1. 0 \in 0..Size /\ head \in 0..(Size - 1) /\ Size \in Nat
      BY <2>2, LoopQueueAssumption DEF Index
    <3> QED BY <2>2, <3>1, SlotIs
  <2>4. Window(head, 1) = {head}
    <3>1. 0..(1 - 1) = {0}
      OBVIOUS
    <3> QED BY <2>3, <3>1 DEF Window
  <2>5. slots' = [i \in Index |-> IF i \in Window(head, 1) THEN None ELSE slots[i]]
    BY <1>3, <2>2, <2>4
  <2>6. head' = Slot(head, 1)
    BY <1>3 DEF Slot
  <2>7. /\ RingNow' /\ Idle' = SubSeq(Idle, 1 + 1, Len(Idle))
        /\ slots' \in [Index -> Entry \cup {None}]
        /\ head' \in Index /\ tail' \in Index
    BY <1>1, <1>3, <2>2, <2>5, <2>6, CutEffect
  <2>8. Occupant(head) = {Idle[1].who}
    <3>1. UNION {Occupant(i) : i \in Window(head, 1)} = Heads(Idle, 1)
      BY <1>1, <2>2, WindowHolds
    <3>2. 1..1 = {1}
      OBVIOUS
    <3>3. Heads(Idle, 1) = {Idle[1].who}
      BY <3>2 DEF Heads
    <3> QED BY <2>4, <3>1, <3>3
  <2>9. Len(Idle) > 0 /\ Idle' = SubSeq(Idle, 2, Len(Idle))
    <3>1. 1 + 1 = 2
      OBVIOUS
    <3> QED BY <2>1, <2>7, <3>1
  <2>10. out' = Returned({Idle[1].who}, 0)
    BY <1>3, <2>8
  <2>11. RingKept
    BY <1>3, <2>7 DEF RingKept
  <2> QED BY <2>9, <2>10, <2>11
<1> QED BY <1>2, <1>3 DEF Detach

(* refresh(): the first ones, up to the last that has expired.             *)
LEMMA RefreshEffect ==
  ASSUME QueueInv, NEW expiry \in Int, Refresh(expiry)
  PROVE  /\ RingKept
         /\ \E c : /\ Cut(Idle, c, expiry)
                   /\ Idle' = SubSeq(Idle, c + 1, Len(Idle))
                   /\ out' = Returned(Heads(Idle, c), expiry)
<1>1. RingNow /\ LoopTypeOK /\ Sorted(Idle, clock)
  BY DEF QueueInv, QueueTypeOK
<1>2. /\ Idle = View(slots, head, Length) /\ Len(Idle) = Length /\ Length \in Nat
      /\ Idle \in Seq(Entry)
      /\ IsEmpty <=> Length = 0
  BY <1>1, Ringed
<1>3. PICK c : Cut(Idle, c, expiry)
  BY <1>1, <1>2, CutExists
<1>4. c \in 0..Length
  BY <1>2, <1>3 DEF Cut
<1> DEFINE index == BinarySearch(expiry)
<1>5. index = IF c = 0 THEN -1 ELSE Slot(head, c - 1)
  <2>1. Ring(slots, head, tail, Length)
    BY <1>1 DEF RingNow
  <2> QED BY <1>2, <1>3, <2>1, RingSearch
<1>6. \/ /\ index = -1
         /\ out' = Returned({}, expiry)
         /\ UNCHANGED ringVars
      \/ /\ index # -1
         /\ out' = Returned(UNION {Occupant(i) : i \in UpTo(index)}, expiry)
         /\ slots' = [i \in Index |-> IF i \in UpTo(index) THEN None ELSE slots[i]]
         /\ head' = (index + 1) % Size
         /\ isFull' = (isFull /\ UNION {Occupant(i) : i \in UpTo(index)} = {})
         /\ UNCHANGED tail
  BY DEF Refresh
<1> HIDE DEF index
<1>7. CASE c = 0
  <2>1. index = -1
    BY <1>5, <1>7
  <2>2. RingNow' /\ Idle' = Idle
    BY <1>1, <1>6, <2>1, RingQuiet
  <2>3. RingKept
    BY <1>1, <1>6, <2>1, <2>2 DEF RingKept, LoopTypeOK, ringVars
  <2>4. SubSeq(Idle, 0 + 1, Len(Idle)) = Idle
    BY <1>2, WholePart
  <2>5. Heads(Idle, 0) = {}
    BY DEF Heads
  <2> QED BY <1>3, <1>6, <1>7, <2>1, <2>2, <2>3, <2>4, <2>5
<1>8. CASE c # 0
  <2>1. c \in 1..Length
    BY <1>2, <1>4, <1>8
  <2>2. /\ UpTo(index) = Window(head, c)
        /\ (index + 1) % Size = Slot(head, c)
        /\ index # -1
    BY <1>1, <1>5, <1>8, <2>1, UpToIs DEF RingNow
  <2>3. /\ UNION {Occupant(i) : i \in Window(head, c)} = Heads(Idle, c)
        /\ UNION {Occupant(i) : i \in Window(head, c)} # {}
    BY <1>1, <1>4, <2>1, WindowHolds
  <2>4. /\ out' = Returned(Heads(Idle, c), expiry)
        /\ slots' = [i \in Index |-> IF i \in Window(head, c) THEN None ELSE slots[i]]
        /\ head' = Slot(head, c)
        /\ isFull' = FALSE
        /\ tail' = tail
    BY <1>6, <2>2, <2>3
  <2>5. /\ RingNow' /\ Idle' = SubSeq(Idle, c + 1, Len(Idle))
        /\ slots' \in [Index -> Entry \cup {None}]
        /\ head' \in Index /\ tail' \in Index
    BY <1>1, <2>1, <2>4, CutEffect
  <2> QED BY <1>3, <2>4, <2>5 DEF RingKept
<1> QED BY <1>7, <1>8

(* reset(): everybody.                                                     *)
LEMMA ResetEffect ==
  ASSUME QueueInv, Reset
  PROVE  /\ RingKept
         /\ Idle' = <<>>
         /\ out' = Returned(Heads(Idle, Len(Idle)), 0)
<1>1. RingNow /\ LoopTypeOK
  BY DEF QueueInv, QueueTypeOK
<1>2. /\ Len(Idle) = Length /\ Length \in Nat /\ Length \in 0..Length
      /\ IsEmpty <=> Length = 0
  BY <1>1, Ringed
<1>3. Occupied = Window(head, Length)
  BY DEF Occupied, Window, Slot
<1>4. /\ out' = Returned(Heads(Idle, Length), 0)
      /\ slots' = [i \in Index |-> IF i \in Window(head, Length)
                                     THEN None ELSE slots[i]]
      /\ isFull' = FALSE
      /\ IF IsEmpty THEN UNCHANGED <<head, tail>> ELSE head' = 0 /\ tail' = 0
  BY <1>1, <1>2, <1>3, WindowHolds DEF Reset
<1>5. /\ slots \in [Index -> Entry \cup {None}] /\ head \in Index /\ tail \in Index
      /\ \A i \in Index : slots[i] # None <=> i \in Window(head, Length)
      /\ tail = Slot(head, Length) /\ Size \in Nat \ {0} /\ 0 \in Index /\ 0 \in 0..Size
  BY <1>1, LoopQueueAssumption DEF LoopTypeOK, RingNow, Ring, Index
<1>6. \A i \in Index : slots'[i] = None
  BY <1>4, <1>5
<1>7. head' \in Index /\ tail' = Slot(head', 0)
  <2>1. CASE IsEmpty
    BY <1>2, <1>4, <1>5, <2>1
  <2>2. CASE ~IsEmpty
    BY <1>4, <1>5, <2>2, SlotIs
  <2> QED BY <2>1, <2>2
<1>8. Ring(slots', head', tail', 0)
  <2>1. slots' \in [Index -> Entry \cup {None}]
    BY <1>4, <1>5
  <2>2. Window(head', 0) = {}
    BY DEF Window
  <2> QED BY <1>5, <1>6, <1>7, <2>1, <2>2 DEF Ring
<1>9. isFull' <=> 0 = Size
  BY <1>4, <1>5
<1>10. /\ RingNow' /\ Idle' = View(slots', head', 0)
       /\ slots' \in [Index -> Entry \cup {None}]
       /\ head' \in Index /\ tail' \in Index
  BY <1>8, <1>9, RingStep
<1>11. View(slots', head', 0) = <<>>
  <2>1. View(slots', head', 0) \in Seq(Entry) /\ Len(View(slots', head', 0)) = 0
    BY <1>8, ViewType
  <2> HIDE DEF View
  <2> QED BY <2>1
<1> QED BY <1>2, <1>4, <1>10, <1>11 DEF RingKept

-----------------------------------------------------------------------------
(* The search of a sorted stack.                                           *)
LEMMA StackSearchFinds ==
  ASSUME NEW n \in Nat, NEW c \in 0..n, NEW expiry,
         \A k \in 0..(n - 1) : expiry < items[k + 1].at <=> k >= c
  PROVE  Stack!BinarySearch(0, n - 1, expiry) = c - 1
<1> DEFINE late == {k \in 0..(n - 1) : expiry < items[k + 1].at}
           Round(g) ==
             [span \in (0..((n - 1) + 1)) \X ((0 - 1)..(n - 1)) |->
                LET l == span[1]
                    r == span[2]
                    mid == l + (r - l) \div 2
                IN  IF l > r THEN r
                    ELSE IF expiry < items[mid + 1].at THEN g[<<l, mid - 1>>]
                    ELSE g[<<mid + 1, r>>]]
<1>1. Ascending(late, n, c)
  BY DEF Ascending
<1>2. Spans(n) = (0..((n - 1) + 1)) \X ((0 - 1)..(n - 1))
  BY DEF Spans
<1>3. ASSUME NEW g PROVE Round(g) = Halving(late, n, g)
  <2>1. ASSUME NEW span \in Spans(n)
        PROVE  Round(g)[span] = Halving(late, n, g)[span]
    <3> DEFINE l == span[1]
               r == span[2]
               mid == l + (r - l) \div 2
    <3>1. l \in 0..n /\ r \in (-1)..(n - 1)
      BY DEF Spans
    <3>2. l <= r => mid \in 0..(n - 1)
      <4>1. l \in Int /\ r \in Int
        BY <3>1
      <4>2. l <= r => mid \in Int /\ l <= mid /\ mid <= r
        BY <4>1, MidWithin
      <4> HIDE DEF l, r, mid
      <4> QED BY <3>1, <4>2
    <3>3. l <= r => (mid \in late <=> expiry < items[mid + 1].at)
      <4> HIDE DEF l, r, mid
      <4> QED BY <3>2
    <3>4. Round(g)[span] = IF l > r THEN r
                           ELSE IF expiry < items[mid + 1].at
                                  THEN g[<<l, mid - 1>>]
                                  ELSE g[<<mid + 1, r>>]
      BY Zenon, <1>2
    <3>5. Halving(late, n, g)[span] = IF l > r THEN r
                                      ELSE IF mid \in late THEN g[<<l, mid - 1>>]
                                      ELSE g[<<mid + 1, r>>]
      BY Zenon DEF Halving
    <3>6. l > r \/ l <= r
      BY <3>1
    <3> HIDE DEF Round, late, l, r, mid
    <3> QED BY <3>1, <3>3, <3>4, <3>5, <3>6
  <2>2. /\ Round(g) = [span \in Spans(n) |-> Round(g)[span]]
        /\ Halving(late, n, g) = [span \in Spans(n) |-> Halving(late, n, g)[span]]
    BY <1>2 DEF Halving
  <2> HIDE DEF Round, late
  <2> QED BY <2>1, <2>2
<1>4. Stack!BinarySearch(0, n - 1, expiry) = (CHOOSE g : g = Round(g))[<<0, n - 1>>]
  BY DEF Stack!BinarySearch
<1> HIDE DEF Round, late
<1>5. \E g : g = Round(g)
  BY <1>1, <1>3, HalvingExists
<1> DEFINE found == CHOOSE g : g = Round(g)
<1>6. found = Round(found)
  BY <1>5
<1> HIDE DEF found
<1>7. found = Halving(late, n, found)
  BY <1>3, <1>6
<1>8. found[<<0, n - 1>>] = c - 1
  BY <1>1, <1>7, HalvingFinds
<1> QED BY <1>4, <1>8 DEF found

(* What an operation may return.                                           *)
Output == [full : BOOLEAN, got : SUBSET Workers, expiry : Times \cup {0}]

(* Whom the first c are, as the sequence of them.                          *)
LEMMA HeadsOf ==
  ASSUME NEW q \in Seq(Entry), NEW c \in 0..Len(q)
  PROVE  /\ {SubSeq(q, 1, c)[i].who : i \in DOMAIN SubSeq(q, 1, c)} = Heads(q, c)
         /\ Heads(q, c) \in SUBSET Workers
<1>1. /\ DOMAIN SubSeq(q, 1, c) = 1..c
      /\ \A i \in 1..c : SubSeq(q, 1, c)[i] = q[i] /\ q[i] \in Entry
  OBVIOUS
<1>2. {SubSeq(q, 1, c)[i].who : i \in 1..c} = {q[i].who : i \in 1..c}
  BY <1>1
<1>3. \A i \in 1..c : q[i].who \in Workers
  BY <1>1, EntryType
<1> QED BY <1>1, <1>2, <1>3 DEF Heads

(* WorkerStack::refresh(), as RefreshEffect.                               *)
LEMMA RefreshStackEffect ==
  ASSUME QueueInv, NEW expiry \in Int, Stack!RefreshStack(expiry)
  PROVE  \E c : /\ Cut(items, c, expiry)
                /\ items' = SubSeq(items, c + 1, Len(items))
                /\ out' = Stack!Handed(SubSeq(items, 1, c), expiry)
<1>1. items \in Seq(Entry) /\ Sorted(items, clock)
  BY DEF QueueInv, QueueTypeOK, Stack!StackTypeOK, Stack!StackEntry, Entry
<1>2. PICK c : Cut(items, c, expiry)
  BY <1>1, CutExists
<1> DEFINE n == Len(items)
           index == IF items = <<>> THEN -1
                    ELSE Stack!BinarySearch(0, n - 1, expiry)
<1>3. n \in Nat /\ c \in 0..n /\ DOMAIN items = 1..n
  BY <1>1, <1>2 DEF Cut
<1>4. ASSUME NEW k \in 0..(n - 1)
      PROVE  expiry < items[k + 1].at <=> k >= c
  <2>1. k + 1 \in 1..n /\ k \in Int /\ c \in Int
    BY <1>3
  <2>2. items[k + 1] \in Entry
    BY <1>1, <2>1
  <2> DEFINE at == items[k + 1].at
  <2>3. at \in Int
    BY <2>2, EntryType
  <2>4. at <= expiry <=> k + 1 <= c
    BY <1>2, <1>3, <2>1 DEF Cut
  <2> HIDE DEF at, n
  <2>5. expiry < at <=> k >= c
    BY <2>1, <2>3, <2>4
  <2> QED BY <2>5 DEF at
<1>5. Stack!BinarySearch(0, n - 1, expiry) = c - 1
  <2> HIDE DEF n
  <2> QED BY <1>3, <1>4, StackSearchFinds
<1>6. index = c - 1
  <2>1. CASE items = <<>>
    BY <1>3, <2>1
  <2>2. CASE items # <<>>
    BY <1>5, <2>2
  <2> QED BY <2>1, <2>2
<1>7. /\ out' = Stack!Handed(SubSeq(items, 1, index + 1), expiry)
      /\ items' = SubSeq(items, index + 2, Len(items))
  BY DEF Stack!RefreshStack
<1>8. index + 1 = c /\ index + 2 = c + 1
  BY <1>3, <1>6
<1> HIDE DEF index, n
<1> QED BY <1>2, <1>7, <1>8

-----------------------------------------------------------------------------
(* Answers have their type.                                                *)
LEMMA Answers ==
  ASSUME NEW got \in SUBSET Workers, NEW t \in Times \cup {0}
  PROVE  /\ Returned(got, t) \in Output
         /\ QueueIsFull \in Output
  BY DEF Returned, QueueIsFull, Output

(* The facts that every step uses.                                         *)
LEMMA Given ==
  ASSUME QueueInv
  PROVE  /\ RingNow /\ LoopTypeOK
         /\ Idle \in Seq(Entry) /\ Len(Idle) = Length /\ Len(Idle) \in 0..Size
         /\ items \in Seq(Entry) /\ Len(items) \in Nat
         /\ Sorted(Idle, clock) /\ Sorted(items, clock)
         /\ clock \in Times /\ clock \in Nat /\ out \in Output
         /\ \A t \in 0..clock : t \in Times \cup {0} /\ t \in Int
<1>1. /\ RingNow /\ LoopTypeOK /\ clock \in Times
      /\ items \in Seq(Entry)
      /\ Sorted(Idle, clock) /\ Sorted(items, clock)
      /\ 1..clock \subseteq Times
  BY DEF QueueInv, QueueTypeOK, Stack!StackTypeOK, Stack!StackEntry, Entry
<1>2. Idle \in Seq(Entry) /\ Len(Idle) = Length
  BY <1>1, Ringed
<1>3. clock \in Nat
  BY <1>1, LoopQueueAssumption
<1>4. \A t \in 0..clock : t \in Times \cup {0} /\ t \in Int
  <2> SUFFICES ASSUME NEW t \in 0..clock PROVE t \in Times \cup {0} /\ t \in Int
    OBVIOUS
  <2>1. t = 0 \/ t \in 1..clock
    BY <1>3
  <2> QED BY <1>1, <2>1
<1>5. out \in Output
  BY <1>1 DEF LoopTypeOK, Output
<1>6. Len(Idle) \in 0..Size
  BY <1>1, <1>2 DEF RingNow, Ring
<1>7. Len(items) \in Nat
  BY <1>1
<1> QED BY <1>1, <1>2, <1>3, <1>4, <1>5, <1>6, <1>7

(* A step of the ring keeps the invariant if what it leaves is sorted.     *)
LEMMA RingPreserves ==
  ASSUME QueueInv, RingKept, UNCHANGED <<items, queueType, clock>>,
         out' \in Output, Sorted(Idle', clock)
  PROVE  QueueInv'
<1>1. LoopTypeOK'
  BY DEF RingKept, LoopTypeOK, Output
<1>2. Stack!StackTypeOK'
  BY DEF QueueInv, QueueTypeOK, Stack!StackTypeOK, Output
<1>3. QueueTypeOK'
  BY <1>1, <1>2 DEF QueueInv, QueueTypeOK
<1> QED BY <1>3 DEF QueueInv, RingKept

(* The same for a step of the stack.                                       *)
LEMMA StackPreserves ==
  ASSUME QueueInv, UNCHANGED <<ringVars, queueType, clock>>,
         items' \in Seq(Entry), out' \in Output, Sorted(items', clock)
  PROVE  QueueInv'
<1>1. LoopTypeOK'
  BY DEF QueueInv, QueueTypeOK, LoopTypeOK, Output, ringVars
<1>2. Stack!StackTypeOK'
  BY DEF Stack!StackTypeOK, Stack!StackEntry, Entry, Output
<1>3. QueueTypeOK'
  BY <1>1, <1>2 DEF QueueInv, QueueTypeOK
<1>4. RingNow' /\ Idle' = Idle
  BY RingQuiet DEF QueueInv
<1> QED BY <1>3, <1>4 DEF QueueInv

(* Nobody is in order.                                                     *)
LEMMA SortedEmpty ==
  ASSUME NEW now PROVE Sorted(<<>>, now)
BY DEF Sorted

(* Answers of nobody, and of one.                                          *)
LEMMA Few ==
  /\ Stack!Handed(<<>>, 0) = Returned({}, 0)
  /\ RingQueue!Returned(<<>>, 0) = Returned({}, 0)
  /\ \A x : /\ Stack!Handed(<<x>>, 0) = Returned({x.who}, 0)
           /\ RingQueue!Returned(<<x>>, 0) = Returned({x.who}, 0)
<1>1. \A x : {<<x>>[i].who : i \in DOMAIN <<x>>} = {x.who}
  OBVIOUS
<1>2. DOMAIN <<>> = {}
  OBVIOUS
<1>3. {<<>>[i].who : i \in DOMAIN <<>>} = {}
  BY <1>2, Zenon
<1> QED BY <1>1, <1>3 DEF Stack!Handed, RingQueue!Returned, Returned

(* insert() keeps the invariant.                                           *)
LEMMA InsertKeeps ==
  ASSUME QueueInv, QueueInsert PROVE QueueInv'
<1>0. /\ clock \in Times /\ clock \in Int
      /\ Idle \in Seq(Entry) /\ items \in Seq(Entry)
      /\ Sorted(Idle, clock) /\ Sorted(items, clock)
  BY Given
<1>1. PICK w \in Workers \ Parked :
        \/ IsLoop /\ Insert(w, clock) /\ UNCHANGED items
        \/ ~IsLoop /\ Stack!Push(w, clock) /\ UNCHANGED ringVars
  BY DEF QueueInsert
<1>2. UNCHANGED <<queueType, clock>>
  BY DEF QueueInsert
<1> DEFINE e == [who |-> w, at |-> clock]
<1>3. e \in Entry /\ e.at = clock
  BY <1>0 DEF Entry
<1>4. CASE Insert(w, clock) /\ UNCHANGED items
  <2>1. /\ RingKept
        /\ \/ Idle' = Idle /\ out' = QueueIsFull
           \/ Idle' = Append(Idle, e) /\ out' = Returned({}, 0)
    BY <1>0, <1>4, InsertEffect
  <2> HIDE DEF e
  <2>2. Sorted(Idle', clock)
    BY <1>0, <1>3, <2>1, SortedAppend
  <2>3. out' \in Output
    BY <2>1, Answers
  <2> QED BY <1>2, <1>4, <2>1, <2>2, <2>3, RingPreserves
<1>5. CASE Stack!Push(w, clock) /\ UNCHANGED ringVars
  <2>1. items' = Append(items, e) /\ out' = Stack!Handed(<<>>, 0)
    BY <1>5 DEF Stack!Push
  <2> HIDE DEF e
  <2>2. Sorted(items', clock) /\ items' \in Seq(Entry)
    BY <1>0, <1>3, <2>1, SortedAppend
  <2>3. out' \in Output
    BY <2>1 DEF Stack!Handed, Output
  <2> QED BY <1>2, <1>5, <2>2, <2>3, StackPreserves
<1> QED BY <1>1, <1>4, <1>5

(* detach() keeps it.                                                      *)
LEMMA DetachKeeps ==
  ASSUME QueueInv, QueueDetach PROVE QueueInv'
<1>0. /\ Idle \in Seq(Entry) /\ items \in Seq(Entry)
      /\ Sorted(Idle, clock) /\ Sorted(items, clock)
      /\ Len(Idle) \in Nat /\ Len(items) \in Nat
  BY Given
<1>1. /\ UNCHANGED <<queueType, clock>>
      /\ \/ Detach /\ UNCHANGED items
         \/ Stack!Pop /\ UNCHANGED ringVars
  BY DEF QueueDetach
<1>2. CASE Detach /\ UNCHANGED items
  <2>1. /\ RingKept
        /\ \/ Idle' = Idle /\ out' = Returned({}, 0)
           \/ /\ Len(Idle) > 0
              /\ Idle' = SubSeq(Idle, 2, Len(Idle))
              /\ out' = Returned({Idle[1].who}, 0)
    BY <1>2, DetachEffect
  <2>2. Len(Idle) > 0 => 2 \in 1..(Len(Idle) + 1) /\ Len(Idle) \in 0..Len(Idle)
                           /\ 2 <= Len(Idle) + 1
    BY <1>0
  <2>3. Sorted(Idle', clock)
    BY <1>0, <2>1, <2>2, SortedPart
  <2>4. Len(Idle) > 0 => {Idle[1].who} \in SUBSET Workers
    <3>1. Len(Idle) > 0 => Idle[1] \in Entry
      BY <1>0
    <3> QED BY <3>1, EntryType
  <2>5. out' \in Output
    BY <2>1, <2>4, Answers
  <2> QED BY <1>1, <1>2, <2>1, <2>3, <2>5, RingPreserves
<1>3. CASE Stack!Pop /\ UNCHANGED ringVars
  <2>1. \/ items' = items /\ out' = Stack!Handed(<<>>, 0)
        \/ /\ items # <<>>
           /\ out' = Stack!Handed(<<items[Len(items)]>>, 0)
           /\ items' = SubSeq(items, 1, Len(items) - 1)
    BY <1>3 DEF Stack!Pop, Stack!Last, Stack!Front
  <2>2. items # <<>> => /\ 1 \in 1..(Len(items) + 1) /\ Len(items) - 1 \in 0..Len(items)
                        /\ 1 <= (Len(items) - 1) + 1
                        /\ items[Len(items)] \in Entry
                        /\ SubSeq(items, 1, Len(items) - 1) \in Seq(Entry)
    BY <1>0
  <2>3. Sorted(items', clock) /\ items' \in Seq(Entry)
    BY <1>0, <2>1, <2>2, SortedPart
  <2>4. out' \in Output
    <3>1. items # <<>> => items[Len(items)].who \in Workers
      BY <2>2, EntryType
    <3>2. items # <<>> => {items[Len(items)].who} \in SUBSET Workers
      BY <3>1
    <3> QED BY <2>1, <3>2, Few, Answers
  <2> QED BY <1>1, <1>3, <2>3, <2>4, StackPreserves
<1> QED BY <1>1, <1>2, <1>3

(* refresh() keeps it.                                                     *)
LEMMA RefreshKeeps ==
  ASSUME QueueInv, QueueRefresh PROVE QueueInv'
<1>0. /\ Idle \in Seq(Entry) /\ items \in Seq(Entry)
      /\ Sorted(Idle, clock) /\ Sorted(items, clock)
      /\ Len(Idle) \in Nat /\ Len(items) \in Nat
  BY Given
<1>1. PICK expiry \in 0..clock :
        \/ Refresh(expiry) /\ UNCHANGED items
        \/ Stack!RefreshStack(expiry) /\ UNCHANGED ringVars
  BY DEF QueueRefresh
<1>2. UNCHANGED <<queueType, clock>>
  BY DEF QueueRefresh
<1>3. expiry \in Times \cup {0} /\ expiry \in Int
  BY Given
<1>4. CASE Refresh(expiry) /\ UNCHANGED items
  <2>1. PICK c : /\ RingKept
                 /\ Cut(Idle, c, expiry)
                 /\ Idle' = SubSeq(Idle, c + 1, Len(Idle))
                 /\ out' = Returned(Heads(Idle, c), expiry)
    BY <1>3, <1>4, RefreshEffect
  <2>2. /\ c \in 0..Len(Idle) /\ c + 1 \in 1..(Len(Idle) + 1)
        /\ Len(Idle) \in 0..Len(Idle) /\ c + 1 <= Len(Idle) + 1
    BY <1>0, <2>1 DEF Cut
  <2>3. Sorted(Idle', clock)
    BY <1>0, <2>1, <2>2, SortedPart
  <2>4. out' \in Output
    <3>1. Heads(Idle, c) \in SUBSET Workers
      BY <1>0, <2>2, HeadsOf
    <3> QED BY <1>3, <2>1, <3>1, Answers
  <2> QED BY <1>2, <1>4, <2>1, <2>3, <2>4, RingPreserves
<1>5. CASE Stack!RefreshStack(expiry) /\ UNCHANGED ringVars
  <2>1. PICK c : /\ Cut(items, c, expiry)
                 /\ items' = SubSeq(items, c + 1, Len(items))
                 /\ out' = Stack!Handed(SubSeq(items, 1, c), expiry)
    BY <1>3, <1>5, RefreshStackEffect
  <2>2. /\ c \in 0..Len(items) /\ c + 1 \in 1..(Len(items) + 1)
        /\ Len(items) \in 0..Len(items) /\ c + 1 <= Len(items) + 1
    BY <1>0, <2>1 DEF Cut
  <2>3. Sorted(items', clock) /\ items' \in Seq(Entry)
    <3>1. SubSeq(items, c + 1, Len(items)) \in Seq(Entry)
      BY <1>0, <2>2
    <3>2. Sorted(SubSeq(items, c + 1, Len(items)), clock)
      BY <1>0, <2>2, SortedPart
    <3> QED BY <2>1, <3>1, <3>2
  <2>4. out' \in Output
    <3>1. /\ {SubSeq(items, 1, c)[i].who : i \in DOMAIN SubSeq(items, 1, c)}
               = Heads(items, c)
          /\ Heads(items, c) \in SUBSET Workers
      BY <1>0, <2>2, HeadsOf
    <3>2. out' = Returned(Heads(items, c), expiry)
      BY <2>1, <3>1 DEF Stack!Handed, Returned
    <3> QED BY <1>3, <3>1, <3>2, Answers
  <2> QED BY <1>2, <1>5, <2>3, <2>4, StackPreserves
<1> QED BY <1>1, <1>4, <1>5

(* reset() keeps it.                                                       *)
LEMMA ResetKeeps ==
  ASSUME QueueInv, QueueReset PROVE QueueInv'
<1>0. /\ Idle \in Seq(Entry) /\ items \in Seq(Entry)
      /\ Len(Idle) \in Nat /\ Len(items) \in Nat
  BY Given
<1>1. /\ UNCHANGED <<queueType, clock>>
      /\ \/ Reset /\ UNCHANGED items
         \/ Stack!ResetStack /\ UNCHANGED ringVars
  BY DEF QueueReset
<1>2. CASE Reset /\ UNCHANGED items
  <2>1. RingKept /\ Idle' = <<>> /\ out' = Returned(Heads(Idle, Len(Idle)), 0)
    BY <1>2, ResetEffect
  <2>2. Heads(Idle, Len(Idle)) \in SUBSET Workers
    BY <1>0, HeadsOf
  <2>3. out' \in Output
    BY <2>1, <2>2, Answers
  <2> QED BY <1>1, <1>2, <2>1, <2>3, SortedEmpty, RingPreserves
<1>3. CASE Stack!ResetStack /\ UNCHANGED ringVars
  <2>1. items' = <<>> /\ out' = Stack!Handed(items, 0)
    BY <1>3 DEF Stack!ResetStack
  <2>2. \A i \in DOMAIN items : items[i].who \in Workers
    BY <1>0, EntryType
  <2>3. out' \in Output
    BY <2>1, <2>2 DEF Stack!Handed, Output
  <2>4. items' \in Seq(Entry) /\ Sorted(items', clock)
    BY <2>1, SortedEmpty
  <2> QED BY <1>1, <1>3, <2>3, <2>4, StackPreserves
<1> QED BY <1>1, <1>2, <1>3

(* A later clock is later than all stamps.                                 *)
LEMMA TickKeeps ==
  ASSUME QueueInv, Tick PROVE QueueInv'
<1>1. /\ clock + 1 \in Times /\ clock' = clock + 1 /\ clock \in Nat
      /\ UNCHANGED <<queueType, ringVars, items, out>>
  BY Given DEF Tick
<1>2. \A q : Sorted(q, clock) => Sorted(q, clock')
  BY <1>1 DEF Sorted
<1>3. RingNow' /\ Idle' = Idle
  BY <1>1, RingQuiet DEF QueueInv
<1>4. QueueTypeOK'
  BY <1>1 DEF QueueInv, QueueTypeOK, LoopTypeOK, Stack!StackTypeOK, ringVars
<1>5. 1..clock' \subseteq Times
  <2>1. \A t \in 1..(clock + 1) : t \in 1..clock \/ t = clock + 1
    BY <1>1
  <2> QED BY <1>1, <2>1 DEF QueueInv
<1> QED BY <1>1, <1>2, <1>3, <1>4, <1>5 DEF QueueInv

(* A new queue of either kind holds nobody.                                *)
LEMMA InitiallyEmpty ==
  ASSUME Init PROVE QueueInv /\ Idle = <<>> /\ items = <<>>
<1>1. /\ slots = [i \in Index |-> None] /\ head = 0 /\ tail = 0
      /\ isFull = FALSE /\ out = Returned({}, 0)
      /\ items = <<>> /\ clock = 1 /\ queueType \in QueueTypes
  BY DEF Init, LoopInit, Stack!StackInit
<1>2. 0 \in Index /\ Size \in Nat \ {0} /\ 0 \in 0..Size /\ 0 # Size
  BY LoopQueueAssumption DEF Index
<1>3. Length = 0
  BY <1>1 DEF Length, IsEmpty
<1>4. Ring(slots, head, tail, 0)
  <2>1. Slot(0, 0) = 0
    BY <1>2, SlotIs
  <2>2. Window(0, 0) = {}
    BY DEF Window
  <2> QED BY <1>1, <1>2, <2>1, <2>2 DEF Ring
<1>5. RingNow
  BY <1>1, <1>2, <1>3, <1>4 DEF RingNow
<1>6. Idle = <<>>
  BY <1>3, <1>5, Ringed
<1>7. out \in Output
  BY <1>1, Answers
<1>8. QueueTypeOK
  BY <1>1, <1>2, <1>7, WorkerQueueAssumption
  DEF QueueTypeOK, LoopTypeOK, Stack!StackTypeOK, Output
<1>9. 1..clock \subseteq Times
  BY <1>1, WorkerQueueAssumption
<1> QED BY <1>1, <1>5, <1>6, <1>8, <1>9, SortedEmpty DEF QueueInv

(* Every step keeps the invariant.                                         *)
LEMMA StepKeeps ==
  ASSUME QueueInv, [Next]_vars PROVE QueueInv'
<1>1. ASSUME UNCHANGED vars PROVE QueueInv'
  <2>1. UNCHANGED <<queueType, ringVars, items, out, clock>>
    BY <1>1 DEF vars
  <2>2. RingNow' /\ Idle' = Idle
    BY <2>1, RingQuiet DEF QueueInv
  <2> QED BY <2>1, <2>2
    DEF QueueInv, QueueTypeOK, LoopTypeOK, Stack!StackTypeOK, ringVars
<1> QED BY <1>1, InsertKeeps, DetachKeeps, RefreshKeeps, ResetKeeps, TickKeeps DEF Next

(* The invariant of every sequence of operations a pool may call.          *)
THEOREM QueueInvariant == Spec => []QueueInv
<1>1. Init => QueueInv
  BY InitiallyEmpty
<1>2. QueueInv /\ [Next]_vars => QueueInv'
  BY StepKeeps
<1> QED BY <1>1, <1>2, PTL DEF Spec

(* Slots hold workers or nothing, head and tail are slots, and an answer   *)
(* names workers (worker_loop_queue.rs, worker_stack.rs).                  *)
THEOREM QueueTypesCorrect == Spec => []QueueTypeOK
<1>1. QueueInv => QueueTypeOK
  BY DEF QueueInv
<1> QED BY <1>1, QueueInvariant, PTL

(* len(), computed from head, tail and is_full, counts the slots that are  *)
(* in use, for any size and wherever they wrap: nobody is left behind      *)
(* (worker_loop_queue.rs len()).                                           *)
THEOREM RingIsExact == Spec => []RingExact
<1>1. ASSUME QueueInv PROVE RingExact
  <2>1. /\ \A i \in Index : slots[i] # None <=> i \in Window(head, Length)
        /\ head \in Index /\ Length \in 0..Size /\ Size \in Nat
    BY <1>1, LoopQueueAssumption DEF QueueInv, RingNow, Ring
  <2>2. Occupied = Window(head, Length)
    BY DEF Occupied, Window, Slot
  <2>3. \A k \in 0..(Length - 1) : Slot(head, k) \in Index
    <3>1. \A k \in 0..(Length - 1) : k \in 0..Size
      BY <2>1
    <3> QED BY <2>1, <3>1, SlotIs
  <2>4. Window(head, Length) \subseteq Index
    BY <2>3 DEF Window
  <2> QED BY <2>1, <2>2, <2>4 DEF RingExact
<1>2. QueueInv => RingExact
  BY <1>1
<1> QED BY <1>2, QueueInvariant, PTL

-----------------------------------------------------------------------------
(* insert() of the ring is Insert of the bounded first-in-first-out queue. *)
LEMMA RingInsertRefines ==
  ASSUME QueueInv, IsLoop, IsLoop', NEW w \in Workers, Insert(w, clock)
  PROVE  RingQueue!Insert(w, clock)
<1>1. /\ clock \in Times /\ Len(Idle) \in 0..Size /\ Size \in Nat \ {0}
  BY Given, LoopQueueAssumption
<1>2. \/ Len(Idle) = Size /\ Idle' = Idle /\ out' = QueueIsFull
      \/ /\ Len(Idle) < Size
         /\ Idle' = Append(Idle, [who |-> w, at |-> clock])
         /\ out' = Returned({}, 0)
  BY <1>1, InsertEffect
<1>3. RingQueue!Full <=> Len(Idle) = Size
  BY <1>1 DEF RingQueue!Full
<1>4. Returned({}, 0) = RingQueue!Returned(<<>>, 0)
  BY Few
<1>5. Len(Idle) < Size => Len(Idle) # Size
  BY <1>1
<1> QED BY <1>2, <1>3, <1>4, <1>5 DEF RingQueue!Insert, QueueIsFull

(* detach() is Detach.                                                     *)
LEMMA RingDetachRefines ==
  ASSUME QueueInv, IsLoop, IsLoop', Detach
  PROVE  RingQueue!Detach
<1>1. Idle \in Seq(Entry)
  BY Given
<1>2. \/ Len(Idle) = 0 /\ Idle' = Idle /\ out' = Returned({}, 0)
      \/ /\ Len(Idle) > 0
         /\ Idle' = SubSeq(Idle, 2, Len(Idle))
         /\ out' = Returned({Idle[1].who}, 0)
  BY DetachEffect
<1>3. Returned({}, 0) = RingQueue!Returned(<<>>, 0)
  BY Few
<1>4. \A x : Returned({x.who}, 0) = RingQueue!Returned(<<x>>, 0)
  BY Few
<1>5. Len(Idle) = 0 <=> Idle = <<>>
  BY <1>1
<1>6. Len(Idle) > 0 => /\ Idle # <<>>
                       /\ SubSeq(Idle, 2, Len(Idle)) = Tail(Idle)
                       /\ Idle[1] = Head(Idle)
  BY <1>1
<1> QED BY <1>2, <1>3, <1>4, <1>5, <1>6 DEF RingQueue!Detach

(* refresh() is Refresh: the cut that the search finds is the abstract one. *)
LEMMA RingRefreshRefines ==
  ASSUME QueueInv, IsLoop, IsLoop', NEW expiry \in Int, Refresh(expiry)
  PROVE  RingQueue!Refresh(expiry)
<1>1. Idle \in Seq(Entry)
  BY Given
<1>2. PICK c : /\ Cut(Idle, c, expiry)
               /\ Idle' = SubSeq(Idle, c + 1, Len(Idle))
               /\ out' = Returned(Heads(Idle, c), expiry)
  BY RefreshEffect
<1>3. /\ c \in 0..Len(Idle)
      /\ \A i \in DOMAIN Idle : Idle[i].at <= expiry <=> i <= c
  BY <1>2 DEF Cut
<1>4. Returned(Heads(Idle, c), expiry) = RingQueue!Returned(SubSeq(Idle, 1, c), expiry)
  BY <1>1, <1>3, HeadsOf DEF Returned, RingQueue!Returned
<1> QED BY <1>2, <1>3, <1>4 DEF RingQueue!Refresh

(* reset() is Reset.                                                       *)
LEMMA RingResetRefines ==
  ASSUME QueueInv, IsLoop, IsLoop', Reset
  PROVE  RingQueue!Reset
<1>1. Idle \in Seq(Entry) /\ Len(Idle) \in Nat /\ Len(Idle) \in 0..Len(Idle)
  BY Given
<1>2. Idle' = <<>> /\ out' = Returned(Heads(Idle, Len(Idle)), 0)
  BY ResetEffect
<1>3. SubSeq(Idle, 1, Len(Idle)) = Idle
  <2>1. 0 + 1 = 1
    OBVIOUS
  <2> QED BY <1>1, <2>1, WholePart
<1>4. Returned(Heads(Idle, Len(Idle)), 0) = RingQueue!Returned(Idle, 0)
  BY <1>1, <1>3, HeadsOf DEF Returned, RingQueue!Returned
<1> QED BY <1>2, <1>4 DEF RingQueue!Reset

(* A ring that was not built, or not used, shows nothing.                  *)
LEMMA RingQuietRefines ==
  ASSUME RingNow, UNCHANGED <<ringVars, queueType>>, ~IsLoop \/ UNCHANGED out
  PROVE  UNCHANGED RingQueue!queueVars
<1>1. Idle' = Idle
  BY RingQuiet
<1>2. IsLoop' = IsLoop
  BY DEF IsLoop
<1> QED BY <1>1, <1>2 DEF RingQueue!queueVars, Nothing

(* Every step is one of the abstract queue, or none.                       *)
LEMMA RingStepRefines ==
  ASSUME QueueInv, [Next]_vars
  PROVE  [RingQueue!QueueNext]_(RingQueue!queueVars)
<1>0. RingNow /\ clock \in Times
  BY Given
<1>1. ASSUME QueueInsert PROVE [RingQueue!QueueNext]_(RingQueue!queueVars)
  <2>1. PICK w \in Workers \ Parked :
          \/ IsLoop /\ Insert(w, clock)
          \/ ~IsLoop /\ UNCHANGED ringVars
    BY <1>1 DEF QueueInsert
  <2>2. queueType' = queueType /\ w \in Workers
    BY <1>1 DEF QueueInsert
  <2>3. CASE IsLoop
    BY <1>0, <2>1, <2>2, <2>3, RingInsertRefines DEF RingQueue!QueueNext, IsLoop
  <2>4. CASE ~IsLoop
    BY <1>0, <2>1, <2>2, <2>4, RingQuietRefines
  <2> QED BY <2>3, <2>4
<1>2. ASSUME QueueDetach PROVE [RingQueue!QueueNext]_(RingQueue!queueVars)
  <2>1. /\ \/ IsLoop /\ Detach
           \/ ~IsLoop /\ UNCHANGED ringVars
        /\ queueType' = queueType
    BY <1>2 DEF QueueDetach
  <2>2. CASE IsLoop
    BY <2>1, <2>2, RingDetachRefines DEF RingQueue!QueueNext, IsLoop
  <2>3. CASE ~IsLoop
    BY <1>0, <2>1, <2>3, RingQuietRefines
  <2> QED BY <2>2, <2>3
<1>3. ASSUME QueueRefresh PROVE [RingQueue!QueueNext]_(RingQueue!queueVars)
  <2>1. PICK expiry \in 0..clock :
          \/ IsLoop /\ Refresh(expiry)
          \/ ~IsLoop /\ UNCHANGED ringVars
    BY <1>3 DEF QueueRefresh
  <2>2. queueType' = queueType /\ expiry \in Times \cup {0} /\ expiry \in Int
    BY <1>3, Given DEF QueueRefresh
  <2>3. CASE IsLoop
    BY <2>1, <2>2, <2>3, RingRefreshRefines DEF RingQueue!QueueNext, IsLoop
  <2>4. CASE ~IsLoop
    BY <1>0, <2>1, <2>2, <2>4, RingQuietRefines
  <2> QED BY <2>3, <2>4
<1>4. ASSUME QueueReset PROVE [RingQueue!QueueNext]_(RingQueue!queueVars)
  <2>1. /\ \/ IsLoop /\ Reset
           \/ ~IsLoop /\ UNCHANGED ringVars
        /\ queueType' = queueType
    BY <1>4 DEF QueueReset
  <2>2. CASE IsLoop
    BY <2>1, <2>2, RingResetRefines DEF RingQueue!QueueNext, IsLoop
  <2>3. CASE ~IsLoop
    BY <1>0, <2>1, <2>3, RingQuietRefines
  <2> QED BY <2>2, <2>3
<1>5. ASSUME Tick \/ UNCHANGED vars
      PROVE  [RingQueue!QueueNext]_(RingQueue!queueVars)
  <2>1. UNCHANGED <<queueType, ringVars, out>>
    BY <1>5 DEF Tick, vars
  <2> QED BY <1>0, <2>1, RingQuietRefines
<1> QED BY <1>1, <1>2, <1>3, <1>4, <1>5 DEF Next

(* The ring is a first-in-first-out queue of at most Size workers, whose   *)
(* refresh() hands back those that have expired and no others: the binary  *)
(* search over mapped positions is right for any size, head and contents.  *)
THEOREM RingRefines == Spec => RingImplementsQueue
<1>1. Init => RingQueue!QueueInit
  <2> SUFFICES ASSUME Init PROVE RingQueue!QueueInit
    OBVIOUS
  <2>1. Idle = <<>> /\ out = Returned({}, 0)
    BY InitiallyEmpty DEF Init, LoopInit
  <2> QED BY <2>1, Few DEF RingQueue!QueueInit, Returned, Nothing
<1>2. QueueInv /\ [Next]_vars => [RingQueue!QueueNext]_(RingQueue!queueVars)
  BY RingStepRefines
<1> QED BY <1>1, <1>2, QueueInvariant, PTL
        DEF Spec, RingImplementsQueue, RingQueue!QueueSpec

(* A stack that was not built, or not used, shows nothing.                 *)
LEMMA StackQuietRefines ==
  ASSUME UNCHANGED <<items, queueType>>, IsLoop \/ UNCHANGED out
  PROVE  UNCHANGED StackQueue!queueVars
<1>1. IsLoop' = IsLoop
  BY DEF IsLoop
<1> QED BY <1>1 DEF StackQueue!queueVars, Nothing

(* One operation of the stack, read as one of the abstract queue.          *)
LEMMA StackOpRefines ==
  ASSUME QueueInv, ~IsLoop, ~IsLoop'
  PROVE  /\ \A w \in Workers : Stack!Push(w, clock) => StackQueue!Insert(w, clock)
         /\ Stack!Pop => StackQueue!Detach
         /\ \A expiry \in Int :
              Stack!RefreshStack(expiry) => StackQueue!Refresh(expiry)
         /\ Stack!ResetStack => StackQueue!Reset
<1>1. items \in Seq(Entry)
  BY Given
<1>2. \A s, t : Stack!Handed(s, t) = StackQueue!Returned(s, t)
  BY DEF Stack!Handed, StackQueue!Returned
<1>3. ~StackQueue!Full
  BY DEF StackQueue!Full
<1>4. ASSUME NEW w \in Workers, Stack!Push(w, clock)
      PROVE  StackQueue!Insert(w, clock)
  BY <1>2, <1>3, <1>4 DEF Stack!Push, StackQueue!Insert
<1>5. ASSUME Stack!Pop PROVE StackQueue!Detach
  BY <1>2, <1>5
  DEF Stack!Pop, StackQueue!Detach, Stack!Last, Stack!Front, StackQueue!Last,
      StackQueue!Front
<1>6. ASSUME NEW expiry \in Int, Stack!RefreshStack(expiry)
      PROVE  StackQueue!Refresh(expiry)
  <2>1. PICK c : /\ Cut(items, c, expiry)
                 /\ items' = SubSeq(items, c + 1, Len(items))
                 /\ out' = Stack!Handed(SubSeq(items, 1, c), expiry)
    BY <1>6, RefreshStackEffect
  <2>2. /\ c \in 0..Len(items)
        /\ \A i \in DOMAIN items : items[i].at <= expiry <=> i <= c
    BY <2>1 DEF Cut
  <2>3. out' = StackQueue!Returned(SubSeq(items, 1, c), expiry)
    BY <1>2, <2>1
  <2> QED BY <2>1, <2>2, <2>3 DEF StackQueue!Refresh
<1>7. ASSUME Stack!ResetStack PROVE StackQueue!Reset
  BY <1>2, <1>7 DEF Stack!ResetStack, StackQueue!Reset
<1> QED BY <1>4, <1>5, <1>6, <1>7

(* Every step is one of the abstract queue, or none.                       *)
LEMMA StackStepRefines ==
  ASSUME QueueInv, [Next]_vars
  PROVE  [StackQueue!QueueNext]_(StackQueue!queueVars)
<1>0. clock \in Times
  BY Given
<1>1. ASSUME QueueInsert PROVE [StackQueue!QueueNext]_(StackQueue!queueVars)
  <2>1. PICK w \in Workers \ Parked :
          \/ ~IsLoop /\ Stack!Push(w, clock)
          \/ IsLoop /\ UNCHANGED items
    BY <1>1 DEF QueueInsert
  <2>2. queueType' = queueType /\ w \in Workers
    BY <1>1 DEF QueueInsert
  <2>3. CASE ~IsLoop
    BY <1>0, <2>1, <2>2, <2>3, StackOpRefines DEF StackQueue!QueueNext, IsLoop
  <2>4. CASE IsLoop
    BY <2>1, <2>2, <2>4, StackQuietRefines
  <2> QED BY <2>3, <2>4
<1>2. ASSUME QueueDetach PROVE [StackQueue!QueueNext]_(StackQueue!queueVars)
  <2>1. /\ \/ ~IsLoop /\ Stack!Pop
           \/ IsLoop /\ UNCHANGED items
        /\ queueType' = queueType
    BY <1>2 DEF QueueDetach
  <2>2. CASE ~IsLoop
    BY <2>1, <2>2, StackOpRefines DEF StackQueue!QueueNext, IsLoop
  <2>3. CASE IsLoop
    BY <2>1, <2>3, StackQuietRefines
  <2> QED BY <2>2, <2>3
<1>3. ASSUME QueueRefresh PROVE [StackQueue!QueueNext]_(StackQueue!queueVars)
  <2>1. PICK expiry \in 0..clock :
          \/ ~IsLoop /\ Stack!RefreshStack(expiry)
          \/ IsLoop /\ UNCHANGED items
    BY <1>3 DEF QueueRefresh
  <2>2. queueType' = queueType /\ expiry \in Times \cup {0} /\ expiry \in Int
    BY <1>3, Given DEF QueueRefresh
  <2>3. CASE ~IsLoop
    BY <2>1, <2>2, <2>3, StackOpRefines DEF StackQueue!QueueNext, IsLoop
  <2>4. CASE IsLoop
    BY <2>1, <2>2, <2>4, StackQuietRefines
  <2> QED BY <2>3, <2>4
<1>4. ASSUME QueueReset PROVE [StackQueue!QueueNext]_(StackQueue!queueVars)
  <2>1. /\ \/ ~IsLoop /\ Stack!ResetStack
           \/ IsLoop /\ UNCHANGED items
        /\ queueType' = queueType
    BY <1>4 DEF QueueReset
  <2>2. CASE ~IsLoop
    BY <2>1, <2>2, StackOpRefines DEF StackQueue!QueueNext, IsLoop
  <2>3. CASE IsLoop
    BY <2>1, <2>3, StackQuietRefines
  <2> QED BY <2>2, <2>3
<1>5. ASSUME Tick \/ UNCHANGED vars
      PROVE  [StackQueue!QueueNext]_(StackQueue!queueVars)
  <2>1. UNCHANGED <<queueType, items, out>>
    BY <1>5 DEF Tick, vars
  <2> QED BY <2>1, StackQuietRefines
<1> QED BY <1>1, <1>2, <1>3, <1>4, <1>5 DEF Next

(* The stack is a last-in-first-out queue without a limit, and its binary  *)
(* search is right as well.                                                *)
THEOREM StackRefines == Spec => StackImplementsQueue
<1>1. Init => StackQueue!QueueInit
  <2> SUFFICES ASSUME Init PROVE StackQueue!QueueInit
    OBVIOUS
  <2>1. items = <<>> /\ out = Returned({}, 0)
    BY InitiallyEmpty DEF Init, LoopInit
  <2>2. StackQueue!Returned(<<>>, 0) = Returned({}, 0)
    BY Few DEF StackQueue!Returned, Stack!Handed
  <2> QED BY <2>1, <2>2 DEF StackQueue!QueueInit, Returned, Nothing
<1>2. QueueInv /\ [Next]_vars => [StackQueue!QueueNext]_(StackQueue!queueVars)
  BY StackStepRefines
<1> QED BY <1>1, <1>2, QueueInvariant, PTL
        DEF Spec, StackImplementsQueue, StackQueue!QueueSpec
=============================================================================
