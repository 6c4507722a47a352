--------------------------- MODULE AudioRingProofs ---------------------------
(***************************************************************************)
(* The ring buffer stands for a queue: what each operation of storage.c    *)
(* and keyboard.c makes of the sequence Contents, for every size of the    *)
(* buffer.  At the end, what the proofs about its users need of functions  *)
(* that are defined by recursion.                                          *)
(***************************************************************************)
EXTENDS AudioRing, SequenceTheorems, WellFoundedInduction, TLAPS

\* Indices go on at 0, and lengths are counted over the end.
LEMMA Mod ==
  ASSUME NEW a \in Nat, a < 2 * BufSize
  PROVE  a % BufSize = IF a < BufSize THEN a ELSE a - BufSize
BY RingAssumption, SMTT(30) DEF RingAssumption

LEMMA SuccSlot ==
  ASSUME NEW k \in Slots
  PROVE  /\ Succ(k) \in Slots
         /\ Succ(k) = IF k + 1 < BufSize THEN k + 1 ELSE 0
<1>1. BufSize \in Nat \ {0, 1}
  BY RingAssumption DEF RingAssumption
<1>2. k + 1 \in Nat /\ k + 1 < 2 * BufSize /\ k + 1 <= BufSize
  BY <1>1, SMT DEF Slots
<1> QED
  BY <1>1, <1>2, Mod, SMT DEF Slots, Succ

\* The length by cases, and what empty and full mean for it.
LEMMA RingLength ==
  ASSUME NEW Item, NEW r \in Rings(Item)
  PROVE  /\ RingLen(r) \in 0..(BufSize - 1)
         /\ RingLen(r) = IF r.start <= r.end THEN r.end - r.start ELSE r.end + BufSize - r.start
         /\ AinReady(r) <=> RingLen(r) > 0
         /\ AinFull(r) <=> RingLen(r) = BufSize - 1
<1>1. BufSize \in Nat \ {0, 1}
  BY RingAssumption DEF RingAssumption
<1>2. r.start \in Slots /\ r.end \in Slots
  BY DEF Rings
<1>3. r.end + BufSize - r.start \in Nat /\ r.end + BufSize - r.start < 2 * BufSize
  BY <1>1, <1>2, SMT DEF Slots
<1>4. RingLen(r) = IF r.start <= r.end THEN r.end - r.start ELSE r.end + BufSize - r.start
  BY <1>1, <1>2, <1>3, Mod, SMT DEF RingLen, Slots
<1>5. Succ(r.end) = IF r.end + 1 < BufSize THEN r.end + 1 ELSE 0
  BY <1>2, SuccSlot
<1> QED
  BY <1>1, <1>2, <1>4, <1>5, SMT DEF Slots, AinReady, AinFull

\* The slot of item number k.
Slot(r, k) == IF r.start + k - 1 < BufSize THEN r.start + k - 1 ELSE r.start + k - 1 - BufSize

LEMMA ContentsIsSeq ==
  ASSUME NEW Item, NEW r \in Rings(Item)
  PROVE  /\ Contents(r) \in Seq(Item)
         /\ Len(Contents(r)) = RingLen(r)
         /\ \A k \in 1..RingLen(r) : Slot(r, k) \in Slots /\ Contents(r)[k] = r.buf[Slot(r, k)]
<1>1. BufSize \in Nat \ {0, 1} /\ r.start \in Slots /\ r.end \in Slots /\ r.buf \in [Slots -> Item]
  BY RingAssumption DEF RingAssumption, Rings
<1>2. RingLen(r) \in 0..(BufSize - 1)
  BY RingLength
<1>3. ASSUME NEW k \in 1..RingLen(r)
      PROVE  Slot(r, k) \in Slots /\ (r.start + k - 1) % BufSize = Slot(r, k)
  <2> DEFINE m == r.start + k - 1
  <2>1. m \in Nat /\ m < 2 * BufSize
    BY <1>1, <1>2, SMT DEF Slots
  <2>2. (r.start + k - 1) % BufSize = Slot(r, k)
    <3>1. m % BufSize = IF m < BufSize THEN m ELSE m - BufSize
      <4> HIDE DEF m
      <4> QED
        BY <2>1, Mod
    <3> QED
      BY <1>1, <1>2, <2>1, <3>1, SMT DEF Slot, Slots
  <2>3. Slot(r, k) \in Slots
    BY <1>1, <2>1, SMT DEF Slots, Slot
  <2> QED
    BY <2>2, <2>3
<1>4. \A k \in 1..RingLen(r) : Contents(r)[k] = r.buf[Slot(r, k)] /\ r.buf[Slot(r, k)] \in Item
  BY <1>1, <1>3 DEF Contents
<1>5. Contents(r) \in [1..RingLen(r) -> Item]
  BY <1>4, <1>3 DEF Contents
<1> QED
  BY <1>2, <1>3, <1>4, <1>5, SMT

\* The fields of a ring.
LEMMA RingFields ==
  ASSUME NEW Item, NEW r
  PROVE  /\ r \in Rings(Item) => /\ r.buf \in [Slots -> Item]
                                 /\ r.start \in Slots /\ r.end \in Slots
                                 /\ BufSize \in Nat /\ BufSize > 1
         /\ \A b \in [Slots -> Item], i \in Slots, j \in Slots :
              [buf |-> b, start |-> i, end |-> j] \in Rings(Item)
BY RingAssumption DEF RingAssumption, Rings

\* aout_on and ain_on start from an empty queue.
LEMMA FlushedIsEmpty ==
  ASSUME NEW Item, NEW r \in Rings(Item)
  PROVE  Flushed(r) \in Rings(Item) /\ Contents(Flushed(r)) = <<>> /\ RingLen(Flushed(r)) = 0
<1> DEFINE f == Flushed(r)
<1>1. f = [buf |-> r.buf, start |-> 0, end |-> 0]
  BY DEF Flushed
<1>2. f \in Rings(Item) /\ f.start = 0 /\ f.end = 0
  BY <1>1, RingFields, SMT DEF Slots
<1>3. RingLen(f) = IF f.start <= f.end THEN f.end - f.start ELSE f.end + BufSize - f.start
  BY <1>2, RingLength
<1>4. RingLen(f) = 0
  BY <1>2, <1>3, SMT
<1>5. Contents(f) \in Seq(Item) /\ Len(Contents(f)) = 0
  BY <1>2, <1>4, ContentsIsSeq
<1> QED
  BY <1>2, <1>4, <1>5, EmptySeq

\* ain_get takes the oldest item.
LEMMA TakenIsTail ==
  ASSUME NEW Item, NEW r \in Rings(Item), AinReady(r)
  PROVE  /\ Taken(r) \in Rings(Item)
         /\ RingLen(Taken(r)) = RingLen(r) - 1
         /\ Contents(r) # <<>> /\ Oldest(r) = Contents(r)[1] /\ Oldest(r) \in Item
         /\ Contents(Taken(r)) = Tail(Contents(r))
<1> DEFINE t == Taken(r)
<1> DEFINE n == RingLen(r)
<1>1. /\ r.buf \in [Slots -> Item] /\ r.start \in Slots /\ r.end \in Slots
      /\ BufSize \in Nat /\ BufSize > 1
  BY RingFields
<1>2. /\ Succ(r.start) \in Slots
      /\ Succ(r.start) = IF r.start + 1 < BufSize THEN r.start + 1 ELSE 0
  BY <1>1, SuccSlot
<1>3. t = [buf |-> r.buf, start |-> Succ(r.start), end |-> r.end]
  BY DEF Taken, Rings
<1>4. t \in Rings(Item) /\ t.buf = r.buf /\ t.start = Succ(r.start) /\ t.end = r.end
  BY <1>1, <1>2, <1>3, RingFields
<1>5. /\ n \in 1..(BufSize - 1)
      /\ n = IF r.start <= r.end THEN r.end - r.start ELSE r.end + BufSize - r.start
  BY <1>1, RingLength, SMT
<1>6. RingLen(t) = n - 1
  <2>1. RingLen(t) = IF t.start <= t.end THEN t.end - t.start ELSE t.end + BufSize - t.start
    BY <1>4, RingLength
  <2>2. /\ r.start \in Int /\ 0 <= r.start /\ r.start < BufSize
        /\ r.end \in Int /\ 0 <= r.end /\ r.end < BufSize
    BY <1>1, SMT DEF Slots
  <2>3. t.start = (IF r.start + 1 < BufSize THEN r.start + 1 ELSE 0) /\ t.end = r.end
    BY <1>2, <1>4
  <2>4. BufSize \in Nat /\ n \in Int /\ n > 0
    BY <1>1, <1>5, SMT
  <2> QED
    BY <1>5, <2>1, <2>2, <2>3, <2>4, SMT
<1>7. ASSUME NEW k \in 1..(n - 1) PROVE Contents(t)[k] = Contents(r)[k + 1]
  <2>1. Slot(t, k) = Slot(r, k + 1)
    BY <1>1, <1>2, <1>4, <1>5, SMTT(30) DEF Slot, Slots
  <2>2. k \in 1..RingLen(t) /\ k + 1 \in 1..RingLen(r)
    BY <1>5, <1>6, SMT
  <2>3. Contents(t)[k] = t.buf[Slot(t, k)] /\ Contents(r)[k + 1] = r.buf[Slot(r, k + 1)]
    BY <1>4, <2>2, ContentsIsSeq
  <2> QED
    BY <1>4, <2>1, <2>3
<1>8. Contents(r)[1] = r.buf[r.start]
  <2>1. Slot(r, 1) = r.start /\ 1 \in 1..RingLen(r)
    BY <1>1, <1>5, SMT DEF Slot, Slots
  <2> QED
    BY <2>1, ContentsIsSeq
<1>9. /\ Contents(r) \in Seq(Item) /\ Len(Contents(r)) = n
      /\ Contents(t) \in Seq(Item) /\ Len(Contents(t)) = n - 1
  BY <1>4, <1>6, ContentsIsSeq
<1>10. Contents(r) # <<>> /\ Contents(t) = Tail(Contents(r))
  <2> HIDE DEF t, n
  <2> QED
    BY <1>5, <1>7, <1>9, SMT
<1> QED
  BY <1>1, <1>4, <1>6, <1>8, <1>10 DEF Oldest

\* The slot that comes k slots after the first.
LEMMA SlotAfter ==
  ASSUME NEW t, NEW a \in Nat, t.start = a, NEW k \in Nat
  PROVE  Slot(t, k + 1) = IF a + k < BufSize THEN a + k ELSE a + k - BufSize
<1>1. a + (k + 1) - 1 = a + k
  BY SMT
<1>2. Slot(t, k + 1) = IF a + (k + 1) - 1 < BufSize THEN a + (k + 1) - 1 ELSE a + (k + 1) - 1 - BufSize
  BY DEF Slot
<1> QED
  BY <1>1, <1>2

\* ain_put stores at the end; without room, the oldest item makes way.
LEMMA StoredIsAppend ==
  ASSUME NEW Item, NEW r \in Rings(Item), NEW x \in Item
  PROVE  /\ Stored(r, x) \in Rings(Item)
         /\ ~AinFull(r) => /\ Contents(Stored(r, x)) = Append(Contents(r), x)
                           /\ RingLen(Stored(r, x)) = RingLen(r) + 1
         /\ AinFull(r) => Contents(Stored(r, x)) = Append(Tail(Contents(r)), x)
<1> DEFINE s == Stored(r, x)
<1> DEFINE n == RingLen(r)
<1>1. /\ r.buf \in [Slots -> Item] /\ r.start \in Slots /\ r.end \in Slots
      /\ BufSize \in Nat /\ BufSize > 1
  BY RingFields
<1>2. /\ Succ(r.start) \in Slots /\ Succ(r.end) \in Slots
      /\ Succ(r.start) = IF r.start + 1 < BufSize THEN r.start + 1 ELSE 0
      /\ Succ(r.end) = IF r.end + 1 < BufSize THEN r.end + 1 ELSE 0
  BY <1>1, SuccSlot
<1>3. s = [buf   |-> [r.buf EXCEPT ![r.end] = x],
           start |-> IF Succ(r.end) = r.start THEN Succ(r.start) ELSE r.start,
           end   |-> Succ(r.end)]
  BY DEF Stored, AinFull
<1>4. [r.buf EXCEPT ![r.end] = x] \in [Slots -> Item]
  BY <1>1
<1>5. /\ s \in Rings(Item)
      /\ s.end = IF r.end + 1 < BufSize THEN r.end + 1 ELSE 0
      /\ s.start = IF s.end # r.start THEN r.start
                   ELSE IF r.start + 1 < BufSize THEN r.start + 1 ELSE 0
  BY <1>1, <1>2, <1>3, <1>4, RingFields
<1>6. \A k \in Slots : s.buf[k] = IF k = r.end THEN x ELSE r.buf[k]
  BY <1>1, <1>3
<1>7. /\ n \in 0..(BufSize - 1)
      /\ (AinFull(r) <=> s.end = r.start) /\ (s.end = r.start <=> n = BufSize - 1)
      /\ n = IF r.start <= r.end THEN r.end - r.start ELSE r.end + BufSize - r.start
  BY <1>2, <1>5, RingLength DEF AinFull
<1> HIDE DEF s, n
<1>8. RingLen(s) = IF s.start <= s.end THEN s.end - s.start ELSE s.end + BufSize - s.start
  BY <1>5, RingLength
<1>9. /\ Contents(r) \in Seq(Item) /\ Len(Contents(r)) = n
      /\ \A k \in 1..n : Slot(r, k) \in Slots /\ Contents(r)[k] = r.buf[Slot(r, k)]
      /\ Contents(s) \in Seq(Item) /\ Len(Contents(s)) = RingLen(s)
      /\ \A k \in 1..RingLen(s) : Contents(s)[k] = s.buf[Slot(s, k)]
  BY <1>5, ContentsIsSeq DEF n
<1>10. CASE s.end # r.start
  <2>1. s.start = r.start /\ n < BufSize - 1
    BY <1>1, <1>5, <1>7, <1>10, SMT
  <2>2. RingLen(s) = n + 1
    <3>1. r.start \in Nat /\ r.start < BufSize /\ r.end \in Nat /\ r.end < BufSize /\ BufSize \in Nat
      BY <1>1, SMT DEF Slots
    <3>2. CASE r.end + 1 < BufSize
      <4>1. s.end = r.end + 1
        BY <1>5, <3>2
      <4> QED
        BY <1>7, <1>8, <1>10, <2>1, <3>1, <4>1, SMT
    <3>3. CASE ~(r.end + 1 < BufSize)
      <4>1. s.end = 0 /\ r.end = BufSize - 1
        BY <1>5, <3>1, <3>3, SMT
      <4> QED
        BY <1>7, <1>8, <1>10, <2>1, <3>1, <4>1, SMT
    <3> QED
      BY <3>2, <3>3
  <2>3. Slot(s, n + 1) = r.end
    <3>1. /\ r.start \in Nat /\ r.end \in Nat /\ r.end < BufSize /\ n \in Nat
          /\ BufSize \in Nat /\ s.start = r.start
      BY <1>1, <1>7, <2>1, SMT DEF Slots
    <3>2. r.start + n = r.end \/ r.start + n = r.end + BufSize
      BY <1>7, <3>1, SMT
    <3>3. Slot(s, n + 1) = IF r.start + n < BufSize THEN r.start + n ELSE r.start + n - BufSize
      BY <3>1, SlotAfter
    <3> QED
      BY <3>1, <3>2, <3>3, SMT
  <2>4. Contents(s)[n + 1] = x
    <3>1. n + 1 \in 1..RingLen(s)
      BY <1>7, <2>2, SMT
    <3>2. Contents(s)[n + 1] = s.buf[r.end]
      BY <1>9, <2>3, <3>1
    <3> QED
      BY <1>1, <1>6, <3>2
  <2>5. ASSUME NEW k \in 1..n PROVE Contents(s)[k] = Contents(r)[k]
    <3>1. Slot(s, k) = Slot(r, k) /\ Slot(r, k) # r.end
      BY <1>1, <1>7, <2>1, SMT DEF Slots, Slot
    <3>2. k \in 1..RingLen(s)
      BY <1>7, <2>2, SMT
    <3> QED
      BY <1>6, <1>9, <3>1, <3>2
  <2>6. Contents(s) = Append(Contents(r), x)
    BY <1>7, <1>9, <2>2, <2>4, <2>5, SMT
  <2> QED
    BY <1>5, <1>7, <1>10, <2>2, <2>6 DEF s, n
<1>11. CASE s.end = r.start
  <2>1. n = BufSize - 1 /\ s.start = IF r.start + 1 < BufSize THEN r.start + 1 ELSE 0
    BY <1>5, <1>7, <1>11
  <2>2. r.end = IF r.start = 0 THEN BufSize - 1 ELSE r.start - 1
    BY <1>1, <1>7, <2>1, SMT DEF Slots
  <2>3. RingLen(s) = n
    <3>1. r.start \in Nat /\ r.start < BufSize /\ BufSize \in Nat /\ BufSize > 1
      BY <1>1, SMT DEF Slots
    <3> QED
      BY <1>8, <1>11, <2>1, <3>1, SMT
  <2>4. Slot(s, n) = r.end
    BY <1>1, <2>1, <2>2, SMT DEF Slots, Slot
  <2>5. Contents(s)[n] = x
    BY <1>1, <1>6, <1>9, <2>1, <2>3, <2>4, SMT
  <2>6. ASSUME NEW k \in 1..(n - 1) PROVE Contents(s)[k] = Contents(r)[k + 1]
    <3>1. Slot(s, k) = Slot(r, k + 1) /\ Slot(r, k + 1) # r.end
      BY <1>1, <2>1, <2>2, SMTT(30) DEF Slots, Slot
    <3>2. k \in 1..RingLen(s) /\ k + 1 \in 1..n
      BY <1>7, <2>3, SMT
    <3> QED
      BY <1>6, <1>9, <3>1, <3>2
  <2>7. /\ Tail(Contents(r)) \in Seq(Item) /\ Len(Tail(Contents(r))) = n - 1
        /\ \A k \in 1..(n - 1) : Tail(Contents(r))[k] = Contents(r)[k + 1]
    BY <1>1, <1>9, <2>1, SMT
  <2>8. Contents(s) = Append(Tail(Contents(r)), x)
    BY <1>1, <1>9, <2>1, <2>3, <2>5, <2>6, <2>7, SMT
  <2> QED
    BY <1>5, <1>7, <1>11, <2>8 DEF s
<1> QED
  BY <1>10, <1>11
-----------------------------------------------------------------------------
(* Functions that are defined by recursion on the numbers up to n.         *)

LEMMA LeastNumber ==
  ASSUME NEW T, T \subseteq Nat, T # {}
  PROVE  \E x \in T : \A y \in T : x <= y
<1> DEFINE R == OpToRel(<, Nat)
<1>1. PICK x \in T : \A y \in T : ~(<<y, x>> \in R)
  <2>1. IsWellFoundedOn(R, Nat)
    BY NatLessThanWellFounded
  <2> HIDE DEF R
  <2> QED
    BY <2>1, WFMin
<1>2. ASSUME NEW y \in T PROVE x <= y
  <2>1. ~(y < x)
    BY <1>1 DEF OpToRel
  <2>2. x \in Nat /\ y \in Nat
    OBVIOUS
  <2> QED
    BY <2>1, <2>2, SMT
<1> QED
  BY <1>2

\* g[<<i, v>>] is the value for i, where v is the one for i - 1.
Follows(f, n, a, g) == f[0] = a /\ \A i \in 1..n : f[i] = g[<<i, f[i - 1]>>]

LEMMA RecursionExists ==
  ASSUME NEW n \in Nat, NEW S, NEW a \in S, NEW g \in [(1..n) \X S -> S]
  PROVE  \E f \in [0..n -> S] : Follows(f, n, a, g)
<1> DEFINE Has(m) == \E f \in [0..m -> S] : Follows(f, m, a, g)
           T == {m \in 0..n : ~Has(m)}
<1>1. SUFFICES ASSUME T # {} PROVE FALSE
  <2>1. n \in 0..n
    BY SMT
  <2> QED
    BY <2>1
<1>2. PICK m \in T : \A y \in T : m <= y
  <2>1. T \subseteq Nat
    BY SMT
  <2> HIDE DEF T
  <2> QED
    BY <1>1, <2>1, LeastNumber
<1>3. m \in Nat /\ m <= n /\ ~Has(m)
  BY SMT
<1>4. CASE m = 0
  <2> DEFINE f == [i \in 0..0 |-> a]
  <2>1. f \in [0..m -> S] /\ f[0] = a
    BY <1>4, SMT
  <2>2. \A i \in 1..m : FALSE
    BY <1>4, SMT
  <2> HIDE DEF f
  <2>3. Follows(f, m, a, g)
    BY <2>1, <2>2 DEF Follows
  <2> QED
    BY <1>3, <2>1, <2>3
<1>5. CASE m # 0
  <2>1. m - 1 \in 0..n /\ ~(m <= m - 1)
    BY <1>3, <1>5, SMT
  <2>2. Has(m - 1)
    BY <1>2, <2>1
  <2>3. PICK h \in [0..(m - 1) -> S] : Follows(h, m - 1, a, g)
    BY <2>2
  <2> DEFINE f == [i \in 0..m |-> IF i = m THEN g[<<m, h[m - 1]>>] ELSE h[i]]
  <2>4. m - 1 \in 0..(m - 1) /\ m \in 1..n /\ 0 \in 0..m /\ 0 # m
        /\ \A i \in 0..m : i # m => i \in 0..(m - 1)
    BY <1>3, <1>5, SMT
  <2>5. f \in [0..m -> S]
    BY <2>4
  <2>6. f[0] = a
    BY <2>3, <2>4 DEF Follows
  <2>7. ASSUME NEW i \in 1..m PROVE f[i] = g[<<i, f[i - 1]>>]
    <3>1. /\ i \in 0..m /\ i - 1 \in 0..m /\ i - 1 # m
          /\ i # m => i \in 1..(m - 1)
      BY <1>3, SMT
    <3>2. f[i - 1] = h[i - 1]
      BY <3>1
    <3>3. CASE i = m
      <4>1. f[i] = g[<<m, h[m - 1]>>]
        BY <3>1, <3>3
      <4> QED
        BY <3>2, <3>3, <4>1
    <3>4. CASE i # m
      <4>1. f[i] = h[i] /\ h[i] = g[<<i, h[i - 1]>>]
        BY <2>3, <3>1, <3>4 DEF Follows
      <4> QED
        BY <3>2, <4>1
    <3> QED
      BY <3>3, <3>4
  <2> HIDE DEF f
  <2>8. Has(m)
    BY <2>5, <2>6, <2>7 DEF Follows
  <2> QED
    BY <1>3, <2>8
<1> QED
  BY <1>4, <1>5
=============================================================================
