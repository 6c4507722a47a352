---------------------------- MODULE AudioInProofs ----------------------------
(***************************************************************************)
(* load and the pin change interrupt share the ring buffer without a lock, *)
(* and the interrupt moves the index of load when the buffer is full.  For *)
(* every size of the buffer and of a byte, the buffer still is a queue: it *)
(* loses its oldest byte then, and nothing else.                           *)
(*                                                                         *)
(* What carries it: between the test of ain_ready and ain_get the          *)
(* interrupt may store and drop, but never empties the buffer.             *)
(*                                                                         *)
(* And for every payload that fits in the length of the header, one wrong  *)
(* bit is found, and a tape without one is loaded.  What carries that:     *)
(* while no byte is lost, there are a byte at, zero if none was misread,   *)
(* and a bit of it, such that the interrupt has made the first bytes of    *)
(* the block with that bit turned over (Stream) and the decoder is where   *)
(* the first of these have brought it (Progress).                          *)
(***************************************************************************)
EXTENDS AudioIn, AudioRingProofs

RingInv ==
  /\ ring \in Rings(Byte)
  /\ bit \in BitsOfByte /\ byte \in Byte
  /\ pc = "get" => AinReady(ring)

LEMMA BitZero == 0 \in BitsOfByte /\ {} \in Byte
BY StorageAssumption, SMT DEF StorageAssumption, BitsOfByte, Byte

LEMMA InitRing == Init => RingInv
<1> SUFFICES ASSUME Init PROVE RingInv
  OBVIOUS
<1>1. 0 \in Slots
  BY RingAssumption, SMT DEF RingAssumption, Slots
<1>2. ring \in Rings(Byte)
  BY <1>1, BitZero, RingFields DEF Init
<1> QED
  BY <1>2, BitZero DEF Init, RingInv

\* A buffer that something was just stored in is not empty.
LEMMA StoredIsReady ==
  ASSUME NEW r \in Rings(Byte), NEW b \in Byte
  PROVE  Stored(r, b) \in Rings(Byte) /\ AinReady(Stored(r, b))
<1> DEFINE s == Stored(r, b)
<1> DEFINE c == Contents(r)
<1>1. s \in Rings(Byte) /\ (Contents(s) = Append(c, b) \/ Contents(s) = Append(Tail(c), b))
  BY StoredIsAppend
<1>2. c \in Seq(Byte) /\ Len(c) = RingLen(r) /\ Len(Contents(s)) = RingLen(s)
  BY <1>1, ContentsIsSeq
<1>3. Contents(s) = Append(c, b) => Len(Contents(s)) > 0
  BY <1>2, AppendProperties, LenProperties, SMT
<1>4. AinFull(r) => c # <<>>
  <2>1. AinFull(r) => RingLen(r) > 0
    BY RingLength, RingAssumption, SMT DEF RingAssumption
  <2> QED
    BY <1>2, <2>1, EmptySeq, SMT
<1>5. CASE ~AinFull(r)
  <2>1. Contents(s) = Append(c, b)
    BY <1>5, StoredIsAppend
  <2> QED
    BY <1>1, <1>2, <1>3, <2>1, RingLength
<1>6. CASE AinFull(r)
  <2>1. Contents(s) = Append(Tail(c), b) /\ Tail(c) \in Seq(Byte)
    BY <1>2, <1>4, <1>6, StoredIsAppend, HeadTailProperties
  <2>2. Len(Contents(s)) = Len(Tail(c)) + 1 /\ Len(Tail(c)) \in Nat
    BY <2>1, AppendProperties, LenProperties
  <2>3. Len(Contents(s)) > 0
    BY <2>2, SMT
  <2> QED
    BY <1>1, <1>2, <2>3, RingLength
<1> QED
  BY <1>5, <1>6

\* The pin change interrupt leaves the buffer alone or stores one byte.
LEMMA EdgeStores ==
  ASSUME RingInv, NEW misread \in BOOLEAN, Edge(misread)
  PROVE  /\ bit' \in BitsOfByte /\ byte' \in Byte /\ pc' = pc
         /\ UNCHANGED ring \/ \E b \in Byte : ring' = Stored(ring, b)
<1>1. pc' = pc
  BY DEF Edge, loader
<1>2. CASE Settle
  BY <1>1, <1>2, BitZero DEF Settle
<1>3. CASE NextBit(Long(pos) # misread)
  <2> DEFINE b == IF Long(pos) # misread THEN byte \cup {bit} ELSE byte
  <2>1. b \in Byte
    BY DEF RingInv, Byte
  <2>2. CASE bit + 1 = W
    BY <1>1, <1>3, <2>1, <2>2, BitZero DEF NextBit
  <2>3. CASE bit + 1 # W
    <3>1. bit' = bit + 1 /\ byte' = b /\ ring' = ring
      BY <1>3, <2>3 DEF NextBit
    <3>2. bit + 1 \in BitsOfByte
      BY <2>3, StorageAssumption, SMT DEF StorageAssumption, RingInv, BitsOfByte
    <3> QED
      BY <1>1, <2>1, <3>1, <3>2
  <2> QED
    BY <2>2, <2>3
<1> QED
  BY <1>2, <1>3 DEF Edge

LEMMA StepRing == RingInv /\ [Next]_vars => RingInv'
<1> SUFFICES ASSUME RingInv, [Next]_vars PROVE RingInv'
  OBVIOUS
<1>1. CASE Start
  BY <1>1, FlushedIsEmpty DEF Start, RingInv
<1>2. CASE Get
  <2>1. ring' = Taken(ring) /\ UNCHANGED <<bit, byte>> /\ AinReady(ring) /\ pc' # "get"
    BY <1>2 DEF Get, isr, RingInv
  <2> QED
    BY <2>1, TakenIsTail DEF RingInv
<1>3. CASE \E misread \in BOOLEAN : Edge(misread)
  <2> PICK misread \in BOOLEAN : Edge(misread)
    BY <1>3
  <2>1. /\ bit' \in BitsOfByte /\ byte' \in Byte /\ pc' = pc
        /\ UNCHANGED ring \/ \E b \in Byte : ring' = Stored(ring, b)
    BY EdgeStores
  <2>2. CASE UNCHANGED ring
    BY <2>1, <2>2 DEF RingInv
  <2>3. CASE \E b \in Byte : ring' = Stored(ring, b)
    BY <2>1, <2>3, StoredIsReady DEF RingInv
  <2> QED
    BY <2>1, <2>2, <2>3
<1>4. CASE Poll
  BY <1>4 DEF Poll, RingInv, isr
<1>5. CASE (\E quiet \in BOOLEAN : Load(quiet)) \/ (\E key \in {"enter", "esc"} : Prompt(key))
             \/ Timeout \/ Finish \/ UNCHANGED vars
  BY <1>5 DEF Load, Prompt, Timeout, Finish, vars, isr, loader, RingInv
<1> QED
  BY <1>1, <1>2, <1>3, <1>4, <1>5 DEF Next, Loader

\* Each step of load and of the interrupt is a step of a bounded queue that
\* drops its oldest item when it is full, or leaves the queue alone.
LEMMA StepIsFifo ==
  RingInv /\ [Next]_vars =>
    [(\E x \in Byte : Queue!Put(x) \/ Queue!PutDropping(x))
       \/ Queue!Get \/ Queue!Flush]_(Contents(ring))
<1> SUFFICES ASSUME RingInv, [Next]_vars
             PROVE  \/ \E b \in Byte : Queue!Put(b) \/ Queue!PutDropping(b)
                    \/ Queue!Get \/ Queue!Flush
                    \/ UNCHANGED Contents(ring)
  OBVIOUS
<1>1. ring \in Rings(Byte)
  BY DEF RingInv
<1>2. CASE UNCHANGED ring
  BY <1>2
<1>3. CASE Start
  BY <1>1, <1>3, FlushedIsEmpty DEF Start, Queue!Flush
<1>4. CASE Get
  BY <1>1, <1>4, TakenIsTail DEF Get, RingInv, Queue!Get
<1>5. ASSUME NEW b \in Byte, ring' = Stored(ring, b)
      PROVE  Queue!Put(b) \/ Queue!PutDropping(b)
  <2>1. /\ RingLen(ring) \in 0..(BufSize - 1) /\ Len(Contents(ring)) = RingLen(ring)
        /\ AinFull(ring) <=> RingLen(ring) = BufSize - 1
    BY <1>1, RingLength, ContentsIsSeq
  <2>2. CASE AinFull(ring)
    BY <1>1, <1>5, <2>1, <2>2, StoredIsAppend DEF Queue!PutDropping
  <2>3. CASE ~AinFull(ring)
    <3>1. Len(Contents(ring)) < BufSize - 1
      BY <2>1, <2>3, RingAssumption, SMT DEF RingAssumption
    <3> QED
      BY <1>1, <1>5, <2>3, <3>1, StoredIsAppend DEF Queue!Put
  <2> QED
    BY <2>2, <2>3
<1>6. CASE \E misread \in BOOLEAN : Edge(misread)
  BY <1>5, <1>6, EdgeStores
<1> QED
  BY <1>2, <1>3, <1>4, <1>6
     DEF Next, Loader, Load, Prompt, Poll, Timeout, Finish, vars, loader, isr

\* The inductive invariant holds in every reachable state.
THEOREM LoadInvariant == Spec => []RingInv
BY InitRing, StepRing, PTL DEF Spec

\* The ring buffer implements a bounded first-in first-out queue that drops its
\* oldest byte when it is full: ain_get and the interrupt need no lock, even
\* where the interrupt moves ain_start.
THEOREM BufferIsFifo == Spec => RingIsFifo
<1>1. Init => Queue!Init
  <2> SUFFICES ASSUME Init PROVE Contents(ring) = <<>>
    BY DEF Queue!Init
  <2>1. ring \in Rings(Byte) /\ ~AinReady(ring)
    BY InitRing DEF RingInv, Init, AinReady
  <2>2. RingLen(ring) \in 0..(BufSize - 1) /\ ~(RingLen(ring) > 0)
    BY <2>1, RingLength
  <2>3. Contents(ring) \in Seq(Byte) /\ Len(Contents(ring)) = RingLen(ring)
    BY <2>1, ContentsIsSeq
  <2>4. Len(Contents(ring)) = 0
    BY <2>2, <2>3, RingAssumption, SMT DEF RingAssumption
  <2> QED
    BY <2>3, <2>4, EmptySeq
<1> QED
  BY <1>1, LoadInvariant, StepIsFifo, PTL DEF Spec, RingIsFifo, Queue!Lossy

\* When load calls ain_get the buffer holds a byte, however many the interrupt
\* stored or dropped since ain_ready said so.
THEOREM GetFindsByte == Spec => [](pc = "get" => AinReady(ring))
<1>1. RingInv => (pc = "get" => AinReady(ring))
  BY DEF RingInv
<1> QED
  BY <1>1, LoadInvariant, PTL

-----------------------------------------------------------------------------
\* No other function does, whatever its recursion makes of other values.
Recurs(f, n, S, a, g) ==
  /\ n \in Nat /\ a \in S /\ g \in [(1..n) \X S -> S]
  /\ f \in [0..n -> S] /\ Follows(f, n, a, g)
Obeys(p, n, S, a, g) ==
  p[0] = a /\ \A k \in 1..n : p[k - 1] \in S => p[k] = g[<<k, p[k - 1]>>]

LEMMA RecursionIsUnique ==
  ASSUME NEW n, NEW S, NEW a, NEW g, NEW f, NEW p,
         Recurs(f, n, S, a, g), Obeys(p, n, S, a, g)
  PROVE  \A k \in 0..n : p[k] = f[k]
<1> USE DEF Recurs
<1> DEFINE T == {k \in 0..n : p[k] # f[k]}
<1>1. SUFFICES ASSUME T # {} PROVE FALSE
  OBVIOUS
<1>2. PICK m \in T : \A y \in T : m <= y
  <2>1. T \subseteq Nat
    BY SMT
  <2> HIDE DEF T
  <2> QED
    BY <1>1, <2>1, LeastNumber
<1>3. m # 0
  BY DEF Follows, Obeys
<1>4. m \in 1..n /\ m - 1 \in 0..n /\ ~(m <= m - 1)
  BY <1>3, SMT
<1>5. p[m - 1] = f[m - 1]
  BY <1>2, <1>4
<1> QED
  BY <1>4, <1>5 DEF Follows, Obeys

\* The powers of two.
LEMMA PowerIs ==
  /\ \A k \in 0..W : Power[k] \in Nat \ {0}
  /\ Power[0] = 1
  /\ \A k \in 1..W : Power[k] = 2 * Power[k - 1]
<1> DEFINE S == Nat \ {0}
           g == [v \in (1..W) \X S |-> 2 * v[2]]
           body(f) == [k \in 0..W |-> IF k = 0 THEN 1 ELSE 2 * f[k - 1]]
<1>1. /\ W \in Nat /\ 1 \in S /\ g \in [(1..W) \X S -> S]
      /\ 0 \in 0..W
      /\ \A k \in 1..W : k \in 0..W /\ k - 1 \in 0..W /\ k # 0
      /\ \A k \in 0..W : k # 0 => k \in 1..W
  BY StorageAssumption, SMT DEF StorageAssumption
<1>2. PICK f : Recurs(f, W, S, 1, g)
  <2> HIDE DEF S, g
  <2>1. PICK f \in [0..W -> S] : Follows(f, W, 1, g)
    BY <1>1, RecursionExists
  <2> QED
    BY <1>1, <2>1 DEF Recurs
<1>3. f = body(f)
  <2>1. \A k \in 1..W : f[k] = 2 * f[k - 1]
    BY <1>1, <1>2 DEF Follows, Recurs
  <2>2. \A k \in 0..W : f[k] = body(f)[k]
    BY <1>1, <1>2, <2>1 DEF Follows, Recurs
  <2> QED
    BY <1>2, <2>2 DEF Recurs
<1>4. Power = CHOOSE h : h = body(h)
  BY DEF Power
<1> DEFINE p == Power
<1>5. p = body(p)
  <2> HIDE DEF body
  <2> QED
    BY <1>3, <1>4
<1> HIDE DEF p
<1>6. p[0] = 1 /\ \A k \in 1..W : p[k] = 2 * p[k - 1]
  BY <1>1, <1>5
<1>7. \A k \in 0..W : p[k] = f[k]
  <2>1. Obeys(p, W, S, 1, g)
    BY <1>6 DEF Obeys
  <2> HIDE DEF S, g, body
  <2> QED
    BY <1>2, <2>1, RecursionIsUnique
<1>8. \A k \in 0..W : f[k] \in S
  <2> HIDE DEF S, g, body
  <2> QED
    BY <1>2 DEF Recurs
<1> QED
  BY <1>6, <1>7, <1>8 DEF p

-----------------------------------------------------------------------------
(* Remainders and powers of two.                                           *)

LEMMA Divided ==
  ASSUME NEW n \in Nat, NEW d \in Nat \ {0}
  PROVE  n \div d \in Nat /\ n % d \in 0..(d - 1) /\ n = d * (n \div d) + (n % d)
<1>1. n \div d \in Int
  BY SMT
<1>2. n % d \in 0..(d - 1)
  BY SMT
<1>3. n = d * (n \div d) + (n % d)
  BY SMT
<1>4. n \div d >= 0
  BY SMT
<1> QED
  BY <1>1, <1>2, <1>3, <1>4, SMT

LEMMA Multiples ==
  ASSUME NEW d \in Nat, NEW a \in Int, NEW b \in Int, a <= b
  PROVE  d * a \in Int /\ d * a <= d * b
BY SMT

\* Nothing else is the quotient and the remainder.
LEMMA OneRemainder ==
  ASSUME NEW d \in Nat \ {0}, NEW q \in Nat, NEW r \in 0..(d - 1)
  PROVE  (d * q + r) \div d = q /\ (d * q + r) % d = r
<1> DEFINE n == d * q + r
           p == n \div d
           s == n % d
<1>1. n \in Nat
  BY SMT
<1>2. p \in Nat /\ s \in 0..(d - 1) /\ n = d * p + s
  BY <1>1, Divided
<1>3. d * p \in Int /\ d * q \in Int /\ d * q + r = d * p + s
  BY <1>2, SMT
<1> HIDE DEF n, p, s
<1>4. ~(p + 1 <= q)
  <2>1. SUFFICES ASSUME p + 1 <= q PROVE FALSE
    OBVIOUS
  <2>2. d * (p + 1) <= d * q
    BY <1>2, <2>1, Multiples, SMT
  <2>3. d * (p + 1) = d * p + d
    BY <1>2, SMT
  <2> QED
    BY <1>2, <1>3, <2>2, <2>3, SMT
<1>5. ~(q + 1 <= p)
  <2>1. SUFFICES ASSUME q + 1 <= p PROVE FALSE
    OBVIOUS
  <2>2. d * (q + 1) <= d * p
    BY <1>2, <2>1, Multiples, SMT
  <2>3. d * (q + 1) = d * q + d
    BY <1>2, SMT
  <2> QED
    BY <1>2, <1>3, <2>2, <2>3, SMT
<1>6. p = q
  BY <1>2, <1>4, <1>5, SMT
<1>7. s = r
  BY <1>2, <1>3, <1>6, SMT
<1> QED
  BY <1>6, <1>7 DEF n, p, s

\* The next bit of a number is worth the next power of two.
LEMMA TwiceRemainder ==
  ASSUME NEW n \in Nat, NEW d \in Nat \ {0}
  PROVE  n % (2 * d) = (n % d) + (IF (n \div d) % 2 = 1 THEN d ELSE 0)
<1> DEFINE q == n \div d
           r == n % d
           h == q \div 2
           b == q % 2
           s == r + (IF b = 1 THEN d ELSE 0)
<1>1. q \in Nat /\ r \in 0..(d - 1) /\ n = d * q + r
  BY Divided
<1>2. h \in Nat /\ b \in 0..1 /\ q = 2 * h + b
  BY <1>1, SMT
<1> HIDE DEF q, r, h, b
<1>3. n = (2 * d) * h + s
  <2>1. d * q = d * (2 * h + b)
    BY <1>2
  <2>2. d * (2 * h + b) = (2 * d) * h + d * b
    BY <1>2, SMT
  <2>3. d * b = IF b = 1 THEN d ELSE 0
    BY <1>2, SMT
  <2> QED
    BY <1>1, <1>2, <2>1, <2>2, <2>3, SMT
<1>4. s \in 0..(2 * d - 1) /\ 2 * d \in Nat \ {0}
  BY <1>1, <1>2, SMT
<1> HIDE DEF s
<1>5. ((2 * d) * h + s) % (2 * d) = s
  BY <1>2, <1>4, OneRemainder
<1>6. n % (2 * d) = s
  BY <1>3, <1>5
<1> QED
  BY <1>6 DEF q, r, b, s

-----------------------------------------------------------------------------
(* What a byte is worth, and the parity of a sequence of bytes.            *)

LEMMA WorthIs ==
  ASSUME NEW b
  PROVE  /\ \A k \in 0..W : Worth(b)[k] \in Nat
         /\ Worth(b)[0] = 0
         /\ \A k \in 1..W :
              Worth(b)[k] = Worth(b)[k - 1] + (IF k - 1 \in b THEN Power[k - 1] ELSE 0)
<1> DEFINE bonus(k) == IF k - 1 \in b THEN Power[k - 1] ELSE 0
           g == [v \in (1..W) \X Nat |-> v[2] + bonus(v[1])]
           body(f) == [k \in 0..W |-> IF k = 0 THEN 0 ELSE f[k - 1] + bonus(k)]
<1>1. /\ W \in Nat /\ 0 \in 0..W
      /\ \A k \in 1..W : k \in 0..W /\ k - 1 \in 0..W /\ k # 0
      /\ \A k \in 0..W : k # 0 => k \in 1..W
  BY StorageAssumption, SMT DEF StorageAssumption
<1>2. \A k \in 1..W : bonus(k) \in Nat
  BY <1>1, PowerIs
<1> HIDE DEF bonus
<1>3. g \in [(1..W) \X Nat -> Nat]
  BY <1>2, SMT
<1>4. \A k \in 1..W, v \in Nat : g[<<k, v>>] = v + bonus(k)
  OBVIOUS
<1>5. PICK f : Recurs(f, W, Nat, 0, g)
  <2> HIDE DEF g
  <2>1. PICK f \in [0..W -> Nat] : Follows(f, W, 0, g)
    BY <1>1, <1>3, RecursionExists
  <2> QED
    BY <1>1, <1>3, <2>1 DEF Recurs
<1>6. f = body(f)
  <2> HIDE DEF g
  <2>1. \A k \in 1..W : f[k] = f[k - 1] + bonus(k)
    BY <1>1, <1>4, <1>5 DEF Follows, Recurs
  <2>2. \A k \in 0..W : f[k] = body(f)[k]
    BY <1>1, <1>5, <2>1 DEF Follows, Recurs
  <2> QED
    BY <1>5, <2>2 DEF Recurs
<1>7. Worth(b) = CHOOSE h : h = body(h)
  BY DEF Worth, bonus
<1> DEFINE p == Worth(b)
<1>8. p = body(p)
  <2> HIDE DEF body
  <2> QED
    BY <1>6, <1>7
<1> HIDE DEF p
<1>9. p[0] = 0 /\ \A k \in 1..W : p[k] = p[k - 1] + bonus(k)
  BY <1>1, <1>8
<1> HIDE DEF g, body
<1>10. \A k \in 0..W : p[k] = f[k]
  <2>1. Obeys(p, W, Nat, 0, g)
    BY <1>4, <1>9 DEF Obeys
  <2> QED
    BY <1>5, <2>1, RecursionIsUnique
<1>11. \A k \in 0..W : f[k] \in Nat
  BY <1>5 DEF Recurs
<1> QED
  BY <1>9, <1>10, <1>11 DEF p, bonus

LEMMA XorIsByte == \A a \in Byte, b \in Byte : Xor(a, b) \in Byte
BY DEF Byte, Xor

LEMMA ParitiesAre ==
  ASSUME NEW s \in Seq(Byte)
  PROVE  /\ \A k \in 0..Len(s) : Parities(s)[k] \in Byte
         /\ Parities(s)[0] = {}
         /\ \A k \in 1..Len(s) : Parities(s)[k] = Xor(Parities(s)[k - 1], s[k])
<1> DEFINE n == Len(s)
           g == [v \in (1..n) \X Byte |-> Xor(v[2], s[v[1]])]
           body(f) == [k \in 0..n |-> IF k = 0 THEN {} ELSE Xor(f[k - 1], s[k])]
<1>1. n \in Nat
  BY LenProperties
<1>2. \A k \in 1..n : s[k] \in Byte
  BY ElementOfSeq
<1>3. Parities(s) = CHOOSE h : h = body(h)
  BY DEF Parities
<1> DEFINE p == Parities(s)
<1> HIDE DEF n
<1>4. /\ 0 \in 0..n
      /\ \A k \in 1..n : k \in 0..n /\ k - 1 \in 0..n /\ k # 0
      /\ \A k \in 0..n : k # 0 => k \in 1..n
  BY <1>1, SMT
<1>5. g \in [(1..n) \X Byte -> Byte]
  BY <1>2, XorIsByte
<1>6. \A k \in 1..n, v \in Byte : g[<<k, v>>] = Xor(v, s[k])
  OBVIOUS
<1>7. PICK f : Recurs(f, n, Byte, {}, g)
  <2> HIDE DEF g
  <2>1. PICK f \in [0..n -> Byte] : Follows(f, n, {}, g)
    BY <1>1, <1>5, BitZero, RecursionExists
  <2> QED
    BY <1>1, <1>5, BitZero, <2>1 DEF Recurs
<1>8. f = body(f)
  <2> HIDE DEF g
  <2>1. \A k \in 1..n : f[k] = Xor(f[k - 1], s[k])
    BY <1>4, <1>6, <1>7 DEF Follows, Recurs
  <2>2. \A k \in 0..n : f[k] = body(f)[k]
    BY <1>4, <1>7, <2>1 DEF Follows, Recurs
  <2> QED
    BY <1>7, <2>2 DEF Recurs
<1>9. p = body(p)
  <2> HIDE DEF body
  <2> QED
    BY <1>3, <1>8
<1> HIDE DEF p
<1>10. p[0] = {} /\ \A k \in 1..n : p[k] = Xor(p[k - 1], s[k])
  BY <1>4, <1>9
<1> HIDE DEF g, body
<1>11. \A k \in 0..n : p[k] = f[k]
  <2>1. Obeys(p, n, Byte, {}, g)
    BY <1>6, <1>10 DEF Obeys
  <2> QED
    BY <1>7, <2>1, RecursionIsUnique
<1>12. \A k \in 0..n : f[k] \in Byte
  BY <1>7 DEF Recurs
<1> QED
  BY <1>10, <1>11, <1>12 DEF p, n

\* The lowest bits of a number are its remainder by a power of two.
LEMMA LowBits ==
  ASSUME NEW n \in Nat
  PROVE  \A k \in 0..W : Worth(ByteOf(n))[k] = n % Power[k]
<1> DEFINE b == ByteOf(n)
           T == {k \in 0..W : Worth(b)[k] # n % Power[k]}
<1> SUFFICES ASSUME T # {} PROVE FALSE
  OBVIOUS
<1>1. PICK m \in T : \A y \in T : m <= y
  <2>1. T \subseteq Nat
    BY SMT
  <2> HIDE DEF T
  <2> QED
    BY <2>1, LeastNumber
<1>2. m \in 0..W /\ Worth(b)[m] # n % Power[m]
  OBVIOUS
<1>3. m # 0
  <2>1. Worth(b)[0] = 0 /\ Power[0] = 1
    BY WorthIs, PowerIs
  <2>2. n % 1 = 0
    BY SMT
  <2> QED
    BY <1>2, <2>1, <2>2
<1>4. W \in Nat /\ m \in 1..W /\ m - 1 \in 0..W /\ m - 1 \in BitsOfByte /\ ~(m <= m - 1)
  BY <1>2, <1>3, StorageAssumption, SMT DEF StorageAssumption, BitsOfByte
<1>5. Worth(b)[m - 1] = n % Power[m - 1]
  BY <1>1, <1>4
<1> DEFINE d == Power[m - 1]
<1>6. d \in Nat \ {0} /\ Power[m] = 2 * d
  BY <1>4, PowerIs
<1>7. m - 1 \in b <=> (n \div d) % 2 = 1
  BY <1>4 DEF ByteOf
<1>8. Worth(b)[m] = Worth(b)[m - 1] + (IF m - 1 \in b THEN d ELSE 0)
  BY <1>4, WorthIs
<1> HIDE DEF d, b, T
<1>9. n % (2 * d) = (n % d) + (IF (n \div d) % 2 = 1 THEN d ELSE 0)
  BY <1>6, TwiceRemainder
<1>10. Worth(b)[m - 1] = n % d
  BY <1>5 DEF d
<1> QED
  BY <1>2, <1>6, <1>7, <1>8, <1>9, <1>10

-----------------------------------------------------------------------------
(* What is on the tape.                                                    *)

LEMMA ValuesIs ==
  Values \in Nat \ {0} /\ Values * Values \in Nat \ {0}
<1>1. W \in 0..W
  BY StorageAssumption, SMT DEF StorageAssumption
<1>2. Values \in Nat \ {0}
  BY <1>1, PowerIs DEF Values
<1> QED
  BY <1>2, SMT

LEMMA ValuesIsFour == Values * Values >= 4
<1>1. W \in 1..W /\ W - 1 \in 0..W
  BY StorageAssumption, SMT DEF StorageAssumption
<1> DEFINE d == Power[W - 1]
           V == Values
<1>2. d \in Nat \ {0} /\ V = 2 * d
  BY <1>1, PowerIs DEF Values
<1> HIDE DEF d, V
<1>3. V >= 2 /\ V \in Nat
  BY <1>2, SMT
<1>4. 2 * V <= V * V
  BY <1>3, Multiples, SMT
<1> QED
  BY <1>3, <1>4, SMT DEF V

LEMMA NumberOfByte == \A n \in Nat : Num(ByteOf(n)) = n % Values
<1>1. W \in 0..W
  BY StorageAssumption, SMT DEF StorageAssumption
<1> QED
  BY <1>1, LowBits DEF Num, Values

LEMMA NumIsNat == \A b : Num(b) \in Nat
<1>1. W \in 0..W
  BY StorageAssumption, SMT DEF StorageAssumption
<1> QED
  BY <1>1, WorthIs DEF Num

LEMMA SmallRemainder ==
  ASSUME NEW d \in Nat \ {0}, NEW n \in 0..(d - 1)
  PROVE  n % d = n
<1>1. (d * 0 + n) % d = n
  BY OneRemainder, Zenon
<1>2. d * 0 + n = n
  BY SMT
<1> QED
  BY <1>1, <1>2

\* The two bytes of a length are enough for every length there is.
LEMMA LengthInHeader ==
  ASSUME NEW n \in 0..(Values * Values - 1)
  PROVE  Wrapped(Num(ByteOf(n \div Values)) * Values + Num(ByteOf(n))) = n
<1> DEFINE V == Values
           q == n \div V
           r == n % V
<1>1. V \in Nat \ {0} /\ V * V \in Nat \ {0}
  BY ValuesIs
<1>2. n \in Nat
  BY SMT
<1> HIDE DEF V
<1>3. q \in Nat /\ r \in 0..(V - 1) /\ n = V * q + r
  BY <1>1, <1>2, Divided
<1> HIDE DEF q, r
<1>4. q \in 0..(V - 1)
  <2>1. SUFFICES ASSUME V <= q PROVE FALSE
    BY <1>1, <1>3, SMT
  <2>2. V * V <= V * q
    BY <1>1, <1>3, <2>1, Multiples, SMT
  <2>3. n < V * V
    BY <1>1 DEF V
  <2>4. V * q \in Int
    BY <1>1, <1>3, SMT
  <2> QED
    BY <1>1, <1>2, <1>3, <2>2, <2>3, <2>4, SMT
<1>5. Num(ByteOf(q)) = q
  <2>1. q % V = q
    BY <1>1, <1>4, SmallRemainder
  <2> QED
    BY <1>3, <2>1, NumberOfByte DEF V
<1>6. Num(ByteOf(n)) = r
  BY <1>2, NumberOfByte DEF V, r
<1>7. q * V + r = n
  BY <1>1, <1>3, SMT
<1>8. n % (V * V) = n
  <2>1. n \in 0..(V * V - 1)
    BY DEF V
  <2> QED
    BY <1>1, <2>1, SmallRemainder
<1> QED
  BY <1>5, <1>6, <1>7, <1>8 DEF Wrapped, V, q

\* The bytes of a block, in the order in which they are on the tape.
LEMMA BlockIs ==
  ASSUME NEW p \in Payloads
  PROVE  /\ Len(p) \in Nat /\ Len(p) <= Values * Values - 1
         /\ p \in Seq(Byte)
         /\ BlockOf(p) \in Seq(Byte) /\ Len(BlockOf(p)) = Len(p) + 5
         /\ BlockOf(p)[1] = Magic
         /\ BlockOf(p)[2] = ByteOf(Len(p) \div Values)
         /\ BlockOf(p)[3] = ByteOf(Len(p))
         /\ BlockOf(p)[4] = Xor(BlockOf(p)[2], BlockOf(p)[3])
         /\ \A j \in 1..Len(p) : BlockOf(p)[4 + j] = p[j]
         /\ BlockOf(p)[5 + Len(p)] = ParityOf(p)
<1> DEFINE n == Len(p)
           h == HeaderOf(n)
           t == <<ParityOf(p)>>
           hp == h \o p
<1>1. PICK l \in MinLen..MaxLen : p \in [1..l -> Byte]
  BY DEF Payloads
<1>2. l \in Nat /\ l <= Values * Values - 1
  BY ValuesIs, AudioInAssumption, SMT DEF AudioInAssumption
<1>3. p \in Seq(Byte) /\ n = l
  BY <1>1, <1>2, SMT
<1>4. /\ Magic \in Byte /\ ByteOf(n \div Values) \in Byte /\ ByteOf(n) \in Byte
  BY DEF Magic, Byte, ByteOf
<1>5. ParityOf(p) \in Byte
  <2>1. n \in 0..n
    BY <1>2, <1>3, SMT
  <2> QED
    BY <1>3, <2>1, ParitiesAre DEF ParityOf
<1>6. /\ h \in Seq(Byte) /\ Len(h) = 4
      /\ h[1] = Magic /\ h[2] = ByteOf(n \div Values) /\ h[3] = ByteOf(n) /\ h[4] = Xor(h[2], h[3])
  <2> DEFINE b == ByteOf(n \div Values)
             c == ByteOf(n)
             x == Xor(b, c)
  <2>1. x \in Byte
    BY <1>4, XorIsByte
  <2>2. h = <<Magic, b, c, x>>
    BY DEF HeaderOf
  <2> HIDE DEF h, n, b, c, x
  <2>3. h \in Seq(Byte) /\ Len(h) = 4 /\ h[1] = Magic /\ h[2] = b /\ h[3] = c /\ h[4] = x
    BY <1>4, <2>1, <2>2, SMT DEF b, c
  <2> QED
    BY <2>3 DEF b, c, x
<1>7. t \in Seq(Byte) /\ Len(t) = 1 /\ t[1] = ParityOf(p)
  BY <1>5, SMT
<1> HIDE DEF h, t, n
<1>8. /\ hp \in Seq(Byte) /\ Len(hp) = 4 + n
      /\ \A i \in 1..(4 + n) : hp[i] = IF i <= 4 THEN h[i] ELSE p[i - 4]
  <2>1. /\ hp \in Seq(Byte) /\ Len(hp) = Len(h) + Len(p)
        /\ \A i \in 1..(Len(h) + Len(p)) : hp[i] = IF i <= Len(h) THEN h[i] ELSE p[i - Len(h)]
    BY <1>3, <1>6, ConcatProperties
  <2> QED
    BY <1>6, <2>1 DEF n
<1> HIDE DEF hp
<1>9. /\ hp \o t \in Seq(Byte) /\ Len(hp \o t) = (4 + n) + 1
      /\ \A i \in 1..((4 + n) + 1) : (hp \o t)[i] = IF i <= 4 + n THEN hp[i] ELSE t[i - (4 + n)]
  <2>1. /\ hp \o t \in Seq(Byte) /\ Len(hp \o t) = Len(hp) + Len(t)
        /\ \A i \in 1..(Len(hp) + Len(t)) : (hp \o t)[i] = IF i <= Len(hp) THEN hp[i] ELSE t[i - Len(hp)]
    BY <1>7, <1>8, ConcatProperties
  <2> QED
    BY <1>7, <1>8, <2>1
<1>10. BlockOf(p) = hp \o t
  BY DEF BlockOf, hp, h, t, n
<1> DEFINE B == BlockOf(p)
<1>11. B \in Seq(Byte) /\ Len(B) = n + 5
  BY <1>2, <1>3, <1>9, <1>10, SMT
<1>12. \A i \in 1..(n + 5) : B[i] = IF i <= 4 THEN h[i] ELSE IF i <= 4 + n THEN p[i - 4] ELSE t[i - (4 + n)]
  <2>1. \A i \in 1..(n + 5) : i \in 1..((4 + n) + 1) /\ (i <= 4 => i <= 4 + n) /\ (i <= 4 + n => i \in 1..(4 + n))
    BY <1>2, <1>3, SMT
  <2> QED
    BY <1>8, <1>9, <1>10, <2>1
<1> HIDE DEF B
<1>13. B[1] = h[1] /\ B[2] = h[2] /\ B[3] = h[3] /\ B[4] = h[4]
  BY <1>2, <1>3, <1>12, SMT
<1>14. \A j \in 1..n : B[4 + j] = p[j]
  <2>1. \A j \in 1..n : 4 + j \in 1..(n + 5) /\ ~(4 + j <= 4) /\ 4 + j <= 4 + n /\ (4 + j) - 4 = j
    BY <1>2, <1>3, SMT
  <2> QED
    BY <1>12, <2>1
<1>15. B[5 + n] = t[1]
  <2>1. 5 + n \in 1..(n + 5) /\ ~(5 + n <= 4) /\ ~(5 + n <= 4 + n) /\ (5 + n) - (4 + n) = 1
    BY <1>2, <1>3, SMT
  <2> QED
    BY <1>12, <2>1
<1> QED
  BY <1>2, <1>3, <1>6, <1>7, <1>11, <1>13, <1>14, <1>15 DEF B, n

-----------------------------------------------------------------------------
(* The decoder, byte by byte.                                              *)

DecoderAt(c, l, x, k) == [control |-> c, length |-> l, parity |-> x, count |-> k]

LEMMA LengthChanged ==
  ASSUME NEW d, NEW c, NEW l, NEW x, NEW k, NEW y, d = DecoderAt(c, l, x, k)
  PROVE  [d EXCEPT !.length = y] = DecoderAt(c, y, x, k)
BY DEF DecoderAt

LEMMA ParityChanged ==
  ASSUME NEW d, NEW c, NEW l, NEW x, NEW k, NEW y, d = DecoderAt(c, l, x, k)
  PROVE  [d EXCEPT !.parity = y] = DecoderAt(c, l, y, k)
BY DEF DecoderAt

LEMMA CountChanged ==
  ASSUME NEW d, NEW c, NEW l, NEW x, NEW k, NEW y, d = DecoderAt(c, l, x, k)
  PROVE  [d EXCEPT !.count = y] = DecoderAt(c, l, x, y)
BY DEF DecoderAt

LEMMA DecodeCases ==
  ASSUME NEW d, NEW b
  PROVE  /\ d.control = 1 => Decode(d, b) = DecodeMagic(d, b)
         /\ d.control = 2 => Decode(d, b) = DecodeLen0(d, b)
         /\ d.control = 3 => Decode(d, b) = DecodeLen1(d, b)
         /\ d.control = 4 => Decode(d, b) = DecodePar0(d, b)
         /\ d.control = 5 => Decode(d, b) = DecodeData(d, b)
         /\ d.control = 6 => Decode(d, b) = DecodePar1(d, b)
BY DEF Decode, C_MAGIC, C_LEN0, C_LEN1, C_PAR0, C_DATA, C_PAR1, C_END

LEMMA Decodes ==
  ASSUME NEW l, NEW x, NEW k, NEW b
  PROVE  /\ Decode(DecoderAt(1, l, x, k), b) =
              IF b = Magic THEN DecoderAt(2, l, x, k) ELSE DecoderAt(-1, l, x, k)
         /\ Decode(DecoderAt(2, l, x, k), b) = DecoderAt(3, Num(b), Xor(x, b), k)
         /\ Decode(DecoderAt(3, l, x, k), b) =
              DecoderAt(4, Wrapped(l * Values + Num(b)), Xor(x, b), k)
         /\ Decode(DecoderAt(4, l, x, k), b) =
              IF b = x THEN DecoderAt(5, l, {}, k) ELSE DecoderAt(-4, l, x, k)
         /\ Decode(DecoderAt(5, l, x, k), b) =
              DecoderAt(IF Wrapped(k + 1) = l THEN 6 ELSE 5, l, Xor(x, b), Wrapped(k + 1))
         /\ Decode(DecoderAt(6, l, x, k), b) =
              IF b = x THEN DecoderAt(7, l, x, k) ELSE DecoderAt(-6, l, x, k)
<1>1. \A c : /\ DecoderAt(c, l, x, k).control = c /\ DecoderAt(c, l, x, k).length = l
             /\ DecoderAt(c, l, x, k).parity = x /\ DecoderAt(c, l, x, k).count = k
  BY DEF DecoderAt
<1>2. ASSUME NEW c \in Int
      PROVE  /\ Fail(DecoderAt(c, l, x, k)) = DecoderAt(-c, l, x, k)
             /\ Advance(DecoderAt(c, l, x, k)) = DecoderAt(c + 1, l, x, k)
  BY DEF Fail, Advance, DecoderAt
<1>3. /\ Fail(DecoderAt(1, l, x, k)) = DecoderAt(-1, l, x, k)
      /\ Fail(DecoderAt(4, l, x, k)) = DecoderAt(-4, l, x, k)
      /\ Fail(DecoderAt(6, l, x, k)) = DecoderAt(-6, l, x, k)
      /\ Advance(DecoderAt(1, l, x, k)) = DecoderAt(2, l, x, k)
      /\ Advance(DecoderAt(2, l, x, k)) = DecoderAt(3, l, x, k)
      /\ Advance(DecoderAt(3, l, x, k)) = DecoderAt(4, l, x, k)
      /\ Advance(DecoderAt(4, l, x, k)) = DecoderAt(5, l, x, k)
      /\ Advance(DecoderAt(6, l, x, k)) = DecoderAt(7, l, x, k)
  BY <1>2, SMT
<1>4. Decode(DecoderAt(1, l, x, k), b) =
        IF b = Magic THEN DecoderAt(2, l, x, k) ELSE DecoderAt(-1, l, x, k)
  BY <1>1, <1>3, DecodeCases DEF DecodeMagic
<1>5. Decode(DecoderAt(2, l, x, k), b) = DecoderAt(3, Num(b), Xor(x, b), k)
  <2> DEFINE d == DecoderAt(2, l, x, k)
             e == DecoderAt(3, l, x, k)
  <2>1. DecodeLen0(d, b) = [[e EXCEPT !.length = Num(b)] EXCEPT !.parity = Xor(@, b)]
    BY <1>3 DEF DecodeLen0
  <2>2. [e EXCEPT !.length = Num(b)] = DecoderAt(3, Num(b), x, k)
    BY LengthChanged
  <2>3. [DecoderAt(3, Num(b), x, k) EXCEPT !.parity = Xor(x, b)] = DecoderAt(3, Num(b), Xor(x, b), k)
    BY ParityChanged
  <2>4. e.parity = x
    BY <1>1
  <2>5. DecodeLen0(d, b) = DecoderAt(3, Num(b), Xor(x, b), k)
    BY <2>1, <2>2, <2>3, <2>4
  <2> QED
    BY <1>1, <2>5, DecodeCases
<1>6. Decode(DecoderAt(3, l, x, k), b) = DecoderAt(4, Wrapped(l * Values + Num(b)), Xor(x, b), k)
  <2> DEFINE d == DecoderAt(3, l, x, k)
             e == DecoderAt(4, l, x, k)
             m == Wrapped(l * Values + Num(b))
  <2>1. e.length = l /\ e.parity = x
    BY <1>1
  <2>2. DecodeLen1(d, b) = [[e EXCEPT !.length = m] EXCEPT !.parity = Xor(@, b)]
    BY <1>3, <2>1 DEF DecodeLen1
  <2> HIDE DEF m
  <2>3. [e EXCEPT !.length = m] = DecoderAt(4, m, x, k)
    BY LengthChanged
  <2>4. [DecoderAt(4, m, x, k) EXCEPT !.parity = Xor(x, b)] = DecoderAt(4, m, Xor(x, b), k)
    BY ParityChanged
  <2>5. DecodeLen1(d, b) = DecoderAt(4, m, Xor(x, b), k)
    BY <2>1, <2>2, <2>3, <2>4
  <2> QED
    BY <1>1, <2>5, DecodeCases DEF m
<1>7. Decode(DecoderAt(4, l, x, k), b) =
        IF b = x THEN DecoderAt(5, l, {}, k) ELSE DecoderAt(-4, l, x, k)
  <2> DEFINE d == DecoderAt(4, l, x, k)
  <2>1. [DecoderAt(5, l, x, k) EXCEPT !.parity = {}] = DecoderAt(5, l, {}, k)
    BY ParityChanged
  <2>2. DecodePar0(d, b) = IF b = x THEN DecoderAt(5, l, {}, k) ELSE DecoderAt(-4, l, x, k)
    BY <1>1, <1>3, <2>1 DEF DecodePar0
  <2> QED
    BY <1>1, <2>2, DecodeCases
<1>8. Decode(DecoderAt(5, l, x, k), b) =
        DecoderAt(IF Wrapped(k + 1) = l THEN 6 ELSE 5, l, Xor(x, b), Wrapped(k + 1))
  <2> DEFINE d == DecoderAt(5, l, x, k)
             e == DecoderAt(5, l, Xor(x, b), Wrapped(k + 1))
  <2>1. Decode(d, b) = DecodeData(d, b)
    BY <1>1, DecodeCases
  <2>2. [d EXCEPT !.count = Wrapped(@ + 1), !.parity = Xor(@, b)] = e
    <3> DEFINE m == Wrapped(k + 1)
    <3>1. d.count = k /\ d.parity = x
      BY <1>1
    <3>2. [d EXCEPT !.count = Wrapped(@ + 1), !.parity = Xor(@, b)]
            = [[d EXCEPT !.count = m] EXCEPT !.parity = Xor(@, b)]
      BY <3>1
    <3> HIDE DEF m
    <3>3. [d EXCEPT !.count = m] = DecoderAt(5, l, x, m)
      BY CountChanged
    <3>4. [DecoderAt(5, l, x, m) EXCEPT !.parity = Xor(x, b)] = DecoderAt(5, l, Xor(x, b), m)
      BY ParityChanged
    <3> QED
      BY <3>1, <3>2, <3>3, <3>4 DEF m
  <2>3. DecodeData(d, b) = IF e.count = e.length THEN Advance(e) ELSE e
    BY <2>2 DEF DecodeData
  <2>4. e.count = Wrapped(k + 1) /\ e.length = l
        /\ Advance(e) = DecoderAt(6, l, Xor(x, b), Wrapped(k + 1))
    BY DEF Advance, DecoderAt
  <2> QED
    BY <2>1, <2>3, <2>4
<1>9. Decode(DecoderAt(6, l, x, k), b) =
        IF b = x THEN DecoderAt(7, l, x, k) ELSE DecoderAt(-6, l, x, k)
  BY <1>1, <1>3, DecodeCases DEF DecodePar1
<1> QED
  BY <1>4, <1>5, <1>6, <1>7, <1>8, <1>9

\* The decoder goes on, stays, fails or ends.
IsDecoder(d) == \E c, l, x, k : d = DecoderAt(c, l, x, k)

LEMMA DecodeStays ==
  ASSUME NEW d, NEW b, IsDecoder(d), d.control \in 1..6
  PROVE  /\ IsDecoder(Decode(d, b))
         /\ ~LoadOver(Decode(d, b)) => Decode(d, b).control \in 1..6
<1> DEFINE e == Decode(d, b)
<1>1. PICK c, l, x, k : d = DecoderAt(c, l, x, k)
  BY DEF IsDecoder
<1>2. \A c2, l2, x2, k2 : DecoderAt(c2, l2, x2, k2).control = c2
  BY DEF DecoderAt
<1>3. c \in 1..6
  BY <1>1, <1>2
<1>4. PICK c2, l2, x2, k2 :
         c2 \in Int /\ e = DecoderAt(c2, l2, x2, k2) /\ (c2 < 0 \/ c2 \in 1..7)
  <2>1. CASE c = 1
    BY <1>1, <2>1, Decodes
  <2>2. CASE c = 2
    BY <1>1, <2>2, Decodes
  <2>3. CASE c = 3
    BY <1>1, <2>3, Decodes
  <2>4. CASE c = 4
    BY <1>1, <2>4, Decodes
  <2>5. CASE c = 5
    BY <1>1, <2>5, Decodes
  <2>6. CASE c = 6
    BY <1>1, <2>6, Decodes
  <2> QED
    BY <1>3, <2>1, <2>2, <2>3, <2>4, <2>5, <2>6
<1>5. e.control = c2
  BY <1>2, <1>4
<1> HIDE DEF e
<1>6. ~LoadOver(e) => e.control \in 1..6
  BY <1>4, <1>5 DEF LoadOver, C_END
<1> QED
  BY <1>4, <1>6 DEF IsDecoder, e

\* What the interrupt hears where bit wrong of byte at was misread; at is zero
\* if none was.
Heard(p, at, wrong, i) ==
  IF i = at THEN Xor(BlockOf(p)[i], {wrong}) ELSE BlockOf(p)[i]

\* A single wrong bit shows in a parity.
LEMMA OneBitShows == \A a, w : Xor(a, {w}) # a
<1> SUFFICES ASSUME NEW a, NEW w PROVE Xor(a, {w}) # a
  OBVIOUS
<1>1. w \in Xor(a, {w}) <=> w \notin a
  BY DEF Xor
<1> QED
  BY <1>1

LEMMA XorNothing == \A a : Xor({}, a) = a /\ Xor(a, {}) = a
BY DEF Xor

\* After the header of a block of no bytes all that comes is data.
Endless(p, g, d, w) ==
  /\ Len(p) = 0 /\ g >= 4 /\ Len(w) = g - 4
  /\ \E x : d = DecoderAt(5, 0, x, g - 4)

\* The state d of the decoder and the bytes w written after g bytes.
Progress(p, at, wrong, g, d, w) ==
  LET n == Len(p)
      H(i) == Heard(p, at, wrong, i)
      r == IF at \in 5..g THEN {wrong} ELSE {}
  IN  \/ g = 0 /\ d = DecoderAt(1, 0, {}, 0) /\ w = <<>>
      \/ g = 1 /\ at # 1 /\ d = DecoderAt(2, 0, {}, 0) /\ w = <<>>
      \/ g = 2 /\ at # 1 /\ d = DecoderAt(3, Num(H(2)), H(2), 0) /\ w = <<>>
      \/ /\ g = 3 /\ at # 1 /\ w = <<>>
         /\ d = DecoderAt(4, Wrapped(Num(H(2)) * Values + Num(H(3))), Xor(H(2), H(3)), 0)
      \/ /\ n # 0 /\ g \in 4..(4 + n) /\ at \notin 1..4
         /\ d = DecoderAt(IF g = 4 + n THEN 6 ELSE 5, n, Xor(Parities(p)[g - 4], r), g - 4)
         /\ Len(w) = g - 4 /\ \A j \in 1..(g - 4) : w[j] = H(4 + j)
      \/ g = 5 + n /\ at = 0 /\ d.control = C_END /\ w = p
      \/ d.control < 0 /\ at # 0 /\ Len(w) <= n
      \/ Endless(p, g, d, w)

LEMMA HeardIs ==
  ASSUME NEW p \in Payloads, NEW at, NEW wrong \in BitsOfByte, NEW i \in 1..(Len(p) + 5)
  PROVE  /\ Heard(p, at, wrong, i) \in Byte
         /\ i = at => Heard(p, at, wrong, i) = Xor(BlockOf(p)[i], {wrong})
         /\ i # at => Heard(p, at, wrong, i) = BlockOf(p)[i]
<1>1. BlockOf(p)[i] \in Byte
  BY BlockIs, ElementOfSeq
<1>2. {wrong} \in Byte
  BY DEF Byte
<1> QED
  BY <1>1, <1>2, XorIsByte DEF Heard

\* However the byte comes out, the decoder still is where it should be.
LEMMA ProgressIsMade ==
  ASSUME NEW p \in Payloads, NEW at \in 0..(Len(p) + 5), NEW wrong \in BitsOfByte,
         NEW g \in Nat, NEW d, NEW w \in Seq(Byte),
         d.control \in 1..6, Progress(p, at, wrong, g, d, w), Len(p) # 0 \/ g < 4
  PROVE  /\ g + 1 <= Len(p) + 5
         /\ Progress(p, at, wrong, g + 1, Decode(d, Heard(p, at, wrong, g + 1)),
                     IF Writes(d) THEN Append(w, Heard(p, at, wrong, g + 1)) ELSE w)
<1> DEFINE n == Len(p)
           B == BlockOf(p)
           H(i) == Heard(p, at, wrong, i)
           b == H(g + 1)
           r == IF at \in 5..g THEN {wrong} ELSE {}
           e == Decode(d, b)
           v == IF Writes(d) THEN Append(w, b) ELSE w
           Par(k) == Parities(p)[k]
<1> SUFFICES g + 1 <= n + 5 /\ Progress(p, at, wrong, g + 1, e, v)
  OBVIOUS
<1>1. n \in Nat /\ (n # 0 \/ g < 4)
  BY BlockIs
<1>2. /\ B[1] = Magic /\ B[4] = Xor(B[2], B[3]) /\ B[5 + n] = ParityOf(p)
      /\ \A j \in 1..n : B[4 + j] = p[j]
      /\ Wrapped(Num(B[2]) * Values + Num(B[3])) = n
  <2>1. n \in 0..(Values * Values - 1)
    BY <1>1, BlockIs, ValuesIs, SMT
  <2> QED
    BY <2>1, BlockIs, LengthInHeader
<1>3. \A i \in 1..(n + 5) : /\ H(i) \in Byte
                            /\ i = at => H(i) = Xor(B[i], {wrong})
                            /\ i # at => H(i) = B[i]
  BY HeardIs
<1>13. /\ H(1) = IF at = 1 THEN Xor(B[1], {wrong}) ELSE B[1]
       /\ H(2) = IF at = 2 THEN Xor(B[2], {wrong}) ELSE B[2]
       /\ H(3) = IF at = 3 THEN Xor(B[3], {wrong}) ELSE B[3]
       /\ H(4) = IF at = 4 THEN Xor(B[4], {wrong}) ELSE B[4]
  BY DEF Heard
<1>4. /\ \A k \in 0..n : Par(k) \in Byte
      /\ Par(0) = {} /\ Par(n) = ParityOf(p)
      /\ \A k \in 1..n : Par(k) = Xor(Par(k - 1), p[k])
  BY BlockIs, ParitiesAre DEF ParityOf
<1>5. Writes(d) <=> d.control = 5
  BY DEF Writes, C_DATA
<1>6. \A c, l, x, k : DecoderAt(c, l, x, k).control = c
  BY DEF DecoderAt
<1> HIDE DEF n, B, H, Par
<1>7. CASE g = 0 /\ d = DecoderAt(1, 0, {}, 0) /\ w = <<>>
  <2>1. /\ b = H(1) /\ 1 \in 1..(n + 5) /\ g + 1 = 1 /\ v = w /\ Len(w) = 0
    BY <1>1, <1>5, <1>6, <1>7
  <2>2. e = IF b = Magic THEN DecoderAt(2, 0, {}, 0) ELSE DecoderAt(-1, 0, {}, 0)
    BY <1>7, Decodes
  <2>3. CASE at = 1
    <3>1. b # Magic
      <4>1. b = Xor(Magic, {wrong})
        BY <1>2, <1>13, <2>1, <2>3
      <4> QED
        BY <4>1, OneBitShows
    <3>2. e.control < 0 /\ at # 0 /\ Len(v) <= n
      BY <1>1, <1>6, <2>1, <2>2, <2>3, <3>1
    <3> QED
      BY <1>1, <2>1, <3>2 DEF Progress, n
  <2>4. CASE at # 1
    <3>1. e = DecoderAt(2, 0, {}, 0)
      BY <1>2, <1>3, <2>1, <2>2, <2>4
    <3> QED
      BY <1>1, <1>7, <2>1, <2>4, <3>1 DEF Progress, n
  <2> QED
    BY <2>3, <2>4
<1>8. CASE g = 1 /\ at # 1 /\ d = DecoderAt(2, 0, {}, 0) /\ w = <<>>
  <2>1. /\ b = H(2) /\ g + 1 = 2 /\ v = w
    BY <1>5, <1>6, <1>8
  <2>2. e = DecoderAt(3, Num(H(2)), H(2), 0)
    <3>1. Decode(DecoderAt(2, 0, {}, 0), H(2)) = DecoderAt(3, Num(H(2)), Xor({}, H(2)), 0)
      BY Decodes
    <3>2. Xor({}, H(2)) = H(2)
      BY XorNothing, Zenon
    <3> QED
      BY <1>8, <2>1, <3>1, <3>2
  <2> QED
    BY <1>1, <1>8, <2>1, <2>2 DEF Progress, n, H
<1>9. CASE g = 2 /\ at # 1 /\ d = DecoderAt(3, Num(H(2)), H(2), 0) /\ w = <<>>
  <2>1. /\ b = H(3) /\ g + 1 = 3 /\ v = w
    BY <1>5, <1>6, <1>9
  <2>2. e = DecoderAt(4, Wrapped(Num(H(2)) * Values + Num(H(3))), Xor(H(2), H(3)), 0)
    BY <1>9, <2>1, Decodes
  <2> QED
    BY <1>1, <1>9, <2>1, <2>2 DEF Progress, n, H
<1>10. CASE /\ g = 3 /\ at # 1 /\ w = <<>>
            /\ d = DecoderAt(4, Wrapped(Num(H(2)) * Values + Num(H(3))), Xor(H(2), H(3)), 0)
  <2> DEFINE l == Wrapped(Num(H(2)) * Values + Num(H(3)))
             x == Xor(H(2), H(3))
  <2>1. /\ b = H(4) /\ g + 1 = 4 /\ v = w /\ Len(w) = 0
    BY <1>5, <1>6, <1>10
  <2>2. e = IF b = x THEN DecoderAt(5, l, {}, 0) ELSE DecoderAt(-4, l, x, 0)
    BY <1>10, Decodes
  <2>3. \A i \in {2, 3, 4} : i \in 1..(n + 5)
    BY <1>1, SMT
  <2>4. CASE at \in {2, 3, 4}
    <3>1. b # x
      <4>1. CASE at = 2
        <5>1. b = Xor(B[2], B[3]) /\ H(2) = Xor(B[2], {wrong}) /\ H(3) = B[3]
          BY <1>2, <1>13, <2>1, <4>1
        <5>2. x = Xor(Xor(B[2], B[3]), {wrong})
          <6>1. Xor(Xor(B[2], {wrong}), B[3]) = Xor(Xor(B[2], B[3]), {wrong})
            BY DEF Xor
          <6> QED
            BY <5>1, <6>1
        <5> QED
          BY <5>1, <5>2, OneBitShows
      <4>2. CASE at = 3
        <5>1. b = Xor(B[2], B[3]) /\ H(2) = B[2] /\ H(3) = Xor(B[3], {wrong})
          BY <1>2, <1>13, <2>1, <4>2
        <5>2. x = Xor(Xor(B[2], B[3]), {wrong})
          <6>1. Xor(B[2], Xor(B[3], {wrong})) = Xor(Xor(B[2], B[3]), {wrong})
            BY DEF Xor
          <6> QED
            BY <5>1, <6>1
        <5> QED
          BY <5>1, <5>2, OneBitShows
      <4>3. CASE at = 4
        <5>1. b = Xor(Xor(B[2], B[3]), {wrong}) /\ H(2) = B[2] /\ H(3) = B[3]
          BY <1>2, <1>13, <2>1, <4>3
        <5> QED
          BY <5>1, OneBitShows
      <4> QED
        BY <2>4, <4>1, <4>2, <4>3
    <3>2. e.control < 0 /\ at # 0 /\ Len(v) <= n
      BY <1>1, <1>6, <2>1, <2>2, <2>4, <3>1
    <3> QED
      BY <1>1, <2>1, <3>2 DEF Progress, n
  <2>5. CASE at \notin {2, 3, 4}
    <3>1. H(2) = B[2] /\ H(3) = B[3] /\ b = Xor(B[2], B[3])
      BY <1>2, <1>3, <2>1, <2>3, <2>5
    <3>2. e = DecoderAt(5, n, {}, 0)
      BY <1>2, <2>2, <3>1
    <3>7. CASE n = 0
      <4>1. e = DecoderAt(5, 0, {}, 4 - 4) /\ Len(v) = 4 - 4 /\ 4 >= 4 /\ g + 1 <= n + 5
        <5>1. 4 - 4 = 0 /\ 4 >= 4 /\ 4 <= n + 5
          BY <1>1, SMT
        <5> QED
          BY <2>1, <3>2, <3>7, <5>1
      <4> HIDE DEF e, v
      <4>2. Endless(p, g + 1, e, v)
        BY <2>1, <3>7, <4>1 DEF Endless, n
      <4> QED
        BY <4>1, <4>2 DEF Progress, n
    <3>8. SUFFICES ASSUME n # 0 PROVE g + 1 <= n + 5 /\ Progress(p, at, wrong, g + 1, e, v)
      BY <3>7
    <3>3. at \notin 1..4 /\ 4 \in 4..(4 + n) /\ 4 # 4 + n /\ 4 - 4 = 0
          /\ 5..4 = {} /\ 1..0 = {} /\ g + 1 <= n + 5
      BY <1>1, <1>10, <2>5, <3>8, SMT
    <3>4. Xor(Par(0), {}) = {}
      BY <1>4, XorNothing
    <3>5. Parities(p)[0] = {} /\ Xor({}, {}) = {}
      BY <1>4, <3>4 DEF Par
    <3> HIDE DEF e, v
    <3>6. /\ g + 1 \in 4..(4 + n) /\ at \notin 1..4
          /\ e = DecoderAt(IF g + 1 = 4 + n THEN 6 ELSE 5, n,
                           Xor(Parities(p)[(g + 1) - 4], IF at \in 5..(g + 1) THEN {wrong} ELSE {}),
                           (g + 1) - 4)
          /\ Len(v) = (g + 1) - 4 /\ \A j \in 1..((g + 1) - 4) : v[j] = H(4 + j)
      BY <2>1, <3>2, <3>3, <3>5
    <3> QED
      BY <3>3, <3>6, <3>8 DEF Progress, n, H
  <2> QED
    BY <2>4, <2>5
<1>11. CASE /\ n # 0 /\ g \in 4..(4 + n) /\ at \notin 1..4
            /\ d = DecoderAt(IF g = 4 + n THEN 6 ELSE 5, n, Xor(Par(g - 4), r), g - 4)
            /\ Len(w) = g - 4 /\ \A j \in 1..(g - 4) : w[j] = H(4 + j)
  <2> DEFINE k == g - 4
             x == Xor(Par(k), r)
  <2>1. CASE g = 4 + n
    <3>1. k = n /\ g + 1 = 5 + n /\ g + 1 <= n + 5 /\ 5 + n \in 1..(n + 5) /\ v = w
      BY <1>1, <1>5, <1>6, <1>11, <2>1
    <3>2. e = IF b = x THEN DecoderAt(7, n, x, n) ELSE DecoderAt(-6, n, x, n)
      <4>1. d = DecoderAt(6, n, x, n)
        BY <1>11, <2>1, <3>1
      <4> HIDE DEF x, b
      <4> QED
        BY <4>1, Decodes
    <3>3. CASE at # 0
      <4>1. at \in 5..g \/ at = 5 + n
        BY <1>1, <1>11, <2>1, <3>3, SMT DEF n
      <4>2. b # x
        <5>1. CASE at \in 5..g
          <6>1. at # 5 + n
            BY <1>1, <2>1, <5>1, SMT
          <6>2. b = ParityOf(p)
            BY <1>2, <1>3, <3>1, <6>1
          <6>3. x = Xor(ParityOf(p), {wrong})
            BY <1>4, <3>1, <5>1
          <6> QED
            BY <6>2, <6>3, OneBitShows
        <5>2. CASE at = 5 + n
          <6>1. at \notin 5..g
            BY <1>1, <2>1, <5>2, SMT
          <6>2. b = Xor(ParityOf(p), {wrong})
            BY <1>2, <1>3, <3>1, <5>2
          <6>3. x = ParityOf(p)
            BY <1>4, <3>1, <6>1, XorNothing
          <6> QED
            BY <6>2, <6>3, OneBitShows
        <5> QED
          BY <4>1, <5>1, <5>2
      <4>3. e.control < 0 /\ at # 0 /\ Len(v) <= n
        BY <1>1, <1>6, <1>11, <2>1, <3>1, <3>2, <3>3, <4>2
      <4> QED
        BY <3>1, <4>3 DEF Progress, n
    <3>4. CASE at = 0
      <4>1. b = ParityOf(p) /\ x = ParityOf(p)
        <5>1. at \notin 5..g /\ at # 5 + n
          BY <1>1, <3>4, SMT
        <5> QED
          BY <1>2, <1>3, <1>4, <3>1, <5>1, XorNothing
      <4>2. e.control = C_END
        BY <1>6, <3>2, <4>1 DEF C_END
      <4>3. w = p
        <5>1. Len(w) = n /\ p \in Seq(Byte) /\ Len(p) = n
          BY <1>11, <3>1, BlockIs DEF n
        <5>2. ASSUME NEW j \in 1..n PROVE w[j] = p[j]
          <6>1. 4 + j \in 1..(n + 5) /\ 4 + j # at
            BY <1>1, <3>4, SMT
          <6>2. w[j] = H(4 + j)
            BY <1>11, <3>1
          <6> QED
            BY <1>2, <1>3, <6>1, <6>2
        <5> QED
          BY <5>1, <5>2, SeqEqual
      <4> QED
        BY <3>1, <3>4, <4>2, <4>3 DEF Progress, n
    <3> QED
      BY <3>3, <3>4
  <2>2. CASE g # 4 + n
    <3>1. /\ k \in 0..n /\ k + 1 \in 1..n /\ k + 1 \in Nat /\ k = g - 4
          /\ g + 1 = 4 + (k + 1) /\ (g + 1) - 4 = k + 1 /\ g + 1 \in 1..(n + 5)
          /\ g + 1 \in 4..(4 + n) /\ g + 1 <= n + 5 /\ k + 1 - 1 = k
          /\ g + 1 = 4 + n <=> k + 1 = n
      BY <1>1, <1>11, <2>2, SMT
    <3> HIDE DEF k
    <3>2. Wrapped(k + 1) = k + 1
      <4>1. k + 1 \in 0..(Values * Values - 1)
        BY <1>1, <3>1, BlockIs, ValuesIs, SMT DEF n
      <4> QED
        BY <4>1, ValuesIs, SmallRemainder DEF Wrapped
    <3>3. d = DecoderAt(5, n, x, k)
      BY <1>11, <2>2, <3>1
    <3>4. e = DecoderAt(IF k + 1 = n THEN 6 ELSE 5, n, Xor(x, b), k + 1)
      <4> HIDE DEF x, b
      <4> QED
        BY <3>2, <3>3, Decodes
    <3>5. v = Append(w, b)
      BY <1>5, <1>6, <3>3
    <3> DEFINE s == IF at \in 5..(g + 1) THEN {wrong} ELSE {}
    <3>6. Xor(x, b) = Xor(Par(k + 1), s)
      <4>1. Par(k + 1) = Xor(Par(k), p[k + 1]) /\ B[4 + (k + 1)] = p[k + 1]
        BY <1>2, <1>4, <3>1
      <4>2. CASE at = g + 1
        <5>1. r = {} /\ s = {wrong}
          BY <1>11, <3>1, <4>2, SMT
        <5>2. b = Xor(p[k + 1], {wrong})
          BY <1>3, <3>1, <4>1, <4>2
        <5>3. x = Par(k)
          BY <5>1, XorNothing
        <5> HIDE DEF x, b, s
        <5>4. Xor(Par(k), Xor(p[k + 1], {wrong})) = Xor(Xor(Par(k), p[k + 1]), {wrong})
          BY DEF Xor
        <5> QED
          BY <4>1, <5>1, <5>2, <5>3, <5>4
      <4>3. CASE at # g + 1
        <5>1. r = s
          BY <1>11, <3>1, <4>3, SMT
        <5>2. b = p[k + 1]
          BY <1>3, <3>1, <4>1, <4>3
        <5>3. CASE s = {}
          <6>1. x = Par(k)
            BY <5>1, <5>3, XorNothing
          <6> HIDE DEF x, b, s
          <6> QED
            BY <4>1, <5>2, <5>3, <6>1, XorNothing
        <5>4. CASE s = {wrong}
          <6>1. x = Xor(Par(k), {wrong})
            BY <5>1, <5>4
          <6>2. Xor(Xor(Par(k), {wrong}), p[k + 1]) = Xor(Xor(Par(k), p[k + 1]), {wrong})
            BY DEF Xor
          <6> HIDE DEF x, b, s
          <6> QED
            BY <4>1, <5>2, <5>4, <6>1, <6>2
        <5> QED
          BY <5>3, <5>4
      <4> QED
        BY <4>2, <4>3
    <3>7. Len(v) = k + 1 /\ \A j \in 1..(k + 1) : v[j] = H(4 + j)
      <4>1. Len(w) = k /\ b \in Byte /\ \A j \in 1..k : w[j] = H(4 + j)
        BY <1>3, <1>11, <3>1
      <4>2. /\ Len(Append(w, b)) = k + 1
            /\ \A j \in 1..k : Append(w, b)[j] = w[j]
            /\ Append(w, b)[k + 1] = b
        <5> HIDE DEF b
        <5> QED
          BY <4>1, AppendProperties
      <4>3. \A j \in 1..(k + 1) : j \in 1..k \/ j = k + 1
        BY <3>1, SMT
      <4>4. b = H(4 + (k + 1))
        BY <3>1
      <4> HIDE DEF b, v
      <4> QED
        BY <3>5, <4>1, <4>2, <4>3, <4>4
    <3> HIDE DEF e, v, x, b
    <3>8. /\ g + 1 \in 4..(4 + n) /\ at \notin 1..4
          /\ e = DecoderAt(IF g + 1 = 4 + n THEN 6 ELSE 5, n,
                           Xor(Par((g + 1) - 4), s), (g + 1) - 4)
          /\ Len(v) = (g + 1) - 4 /\ \A j \in 1..((g + 1) - 4) : v[j] = H(4 + j)
      BY <1>11, <3>1, <3>4, <3>6, <3>7
    <3> QED
      BY <3>1, <3>8 DEF Progress, n, H, Par
  <2> QED
    BY <2>1, <2>2
<1>12. CASE d.control = C_END \/ d.control < 0
  BY <1>12 DEF C_END
<1>14. CASE Endless(p, g, d, w)
  BY <1>1, <1>14 DEF Endless, n
<1> QED
  BY <1>7, <1>8, <1>9, <1>10, <1>11, <1>12, <1>14 DEF Progress, n, H, Par

\* Whatever comes then is data, for as many bytes as a tape has.
LEMMA EndlessGoesOn ==
  ASSUME NEW p, NEW g \in Nat, NEW d, NEW w \in Seq(Byte), NEW b \in Byte,
         Endless(p, g, d, w), g + 1 <= 7
  PROVE  Endless(p, g + 1, Decode(d, b), IF Writes(d) THEN Append(w, b) ELSE w)
<1> DEFINE k == g - 4
           e == Decode(d, b)
<1>1. PICK x : d = DecoderAt(5, 0, x, k)
  BY DEF Endless
<1>2. Len(p) = 0 /\ g >= 4 /\ Len(w) = k
  BY DEF Endless
<1>3. k \in Nat /\ k + 1 = (g + 1) - 4 /\ k + 1 # 0 /\ g + 1 >= 4 /\ k + 1 <= 3
  BY <1>2, SMT
<1> HIDE DEF k
<1>4. Wrapped(k + 1) = k + 1
  <2>1. k + 1 \in 0..(Values * Values - 1)
    BY <1>3, ValuesIs, ValuesIsFour, SMT
  <2> QED
    BY <2>1, ValuesIs, SmallRemainder DEF Wrapped
<1>5. e = DecoderAt(5, 0, Xor(x, b), k + 1)
  BY <1>1, <1>3, <1>4, Decodes
<1>6. Writes(d)
  BY <1>1 DEF Writes, C_DATA, DecoderAt
<1>7. Len(Append(w, b)) = k + 1
  BY <1>2, AppendProperties
<1> HIDE DEF e
<1>8. Endless(p, g + 1, e, Append(w, b))
  BY <1>2, <1>3, <1>5, <1>7 DEF Endless
<1> QED
  BY <1>6, <1>8 DEF e

-----------------------------------------------------------------------------
(* The interrupt, pulse by pulse.                                          *)

\* The interrupt has made some bytes of the tape, and load has taken some.
Stream(at, wrong, taken, made) ==
  LET H(i) == Heard(payload, at, wrong, i)
      c == Contents(ring)
      N == Len(payload) + 5
  IN  /\ at = 0 \/ (flips > 0 /\ (at <= made \/ (at = made + 1 /\ sync = SyncEdges /\ wrong < bit)))
      /\ sync = SyncEdges => pos = SyncEdges + (W * made + bit)
      /\ sync < SyncEdges => pos = sync /\ made = 0
      /\ sync = SyncEdges /\ made < N => byte = {k \in H(made + 1) : k < bit}
      /\ Len(c) = made - taken
      /\ \A k \in 1..(made - taken) : taken + k <= N => c[k] = H(taken + k)

OneFault == flips <= 1 /\ ~dropped

Heeds(at, wrong, taken, made) ==
  /\ at \in 0..(Len(payload) + 5) /\ wrong \in BitsOfByte
  /\ taken \in Nat /\ made \in Nat /\ taken <= made
  /\ W * made <= W * (Len(payload) + 5) + 2
  /\ Stream(at, wrong, taken, made)
  /\ Progress(payload, at, wrong, taken, dec, written)

\* A byte that is misread later changes nothing for the decoder.
LEMMA ProgressIsKept ==
  ASSUME NEW p \in Payloads, NEW wrong, NEW wrong2, NEW g \in Nat, NEW d, NEW w,
         NEW at \in 1..(Len(p) + 5), g < at, Progress(p, 0, wrong, g, d, w)
  PROVE  Progress(p, at, wrong2, g, d, w)
<1> DEFINE n == Len(p)
           H(i) == Heard(p, 0, wrong, i)
           I(i) == Heard(p, at, wrong2, i)
<1>1. n \in Nat
  BY BlockIs
<1>2. \A i \in 1..g : I(i) = H(i)
  <2>1. \A i \in 1..g : i # at /\ i # 0
    BY SMT
  <2> QED
    BY <2>1 DEF Heard
<1>3. at \notin 5..g /\ 0 \notin 5..g /\ at # 0
  BY SMT
<1> HIDE DEF n, H, I
<1>4. CASE g = 0 /\ d = DecoderAt(1, 0, {}, 0) /\ w = <<>>
  BY <1>4 DEF Progress
<1>5. CASE g = 1 /\ d = DecoderAt(2, 0, {}, 0) /\ w = <<>>
  BY <1>5 DEF Progress
<1>6. CASE g = 2 /\ d = DecoderAt(3, Num(H(2)), H(2), 0) /\ w = <<>>
  <2>1. I(2) = H(2) /\ at # 1
    BY <1>2, <1>6
  <2> QED
    BY <1>6, <2>1 DEF Progress, I
<1>7. CASE /\ g = 3 /\ w = <<>>
           /\ d = DecoderAt(4, Wrapped(Num(H(2)) * Values + Num(H(3))), Xor(H(2), H(3)), 0)
  <2>1. I(2) = H(2) /\ I(3) = H(3) /\ at # 1
    BY <1>2, <1>7
  <2> QED
    BY <1>7, <2>1 DEF Progress, I
<1>8. CASE /\ n # 0 /\ g \in 4..(4 + n)
           /\ d = DecoderAt(IF g = 4 + n THEN 6 ELSE 5, n, Xor(Parities(p)[g - 4], {}), g - 4)
           /\ Len(w) = g - 4 /\ \A j \in 1..(g - 4) : w[j] = H(4 + j)
  <2>1. at \notin 1..4
    BY <1>1, <1>8, SMT
  <2>2. \A j \in 1..(g - 4) : 4 + j \in 1..g
    BY <1>1, <1>8, SMT
  <2>3. \A j \in 1..(g - 4) : w[j] = I(4 + j)
    BY <1>2, <1>8, <2>2
  <2> QED
    BY <1>3, <1>8, <2>1, <2>3 DEF Progress, I, n
<1>9. CASE g = 5 + n
  BY <1>1, <1>9, SMT DEF n
<1>10. CASE Endless(p, g, d, w)
  BY <1>10 DEF Progress
<1> QED
  BY <1>3, <1>4, <1>5, <1>6, <1>7, <1>8, <1>9, <1>10 DEF Progress, H, n

\* The pulse the interrupt waits for is a bit of the byte it makes.
LEMMA PulseIs ==
  ASSUME payload \in Payloads, sync = SyncEdges, bit \in BitsOfByte,
         NEW made \in Nat, made < Len(payload) + 5,
         pos = SyncEdges + (W * made + bit)
  PROVE  Long(pos) <=> bit \in Block[made + 1]
<1> DEFINE q == W * made + bit
<1>1. W \in Nat \ {0} /\ bit \in 0..(W - 1)
  BY StorageAssumption DEF StorageAssumption, BitsOfByte
<1>2. q \div W = made /\ q % W = bit
  BY <1>1, OneRemainder
<1>3. q \in Nat /\ W * made \in Int
  BY <1>1, SMT
<1>4. SyncEdges \in Nat
  BY AudioInAssumption DEF AudioInAssumption
<1> DEFINE N == Len(Block)
<1>5. N \in Nat /\ made + 1 <= N
  BY BlockIs, SMT DEF Block
<1> HIDE DEF N
<1>6. q < W * N
  <2>1. W * (made + 1) <= W * N
    BY <1>1, <1>5, Multiples, SMT
  <2>2. W * (made + 1) = W * made + W
    BY <1>1, SMT
  <2>3. W * N \in Int
    BY <1>1, <1>5, SMT
  <2> QED
    BY <1>1, <1>3, <2>1, <2>2, <2>3, SMT
<1> HIDE DEF q
<1>7. pos >= SyncEdges /\ pos - SyncEdges = q
  BY <1>3, <1>4, SMT DEF q
<1>8. Long(pos) <=> PulseAfter(Block, q)
  BY <1>6, <1>7 DEF Long, N
<1> QED
  BY <1>2, <1>8 DEF PulseAfter

LEMMA EdgeHeeds ==
  ASSUME RingInv, payload \in Payloads, flips \in Nat, sync \in 0..SyncEdges,
         NEW at, NEW wrong, NEW taken, NEW made, Heeds(at, wrong, taken, made),
         NEW misread \in BOOLEAN, Edge(misread), flips' <= 1, ~dropped'
  PROVE  \E at2, wrong2, made2 : Heeds(at2, wrong2, taken, made2)'
<1> DEFINE N == Len(payload) + 5
           c == Contents(ring)
           H(i) == Heard(payload, at, wrong, i)
<1>1. /\ UNCHANGED <<payload, dec, written>> /\ pos' = pos + 1
      /\ misread => flips' = flips + 1
      /\ ~misread => flips' = flips
  BY DEF Edge, loader
<1>2. /\ flips' \in Nat /\ flips' >= flips
      /\ misread => flips = 0 /\ flips' > 0
      /\ flips > 0 => flips' > 0
  BY <1>1
<1>3. /\ N \in Nat /\ N >= 5 /\ Len(Block) = N /\ W \in Nat \ {0} /\ SyncEdges \in Nat \ {0}
  BY BlockIs, StorageAssumption, AudioInAssumption, SMT
     DEF Block, StorageAssumption, AudioInAssumption
<1>4. /\ at \in 0..N /\ wrong \in BitsOfByte /\ taken \in Nat /\ made \in Nat /\ taken <= made
      /\ Progress(payload, at, wrong, taken, dec, written) /\ W * made <= W * N + 2
  BY DEF Heeds
<1>5. /\ at = 0 \/ (flips > 0 /\ (at <= made \/ (at = made + 1 /\ sync = SyncEdges /\ wrong < bit)))
      /\ sync = SyncEdges => pos = SyncEdges + (W * made + bit)
      /\ sync < SyncEdges => pos = sync /\ made = 0
      /\ sync = SyncEdges /\ made < N => byte = {k \in H(made + 1) : k < bit}
      /\ Len(c) = made - taken
      /\ \A k \in 1..(made - taken) : taken + k <= N => c[k] = H(taken + k)
  BY DEF Heeds, Stream
<1>6. /\ \A i \in 1..N : H(i) \in Byte
      /\ bit \in 0..(W - 1) /\ byte \in Byte /\ ring \in Rings(Byte) /\ bit \in BitsOfByte
  <2>1. \A i \in 1..N : H(i) \in Byte
    BY <1>4, HeardIs
  <2> QED
    BY <2>1 DEF RingInv, BitsOfByte
<1> HIDE DEF N, c, H
<1>7. CASE Settle
  <2>1. /\ sync < SyncEdges /\ sync' = sync + 1 /\ bit' = 0 /\ byte' = {}
        /\ UNCHANGED <<ring, dropped>>
    BY <1>7 DEF Settle
  <2>2. (made = 0 /\ taken = 0 /\ pos' = sync' /\ at = 0) \/ (flips > 0 /\ at <= made)
    BY <1>4, <1>5, <2>1, <1>1, <1>3, SMT
  <2>3. made = 0 /\ taken = 0 /\ pos' = sync'
    BY <1>4, <1>5, <2>1, <1>1, <1>3, SMT
  <2>4. at = 0
    BY <1>4, <1>5, <2>1, <2>3, <1>3, SMT
  <2>5. W * 0 = 0
    BY <1>3, SMT
  <2>6. sync' = SyncEdges => pos' = SyncEdges + (W * made + bit')
    BY <1>3, <2>1, <2>3, <2>5
  <2>7. \A k \in H(made + 1) : ~(k < bit')
    <3>1. \A k \in BitsOfByte : ~(k < 0)
      BY SMT DEF BitsOfByte
    <3>2. made + 1 \in 1..N
      BY <1>3, <2>3, SMT
    <3> QED
      BY <1>6, <2>1, <3>1, <3>2 DEF Byte
  <2>8. c' = c
    BY <2>1 DEF c
  <2>9. Stream(at, wrong, taken, made)'
    BY <1>1, <1>5, <2>1, <2>3, <2>4, <2>6, <2>7, <2>8 DEF Stream, c, H, N
  <2>10. Heeds(at, wrong, taken, made)'
    BY <1>1, <1>4, <2>9 DEF Heeds, N
  <2> QED
    BY <2>10
<1>8. CASE NextBit(Long(pos) # misread)
  <2> DEFINE long == Long(pos) # misread
             b == IF long THEN byte \cup {bit} ELSE byte
             now == misread /\ made < N
  <2>14. PICK at2, wrong2 : /\ at2 = IF now THEN made + 1 ELSE at
                            /\ wrong2 = IF now THEN bit ELSE wrong
    OBVIOUS
  <2> DEFINE I(i) == Heard(payload, at2, wrong2, i)
  <2>1. sync = SyncEdges /\ sync' = sync
    BY <1>8 DEF NextBit
  <2>2. b \in Byte
    BY <1>6 DEF Byte
  <2>3. misread => at = 0
    BY <1>2, <1>5
  <2>4. at2 \in 0..N /\ wrong2 \in BitsOfByte
    BY <1>3, <1>4, <1>6, <2>14, SMT
  <2>5. \A i \in 1..made : I(i) = H(i)
    <3>1. CASE now
      <4>1. \A i \in 1..made : i # made + 1 /\ i # 0
        BY <1>4, SMT
      <4> QED
        BY <2>3, <2>14, <3>1, <4>1 DEF Heard, H
    <3>2. CASE ~now
      BY <2>14, <3>2 DEF H
    <3> QED
      BY <3>1, <3>2
  <2>6. made < N => \A k \in BitsOfByte :
          /\ k # bit => (k \in I(made + 1) <=> k \in H(made + 1))
          /\ k = bit => (k \in I(made + 1) <=> long)
    <3> SUFFICES ASSUME made < N, NEW k \in BitsOfByte
                 PROVE  /\ k # bit => (k \in I(made + 1) <=> k \in H(made + 1))
                        /\ k = bit => (k \in I(made + 1) <=> long)
      OBVIOUS
    <3> DEFINE B == Block[made + 1]
    <3>1. Long(pos) <=> bit \in B
      BY <1>3, <1>4, <1>5, <1>6, <2>1, PulseIs DEF N
    <3>4. long <=> ((bit \in B /\ ~misread) \/ (bit \notin B /\ misread))
      <4>1. Long(pos) \in BOOLEAN
        BY DEF Long
      <4> HIDE DEF B
      <4> QED
        BY <3>1, <4>1
    <3>2. CASE misread
      <4>1. H(made + 1) = B /\ I(made + 1) = Xor(B, {bit})
        <5>1. made + 1 # 0
          BY <1>4, SMT
        <5> QED
          BY <2>3, <2>14, <3>2, <5>1 DEF Heard, H, Block
      <4>2. /\ k # bit => (k \in Xor(B, {bit}) <=> k \in B)
            /\ k = bit => (k \in Xor(B, {bit}) <=> k \notin B)
        <5> HIDE DEF B
        <5> QED
          BY DEF Xor
      <4> HIDE DEF B, I, long
      <4> QED
        BY <3>2, <3>4, <4>1, <4>2
    <3>3. CASE ~misread
      <4>1. I(made + 1) = H(made + 1)
        BY <2>14, <3>3 DEF H
      <4>2. bit \in H(made + 1) <=> bit \in B
        <5>1. CASE at = made + 1
          <6>1. wrong # bit
            BY <1>4, <1>5, <1>6, <5>1, SMT DEF BitsOfByte
          <6>2. H(made + 1) = Xor(B, {wrong})
            BY <5>1 DEF Heard, H, Block
          <6> HIDE DEF B
          <6> QED
            BY <6>1, <6>2 DEF Xor
        <5>2. CASE at # made + 1
          BY <5>2 DEF Heard, H, Block
        <5> QED
          BY <5>1, <5>2
      <4> HIDE DEF B, I, long
      <4> QED
        BY <3>3, <3>4, <4>1, <4>2
    <3> QED
      BY <3>2, <3>3
  <2>7. made < N => b = {k \in I(made + 1) : k < bit + 1}
    <3> SUFFICES ASSUME made < N PROVE b = {k \in I(made + 1) : k < bit + 1}
      OBVIOUS
    <3>1. byte = {k \in H(made + 1) : k < bit}
      BY <1>5, <2>1
    <3>2. made + 1 \in 1..N
      BY <1>3, <1>4, SMT
    <3>3. H(made + 1) \subseteq BitsOfByte /\ I(made + 1) \subseteq BitsOfByte
      <4>1. I(made + 1) \in Byte
        BY <2>4, <3>2, HeardIs DEF N
      <4> HIDE DEF I
      <4> QED
        BY <1>6, <3>2, <4>1 DEF Byte
    <3>4. ASSUME NEW k PROVE k \in b <=> k \in I(made + 1) /\ k < bit + 1
      <4>1. CASE k \in BitsOfByte
        <5>1. k < bit + 1 <=> (k < bit \/ k = bit)
          BY <1>6, <4>1, SMT DEF BitsOfByte
        <5>2. ~(bit < bit)
          BY <1>6, SMT
        <5>3. k \in b <=> k \in byte \/ (long /\ k = bit)
          OBVIOUS
        <5> HIDE DEF I, b, long
        <5> QED
          BY <2>6, <3>1, <4>1, <5>1, <5>2, <5>3
      <4>2. CASE k \notin BitsOfByte
        <5>1. k \notin b
          BY <2>2, <4>2 DEF Byte
        <5> HIDE DEF I, b
        <5> QED
          BY <3>3, <4>2, <5>1
      <4> QED
        BY <4>1, <4>2
    <3> HIDE DEF I, b
    <3> QED
      BY <3>4
  <2>8. Progress(payload, at2, wrong2, taken, dec, written)
    <3>1. CASE now
      <4>1. at2 \in 1..(Len(payload) + 5) /\ taken < at2
        BY <1>3, <1>4, <2>14, <3>1, SMT DEF N
      <4>2. Progress(payload, 0, wrong, taken, dec, written)
        BY <1>4, <2>3, <3>1
      <4> QED
        BY <1>4, <4>1, <4>2, ProgressIsKept
    <3>2. CASE ~now
      BY <1>4, <2>14, <3>2
    <3> QED
      BY <3>1, <3>2
  <2>9. now => at2 = made + 1 /\ wrong2 = bit /\ flips' > 0
    BY <1>2, <2>14
  <2>10. ~now => at2 = at /\ wrong2 = wrong
    BY <2>14
  <2>11. misread /\ ~now => at = 0
    BY <2>3
  <2> HIDE DEF long, b, now, I
  <2>12. CASE bit + 1 = W
    <3>1. /\ ring' = Stored(ring, b) /\ dropped' = (dropped \/ AinFull(ring))
          /\ bit' = 0 /\ byte' = {}
      BY <1>8, <2>12 DEF NextBit, b, long
    <3>2. c' = Append(c, b) /\ c \in Seq(Byte)
      BY <1>6, <2>2, <3>1, StoredIsAppend, ContentsIsSeq DEF c
    <3>3. /\ Len(c') = (made + 1) - taken
          /\ \A k \in 1..(made - taken) : c'[k] = c[k]
          /\ c'[(made + 1) - taken] = b
      <4>1. /\ Len(Append(c, b)) = Len(c) + 1 /\ Append(c, b)[Len(c) + 1] = b
            /\ \A k \in 1..Len(c) : Append(c, b)[k] = c[k]
        BY <2>2, <3>2, AppendProperties
      <4>2. Len(c) + 1 = (made + 1) - taken
        BY <1>4, <1>5, SMT
      <4> QED
        BY <1>5, <3>2, <4>1, <4>2
    <3>4. \A k \in 1..((made + 1) - taken) : taken + k <= N => c'[k] = I(taken + k)
      <4> SUFFICES ASSUME NEW k \in 1..((made + 1) - taken), taken + k <= N
                   PROVE  c'[k] = I(taken + k)
        OBVIOUS
      <4>1. CASE k \in 1..(made - taken)
        <5>1. taken + k \in 1..made
          BY <1>4, <4>1, SMT
        <5> QED
          BY <1>5, <2>5, <3>3, <4>1, <5>1
      <4>2. CASE k \notin 1..(made - taken)
        <5>1. k = (made + 1) - taken /\ taken + k = made + 1 /\ made < N /\ made + 1 \in 1..N
          BY <1>3, <1>4, <4>2, SMT
        <5>2. I(made + 1) \in Byte
          BY <2>4, <5>1, HeardIs DEF N, I
        <5>3. b = I(made + 1)
          <6>1. \A j \in BitsOfByte : j < bit + 1
            BY <1>3, <2>12, SMT DEF BitsOfByte
          <6> QED
            BY <2>7, <5>1, <5>2, <6>1 DEF Byte
        <5> QED
          BY <3>3, <5>1, <5>3
      <4> QED
        BY <4>1, <4>2
    <3>5. pos' = SyncEdges + (W * (made + 1) + bit')
      <4> DEFINE m == W * made
      <4>1. W * (made + 1) = m + W /\ m \in Int
        BY <1>3, <1>4, SMT
      <4>2. pos = SyncEdges + (m + bit)
        BY <1>5, <2>1
      <4> HIDE DEF m
      <4>3. pos' = SyncEdges + ((m + W) + 0)
        BY <1>1, <1>3, <1>6, <2>12, <4>1, <4>2, SMT
      <4> QED
        BY <3>1, <4>1, <4>3
    <3>6. at2 = 0 \/ (flips' > 0 /\ at2 <= made + 1)
      BY <1>2, <1>4, <1>5, <2>9, <2>10
    <3>7. sync' = SyncEdges /\ made + 1 < N => byte' = {k \in I((made + 1) + 1) : k < bit'}
      <4>1. made + 1 < N => (made + 1) + 1 \in 1..N
        BY <1>3, <1>4, SMT
      <4>2. made + 1 < N => I((made + 1) + 1) \in Byte
        BY <2>4, <4>1, HeardIs DEF N, I
      <4>3. \A k \in BitsOfByte : ~(k < 0)
        BY SMT DEF BitsOfByte
      <4> QED
        BY <3>1, <4>2, <4>3 DEF Byte
    <3>8. ~(sync' < SyncEdges)
      BY <1>3, <2>1
    <3>9. Stream(at2, wrong2, taken, made + 1)'
      BY <1>1, <3>3, <3>4, <3>5, <3>6, <3>7, <3>8 DEF Stream, c, I, N
    <3>10. taken <= made + 1 /\ made + 1 \in Nat
      BY <1>4
    <3>12. W * (made + 1) <= W * N + 2
      <4> DEFINE m == W * made
                 t == W * N
      <4>1. W * (made + 1) = m + W /\ m \in Int /\ t \in Int
        BY <1>3, <1>4, SMT
      <4>2. pos = SyncEdges + (m + bit)
        BY <1>5, <2>1
      <4>3. pos < SyncEdges + t + 2
        BY <1>3 DEF Edge, TapeLen
      <4> HIDE DEF m, t
      <4>4. m + W <= t + 2
        BY <1>3, <1>6, <2>12, <4>1, <4>2, <4>3, SMT
      <4> QED
        BY <4>1, <4>4 DEF t
    <3>11. Heeds(at2, wrong2, taken, made + 1)'
      BY <1>1, <1>4, <2>4, <2>8, <3>9, <3>10, <3>12 DEF Heeds, N
    <3> QED
      BY <3>11
  <2>13. CASE bit + 1 # W
    <3>1. bit' = bit + 1 /\ byte' = b /\ UNCHANGED <<ring, dropped>>
      BY <1>8, <2>13 DEF NextBit, b, long
    <3>2. c' = c
      BY <3>1 DEF c
    <3>3. \A k \in 1..(made - taken) : taken + k <= N => c'[k] = I(taken + k)
      <4>1. \A k \in 1..(made - taken) : taken + k \in 1..made
        BY <1>4, SMT
      <4> QED
        BY <1>5, <2>5, <3>2, <4>1
    <3>4. pos' = SyncEdges + (W * made + bit')
      <4>1. W * made \in Int
        BY <1>3, <1>4, SMT
      <4> QED
        BY <1>1, <1>3, <1>5, <1>6, <2>1, <3>1, <4>1, SMT
    <3>5. at2 = 0 \/ (flips' > 0 /\ (at2 <= made \/ (at2 = made + 1 /\ sync' = SyncEdges /\ wrong2 < bit')))
      <4>1. CASE now
        <5>1. wrong2 < bit'
          BY <1>6, <2>9, <3>1, <4>1, SMT
        <5> QED
          BY <2>1, <2>9, <4>1, <5>1
      <4>2. CASE ~now
        <5>1. wrong < bit => wrong < bit'
          BY <1>4, <1>6, <3>1, SMT DEF BitsOfByte
        <5> QED
          BY <1>2, <1>5, <2>1, <2>10, <4>2, <5>1
      <4> QED
        BY <4>1, <4>2
    <3>6. sync' = SyncEdges /\ made < N => byte' = {k \in I(made + 1) : k < bit'}
      BY <2>7, <3>1
    <3>7. ~(sync' < SyncEdges)
      BY <1>3, <2>1
    <3>8. Stream(at2, wrong2, taken, made)'
      BY <1>1, <1>5, <3>2, <3>3, <3>4, <3>5, <3>6, <3>7 DEF Stream, c, I, N
    <3>9. Heeds(at2, wrong2, taken, made)'
      BY <1>1, <1>4, <2>4, <2>8, <3>8 DEF Heeds, N
    <3> QED
      BY <3>9
  <2> QED
    BY <2>12, <2>13
<1> QED
  BY <1>7, <1>8 DEF Edge

\* The interrupt makes no more bytes than the tape has.
LEMMA MadeIsBounded ==
  ASSUME NEW n \in Nat, NEW made \in Nat, W * made <= W * (n + 5) + 2
  PROVE  made <= n + 7 /\ made - (n + 4) <= (W + 2) \div W
<1>1. W \in Nat \ {0}
  BY StorageAssumption DEF StorageAssumption
<1> DEFINE q == (W + 2) \div W
           r == (W + 2) % W
           m == W * (n + 4)
<1>2. q \in Nat /\ r \in 0..(W - 1) /\ W + 2 = W * q + r
  <2>1. W + 2 \in Nat
    BY <1>1, SMT
  <2> QED
    BY <1>1, <2>1, Divided
<1>3. W * (n + 5) = m + W /\ m \in Int
  BY <1>1, SMT
<1>4. made - (n + 4) <= q
  <2>1. SUFFICES ASSUME (n + 4) + (q + 1) <= made PROVE FALSE
    BY <1>2, SMT DEF q
  <2> HIDE DEF q, r
  <2>2. W * ((n + 4) + (q + 1)) <= W * made
    BY <1>1, <1>2, <2>1, Multiples, SMT
  <2>3. W * ((n + 4) + (q + 1)) = m + (W * q + W) /\ W * q \in Int /\ W * made \in Int
    BY <1>1, <1>2, SMT
  <2> HIDE DEF m
  <2> QED
    BY <1>1, <1>2, <1>3, <2>2, <2>3, SMT
<1>5. q <= 3
  <2> HIDE DEF q, r
  <2>1. SUFFICES ASSUME 4 <= q PROVE FALSE
    BY <1>2, SMT
  <2>2. W * 4 <= W * q
    BY <1>1, <1>2, <2>1, Multiples, SMT
  <2>3. W * q \in Int
    BY <1>1, <1>2, SMT
  <2> QED
    BY <1>1, <1>2, <2>2, <2>3, SMT
<1> HIDE DEF q
<1> QED
  BY <1>2, <1>4, <1>5, SMT DEF q

LEMMA GetHeeds ==
  ASSUME RingInv, payload \in Payloads, written \in Seq(Byte), dec.control \in 1..6,
         NEW at, NEW wrong, NEW taken, NEW made, Heeds(at, wrong, taken, made), Get
  PROVE  Heeds(at, wrong, taken + 1, made)'
<1> DEFINE N == Len(payload) + 5
           c == Contents(ring)
           H(i) == Heard(payload, at, wrong, i)
           x == Oldest(ring)
<1>1. /\ UNCHANGED <<payload, pos, flips, sync, bit, byte>> /\ ring' = Taken(ring) /\ dec' = Decode(dec, x)
      /\ written' = IF Writes(dec) THEN Append(written, x) ELSE written
      /\ pc = "get"
  BY DEF Get, isr, tape
<1>2. /\ at \in 0..N /\ wrong \in BitsOfByte /\ taken \in Nat /\ made \in Nat /\ taken <= made
      /\ Progress(payload, at, wrong, taken, dec, written) /\ Stream(at, wrong, taken, made)
      /\ W * made <= W * N + 2
  BY DEF Heeds
<1>3. /\ Len(c) = made - taken
      /\ \A k \in 1..(made - taken) : taken + k <= N => c[k] = H(taken + k)
  BY <1>2 DEF Stream
<1>4. /\ c # <<>> /\ x = c[1] /\ c \in Seq(Byte) /\ Contents(ring') = Tail(c)
  BY <1>1, TakenIsTail, ContentsIsSeq DEF RingInv
<1>5. /\ Len(c) \in Nat \ {0} /\ Len(Tail(c)) = Len(c) - 1
      /\ \A k \in 1..(Len(c) - 1) : Tail(c)[k] = c[k + 1]
  BY <1>4, EmptySeq, HeadTailProperties, SMT
<1>6. x \in Byte
  BY <1>1, TakenIsTail DEF RingInv
<1> HIDE DEF c, x, H
<1>7. /\ made - taken \in Nat /\ 1 \in 1..(made - taken)
      /\ made - (taken + 1) = Len(c) - 1 /\ taken + 1 <= made /\ taken + 1 \in Nat
  BY <1>2, <1>3, <1>5, SMT
<1> DEFINE goesOn == Progress(payload', at, wrong, taken + 1, dec', written')
<1>8. ASSUME Len(payload) # 0 \/ taken < 4 PROVE goesOn
  <2>1. /\ taken + 1 <= N
        /\ Progress(payload, at, wrong, taken + 1, Decode(dec, H(taken + 1)),
                    IF Writes(dec) THEN Append(written, H(taken + 1)) ELSE written)
    BY <1>2, <1>8, ProgressIsMade DEF N, H
  <2>2. x = H(taken + 1)
    BY <1>3, <1>4, <1>7, <2>1
  <2> QED
    BY <1>1, <2>1, <2>2
<1>12. ASSUME ~(Len(payload) # 0 \/ taken < 4) PROVE goesOn
  <2>1. Len(payload) = 0 /\ ~(taken < 4)
    BY <1>12
  <2>2. Endless(payload, taken, dec, written)
    <3>1. taken \notin {0, 1, 2, 3}
      BY <2>1, SMT
    <3>2. dec.control # C_END /\ ~(dec.control < 0)
      BY SMT DEF C_END
    <3> QED
      BY <1>2, <2>1, <3>1, <3>2 DEF Progress
  <2>3. taken + 1 <= 7
    <3>1. made <= 0 + 7
      <4>1. W * made <= W * (0 + 5) + 2 /\ 0 \in Nat
        BY <1>2, <2>1 DEF N
      <4> QED
        BY <1>2, <4>1, MadeIsBounded
    <3> QED
      BY <1>2, <1>7, <3>1, SMT
  <2>4. Endless(payload', taken + 1, dec', written')
    BY <1>1, <1>2, <1>6, <2>2, <2>3, EndlessGoesOn
  <2> QED
    BY <2>4 DEF Progress
<1>9. Progress(payload', at, wrong, taken + 1, dec', written')
  BY <1>8, <1>12
<1>10. \A k \in 1..(made - (taken + 1)) : (taken + 1) + k <= N => Tail(c)[k] = H((taken + 1) + k)
  <2> SUFFICES ASSUME NEW k \in 1..(made - (taken + 1)), (taken + 1) + k <= N
               PROVE  Tail(c)[k] = H((taken + 1) + k)
    OBVIOUS
  <2>1. /\ k \in 1..(Len(c) - 1) /\ k + 1 \in 1..(made - taken)
        /\ (taken + 1) + k = taken + (k + 1) /\ taken + (k + 1) <= N
    BY <1>2, <1>7, BlockIs, SMT DEF N
  <2> QED
    BY <1>3, <1>5, <2>1
<1>11. Stream(at, wrong, taken + 1, made)'
  <2>1. Contents(ring)' = Tail(c) /\ Len(Tail(c)) = made - (taken + 1)
    BY <1>4, <1>5, <1>7
  <2> QED
    BY <1>1, <1>2, <1>10, <2>1 DEF Stream, H, N
<1> QED
  BY <1>1, <1>2, <1>7, <1>9, <1>11 DEF Heeds, N

LEMMA StartHeeds ==
  ASSUME RingInv, dec = InitDecoder, written = <<>>, Start
  PROVE  Heeds(0, 0, 0, 0)'
<1>1. /\ ring' = Flushed(ring) /\ sync' = 0 /\ payload' \in Payloads /\ pos' = 0
      /\ UNCHANGED <<dec, written>>
  BY DEF Start, SyncAfterOn
<1>2. Contents(ring') = <<>> /\ Len(<<>>) = 0
  BY <1>1, FlushedIsEmpty, EmptySeq DEF RingInv
<1>3. 0 < SyncEdges /\ 0 # SyncEdges
  BY AudioInAssumption, SMT DEF AudioInAssumption
<1>4. Stream(0, 0, 0, 0)'
  <2>1. 1..(0 - 0) = {} /\ 0 - 0 = 0
    BY SMT
  <2>2. Contents(ring)' = <<>>
    BY <1>2
  <2> QED
    BY <1>1, <1>2, <1>3, <2>1, <2>2 DEF Stream
<1>5. Progress(payload, 0, 0, 0, dec, written)'
  <2>1. dec' = DecoderAt(1, 0, {}, 0) /\ written' = <<>>
    BY <1>1 DEF InitDecoder, DecoderAt, C_MAGIC
  <2> QED
    BY <2>1 DEF Progress
<1>6. 0 \in 0..(Len(payload') + 5) /\ W * 0 <= W * (Len(payload') + 5) + 2
  <2>1. Len(payload') \in Nat /\ W \in Nat
    BY <1>1, BlockIs, StorageAssumption DEF StorageAssumption
  <2>2. W * 0 = 0 /\ W * (Len(payload') + 5) \in Nat
    BY <2>1, SMT
  <2> QED
    BY <2>1, <2>2, SMT
<1> QED
  BY <1>4, <1>5, <1>6, BitZero DEF Heeds

\* A block that was accepted is the payload, a block that was refused has a
\* misread byte, and nothing is written that is not in the block.
LEMMA ProgressMeans ==
  ASSUME NEW p \in Payloads, NEW at, NEW wrong, NEW g, NEW d, NEW w,
         Progress(p, at, wrong, g, d, w)
  PROVE  /\ d.control = C_END => w = p
         /\ d.control < 0 => at # 0
         /\ Len(w) <= Len(p) \/ Endless(p, g, d, w)
<1> DEFINE n == Len(p)
<1>1. n \in Nat /\ Len(<<>>) = 0
  BY BlockIs
<1>2. \A c, l, x, k : DecoderAt(c, l, x, k).control = c
  BY DEF DecoderAt
<1>3. ASSUME NEW c \in 1..6, NEW l, NEW x, NEW k, d = DecoderAt(c, l, x, k), Len(w) <= n
      PROVE  (d.control = C_END => w = p) /\ (d.control < 0 => at # 0) /\ Len(w) <= n
  BY <1>2, <1>3, SMT DEF C_END
<1>4. CASE w = <<>> /\ \E c \in 1..6 : \E l, x, k : d = DecoderAt(c, l, x, k)
  BY <1>1, <1>3, <1>4
<1>5. CASE g \in 4..(4 + n) /\ Len(w) = g - 4 /\ \E c \in 1..6 : \E l, x, k : d = DecoderAt(c, l, x, k)
  <2>1. Len(w) <= n
    BY <1>1, <1>5, SMT
  <2> QED
    BY <1>3, <1>5, <2>1
<1>6. CASE d.control = C_END /\ w = p
  BY <1>1, <1>6 DEF C_END
<1>7. CASE d.control < 0 /\ at # 0 /\ Len(w) <= n
  BY <1>7 DEF C_END
<1>9. CASE Endless(p, g, d, w)
  <2>1. PICK x : d = DecoderAt(5, 0, x, g - 4)
    BY <1>9 DEF Endless
  <2>2. d.control = 5
    BY <1>2, <2>1
  <2>3. d.control # C_END /\ ~(d.control < 0)
    BY <2>2, SMT DEF C_END
  <2> QED
    BY <1>9, <2>3
<1>8. 1 \in 1..6 /\ 2 \in 1..6 /\ 3 \in 1..6 /\ 4 \in 1..6 /\ 5 \in 1..6 /\ 6 \in 1..6
  BY SMT
<1> QED
  BY <1>4, <1>5, <1>6, <1>7, <1>8, <1>9 DEF Progress

\* How much that is for a block with bytes in it and for one without.
LEMMA HeedsStays ==
  ASSUME payload \in Payloads,
         NEW at, NEW wrong, NEW taken, NEW made, Heeds(at, wrong, taken, made)
  PROVE  Len(written) <= IF payload = <<>> THEN (W + 2) \div W ELSE Len(payload)
<1> DEFINE n == Len(payload)
           q == (W + 2) \div W
<1>1. n \in Nat /\ payload \in Seq(Byte)
  BY BlockIs
<1>2. /\ taken \in Nat /\ made \in Nat /\ taken <= made /\ W * made <= W * (n + 5) + 2
      /\ Len(written) <= n \/ Endless(payload, taken, dec, written)
  BY ProgressMeans DEF Heeds
<1>3. payload = <<>> <=> n = 0
  BY <1>1, EmptySeq
<1>4. q \in Nat
  BY StorageAssumption, Divided, SMT DEF StorageAssumption
<1>5. made - (n + 4) <= q
  BY <1>1, <1>2, MadeIsBounded
<1> HIDE DEF q
<1>6. CASE Endless(payload, taken, dec, written)
  <2>1. n = 0 /\ Len(written) = taken - 4
    BY <1>6 DEF Endless
  <2>2. taken - 4 <= q
    BY <1>2, <1>4, <1>5, <2>1, SMT
  <2> QED
    BY <1>3, <2>1, <2>2 DEF q
<1>7. CASE Len(written) <= n
  <2>1. n = 0 => n <= q
    BY <1>4, SMT
  <2> QED
    BY <1>3, <1>7, <2>1 DEF q
<1> QED
  BY <1>2, <1>6, <1>7

-----------------------------------------------------------------------------
(* What is loaded is what was saved.                                       *)

BlockInv ==
  /\ RingInv
  /\ payload \in Payloads /\ written \in Seq(Byte)
  /\ flips \in Nat /\ sync \in 0..SyncEdges /\ IsDecoder(dec)
  /\ pc = "idle" => LoadedMeansSaved /\ CleanTapeLoads /\ WritesStayInBlock
  /\ pc # "idle" => result = "none"
  /\ pc \in {"idle", "prompt", "start"} \/ InterruptOn
  /\ pc \in {"prompt", "start"} => dec = InitDecoder /\ written = <<>>
  /\ pc \in {"poll", "get"} => dec.control \in 1..6
  /\ pc = "off" => timedout \/ LoadOver(dec)
  /\ InterruptOn /\ OneFault => \E at, wrong, taken, made : Heeds(at, wrong, taken, made)

LEMMA EmptyIsHarmless ==
  ASSUME payload \in Payloads, written = <<>>
  PROVE  WritesStayInBlock
<1>1. Len(<<>>) = 0 /\ Len(payload) \in Nat
  BY BlockIs
<1> DEFINE q == (W + 2) \div W
<1>2. q \in Nat
  BY StorageAssumption, Divided, SMT DEF StorageAssumption
<1> HIDE DEF q
<1>3. 0 <= q /\ 0 <= Len(payload)
  BY <1>1, <1>2, SMT
<1> QED
  BY <1>1, <1>3 DEF WritesStayInBlock, q

LEMMA InitIsDecoder == IsDecoder(InitDecoder)
<1>1. InitDecoder = DecoderAt(1, 0, {}, 0)
  BY DEF InitDecoder, DecoderAt, C_MAGIC
<1> QED
  BY <1>1 DEF IsDecoder

LEMMA InitBlock == Init => BlockInv
<1> SUFFICES ASSUME Init PROVE BlockInv
  OBVIOUS
<1>1. RingInv
  BY InitRing
<1>2. written = <<>> /\ payload \in Payloads /\ pc = "idle" /\ result = "none" /\ sync = 0 /\ flips = 0
  BY DEF Init
<1>3. sync \in 0..SyncEdges
  BY <1>2, AudioInAssumption, SMT DEF AudioInAssumption
<1>4. written \in Seq(Byte)
  BY <1>2, EmptySeq
<1>5. WritesStayInBlock
  BY <1>2, EmptyIsHarmless
<1>6. IsDecoder(dec)
  BY InitIsDecoder DEF Init
<1> QED
  BY <1>1, <1>2, <1>3, <1>4, <1>5, <1>6 DEF BlockInv, InterruptOn, LoadedMeansSaved, CleanTapeLoads

\* What does not touch the tape, the interrupt and the decoder changes nothing
\* of what load has heard so far.
LEMMA QuietHeeds ==
  ASSUME UNCHANGED <<ring, isr, tape, dropped, dec, written>>
  PROVE  /\ \A at, wrong, taken, made : Heeds(at, wrong, taken, made) => Heeds(at, wrong, taken, made)'
         /\ OneFault' <=> OneFault
BY DEF isr, tape, Heeds, Stream, OneFault

LEMMA StepBlock == BlockInv /\ [Next]_vars => BlockInv'
<1> SUFFICES ASSUME BlockInv, [Next]_vars PROVE BlockInv'
  OBVIOUS
<1>1. RingInv /\ RingInv'
  BY StepRing DEF BlockInv
<1>2. /\ payload \in Payloads /\ written \in Seq(Byte) /\ flips \in Nat /\ sync \in 0..SyncEdges
      /\ IsDecoder(dec)
      /\ pc = "idle" => LoadedMeansSaved /\ CleanTapeLoads /\ WritesStayInBlock
      /\ pc # "idle" => result = "none"
      /\ pc \in {"idle", "prompt", "start"} \/ InterruptOn
      /\ pc \in {"prompt", "start"} => dec = InitDecoder /\ written = <<>>
      /\ pc \in {"poll", "get"} => dec.control \in 1..6
      /\ pc = "off" => timedout \/ LoadOver(dec)
      /\ InterruptOn /\ OneFault => \E at, wrong, taken, made : Heeds(at, wrong, taken, made)
  BY DEF BlockInv
<1>3. CASE \E quiet \in BOOLEAN : Load(quiet)
  <2>1. /\ pc' \in {"start", "prompt"} /\ dec' = InitDecoder /\ written' = <<>> /\ result' = "none"
        /\ UNCHANGED <<payload, flips, sync>>
    BY <1>3 DEF Load, isr, tape
  <2>2. written' \in Seq(Byte) /\ IsDecoder(dec')
    BY <2>1, EmptySeq, InitIsDecoder
  <2> QED
    BY <1>1, <1>2, <2>1, <2>2 DEF BlockInv, InterruptOn
<1>4. CASE \E key \in {"enter", "esc"} : Prompt(key)
  <2>1. /\ pc = "prompt" /\ UNCHANGED <<dec, written, payload, flips, sync, dropped, pos, timedout>>
        /\ (pc' = "start" /\ result' = result) \/ (pc' = "idle" /\ result' = "cancelled")
    BY <1>4 DEF Prompt, isr, tape
  <2>2. WritesStayInBlock'
    BY <1>2, <2>1, EmptyIsHarmless DEF WritesStayInBlock
  <2>3. result' = "cancelled" => (LoadedMeansSaved /\ CleanTapeLoads)'
    BY DEF LoadedMeansSaved, CleanTapeLoads
  <2> QED
    BY <1>1, <1>2, <2>1, <2>2, <2>3 DEF BlockInv, InterruptOn
<1>5. CASE Start
  <2>1. /\ pc = "start" /\ pc' = "poll" /\ payload' \in Payloads /\ flips' = 0 /\ sync' = 0
        /\ UNCHANGED <<dec, written, result, timedout>>
    BY <1>5 DEF Start, SyncAfterOn
  <2>2. Heeds(0, 0, 0, 0)'
    BY <1>1, <1>2, <1>5, <2>1, StartHeeds
  <2>3. \E at, wrong, taken, made : Heeds(at, wrong, taken, made)'
    BY <2>2
  <2>4. sync' \in 0..SyncEdges /\ flips' \in Nat
    BY <2>1, AudioInAssumption, SMT DEF AudioInAssumption
  <2>5. dec'.control \in 1..6
    BY <1>2, <2>1, SMT DEF InitDecoder, C_MAGIC
  <2> QED
    BY <1>1, <1>2, <2>1, <2>3, <2>4, <2>5 DEF BlockInv, InterruptOn
<1>6. CASE Poll
  <2>1. /\ pc = "poll" /\ pc' = "get" /\ UNCHANGED <<dec, written, result, timedout, ring, isr, tape, dropped>>
    BY <1>6 DEF Poll
  <2>2. UNCHANGED <<payload, flips, sync>>
    BY <2>1 DEF isr, tape
  <2>3. InterruptOn' /\ OneFault' => \E at, wrong, taken, made : Heeds(at, wrong, taken, made)'
    BY <1>2, <2>1, QuietHeeds DEF InterruptOn
  <2> QED
    BY <1>1, <1>2, <2>1, <2>2, <2>3 DEF BlockInv, InterruptOn
<1>7. CASE Timeout
  <2>1. /\ pc = "poll" /\ pc' = "off" /\ timedout'
        /\ UNCHANGED <<dec, written, result, ring, isr, tape, dropped>>
    BY <1>7 DEF Timeout
  <2>2. UNCHANGED <<payload, flips, sync>>
    BY <2>1 DEF isr, tape
  <2>3. InterruptOn' /\ OneFault' => \E at, wrong, taken, made : Heeds(at, wrong, taken, made)'
    BY <1>2, <2>1, QuietHeeds DEF InterruptOn
  <2> QED
    BY <1>1, <1>2, <2>1, <2>2, <2>3 DEF BlockInv, InterruptOn
<1>8. CASE Get
  <2>1. /\ pc = "get" /\ UNCHANGED <<result, timedout, payload, flips, sync, dropped>>
        /\ pc' = IF LoadOver(dec') THEN "off" ELSE "poll"
        /\ dec' = Decode(dec, Oldest(ring))
        /\ written' = IF Writes(dec) THEN Append(written, Oldest(ring)) ELSE written
    BY <1>8 DEF Get, isr, tape
  <2>2. written' \in Seq(Byte)
    <3>1. Oldest(ring) \in Byte
      BY <1>1, <2>1, TakenIsTail DEF RingInv
    <3> QED
      BY <1>2, <2>1, <3>1, AppendProperties
  <2>3. InterruptOn' /\ OneFault' => \E at, wrong, taken, made : Heeds(at, wrong, taken, made)'
    <3> SUFFICES ASSUME OneFault' PROVE \E at, wrong, taken, made : Heeds(at, wrong, taken, made)'
      OBVIOUS
    <3>1. InterruptOn /\ OneFault
      BY <2>1 DEF InterruptOn, OneFault
    <3>2. PICK at, wrong, taken, made : Heeds(at, wrong, taken, made)
      BY <1>2, <3>1
    <3>3. Heeds(at, wrong, taken + 1, made)'
      BY <1>1, <1>2, <1>8, <2>1, <3>2, GetHeeds
    <3> QED
      BY <3>3
  <2>4. IsDecoder(dec') /\ (~LoadOver(dec') => dec'.control \in 1..6)
    <3>1. dec.control \in 1..6
      BY <1>2, <2>1
    <3> QED
      BY <1>2, <2>1, <3>1, DecodeStays
  <2> QED
    BY <1>1, <1>2, <2>1, <2>2, <2>3, <2>4 DEF BlockInv, InterruptOn
<1>9. CASE Finish
  <2>1. /\ pc = "off" /\ pc' = "idle"
        /\ result' = IF dec.control = C_END THEN "loaded" ELSE "failed"
        /\ UNCHANGED <<dec, written, timedout, payload, pos, flips, sync, dropped>>
    BY <1>9 DEF Finish, isr, tape
  <2>2. InterruptOn
    BY <2>1 DEF InterruptOn
  <2>3. OneFault => /\ dec.control = C_END => written = payload
                    /\ dec.control < 0 => flips > 0
    <3> SUFFICES ASSUME OneFault
                 PROVE  /\ dec.control = C_END => written = payload
                        /\ dec.control < 0 => flips > 0
      OBVIOUS
    <3>1. PICK at, wrong, taken, made : Heeds(at, wrong, taken, made)
      BY <1>2, <2>2
    <3>2. Progress(payload, at, wrong, taken, dec, written) /\ (at = 0 \/ flips > 0)
      BY <3>1 DEF Heeds, Stream
    <3> QED
      BY <1>2, <3>2, ProgressMeans
  <2>4. LoadedMeansSaved'
    BY <2>1, <2>3 DEF LoadedMeansSaved, OneFault
  <2>5. CleanTapeLoads'
    <3>1. flips = 0 => flips <= 1 /\ ~(flips > 0)
      BY SMT
    <3> QED
      BY <1>2, <2>1, <2>3, <3>1 DEF CleanTapeLoads, OneFault, LoadOver
  <2>6. WritesStayInBlock'
    <3>1. OneFault => Len(written) <= IF payload = <<>> THEN (W + 2) \div W ELSE Len(payload)
      BY <1>2, <2>2, HeedsStays
    <3> QED
      BY <2>1, <3>1 DEF WritesStayInBlock, OneFault
  <2> QED
    BY <1>1, <1>2, <2>1, <2>4, <2>5, <2>6 DEF BlockInv, InterruptOn
<1>10. CASE \E misread \in BOOLEAN : Edge(misread)
  <2> PICK misread \in BOOLEAN : Edge(misread)
    BY <1>10
  <2>1. /\ UNCHANGED <<pc, dec, written, result, timedout, payload>> /\ InterruptOn
        /\ flips' = IF misread THEN flips + 1 ELSE flips
    BY DEF Edge, loader
  <2>2. flips' \in Nat /\ (flips' <= 1 => flips <= 1)
    BY <1>2, <2>1, SMT
  <2>3. sync' \in 0..SyncEdges
    BY <1>2, AudioInAssumption, SMT DEF Edge, Settle, NextBit, AudioInAssumption
  <2>4. ~dropped' => ~dropped
    BY DEF Edge, Settle, NextBit
  <2>5. OneFault' => \E at, wrong, taken, made : Heeds(at, wrong, taken, made)'
    <3> SUFFICES ASSUME OneFault' PROVE \E at, wrong, taken, made : Heeds(at, wrong, taken, made)'
      OBVIOUS
    <3>1. OneFault /\ flips' <= 1 /\ ~dropped'
      BY <2>2, <2>4 DEF OneFault
    <3>2. PICK at, wrong, taken, made : Heeds(at, wrong, taken, made)
      BY <1>2, <2>1, <3>1
    <3>3. \E at2, wrong2, made2 : Heeds(at2, wrong2, taken, made2)'
      BY <1>1, <1>2, <3>1, <3>2, EdgeHeeds
    <3> QED
      BY <3>3
  <2> QED
    BY <1>1, <1>2, <2>1, <2>2, <2>3, <2>5 DEF BlockInv, InterruptOn
<1>11. CASE UNCHANGED vars
  <2>1. UNCHANGED <<pc, dec, written, result, timedout, ring, isr, tape, dropped>>
    BY <1>11 DEF vars, loader
  <2>2. UNCHANGED <<payload, flips, sync, pos>>
    BY <2>1 DEF isr, tape
  <2>3. InterruptOn' /\ OneFault' => \E at, wrong, taken, made : Heeds(at, wrong, taken, made)'
    BY <1>2, <2>1, QuietHeeds DEF InterruptOn
  <2> QED
    BY <1>1, <1>2, <2>1, <2>2, <2>3
       DEF BlockInv, InterruptOn, LoadedMeansSaved, CleanTapeLoads, WritesStayInBlock
<1> QED
  BY <1>3, <1>4, <1>5, <1>6, <1>7, <1>8, <1>9, <1>10, <1>11 DEF Next, Loader

LEMMA BlockInvariant == Spec => []BlockInv
BY InitBlock, StepBlock, PTL DEF Spec

\* While load runs, what it has written is in the block.
LEMMA RunningStays ==
  ASSUME BlockInv, InterruptOn
  PROVE  WritesStayInBlock
<1> SUFFICES ASSUME OneFault
             PROVE  Len(written) <= IF payload = <<>> THEN (W + 2) \div W ELSE Len(payload)
  BY DEF WritesStayInBlock, OneFault
<1>1. PICK at, wrong, taken, made : Heeds(at, wrong, taken, made)
  BY DEF BlockInv
<1> QED
  BY <1>1, HeedsStays DEF BlockInv

\* When load returns 0, at most one pulse was misread and no byte was lost,
\* memory holds what was saved: no wrong bit gets past the magic number and
\* the two parities, wherever it is.
THEOREM LoadedIsSaved == Spec => []LoadedMeansSaved
<1>1. BlockInv => LoadedMeansSaved
  BY DEF BlockInv, LoadedMeansSaved
<1> QED
  BY <1>1, BlockInvariant, PTL

\* A tape without a fault that is read in time is loaded: load fails only
\* because it gave up waiting.
THEOREM CleanLoads == Spec => []CleanTapeLoads
<1>1. BlockInv => CleanTapeLoads
  BY DEF BlockInv, CleanTapeLoads
<1> QED
  BY <1>1, BlockInvariant, PTL

\* With one wrong bit at most, load writes no more than the saved bytes, and of
\* a block of no bytes, which has no end, no more than follows its header.
THEOREM WritesStay == Spec => []WritesStayInBlock
<1>1. BlockInv => WritesStayInBlock
  <2> SUFFICES ASSUME BlockInv PROVE WritesStayInBlock
    OBVIOUS
  <2>1. CASE pc \in {"prompt", "start"}
    BY <2>1, EmptyIsHarmless DEF BlockInv
  <2>2. CASE InterruptOn
    BY <2>2, RunningStays
  <2>3. CASE pc = "idle"
    BY <2>3 DEF BlockInv
  <2> QED
    BY <2>1, <2>2, <2>3 DEF BlockInv
<1> QED
  BY <1>1, BlockInvariant, PTL
=============================================================================
