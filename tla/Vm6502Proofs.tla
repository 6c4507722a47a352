---------------------------- MODULE Vm6502Proofs ----------------------------
(***************************************************************************)
(* The stack of the virtual machine, for every program, every text that a  *)
(* system call may write and every number of instructions.                 *)
(*                                                                         *)
(* That the stack page holds what was pushed is inductive only with the    *)
(* types of all registers and of both memories: an instruction that left a *)
(* register out of its byte, or a byte out of the memory, would move the   *)
(* stack pointer out of its page some time later.  That a return finds its *)
(* way needs the frames too: the bytes of each, wherever it is in the      *)
(* stack, say where to resume, and are not split by the end of the page.   *)
(***************************************************************************)
EXTENDS Vm6502, SequenceTheorems, TLAPS

Flags   == 0..7
Frames  == [next : Word, flags : SUBSET Flags]
Entries == [byte : Byte, frames : SUBSET Frames]

\* A memory, as far as it was written.
IsMemory(f) == DOMAIN f \subseteq Word /\ \A a \in DOMAIN f : f[a] \in Byte

TypeInv ==
  /\ r_a \in Byte /\ r_x \in Byte /\ r_y \in Byte /\ r_sp \in Byte
  /\ r_s \subseteq Flags /\ r_pc \in Word
  /\ IsMemory(local) /\ IsMemory(sram)
  /\ stacked \in Seq(Entries) /\ Len(stacked) <= StackSize

\* Entry k of the stack is in the stack page where it was pushed.
Cell(f, sp, k) == M!Holds(f, 256 + ((sp + k) % 256))
Holding(f, sp, st) == \A k \in 1..Len(st) : Cell(f, sp, k) = st[k].byte

\* The bytes of frame f, from entry k on, say where to resume.
Saves(st, k, f) ==
  IF f.flags = {}
  THEN (WordOf(<<st[k].byte, st[k + 1].byte>>) + 1) % 65536 = f.next
  ELSE /\ Bits(st[k].byte) = f.flags
       /\ WordOf(<<st[k + 1].byte, st[k + 2].byte>>) = f.next

Saving(sp, st) ==
  \A k \in 1..Len(st) : \A f \in st[k].frames :
    k + FrameSize(f) <= Len(st) + 1 =>
      ((sp + k) % 256) + FrameSize(f) <= 256 /\ Saves(st, k, f)

StackInv == ~spilt => Holding(local, r_sp, stacked) /\ Saving(r_sp, stacked)

VInv == TypeInv /\ StackInv

-----------------------------------------------------------------------------
(* Numbers.                                                                *)

LEMMA RangeIs == \A n, w \in Int : w \in 0..n <=> 0 <= w /\ w < n + 1
BY SMT

LEMMA LastWord == 65535 \in Int /\ 65535 + 1 = 65536
BY SMT

LEMMA WordIs == \A w \in Int : w \in Word <=> 0 <= w /\ w < 65536
<1> DEFINE n == 65535
<1>1. n \in Int /\ n + 1 = 65536 /\ Word = 0..n
  BY LastWord DEF Word
<1> HIDE DEF n
<1> QED
  BY <1>1, RangeIs, SMT

LEMMA WordIsNumber == \A w \in Word : w \in Int /\ 0 <= w /\ w < 65536
<1>1. Word \subseteq Int
  BY SMT DEF Word
<1> QED
  BY <1>1, WordIs, SMT

LEMMA ByteIs == Byte \subseteq Int /\ \A b \in Int : b \in Byte <=> 0 <= b /\ b < 256
BY SMT DEF Byte

LEMMA ModWord == \A x \in Int : x % 65536 \in Word /\ (x \in Word => x % 65536 = x)
<1> TAKE x \in Int
<1>1. x % 65536 \in Int /\ 0 <= x % 65536 /\ x % 65536 < 65536
  BY SMT
<1>2. 0 <= x /\ x < 65536 => x % 65536 = x
  BY SMT
<1> QED
  BY <1>1, <1>2, WordIs, SMT

LEMMA ModByte == \A x \in Int : x % 256 \in Byte /\ (x \in Byte => x % 256 = x)
BY SMT DEF Byte

\* The two bytes of a word, and the word of two bytes.
LEMMA WordParts ==
  ASSUME NEW w \in Word
  PROVE  w % 256 \in Byte /\ w \div 256 \in Byte /\ w = (w % 256) + 256 * (w \div 256)
<1>1. w \in Int /\ 0 <= w /\ w < 65536
  BY WordIsNumber, SMT
<1>2. w % 256 \in Int /\ w \div 256 \in Int
  BY <1>1, SMT
<1>3. 0 <= w % 256 /\ w % 256 < 256 /\ w = (w % 256) + 256 * (w \div 256)
  BY <1>1, SMT
<1>4. 0 <= w \div 256 /\ w \div 256 < 256
  BY <1>1, SMT
<1> QED
  BY <1>2, <1>3, <1>4, ByteIs, Zenon

LEMMA PartsWord ==
  ASSUME NEW low \in Byte, NEW high \in Byte
  PROVE  low + 256 * high \in Word
<1>1. low + 256 * high \in Int /\ 0 <= low + 256 * high /\ low + 256 * high < 65536
  BY SMT DEF Byte
<1> QED
  BY <1>1, WordIs, SMT

-----------------------------------------------------------------------------
(* The two memories.                                                       *)

LEMMA HoldsByte ==
  ASSUME NEW f, IsMemory(f), NEW a
  PROVE  M!Holds(f, a) \in Byte
BY DEF IsMemory, M!Holds, Byte

LEMMA ReadBytes ==
  ASSUME NEW f, IsMemory(f), NEW g, IsMemory(g), NEW a, NEW n \in Nat, NEW i \in 1..n
  PROVE  M!VmRead(f, g, a, n)[i] \in Byte
<1>1. M!VmRead(f, g, a, n)[i] =
        IF i <= M!Part(a, n) THEN M!Holds(f, a + i - 1)
        ELSE M!Holds(g, M!SramAddr(M!SramStart(a, M!Part(a, n)), i - M!Part(a, n)))
  BY DEF M!VmRead
<1> QED
  BY <1>1, HoldsByte

\* Byte i of a transfer has an address, and the address has that byte.
LEMMA PlaceOfByte ==
  ASSUME NEW start \in Word, NEW i \in Int, 1 <= i, i < 65536
  PROVE  M!SramAddr(start, i) \in Word /\ M!ByteAt(start, M!SramAddr(start, i)) = i
<1>1. start \in Int /\ 0 <= start /\ start < 65536
  BY WordIsNumber, SMT
<1>2. CASE start + i <= 65536
  <2>1. M!SramAddr(start, i) = start + i - 1
    BY <1>2 DEF M!SramAddr
  <2>2. start + i - 1 \in Int /\ 0 <= start + i - 1 /\ start + i - 1 < 65536 /\ start <= start + i - 1
    BY <1>1, <1>2, SMT
  <2>3. M!ByteAt(start, start + i - 1) = i
    BY <1>1, <2>2, SMT DEF M!ByteAt
  <2> QED
    BY <2>1, <2>2, <2>3, WordIs, SMT
<1>3. CASE ~(start + i <= 65536)
  <2> DEFINE a == start + i - 1 - 65536
  <2>1. M!SramAddr(start, i) = a
    BY <1>3 DEF M!SramAddr
  <2>2. a \in Int /\ 0 <= a /\ a < 65536 /\ ~(start <= a)
    BY <1>1, <1>3, SMT
  <2>3. M!ByteAt(start, a) = i
    BY <1>1, <2>2, SMT DEF M!ByteAt
  <2> HIDE DEF a
  <2> QED
    BY <2>1, <2>2, <2>3, WordIs, SMT
<1> QED
  BY <1>2, <1>3

LEMMA ByteAtIs ==
  ASSUME NEW start \in Word, NEW a \in Word
  PROVE  /\ M!ByteAt(start, a) \in Int /\ 1 <= M!ByteAt(start, a)
         /\ start <= a => M!ByteAt(start, a) = a - start + 1
         /\ a < start => M!ByteAt(start, a) = a - start + 1 + 65536
<1>1. start \in Int /\ 0 <= start /\ start < 65536 /\ a \in Int /\ 0 <= a /\ a < 65536
  BY WordIsNumber, SMT
<1> QED
  BY <1>1, SMT DEF M!ByteAt

LEMMA StoredIsMemory ==
  ASSUME NEW f, IsMemory(f), NEW start \in Word, NEW bytes \in Seq(Byte), Len(bytes) \in Word
  PROVE  IsMemory(M!Stored(f, start, bytes))
<1> DEFINE n == Len(bytes)
           D == DOMAIN f \cup {M!SramAddr(start, i) : i \in 1..n}
           g == [a \in D |-> IF M!ByteAt(start, a) <= n THEN bytes[M!ByteAt(start, a)] ELSE f[a]]
<1>1. n \in Nat /\ n < 65536
  BY LenProperties, WordIsNumber, SMT
<1>2. M!Stored(f, start, bytes) = g
  BY DEF M!Stored
<1>3. ASSUME NEW i \in 1..n
      PROVE  M!SramAddr(start, i) \in Word /\ M!ByteAt(start, M!SramAddr(start, i)) = i
  <2>1. i \in Int /\ 1 <= i /\ i < 65536
    BY <1>1, SMT
  <2> QED
    BY <2>1, PlaceOfByte
<1>4. D \subseteq Word
  BY <1>3 DEF IsMemory
<1>5. ASSUME NEW a \in D PROVE g[a] \in Byte
  <2> DEFINE i == M!ByteAt(start, a)
  <2>1. i \in Int /\ 1 <= i
    BY <1>4, ByteAtIs
  <2>2. CASE i <= n
    <3> HIDE DEF i
    <3>1. i \in 1..n
      BY <1>1, <2>1, <2>2, SMT
    <3> QED
      BY <2>2, <3>1, ElementOfSeq DEF i
  <2>3. CASE ~(i <= n)
    <3>1. a \notin {M!SramAddr(start, k) : k \in 1..n}
      <4> SUFFICES ASSUME NEW k \in 1..n, a = M!SramAddr(start, k) PROVE FALSE
        OBVIOUS
      <4>1. i = k
        BY <1>3
      <4> HIDE DEF i
      <4> QED
        BY <1>1, <2>3, <4>1, SMT
    <3>2. a \in DOMAIN f
      BY <3>1
    <3> QED
      BY <2>3, <3>2 DEF IsMemory
  <2> QED
    BY <2>2, <2>3
<1> HIDE DEF D
<1>6. DOMAIN g = D
  OBVIOUS
<1> QED
  BY <1>2, <1>4, <1>5, <1>6 DEF IsMemory

\* Where bytes are stored they are, and all others stay.
LEMMA StoredHolds ==
  ASSUME NEW f, IsMemory(f), NEW start \in Word, NEW bytes \in Seq(Byte), Len(bytes) \in Word,
         start + Len(bytes) <= 512, NEW a \in Int, 0 <= a, a < 512
  PROVE  M!Holds(M!Stored(f, start, bytes), a) =
           IF start <= a /\ a < start + Len(bytes) THEN bytes[a - start + 1] ELSE M!Holds(f, a)
<1> DEFINE n == Len(bytes)
           D == DOMAIN f \cup {M!SramAddr(start, i) : i \in 1..n}
           g == [b \in D |-> IF M!ByteAt(start, b) <= n THEN bytes[M!ByteAt(start, b)] ELSE f[b]]
<1>1. /\ n \in Nat /\ n < 65536 /\ start \in Int /\ 0 <= start /\ start + n <= 512
      /\ a \in Word
  BY LenProperties, WordIsNumber, WordIs, SMT
<1>2. M!Stored(f, start, bytes) = g /\ DOMAIN g = D
  BY DEF M!Stored
<1>3. \A i \in 1..n : M!SramAddr(start, i) = start + i - 1
  BY <1>1, SMT DEF M!SramAddr
<1>4. /\ start <= a => M!ByteAt(start, a) = a - start + 1
      /\ a < start => M!ByteAt(start, a) = a - start + 1 + 65536
  BY <1>1, ByteAtIs
<1>5. CASE start <= a /\ a < start + n
  <2>1. a - start + 1 \in 1..n /\ start + (a - start + 1) - 1 = a
    BY <1>1, <1>5, SMT
  <2>2. a \in D
    BY <1>3, <2>1
  <2>3. g[a] = bytes[a - start + 1]
    <3>1. M!ByteAt(start, a) = a - start + 1 /\ a - start + 1 <= n
      BY <1>4, <1>5, <2>1, SMT
    <3> QED
      BY <2>2, <3>1
  <2> HIDE DEF g, D, n
  <2> QED
    BY <1>2, <1>5, <2>2, <2>3 DEF M!Holds, n
<1>6. CASE ~(start <= a /\ a < start + n)
  <2>1. ~(M!ByteAt(start, a) <= n)
    <3>1. CASE a < start
      BY <1>1, <1>4, <3>1, SMT
    <3>2. CASE start <= a
      BY <1>1, <1>4, <1>6, <3>2, SMT
    <3> QED
      BY <1>1, <3>1, <3>2, SMT
  <2>2. a \in D <=> a \in DOMAIN f
    <3>1. ASSUME NEW i \in 1..n PROVE a # M!SramAddr(start, i)
      BY <1>1, <1>3, <1>6, SMT
    <3> QED
      BY <3>1
  <2>3. a \in D => g[a] = f[a]
    BY <2>1
  <2> HIDE DEF g, D
  <2> QED
    BY <1>2, <1>6, <2>2, <2>3 DEF M!Holds
<1> QED
  BY <1>5, <1>6

\* The first bytes of an access are in local.
LEMMA PartIs ==
  ASSUME NEW a \in Word, NEW n \in Nat
  PROVE  /\ M!Part(a, n) \in Nat /\ M!Part(a, n) <= n
         /\ a + M!Part(a, n) <= 512 \/ M!Part(a, n) = 0
         /\ a < 512 /\ n + a > 512 => M!Part(a, n) = 512 - a
         /\ a < 512 /\ ~(n + a > 512) => M!Part(a, n) = n
         /\ 512 <= a => M!Part(a, n) = 0
<1>1. a \in Int /\ 0 <= a
  BY WordIsNumber, SMT
<1> QED
  BY <1>1, SMT DEF M!Part

LEMMA Cut ==
  ASSUME NEW src \in Seq(Byte), NEW i \in Nat, NEW j \in Nat, 1 <= i, i <= j + 1, j <= Len(src)
  PROVE  /\ SubSeq(src, i, j) \in Seq(Byte) /\ Len(SubSeq(src, i, j)) = j - i + 1
         /\ \A k \in 1..(j - i + 1) : SubSeq(src, i, j)[k] = src[i + k - 1]
<1>1. Len(src) \in Nat
  BY LenProperties
<1>2. i \in 1..(Len(src) + 1) /\ j \in (i - 1)..Len(src)
  BY <1>1, SMT
<1>3. /\ SubSeq(src, i, j) \in Seq(Byte)
      /\ Len(SubSeq(src, i, j)) = IF i <= j THEN j - i + 1 ELSE 0
      /\ \A k \in 1..(j - i + 1) : SubSeq(src, i, j)[k] = src[i + k - 1]
  BY <1>2, SubSeqProperties
<1> QED
  BY <1>3, SMT

LEMMA LocalWrite ==
  ASSUME NEW f, IsMemory(f), NEW addr \in Word, NEW src \in Seq(Byte), Len(src) \in Word
  PROVE  /\ IsMemory(M!LocalWritten(f, addr, src))
         /\ \A a \in Int : 0 <= a /\ a < 512 =>
              M!Holds(M!LocalWritten(f, addr, src), a) =
                IF addr <= a /\ a < addr + Len(src) THEN src[a - addr + 1] ELSE M!Holds(f, a)
<1> DEFINE n == M!Part(addr, Len(src))
           s == SubSeq(src, 1, n)
<1>1. /\ addr \in Int /\ 0 <= addr /\ Len(src) \in Nat /\ Len(src) < 65536
  BY LenProperties, WordIsNumber, SMT
<1>2. /\ n \in Nat /\ n <= Len(src) /\ (addr + n <= 512 \/ n = 0)
      /\ addr < 512 /\ Len(src) + addr > 512 => n = 512 - addr
      /\ addr < 512 /\ ~(Len(src) + addr > 512) => n = Len(src)
      /\ 512 <= addr => n = 0
  <2>1. n \in Nat /\ n <= Len(src) /\ (addr + n <= 512 \/ n = 0)
    BY <1>1, PartIs
  <2>2. /\ addr < 512 /\ Len(src) + addr > 512 => n = 512 - addr
        /\ addr < 512 /\ ~(Len(src) + addr > 512) => n = Len(src)
    BY <1>1, SMT DEF M!Part
  <2>3. 512 <= addr => n = 0
    BY <1>1, PartIs
  <2> QED
    BY <2>1, <2>2, <2>3
<1>3. M!LocalWritten(f, addr, src) = IF n = 0 THEN f ELSE M!Stored(f, addr, s)
  BY DEF M!LocalWritten
<1>4. s \in Seq(Byte) /\ Len(s) = n /\ \A k \in 1..n : s[k] = src[k]
  <2> HIDE DEF n
  <2>1. /\ s \in Seq(Byte) /\ Len(s) = n - 1 + 1
        /\ \A k \in 1..(n - 1 + 1) : s[k] = src[1 + k - 1]
    BY <1>1, <1>2, Cut
  <2> HIDE DEF s
  <2> QED
    BY <1>2, <2>1, SMT
<1> HIDE DEF n, s
<1>5. n \in Word
  BY <1>1, <1>2, WordIs, SMT
<1>6. CASE n = 0
  <2>1. ASSUME NEW a \in Int, 0 <= a, a < 512 PROVE ~(addr <= a /\ a < addr + Len(src))
    BY <1>1, <1>2, <1>6, <2>1, SMT
  <2> QED
    BY <1>3, <1>6, <2>1
<1>7. CASE n # 0
  <2>1. IsMemory(M!Stored(f, addr, s))
    BY <1>4, <1>5, StoredIsMemory
  <2>2. ASSUME NEW a \in Int, 0 <= a, a < 512
        PROVE  M!Holds(M!Stored(f, addr, s), a) =
                 IF addr <= a /\ a < addr + Len(src) THEN src[a - addr + 1] ELSE M!Holds(f, a)
    <3>1. M!Holds(M!Stored(f, addr, s), a) =
            IF addr <= a /\ a < addr + n THEN s[a - addr + 1] ELSE M!Holds(f, a)
      BY <1>2, <1>4, <1>5, <1>7, <2>2, StoredHolds
    <3>2. (addr <= a /\ a < addr + n) <=> (addr <= a /\ a < addr + Len(src))
      BY <1>1, <1>2, <1>7, <2>2, SMT
    <3>3. addr <= a /\ a < addr + n => s[a - addr + 1] = src[a - addr + 1]
      <4>1. addr <= a /\ a < addr + n => a - addr + 1 \in 1..n
        BY <1>1, <1>2, <2>2, SMT
      <4> QED
        BY <1>4, <4>1
    <3> QED
      BY <3>1, <3>2, <3>3
  <2> QED
    BY <1>3, <1>7, <2>1, <2>2
<1> QED
  BY <1>6, <1>7

LEMMA LocalWriteHolds ==
  ASSUME NEW f, IsMemory(f), NEW addr \in Word, NEW src \in Seq(Byte), Len(src) \in Word,
         NEW a \in Int, 0 <= a, a < 512
  PROVE  M!Holds(M!LocalWritten(f, addr, src), a) =
           IF addr <= a /\ a < addr + Len(src) THEN src[a - addr + 1] ELSE M!Holds(f, a)
<1>1. \A b \in Int : 0 <= b /\ b < 512 =>
        M!Holds(M!LocalWritten(f, addr, src), b) =
          IF addr <= b /\ b < addr + Len(src) THEN src[b - addr + 1] ELSE M!Holds(f, b)
  BY LocalWrite
<1> QED
  BY <1>1

LEMMA SramWrite ==
  ASSUME NEW g, IsMemory(g), NEW addr \in Word, NEW src \in Seq(Byte), Len(src) \in Word
  PROVE  IsMemory(M!SramWritten(g, addr, src))
<1> DEFINE n == M!Part(addr, Len(src))
           s == SubSeq(src, n + 1, Len(src))
<1>1. /\ addr \in Int /\ 0 <= addr /\ addr < 65536 /\ Len(src) \in Nat /\ Len(src) < 65536
  BY LenProperties, WordIsNumber, SMT
<1>2. n \in Nat /\ n <= Len(src) /\ (addr + n <= 512 \/ n = 0)
  BY <1>1, PartIs
<1>3. M!SramWritten(g, addr, src) = M!Stored(g, addr + n, s)
  BY DEF M!SramWritten, M!SramStart
<1> HIDE DEF n
<1>4. addr + n \in Word
  BY <1>1, <1>2, WordIs, SMT
<1>5. s \in Seq(Byte) /\ Len(s) = Len(src) - (n + 1) + 1
  BY <1>1, <1>2, Cut
<1> HIDE DEF s
<1>6. Len(s) \in Word
  BY <1>1, <1>2, <1>5, WordIs, SMT
<1> QED
  BY <1>3, <1>4, <1>5, <1>6, StoredIsMemory

-----------------------------------------------------------------------------
(* The instructions.                                                       *)

\* The modes that name a place in the memory.
Places == {"zp", "zpx", "zpy", "abs", "absx", "absy", "indx", "indy"}

LEMMA AccumulatorIs ==
  ASSUME NEW i \in Accumulator
  PROVE  /\ i.mne \in {"LDA", "STA", "AND", "ORA", "EOR", "ADC", "SBC", "CMP", "BIT"}
         /\ i.mne = "STA" => i.mode \in Places
BY SMT DEF Accumulator, Family, Operand8, Store7, Places

LEMMA MemoryIs ==
  ASSUME NEW i \in Memory1
  PROVE  /\ i.mne \in {"ASL", "LSR", "ROL", "ROR", "INC", "DEC"}
         /\ i.mode \in Places \cup {"acc"}
BY SMT DEF Memory1, Family, Shift5, Memory4, Places

LEMMA IndexIs ==
  ASSUME NEW i \in Index
  PROVE  /\ i.mne \in {"LDX", "LDY", "STX", "STY", "CPX", "CPY"}
         /\ i.mne \in {"STX", "STY"} => i.mode \in Places
BY SMT DEF Index, Family, Memory3, Memory3y, Places

LEMMA RegistersIs ==
  ASSUME NEW i \in Registers
  PROVE  i.mne \in {"TAX", "TXA", "TAY", "TYA", "TSX", "TXS", "INX", "DEX", "INY", "DEY",
                    "NOP", "CLC", "SEC", "CLI", "SEI", "CLD", "SED", "CLV"}
BY SMT DEF Registers, Implied

LEMMA JumpIs ==
  ASSUME NEW i \in Control, i.mne = "JMP"
  PROVE  i.mode \in {"abs", "ind"}
BY SMT DEF Control, Family, Implied

LEMMA LengthIs == ASSUME NEW i PROVE LengthOf(i) \in 1..3
BY DEF LengthOf

-----------------------------------------------------------------------------
(* What the arithmetic gives.                                              *)

IsResult(r) == r.v \in Byte /\ r.f \subseteq Flags

LEMMA NzIs == \A v : NZ(v) \subseteq Flags
BY SMT DEF NZ, When, Nf, Zf, Flags

LEMMA WhenIs == \A cond : \A f \in Flags : When(cond, f) \subseteq Flags
BY DEF When

LEMMA FlagsAre == {Cf, Zf, If, Df, Bf, 5, Vf, Nf} \subseteq Flags
BY SMT DEF Cf, Zf, If, Df, Bf, Vf, Nf, Flags

LEMMA ResultIs ==
  ASSUME NEW v \in Byte, NEW f \in SUBSET Flags
  PROVE  IsResult(Result(v, f))
BY DEF IsResult, Result

\* Two digits of four bits make a byte.
LEMMA DigitsByte == \A a \in Int, b \in Int : (a % 16) + 16 * (b % 16) \in Byte
<1> TAKE a \in Int, b \in Int
<1> DEFINE x == a % 16
           y == b % 16
<1>1. x \in 0..15 /\ y \in 0..15
  BY SMT
<1> HIDE DEF x, y
<1>2. x + 16 * y \in Byte
  BY <1>1, SMT DEF Byte
<1> QED
  BY <1>2 DEF x, y

LEMMA AddIs ==
  ASSUME NEW a \in Byte, NEW m \in Byte, NEW c \in Bit
  PROVE  IsResult(Adc(a, m, c)) /\ IsResult(AdcDecimal(a, m, c))
<1>1. IsResult(Adc(a, m, c))
  <2>1. (a + m + c) % 256 \in Byte
    <3>1. a + m + c \in Int
      BY ByteIs, SMT DEF Bit
    <3> QED
      BY <3>1, ModByte
  <2> QED
    BY <2>1, NzIs, WhenIs, FlagsAre, ResultIs DEF Adc
<1>2. IsResult(AdcDecimal(a, m, c))
  <2> DEFINE low  == Adjusted(Low(a) + Low(m) + c)
             high == Adjusted(High(a) + High(m) + (IF low > 15 THEN 1 ELSE 0))
             v    == Low(low) + 16 * Low(high)
  <2>1. low \in Int
    BY ByteIs, SMT DEF Adjusted, Low, Bit
  <2> HIDE DEF low
  <2>2. high \in Int
    BY <2>1, ByteIs, SMT DEF Adjusted, High
  <2> HIDE DEF high
  <2>3. v \in Byte
    BY <2>1, <2>2, DigitsByte DEF Low
  <2>4. AdcDecimal(a, m, c) = Result(v, When(v = 0, Zf) \cup When(high > 15, Cf))
    BY DEF AdcDecimal, v, high, low
  <2> HIDE DEF v
  <2> QED
    BY <2>3, <2>4, WhenIs, FlagsAre, ResultIs
<1> QED
  BY <1>1, <1>2

LEMMA SubtractIs ==
  ASSUME NEW a \in Byte, NEW m \in Byte, NEW c \in Bit
  PROVE  IsResult(Sbc(a, m, c)) /\ IsResult(SbcDecimal(a, m, c))
<1>1. IsResult(Sbc(a, m, c))
  <2>1. (a - m - (1 - c)) % 256 \in Byte
    <3>1. a - m - (1 - c) \in Int
      BY ByteIs, SMT DEF Bit
    <3> QED
      BY <3>1, ModByte
  <2> QED
    BY <2>1, NzIs, WhenIs, FlagsAre, ResultIs DEF Sbc
<1>2. IsResult(SbcDecimal(a, m, c))
  <2> DEFINE low  == Borrowed(Low(a) - Low(m) - (1 - c))
             high == Borrowed(High(a) - High(m) - Borrow(low))
             v    == Low(low) + 16 * Low(high)
  <2>1. low \in Int
    BY ByteIs, SMT DEF Borrowed, Low, Bit
  <2> HIDE DEF low
  <2>2. high \in Int
    <3>1. Borrow(low) \in Int
      BY <2>1, SMT DEF Borrow, High
    <3> QED
      BY <3>1, ByteIs, SMT DEF Borrowed, High
  <2> HIDE DEF high
  <2>3. v \in Byte
    BY <2>1, <2>2, DigitsByte DEF Low
  <2>4. SbcDecimal(a, m, c) = Result(v, When(v = 0, Zf) \cup When(high >= 0, Cf))
    BY DEF SbcDecimal, v, high, low
  <2> HIDE DEF v
  <2> QED
    BY <2>3, <2>4, WhenIs, FlagsAre, ResultIs
<1> QED
  BY <1>1, <1>2

LEMMA ShiftIs ==
  ASSUME NEW v \in Byte, NEW c \in Bit
  PROVE  IsResult(Asl(v)) /\ IsResult(Lsr(v)) /\ IsResult(Rol(v, c)) /\ IsResult(Ror(v, c))
<1>1. (2 * v) % 256 \in Byte /\ v \div 2 \in Byte
  BY SMT DEF Byte
<1>2. ((2 * v) % 256) + c \in Byte
  BY SMT DEF Byte, Bit
<1>3. v \div 2 + 128 * c \in Byte
  BY SMT DEF Byte, Bit
<1> QED
  BY <1>1, <1>2, <1>3, NzIs, WhenIs, FlagsAre, ResultIs DEF Asl, Lsr, Rol, Ror

LEMMA CompareIs ==
  ASSUME NEW r \in Byte, NEW m \in Byte
  PROVE  IsResult(Compare(r, m))
<1>1. (r - m) % 256 \in Byte
  BY SMT DEF Byte
<1> QED
  BY <1>1, NzIs, WhenIs, FlagsAre, ResultIs DEF Compare

\* A set of flags, as a byte, is that set again.
LEMMA ByteOfIs ==
  ASSUME NEW s
  PROVE  ByteOf(s) \in Byte
BY SMT DEF ByteOf, Weight, Byte

LEMMA BitsAre == \A v : Bits(v) \subseteq Flags
BY DEF Bits, Flags

LEMMA BitsOfByte ==
  ASSUME NEW s \in SUBSET Flags
  PROVE  Bits(ByteOf(s)) = s
<1> DEFINE w(b) == IF b \in s THEN 1 ELSE 0
<1>1. \A b : w(b) \in 0..1 /\ (b \in s <=> w(b) = 1)
  OBVIOUS
<1>2. ByteOf(s) = w(0) + 2 * w(1) + 4 * w(2) + 8 * w(3) + 16 * w(4) + 32 * w(5) + 64 * w(6) + 128 * w(7)
  BY SMT DEF ByteOf, Weight
<1> DEFINE n == ByteOf(s)
<1> HIDE DEF w
<1>3. /\ n % 2 = w(0) /\ (n \div 2) % 2 = w(1) /\ (n \div 4) % 2 = w(2) /\ (n \div 8) % 2 = w(3)
      /\ (n \div 16) % 2 = w(4) /\ (n \div 32) % 2 = w(5)
      /\ (n \div 64) % 2 = w(6) /\ (n \div 128) % 2 = w(7)
  BY <1>1, <1>2, SMT
<1>4. /\ Weight[1] = 1 /\ Weight[2] = 2 /\ Weight[3] = 4 /\ Weight[4] = 8
      /\ Weight[5] = 16 /\ Weight[6] = 32 /\ Weight[7] = 64 /\ Weight[8] = 128
  BY DEF Weight
<1> HIDE DEF n
<1>5. n \in Int
  BY <1>1, <1>2, SMT DEF n
<1>6. \A b \in 0..7 : (n \div Weight[b + 1]) % 2 = w(b)
  BY <1>3, <1>4, <1>5, SMT
<1>7. Bits(n) = {b \in 0..7 : w(b) = 1}
  BY <1>6, Zenon DEF Bits
<1>8. s = {b \in 0..7 : w(b) = 1}
  BY <1>1, Zenon DEF Flags
<1> QED
  BY <1>7, <1>8 DEF n

-----------------------------------------------------------------------------
(* What the machine reads, and what it makes of it.                        *)

LEMMA ReadIs ==
  ASSUME TypeInv, NEW a, NEW n \in Nat, NEW i \in 1..n
  PROVE  Read(a, n)[i] \in Byte
BY ReadBytes DEF TypeInv, Read

LEMMA ReadWord ==
  ASSUME TypeInv, NEW a
  PROVE  WordOf(Read(a, 2)) \in Word /\ ReadByte(a) \in Byte
<1>1. Read(a, 2)[1] \in Byte /\ Read(a, 2)[2] \in Byte /\ Read(a, 1)[1] \in Byte
  BY ReadIs
<1> QED
  BY <1>1, PartsWord DEF WordOf, ReadByte

LEMMA NextIs == TypeInv => Next1 \in Byte /\ Next2 \in Word
<1> SUFFICES ASSUME TypeInv PROVE Next1 \in Byte /\ Next2 \in Word
  OBVIOUS
<1>1. Fetched[2] \in Byte /\ Fetched[3] \in Byte
  BY ReadIs DEF Fetched
<1> QED
  BY <1>1, PartsWord DEF Next1, Next2

LEMMA ByteInWord == Byte \subseteq Word
<1> SUFFICES ASSUME NEW b \in Byte PROVE b \in Word
  OBVIOUS
<1>1. b \in Int /\ 0 <= b /\ b < 65536
  BY SMT DEF Byte
<1> QED
  BY <1>1, WordIs

LEMMA IndexedIs ==
  ASSUME NEW b \in Byte, NEW r \in Byte, NEW w \in Word
  PROVE  Indexed(b, r) \in Byte /\ (w + r) % 65536 \in Word
<1>1. b + r \in Int /\ w + r \in Int
  BY ByteIs, WordIsNumber, SMT
<1> QED
  BY <1>1, ModByte, ModWord DEF Indexed

LEMMA EffectiveIs ==
  ASSUME TypeInv, Mode \in Places
  PROVE  EffectiveAddr \in Word
<1>1. r_x \in Byte /\ r_y \in Byte /\ Next1 \in Byte /\ Next2 \in Word
  BY NextIs DEF TypeInv
<1> USE DEF EffectiveAddr
<1>2. CASE Mode = "zp"
  BY <1>1, <1>2, ByteInWord
<1>3. CASE Mode = "zpx"
  BY <1>1, <1>3, ByteInWord, IndexedIs
<1>4. CASE Mode = "zpy"
  BY <1>1, <1>4, ByteInWord, IndexedIs
<1>5. CASE Mode = "abs"
  BY <1>1, <1>5
<1>6. CASE Mode = "absx"
  BY <1>1, <1>6, IndexedIs
<1>7. CASE Mode = "absy"
  BY <1>1, <1>7, IndexedIs
<1>8. CASE Mode = "indx"
  BY <1>1, <1>8, ReadWord
<1>9. CASE Mode = "indy"
  <2> DEFINE w == WordOf(Read(Next1, 2))
  <2>1. w \in Word
    BY ReadWord
  <2>2. EffectiveAddr = IndirectY(w, r_y)
    BY <1>9
  <2>3. IndirectY(w, r_y) = (w + r_y) % 65536
    BY DEF IndirectY
  <2> HIDE DEF w, EffectiveAddr
  <2>4. (w + r_y) % 65536 \in Word
    BY <1>1, <2>1, IndexedIs
  <2> QED
    BY <2>2, <2>3, <2>4
<1> QED
  BY <1>2, <1>3, <1>4, <1>5, <1>6, <1>7, <1>8, <1>9 DEF Places

LEMMA OperandIs == TypeInv => Operand \in Byte
<1> SUFFICES ASSUME TypeInv PROVE Operand \in Byte
  OBVIOUS
<1>1. /\ Operand \in {Next1, r_a, 0, ReadByte(EffectiveAddr)}
  BY DEF Operand
<1> QED
  BY <1>1, NextIs, ReadWord, ByteIs DEF TypeInv

IsOutcome(o) ==
  /\ o.to \in {"a", "x", "y", "sp", "m", "none"}
  /\ o.v \in Byte /\ o.sets \subseteq Flags

Targets == {"a", "x", "y", "sp", "m"}

LEMMA MovedIs ==
  \A to \in Targets, v \in Byte : IsOutcome(Moved(to, v)) /\ Moved(to, v).to = to
BY NzIs DEF IsOutcome, Outcome, Moved, Targets

LEMMA KeptIs ==
  \A to \in Targets, v \in Byte : IsOutcome(Kept(to, v)) /\ Kept(to, v).to = to
BY DEF IsOutcome, Outcome, Kept, Targets

LEMMA ComputedIs ==
  \A to \in Targets : \A r : IsResult(r) => IsOutcome(Computed(to, r)) /\ Computed(to, r).to = to
BY DEF IsOutcome, Outcome, Computed, Targets, IsResult

LEMMA AddedIs ==
  \A r : IsResult(r) => IsOutcome(Added(r)) /\ Added(r).to = "a"
BY DEF IsOutcome, Outcome, Added, IsResult

LEMMA FlagIsIs ==
  \A clears : \A sets \in SUBSET Flags :
    IsOutcome(FlagIs(clears, sets)) /\ FlagIs(clears, sets).to = "none"
BY ByteIs, SMT DEF IsOutcome, Outcome, FlagIs

LEMMA CarryIs == C \in Bit
BY DEF C, Bit

LEMMA StepByte == \A v \in Byte : (v + 1) % 256 \in Byte /\ (v - 1) % 256 \in Byte
BY SMT DEF Byte

LEMMA AccumulatorOutcomeIs ==
  ASSUME TypeInv, NEW m \in Byte, Decode[Code] \in Accumulator
  PROVE  /\ IsOutcome(AccumulatorOutcome(m))
         /\ AccumulatorOutcome(m).to \in {"a", "m", "none"}
         /\ AccumulatorOutcome(m).to = "m" => Mode \in Places
<1> DEFINE o == AccumulatorOutcome(m)
           Good == IsOutcome(o) /\ o.to \in {"a", "m", "none"} /\ (o.to = "m" => Mode \in Places)
<1>1. /\ Mne \in {"LDA", "STA", "AND", "ORA", "EOR", "ADC", "SBC", "CMP", "BIT"}
      /\ Mne = "STA" => Mode \in Places
  BY AccumulatorIs DEF Mne, Mode
<1>2. r_a \in Byte /\ C \in Bit /\ "a" \in Targets /\ "m" \in Targets
  BY CarryIs DEF TypeInv, Targets
<1> SUFFICES Good
  OBVIOUS
<1>3. CASE Mne = "LDA"
  <2>1. o = Moved("a", m)
    BY <1>3 DEF AccumulatorOutcome
  <2> QED
    BY <1>2, <2>1, MovedIs
<1>4. CASE Mne = "STA"
  <2>1. o = Kept("m", r_a)
    BY <1>4 DEF AccumulatorOutcome
  <2> QED
    BY <1>1, <1>2, <1>4, <2>1, KeptIs
<1>5. CASE Mne \in {"AND", "ORA", "EOR"}
  <2>1. \E s : o = Moved("a", ByteOf(s))
    BY <1>5 DEF AccumulatorOutcome
  <2> QED
    BY <1>2, <2>1, ByteOfIs, MovedIs
<1>6. CASE Mne = "ADC"
  <2>1. o \in {Added(AdcDecimal(r_a, m, C)), Added(Adc(r_a, m, C))}
    BY <1>6 DEF AccumulatorOutcome
  <2>2. IsResult(Adc(r_a, m, C)) /\ IsResult(AdcDecimal(r_a, m, C))
    BY <1>2, AddIs
  <2> QED
    BY <2>1, <2>2, AddedIs
<1>7. CASE Mne = "SBC"
  <2>1. o \in {Added(SbcDecimal(r_a, m, C)), Added(Sbc(r_a, m, C))}
    BY <1>7 DEF AccumulatorOutcome
  <2>2. IsResult(Sbc(r_a, m, C)) /\ IsResult(SbcDecimal(r_a, m, C))
    BY <1>2, SubtractIs
  <2> QED
    BY <2>1, <2>2, AddedIs
<1>8. CASE Mne = "CMP"
  <2>1. o = FlagIs({Nf, Zf, Cf}, Compare(r_a, m).f)
    BY <1>8 DEF AccumulatorOutcome
  <2>2. Compare(r_a, m).f \subseteq Flags
    BY <1>2, CompareIs DEF IsResult
  <2> QED
    BY <2>1, <2>2, FlagIsIs
<1>9. CASE Mne = "BIT"
  <2> DEFINE sets == (Bits(m) \cap {Nf, Vf}) \cup When(Bits(r_a) \cap Bits(m) = {}, Zf)
  <2>1. o = FlagIs({Nf, Vf, Zf}, sets)
    BY <1>9 DEF AccumulatorOutcome
  <2>2. sets \subseteq Flags
    BY BitsAre, WhenIs, FlagsAre
  <2> HIDE DEF sets
  <2> QED
    BY <2>1, <2>2, FlagIsIs
<1> QED
  BY <1>1, <1>3, <1>4, <1>5, <1>6, <1>7, <1>8, <1>9

LEMMA MemoryOutcomeIs ==
  ASSUME NEW m \in Byte, Decode[Code] \in Memory1
  PROVE  /\ IsOutcome(MemoryOutcome(m)) /\ MemoryOutcome(m).to = "m"
         /\ Mode \in Places \cup {"acc"}
<1> DEFINE o == MemoryOutcome(m)
<1>1. /\ Mne \in {"ASL", "LSR", "ROL", "ROR", "INC", "DEC"}
      /\ Mode \in Places \cup {"acc"}
  BY MemoryIs DEF Mne, Mode
<1>2. "m" \in Targets /\ C \in Bit
  BY CarryIs DEF Targets
<1>3. CASE Mne \in {"ASL", "LSR", "ROL", "ROR"}
  <2>1. o \in {Computed("m", Asl(m)), Computed("m", Lsr(m)), Computed("m", Rol(m, C)),
               Computed("m", Ror(m, C))}
    BY <1>3 DEF MemoryOutcome
  <2>2. IsResult(Asl(m)) /\ IsResult(Lsr(m)) /\ IsResult(Rol(m, C)) /\ IsResult(Ror(m, C))
    BY <1>2, ShiftIs
  <2> QED
    BY <1>1, <1>2, <2>1, <2>2, ComputedIs
<1>4. CASE Mne \in {"INC", "DEC"}
  <2>1. o \in {Moved("m", (m + 1) % 256), Moved("m", (m - 1) % 256)}
    BY <1>4 DEF MemoryOutcome
  <2> QED
    BY <1>1, <1>2, <2>1, StepByte, MovedIs
<1> QED
  BY <1>1, <1>3, <1>4

LEMMA IndexOutcomeIs ==
  ASSUME TypeInv, NEW m \in Byte, Decode[Code] \in Index
  PROVE  /\ IsOutcome(IndexOutcome(m))
         /\ IndexOutcome(m).to \in {"x", "y", "m", "none"}
         /\ IndexOutcome(m).to = "m" => Mode \in Places
<1> DEFINE o == IndexOutcome(m)
<1>1. /\ Mne \in {"LDX", "LDY", "STX", "STY", "CPX", "CPY"}
      /\ Mne \in {"STX", "STY"} => Mode \in Places
  BY IndexIs DEF Mne, Mode
<1>2. r_x \in Byte /\ r_y \in Byte /\ {"x", "y", "m"} \subseteq Targets
  BY DEF TypeInv, Targets
<1>3. CASE Mne \in {"LDX", "LDY"}
  <2>1. o \in {Moved("x", m), Moved("y", m)}
    BY <1>3 DEF IndexOutcome
  <2> QED
    BY <1>2, <2>1, MovedIs
<1>4. CASE Mne \in {"STX", "STY"}
  <2>1. o \in {Kept("m", r_x), Kept("m", r_y)}
    BY <1>4 DEF IndexOutcome
  <2> QED
    BY <1>1, <1>2, <1>4, <2>1, KeptIs
<1>5. CASE Mne \in {"CPX", "CPY"}
  <2>1. o \in {FlagIs({Nf, Zf, Cf}, Compare(r_x, m).f), FlagIs({Nf, Zf, Cf}, Compare(r_y, m).f)}
    BY <1>5 DEF IndexOutcome
  <2>2. Compare(r_x, m).f \subseteq Flags /\ Compare(r_y, m).f \subseteq Flags
    BY <1>2, CompareIs DEF IsResult
  <2> QED
    BY <2>1, <2>2, FlagIsIs
<1> QED
  BY <1>1, <1>3, <1>4, <1>5

LEMMA RegisterOutcomeIs ==
  ASSUME TypeInv, Decode[Code] \in Registers
  PROVE  IsOutcome(RegisterOutcome) /\ RegisterOutcome.to # "m"
<1> DEFINE o == RegisterOutcome
<1>1. Mne \in {"TAX", "TXA", "TAY", "TYA", "TSX", "TXS", "INX", "DEX", "INY", "DEY",
               "NOP", "CLC", "SEC", "CLI", "SEI", "CLD", "SED", "CLV"}
  BY RegistersIs DEF Mne
<1>2. /\ r_a \in Byte /\ r_x \in Byte /\ r_y \in Byte /\ r_sp \in Byte
      /\ {"a", "x", "y", "sp"} \subseteq Targets
  BY DEF TypeInv, Targets
<1>3. CASE Mne \in {"TAX", "TXA", "TAY", "TYA", "TSX"}
  <2>1. \E to \in {"a", "x", "y"}, v \in Byte : o = Moved(to, v)
    BY <1>2, <1>3 DEF RegisterOutcome
  <2> QED
    BY <1>2, <2>1, MovedIs
<1>4. CASE Mne = "TXS"
  <2>1. o = Kept("sp", r_x)
    BY <1>4 DEF RegisterOutcome
  <2> QED
    BY <1>2, <2>1, KeptIs
<1>5. CASE Mne \in {"INX", "DEX", "INY", "DEY"}
  <2>1. o \in {Moved("x", (r_x + 1) % 256), Moved("x", (r_x - 1) % 256),
               Moved("y", (r_y + 1) % 256), Moved("y", (r_y - 1) % 256)}
    BY <1>5 DEF RegisterOutcome
  <2> QED
    BY <1>2, <2>1, StepByte, MovedIs
<1>6. CASE Mne \in {"NOP", "CLC", "SEC", "CLI", "SEI", "CLD", "SED", "CLV"}
  <2>1. \E clears : \E sets \in SUBSET Flags : o = FlagIs(clears, sets)
    BY <1>6, FlagsAre DEF RegisterOutcome
  <2> QED
    BY <2>1, FlagIsIs
<1> QED
  BY <1>1, <1>3, <1>4, <1>5, <1>6

-----------------------------------------------------------------------------
(* The stack page.                                                         *)

LEMMA ModAdd == \A a, b \in Int : ((a % 256) + b) % 256 = (a + b) % 256
<1> TAKE a, b \in Int
<1> DEFINE r == a % 256
           q == a \div 256
<1>1. r \in Int /\ q \in Int /\ a = 256 * q + r
  BY SMT
<1> HIDE DEF r, q
<1>2. (256 * q + (r + b)) % 256 = (r + b) % 256
  BY <1>1, SMT
<1>3. a + b = 256 * q + (r + b)
  BY <1>1, SMT
<1> QED
  BY <1>2, <1>3 DEF r

LEMMA StackRead ==
  ASSUME NEW n \in Nat, NEW a \in Int, 256 <= a, a + n <= 512, NEW i \in 1..n
  PROVE  Read(a, n)[i] = M!Holds(local, a + i - 1)
<1>1. M!Part(a, n) = n
  BY SMT DEF M!Part
<1>2. Read(a, n)[i] = IF i <= n THEN M!Holds(local, a + i - 1)
        ELSE M!Holds(sram, M!SramAddr(M!SramStart(a, n), i - n))
  BY <1>1 DEF Read, M!VmRead
<1>3. i <= n
  BY SMT
<1> QED
  BY <1>2, <1>3

LEMMA CellRead ==
  ASSUME r_sp \in Byte, NEW k \in Int
  PROVE  ReadByte(256 + ((r_sp + k) % 256)) = Cell(local, r_sp, k)
<1> DEFINE a == 256 + ((r_sp + k) % 256)
<1>1. a \in Int /\ 256 <= a /\ a + 1 <= 512 /\ a + 1 - 1 = a
  BY ByteIs, SMT
<1>2. ReadByte(a) = M!Holds(local, a + 1 - 1)
  <2> HIDE DEF a
  <2> QED
    BY <1>1, StackRead DEF ReadByte
<1> QED
  BY <1>1, <1>2 DEF Cell

LEMMA PulledIs ==
  ASSUME r_sp \in Byte, NEW n \in 1..3, ((r_sp + 1) % 256) + n <= 256, NEW i \in 1..n
  PROVE  Pulled(n)[i] = Cell(local, r_sp, i)
<1> DEFINE a == 256 + ((r_sp + 1) % 256)
<1>1. StackAddr(r_sp + 1) = a
  BY SMT DEF Byte, StackAddr
<1>2. a \in Int /\ 256 <= a /\ a + n <= 512
  BY SMT DEF Byte
<1>3. a + i - 1 = 256 + ((r_sp + i) % 256)
  BY SMT DEF Byte
<1> HIDE DEF a
<1>4. Read(a, n)[i] = M!Holds(local, a + i - 1)
  BY <1>2, StackRead, SMT
<1> QED
  BY <1>1, <1>3, <1>4 DEF Pulled, Cell

LEMMA StackAddrIs == \A v \in Int : StackAddr(v) \in Word
<1> TAKE v \in Int
<1>1. CASE v \in 0..255
  <2>1. 256 + v \in Int /\ 0 <= 256 + v /\ 256 + v < 65536
    BY <1>1, SMT
  <2> QED
    BY <1>1, <2>1, WordIs DEF StackAddr
<1>2. CASE v \notin 0..255
  BY <1>2, ModWord DEF StackAddr
<1> QED
  BY <1>1, <1>2

\* A step that moves neither the stack pointer nor the page keeps the stack.
LEMMA Undisturbed ==
  ASSUME r_sp \in Byte, StackInv, UNCHANGED <<r_sp, stacked, spilt>>,
         stacked \in Seq(Entries),
         \A a \in StackPage : M!Holds(local', a) = M!Holds(local, a)
  PROVE  StackInv'
<1> SUFFICES ASSUME ~spilt PROVE Holding(local', r_sp, stacked) /\ Saving(r_sp, stacked)
  BY DEF StackInv
<1>1. Holding(local, r_sp, stacked) /\ Saving(r_sp, stacked)
  BY DEF StackInv
<1>2. ASSUME NEW k \in 1..Len(stacked) PROVE Cell(local', r_sp, k) = Cell(local, r_sp, k)
  <2>1. 256 + ((r_sp + k) % 256) \in StackPage
    BY ByteIs, SMT DEF StackPage
  <2> QED
    BY <2>1 DEF Cell
<1> QED
  BY <1>1, <1>2 DEF Holding

LEMMA Forgotten ==
  ASSUME Forget
  PROVE  StackInv' /\ stacked' \in Seq(Entries) /\ Len(stacked') <= StackSize
<1>1. Len(<<>>) = 0 /\ 1..0 = {} /\ 0 <= 256
  BY SMT
<1>2. stacked' = <<>>
  BY DEF Forget
<1>3. <<>> \in Seq(Entries)
  BY EmptySeq
<1> QED
  BY <1>1, <1>2, <1>3 DEF StackInv, Holding, Saving, StackSize

\* What is left of a stack without its first n entries.
LEMMA Rest ==
  ASSUME NEW st \in Seq(Entries), NEW n \in 1..3
  PROVE  /\ SubSeq(st, n + 1, Len(st)) \in Seq(Entries)
         /\ Len(SubSeq(st, n + 1, Len(st))) \in Nat
         /\ Len(SubSeq(st, n + 1, Len(st))) <= Len(st)
         /\ \A k \in 1..Len(SubSeq(st, n + 1, Len(st))) :
              n + k <= Len(st) /\ SubSeq(st, n + 1, Len(st))[k] = st[n + k]
         /\ n <= Len(st) => Len(SubSeq(st, n + 1, Len(st))) = Len(st) - n
<1> DEFINE s == SubSeq(st, n + 1, Len(st))
<1>1. Len(st) \in Nat
  BY LenProperties
<1>2. CASE n <= Len(st)
  <2>1. n + 1 \in 1..(Len(st) + 1) /\ Len(st) \in ((n + 1) - 1)..Len(st)
    BY <1>1, <1>2, SMT
  <2>2. /\ s \in Seq(Entries)
        /\ Len(s) = IF n + 1 <= Len(st) THEN Len(st) - (n + 1) + 1 ELSE 0
        /\ \A k \in 1..(Len(st) - (n + 1) + 1) : s[k] = st[(n + 1) + k - 1]
    BY <2>1, SubSeqProperties
  <2> HIDE DEF s
  <2>3. Len(s) = Len(st) - n
    BY <1>1, <1>2, <2>2, SMT
  <2>4. ASSUME NEW k \in 1..Len(s) PROVE n + k <= Len(st) /\ s[k] = st[n + k]
    <3>1. k \in 1..(Len(st) - (n + 1) + 1) /\ (n + 1) + k - 1 = n + k /\ n + k <= Len(st)
      BY <1>1, <1>2, <2>3, SMT
    <3> QED
      BY <2>2, <3>1
  <2> QED
    BY <1>1, <1>2, <2>2, <2>3, <2>4, SMT DEF s
<1>3. CASE ~(n <= Len(st))
  <2>1. s = <<>>
    <3>1. n + 1 > Len(st)
      BY <1>1, <1>3, SMT
    <3> QED
      BY <1>1, <3>1, SubSeqEmpty, SMT
  <2>2. Len(s) = 0 /\ s \in Seq(Entries)
    BY <2>1, EmptySeq
  <2> HIDE DEF s
  <2> QED
    BY <1>1, <1>3, <2>2, SMT DEF s
<1> QED
  BY <1>2, <1>3

\* The bytes of a frame are the same ones when the entries before it go.
LEMMA SavesShift ==
  ASSUME NEW st, NEW st2, NEW j \in Int, NEW k \in Int, NEW f, FrameSize(f) \in 2..3,
         f.flags = {} => FrameSize(f) = 2, f.flags # {} => FrameSize(f) = 3,
         \A i \in 0..(FrameSize(f) - 1) : st2[k + i].byte = st[j + i].byte
  PROVE  Saves(st2, k, f) <=> Saves(st, j, f)
<1>1. CASE f.flags = {}
  <2>1. 0 \in 0..(FrameSize(f) - 1) /\ 1 \in 0..(FrameSize(f) - 1) /\ k + 0 = k /\ j + 0 = j
    BY <1>1, SMT
  <2>2. st2[k].byte = st[j].byte /\ st2[k + 1].byte = st[j + 1].byte
    BY <2>1
  <2> QED
    BY <1>1, <2>2 DEF Saves
<1>2. CASE f.flags # {}
  <2>1. /\ 0 \in 0..(FrameSize(f) - 1) /\ 1 \in 0..(FrameSize(f) - 1) /\ 2 \in 0..(FrameSize(f) - 1)
        /\ k + 0 = k /\ j + 0 = j
    BY <1>2, SMT
  <2>2. st2[k].byte = st[j].byte /\ st2[k + 1].byte = st[j + 1].byte /\ st2[k + 2].byte = st[j + 2].byte
    BY <2>1
  <2> QED
    BY <1>2, <2>2 DEF Saves
<1> QED
  BY <1>1, <1>2

LEMMA FrameSizeIs ==
  \A f : /\ FrameSize(f) \in 2..3
         /\ f.flags = {} => FrameSize(f) = 2
         /\ f.flags # {} => FrameSize(f) = 3
BY DEF FrameSize

LEMMA PullKeeps ==
  ASSUME TypeInv, StackInv, NEW n \in 1..3, Pull(n)
  PROVE  StackInv' /\ r_sp' \in Byte /\ stacked' \in Seq(Entries) /\ Len(stacked') <= StackSize
<1> DEFINE st2 == SubSeq(stacked, n + 1, Len(stacked))
<1>1. /\ r_sp' = (r_sp + n) % 256 /\ stacked' = st2 /\ spilt' = spilt
      /\ local' = local /\ sram' = sram
  BY DEF Pull, SpAfterPull, memory
<1>2. /\ stacked \in Seq(Entries) /\ Len(stacked) \in Nat /\ Len(stacked) <= StackSize
      /\ r_sp \in Int /\ r_sp + n \in Int
  BY ByteIs, LenProperties, SMT DEF TypeInv
<1>3. /\ st2 \in Seq(Entries) /\ Len(st2) \in Nat /\ Len(st2) <= Len(stacked)
      /\ \A k \in 1..Len(st2) : n + k <= Len(stacked) /\ st2[k] = stacked[n + k]
      /\ n <= Len(stacked) => Len(st2) = Len(stacked) - n
  BY <1>2, Rest
<1> HIDE DEF st2
<1>4. r_sp' \in Byte
  BY <1>1, <1>2, ModByte
<1>5. Len(stacked') <= StackSize
  BY <1>1, <1>2, <1>3, SMT DEF StackSize
<1>6. ASSUME NEW k \in Int PROVE (r_sp' + k) % 256 = (r_sp + (n + k)) % 256
  <2>1. r_sp + (n + k) = (r_sp + n) + k
    BY <1>2, SMT
  <2> QED
    BY <1>1, <1>2, <2>1, ModAdd
<1>7. ASSUME ~spilt PROVE Holding(local', r_sp', stacked') /\ Saving(r_sp', stacked')
  <2>1. Holding(local, r_sp, stacked) /\ Saving(r_sp, stacked)
    BY <1>7 DEF StackInv
  <2>2. ASSUME NEW k \in 1..Len(st2) PROVE Cell(local, r_sp', k) = st2[k].byte
    <3>1. n + k \in 1..Len(stacked) /\ st2[k] = stacked[n + k] /\ k \in Int
      BY <1>2, <1>3, SMT
    <3>2. Cell(local, r_sp, n + k) = stacked[n + k].byte
      BY <2>1, <3>1 DEF Holding
    <3> QED
      BY <1>6, <3>1, <3>2 DEF Cell
  <2>3. ASSUME NEW k \in 1..Len(st2), NEW f \in st2[k].frames, k + FrameSize(f) <= Len(st2) + 1
        PROVE  ((r_sp' + k) % 256) + FrameSize(f) <= 256 /\ Saves(st2, k, f)
    <3>1. FrameSize(f) \in 2..3
      BY FrameSizeIs
    <3>2. /\ n + k \in 1..Len(stacked) /\ k \in Int /\ st2[k] = stacked[n + k]
          /\ Len(st2) = Len(stacked) - n
          /\ n + k + FrameSize(f) <= Len(stacked) + 1
      <4>1. n + k <= Len(stacked) /\ st2[k] = stacked[n + k]
        BY <1>3
      <4>2. n <= Len(stacked)
        BY <1>2, <1>3, <4>1, SMT
      <4>3. Len(st2) = Len(stacked) - n
        BY <1>3, <4>2
      <4> QED
        BY <1>2, <1>3, <2>3, <3>1, <4>1, <4>3, SMT
    <3>3. ((r_sp + (n + k)) % 256) + FrameSize(f) <= 256 /\ Saves(stacked, n + k, f)
      BY <2>1, <3>2 DEF Saving
    <3>4. \A i \in 0..(FrameSize(f) - 1) : st2[k + i].byte = stacked[n + k + i].byte
      <4> SUFFICES ASSUME NEW i \in 0..(FrameSize(f) - 1) PROVE st2[k + i].byte = stacked[n + k + i].byte
        OBVIOUS
      <4> DEFINE l == Len(st2)
                 size == FrameSize(f)
      <4>1. l \in Nat /\ k \in 1..l /\ size \in 2..3 /\ i \in 0..(size - 1) /\ k + size <= l + 1
        BY <1>3, <2>3, <3>1
      <4> HIDE DEF l, size
      <4>2. k + i \in 1..l /\ n + (k + i) = n + k + i
        BY <4>1, SMT
      <4> QED
        BY <1>3, <4>2 DEF l
    <3>5. Saves(st2, k, f)
      <4>1. n + k \in Int
        BY <3>2, SMT
      <4> QED
        BY <3>1, <3>2, <3>3, <3>4, <4>1, SavesShift, FrameSizeIs
    <3> QED
      BY <1>6, <3>2, <3>3, <3>5
  <2> QED
    BY <1>1, <2>2, <2>3 DEF Holding, Saving
<1> QED
  BY <1>1, <1>3, <1>4, <1>5, <1>7 DEF StackInv

LEMMA OnTopIs ==
  ASSUME NEW st \in Seq(Entries), Len(st) <= StackSize,
         NEW bytes \in Seq(Byte), Len(bytes) \in 1..3, NEW frames \in SUBSET Frames,
         NEW st2, st2 = OnTop(st, bytes, frames)
  PROVE  /\ st2 \in Seq(Entries) /\ Len(st2) \in Nat /\ Len(st2) <= StackSize
         /\ Len(bytes) <= Len(st2) /\ Len(st2) <= Len(bytes) + Len(st)
         /\ \A k \in 1..Len(st2) :
              /\ k <= Len(bytes) => st2[k].byte = bytes[k]
              /\ k = 1 => st2[k].frames = frames
              /\ 1 < k /\ k <= Len(bytes) => st2[k].frames = {}
              /\ Len(bytes) < k => k - Len(bytes) \in 1..Len(st) /\ st2[k] = st[k - Len(bytes)]
<1> DEFINE n == Len(bytes)
           new == [i \in 1..n |-> [byte |-> bytes[i], frames |-> IF i = 1 THEN frames ELSE {}]]
           all == new \o st
           size == IF n + Len(st) < StackSize THEN n + Len(st) ELSE StackSize
<1>1. Len(st) \in Nat /\ n \in 1..3 /\ n \in Nat
  BY LenProperties, SMT
<1>2. st2 = SubSeq(all, 1, size)
  BY DEF OnTop
<1>3. new \in Seq(Entries) /\ Len(new) = n
  <2>1. ASSUME NEW i \in 1..n PROVE new[i] \in Entries
    <3>1. bytes[i] \in Byte
      BY ElementOfSeq
    <3> QED
      BY <3>1 DEF Entries
  <2>2. DOMAIN new = 1..n /\ new = [i \in 1..n |-> new[i]]
    OBVIOUS
  <2> HIDE DEF new
  <2>3. new \in [1..n -> Entries]
    BY <2>1, <2>2
  <2> HIDE DEF n
  <2>4. new \in Seq(Entries)
    BY <1>1, <2>3, SeqDef
  <2>5. Len(new) = n
    BY <1>1, <2>2, <2>4, LenProperties, SMT
  <2> QED
    BY <2>4, <2>5
<1>4. /\ \A i \in 1..n : new[i].byte = bytes[i]
      /\ new[1].frames = frames
      /\ \A i \in 1..n : i # 1 => new[i].frames = {}
  <2> HIDE DEF n
  <2>1. 1 \in 1..n
    BY <1>1, SMT
  <2> QED
    BY <2>1
<1> HIDE DEF new, n
<1>5. /\ all \in Seq(Entries) /\ Len(all) = n + Len(st)
      /\ \A i \in 1..(n + Len(st)) : all[i] = IF i <= n THEN new[i] ELSE st[i - n]
  BY <1>3, ConcatProperties
<1> HIDE DEF all
<1>6. size \in Nat /\ size <= n + Len(st) /\ size <= StackSize /\ n <= size /\ size <= Len(all)
  BY <1>1, <1>5, SMT DEF StackSize
<1> HIDE DEF size
<1>7. /\ st2 \in Seq(Entries) /\ Len(st2) = IF 1 <= size THEN size - 1 + 1 ELSE 0
      /\ \A i \in 1..(size - 1 + 1) : st2[i] = all[1 + i - 1]
  <2>1. 1 \in 1..(Len(all) + 1) /\ size \in (1 - 1)..Len(all)
    BY <1>6, SMT
  <2>2. /\ SubSeq(all, 1, size) \in Seq(Entries)
        /\ Len(SubSeq(all, 1, size)) = IF 1 <= size THEN size - 1 + 1 ELSE 0
        /\ \A i \in 1..(size - 1 + 1) : SubSeq(all, 1, size)[i] = all[1 + i - 1]
    BY <1>5, <2>1, SubSeqProperties
  <2> QED
    BY <1>2, <2>2
<1>8. Len(st2) = size
  BY <1>1, <1>6, <1>7, SMT
<1>9. ASSUME NEW k \in 1..size
      PROVE  /\ k <= n => st2[k].byte = bytes[k]
             /\ k = 1 => st2[k].frames = frames
             /\ 1 < k /\ k <= n => st2[k].frames = {}
             /\ n < k => k - n \in 1..Len(st) /\ st2[k] = st[k - n]
  <2>1. /\ k \in 1..(size - 1 + 1) /\ 1 + k - 1 = k /\ k \in 1..(n + Len(st))
        /\ (k <= n <=> k \in 1..n) /\ (k = 1 => k <= n) /\ (1 < k => k # 1)
        /\ (n < k <=> ~(k <= n)) /\ (n < k => k - n \in 1..Len(st))
    BY <1>1, <1>6, SMT
  <2>2. st2[k] = IF k <= n THEN new[k] ELSE st[k - n]
    BY <1>5, <1>7, <2>1
  <2> QED
    BY <1>4, <2>1, <2>2
<1> QED
  BY <1>1, <1>6, <1>7, <1>8, <1>9 DEF n

\* The bytes a call or a break pushes say where to resume.
SavedBy(bytes, f) ==
  IF f.flags = {}
  THEN Len(bytes) = 2 /\ (WordOf(<<bytes[1], bytes[2]>>) + 1) % 65536 = f.next
  ELSE /\ Len(bytes) = 3 /\ Bits(bytes[1]) = f.flags
       /\ WordOf(<<bytes[2], bytes[3]>>) = f.next

LEMMA SavedOnTop ==
  ASSUME NEW bytes, NEW f, SavedBy(bytes, f), NEW st,
         \A i \in 1..Len(bytes) : st[i].byte = bytes[i]
  PROVE  FrameSize(f) = Len(bytes) /\ Saves(st, 1, f)
<1>1. CASE f.flags = {}
  <2>1. Len(bytes) = 2 /\ (WordOf(<<bytes[1], bytes[2]>>) + 1) % 65536 = f.next
    BY <1>1 DEF SavedBy
  <2>2. 1 \in 1..2 /\ 2 \in 1..2 /\ 1 + 1 = 2
    BY SMT
  <2>3. st[1].byte = bytes[1] /\ st[2].byte = bytes[2]
    BY <2>1, <2>2
  <2> QED
    BY <1>1, <2>1, <2>2, <2>3 DEF Saves, FrameSize
<1>2. CASE f.flags # {}
  <2>1. Len(bytes) = 3 /\ Bits(bytes[1]) = f.flags /\ WordOf(<<bytes[2], bytes[3]>>) = f.next
    BY <1>2 DEF SavedBy
  <2>2. 1 \in 1..3 /\ 2 \in 1..3 /\ 3 \in 1..3 /\ 1 + 1 = 2 /\ 1 + 2 = 3
    BY SMT
  <2>3. st[1].byte = bytes[1] /\ st[2].byte = bytes[2] /\ st[3].byte = bytes[3]
    BY <2>1, <2>2
  <2> QED
    BY <1>2, <2>1, <2>2, <2>3 DEF Saves, FrameSize
<1> QED
  BY <1>1, <1>2

LEMMA PushTypes ==
  ASSUME TypeInv, NEW bytes \in Seq(Byte), Len(bytes) \in 1..3, NEW frames \in SUBSET Frames,
         Push(bytes, frames)
  PROVE  /\ r_sp' \in Byte /\ IsMemory(local') /\ IsMemory(sram')
         /\ stacked' \in Seq(Entries) /\ Len(stacked') <= StackSize
<1>1. /\ WriteTo(PushedAt(Len(bytes)), bytes)
      /\ r_sp' = (r_sp - Len(bytes)) % 256
  BY DEF Push
<1>2. r_sp - Len(bytes) \in Int /\ r_sp - Len(bytes) + 1 \in Int /\ Len(bytes) \in Word
  <2> DEFINE n == Len(bytes)
  <2>0. n \in 1..3
    OBVIOUS
  <2> HIDE DEF n
  <2>1. n \in Int /\ 0 <= n /\ n < 65536
    BY <2>0, SMT
  <2>2. r_sp \in Int
    BY ByteIs DEF TypeInv
  <2>3. n \in Word
    BY <2>1, WordIs
  <2>4. r_sp - n \in Int /\ r_sp - n + 1 \in Int
    BY <2>1, <2>2, SMT
  <2> QED
    BY <2>3, <2>4 DEF n
<1>3. PushedAt(Len(bytes)) \in Word
  BY <1>2, StackAddrIs DEF PushedAt
<1>4. IsMemory(local') /\ IsMemory(sram')
  BY <1>1, <1>2, <1>3, LocalWrite, SramWrite DEF WriteTo, TypeInv
<1>5. stacked' \in Seq(Entries) /\ Len(stacked') <= StackSize
  <2>1. stacked \in Seq(Entries) /\ Len(stacked) <= StackSize
    BY DEF TypeInv
  <2>2. stacked' = OnTop(stacked, bytes, frames)
    BY DEF Push
  <2> QED
    BY <2>1, <2>2, OnTopIs
<1> QED
  BY <1>1, <1>2, <1>4, <1>5, ModByte

LEMMA PushKeeps ==
  ASSUME TypeInv, StackInv, NEW bytes \in Seq(Byte), Len(bytes) \in 1..3,
         NEW frames \in SUBSET Frames, \A f \in frames : SavedBy(bytes, f),
         Push(bytes, frames)
  PROVE  StackInv'
<1> DEFINE n == Len(bytes)
<1>1. /\ local' = M!LocalWritten(local, PushedAt(n), bytes)
      /\ r_sp' = (r_sp - n) % 256
      /\ spilt' = (spilt \/ r_sp < n - 1)
  BY DEF Push, WriteTo
<1>2. /\ stacked' \in Seq(Entries) /\ Len(stacked') \in Nat /\ Len(stacked') <= StackSize
      /\ n <= Len(stacked') /\ Len(stacked') <= n + Len(stacked)
      /\ \A k \in 1..Len(stacked') :
           /\ k <= n => stacked'[k].byte = bytes[k]
           /\ k = 1 => stacked'[k].frames = frames
           /\ 1 < k /\ k <= n => stacked'[k].frames = {}
           /\ n < k => k - n \in 1..Len(stacked) /\ stacked'[k] = stacked[k - n]
  <2>1. stacked \in Seq(Entries) /\ Len(stacked) <= StackSize
    BY DEF TypeInv
  <2>2. stacked' = OnTop(stacked, bytes, frames)
    BY DEF Push
  <2> QED
    BY <2>1, <2>2, OnTopIs
<1>3. /\ r_sp \in Byte /\ r_sp \in Int /\ 0 <= r_sp /\ r_sp < 256
      /\ Len(stacked) \in Nat /\ IsMemory(local) /\ n \in 1..3
  BY ByteIs, LenProperties DEF TypeInv
<1> SUFFICES ASSUME ~spilt' PROVE Holding(local', r_sp', stacked') /\ Saving(r_sp', stacked')
  BY DEF StackInv
<1> DEFINE l == Len(stacked')
<1> HIDE DEF n, l
<1>4. ~spilt /\ n - 1 <= r_sp
  <2>1. ~spilt /\ ~(r_sp < n - 1)
    BY <1>1
  <2> QED
    BY <1>3, <2>1, SMT
<1>5. Holding(local, r_sp, stacked) /\ Saving(r_sp, stacked)
  BY <1>4 DEF StackInv
<1>6. PushedAt(n) = 256 + r_sp - n + 1
  <2>1. r_sp - n + 1 \in 0..255 /\ 256 + (r_sp - n + 1) = 256 + r_sp - n + 1
    BY <1>3, <1>4, SMT
  <2> QED
    BY <2>1 DEF PushedAt, StackAddr
<1>7. \A a \in Int : 0 <= a /\ a < 512 =>
        M!Holds(local', a) =
          IF 256 + r_sp - n + 1 <= a /\ a < 256 + r_sp - n + 1 + n
          THEN bytes[a - (256 + r_sp - n + 1) + 1] ELSE M!Holds(local, a)
  <2>1. 256 + r_sp - n + 1 \in Word /\ Len(bytes) \in Word
    <3>1. /\ 256 + r_sp - n + 1 \in Int /\ 0 <= 256 + r_sp - n + 1 /\ 256 + r_sp - n + 1 < 65536
          /\ Len(bytes) \in Int /\ 0 <= Len(bytes) /\ Len(bytes) < 65536
      BY <1>3, <1>4, SMT DEF n
    <3> QED
      BY <3>1, WordIs
  <2> QED
    BY <1>1, <1>3, <1>6, <2>1, LocalWrite DEF n
<1>8. ASSUME NEW k \in 1..l PROVE k \in 1..256 /\ k \in Int
  <2>1. l \in Nat /\ l <= 256
    BY <1>2 DEF StackSize, l
  <2> QED
    BY <2>1, SMT
\* Where the entries are after a push that stays in the page: the new ones
\* where the bytes went, the others where they were.
<1>9. ASSUME NEW k \in 1..l
      PROVE  /\ k <= n => (r_sp' + k) % 256 = r_sp - n + k
             /\ n < k => (r_sp' + k) % 256 = (r_sp + (k - n)) % 256
             /\ n < k => (r_sp + (k - n)) % 256 <= r_sp - n \/ r_sp < (r_sp + (k - n)) % 256
  <2>1. k \in 1..256
    BY <1>8
  <2>2. r_sp - n \in Int /\ k \in Int /\ r_sp - n + k = r_sp + (k - n)
    BY <1>3, <1>8, SMT
  <2>3. (((r_sp - n) % 256) + k) % 256 = (r_sp - n + k) % 256
    BY <2>2, ModAdd
  <2>4. k <= n => (r_sp - n + k) % 256 = r_sp - n + k
    BY <1>3, <1>4, <2>1, SMT
  <2>5. n < k => (r_sp + (k - n)) % 256 <= r_sp - n \/ r_sp < (r_sp + (k - n)) % 256
    BY <1>3, <1>4, <2>1, SMT
  <2> QED
    BY <1>1, <2>2, <2>3, <2>4, <2>5
<1>10. ASSUME NEW k \in 1..l PROVE Cell(local', r_sp', k) = stacked'[k].byte
  <2> DEFINE a == 256 + ((r_sp' + k) % 256)
  <2>1. CASE k <= n
    <3>1. a = 256 + (r_sp - n + k)
      BY <1>9, <2>1
    <3> HIDE DEF a
    <3>2. /\ a \in Int /\ 0 <= a /\ a < 512 /\ a - (256 + r_sp - n + 1) + 1 = k
          /\ 256 + r_sp - n + 1 <= a /\ a < 256 + r_sp - n + 1 + n
      BY <1>3, <1>4, <1>8, <2>1, <3>1, SMT
    <3>3. M!Holds(local', a) = bytes[k]
      BY <1>7, <3>2
    <3> QED
      BY <1>2, <2>1, <3>3 DEF Cell, a, l
  <2>2. CASE n < k
    <3> DEFINE j == k - n
    <3>1. /\ a = 256 + ((r_sp + j) % 256)
          /\ (r_sp + j) % 256 <= r_sp - n \/ r_sp < (r_sp + j) % 256
      BY <1>9, <2>2
    <3>2. j \in 1..Len(stacked) /\ stacked'[k] = stacked[j]
      BY <1>2, <2>2 DEF l
    <3>3. Cell(local, r_sp, j) = stacked[j].byte
      BY <1>5, <3>2 DEF Holding
    <3> DEFINE m == (r_sp + j) % 256
    <3>4. m \in 0..255
      BY <1>3, <1>8, SMT
    <3> HIDE DEF a, m, j
    <3>5. /\ a \in Int /\ 0 <= a /\ a < 512
          /\ ~(256 + r_sp - n + 1 <= a /\ a < 256 + r_sp - n + 1 + n)
      <4>1. a = 256 + m /\ (m <= r_sp - n \/ r_sp < m)
        BY <3>1 DEF m
      <4> QED
        BY <1>3, <3>4, <4>1, SMT
    <3>6. M!Holds(local', a) = M!Holds(local, a)
      BY <1>7, <3>5
    <3>7. Cell(local', r_sp', k) = M!Holds(local', a)
      BY DEF Cell, a
    <3>8. Cell(local, r_sp, j) = M!Holds(local, a)
      BY <3>1 DEF Cell, m
    <3> QED
      BY <3>2, <3>3, <3>6, <3>7, <3>8
  <2> QED
    BY <1>3, <1>8, <2>1, <2>2, SMT
<1>11. ASSUME NEW k \in 1..l, NEW f \in stacked'[k].frames, k + FrameSize(f) <= l + 1
       PROVE  ((r_sp' + k) % 256) + FrameSize(f) <= 256 /\ Saves(stacked', k, f)
  <2>1. CASE k = 1
    <3>1. f \in frames
      BY <1>2, <2>1 DEF l
    <3>2. \A i \in 1..n : stacked'[i].byte = bytes[i]
      <4> SUFFICES ASSUME NEW i \in 1..n PROVE stacked'[i].byte = bytes[i]
        OBVIOUS
      <4>1. i \in 1..Len(stacked') /\ i <= n
        BY <1>2, <1>3, SMT
      <4> QED
        BY <1>2, <4>1
    <3>3. FrameSize(f) = n /\ Saves(stacked', 1, f)
      BY <3>1, <3>2, SavedOnTop DEF n
    <3>4. (r_sp' + 1) % 256 = r_sp - n + 1
      <4>1. 1 <= n
        BY <1>3, SMT
      <4> QED
        BY <1>9, <2>1, <4>1
    <3>5. r_sp - n + 1 + n <= 256
      BY <1>3, SMT
    <3> QED
      BY <2>1, <3>3, <3>4, <3>5
  <2>2. CASE k # 1 /\ k <= n
    <3>1. 1 < k
      BY <1>8, <2>2, SMT
    <3> QED
      BY <1>2, <2>2, <3>1 DEF l
  <2>3. CASE n < k
    <3> DEFINE j == k - n
               size == FrameSize(f)
    <3>1. (r_sp' + k) % 256 = (r_sp + j) % 256
      BY <1>9, <2>3
    <3>2. j \in 1..Len(stacked) /\ stacked'[k] = stacked[j]
      BY <1>2, <2>3 DEF l
    <3>3. l \in Nat /\ l <= n + Len(stacked) /\ size \in 2..3 /\ k + size <= l + 1
      BY <1>2, <1>11, FrameSizeIs DEF l
    <3>4. j + size <= Len(stacked) + 1
      <4> HIDE DEF size, l
      <4> QED
        BY <1>3, <1>8, <3>3, SMT
    <3>5. ((r_sp + j) % 256) + size <= 256 /\ Saves(stacked, j, f)
      BY <1>5, <3>2, <3>4 DEF Saving
    <3>6. \A i \in 0..(size - 1) : stacked'[k + i].byte = stacked[j + i].byte
      <4> SUFFICES ASSUME NEW i \in 0..(size - 1) PROVE stacked'[k + i].byte = stacked[j + i].byte
        OBVIOUS
      <4> HIDE DEF size
      <4>1. k + i \in 1..l /\ n < k + i /\ (k + i) - n = j + i
        BY <1>3, <1>8, <2>3, <3>3, SMT
      <4> QED
        BY <1>2, <4>1 DEF l
    <3>7. Saves(stacked', k, f)
      <4>1. j \in Int /\ k \in Int
        BY <1>3, <1>8, SMT
      <4> HIDE DEF j
      <4> QED
        BY <3>5, <3>6, <4>1, SavesShift, FrameSizeIs
    <3> QED
      BY <3>1, <3>5, <3>7
  <2> QED
    BY <1>3, <1>8, <2>1, <2>2, <2>3, SMT
<1> QED
  BY <1>10, <1>11 DEF Holding, Saving, l

-----------------------------------------------------------------------------
(* The steps.                                                              *)

LEMMA GotoIs == \A addr \in Int : Goto(addr) => r_pc' \in Word
BY ModWord DEF Goto

LEMMA AdvanceIs ==
  ASSUME TypeInv, Advance
  PROVE  r_pc' \in Word
<1>1. Length \in Int
  <2>1. Length \in 1..3
    BY LengthIs DEF Length
  <2> QED
    BY <2>1, SMT
<1>2. r_pc + Length \in Int
  BY <1>1, WordIsNumber, SMT DEF TypeInv
<1> QED
  BY <1>2, GotoIs DEF Advance

LEMMA WriteIs ==
  ASSUME TypeInv, NEW addr \in Word, NEW bytes \in Seq(Byte), Len(bytes) \in Word,
         WriteTo(addr, bytes)
  PROVE  /\ IsMemory(local') /\ IsMemory(sram')
         /\ \A a \in StackPage : ~(addr <= a /\ a < addr + Len(bytes)) =>
              M!Holds(local', a) = M!Holds(local, a)
<1>1. IsMemory(local') /\ IsMemory(sram')
  BY LocalWrite, SramWrite DEF WriteTo, TypeInv
<1>2. ASSUME NEW a \in StackPage, ~(addr <= a /\ a < addr + Len(bytes))
      PROVE  M!Holds(local', a) = M!Holds(local, a)
  <2>1. a \in Int /\ 0 <= a /\ a < 512
    BY SMT DEF StackPage
  <2>2. IsMemory(local) /\ local' = M!LocalWritten(local, addr, bytes)
    BY DEF TypeInv, WriteTo
  <2>3. M!Holds(M!LocalWritten(local, addr, bytes), a) =
          IF addr <= a /\ a < addr + Len(bytes) THEN bytes[a - addr + 1] ELSE M!Holds(local, a)
    BY <2>1, <2>2, LocalWrite
  <2> QED
    BY <1>2, <2>2, <2>3
<1> QED
  BY <1>1, <1>2

LEMMA OneByte ==
  ASSUME NEW v \in Byte
  PROVE  <<v>> \in Seq(Byte) /\ Len(<<v>>) = 1 /\ <<v>>[1] = v /\ 1 \in Word
<1>1. 1 \in Word
  BY WordIs, SMT
<1> QED
  BY <1>1, SMT

LEMMA ApplyKeeps ==
  ASSUME VInv, NEW o, IsOutcome(o), o.to = "m" => Mode \in Places \cup {"acc"}, Apply(o)
  PROVE  VInv'
<1> DEFINE inMemory == o.to = "m" /\ Mode # "acc"
<1>1. /\ r_a' \in {o.v, r_a} /\ r_x' \in {o.v, r_x} /\ r_y' \in {o.v, r_y}
      /\ r_sp' = IF o.to = "sp" THEN o.v ELSE r_sp
      /\ r_s' = (r_s \ o.clears) \cup o.sets
      /\ Advance
      /\ IF inMemory THEN WriteTo(EffectiveAddr, <<o.v>>) ELSE UNCHANGED memory
      /\ ForgetIf(o.to = "sp" \/ (inMemory /\ EffectiveAddr \in StackPage))
  BY DEF Apply
<1>2. TypeInv /\ StackInv
  BY DEF VInv
<1>3. /\ r_a' \in Byte /\ r_x' \in Byte /\ r_y' \in Byte /\ r_sp' \in Byte
      /\ r_s' \subseteq Flags /\ r_pc' \in Word
  BY <1>1, <1>2, AdvanceIs DEF TypeInv, IsOutcome
<1>4. ASSUME inMemory
      PROVE  /\ EffectiveAddr \in Word /\ IsMemory(local') /\ IsMemory(sram')
             /\ EffectiveAddr \notin StackPage =>
                  \A a \in StackPage : M!Holds(local', a) = M!Holds(local, a)
  <2>1. EffectiveAddr \in Word
    BY <1>2, <1>4, EffectiveIs
  <2>2. /\ <<o.v>> \in Seq(Byte) /\ Len(<<o.v>>) = 1 /\ Len(<<o.v>>) \in Word
        /\ WriteTo(EffectiveAddr, <<o.v>>)
    BY <1>1, <1>4, OneByte DEF IsOutcome
  <2>3. /\ IsMemory(local') /\ IsMemory(sram')
        /\ \A a \in StackPage : ~(EffectiveAddr <= a /\ a < EffectiveAddr + Len(<<o.v>>)) =>
             M!Holds(local', a) = M!Holds(local, a)
    BY <1>2, <2>1, <2>2, WriteIs
  <2>4. ASSUME EffectiveAddr \notin StackPage, NEW a \in StackPage
        PROVE  ~(EffectiveAddr <= a /\ a < EffectiveAddr + 1)
    <3>1. a # EffectiveAddr
      BY <2>4
    <3>2. a \in Int /\ EffectiveAddr \in Int
      BY <2>1, WordIsNumber, SMT DEF StackPage
    <3> QED
      BY <3>1, <3>2, SMT
  <2> QED
    BY <2>1, <2>2, <2>3, <2>4
<1>5. IsMemory(local') /\ IsMemory(sram')
  BY <1>1, <1>2, <1>4 DEF TypeInv, memory
<1>6. stacked' \in Seq(Entries) /\ Len(stacked') <= StackSize
  BY <1>1, <1>2, Forgotten DEF ForgetIf, history, TypeInv
<1>7. StackInv'
  <2>1. CASE o.to = "sp" \/ (inMemory /\ EffectiveAddr \in StackPage)
    BY <1>1, <2>1, Forgotten DEF ForgetIf
  <2>2. CASE ~(o.to = "sp" \/ (inMemory /\ EffectiveAddr \in StackPage))
    <3>1. UNCHANGED <<r_sp, stacked, spilt>>
      BY <1>1, <2>2 DEF ForgetIf, history
    <3>2. \A a \in StackPage : M!Holds(local', a) = M!Holds(local, a)
      BY <1>1, <1>4, <2>2 DEF memory
    <3> QED
      BY <1>2, <3>1, <3>2, Undisturbed DEF TypeInv
  <2> QED
    BY <2>1, <2>2
<1> QED
  BY <1>3, <1>5, <1>6, <1>7 DEF VInv, TypeInv

\* A step that does not move the stack pointer, and leaves the page alone or
\* starts the history afresh.
LEMMA OtherStep ==
  ASSUME VInv, r_a' \in Byte, r_x' \in Byte, r_y' \in Byte, r_s' \subseteq Flags,
         r_pc' \in Word, r_sp' = r_sp, IsMemory(local'), IsMemory(sram'),
         \/ Forget
         \/ /\ UNCHANGED history
            /\ \A a \in StackPage : M!Holds(local', a) = M!Holds(local, a)
  PROVE  VInv'
<1>1. stacked' \in Seq(Entries) /\ Len(stacked') <= StackSize /\ StackInv'
  <2>1. CASE Forget
    BY <2>1, Forgotten
  <2>2. CASE /\ UNCHANGED history
             /\ \A a \in StackPage : M!Holds(local', a) = M!Holds(local, a)
    <3>1. UNCHANGED <<r_sp, stacked, spilt>>
      BY <2>2 DEF history
    <3> QED
      BY <2>2, <3>1, Undisturbed DEF VInv, TypeInv
  <2> QED
    BY <2>1, <2>2
<1> QED
  BY <1>1 DEF VInv, TypeInv

\* A step that changes only r_a, the flags and where to go on.
LEMMA QuietStep ==
  ASSUME VInv, r_a' \in Byte, r_s' \subseteq Flags, r_pc' \in Word,
         UNCHANGED <<r_x, r_y, r_sp, memory, history>>
  PROVE  VInv'
<1>1. r_x' \in Byte /\ r_y' \in Byte /\ IsMemory(local') /\ IsMemory(sram') /\ r_sp' = r_sp
  BY DEF VInv, TypeInv, memory
<1>2. UNCHANGED history /\ \A a \in StackPage : M!Holds(local', a) = M!Holds(local, a)
  BY DEF memory
<1> QED
  BY <1>1, <1>2, OtherStep

LEMMA NamedIs ==
  ASSUME NEW names, Exec(Named(names))
  PROVE  Mne \in names /\ Decode[Code] \in Control
BY DEF Exec, Named, Mne

LEMMA SignedIs == \A b \in Byte : Signed(b) \in Int
BY SMT DEF Byte, Signed

LEMMA BranchKeeps == VInv /\ Branch => VInv'
<1> SUFFICES ASSUME VInv, Branch PROVE VInv'
  OBVIOUS
<1>1. TypeInv
  BY DEF VInv
<1>2. r_pc + 2 + Signed(Next1) \in Int /\ r_pc + Length \in Int
  <2>1. r_pc \in Int /\ Signed(Next1) \in Int
    BY <1>1, NextIs, SignedIs, WordIsNumber DEF TypeInv
  <2>2. Length \in 1..3
    BY LengthIs DEF Length
  <2> QED
    BY <2>1, <2>2, SMT
<1>3. BranchTarget(r_pc, Next1) \in Int
  BY <1>2, ModWord, WordIsNumber DEF BranchTarget
<1>4. r_pc' \in Word
  <2>1. CASE Taken
    BY <1>3, <2>1, GotoIs DEF Branch
  <2>2. CASE ~Taken
    BY <1>2, <2>2, GotoIs DEF Branch
  <2> QED
    BY <2>1, <2>2
<1> QED
  BY <1>1, <1>4, QuietStep DEF Branch, TypeInv

LEMMA JumpKeeps == VInv /\ Jump => VInv'
<1> SUFFICES ASSUME VInv, Jump PROVE VInv'
  OBVIOUS
<1>1. TypeInv
  BY DEF VInv
<1>2. Mode \in {"abs", "ind"}
  <2>1. Mne \in {"JMP"} /\ Decode[Code] \in Control
    BY NamedIs DEF Jump
  <2> QED
    BY <2>1, JumpIs DEF Mne, Mode
<1>3. r_pc' \in Word
  <2>1. CASE Mode = "abs"
    <3>1. Next2 \in Int
      BY <1>1, NextIs, WordIsNumber
    <3> QED
      BY <2>1, <3>1, GotoIs DEF Jump
  <2>2. CASE Mode = "ind"
    <3>1. EffectiveAddr = WordOf(Read(Next2, 2))
      BY <2>2 DEF EffectiveAddr
    <3>2. EffectiveAddr \in Int
      BY <1>1, <3>1, ReadWord, WordIsNumber
    <3> QED
      BY <2>2, <3>2, GotoIs DEF Jump
  <2> QED
    BY <1>2, <2>1, <2>2
<1> QED
  BY <1>1, <1>3, QuietStep DEF Jump, TypeInv

LEMMA PushByteKeeps == VInv /\ PushByte => VInv'
<1> SUFFICES ASSUME VInv, PushByte PROVE VInv'
  OBVIOUS
<1> DEFINE b == IF Mne = "PHA" THEN r_a ELSE ByteOf(r_s \cup {5, Bf})
<1>1. TypeInv /\ StackInv
  BY DEF VInv
<1>2. b \in Byte
  BY <1>1, ByteOfIs DEF TypeInv
<1>3. Push(<<b>>, {}) /\ Advance /\ UNCHANGED <<r_a, r_x, r_y, r_s, running>>
  BY DEF PushByte
<1> HIDE DEF b
<1>4. <<b>> \in Seq(Byte) /\ Len(<<b>>) \in 1..3 /\ {} \in SUBSET Frames
  BY <1>2, OneByte, SMT
<1>5. /\ r_sp' \in Byte /\ IsMemory(local') /\ IsMemory(sram')
      /\ stacked' \in Seq(Entries) /\ Len(stacked') <= StackSize
  BY <1>1, <1>3, <1>4, PushTypes
<1>6. StackInv'
  <2>1. \A f \in {} : SavedBy(<<b>>, f)
    OBVIOUS
  <2> QED
    BY <1>1, <1>3, <1>4, <2>1, PushKeeps
<1>7. r_pc' \in Word
  BY <1>1, <1>3, AdvanceIs
<1> QED
  BY <1>1, <1>3, <1>5, <1>6, <1>7 DEF VInv, TypeInv

LEMMA ModAddWord == \A a, b \in Int : ((a % 65536) + b) % 65536 = (a + b) % 65536
<1> TAKE a, b \in Int
<1> DEFINE r == a % 65536
           q == a \div 65536
<1>1. r \in Int /\ q \in Int /\ a = 65536 * q + r
  BY SMT
<1> HIDE DEF r, q
<1>2. (65536 * q + (r + b)) % 65536 = (r + b) % 65536
  BY <1>1, SMT
<1>3. a + b = 65536 * q + (r + b)
  BY <1>1, SMT
<1> QED
  BY <1>2, <1>3 DEF r

LEMMA CallKeeps == VInv /\ Call => VInv'
<1> SUFFICES ASSUME VInv, Call PROVE VInv'
  OBVIOUS
<1> DEFINE w == CallPushes(r_pc)
           bytes == <<w % 256, w \div 256>>
           f == Frame(r_pc + 3, {})
<1>1. TypeInv /\ StackInv
  BY DEF VInv
<1>2. r_pc \in Int /\ r_pc + 2 \in Int /\ r_pc + 3 \in Int /\ (r_pc + 2) + 1 = r_pc + 3
  <2>1. r_pc \in Int
    BY <1>1, WordIsNumber DEF TypeInv
  <2> QED
    BY <2>1, SMT
<1>3. Push(bytes, {f}) /\ Goto(Next2) /\ UNCHANGED <<r_a, r_x, r_y, r_s, running>>
  BY DEF Call
<1>4. w \in Word /\ (w + 1) % 65536 = (r_pc + 3) % 65536
  <2>1. 1 \in Int
    BY SMT
  <2> QED
    BY <1>2, <2>1, ModWord, ModAddWord DEF CallPushes
<1>5. f \in Frames /\ f.flags = {} /\ f.next = (r_pc + 3) % 65536
  <2>1. (r_pc + 3) % 65536 \in Word
    BY <1>2, ModWord
  <2> QED
    BY <2>1 DEF Frame, Frames
<1> HIDE DEF w, f
<1>6. /\ w % 256 \in Byte /\ w \div 256 \in Byte /\ w = (w % 256) + 256 * (w \div 256)
  BY <1>4, WordParts
<1>7. bytes \in Seq(Byte) /\ Len(bytes) = 2 /\ Len(bytes) \in 1..3
      /\ bytes[1] = w % 256 /\ bytes[2] = w \div 256
  <2> DEFINE low == w % 256
             high == w \div 256
  <2> HIDE DEF low, high
  <2>1. low \in Byte /\ high \in Byte => <<low, high>> \in Seq(Byte) /\ Len(<<low, high>>) = 2
    BY SMT
  <2> QED
    BY <1>6, <2>1, SMT DEF low, high
<1>8. SavedBy(bytes, f)
  <2>1. WordOf(<<bytes[1], bytes[2]>>) = w
    BY <1>6, <1>7 DEF WordOf
  <2> QED
    BY <1>4, <1>5, <1>7, <2>1 DEF SavedBy
<1> HIDE DEF bytes
<1>9. {f} \in SUBSET Frames /\ \A g \in {f} : SavedBy(bytes, g)
  BY <1>5, <1>8
<1>10. /\ r_sp' \in Byte /\ IsMemory(local') /\ IsMemory(sram')
       /\ stacked' \in Seq(Entries) /\ Len(stacked') <= StackSize
  BY <1>1, <1>3, <1>7, <1>9, PushTypes
<1>11. StackInv'
  BY <1>1, <1>3, <1>7, <1>9, PushKeeps
<1>12. r_pc' \in Word
  <2>1. Next2 \in Int
    BY <1>1, NextIs, WordIsNumber
  <2> QED
    BY <1>3, <2>1, GotoIs
<1> QED
  BY <1>1, <1>3, <1>10, <1>11, <1>12 DEF VInv, TypeInv

LEMMA BreakKeeps == VInv /\ Break => VInv'
<1> SUFFICES ASSUME VInv, Break PROVE VInv'
  OBVIOUS
<1> DEFINE w == (r_pc + 2) % 65536
           pushed == r_s \cup {5, Bf}
           bytes == <<ByteOf(pushed), w % 256, w \div 256>>
           f == Frame(r_pc + 2, pushed)
<1>1. TypeInv /\ StackInv
  BY DEF VInv
<1>2. r_pc + 2 \in Int
  <2>1. r_pc \in Int
    BY <1>1, WordIsNumber DEF TypeInv
  <2> QED
    BY <2>1, SMT
<1>3. /\ Push(bytes, {f}) /\ UNCHANGED <<r_a, r_x, r_y, running>>
      /\ Goto(WordOf(M!VmRead(local', sram', 65534, 2))) /\ r_s' = r_s \cup {If}
  BY DEF Break
<1>4. w \in Word
  BY <1>2, ModWord
<1>5. pushed \in SUBSET Flags /\ pushed # {} /\ r_s' \subseteq Flags
  BY <1>1, <1>3, FlagsAre DEF TypeInv
<1>6. f \in Frames /\ f.flags = pushed /\ f.next = w
  BY <1>4, <1>5 DEF Frame, Frames
<1> HIDE DEF w, f, pushed
<1>7. w % 256 \in Byte /\ w \div 256 \in Byte /\ w = (w % 256) + 256 * (w \div 256)
  BY <1>4, WordParts
<1>8. bytes \in Seq(Byte) /\ Len(bytes) = 3 /\ Len(bytes) \in 1..3
      /\ bytes[1] = ByteOf(pushed) /\ bytes[2] = w % 256 /\ bytes[3] = w \div 256
  <2> DEFINE low == w % 256
             high == w \div 256
             flags == ByteOf(pushed)
  <2>0. flags \in Byte
    BY ByteOfIs
  <2> HIDE DEF low, high, flags
  <2>1. low \in Byte /\ high \in Byte /\ flags \in Byte =>
          <<flags, low, high>> \in Seq(Byte) /\ Len(<<flags, low, high>>) = 3
    BY SMT
  <2> QED
    BY <1>7, <2>0, <2>1, SMT DEF low, high, flags
<1>9. SavedBy(bytes, f)
  <2>1. WordOf(<<bytes[2], bytes[3]>>) = w
    BY <1>7, <1>8 DEF WordOf
  <2>2. Bits(bytes[1]) = pushed
    BY <1>5, <1>8, BitsOfByte
  <2> QED
    BY <1>5, <1>6, <1>8, <2>1, <2>2 DEF SavedBy
<1> HIDE DEF bytes
<1>10. {f} \in SUBSET Frames /\ \A g \in {f} : SavedBy(bytes, g)
  BY <1>6, <1>9
<1>11. /\ r_sp' \in Byte /\ IsMemory(local') /\ IsMemory(sram')
       /\ stacked' \in Seq(Entries) /\ Len(stacked') <= StackSize
  BY <1>1, <1>3, <1>8, <1>10, PushTypes
<1>12. StackInv'
  BY <1>1, <1>3, <1>8, <1>10, PushKeeps
<1>13. r_pc' \in Word
  <2> DEFINE v == M!VmRead(local', sram', 65534, 2)
  <2>1. v[1] \in Byte /\ v[2] \in Byte
    <3>1. 1 \in 1..2 /\ 2 \in 1..2 /\ 2 \in Nat
      BY SMT
    <3> QED
      BY <1>11, <3>1, ReadBytes
  <2> HIDE DEF v
  <2>2. WordOf(v) \in Int
    BY <2>1, PartsWord, WordIsNumber DEF WordOf
  <2> QED
    BY <1>3, <2>2, GotoIs DEF v
<1> QED
  BY <1>1, <1>3, <1>5, <1>11, <1>12, <1>13 DEF VInv, TypeInv

LEMMA PulledBytes ==
  ASSUME TypeInv, NEW n \in Nat, NEW i \in 1..n
  PROVE  Pulled(n)[i] \in Byte
BY ReadIs DEF Pulled

LEMMA PulledSeq ==
  ASSUME TypeInv
  PROVE  /\ Tail(Pulled(3))[1] = Pulled(3)[2] /\ Tail(Pulled(3))[2] = Pulled(3)[3]
         /\ Pulled(3)[2] \in Byte /\ Pulled(3)[3] \in Byte
<1> DEFINE p == Pulled(3)
<1>1. \A i \in 1..3 : p[i] \in Byte
  BY PulledBytes, SMT
<1>2. p = [i \in 1..3 |-> p[i]]
  BY DEF Pulled, Read, M!VmRead
<1> HIDE DEF p
<1>3. p \in [1..3 -> Byte] /\ 3 \in Nat
  BY <1>1, <1>2
<1>4. p \in Seq(Byte)
  BY <1>3, SeqDef
<1>5. Len(p) = 3
  BY <1>2, <1>4, LenProperties, SMT
<1>6. p # <<>>
  BY <1>5, SMT
<1>7. Tail(p)[1] = p[2] /\ Tail(p)[2] = p[3]
  <2>1. \A i \in 1..(Len(p) - 1) : Tail(p)[i] = p[i + 1]
    BY <1>4, <1>6, HeadTailProperties
  <2>2. 1 \in 1..(3 - 1) /\ 2 \in 1..(3 - 1) /\ 1 + 1 = 2 /\ 2 + 1 = 3
    BY SMT
  <2> QED
    BY <1>5, <2>1, <2>2
<1>8. 2 \in 1..3 /\ 3 \in 1..3
  BY SMT
<1> QED
  BY <1>1, <1>7, <1>8 DEF p

\* A step that pulls, and changes r_a, the flags and where to go on besides.
LEMMA PullStep ==
  ASSUME VInv, NEW n \in 1..3, Pull(n), r_a' \in Byte, r_s' \subseteq Flags, r_pc' \in Word,
         UNCHANGED <<r_x, r_y>>
  PROVE  VInv'
<1>1. TypeInv /\ StackInv
  BY DEF VInv
<1>2. StackInv' /\ r_sp' \in Byte /\ stacked' \in Seq(Entries) /\ Len(stacked') <= StackSize
  BY <1>1, PullKeeps
<1>3. UNCHANGED memory
  BY DEF Pull
<1> QED
  BY <1>1, <1>2, <1>3 DEF VInv, TypeInv, memory

LEMMA PullAKeeps == VInv /\ PullA => VInv'
<1> SUFFICES ASSUME VInv, PullA PROVE VInv'
  OBVIOUS
<1>1. TypeInv /\ 1 \in 1..3 /\ 1 \in 1..1 /\ 1 \in Nat
  BY SMT DEF VInv
<1>2. r_a' \in Byte
  BY <1>1, PulledBytes DEF PullA
<1>3. r_s' \subseteq Flags
  BY <1>1, NzIs DEF PullA, TypeInv
<1>4. r_pc' \in Word
  BY <1>1, AdvanceIs DEF PullA
<1> QED
  BY <1>1, <1>2, <1>3, <1>4, PullStep DEF PullA

LEMMA PullFlagsKeeps == VInv /\ PullFlags => VInv'
<1> SUFFICES ASSUME VInv, PullFlags PROVE VInv'
  OBVIOUS
<1>1. TypeInv /\ 1 \in 1..3
  BY SMT DEF VInv
<1>2. r_a' \in Byte /\ r_s' \subseteq Flags
  BY <1>1, BitsAre DEF PullFlags, TypeInv
<1>3. r_pc' \in Word
  BY <1>1, AdvanceIs DEF PullFlags
<1> QED
  BY <1>1, <1>2, <1>3, PullStep DEF PullFlags

LEMMA ReturnKeeps == VInv /\ Return => VInv'
<1> SUFFICES ASSUME VInv, Return PROVE VInv'
  OBVIOUS
<1>1. TypeInv /\ 2 \in 1..3
  BY SMT DEF VInv
<1>2. WordOf(Pulled(2)) + 1 \in Int
  <2>1. Pulled(2)[1] \in Byte /\ Pulled(2)[2] \in Byte
    <3>1. 1 \in 1..2 /\ 2 \in 1..2 /\ 2 \in Nat
      BY SMT
    <3> QED
      BY <1>1, <3>1, PulledBytes
  <2>2. WordOf(Pulled(2)) \in Int
    BY <2>1, PartsWord, WordIsNumber DEF WordOf
  <2> QED
    BY <2>2, SMT
<1>3. r_pc' \in Word
  BY <1>2, GotoIs DEF Return
<1>4. r_a' \in Byte /\ r_s' \subseteq Flags
  BY <1>1 DEF Return, TypeInv
<1> QED
  BY <1>1, <1>3, <1>4, PullStep DEF Return

LEMMA ReturnFromBreakKeeps == VInv /\ ReturnFromBreak => VInv'
<1> SUFFICES ASSUME VInv, ReturnFromBreak PROVE VInv'
  OBVIOUS
<1>1. TypeInv /\ 3 \in 1..3
  BY SMT DEF VInv
<1>2. WordOf(Tail(Pulled(3))) \in Int
  <2>1. /\ Tail(Pulled(3))[1] = Pulled(3)[2] /\ Tail(Pulled(3))[2] = Pulled(3)[3]
        /\ Pulled(3)[2] \in Byte /\ Pulled(3)[3] \in Byte
    BY <1>1, PulledSeq
  <2>2. Pulled(3)[2] + 256 * Pulled(3)[3] \in Word
    BY <2>1, PartsWord
  <2>3. WordOf(Tail(Pulled(3))) = Pulled(3)[2] + 256 * Pulled(3)[3]
    BY <2>1 DEF WordOf
  <2> QED
    BY <2>2, <2>3, WordIsNumber
<1>3. r_pc' \in Word
  BY <1>2, GotoIs DEF ReturnFromBreak
<1>4. r_a' \in Byte /\ r_s' \subseteq Flags
  BY <1>1, BitsAre DEF ReturnFromBreak, TypeInv
<1> QED
  BY <1>1, <1>3, <1>4, PullStep DEF ReturnFromBreak

LEMMA SysEndsKeeps == VInv /\ SysEnds => VInv'
<1> SUFFICES ASSUME VInv, SysEnds PROVE VInv'
  OBVIOUS
<1>1. TypeInv
  BY DEF VInv
<1>2. r_pc' \in Word
  BY <1>1, AdvanceIs DEF SysEnds
<1> QED
  BY <1>1, <1>2, QuietStep DEF SysEnds, TypeInv

LEMMA SysAnswersKeeps == VInv /\ SysAnswers => VInv'
<1> SUFFICES ASSUME VInv, SysAnswers PROVE VInv'
  OBVIOUS
<1>1. TypeInv
  BY DEF VInv
<1>2. r_pc' \in Word
  BY <1>1, AdvanceIs DEF SysAnswers
<1>3. r_a' \in Byte
  BY <1>1, VmAssumption DEF SysAnswers, TypeInv
<1> QED
  BY <1>1, <1>2, <1>3, QuietStep DEF SysAnswers, TypeInv

LEMMA ArgumentIs ==
  ASSUME TypeInv, NEW n \in Nat, NEW i \in 1..n
  PROVE  Arguments(n)[i] \in Byte
BY ReadIs DEF Arguments

LEMMA ArgumentWord ==
  ASSUME TypeInv, NEW n \in Nat, NEW i \in Nat, 1 <= i, i < n
  PROVE  ArgWord(Arguments(n), i) \in Word
<1>1. i \in 1..n /\ i + 1 \in 1..n
  BY SMT
<1>2. Arguments(n)[i] \in Byte /\ Arguments(n)[i + 1] \in Byte
  BY <1>1, ArgumentIs
<1> QED
  BY <1>2, PartsWord DEF ArgWord

LEMMA SysLoadsKeeps == VInv /\ SysLoads => VInv'
<1> SUFFICES ASSUME VInv, SysLoads PROVE VInv'
  OBVIOUS
<1>1. TypeInv
  BY DEF VInv
<1>2. r_pc' \in Word
  BY <1>1, AdvanceIs DEF SysLoads
<1>3. r_a' \in Byte
  <2>1. Bit \subseteq Byte
    BY SMT DEF Bit, Byte
  <2> QED
    BY <2>1 DEF SysLoads
<1>4. ArgWord(Arguments(2), 1) \in Word
  <2>1. 1 \in Nat /\ 2 \in Nat /\ 1 <= 1 /\ 1 < 2
    BY SMT
  <2> QED
    BY <1>1, <2>1, ArgumentWord
<1>5. PICK text \in Texts : sram' = M!Stored(sram, ArgWord(Arguments(2), 1), text)
  BY DEF SysLoads
<1>6. IsMemory(sram')
  BY <1>1, <1>4, <1>5, StoredIsMemory, VmAssumption DEF TypeInv
<1>7. /\ r_x' \in Byte /\ r_y' \in Byte /\ r_s' \subseteq Flags /\ r_sp' = r_sp
      /\ IsMemory(local') /\ UNCHANGED history
      /\ \A a \in StackPage : M!Holds(local', a) = M!Holds(local, a)
  BY <1>1 DEF SysLoads, TypeInv
<1> QED
  BY <1>2, <1>3, <1>6, <1>7, OtherStep

\* Bytes that do not reach the stack page are nowhere in it.
LEMMA OffThePage ==
  ASSUME NEW addr \in Word, NEW n \in Nat, ~InStackPage(addr, n),
         NEW a \in StackPage
  PROVE  /\ ~(addr <= a /\ a < addr + n)
         /\ ~(addr + n - 65536 > a)
<1>1. addr \in Int /\ 0 <= addr /\ addr < 65536 /\ a \in Int /\ 256 <= a /\ a < 512
  <2>1. a \in Int /\ 256 <= a /\ a < 512
    BY SMT DEF StackPage
  <2> QED
    BY <2>1, WordIsNumber
<1>2. ASSUME addr <= a, a < addr + n PROVE FALSE
  <2>1. a - addr \in 0..(n - 1) /\ addr + (a - addr) = a
    BY <1>1, <1>2, SMT
  <2>2. a % 65536 = a
    BY <1>1, SMT
  <2> QED
    BY <2>1, <2>2 DEF InStackPage
<1>3. ASSUME addr + n - 65536 > a PROVE FALSE
  <2> DEFINE i == a + 65536 - addr
  <2>1. i \in 0..(n - 1) /\ addr + i = a + 65536
    BY <1>1, <1>3, SMT
  <2>2. (a + 65536) % 65536 = a
    BY <1>1, SMT
  <2> HIDE DEF i
  <2> QED
    BY <2>1, <2>2 DEF InStackPage
<1> QED
  BY <1>2, <1>3

LEMMA SysInputKeeps == VInv /\ SysInput => VInv'
<1> SUFFICES ASSUME VInv, SysInput PROVE VInv'
  OBVIOUS
<1> DEFINE arg == Arguments(3)
           addr == ArgWord(arg, 1)
<1>1. TypeInv
  BY DEF VInv
<1>2. r_pc' \in Word
  BY <1>1, AdvanceIs DEF SysInput
<1>3. PICK text \in Texts :
        /\ Len(text) < InputSize(arg[3])
        /\ WriteTo(addr, text)
        /\ r_a' = Len(text)
        /\ ForgetIf(InStackPage(addr, Len(text)))
  BY DEF SysInput
<1>4. arg[1] \in Byte /\ arg[2] \in Byte /\ arg[3] \in Byte
  <2>1. 1 \in 1..3 /\ 2 \in 1..3 /\ 3 \in 1..3 /\ 3 \in Nat
    BY SMT
  <2> QED
    BY <1>1, <2>1, ArgumentIs
<1>5. addr \in Word
  <2>1. 1 \in Nat /\ 3 \in Nat /\ 1 <= 1 /\ 1 < 3
    BY SMT
  <2> QED
    BY <1>1, <2>1, ArgumentWord
<1> HIDE DEF arg, addr
<1>6. text \in Seq(Byte) /\ Len(text) \in Word /\ Len(text) \in Nat
  BY VmAssumption, LenProperties
<1>7. r_a' \in Byte
  <2>1. InputSize(arg[3]) \in Int /\ InputSize(arg[3]) <= 256
    BY <1>4, SMT DEF InputSize, Byte
  <2> HIDE DEF InputSize
  <2> DEFINE l == Len(text)
             m == InputSize(arg[3])
  <2>2. l \in Nat /\ l < m /\ m \in Int /\ m <= 256
    BY <1>3, <1>6, <2>1
  <2> HIDE DEF l, m
  <2>3. l \in Int /\ 0 <= l /\ l < 256
    BY <2>2, SMT
  <2> QED
    BY <1>3, <2>3, ByteIs DEF l
<1>8. /\ IsMemory(local') /\ IsMemory(sram')
      /\ \A a \in StackPage : ~(addr <= a /\ a < addr + Len(text)) =>
           M!Holds(local', a) = M!Holds(local, a)
  BY <1>1, <1>3, <1>5, <1>6, WriteIs
<1>9. \/ Forget
      \/ /\ UNCHANGED history
         /\ \A a \in StackPage : M!Holds(local', a) = M!Holds(local, a)
  <2>1. CASE InStackPage(addr, Len(text))
    BY <1>3, <2>1 DEF ForgetIf
  <2>2. CASE ~InStackPage(addr, Len(text))
    <3>1. \A a \in StackPage : ~(addr <= a /\ a < addr + Len(text))
      BY <1>5, <1>6, <2>2, OffThePage
    <3> QED
      BY <1>3, <1>8, <2>2, <3>1 DEF ForgetIf
  <2> QED
    BY <2>1, <2>2
<1>10. r_x' \in Byte /\ r_y' \in Byte /\ r_s' \subseteq Flags /\ r_sp' = r_sp
  BY <1>1 DEF SysInput, TypeInv
<1> QED
  BY <1>2, <1>7, <1>8, <1>9, <1>10, OtherStep

LEMMA WriteEachIs ==
  ASSUME TypeInv, NEW addr \in Word, NEW bytes \in Seq(Byte), Len(bytes) \in Word,
         WriteEach(addr, bytes)
  PROVE  /\ IsMemory(local') /\ IsMemory(sram')
         /\ ~InStackPage(addr, Len(bytes)) =>
              \A a \in StackPage : M!Holds(local', a) = M!Holds(local, a)
<1> DEFINE n    == IF addr + Len(bytes) <= 65536 THEN Len(bytes) ELSE 65536 - addr
           head == SubSeq(bytes, 1, n)
           rest == SubSeq(bytes, n + 1, Len(bytes))
           mid  == M!LocalWritten(local, addr, head)
           mid2 == M!SramWritten(sram, addr, head)
<1>1. local' = M!LocalWritten(mid, 0, rest) /\ sram' = M!SramWritten(mid2, 0, rest)
  BY DEF WriteEach
<1>2. /\ addr \in Int /\ 0 <= addr /\ addr < 65536 /\ Len(bytes) \in Nat /\ Len(bytes) < 65536
      /\ 0 \in Word
  <2>1. 0 \in Word
    BY WordIs, SMT
  <2> QED
    BY <2>1, LenProperties, WordIsNumber
<1>3. /\ n \in Nat /\ n <= Len(bytes)
      /\ n < Len(bytes) => addr + n = 65536
  BY <1>2, SMT
<1> HIDE DEF n
<1>4. head \in Seq(Byte) /\ Len(head) = n
  <2>1. head \in Seq(Byte) /\ Len(head) = n - 1 + 1
    BY <1>2, <1>3, Cut
  <2> HIDE DEF head
  <2> QED
    BY <1>3, <2>1, SMT
<1>5. rest \in Seq(Byte) /\ Len(rest) = Len(bytes) - n
  <2>1. rest \in Seq(Byte) /\ Len(rest) = Len(bytes) - (n + 1) + 1
    BY <1>2, <1>3, Cut
  <2> HIDE DEF rest
  <2> QED
    BY <1>2, <1>3, <2>1, SMT
<1> HIDE DEF head, rest
<1>6. Len(head) \in Word /\ Len(rest) \in Word
  <2> DEFINE h == Len(head)
             r == Len(rest)
  <2>1. h \in Int /\ 0 <= h /\ h < 65536 /\ r \in Int /\ 0 <= r /\ r < 65536
    BY <1>2, <1>3, <1>4, <1>5, SMT
  <2> HIDE DEF h, r
  <2> QED
    BY <2>1, WordIs DEF h, r
<1>7. /\ IsMemory(mid)
      /\ \A a \in Int : 0 <= a /\ a < 512 =>
           M!Holds(mid, a) =
             IF addr <= a /\ a < addr + Len(head) THEN head[a - addr + 1] ELSE M!Holds(local, a)
  <2>1. IsMemory(local)
    BY DEF TypeInv
  <2> HIDE DEF mid
  <2>2. IsMemory(M!LocalWritten(local, addr, head))
    BY <1>4, <1>6, <2>1, LocalWrite
  <2>3. \A a \in Int : 0 <= a /\ a < 512 =>
          M!Holds(M!LocalWritten(local, addr, head), a) =
            IF addr <= a /\ a < addr + Len(head) THEN head[a - addr + 1] ELSE M!Holds(local, a)
    BY <1>4, <1>6, <2>1, LocalWriteHolds
  <2> QED
    BY <2>2, <2>3 DEF mid
<1>8. IsMemory(mid2)
  BY <1>4, <1>6, SramWrite DEF TypeInv
<1> HIDE DEF mid, mid2
<1>9. /\ IsMemory(local')
      /\ \A a \in Int : 0 <= a /\ a < 512 =>
           M!Holds(local', a) =
             IF 0 <= a /\ a < 0 + Len(rest) THEN rest[a - 0 + 1] ELSE M!Holds(mid, a)
  BY <1>1, <1>2, <1>5, <1>6, <1>7, LocalWrite
<1>10. IsMemory(sram')
  BY <1>1, <1>2, <1>5, <1>6, <1>8, SramWrite
<1>11. ASSUME ~InStackPage(addr, Len(bytes)), NEW a \in StackPage
       PROVE  M!Holds(local', a) = M!Holds(local, a)
  <2>1. a \in Int /\ 0 <= a /\ a < 512
    BY SMT DEF StackPage
  <2>2. ~(addr <= a /\ a < addr + Len(bytes)) /\ ~(addr + Len(bytes) - 65536 > a)
    BY <1>2, <1>11, OffThePage
  <2> DEFINE h == Len(head)
             r == Len(rest)
             all == Len(bytes)
  <2>3. /\ h = n /\ r = all - n /\ n \in Nat /\ all \in Nat /\ n <= all
        /\ n < all => addr + n = 65536
    BY <1>2, <1>3, <1>4, <1>5
  <2>4. ~(addr <= a /\ a < addr + all) /\ ~(addr + all - 65536 > a)
    BY <2>2
  <2> HIDE DEF h, r, all
  <2>5. ~(addr <= a /\ a < addr + h)
    BY <1>2, <2>1, <2>3, <2>4, SMT
  <2>6. ~(0 <= a /\ a < 0 + r)
    BY <1>2, <2>1, <2>3, <2>4, SMT
  <2>7. M!Holds(local', a) = M!Holds(mid, a)
    BY <1>9, <2>1, <2>6 DEF r
  <2>8. M!Holds(mid, a) = M!Holds(local, a)
    BY <1>7, <2>1, <2>5 DEF h
  <2> QED
    BY <2>7, <2>8
<1> QED
  BY <1>9, <1>10, <1>11

LEMMA SysReadsKeeps == VInv /\ SysReads => VInv'
<1> SUFFICES ASSUME VInv, SysReads PROVE VInv'
  OBVIOUS
<1> DEFINE arg   == Arguments(6)
           addr  == ArgWord(arg, 3)
           count == IF ArgWord(arg, 1) = 0 THEN ArgWord(arg, 5) ELSE 0
<1>1. TypeInv
  BY DEF VInv
<1>2. r_pc' \in Word
  BY <1>1, AdvanceIs DEF SysReads
<1>3. PICK text \in Texts :
        /\ Len(text) = count
        /\ WriteEach(addr, text)
        /\ r_a' = Len(text) % 256
        /\ ForgetIf(InStackPage(addr, Len(text)))
  BY DEF SysReads
<1>4. addr \in Word
  <2>1. 3 \in Nat /\ 6 \in Nat /\ 1 <= 3 /\ 3 < 6
    BY SMT
  <2> QED
    BY <1>1, <2>1, ArgumentWord
<1> HIDE DEF arg, addr, count
<1>5. text \in Seq(Byte) /\ Len(text) \in Word /\ Len(text) \in Nat
  BY VmAssumption, LenProperties
<1>6. r_a' \in Byte
  <2>1. Len(text) \in Int
    BY <1>5, SMT
  <2> QED
    BY <1>3, <2>1, ModByte
<1>7. /\ IsMemory(local') /\ IsMemory(sram')
      /\ ~InStackPage(addr, Len(text)) =>
           \A a \in StackPage : M!Holds(local', a) = M!Holds(local, a)
  BY <1>1, <1>3, <1>4, <1>5, WriteEachIs
<1>8. \/ Forget
      \/ /\ UNCHANGED history
         /\ \A a \in StackPage : M!Holds(local', a) = M!Holds(local, a)
  BY <1>3, <1>7 DEF ForgetIf
<1>9. r_x' \in Byte /\ r_y' \in Byte /\ r_s' \subseteq Flags /\ r_sp' = r_sp
  BY <1>1 DEF SysReads, TypeInv
<1> QED
  BY <1>2, <1>6, <1>7, <1>8, <1>9, OtherStep

LEMMA StartIs ==
  ASSUME NEW a, NEW x, NEW y, NEW sp, NEW s, NEW pc, Start(a, x, y, sp, s, pc)
  PROVE  a \in Byte /\ x \in Byte /\ y \in Byte /\ sp \in Byte /\ s \subseteq Flags /\ pc \in Word
<1>1. 0 \in Byte /\ 255 \in Byte
  BY SMT DEF Byte
<1>2. PROG_START \in Word
  <2>1. 6656 \in Word
    BY WordIs, SMT
  <2> QED
    BY <2>1 DEF PROG_START
<1> QED
  BY <1>1, <1>2 DEF Start

LEMMA RunKeeps == VInv /\ Run => VInv'
<1> SUFFICES ASSUME VInv, Run PROVE VInv'
  OBVIOUS
<1>1. /\ r_a' \in Byte /\ r_x' \in Byte /\ r_y' \in Byte /\ r_sp' \in Byte
      /\ r_s' \subseteq Flags /\ r_pc' \in Word
  <2>1. Start(r_a', r_x', r_y', r_sp', r_s', r_pc')
    BY DEF Run
  <2> QED
    BY <2>1, StartIs
<1>2. StackInv' /\ stacked' \in Seq(Entries) /\ Len(stacked') <= StackSize
  BY Forgotten DEF Run
<1> QED
  BY <1>1, <1>2 DEF VInv, TypeInv, Run, memory

LEMMA InitKeeps == Init => VInv
<1> SUFFICES ASSUME Init PROVE VInv
  OBVIOUS
<1>1. /\ r_a \in Byte /\ r_x \in Byte /\ r_y \in Byte /\ r_sp \in Byte
      /\ r_s \subseteq Flags /\ r_pc \in Word
  BY StartIs DEF Init
<1>2. IsMemory(local) /\ IsMemory(sram)
  BY VmAssumption DEF Init, IsMemory
<1>3. stacked = <<>> /\ Len(<<>>) = 0 /\ <<>> \in Seq(Entries) /\ 0 <= StackSize /\ 1..0 = {}
  BY EmptySeq, SMT DEF Init, StackSize
<1>4. StackInv
  BY <1>3 DEF StackInv, Holding, Saving
<1> QED
  BY <1>1, <1>2, <1>3, <1>4 DEF VInv, TypeInv

LEMMA HaltKeeps == VInv /\ Halt => VInv'
<1> SUFFICES ASSUME VInv, Halt PROVE VInv'
  OBVIOUS
<1>1. r_a' \in Byte /\ r_s' \subseteq Flags /\ r_pc' \in Word
  BY DEF VInv, TypeInv, Halt, registers
<1> QED
  BY <1>1, QuietStep DEF Halt, registers

LEMMA OnAccumulatorKeeps == VInv /\ OnAccumulator => VInv'
<1> SUFFICES ASSUME VInv, OnAccumulator PROVE VInv'
  OBVIOUS
<1>1. TypeInv /\ Decode[Code] \in Accumulator /\ Apply(AccumulatorOutcome(Operand))
  BY DEF VInv, OnAccumulator, Exec
<1>2. Operand \in Byte
  BY <1>1, OperandIs
<1>3. /\ IsOutcome(AccumulatorOutcome(Operand))
      /\ AccumulatorOutcome(Operand).to = "m" => Mode \in Places
  BY <1>1, <1>2, AccumulatorOutcomeIs
<1> QED
  BY <1>1, <1>3, ApplyKeeps

LEMMA OnMemoryKeeps == VInv /\ OnMemory => VInv'
<1> SUFFICES ASSUME VInv, OnMemory PROVE VInv'
  OBVIOUS
<1>1. TypeInv /\ Decode[Code] \in Memory1 /\ Apply(MemoryOutcome(Operand))
  BY DEF VInv, OnMemory, Exec
<1>2. Operand \in Byte
  BY <1>1, OperandIs
<1>3. IsOutcome(MemoryOutcome(Operand)) /\ Mode \in Places \cup {"acc"}
  BY <1>1, <1>2, MemoryOutcomeIs
<1> QED
  BY <1>1, <1>3, ApplyKeeps

LEMMA OnIndexKeeps == VInv /\ OnIndex => VInv'
<1> SUFFICES ASSUME VInv, OnIndex PROVE VInv'
  OBVIOUS
<1>1. TypeInv /\ Decode[Code] \in Index /\ Apply(IndexOutcome(Operand))
  BY DEF VInv, OnIndex, Exec
<1>2. Operand \in Byte
  BY <1>1, OperandIs
<1>3. /\ IsOutcome(IndexOutcome(Operand))
      /\ IndexOutcome(Operand).to = "m" => Mode \in Places
  BY <1>1, <1>2, IndexOutcomeIs
<1> QED
  BY <1>1, <1>3, ApplyKeeps

LEMMA OnRegistersKeeps == VInv /\ OnRegisters => VInv'
<1> SUFFICES ASSUME VInv, OnRegisters PROVE VInv'
  OBVIOUS
<1>1. TypeInv /\ Decode[Code] \in Registers /\ Apply(RegisterOutcome)
  BY DEF VInv, OnRegisters, Exec
<1>2. IsOutcome(RegisterOutcome) /\ RegisterOutcome.to # "m"
  BY <1>1, RegisterOutcomeIs
<1> QED
  BY <1>1, <1>2, ApplyKeeps

LEMMA StutterKeeps == VInv /\ UNCHANGED vars => VInv'
<1> SUFFICES ASSUME VInv, UNCHANGED vars PROVE VInv'
  OBVIOUS
<1>1. r_a' \in Byte /\ r_s' \subseteq Flags /\ r_pc' \in Word
  BY DEF VInv, TypeInv, vars, registers
<1> QED
  BY <1>1, QuietStep DEF vars, registers

LEMMA NextKeeps == VInv /\ [Next]_vars => VInv'
<1> SUFFICES ASSUME VInv, [Next]_vars PROVE VInv'
  OBVIOUS
<1>1. CASE OnAccumulator
  BY <1>1, OnAccumulatorKeeps
<1>2. CASE OnMemory
  BY <1>2, OnMemoryKeeps
<1>3. CASE OnIndex
  BY <1>3, OnIndexKeeps
<1>4. CASE OnRegisters
  BY <1>4, OnRegistersKeeps
<1>5. CASE Branch
  BY <1>5, BranchKeeps
<1>6. CASE Jump
  BY <1>6, JumpKeeps
<1>7. CASE PushByte
  BY <1>7, PushByteKeeps
<1>8. CASE PullA
  BY <1>8, PullAKeeps
<1>9. CASE PullFlags
  BY <1>9, PullFlagsKeeps
<1>10. CASE Call
  BY <1>10, CallKeeps
<1>11. CASE Return
  BY <1>11, ReturnKeeps
<1>12. CASE Break
  BY <1>12, BreakKeeps
<1>13. CASE ReturnFromBreak
  BY <1>13, ReturnFromBreakKeeps
<1>14. CASE Halt
  BY <1>14, HaltKeeps
<1>15. CASE SysEnds
  BY <1>15, SysEndsKeeps
<1>16. CASE SysAnswers
  BY <1>16, SysAnswersKeeps
<1>17. CASE SysLoads
  BY <1>17, SysLoadsKeeps
<1>18. CASE SysInput
  BY <1>18, SysInputKeeps
<1>19. CASE SysReads
  BY <1>19, SysReadsKeeps
<1>20. CASE Run
  BY <1>20, RunKeeps
<1>21. CASE UNCHANGED vars
  BY <1>21, StutterKeeps
<1> QED
  BY <1>1, <1>2, <1>3, <1>4, <1>5, <1>6, <1>7, <1>8, <1>9, <1>10, <1>11, <1>12, <1>13,
     <1>14, <1>15, <1>16, <1>17, <1>18, <1>19, <1>20, <1>21 DEF Next, Vm_exec

-----------------------------------------------------------------------------
(* What the runs check, for all programs.                                  *)

\* Every register stays in its width, pt in the 64 KB, and every byte the
\* machine holds in a byte; and the stack page holds what was pushed.
THEOREM MachineInvariant == Spec => []VInv
<1> QED
  BY InitKeeps, NextKeeps, PTL DEF Spec

LEMMA LifoFromInvariant == VInv => StackIsLifo
<1> SUFFICES ASSUME VInv, ~spilt, NEW i \in 1..Len(stacked)
             PROVE  ReadByte(256 + ((r_sp + i) % 256)) = stacked[i].byte
  BY DEF StackIsLifo
<1>1. Cell(local, r_sp, i) = stacked[i].byte
  BY DEF VInv, StackInv, Holding
<1>2. r_sp \in Byte /\ i \in Int
  BY SMT DEF VInv, TypeInv
<1> QED
  BY <1>1, <1>2, CellRead

\* Whatever the program does with its stack, and wherever in the page it is,
\* what it pulls is what was pushed (PHA to PLA, PHP to PLP, JSR to RTS and BRK
\* to RTI through vm_ram_write and vm_ram_read of the stack page).
THEOREM LastInFirstOut == Spec => []StackIsLifo
<1> QED
  BY MachineInvariant, LifoFromInvariant, PTL

\* The bytes of the frame on top of the stack are pulled together.
LEMMA FramePulled ==
  ASSUME VInv, ~spilt, NEW f \in stacked[1].frames, FrameSize(f) <= Len(stacked),
         NEW n \in 2..3, n = FrameSize(f)
  PROVE  /\ Saves(stacked, 1, f)
         /\ \A i \in 1..n : Pulled(n)[i] = stacked[i].byte
<1>1. Len(stacked) \in Nat /\ r_sp \in Byte
  BY LenProperties DEF VInv, TypeInv
<1>2. Holding(local, r_sp, stacked) /\ Saving(r_sp, stacked)
  BY DEF VInv, StackInv
<1> DEFINE l == Len(stacked)
<1>3. l \in Nat /\ n <= l
  BY <1>1
<1> HIDE DEF l
<1>4. 1 \in 1..l /\ 1 + n <= l + 1 /\ n \in 1..3 /\ \A i \in 1..n : i \in 1..l
  BY <1>3, SMT
<1>5. ((r_sp + 1) % 256) + n <= 256 /\ Saves(stacked, 1, f)
  BY <1>2, <1>4 DEF Saving, l
<1>6. ASSUME NEW i \in 1..n PROVE Pulled(n)[i] = stacked[i].byte
  <2>1. Pulled(n)[i] = Cell(local, r_sp, i)
    BY <1>1, <1>4, <1>5, PulledIs
  <2>2. Cell(local, r_sp, i) = stacked[i].byte
    BY <1>2, <1>4 DEF Holding, l
  <2> QED
    BY <2>1, <2>2
<1> QED
  BY <1>5, <1>6

Resumes ==
  (Return \/ ReturnFromBreak) /\ ~spilt /\ stacked # <<>> =>
    \A f \in stacked[1].frames :
      (f.flags # {}) = (Mne = "RTI") /\ FrameSize(f) <= Len(stacked) =>
        r_pc' = f.next /\ (f.flags # {} => r_s' = f.flags)

LEMMA ReturnResumes == VInv => Resumes
<1> SUFFICES ASSUME VInv, ~spilt, Return \/ ReturnFromBreak,
                    NEW f \in stacked[1].frames,
                    (f.flags # {}) = (Mne = "RTI"), FrameSize(f) <= Len(stacked)
             PROVE  r_pc' = f.next /\ (f.flags # {} => r_s' = f.flags)
  BY DEF Resumes
<1>1. TypeInv
  BY DEF VInv
<1>2. CASE Return
  <2>1. Mne = "RTS" /\ Goto(WordOf(Pulled(2)) + 1)
    BY <1>2, NamedIs DEF Return
  <2>2. f.flags = {} /\ FrameSize(f) = 2
    <3>1. Mne # "RTI"
      BY <2>1
    <3> QED
      BY <3>1 DEF FrameSize
  <2>3. /\ Saves(stacked, 1, f)
        /\ \A i \in 1..2 : Pulled(2)[i] = stacked[i].byte
    <3>1. 2 \in 2..3
      BY SMT
    <3> QED
      BY <2>2, <3>1, FramePulled
  <2>4. (WordOf(<<stacked[1].byte, stacked[2].byte>>) + 1) % 65536 = f.next
    <3>1. 1 + 1 = 2
      BY SMT
    <3> QED
      BY <2>2, <2>3, <3>1 DEF Saves
  <2>5. WordOf(Pulled(2)) = WordOf(<<stacked[1].byte, stacked[2].byte>>)
    <3>1. 1 \in 1..2 /\ 2 \in 1..2
      BY SMT
    <3> QED
      BY <2>3, <3>1 DEF WordOf
  <2> QED
    BY <2>1, <2>2, <2>4, <2>5 DEF Goto
<1>3. CASE ReturnFromBreak
  <2>1. Mne = "RTI" /\ r_s' = Bits(Pulled(3)[1]) /\ Goto(WordOf(Tail(Pulled(3))))
    BY <1>3, NamedIs DEF ReturnFromBreak
  <2>2. f.flags # {} /\ FrameSize(f) = 3
    BY <2>1 DEF FrameSize
  <2>3. /\ Saves(stacked, 1, f)
        /\ \A i \in 1..3 : Pulled(3)[i] = stacked[i].byte
    <3>1. 3 \in 2..3
      BY SMT
    <3> QED
      BY <2>2, <3>1, FramePulled
  <2>4. /\ Bits(stacked[1].byte) = f.flags
        /\ WordOf(<<stacked[2].byte, stacked[3].byte>>) = f.next
    <3>1. 1 + 1 = 2 /\ 1 + 2 = 3
      BY SMT
    <3> QED
      BY <2>2, <2>3, <3>1 DEF Saves
  <2>5. /\ Pulled(3)[1] = stacked[1].byte
        /\ WordOf(Tail(Pulled(3))) = WordOf(<<stacked[2].byte, stacked[3].byte>>)
        /\ WordOf(Tail(Pulled(3))) \in Word
    <3>1. 1 \in 1..3 /\ 2 \in 1..3 /\ 3 \in 1..3
      BY SMT
    <3>2. /\ Tail(Pulled(3))[1] = stacked[2].byte /\ Tail(Pulled(3))[2] = stacked[3].byte
          /\ stacked[2].byte \in Byte /\ stacked[3].byte \in Byte
      BY <1>1, <2>3, <3>1, PulledSeq
    <3>3. stacked[2].byte + 256 * stacked[3].byte \in Word
      BY <3>2, PartsWord
    <3>4. WordOf(Tail(Pulled(3))) = stacked[2].byte + 256 * stacked[3].byte
      BY <3>2 DEF WordOf
    <3>5. WordOf(<<stacked[2].byte, stacked[3].byte>>) = stacked[2].byte + 256 * stacked[3].byte
      BY DEF WordOf
    <3> QED
      BY <2>3, <3>1, <3>3, <3>4, <3>5
  <2>6. r_pc' = f.next
    <3> DEFINE w == WordOf(Tail(Pulled(3)))
    <3>1. r_pc' = w % 65536
      BY <2>1 DEF Goto
    <3>2. w \in Word /\ w = f.next
      BY <2>4, <2>5
    <3> HIDE DEF w
    <3>3. w \in Int
      BY <3>2, WordIsNumber
    <3> QED
      BY <3>1, <3>2, <3>3, ModWord
  <2> QED
    BY <2>1, <2>4, <2>5, <2>6
<1> QED
  BY <1>2, <1>3

\* RTS goes on after its JSR, and RTI where BRK said with the flags of that
\* moment, at whatever depth of calls, pushes and pulls in between.
THEOREM CallsAndBreaksResume == Spec => FramesResume
<1>1. VInv /\ [Next]_vars => [Resumes]_vars
  BY ReturnResumes
<1> QED
  BY <1>1, MachineInvariant, PTL DEF FramesResume, Resumes, Spec
=============================================================================
