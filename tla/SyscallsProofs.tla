--------------------------- MODULE SyscallsProofs ---------------------------
(***************************************************************************)
(* What the calls of a program do to its memory, for every size of memory, *)
(* screen and characters: drawing reaches the screen only, wherever the    *)
(* cursor has been put, and the calls that store text store it where they  *)
(* were asked to.  All but that of what is stored ends where an inserted   *)
(* character of call 0x21 takes a line to the last cell of the screen:     *)
(* what follows is drawn anywhere.                                         *)
(*                                                                         *)
(* What carries it (IInv): the cursor is on the screen between any two     *)
(* characters, and so is a line that is edited, with room for the cursor   *)
(* after it; and the bytes of a cell are bytes of the screen.  And, for    *)
(* the text that is moved (TextInv): as long as it is not on the screen,   *)
(* what was shown or taken so far is what memory still holds at its place. *)
(*                                                                         *)
(* And, for what the screen shows (PrintInv): it is the window at the end  *)
(* of a roll of paper, on which every event draws at most one cell.        *)
(***************************************************************************)
EXTENDS Syscalls, SequenceTheorems, WellFoundedInduction, TLAPS

Columns == 0..(CHARS_WIDTH - 1)
Lines   == 0..(CHARS_HEIGHT - 1)
Chips   == [Addr -> Byte]

\* con differs from chip on the screen only, and its cursor is on it.
OnScreen(con, chip) ==
  /\ con.chip \in Chips /\ con.x \in Columns /\ con.y \in Lines
  /\ \A a \in Addr \ Video : con.chip[a] = chip[a]

\* Its cursor may be on any row.
Anywhere(con) == con.chip \in Chips /\ con.x \in Columns /\ con.y \in Int

-----------------------------------------------------------------------------
LEMMA Numbers ==
  /\ CHARS_WIDTH \in Nat /\ CHARS_WIDTH > 0 /\ CHARS_HEIGHT \in Nat /\ CHARS_HEIGHT > 0
  /\ CharLines \in Nat /\ CharLines > 0 /\ TabStop \in Nat /\ TabStop > 0
  /\ Base \in Nat /\ Base > 1 /\ MemSize \in Nat /\ MemSize = Base * Base
  /\ VIDEO_ADDR \in Nat /\ VIDEO_ADDR = 2 * Base /\ LocalSize = 2 * Base
  /\ RowBytes \in Nat /\ RowBytes = CHARS_WIDTH * CharLines
  /\ VideoEnd \in Nat /\ VideoEnd <= MemSize /\ VideoEnd = VIDEO_ADDR + CHARS_HEIGHT * RowBytes
  /\ LocalSize < MemSize
  /\ InputLimit \in Nat /\ InputLimit < Base /\ Chunk \in Nat /\ Chunk < Base
  /\ BufferSize \in Nat /\ BufferSize > 0 /\ BufferSize < Base
<1>1. /\ {Base, Chunk, InputLimit} \subseteq Nat \ {0} /\ Chunk < Base /\ InputLimit < Base
      /\ MemSize = Base * Base /\ VIDEO_ADDR = LocalSize
      /\ BufferSize \in Nat /\ InputLimit <= BufferSize /\ BufferSize < Base
  BY SyscallsAssumption DEF SyscallsAssumption
<1>2. /\ {MemSize, VIDEO_ADDR, RowBytes} \subseteq Nat
      /\ {CHARS_WIDTH, CHARS_HEIGHT, CharLines, TabStop} \subseteq Nat \ {0}
      /\ VideoEnd \in Nat /\ VideoEnd <= MemSize
  BY ConsoleAssumption DEF ConsoleAssumption
<1>3. CHARS_HEIGHT * RowBytes \in Nat
  BY <1>2, SMT
<1>4. VideoEnd = VIDEO_ADDR + CHARS_HEIGHT * RowBytes /\ LocalSize = 2 * Base
      /\ RowBytes = CHARS_WIDTH * CharLines
  BY DEF VideoEnd, LocalSize, RowBytes
<1>5. LocalSize < MemSize
  <2>1. CHARS_WIDTH * CharLines > 0
    BY <1>2, SMT
  <2>2. CHARS_HEIGHT * RowBytes > 0
    BY <1>2, <1>4, <2>1, SMT
  <2> QED
    BY <1>1, <1>2, <1>3, <1>4, <2>2, SMT
<1>6. Base \in Nat /\ Base > 0 /\ Chunk \in Nat /\ Chunk > 0 /\ BufferSize > 0
  BY <1>1, SMT
<1> QED
  BY <1>1, <1>2, <1>4, <1>5, <1>6, SMT

\* Arithmetic of rows.
LEMMA Rows ==
  ASSUME NEW m \in Nat, NEW n \in Nat, NEW s \in Nat, m < n
  PROVE  m * s + s <= n * s /\ m * s \in Nat
<1>1. PICK d \in Nat : n = m + 1 + d
  BY SMT
<1>2. n * s = m * s + s + d * s /\ d * s \in Nat /\ m * s \in Nat
  BY <1>1, SMT
<1> QED
  BY <1>2, SMT

\* The pixels of a cell are in the memory of the screen.
LEMMA PixelAt ==
  ASSUME NEW u \in Columns, NEW v \in Lines, NEW line \in 0..(CharLines - 1)
  PROVE  /\ PixelAddr(u, v, line) = VIDEO_ADDR + u + v * RowBytes + line * CHARS_WIDTH
         /\ PixelAddr(u, v, line) \in Video
<1>1. u \in Nat /\ u < CHARS_WIDTH /\ v \in Nat /\ v < CHARS_HEIGHT
      /\ line \in Nat /\ line < CharLines
  BY Numbers, SMT DEF Columns, Lines
<1>2. line * CHARS_WIDTH + CHARS_WIDTH <= CharLines * CHARS_WIDTH /\ line * CHARS_WIDTH \in Nat
  BY <1>1, Numbers, Rows
<1>3. v * RowBytes + RowBytes <= CHARS_HEIGHT * RowBytes /\ v * RowBytes \in Nat
  BY <1>1, Numbers, Rows
<1>4. RowBytes = CharLines * CHARS_WIDTH
  BY Numbers, SMT
<1> DEFINE a == VIDEO_ADDR + u + v * RowBytes + line * CHARS_WIDTH
<1>5. a \in Nat /\ VIDEO_ADDR <= a /\ a < VideoEnd
  <2>1. CHARS_HEIGHT * RowBytes \in Nat
    BY Numbers, SMT
  <2> DEFINE p == v * RowBytes
             q == line * CHARS_WIDTH
             r == CHARS_HEIGHT * RowBytes
  <2>2. p \in Nat /\ q \in Nat /\ r \in Nat /\ q + CHARS_WIDTH <= RowBytes /\ p + RowBytes <= r
        /\ VideoEnd = VIDEO_ADDR + r /\ a = VIDEO_ADDR + u + p + q
    BY <1>2, <1>3, <1>4, <2>1, Numbers
  <2> HIDE DEF p, q, r, a
  <2> QED
    BY <1>1, <2>2, Numbers, SMT
<1>6. PixelAddr(u, v, line) = a
  <2>1. PixelAddr(u, v, line) = a % MemSize
    BY DEF PixelAddr
  <2> HIDE DEF a
  <2> QED
    BY <1>5, <2>1, Numbers, SMT
<1>7. a \in Video
  <2> HIDE DEF a
  <2> QED
    BY <1>5, Numbers, SMT DEF Video
<1> QED
  BY <1>6, <1>7

LEMMA PixelInVideo ==
  ASSUME NEW u \in Columns, NEW v \in Lines, NEW line \in 0..(CharLines - 1)
  PROVE  PixelAddr(u, v, line) \in Video
BY PixelAt

\* What is drawn is bytes, wherever it is.
LEMMA TileBytes ==
  ASSUME NEW chip \in Chips, NEW u, NEW v, NEW tile \in [1..CharLines -> Byte]
  PROVE  video_put_tile(chip, u, v, tile) \in Chips
<1> DEFINE lines(a) == {line \in 0..(CharLines - 1) : a = PixelAddr(u, v, line)}
           value(a) == IF lines(a) = {} THEN chip[a]
                       ELSE tile[1 + CHOOSE line \in lines(a) : TRUE]
<1>1. DOMAIN chip = Addr /\ \A a \in Addr : chip[a] \in Byte
  BY DEF Chips
<1>2. video_put_tile(chip, u, v, tile) = [a \in Addr |-> value(a)]
  BY <1>1 DEF video_put_tile
<1>3. ASSUME NEW a \in Addr PROVE value(a) \in Byte
  <2>1. CASE lines(a) = {}
    BY <1>1, <2>1
  <2>2. CASE lines(a) # {}
    <3>1. (CHOOSE line \in lines(a) : TRUE) \in lines(a)
      BY <2>2
    <3>2. 1 + (CHOOSE line \in lines(a) : TRUE) \in 1..CharLines
      <4>1. (CHOOSE line \in lines(a) : TRUE) \in 0..(CharLines - 1)
        BY <3>1
      <4> QED
        BY <4>1, Numbers, SMTT(30)
    <3> QED
      BY <2>2, <3>2
  <2> QED
    BY <2>1, <2>2
<1> HIDE DEF value
<1> QED
  BY <1>2, <1>3 DEF Chips

LEMMA CharBytes ==
  ASSUME NEW chip \in Chips, NEW u, NEW v, NEW c \in Byte
  PROVE  video_put_char(chip, u, v, c) \in Chips
<1>1. Font[c] \in [1..CharLines -> Byte]
  BY SyscallsAssumption DEF SyscallsAssumption
<1> QED
  BY <1>1, TileBytes DEF video_put_char

\* A cell is drawn on the screen.
LEMMA TileDraws ==
  ASSUME NEW chip \in Chips, NEW u \in Columns, NEW v \in Lines,
         NEW tile \in [1..CharLines -> Byte]
  PROVE  /\ video_put_tile(chip, u, v, tile) \in Chips
         /\ \A a \in Addr \ Video : video_put_tile(chip, u, v, tile)[a] = chip[a]
<1>1. DOMAIN chip = Addr
  BY DEF Chips
<1>2. ASSUME NEW a \in Addr \ Video PROVE video_put_tile(chip, u, v, tile)[a] = chip[a]
  <2>1. {line \in 0..(CharLines - 1) : a = PixelAddr(u, v, line)} = {}
    BY PixelInVideo
  <2> QED
    BY <1>1, <2>1 DEF video_put_tile
<1> QED
  BY <1>2, TileBytes

LEMMA CharDraws ==
  ASSUME NEW chip \in Chips, NEW u \in Columns, NEW v \in Lines, NEW c \in Byte
  PROVE  /\ video_put_char(chip, u, v, c) \in Chips
         /\ \A a \in Addr \ Video : video_put_char(chip, u, v, c)[a] = chip[a]
<1>1. Font[c] \in [1..CharLines -> Byte]
  BY SyscallsAssumption DEF SyscallsAssumption
<1> QED
  BY <1>1, TileDraws DEF video_put_char

\* Filling the screen and scrolling it.
LEMMA ClsDraws ==
  ASSUME NEW chip \in Chips, NEW c \in Byte
  PROVE  /\ video_cls(chip, c) \in Chips
         /\ \A a \in Addr \ Video : video_cls(chip, c)[a] = chip[a]
<1> DEFINE row(a) == ((a - VIDEO_ADDR) % RowBytes) \div CHARS_WIDTH
           value(a) == IF a \in Video THEN Font[c][1 + row(a)] ELSE chip[a]
<1>1. DOMAIN chip = Addr /\ \A a \in Addr : chip[a] \in Byte
  BY DEF Chips
<1>2. video_cls(chip, c) = [a \in Addr |-> value(a)]
  BY <1>1 DEF video_cls
<1>3. ASSUME NEW a \in Video PROVE 1 + row(a) \in 1..CharLines
  <2> DEFINE d == (a - VIDEO_ADDR) % RowBytes
  <2>1. RowBytes > 0
    BY Numbers, SMT
  <2>2. a - VIDEO_ADDR \in Nat
    BY Numbers, SMT DEF Video
  <2>3. d \in Nat /\ d < CHARS_WIDTH * CharLines
    <3>1. d \in 0..(RowBytes - 1)
      BY <2>1, <2>2, Numbers, SMT
    <3> QED
      BY <3>1, Numbers, SMT
  <2> HIDE DEF d
  <2>4. d \div CHARS_WIDTH \in Nat /\ (d \div CHARS_WIDTH) * CHARS_WIDTH <= d
    BY <2>3, Numbers, SMT
  <2>5. d \div CHARS_WIDTH < CharLines
    <3>1. CASE CharLines < d \div CHARS_WIDTH
      <4>1. CharLines * CHARS_WIDTH + CHARS_WIDTH <= (d \div CHARS_WIDTH) * CHARS_WIDTH
        BY <2>4, <3>1, Numbers, Rows
      <4> QED
        BY <2>3, <2>4, <4>1, Numbers, SMT
    <3>2. CASE CharLines = d \div CHARS_WIDTH
      BY <2>3, <2>4, <3>2, Numbers, SMT
    <3> QED
      BY <2>4, <3>1, <3>2, Numbers, SMT
  <2> QED
    BY <2>4, <2>5, Numbers, SMT DEF d
<1>4. Font[c] \in [1..CharLines -> Byte]
  BY SyscallsAssumption DEF SyscallsAssumption
<1>5. \A a \in Addr : value(a) \in Byte
  BY <1>1, <1>3, <1>4
<1> HIDE DEF row
<1> QED
  BY <1>2, <1>5 DEF Chips

LEMMA ZeroByte == 0 \in Byte /\ 0 \in Addr /\ Video \subseteq Addr
BY Numbers, SMT DEF Byte, Addr, Video

LEMMA ScrollDraws ==
  ASSUME NEW chip \in Chips
  PROVE  /\ scroll_up(chip) \in Chips
         /\ \A a \in Addr \ Video : scroll_up(chip)[a] = chip[a]
<1> DEFINE value(a) == IF a \notin Video THEN chip[a]
                       ELSE IF a + RowBytes < VideoEnd THEN chip[a + RowBytes] ELSE 0
<1>1. DOMAIN chip = Addr /\ \A a \in Addr : chip[a] \in Byte
  BY DEF Chips
<1>2. scroll_up(chip) = [a \in Addr |-> value(a)]
  BY <1>1 DEF scroll_up
<1>3. ASSUME NEW a \in Addr PROVE value(a) \in Byte
  <2>1. a + RowBytes < VideoEnd => a + RowBytes \in Addr
    BY Numbers, SMT DEF Addr
  <2> QED
    BY <1>1, <2>1, ZeroByte
<1> QED
  BY <1>2, <1>3 DEF Chips

-----------------------------------------------------------------------------
(* put_char.                                                               *)

\* The next line; the cursor may have been past the right edge.
LEMMA LineFeedDraws ==
  ASSUME NEW con, con.chip \in Chips, con.y \in Lines
  PROVE  OnScreen(LineFeed(con), con.chip)
<1>1. 0 \in Columns
  BY Numbers, SMT DEF Columns
<1>2. CASE con.y + 1 > LastRow
  <2>1. LineFeed(con) = [chip |-> scroll_up(con.chip), x |-> 0, y |-> con.y]
    BY <1>2 DEF LineFeed
  <2> QED
    BY <1>1, <2>1, ScrollDraws DEF OnScreen
<1>3. CASE ~(con.y + 1 > LastRow)
  <2>1. LineFeed(con) = [chip |-> con.chip, x |-> 0, y |-> con.y + 1]
    BY <1>3 DEF LineFeed
  <2>2. con.y + 1 \in Lines
    BY <1>3, Numbers, SMT DEF LastRow, Lines
  <2> QED
    BY <1>1, <2>1, <2>2 DEF OnScreen
<1> QED
  BY <1>2, <1>3

LEMMA SettledDraws ==
  ASSUME NEW con, NEW chip, con.chip \in Chips, con.x \in Nat, con.y \in Lines,
         \A a \in Addr \ Video : con.chip[a] = chip[a]
  PROVE  OnScreen(Settled(con), chip)
<1>1. CASE PastEdge(con.x)
  <2>1. Settled(con) = LineFeed(con)
    BY <1>1 DEF Settled
  <2> QED
    BY <2>1, LineFeedDraws DEF OnScreen
<1>2. CASE ~PastEdge(con.x)
  <2>1. Settled(con) = con
    BY <1>2 DEF Settled
  <2>2. con.x \in Columns
    BY <1>2, Numbers, SMT DEF PastEdge, Columns
  <2> QED
    BY <2>1, <2>2 DEF OnScreen
<1> QED
  BY <1>1, <1>2

LEMMA ShownDraws ==
  ASSUME NEW con, con.chip \in Chips, con.x \in Columns, con.y \in Lines, NEW c \in Byte
  PROVE  /\ Shown(con, c).chip \in Chips /\ Shown(con, c).x \in Nat /\ Shown(con, c).y \in Lines
         /\ \A a \in Addr \ Video : Shown(con, c).chip[a] = con.chip[a]
<1>1. con.x + 1 \in Nat
  BY Numbers, SMT DEF Columns
<1> QED
  BY <1>1, CharDraws DEF Shown

LEMMA PutCharDraws ==
  ASSUME NEW con \in [chip : Chips, x : Columns, y : Lines], NEW c \in Byte
  PROVE  OnScreen(put_char(con, c), con.chip)
<1>1. CASE c = NewLine
  <2>1. put_char(con, c) = Settled(LineFeed(con))
    BY <1>1 DEF put_char, NewLine, Tab
  <2>2. OnScreen(LineFeed(con), con.chip) /\ LineFeed(con).x \in Nat
    <3>1. OnScreen(LineFeed(con), con.chip)
      BY LineFeedDraws
    <3>2. \A u \in Columns : u \in Nat
      BY Numbers, SMT DEF Columns
    <3> QED
      BY <3>1, <3>2 DEF OnScreen
  <2> QED
    BY <2>1, <2>2, SettledDraws DEF OnScreen
<1>2. CASE c = Tab
  <2> DEFINE t == [con EXCEPT !.x = NextTab(@)]
  <2>1. put_char(con, c) = Settled(t)
    BY <1>2 DEF put_char, NewLine, Tab
  <2>2. NextTab(con.x) \in Nat
    <3>1. con.x \in Nat /\ TabStop \in Nat /\ TabStop > 0
      BY Numbers, SMT DEF Columns
    <3>2. con.x \div TabStop \in Nat
      BY <3>1, SMT
    <3> QED
      BY <3>1, <3>2, SMT DEF NextTab
  <2>3. t.chip = con.chip /\ t.x = NextTab(con.x) /\ t.y = con.y
    OBVIOUS
  <2> HIDE DEF t
  <2> QED
    BY <2>1, <2>2, <2>3, SettledDraws
<1>3. CASE c # NewLine /\ c # Tab
  <2>1. put_char(con, c) = Settled(Shown(con, c))
    BY <1>3 DEF put_char
  <2> QED
    BY <2>1, ShownDraws, SettledDraws
<1> QED
  BY <1>1, <1>2, <1>3

\* The same, with the cursor on any row.
LEMMA LineFeedBytes ==
  ASSUME NEW con, con.chip \in Chips, con.y \in Int
  PROVE  Anywhere(LineFeed(con))
<1>1. 0 \in Columns /\ con.y + 1 \in Int
  BY Numbers, SMT DEF Columns
<1>2. CASE con.y + 1 > LastRow
  <2>1. LineFeed(con) = [chip |-> scroll_up(con.chip), x |-> 0, y |-> con.y]
    BY <1>2 DEF LineFeed
  <2> QED
    BY <1>1, <2>1, ScrollDraws DEF Anywhere
<1>3. CASE ~(con.y + 1 > LastRow)
  <2>1. LineFeed(con) = [chip |-> con.chip, x |-> 0, y |-> con.y + 1]
    BY <1>3 DEF LineFeed
  <2> QED
    BY <1>1, <2>1 DEF Anywhere
<1> QED
  BY <1>2, <1>3

LEMMA SettledBytes ==
  ASSUME NEW con, con.chip \in Chips, con.x \in Nat, con.y \in Int
  PROVE  Anywhere(Settled(con))
<1>1. CASE PastEdge(con.x)
  BY <1>1, LineFeedBytes DEF Settled
<1>2. CASE ~PastEdge(con.x)
  <2>1. con.x \in Columns
    BY <1>2, Numbers, SMT DEF PastEdge, Columns
  <2> QED
    BY <1>2, <2>1 DEF Anywhere, Settled
<1> QED
  BY <1>1, <1>2

LEMMA ShownBytes ==
  ASSUME NEW con, con.chip \in Chips, con.x \in Columns, con.y \in Int, NEW c \in Byte
  PROVE  Shown(con, c).chip \in Chips /\ Shown(con, c).x \in Nat /\ Shown(con, c).y \in Int
<1>1. con.x + 1 \in Nat
  BY Numbers, SMT DEF Columns
<1> QED
  BY <1>1, CharBytes DEF Shown

LEMMA PutCharBytes ==
  ASSUME NEW con \in [chip : Chips, x : Columns, y : Int], NEW c \in Byte
  PROVE  Anywhere(put_char(con, c))
<1>1. \A u \in Columns : u \in Nat
  BY Numbers, SMT DEF Columns
<1>2. CASE c = NewLine
  <2>1. put_char(con, c) = Settled(LineFeed(con))
    BY <1>2 DEF put_char, NewLine, Tab
  <2>2. Anywhere(LineFeed(con))
    BY LineFeedBytes
  <2> QED
    BY <1>1, <2>1, <2>2, SettledBytes DEF Anywhere
<1>3. CASE c = Tab
  <2> DEFINE t == [con EXCEPT !.x = NextTab(@)]
  <2>1. put_char(con, c) = Settled(t)
    BY <1>3 DEF put_char, NewLine, Tab
  <2>2. NextTab(con.x) \in Nat
    <3>1. con.x \in Nat /\ TabStop \in Nat /\ TabStop > 0
      BY <1>1, Numbers
    <3>2. con.x \div TabStop \in Nat
      BY <3>1, SMT
    <3> QED
      BY <3>1, <3>2, SMT DEF NextTab
  <2>3. t.chip = con.chip /\ t.x = NextTab(con.x) /\ t.y = con.y
    OBVIOUS
  <2> HIDE DEF t
  <2> QED
    BY <2>1, <2>2, <2>3, SettledBytes
<1>4. CASE c # NewLine /\ c # Tab
  <2>1. put_char(con, c) = Settled(Shown(con, c))
    BY <1>4 DEF put_char
  <2> QED
    BY <2>1, ShownBytes, SettledBytes
<1> QED
  BY <1>2, <1>3, <1>4

-----------------------------------------------------------------------------
(* The two memories.                                                       *)

\* Whatever is read is bytes.
LEMMA ReadsBytes ==
  ASSUME NEW l \in [0..(LocalSize - 1) -> Byte], NEW s \in Chips, NEW a, NEW n \in Nat
  PROVE  M!VmRead(l, s, a, n) \in [1..n -> Byte]
<1>1. \A f \in {l, s} : \A b : M!Holds(f, b) \in Byte
  BY ZeroByte DEF M!Holds, Chips
<1> DEFINE part == M!Part(a, n)
           value(i) == IF i <= part THEN M!Holds(l, a + i - 1)
                       ELSE M!Holds(s, M!SramAddr(M!SramStart(a, part), i - part))
<1>2. M!VmRead(l, s, a, n) = [i \in 1..n |-> value(i)]
  BY DEF M!VmRead
<1>3. \A i \in 1..n : value(i) \in Byte
  BY <1>1
<1> HIDE DEF value
<1> QED
  BY <1>2, <1>3

\* The bytes of a transfer go to its addresses, once round the chip if need be.
LEMMA StoresBytes ==
  ASSUME NEW D \in SUBSET Addr, NEW f \in [D -> Byte], NEW start \in Addr, NEW bytes \in Seq(Byte),
         Len(bytes) < MemSize, \A i \in 1..Len(bytes) : M!SramAddr(start, i) \in D
  PROVE  /\ M!Stored(f, start, bytes) \in [D -> Byte]
         /\ \A a \in D : M!Stored(f, start, bytes)[a] # f[a] =>
              \E i \in 1..Len(bytes) : a = M!SramAddr(start, i)
<1> DEFINE value(a) == IF M!ByteAt(start, a) <= Len(bytes) THEN bytes[M!ByteAt(start, a)] ELSE f[a]
<1>1. M!Stored(f, start, bytes) = [a \in D |-> value(a)]
  BY DEF M!Stored
<1>2. Len(bytes) \in Nat /\ \A i \in 1..Len(bytes) : bytes[i] \in Byte
  BY LenProperties, ElementOfSeq
<1>3. ASSUME NEW a \in D
      PROVE  /\ M!ByteAt(start, a) \in Nat /\ M!ByteAt(start, a) > 0
             /\ a = M!SramAddr(start, M!ByteAt(start, a))
  BY Numbers, SMT DEF Addr, M!ByteAt, M!SramAddr
<1>4. ASSUME NEW a \in D PROVE value(a) \in Byte
  BY <1>2, <1>3, SMT
<1>5. ASSUME NEW a \in D, value(a) # f[a] PROVE \E i \in 1..Len(bytes) : a = M!SramAddr(start, i)
  <2>1. M!ByteAt(start, a) <= Len(bytes)
    BY <1>5
  <2>2. M!ByteAt(start, a) \in 1..Len(bytes)
    BY <1>2, <1>3, <2>1, SMT
  <2> QED
    BY <1>3, <2>2
<1> HIDE DEF value
<1> QED
  BY <1>1, <1>4, <1>5

\* vm_ram_write, and the addresses it changes in each memory.
LEMMA WritesBytes ==
  ASSUME NEW l \in [0..(LocalSize - 1) -> Byte], NEW s \in Chips,
         NEW a \in Addr, NEW src \in Seq(Byte), Len(src) < Base
  PROVE  /\ M!LocalWritten(l, a, src) \in [0..(LocalSize - 1) -> Byte]
         /\ \A b \in 0..(LocalSize - 1) :
              M!LocalWritten(l, a, src)[b] # l[b] => b \in Touched(a, Len(src))
         /\ M!SramWritten(s, a, src) \in Chips
         /\ \A b \in Addr : M!SramWritten(s, a, src)[b] # s[b] => b \in Touched(a, Len(src))
<1> DEFINE n == Len(src)
           part == M!Part(a, n)
           head == SubSeq(src, 1, part)
           rest == SubSeq(src, part + 1, n)
<1>1. n \in Nat /\ a \in Nat /\ a < MemSize /\ n < MemSize /\ \A i \in 1..n : src[i] \in Byte
  <2>1. n \in Nat /\ \A i \in 1..n : src[i] \in Byte
    BY LenProperties, ElementOfSeq
  <2>2. Base <= MemSize
    BY Numbers, SMT
  <2> QED
    BY <2>1, <2>2, Numbers, SMT DEF Addr
<1>2. /\ part \in 0..n /\ (part > 0 => a + part <= LocalSize)
      /\ a + part \in Addr
  BY <1>1, Numbers, SMTT(30) DEF M!Part, Addr
<1> HIDE DEF part
<1>3. head \in Seq(Byte) /\ Len(head) = part /\ rest \in Seq(Byte) /\ Len(rest) = n - part
  <2>1. \A i \in 1..part : src[i] \in Byte
    BY <1>1, <1>2, SMT
  <2>2. head \in Seq(Byte) /\ Len(head) = IF 1 <= part THEN part - 1 + 1 ELSE 0
    BY <1>1, <1>2, <2>1, SubSeqProperties, SMT
  <2>3. \A i \in (part + 1)..n : src[i] \in Byte
    BY <1>1, <1>2, SMT
  <2>4. rest \in Seq(Byte) /\ Len(rest) = IF part + 1 <= n THEN n - (part + 1) + 1 ELSE 0
    BY <1>1, <1>2, <2>3, SubSeqProperties, SMT
  <2> QED
    BY <1>1, <1>2, <2>2, <2>4, SMT
<1> HIDE DEF head, rest, n
<1>4. /\ M!LocalWritten(l, a, src) = IF part = 0 THEN l ELSE M!Stored(l, a, head)
      /\ M!SramWritten(s, a, src) = M!Stored(s, a + part, rest)
  BY DEF M!LocalWritten, M!SramWritten, M!SramStart, part, head, rest, n
<1>5. /\ \A i \in 1..part : /\ M!SramAddr(a, i) \in 0..(LocalSize - 1)
                            /\ M!SramAddr(a, i) \in Touched(a, n)
      /\ \A i \in 1..(n - part) : /\ M!SramAddr(a + part, i) \in Addr
                                  /\ M!SramAddr(a + part, i) \in Touched(a, n)
  <2>1. \A i \in 1..part : M!SramAddr(a, i) \in 0..(LocalSize - 1) /\ i \in 1..n
    BY <1>1, <1>2, Numbers, SMT DEF M!SramAddr
  <2>2. ASSUME NEW i \in 1..(n - part)
        PROVE  /\ M!SramAddr(a + part, i) \in Addr /\ part + i \in 1..n
               /\ M!SramAddr(a + part, i) = M!SramAddr(a, part + i)
    BY <1>1, <1>2, Numbers, SMT DEF M!SramAddr, Addr
  <2> QED
    BY <2>1, <2>2 DEF Touched
<1>6. /\ M!LocalWritten(l, a, src) \in [0..(LocalSize - 1) -> Byte]
      /\ \A b \in 0..(LocalSize - 1) : M!LocalWritten(l, a, src)[b] # l[b] => b \in Touched(a, n)
  <2>1. CASE part = 0
    BY <1>4, <2>1
  <2>2. CASE part # 0
    <3>1. 0..(LocalSize - 1) \in SUBSET Addr
      BY Numbers, SMT DEF Addr
    <3>2. Len(head) < MemSize
      BY <1>1, <1>2, <1>3, Numbers, SMT
    <3>3. /\ M!Stored(l, a, head) \in [0..(LocalSize - 1) -> Byte]
          /\ \A b \in 0..(LocalSize - 1) : M!Stored(l, a, head)[b] # l[b] =>
               \E i \in 1..Len(head) : b = M!SramAddr(a, i)
      BY <1>3, <1>5, <3>1, <3>2, StoresBytes
    <3> QED
      BY <1>3, <1>4, <1>5, <2>2, <3>3
  <2> QED
    BY <2>1, <2>2
<1>7. /\ M!SramWritten(s, a, src) \in Chips
      /\ \A b \in Addr : M!SramWritten(s, a, src)[b] # s[b] => b \in Touched(a, n)
  <2>1. Len(rest) < MemSize
    BY <1>1, <1>2, <1>3, Numbers, SMT
  <2>2. /\ M!Stored(s, a + part, rest) \in [Addr -> Byte]
        /\ \A b \in Addr : M!Stored(s, a + part, rest)[b] # s[b] =>
             \E i \in 1..Len(rest) : b = M!SramAddr(a + part, i)
    <3>1. Addr \in SUBSET Addr /\ s \in [Addr -> Byte]
      BY DEF Chips
    <3>2. \A i \in 1..Len(rest) : M!SramAddr(a + part, i) \in Addr
      BY <1>3, <1>5
    <3> QED
      BY <1>2, <1>3, <2>1, <3>1, <3>2, StoresBytes
  <2> QED
    BY <1>3, <1>4, <1>5, <2>2 DEF Chips
<1> QED
  BY <1>6, <1>7 DEF n

\* An address that a program gives as two bytes is an address.
LEMMA WordIsAddr ==
  ASSUME NEW hi \in Byte, NEW lo \in Byte
  PROVE  Word(hi, lo) \in Addr
<1>1. lo \in Nat /\ hi \in Nat /\ lo < Base /\ hi < Base
  BY Numbers, SMT DEF Byte
<1>2. hi * Base + Base <= Base * Base /\ hi * Base \in Nat
  BY <1>1, Numbers, Rows
<1>3. Base * hi = hi * Base
  BY <1>1, Numbers, SMT
<1> QED
  BY <1>1, <1>2, <1>3, Numbers, SMT DEF Word, Addr

LEMMA StackIsAddr ==
  ASSUME NEW sp \in Byte
  PROVE  StackTop(sp) \in Addr
<1>1. (sp + 1) % Base \in 0..(Base - 1)
  BY Numbers, SMT DEF Byte
<1> QED
  BY <1>1, Numbers, SMT DEF StackTop, Addr

-----------------------------------------------------------------------------
(* The invariant.                                                          *)

Names ==
  {"none", "load", "save", "put_char", "set_cursor", "fill_screen", "get_char", "put_tile",
   "random", "vsync", "srand", "version", "report", "put_string", "write", "read", "get_input"}

Calls ==
  [f : Names, start : Addr, addr : Addr, count : Nat, todo : Seq(Byte), done : Seq(Byte),
   pos : Nat]

CallInv ==
  /\ call \in Calls
  /\ call.f = "get_input" =>
       call.todo = <<>> /\ call.pos <= Len(call.done) /\ Len(call.done) < BufferSize

\* The cell where a line that is being edited starts, counting by rows.
Home == (y * CHARS_WIDTH + x) - call.pos

\* Such a line is on the screen, with room for the cursor after it.
LineInv ==
  Input /\ ~astray => 0 <= Home /\ Home + Len(call.done) < CHARS_HEIGHT * CHARS_WIDTH

IInv ==
  /\ local \in [0..(LocalSize - 1) -> Byte] /\ sram \in Chips
  /\ x \in Columns /\ y \in Int
  /\ ~astray => y \in Lines
  /\ CallInv
  /\ LineInv

\* What a step may do: keep the invariant, and draw on the screen only.
Fine == IInv' /\ OnlyScreenChanges

\* No line is being edited.
LEMMA NoLine == ASSUME ~Input' PROVE LineInv'
BY DEF LineInv

\* A new call.
LEMMA NewCall ==
  ASSUME NEW f \in Names, NEW addr \in Addr, NEW count \in Nat, NEW todo \in Seq(Byte),
         call' = Call(f, addr, count, todo), f = "get_input" => todo = <<>>
  PROVE  CallInv' /\ call'.f = f
<1>1. call' = [f |-> f, start |-> addr, addr |-> addr, count |-> count, todo |-> todo,
               done |-> <<>>, pos |-> 0]
  BY DEF Call
<1>2. <<>> \in Seq(Byte) /\ Len(<<>>) = 0 /\ 0 \in Nat
  BY EmptySeq
<1> QED
  BY <1>1, <1>2, Numbers, SMT DEF CallInv, Calls

LEMMA NoNewCall == call' = NoCall => CallInv' /\ call'.f = "none"
<1>1. 0 \in Addr /\ 0 \in Nat /\ <<>> \in Seq(Byte)
  BY ZeroByte, EmptySeq
<1>2. "none" \in Names
  BY DEF Names
<1> QED
  BY <1>1, <1>2, NewCall DEF NoCall

LEMMA AtOnceCall ==
  ASSUME NEW f \in Names, AtOnce(f)
  PROVE  CallInv' /\ call'.f = f /\ ~busy /\ LineInv'
<1>1. 0 \in Addr /\ 0 \in Nat /\ <<>> \in Seq(Byte)
  BY ZeroByte, EmptySeq
<1>2. LineInv'
  BY NoLine DEF AtOnce, Ready, Input
<1> QED
  BY <1>1, <1>2, NewCall DEF AtOnce, Ready

\* The arguments of a call.
LEMMA ArgsAreBytes ==
  ASSUME IInv, NEW n \in Nat
  PROVE  Args(n) \in [1..n -> Byte]
BY ReadsBytes DEF Args, IInv

\* A step that moves no byte.
LEMMA QuietStep ==
  ASSUME IInv, UNCHANGED <<memory, x, y>>, astray' = astray, CallInv', LineInv'
  PROVE  Fine
BY DEF IInv, memory, Fine, OnlyScreenChanges

\* What is drawn is on the screen, until a line goes astray.
Confined(con) == Anywhere(con) /\ (~astray => OnScreen(con, sram))

\* A step that draws.
LEMMA DrawStep ==
  ASSUME IInv, NEW con, Confined(con), CallInv', LineInv', astray' = astray,
         local' = local, sram' = con.chip, x' = con.x, y' = con.y
  PROVE  Fine
BY DEF IInv, Confined, Anywhere, OnScreen, Fine, OnlyScreenChanges

LEMMA ConIsConsole ==
  IInv => /\ Con \in [chip : Chips, x : Columns, y : Int]
          /\ Con.chip = sram /\ Con.x = x /\ Con.y = y
          /\ ~astray => Con \in [chip : Chips, x : Columns, y : Lines]
BY DEF IInv, Con

LEMMA PutCharConfined == ASSUME IInv, NEW c \in Byte PROVE Confined(put_char(Con, c))
BY ConIsConsole, PutCharBytes, PutCharDraws DEF Confined

LEMMA LineFeedConfined == ASSUME IInv PROVE Confined(LineFeed(Con))
BY ConIsConsole, LineFeedBytes, LineFeedDraws DEF Confined

LEMMA KeyConfined == ASSUME IInv, NEW c \in Byte PROVE Confined(Settled(Shown(Con, c)))
<1>1. Anywhere(Settled(Shown(Con, c)))
  BY ConIsConsole, ShownBytes, SettledBytes
<1>2. ASSUME ~astray PROVE OnScreen(Settled(Shown(Con, c)), sram)
  BY <1>2, ConIsConsole, ShownDraws, SettledDraws
<1> QED
  BY <1>1, <1>2 DEF Confined

-----------------------------------------------------------------------------
(* Cells, counted by rows.                                                 *)

Index(a) == a.y * CHARS_WIDTH + a.x
OnCell(a) == a.x \in Columns /\ a.y \in Lines

LEMMA RowsApart ==
  ASSUME NEW m \in Int, NEW n \in Int, m < n
  PROVE  m * CHARS_WIDTH + CHARS_WIDTH <= n * CHARS_WIDTH
<1>1. PICK d \in Nat : n = m + 1 + d
  BY SMT
<1>2. (m + 1 + d) * CHARS_WIDTH = m * CHARS_WIDTH + CHARS_WIDTH + d * CHARS_WIDTH
      /\ d * CHARS_WIDTH \in Nat
  BY Numbers, SMT
<1> QED
  BY <1>1, <1>2, Numbers, SMT

\* The cells of the screen are those with a number below its size.
LEMMA CellCount ==
  ASSUME NEW u \in Columns, NEW v \in Int
  PROVE  /\ v * CHARS_WIDTH + u \in Int
         /\ CHARS_HEIGHT * CHARS_WIDTH \in Nat
         /\ v \in Lines <=> /\ 0 <= v * CHARS_WIDTH + u
                           /\ v * CHARS_WIDTH + u < CHARS_HEIGHT * CHARS_WIDTH
<1>1. u \in Nat /\ u < CHARS_WIDTH
  BY Numbers, SMT DEF Columns
<1>2. v * CHARS_WIDTH \in Int /\ CHARS_HEIGHT * CHARS_WIDTH \in Nat
      /\ 0 * CHARS_WIDTH = 0
  BY Numbers, SMT
<1>3. v \in Lines <=> 0 <= v /\ v < CHARS_HEIGHT
  BY Numbers, SMT DEF Lines
<1> DEFINE p == v * CHARS_WIDTH
           q == CHARS_HEIGHT * CHARS_WIDTH
<1>4. CASE v < 0
  <2>1. p + CHARS_WIDTH <= 0
    BY <1>2, <1>4, RowsApart
  <2> HIDE DEF p, q
  <2> QED
    BY <1>1, <1>2, <1>3, <1>4, <2>1, Numbers, SMT DEF p
<1>5. CASE 0 <= v /\ v < CHARS_HEIGHT
  <2>1. 0 <= p
    <3>1. v = 0 \/ 0 < v
      BY <1>5, SMT
    <3>2. CASE 0 < v
      <4>1. 0 + CHARS_WIDTH <= p
        BY <1>2, <3>2, RowsApart
      <4> HIDE DEF p
      <4> QED
        BY <1>2, <4>1, Numbers, SMT DEF p
    <3> QED
      BY <1>2, <3>1, <3>2
  <2>2. p + CHARS_WIDTH <= q
    BY <1>5, RowsApart, Numbers
  <2>3. p \in Int /\ q \in Nat
    BY <1>2
  <2> HIDE DEF p, q
  <2>4. 0 <= p + u /\ p + u < q /\ p + u \in Int
    BY <1>1, <2>1, <2>2, <2>3, Numbers, SMT
  <2>5. v \in Lines
    BY <1>3, <1>5
  <2> QED
    BY <2>3, <2>4, <2>5, Zenon DEF p, q
<1>6. CASE CHARS_HEIGHT <= v
  <2>1. q <= p
    <3>1. CASE v = CHARS_HEIGHT
      BY <1>2, <3>1, SMT
    <3>2. CASE v # CHARS_HEIGHT
      <4>1. q + CHARS_WIDTH <= p
        BY <1>6, <3>2, RowsApart, Numbers, SMT
      <4> HIDE DEF p, q
      <4> QED
        BY <1>2, <4>1, Numbers, SMT DEF p, q
    <3> QED
      BY <3>1, <3>2
  <2>2. p \in Int /\ q \in Nat
    BY <1>2
  <2> HIDE DEF p, q
  <2>3. ~(p + u < q) /\ p + u \in Int
    BY <1>1, <2>1, <2>2, SMT
  <2>4. v \notin Lines
    BY <1>3, <1>6, Numbers, SMT
  <2> QED
    BY <2>2, <2>3, <2>4, Zenon DEF p, q
<1> QED
  BY <1>4, <1>5, <1>6, Numbers, SMT

\* The cell with a number.
LEMMA CellOf ==
  ASSUME NEW k \in Int
  PROVE  /\ k % CHARS_WIDTH \in Columns /\ k \div CHARS_WIDTH \in Int
         /\ (k \div CHARS_WIDTH) * CHARS_WIDTH + (k % CHARS_WIDTH) = k
<1> DEFINE q == k \div CHARS_WIDTH
           u == k - q * CHARS_WIDTH
<1>1. q \in Int
  BY Numbers, SMT
<1>2. q * CHARS_WIDTH <= k
  BY Numbers, SMT
<1>3. k < q * CHARS_WIDTH + CHARS_WIDTH
  BY Numbers, SMT
<1>4. u \in 0..(CHARS_WIDTH - 1) /\ k = q * CHARS_WIDTH + u
  <2> HIDE DEF q
  <2> QED
    BY <1>1, <1>2, <1>3, Numbers, SMT
<1>5. k % CHARS_WIDTH = u
  <2> HIDE DEF u, q
  <2> QED
    BY <1>1, <1>4, Numbers, SMT
<1> HIDE DEF u
<1> QED
  BY <1>1, <1>4, <1>5 DEF Columns

LEMMA CellAfterIs ==
  ASSUME NEW a \in [x : Int, y : Int], NEW n \in Int
  PROVE  /\ CellAfter(a, n).x \in Columns /\ CellAfter(a, n).y \in Int
         /\ Index(a) \in Int /\ Index(CellAfter(a, n)) = Index(a) + n
<1>1. a.x \in Int
  OBVIOUS
<1>2. a.y * CHARS_WIDTH \in Int
  BY Numbers, SMT
<1>3. Index(a) \in Int
  BY <1>1, <1>2, SMT DEF Index
<1> DEFINE k == Index(a) + n
<1>4. k \in Int
  BY <1>3, SMT
<1>5. CellAfter(a, n) = [x |-> k % CHARS_WIDTH, y |-> k \div CHARS_WIDTH]
  BY DEF CellAfter, Index
<1> HIDE DEF k
<1>6. /\ k % CHARS_WIDTH \in Columns /\ k \div CHARS_WIDTH \in Int
      /\ (k \div CHARS_WIDTH) * CHARS_WIDTH + (k % CHARS_WIDTH) = k
  BY <1>4, CellOf
<1> QED
  BY <1>3, <1>5, <1>6 DEF Index, k

LEMMA CellBeforeIs ==
  ASSUME NEW a \in [x : Int, y : Int], a.x \in Columns, NEW n \in Nat
  PROVE  /\ CellBefore(a, n).x \in Columns /\ CellBefore(a, n).y \in Int
         /\ Index(a) \in Int /\ Index(CellBefore(a, n)) = Index(a) - n
<1>1. a.x \in Int /\ -n \in Int
  BY Numbers, SMT DEF Columns
<1>2. CASE n <= a.x
  <2> DEFINE b == [a EXCEPT !.x = @ - n]
  <2>1. CellBefore(a, n) = b
    BY <1>2 DEF CellBefore
  <2>2. a.x - n \in Columns
    BY <1>2, Numbers, SMT DEF Columns
  <2>3. a.y * CHARS_WIDTH \in Int
    BY Numbers, SMT
  <2>4. CellBefore(a, n).x = a.x - n /\ CellBefore(a, n).y = a.y
    BY <2>1
  <2> QED
    BY <1>1, <2>2, <2>3, <2>4, SMT DEF Index
<1>3. CASE ~(n <= a.x)
  <2>1. CellBefore(a, n) = CellAfter(a, -n)
    BY <1>3 DEF CellBefore
  <2>2. /\ CellAfter(a, -n).x \in Columns /\ CellAfter(a, -n).y \in Int
        /\ Index(a) \in Int /\ Index(CellAfter(a, -n)) = Index(a) + (-n)
    BY <1>1, CellAfterIs
  <2>3. Index(a) + (-n) = Index(a) - n
    BY <2>2, SMT
  <2> QED
    BY <2>1, <2>2, <2>3
<1> QED
  BY <1>2, <1>3

-----------------------------------------------------------------------------
(* The program.                                                            *)

LEMMA StoreStep ==
  ASSUME IInv, NEW a \in Addr, NEW src \in Seq(Byte), Len(src) < Base,
         Vm_ram_write(a, src), UNCHANGED <<x, y, astray>>, call' = NoCall, ~busy, ~busy'
  PROVE  Fine
<1>1. /\ local' \in [0..(LocalSize - 1) -> Byte] /\ sram' \in Chips
  BY WritesBytes DEF IInv, Vm_ram_write
<1>2. LineInv'
  BY NoLine DEF Input
<1> QED
  BY <1>1, <1>2, NoNewCall DEF IInv, Fine, OnlyScreenChanges

LEMMA ProgramStep == IInv /\ Program => Fine
<1> SUFFICES ASSUME IInv, Program PROVE Fine
  OBVIOUS
<1>1. ASSUME NEW s \in Stores, Store(s) PROVE Fine
  <2>1. s.addr \in Addr /\ s.src \in Seq(Byte) /\ Len(s.src) < Base
    BY SyscallsAssumption DEF SyscallsAssumption
  <2> QED
    BY <1>1, <2>1, StoreStep DEF Store, Ready
<1>2. ASSUME NEW p \in Pushes, Push(p) PROVE Fine
  <2>1. p.sp \in Byte /\ p.src \in Seq(Byte) /\ Len(p.src) < Base
    BY SyscallsAssumption DEF SyscallsAssumption
  <2>2. StackTop(p.sp) \in Addr
    BY <2>1, StackIsAddr
  <2> QED
    BY <1>2, <2>1, <2>2, StoreStep DEF Push, Ready
<1>3. ASSUME Run PROVE Fine
  <2>1. LineInv'
    BY <1>3, NoLine DEF Run, Input
  <2> QED
    BY <1>3, <2>1, NoNewCall, QuietStep DEF Run, screen
<1> QED
  BY <1>1, <1>2, <1>3 DEF Program

-----------------------------------------------------------------------------
(* The calls that end at once.                                             *)

LEMMA LoadStep == IInv /\ Sys_load => Fine
<1> SUFFICES ASSUME IInv, Sys_load PROVE Fine
  OBVIOUS
<1>1. CallInv' /\ call'.f = "load" /\ ~busy /\ LineInv'
  BY AtOnceCall DEF Sys_load, Names
<1>2. PICK block \in Blocks : sram' = M!Stored(sram, Word(Args(2)[1], Args(2)[2]), block)
  BY DEF Sys_load
<1> DEFINE addr == Word(Args(2)[1], Args(2)[2])
<1>3. addr \in Addr /\ block \in Seq(Byte) /\ Len(block) < MemSize
  <2>1. Args(2)[1] \in Byte /\ Args(2)[2] \in Byte
    BY ArgsAreBytes, SMT
  <2> QED
    BY <2>1, WordIsAddr, SyscallsAssumption DEF SyscallsAssumption
<1> HIDE DEF addr
<1>4. sram' \in Chips
  <2>1. Addr \in SUBSET Addr /\ sram \in [Addr -> Byte]
    BY DEF IInv, Chips
  <2>2. \A i \in 1..Len(block) : M!SramAddr(addr, i) \in Addr
    <3>1. Len(block) \in Nat
      BY <1>3, LenProperties
    <3> QED
      BY <1>3, <3>1, Numbers, SMT DEF Addr, M!SramAddr
  <2>3. M!Stored(sram, addr, block) \in [Addr -> Byte]
    BY <1>3, <2>1, <2>2, StoresBytes
  <2> QED
    BY <1>2, <2>3 DEF Chips, addr
<1> QED
  BY <1>1, <1>4 DEF IInv, Fine, OnlyScreenChanges, Sys_load

LEMMA DrawingCallStep ==
  IInv /\ (Sys_put_char \/ Sys_set_cursor \/ Sys_fill_screen \/ Sys_put_tile) => Fine
<1> SUFFICES ASSUME IInv, Sys_put_char \/ Sys_set_cursor \/ Sys_fill_screen \/ Sys_put_tile
             PROVE  Fine
  OBVIOUS
<1>1. Args(1)[1] \in Byte /\ Args(2)[1] \in Byte /\ Args(2)[2] \in Byte
  BY ArgsAreBytes, SMT
<1>2. CallInv' /\ LineInv' /\ local' = local
  <2>1. {"put_char", "set_cursor", "fill_screen", "put_tile"} \subseteq Names
    BY DEF Names
  <2>2. \E f \in Names : AtOnce(f)
    BY <2>1 DEF Sys_put_char, Sys_set_cursor, Sys_fill_screen, Sys_put_tile
  <2> QED
    BY <2>2, AtOnceCall DEF Sys_put_char, Sys_set_cursor, Sys_fill_screen, Sys_put_tile
<1>3. CASE Sys_put_char
  <2> DEFINE con == [Con EXCEPT !.chip = video_put_char(@, x, y, Args(1)[1])]
  <2>1. /\ con.chip = video_put_char(sram, x, y, Args(1)[1]) /\ con.x = x /\ con.y = y
    BY DEF Con
  <2>2. sram' = con.chip /\ x' = con.x /\ y' = con.y /\ astray' = astray
    BY <1>3 DEF Sys_put_char, Becomes
  <2> HIDE DEF con
  <2>3. Confined(con)
    BY <1>1, <2>1, CharBytes, CharDraws DEF IInv, Confined, Anywhere, OnScreen
  <2> QED
    BY <1>2, <2>2, <2>3, DrawStep
<1>4. CASE Sys_set_cursor
  <2>1. CASE UNCHANGED <<sram, x, y, astray>>
    BY <1>2, <2>1, QuietStep DEF memory
  <2>2. CASE ~OutOfScreen(Args(2)) /\ sram' = sram /\ x' = Args(2)[1] /\ y' = Args(2)[2]
    <3>1. Args(2)[1] \in Columns /\ Args(2)[2] \in Lines /\ Args(2)[2] \in Int
      BY <1>1, <2>2, Numbers, SMT DEF OutOfScreen, Columns, Lines, Byte
    <3> QED
      BY <1>2, <2>2, <3>1 DEF IInv, Fine, OnlyScreenChanges
  <2> QED
    BY <1>4, <2>1, <2>2 DEF Sys_set_cursor, PutAt
<1>5. CASE Sys_fill_screen
  <2>1. sram' = video_cls(sram, Args(1)[1]) /\ x' = 0 /\ y' = 0
    BY <1>5 DEF Sys_fill_screen, Fill
  <2>2. 0 \in Columns /\ 0 \in Lines /\ 0 \in Int
    BY Numbers, SMT DEF Columns, Lines
  <2>3. /\ video_cls(sram, Args(1)[1]) \in Chips
        /\ \A a \in Addr \ Video : video_cls(sram, Args(1)[1])[a] = sram[a]
    BY <1>1, ClsDraws DEF IInv
  <2> QED
    BY <1>2, <2>1, <2>2, <2>3 DEF IInv, Fine, OnlyScreenChanges
<1>6. CASE Sys_put_tile
  <2> DEFINE tile == M!VmRead(local, sram, Word(Args(2)[1], Args(2)[2]), CharLines)
             con == [Con EXCEPT !.chip = video_put_tile(@, x, y, tile)]
  <2>1. /\ con.chip = video_put_tile(sram, x, y, tile) /\ con.x = x /\ con.y = y
    BY DEF Con
  <2>2. sram' = con.chip /\ x' = con.x /\ y' = con.y /\ astray' = astray
    BY <1>6 DEF Sys_put_tile, Becomes
  <2>3. tile \in [1..CharLines -> Byte]
    BY ReadsBytes, Numbers DEF IInv
  <2> HIDE DEF con, tile
  <2>4. Confined(con)
    BY <2>1, <2>3, TileBytes, TileDraws DEF IInv, Confined, Anywhere, OnScreen
  <2> QED
    BY <1>2, <2>2, <2>4, DrawStep
<1> QED
  BY <1>3, <1>4, <1>5, <1>6

LEMMA QuietCallStep ==
  IInv /\ (Sys_save \/ Sys_get_char \/ Sys_random \/ Sys_vsync \/ Sys_srand \/ Sys_version) => Fine
<1> SUFFICES ASSUME IInv, Sys_save \/ Sys_get_char \/ Sys_random \/ Sys_vsync \/ Sys_srand \/ Sys_version
             PROVE  Fine
  OBVIOUS
<1>1. CallInv' /\ LineInv'
  <2>1. {"save", "get_char", "random", "vsync", "srand", "version"} \subseteq Names
    BY DEF Names
  <2>2. \E f \in Names : AtOnce(f)
    BY <2>1 DEF Sys_save, Sys_get_char, Sys_random, Sys_vsync, Sys_srand, Sys_version
  <2> QED
    BY <2>2, AtOnceCall
<1>2. UNCHANGED <<memory, x, y, astray>>
  BY DEF Sys_save, Sys_get_char, Sys_random, Sys_vsync, Sys_srand, Sys_version, screen
<1> QED
  BY <1>1, <1>2, QuietStep

-----------------------------------------------------------------------------
(* The calls that go on.                                                   *)

LEMMA BeginStep ==
  ASSUME IInv, NEW f \in Names, NEW addr \in Addr, NEW count \in Nat, NEW todo \in Seq(Byte),
         f = "get_input" => todo = <<>>, Begin(f, addr, count, todo)
  PROVE  Fine
<1>1. CallInv' /\ call'.f = f
  BY NewCall DEF Begin
<1>2. UNCHANGED <<memory, x, y, astray>>
  BY DEF Begin, screen
<1>3. LineInv'
  <2>1. call'.done = <<>> /\ call'.pos = 0 /\ Len(<<>>) = 0
    BY EmptySeq DEF Begin, Call
  <2>2. ASSUME ~astray PROVE 0 <= Home' /\ Home' + 0 < CHARS_HEIGHT * CHARS_WIDTH
    <3> DEFINE k == y * CHARS_WIDTH + x
               N == CHARS_HEIGHT * CHARS_WIDTH
    <3>1. x' = x /\ y' = y /\ call'.pos = 0
      BY <1>2, <2>1
    <3>2. Home' = k - 0
      BY <3>1 DEF Home
    <3>3. x \in Columns /\ y \in Lines /\ y \in Int
      BY <2>2 DEF IInv
    <3>4. k \in Int /\ 0 <= k /\ k < N /\ N \in Nat
      BY <3>3, CellCount
    <3> HIDE DEF k, N
    <3>5. 0 <= k - 0 /\ (k - 0) + 0 < N
      BY <3>4, SMT
    <3> QED
      BY <3>2, <3>5 DEF N
  <2> QED
    BY <1>2, <2>1, <2>2 DEF LineInv
<1> QED
  BY <1>1, <1>2, <1>3, QuietStep

LEMMA BeginCallStep ==
  IInv /\ (Sys_exit \/ Sys_unknown \/ Sys_put_string \/ Sys_write \/ Sys_read \/ Sys_get_input) => Fine
<1> SUFFICES ASSUME IInv,
                    Sys_exit \/ Sys_unknown \/ Sys_put_string \/ Sys_write \/ Sys_read \/ Sys_get_input
             PROVE  Fine
  OBVIOUS
<1>1. {"report", "put_string", "write", "read", "get_input"} \subseteq Names
  BY DEF Names
<1>2. 0 \in Addr /\ 0 \in Nat /\ <<>> \in Seq(Byte)
  BY ZeroByte, EmptySeq
<1>3. \A b \in Byte : b \in Nat
  BY SMT DEF Byte
<1>4. \A a \in Addr : a \in Nat
  BY SMT DEF Addr
<1>5. CASE Sys_exit
  <2> DEFINE todo == IF Args(1)[1] # 0 THEN text_err_prg ELSE text_err_ok
  <2>1. todo \in Seq(Byte)
    BY SyscallsAssumption DEF SyscallsAssumption
  <2>2. Begin("report", 0, 0, todo)
    BY <1>5 DEF Sys_exit
  <2> HIDE DEF todo
  <2> QED
    BY <1>1, <1>2, <2>1, <2>2, BeginStep
<1>6. CASE Sys_unknown
  <2>1. text_err_sys \in Seq(Byte)
    BY SyscallsAssumption DEF SyscallsAssumption
  <2> QED
    BY <1>1, <1>2, <1>6, <2>1, BeginStep DEF Sys_unknown
<1>7. CASE Sys_put_string
  <2> DEFINE addr == Word(Args(2)[1], Args(2)[2])
  <2>1. Args(2)[1] \in Byte /\ Args(2)[2] \in Byte
    BY ArgsAreBytes, SMT
  <2>2. addr \in Addr
    BY <2>1, WordIsAddr
  <2>3. Begin("put_string", addr, 0, <<>>)
    BY <1>7 DEF Sys_put_string
  <2> HIDE DEF addr
  <2> QED
    BY <1>1, <1>2, <2>2, <2>3, BeginStep
<1>8. CASE Sys_write \/ Sys_read
  <2> DEFINE v == Args(6)
             addr == Word(v[3], v[4])
             size == Word(v[5], v[6])
             out == IF Handle(v) \in {1, 2} THEN size ELSE 0
             in == IF Handle(v) = 0 THEN size ELSE 0
  <2>1. \A i \in 1..6 : v[i] \in Byte
    BY ArgsAreBytes
  <2>2. v[3] \in Byte /\ v[4] \in Byte /\ v[5] \in Byte /\ v[6] \in Byte
    BY <2>1, SMT
  <2> HIDE DEF v
  <2>3. addr \in Addr /\ size \in Addr
    BY <2>2, WordIsAddr
  <2>4. out \in Nat /\ in \in Nat
    BY <1>2, <1>4, <2>3
  <2>5. Begin("write", addr, out, <<>>) \/ Begin("read", addr, in, <<>>)
    BY <1>8 DEF Sys_write, Sys_read, v
  <2> HIDE DEF addr, out, in
  <2> QED
    BY <1>1, <1>2, <2>3, <2>4, <2>5, BeginStep
<1>9. CASE Sys_get_input
  <2> DEFINE v == Args(3)
             addr == Word(v[1], v[2])
             size == IF v[3] < InputLimit THEN v[3] ELSE InputLimit
  <2>1. \A i \in 1..3 : v[i] \in Byte
    BY ArgsAreBytes
  <2>2. v[1] \in Byte /\ v[2] \in Byte /\ v[3] \in Byte
    BY <2>1, SMT
  <2> HIDE DEF v
  <2>3. addr \in Addr /\ size \in Nat
    BY <1>3, <2>2, WordIsAddr, Numbers
  <2>4. Begin("get_input", addr, size, <<>>)
    BY <1>9 DEF Sys_get_input, v
  <2> HIDE DEF addr, size
  <2> QED
    BY <1>1, <1>2, <2>3, <2>4, BeginStep
<1> QED
  BY <1>5, <1>6, <1>7, <1>8, <1>9

LEMMA EndStep ==
  IInv /\ (ReportEnds \/ WriteEnds \/ ReadEnds) => Fine
<1> SUFFICES ASSUME IInv, ReportEnds \/ WriteEnds \/ ReadEnds PROVE Fine
  OBVIOUS
<1>1. call' = call /\ ~busy' /\ UNCHANGED <<memory, x, y, astray>>
  BY DEF ReportEnds, WriteEnds, ReadEnds, Return, screen
<1>2. CallInv' /\ LineInv'
  BY <1>1, NoLine DEF IInv, CallInv, Input
<1> QED
  BY <1>1, <1>2, QuietStep

\* A character of a call is drawn.
LEMMA PutCharStep ==
  ASSUME IInv, NEW c \in Byte, NEW left, PutChar(c, left), CallInv', LineInv',
         local' = local, astray' = astray
  PROVE  Fine
<1>1. Confined(put_char(Con, c))
  BY PutCharConfined
<1> QED
  BY <1>1, DrawStep DEF PutChar, Becomes

LEMMA PutNextStep == IInv /\ PutNext => Fine
<1> SUFFICES ASSUME IInv, PutNext PROVE Fine
  OBVIOUS
<1> DEFINE c == Head(call.todo)
           left == [call EXCEPT !.todo = Tail(@)]
<1>1. call \in Calls /\ call.f # "get_input" /\ call.todo \in Seq(Byte) /\ call.done \in Seq(Byte)
  BY DEF IInv, CallInv, Calls, PutNext
<1>2. c \in Byte /\ Tail(call.todo) \in Seq(Byte)
  BY <1>1, HeadTailProperties DEF PutNext
<1>3. PutChar(c, left) /\ local' = local /\ astray' = astray
  BY DEF PutNext
<1>4. CallInv' /\ LineInv'
  <2>1. Append(call.done, c) \in Seq(Byte)
    BY <1>1, <1>2, AppendProperties
  <2>2. left \in Calls /\ left.f = call.f /\ left.done = call.done
    BY <1>1, <1>2 DEF Calls
  <2>3. call' = [left EXCEPT !.done = Append(call.done, c)]
    BY <1>3, <2>2 DEF PutChar
  <2> HIDE DEF left, c
  <2>4. call' \in Calls /\ call'.f = call.f
    BY <2>1, <2>2, <2>3 DEF Calls
  <2> QED
    BY <1>1, <2>4, NoLine DEF CallInv, Input
<1> HIDE DEF left, c
<1> QED
  BY <1>2, <1>3, <1>4, PutCharStep

LEMMA PutStringStep == IInv /\ PutStringNext => Fine
<1> SUFFICES ASSUME IInv, PutStringNext PROVE Fine
  OBVIOUS
<1> DEFINE c == ReadByte(call.addr)
           next == (call.addr + 1) % MemSize
           left == [call EXCEPT !.addr = (@ + 1) % MemSize]
<1>1. call \in Calls /\ call.f = "put_string" /\ call.addr \in Addr /\ call.done \in Seq(Byte)
  BY DEF IInv, CallInv, Calls, PutStringNext
<1>2. c \in Byte /\ next \in Addr
  <2>1. M!VmRead(local, sram, call.addr, 1) \in [1..1 -> Byte]
    BY ReadsBytes DEF IInv
  <2>2. c \in Byte
    BY <2>1, SMT DEF ReadByte
  <2>3. next \in Addr
    BY <1>1, Numbers, SMT DEF Addr
  <2> QED
    BY <2>2, <2>3
<1>3. CASE Return
  <2>1. call' = call /\ ~busy' /\ UNCHANGED <<memory, x, y, astray>>
    BY <1>3 DEF Return, screen
  <2>2. CallInv' /\ LineInv'
    BY <2>1, NoLine DEF IInv, CallInv, Input
  <2> QED
    BY <2>1, <2>2, QuietStep
<1>4. CASE PutChar(c, left) /\ local' = local /\ astray' = astray
  <2>1. Append(call.done, c) \in Seq(Byte)
    BY <1>1, <1>2, AppendProperties
  <2>2. left \in Calls /\ left.f = "put_string" /\ left.done = call.done
    BY <1>1, <1>2 DEF Calls
  <2>3. call' = [left EXCEPT !.done = Append(call.done, c)]
    BY <1>4, <2>2 DEF PutChar
  <2> HIDE DEF left, c
  <2>4. call' \in Calls /\ call'.f = "put_string"
    BY <2>1, <2>2, <2>3 DEF Calls
  <2>5. CallInv' /\ LineInv'
    BY <2>4, NoLine DEF CallInv, Input
  <2> QED
    BY <1>2, <1>4, <2>5, PutCharStep
<1> QED
  BY <1>3, <1>4 DEF PutStringNext

LEMMA WriteChunkStep == IInv /\ WriteChunk => Fine
<1> SUFFICES ASSUME IInv, WriteChunk PROVE Fine
  OBVIOUS
<1> DEFINE size == IF call.count < Chunk THEN call.count ELSE Chunk
           todo == M!VmRead(local, sram, call.addr, size)
<1>1. call \in Calls /\ call.f = "write" /\ call.addr \in Addr /\ call.count \in Nat
  BY DEF IInv, CallInv, Calls, WriteChunk
<1>2. size \in Nat /\ call.count - size \in Nat
  BY <1>1, Numbers, SMT
<1>3. NextAddr(size) \in Addr
  BY <1>1, <1>2, Numbers, SMT DEF NextAddr, Addr
<1> HIDE DEF size
<1>4. todo \in Seq(Byte)
  <2>1. todo \in [1..size -> Byte]
    BY <1>2, ReadsBytes DEF IInv
  <2> QED
    BY <1>2, <2>1, SeqDef
<1> HIDE DEF todo
<1>5. call' = [call EXCEPT !.todo = todo, !.count = @ - size, !.addr = NextAddr(size)]
      /\ UNCHANGED <<memory, x, y, astray>>
  BY DEF WriteChunk, size, todo, screen
<1>6. call' \in Calls /\ call'.f = "write"
  BY <1>1, <1>2, <1>3, <1>4, <1>5 DEF Calls
<1>7. CallInv' /\ LineInv'
  BY <1>6, NoLine DEF CallInv, Input
<1> QED
  BY <1>5, <1>7, QuietStep

\* Text that is drawn and then stored at an address.
LEMMA DrawAndStoreStep ==
  ASSUME IInv, NEW con, Confined(con), NEW a \in Addr, NEW src \in Seq(Byte), Len(src) < Base,
         local' = M!LocalWritten(local, a, src), sram' = M!SramWritten(con.chip, a, src),
         x' = con.x, y' = con.y, astray' = astray, CallInv', LineInv',
         Touched(a, Len(src)) \subseteq Destination
  PROVE  Fine
<1>1. /\ local' \in [0..(LocalSize - 1) -> Byte]
      /\ \A b \in 0..(LocalSize - 1) : local'[b] # local[b] => b \in Touched(a, Len(src))
      /\ sram' \in Chips
      /\ \A b \in Addr : sram'[b] # con.chip[b] => b \in Touched(a, Len(src))
  BY WritesBytes DEF IInv, Confined, Anywhere
<1>2. ~astray => \A b \in Addr \ Video : sram'[b] # sram[b] => b \in Destination
  BY <1>1 DEF Confined, OnScreen
<1> QED
  BY <1>1, <1>2 DEF Confined, Anywhere, OnScreen, IInv, Fine, OnlyScreenChanges

LEMMA ReadKeyStep == ASSUME IInv, NEW c \in Key, ReadKey(c) PROVE Fine
<1> DEFINE con == put_char(Con, c)
<1>1. c \in Byte
  BY SyscallsAssumption DEF SyscallsAssumption
<1>2. Confined(con)
  BY <1>1, PutCharConfined
<1>3. /\ call \in Calls /\ call.f = "read" /\ call.addr \in Addr /\ call.count \in Nat /\ call.count > 0
      /\ call.done \in Seq(Byte)
  BY DEF IInv, CallInv, Calls, ReadKey
<1>4. <<c>> \in Seq(Byte) /\ Len(<<c>>) = 1 /\ 1 < Base
  BY <1>1, Numbers, SMT
<1>5. Touched(call.addr, 1) \subseteq Destination
  <2>1. \A i \in 1..1 : M!SramAddr(call.addr, i) = call.addr
    BY <1>3, Numbers, SMT DEF M!SramAddr, Addr
  <2>2. Destination = {call.addr}
    BY <1>3 DEF Destination
  <2> QED
    BY <2>1, <2>2 DEF Touched
<1>6. CallInv' /\ LineInv'
  <2>1. Append(call.done, c) \in Seq(Byte)
    BY <1>1, <1>3, AppendProperties
  <2>2. (call.addr + 1) % MemSize \in Addr /\ call.count - 1 \in Nat
    BY <1>3, Numbers, SMT DEF Addr
  <2>3. call' = [call EXCEPT !.addr = (@ + 1) % MemSize, !.count = @ - 1, !.done = Append(@, c)]
    BY DEF ReadKey
  <2>4. call' \in Calls /\ call'.f = "read"
    BY <1>3, <2>1, <2>2, <2>3 DEF Calls
  <2> QED
    BY <2>4, NoLine DEF CallInv, Input
<1>7. /\ local' = M!LocalWritten(local, call.addr, <<c>>)
      /\ sram' = M!SramWritten(con.chip, call.addr, <<c>>)
      /\ x' = con.x /\ y' = con.y /\ astray' = astray
  BY DEF ReadKey
<1> HIDE DEF con
<1> QED
  BY <1>2, <1>3, <1>4, <1>5, <1>6, <1>7, DrawAndStoreStep

\* Sequences with a byte less, or one more.
LEMMA EditedLine ==
  ASSUME NEW s \in Seq(Byte), NEW d \in Byte
  PROVE  /\ Len(s) \in Nat
         /\ Append(s, d) \in Seq(Byte) /\ Len(Append(s, d)) = Len(s) + 1
         /\ \A k \in 1..Len(s) :
              RemoveAt(s, k) \in Seq(Byte) /\ Len(RemoveAt(s, k)) = Len(s) - 1
         /\ \A k \in 1..(Len(s) + 1) :
              InsertAt(s, k, d) \in Seq(Byte) /\ Len(InsertAt(s, k, d)) = Len(s) + 1
         /\ \A k \in 0..Len(s) :
              SubSeq(s, k + 1, Len(s)) \in Seq(Byte) /\ Len(SubSeq(s, k + 1, Len(s))) = Len(s) - k
<1>1. Len(s) \in Nat /\ Append(s, d) \in Seq(Byte) /\ Len(Append(s, d)) = Len(s) + 1
  BY LenProperties, AppendProperties
<1>2. ASSUME NEW m \in 1..(Len(s) + 1), NEW n \in 0..Len(s), m <= n + 1
      PROVE  SubSeq(s, m, n) \in Seq(Byte) /\ Len(SubSeq(s, m, n)) = n - m + 1
  <2>1. m \in Int /\ n \in Int /\ \A i \in m..n : s[i] \in Byte
    BY <1>1, ElementOfSeq, SMT
  <2>2. SubSeq(s, m, n) \in Seq(Byte) /\ Len(SubSeq(s, m, n)) = IF m <= n THEN n - m + 1 ELSE 0
    BY <2>1, SubSeqProperties
  <2> QED
    BY <1>1, <1>2, <2>2, SMT
<1>3. ASSUME NEW k \in 1..Len(s)
      PROVE  RemoveAt(s, k) \in Seq(Byte) /\ Len(RemoveAt(s, k)) = Len(s) - 1
  <2> DEFINE u == SubSeq(s, 1, k - 1)
             v == SubSeq(s, k + 1, Len(s))
  <2>1. u \in Seq(Byte) /\ Len(u) = k - 1 /\ v \in Seq(Byte) /\ Len(v) = Len(s) - k
    BY <1>1, <1>2, SMT
  <2>2. RemoveAt(s, k) = u \o v
    BY DEF RemoveAt
  <2> HIDE DEF u, v
  <2>3. u \o v \in Seq(Byte) /\ Len(u \o v) = Len(u) + Len(v)
    BY <2>1, ConcatProperties
  <2> QED
    BY <1>1, <2>1, <2>2, <2>3, SMT
<1>4. ASSUME NEW k \in 1..(Len(s) + 1)
      PROVE  InsertAt(s, k, d) \in Seq(Byte) /\ Len(InsertAt(s, k, d)) = Len(s) + 1
  <2> DEFINE u == SubSeq(s, 1, k - 1)
             v == SubSeq(s, k, Len(s))
             w == <<d>>
  <2>1. u \in Seq(Byte) /\ Len(u) = k - 1 /\ v \in Seq(Byte) /\ Len(v) = Len(s) - k + 1
    BY <1>1, <1>2, SMT
  <2>2. InsertAt(s, k, d) = (u \o w) \o v
    BY DEF InsertAt
  <2>3. w \in Seq(Byte) /\ Len(w) = 1
    OBVIOUS
  <2> HIDE DEF u, v, w
  <2>4. u \o w \in Seq(Byte) /\ Len(u \o w) = Len(u) + Len(w)
    BY <2>1, <2>3, ConcatProperties
  <2>5. (u \o w) \o v \in Seq(Byte) /\ Len((u \o w) \o v) = Len(u \o w) + Len(v)
    BY <2>1, <2>4, ConcatProperties
  <2> QED
    BY <1>1, <2>1, <2>2, <2>3, <2>4, <2>5, SMT
<1>5. ASSUME NEW k \in 0..Len(s)
      PROVE  SubSeq(s, k + 1, Len(s)) \in Seq(Byte) /\ Len(SubSeq(s, k + 1, Len(s))) = Len(s) - k
  <2>1. k + 1 \in 1..(Len(s) + 1) /\ Len(s) \in 0..Len(s) /\ k + 1 <= Len(s) + 1
    BY <1>1, SMT
  <2>2. SubSeq(s, k + 1, Len(s)) \in Seq(Byte) /\ Len(SubSeq(s, k + 1, Len(s))) = Len(s) - (k + 1) + 1
    BY <1>2, <2>1
  <2> QED
    BY <1>1, <2>2, SMT
<1> QED
  BY <1>1, <1>3, <1>4, <1>5

LEMMA LeastNumber ==
  ASSUME NEW T, T \subseteq Nat, T # {}
  PROVE  \E n \in T : \A m \in T : n <= m
<1> DEFINE R == OpToRel(<, Nat)
<1>1. PICK n \in T : \A m \in T : ~(<<m, n>> \in R)
  <2>1. IsWellFoundedOn(R, Nat)
    BY NatLessThanWellFounded
  <2> HIDE DEF R
  <2> QED
    BY <2>1, WFMin
<1>2. ASSUME NEW m \in T PROVE n <= m
  <2>1. ~(m < n)
    BY <1>1 DEF OpToRel
  <2>2. n \in Nat /\ m \in Nat
    OBVIOUS
  <2> QED
    BY <2>1, <2>2, SMT
<1> QED
  BY <1>2

\* The last of some numbers.
LEMMA LastNumber ==
  ASSUME NEW N \in Nat, NEW T, T \subseteq 1..N, T # {}
  PROVE  \E n \in T : \A m \in T : m <= n
<1> DEFINE R == {N - n : n \in T}
<1>1. R \subseteq Nat /\ R # {}
  BY SMT
<1>2. PICK r \in R : \A q \in R : r <= q
  BY <1>1, LeastNumber
<1>3. PICK n \in T : r = N - n
  OBVIOUS
<1>4. ASSUME NEW m \in T PROVE m <= n
  <2>1. N - m \in R
    OBVIOUS
  <2>2. N - n <= N - m
    BY <1>2, <1>3, <2>1
  <2>3. m \in 1..N /\ n \in 1..N
    OBVIOUS
  <2> QED
    BY <2>2, <2>3, SMT
<1> QED
  BY <1>4

\* Drawing several cells.
Puts(puts, n) == /\ DOMAIN puts = 1..n
                 /\ \A i \in 1..n : puts[i].c \in Byte

LEMMA PutAllBytes ==
  ASSUME NEW chip \in Chips, NEW n \in Nat, NEW puts, Puts(puts, n)
  PROVE  PutAll(chip, puts) \in Chips
<1> DEFINE lines(a, i) == {line \in 0..(CharLines - 1) :
                             a = PixelAddr(puts[i].at.x, puts[i].at.y, line)}
           on(a)   == {i \in DOMAIN puts : lines(a, i) # {}}
           last(a) == CHOOSE i \in on(a) : \A m \in on(a) : m <= i
           value(a) == IF on(a) = {} THEN chip[a]
                       ELSE Font[puts[last(a)].c][1 + CHOOSE line \in lines(a, last(a)) : TRUE]
<1>1. DOMAIN chip = Addr /\ \A a \in Addr : chip[a] \in Byte
  BY DEF Chips
<1>2. PutAll(chip, puts) = [a \in Addr |-> value(a)]
  BY <1>1 DEF PutAll
<1>3. ASSUME NEW a \in Addr PROVE value(a) \in Byte
  <2>1. CASE on(a) = {}
    BY <1>1, <2>1
  <2>2. CASE on(a) # {}
    <3>1. on(a) \subseteq 1..n
      BY DEF Puts
    <3>2. last(a) \in on(a)
      <4> HIDE DEF on
      <4>1. \E i \in on(a) : \A m \in on(a) : m <= i
        BY <2>2, <3>1, LastNumber
      <4> QED
        BY <4>1
    <3> HIDE DEF last
    <3>3. last(a) \in 1..n /\ lines(a, last(a)) # {}
      BY <3>1, <3>2
    <3>4. (CHOOSE line \in lines(a, last(a)) : TRUE) \in lines(a, last(a))
      BY <3>3
    <3>5. (CHOOSE line \in lines(a, last(a)) : TRUE) \in 0..(CharLines - 1)
      BY <3>4
    <3> DEFINE line == CHOOSE line \in lines(a, last(a)) : TRUE
    <3> HIDE DEF lines
    <3>6. 1 + line \in 1..CharLines
      <4> HIDE DEF line
      <4> QED
        BY <3>5, Numbers, SMT DEF line
    <3>7. Font[puts[last(a)].c] \in [1..CharLines -> Byte]
      BY <3>3, SyscallsAssumption, SMTT(30) DEF SyscallsAssumption, Puts
    <3> HIDE DEF line
    <3>8. value(a) = Font[puts[last(a)].c][1 + line]
      BY <2>2 DEF line, last, lines
    <3> QED
      BY <3>6, <3>7, <3>8
  <2> QED
    BY <2>1, <2>2
<1> HIDE DEF value
<1> QED
  BY <1>2, <1>3 DEF Chips

LEMMA PutAllDraws ==
  ASSUME NEW chip \in Chips, NEW n \in Nat, NEW puts, Puts(puts, n),
         \A i \in 1..n : OnCell(puts[i].at)
  PROVE  \A a \in Addr \ Video : PutAll(chip, puts)[a] = chip[a]
<1> SUFFICES ASSUME NEW a \in Addr \ Video PROVE PutAll(chip, puts)[a] = chip[a]
  OBVIOUS
<1> DEFINE lines(i) == {line \in 0..(CharLines - 1) :
                          a = PixelAddr(puts[i].at.x, puts[i].at.y, line)}
           on == {i \in DOMAIN puts : lines(i) # {}}
<1>1. DOMAIN chip = Addr
  BY DEF Chips
<1>2. on = {}
  <2>1. ASSUME NEW i \in DOMAIN puts, NEW line \in 0..(CharLines - 1)
        PROVE  a # PixelAddr(puts[i].at.x, puts[i].at.y, line)
    <3>1. puts[i].at.x \in Columns /\ puts[i].at.y \in Lines
      BY DEF Puts, OnCell
    <3> QED
      BY <3>1, PixelInVideo
  <2> QED
    BY <2>1
<1> QED
  BY <1>1, <1>2 DEF PutAll

\* A key that edits the line.
LEMMA EditStep ==
  ASSUME IInv, Input, NEW chip \in Chips, NEW a \in [x : Columns, y : Int], NEW line \in Seq(Byte),
         Len(line) < BufferSize, NEW pos \in Nat, pos <= Len(line), NEW lost,
         Edited(chip, a, line, pos, lost),
         ~lost => /\ ~astray /\ a.y \in Lines
                  /\ \A b \in Addr \ Video : chip[b] = sram[b]
                  /\ 0 <= Index(a) - pos
                  /\ Index(a) - pos + Len(line) < CHARS_HEIGHT * CHARS_WIDTH
  PROVE  Fine
<1>1. /\ sram' = chip /\ x' = a.x /\ y' = a.y /\ local' = local /\ astray' = lost
      /\ call' = [call EXCEPT !.done = line, !.pos = pos]
  BY DEF Edited
<1>2. call \in Calls /\ call.f = "get_input" /\ call.todo = <<>>
  BY DEF IInv, CallInv, Input
<1>3. call' \in Calls /\ call'.f = "get_input" /\ call'.todo = <<>> /\ call'.done = line /\ call'.pos = pos
  BY <1>1, <1>2 DEF Calls
<1>4. CallInv'
  BY <1>3 DEF CallInv
<1>5. LineInv'
  <2>1. x' = a.x /\ y' = a.y /\ call'.pos = pos
    BY <1>1, <1>3
  <2>2. Home' = Index(a) - pos
    BY <2>1 DEF Home, Index
  <2> QED
    BY <1>1, <1>3, <2>2 DEF LineInv
<1> QED
  BY <1>1, <1>4, <1>5 DEF IInv, Fine, OnlyScreenChanges

\* The cell of the cursor, and the line.
LEMMA InputIs ==
  ASSUME IInv, Input
  PROVE  /\ Here \in [x : Int, y : Int] /\ Here \in [x : Columns, y : Int] /\ Here.x = x /\ Here.y = y
         /\ Index(Here) \in Int /\ Index(Here) = y * CHARS_WIDTH + x
         /\ Home = Index(Here) - call.pos
         /\ call \in Calls /\ call.f = "get_input" /\ call.todo = <<>>
         /\ call.done \in Seq(Byte) /\ End = Len(call.done) /\ End \in Nat /\ call.pos \in Nat
         /\ call.pos <= End /\ End < BufferSize
         /\ ~astray => y \in Lines /\ 0 <= Home /\ Home + End < CHARS_HEIGHT * CHARS_WIDTH
<1> DEFINE N == CHARS_HEIGHT * CHARS_WIDTH
           h == y * CHARS_WIDTH + x
<1>1. x \in Columns /\ x \in Int /\ y \in Int
  BY Numbers, SMT DEF IInv, Columns
<1>2. y * CHARS_WIDTH \in Int
  BY <1>1, Numbers, SMT
<1>3. y * CHARS_WIDTH + x \in Int
  BY <1>1, <1>2, SMT
<1>4. call \in Calls /\ call.f = "get_input" /\ call.todo = <<>> /\ call.pos <= Len(call.done)
      /\ Len(call.done) < BufferSize
  BY DEF IInv, CallInv, Input
<1>5. call.done \in Seq(Byte) /\ Len(call.done) \in Nat /\ call.pos \in Nat
  BY <1>4, LenProperties DEF Calls
<1>6. /\ Here \in [x : Int, y : Int] /\ Here \in [x : Columns, y : Int] /\ Here.x = x /\ Here.y = y
  BY <1>1 DEF Here
<1>7. Index(Here) = h /\ Home = h - call.pos
  BY <1>6 DEF Index, Home
<1>8. ~astray => y \in Lines /\ 0 <= Home /\ Home + Len(call.done) < N
  BY DEF IInv, LineInv
<1>9. h \in Int
  BY <1>3
<1> HIDE DEF h, N
<1>10. Index(Here) \in Int /\ Home = Index(Here) - call.pos
  BY <1>7, <1>9
<1> QED
  BY <1>4, <1>5, <1>6, <1>7, <1>8, <1>10 DEF End, h, N

\* A cell is on the screen if its number is one of the screen's.
LEMMA OnCellIs ==
  ASSUME NEW a, a.x \in Columns, a.y \in Int
  PROVE  /\ Index(a) \in Int
         /\ a.y \in Lines <=> 0 <= Index(a) /\ Index(a) < CHARS_HEIGHT * CHARS_WIDTH
         /\ OnCell(a) <=> 0 <= Index(a) /\ Index(a) < CHARS_HEIGHT * CHARS_WIDTH
BY CellCount DEF Index, OnCell

LEMMA ScreenCells == CHARS_HEIGHT * CHARS_WIDTH \in Nat
BY Numbers, SMT

LEMMA InputMoveStep == IInv /\ (InputLeft \/ InputRight) => Fine
<1> SUFFICES ASSUME IInv, InputLeft \/ InputRight PROVE Fine
  OBVIOUS
<1>1. Input
  BY DEF InputLeft, InputRight
<1> DEFINE N == CHARS_HEIGHT * CHARS_WIDTH
           h == Index(Here)
<1>2. N \in Nat
  BY ScreenCells
<1>3. /\ h \in Int /\ Home = h - call.pos /\ call.pos \in Nat /\ End \in Nat
      /\ call.pos <= End
      /\ ~astray => 0 <= Home /\ Home + End < N
  BY <1>1, InputIs
<1>4. CASE InputLeft
  <2> DEFINE a == CellBefore(Here, 1)
  <2>1. a.x \in Columns /\ a.y \in Int /\ Index(a) = h - 1
    BY <1>1, InputIs, CellBeforeIs
  <2>2. a \in [x : Columns, y : Int]
    <3>1. a = [x |-> a.x, y |-> a.y]
      BY <1>1, InputIs DEF CellBefore, CellAfter
    <3> HIDE DEF a
    <3> QED
      BY <2>1, <3>1
  <2>3. Edited(sram, a, call.done, call.pos - 1, astray) /\ call.pos > 0
    BY <1>4 DEF InputLeft
  <2> HIDE DEF a, h, N
  <2>4. call.pos - 1 \in Nat /\ call.pos - 1 <= End
    BY <1>3, <2>3, SMT
  <2>5. ~astray => /\ 0 <= Index(a) /\ Index(a) < N
                   /\ 0 <= Index(a) - (call.pos - 1) /\ Index(a) - (call.pos - 1) + End < N
    BY <1>2, <1>3, <2>1, <2>3, SMT
  <2>6. ~astray => a.y \in Lines
    BY <2>1, <2>5, OnCellIs DEF N
  <2>7. sram \in Chips
    BY DEF IInv
  <2> QED
    BY <1>1, <2>2, <2>3, <2>4, <2>5, <2>6, <2>7, InputIs, EditStep DEF N
<1>5. CASE InputRight
  <2> DEFINE a == CellAfter(Here, 1)
  <2>1. a.x \in Columns /\ a.y \in Int /\ Index(a) = h + 1
    BY <1>1, InputIs, CellAfterIs
  <2>2. a \in [x : Columns, y : Int]
    <3>1. a = [x |-> a.x, y |-> a.y]
      BY DEF CellAfter
    <3> HIDE DEF a
    <3> QED
      BY <2>1, <3>1
  <2>3. Edited(sram, a, call.done, call.pos + 1, astray) /\ call.pos < End
    BY <1>5 DEF InputRight
  <2> HIDE DEF a, h, N
  <2>4. call.pos + 1 \in Nat /\ call.pos + 1 <= End
    BY <1>3, <2>3, SMT
  <2>5. ~astray => /\ 0 <= Index(a) /\ Index(a) < N
                   /\ 0 <= Index(a) - (call.pos + 1) /\ Index(a) - (call.pos + 1) + End < N
    BY <1>2, <1>3, <2>1, <2>3, SMT
  <2>6. ~astray => a.y \in Lines
    BY <2>1, <2>5, OnCellIs DEF N
  <2>7. sram \in Chips
    BY DEF IInv
  <2> QED
    BY <1>1, <2>2, <2>3, <2>4, <2>5, <2>6, <2>7, InputIs, EditStep DEF N
<1> QED
  BY <1>4, <1>5

LEMMA InputEraseStep == IInv /\ InputErase => Fine
<1> SUFFICES ASSUME IInv, InputErase PROVE Fine
  OBVIOUS
<1>1. Input /\ call.pos > 0
  BY DEF InputErase
<1> DEFINE N == CHARS_HEIGHT * CHARS_WIDTH
           h == Index(Here)
           left == CellBefore(Here, 1)
           tail == SubSeq(call.done, call.pos + 1, End)
           rest == tail \o <<Space>>
           n    == Len(rest)
           puts == [i \in 1..n |-> Put(CellAfter(left, i - 1), rest[i])]
           line == RemoveAt(call.done, call.pos)
<1>2. N \in Nat
  BY ScreenCells
<1>3. /\ h \in Int /\ Home = h - call.pos /\ call.pos \in Nat /\ End \in Nat /\ End = Len(call.done)
      /\ call.pos <= End /\ End < BufferSize /\ call.done \in Seq(Byte)
      /\ ~astray => 0 <= Home /\ Home + End < N
  BY <1>1, InputIs
<1>4. left.x \in Columns /\ left.y \in Int /\ Index(left) = h - 1
  BY <1>1, InputIs, CellBeforeIs
<1>5. left \in [x : Columns, y : Int] /\ left \in [x : Int, y : Int]
  <2>1. left = [x |-> left.x, y |-> left.y]
    BY <1>1, InputIs DEF CellBefore, CellAfter
  <2>2. left.x \in Int
    BY <1>4, Numbers, SMT DEF Columns
  <2> HIDE DEF left
  <2> QED
    BY <1>4, <2>1, <2>2
<1>6. Space \in Byte /\ <<Space>> \in Seq(Byte) /\ Len(<<Space>>) = 1
  BY SyscallsAssumption DEF SyscallsAssumption
<1>7. tail \in Seq(Byte) /\ Len(tail) = End - call.pos
  <2>1. call.pos \in 0..Len(call.done)
    BY <1>3, SMT
  <2> QED
    BY <1>3, <1>6, <2>1, EditedLine
<1>8. line \in Seq(Byte) /\ Len(line) = End - 1
  <2>1. call.pos \in 1..Len(call.done)
    BY <1>1, <1>3, SMT
  <2> QED
    BY <1>3, <1>6, <2>1, EditedLine
<1>9. rest \in Seq(Byte) /\ n = End - call.pos + 1
  <2> HIDE DEF tail
  <2>1. rest \in Seq(Byte) /\ Len(rest) = Len(tail) + Len(<<Space>>)
    BY <1>6, <1>7, ConcatProperties
  <2> QED
    BY <1>3, <1>6, <1>7, <2>1
<1>10. Edited(PutAll(sram, puts), left, line, call.pos - 1, astray)
  BY DEF InputErase
<1> HIDE DEF N, h, left, tail, rest, line
<1>11. n \in Nat
  BY <1>3, <1>9, SMT
<1>12. Puts(puts, n)
  <2>1. \A i \in 1..n : rest[i] \in Byte
    BY <1>9, ElementOfSeq
  <2> HIDE DEF n
  <2> QED
    BY <2>1 DEF Puts, Put
<1>13. ASSUME ~astray, NEW i \in 1..n PROVE OnCell(puts[i].at)
  <2> DEFINE a == CellAfter(left, i - 1)
  <2>1. puts[i].at = a
    BY DEF Put
  <2>2. i \in Int /\ i - 1 \in Int
    BY <1>11, SMT
  <2>3. a.x \in Columns /\ a.y \in Int /\ Index(a) = Index(left) + (i - 1)
    BY <1>5, <2>2, CellAfterIs
  <2> HIDE DEF a, puts, n
  <2>4. i \in Int /\ 1 <= i /\ i <= End - call.pos + 1
    BY <1>9, <1>11, <2>2, SMT
  <2>5. 0 <= Home /\ Home + End < N
    BY <1>3, <1>13
  <2>6. Index(a) = (h - 1) + (i - 1)
    BY <1>4, <2>3
  <2>7. /\ h \in Int /\ call.pos \in Nat /\ End \in Nat /\ call.pos > 0
        /\ Home = h - call.pos /\ N \in Nat
    BY <1>1, <1>2, <1>3
  <2>8. 0 <= Index(a) /\ Index(a) < N
    BY <2>4, <2>5, <2>6, <2>7, SMT
  <2> QED
    BY <2>1, <2>3, <2>8, OnCellIs DEF N
<1> HIDE DEF puts, n
<1>14. /\ PutAll(sram, puts) \in Chips
       /\ ~astray => \A b \in Addr \ Video : PutAll(sram, puts)[b] = sram[b]
  BY <1>11, <1>12, <1>13, PutAllBytes, PutAllDraws DEF IInv
<1>15. call.pos - 1 \in Nat /\ call.pos - 1 <= End - 1 /\ End - 1 < BufferSize
  BY <1>1, <1>3, Numbers, SMT
<1>16. ~astray => /\ 0 <= Index(left) /\ Index(left) < N
                  /\ 0 <= Index(left) - (call.pos - 1)
                  /\ Index(left) - (call.pos - 1) + (End - 1) < N
  BY <1>1, <1>2, <1>3, <1>4, SMTT(30)
<1>17. ~astray => left.y \in Lines
  BY <1>4, <1>16, OnCellIs DEF N
<1> QED
  BY <1>1, <1>5, <1>8, <1>10, <1>14, <1>15, <1>16, <1>17, EditStep DEF N

\* A step that draws a key at the end of the line.
LEMMA InputAppendStep == ASSUME IInv, NEW c \in Byte, InputAppend(c) PROVE Fine
<1> DEFINE con == Settled(Shown(Con, c))
           shown == Shown(Con, c)
           N == CHARS_HEIGHT * CHARS_WIDTH
           h == Index(Here)
<1>1. Input /\ call.pos = End /\ NotFull
  BY DEF InputAppend
<1>2. /\ sram' = con.chip /\ x' = con.x /\ y' = con.y /\ local' = local /\ astray' = astray
      /\ call' = [call EXCEPT !.done = Append(@, c), !.pos = @ + 1]
  BY DEF InputAppend, Becomes
<1>3. /\ h \in Int /\ h = y * CHARS_WIDTH + x
      /\ Home = h - call.pos /\ call.pos \in Nat /\ End \in Nat /\ End = Len(call.done)
      /\ call.pos <= End /\ End < BufferSize /\ call.done \in Seq(Byte)
      /\ call \in Calls /\ call.f = "get_input" /\ call.todo = <<>>
      /\ ~astray => y \in Lines /\ 0 <= Home /\ Home + End < N
  BY <1>1, InputIs
<1>4. Append(call.done, c) \in Seq(Byte) /\ Len(Append(call.done, c)) = End + 1
  BY <1>3, EditedLine
<1>5. /\ call' \in Calls /\ call'.f = "get_input" /\ call'.todo = <<>>
      /\ call'.done = Append(call.done, c) /\ call'.pos = call.pos + 1
  <2>1. call.pos + 1 \in Nat
    BY <1>3, SMT
  <2> QED
    BY <1>2, <1>3, <1>4, <2>1 DEF Calls
<1>6. CallInv'
  <2>1. End + 1 < BufferSize /\ call.pos + 1 <= End + 1
    BY <1>1, <1>3, SMT DEF NotFull
  <2> QED
    BY <1>4, <1>5, <2>1 DEF CallInv
<1>7. Confined(con)
  BY KeyConfined
<1>8. LineInv'
  <2> SUFFICES ASSUME ~astray PROVE 0 <= Home' /\ Home' + Len(call'.done) < N
    BY <1>2 DEF LineInv
  <2>1. x \in Columns /\ y \in Lines /\ x \in Nat /\ x < CHARS_WIDTH /\ y \in Nat /\ y < CHARS_HEIGHT
    BY <1>3, Numbers, SMT DEF IInv, Columns, Lines
  <2>2. shown.x = x + 1 /\ shown.y = y
    BY DEF Shown, Con
  <2>3. con.x \in Columns /\ con.y \in Lines
    BY <1>7 DEF Confined, OnScreen
  <2>4. con.y * CHARS_WIDTH + con.x < N /\ con.y * CHARS_WIDTH + con.x \in Int /\ con.y \in Int
        /\ 0 <= con.y * CHARS_WIDTH + con.x
    <3>1. con.y \in Int
      BY <2>3, Numbers, SMT DEF Lines
    <3> QED
      BY <2>3, <3>1, CellCount
  <2>5. Home' = (con.y * CHARS_WIDTH + con.x) - (End + 1) /\ Len(call'.done) = End + 1
    BY <1>1, <1>2, <1>4, <1>5 DEF Home
  <2> DEFINE g == con.y * CHARS_WIDTH + con.x
  <2>6. Home' + Len(call'.done) < N
    <3> HIDE DEF g, N
    <3>1. g \in Int /\ g < N
      BY <2>4 DEF g, N
    <3>2. Home' = g - (End + 1)
      BY <2>5 DEF g
    <3> QED
      BY <1>3, <2>5, <3>1, <3>2, SMT
  <2>7. 0 <= Home'
    <3>1. CASE ~PastEdge(x + 1)
      <4>1. con = shown
        BY <2>2, <3>1 DEF Settled
      <4>2. g = y * CHARS_WIDTH + (x + 1)
        BY <2>2, <4>1
      <4>3. y * CHARS_WIDTH \in Int
        BY <2>1, Numbers, SMT
      <4> DEFINE r == y * CHARS_WIDTH
      <4> HIDE DEF g, N, h, r, con
      <4>4. g = r + (x + 1) /\ r \in Int
        BY <4>2, <4>3 DEF r
      <4>5. h = r + x
        BY <1>3, Zenon DEF r
      <4>6. Home' = g - (End + 1)
        BY <2>5 DEF g
      <4>7. Home = h - call.pos /\ call.pos = End /\ End \in Nat /\ 0 <= Home
        BY <1>1, <1>3
      <4> QED
        BY <2>1, <4>4, <4>5, <4>6, <4>7, SMT
    <3>2. CASE PastEdge(x + 1)
      <4>1. con = LineFeed(shown)
        BY <2>2, <3>2 DEF Settled
      <4>2. x + 1 = CHARS_WIDTH
        BY <2>1, <3>2, Numbers, SMT DEF PastEdge
      <4>3. CASE y + 1 > LastRow
        <5>1. con.x = 0 /\ con.y = y /\ y = CHARS_HEIGHT - 1
          BY <2>1, <2>2, <4>1, <4>3, Numbers, SMT DEF LineFeed, LastRow
        <5>2. BufferSize <= CHARS_WIDTH * (CHARS_HEIGHT - 1)
          BY SyscallsAssumption DEF SyscallsAssumption
        <5>3. CHARS_WIDTH * (CHARS_HEIGHT - 1) = (CHARS_HEIGHT - 1) * CHARS_WIDTH
          BY Numbers, SMT
        <5> DEFINE r == (CHARS_HEIGHT - 1) * CHARS_WIDTH
        <5>4. r \in Int
          BY Numbers, SMT
        <5>5. Home' = (r + 0) - (End + 1) /\ BufferSize <= r
          BY <2>5, <5>1, <5>2, <5>3
        <5> HIDE DEF r
        <5> QED
          BY <1>3, <5>4, <5>5, Numbers, SMT
      <4>4. CASE ~(y + 1 > LastRow)
        <5>1. con.x = 0 /\ con.y = y + 1
          BY <2>2, <4>1, <4>4 DEF LineFeed
        <5>2. (y + 1) * CHARS_WIDTH = y * CHARS_WIDTH + CHARS_WIDTH /\ y * CHARS_WIDTH \in Int
          BY <2>1, Numbers, SMT
        <5> DEFINE r == y * CHARS_WIDTH
        <5>3. Home' = (r + CHARS_WIDTH + 0) - (End + 1) /\ r \in Int
          BY <2>5, <5>1, <5>2
        <5>4. h = r + x
          BY <1>3, Zenon DEF r
        <5> HIDE DEF r, h, N
        <5>5. Home = h - call.pos /\ call.pos = End /\ End \in Nat /\ 0 <= Home
          BY <1>1, <1>3
        <5> QED
          BY <2>1, <4>2, <5>3, <5>4, <5>5, Numbers, SMT
      <4> QED
        BY <4>3, <4>4
    <3> QED
      BY <3>1, <3>2
  <2> QED
    BY <2>6, <2>7
<1> HIDE DEF con
<1> QED
  BY <1>2, <1>6, <1>7, <1>8, DrawStep

LEMMA InputInsertStep == ASSUME IInv, NEW c \in Byte, InputInsert(c) PROVE Fine
<1> DEFINE N == CHARS_HEIGHT * CHARS_WIDTH
           h == Index(Here)
           moved   == End - call.pos
           col     == x + moved
           wraps   == col >= CHARS_WIDTH
           scrolls == wraps /\ y + 1 > LastRow
           row     == IF scrolls THEN y - 1 ELSE y
           end     == [x |-> IF wraps THEN col - CHARS_WIDTH ELSE col, y |-> IF wraps THEN row + 1 ELSE row]
           here    == [x |-> x, y |-> row]
           puts    == [i \in 1..(moved + 1) |->
                         IF i <= moved THEN Put(CellBefore(end, i - 1), call.done[End + 1 - i])
                                       ELSE Put(here, c)]
           chip    == IF scrolls THEN scroll_up(sram) ELSE sram
           line    == InsertAt(call.done, call.pos + 1, c)
           lost    == astray \/ end = [x |-> CHARS_WIDTH - 1, y |-> LastRow] \/ end.x >= CHARS_WIDTH
<1>1. Input /\ call.pos < End /\ NotFull
  BY DEF InputInsert
<1>2. N \in Nat
  BY ScreenCells
<1>3. /\ h \in Int /\ h = y * CHARS_WIDTH + x
      /\ Home = h - call.pos /\ call.pos \in Nat /\ End \in Nat /\ End = Len(call.done)
      /\ call.pos <= End /\ End < BufferSize /\ call.done \in Seq(Byte)
      /\ ~astray => y \in Lines /\ 0 <= Home /\ Home + End < N
  BY <1>1, InputIs
<1>4. x \in Columns /\ x \in Nat /\ x < CHARS_WIDTH /\ y \in Int /\ y * CHARS_WIDTH \in Int
  BY Numbers, SMT DEF IInv, Columns
<1>5. x + End - call.pos = col /\ End - call.pos = moved /\ moved \in Nat /\ moved > 0 /\ col \in Nat
  <2>1. call.pos \in Nat /\ End \in Nat /\ call.pos < End /\ x \in Nat
    BY <1>1, <1>3, <1>4
  <2> QED
    BY <2>1, SMT
<1>6. Edited(PutAll(chip, puts), here, line, call.pos, lost)
  BY <1>5 DEF InputInsert
<1>7. line \in Seq(Byte) /\ Len(line) = End + 1 /\ End + 1 < BufferSize
  <2>1. call.pos + 1 \in 1..(Len(call.done) + 1)
    BY <1>1, <1>3, SMT
  <2> QED
    BY <1>1, <1>3, <2>1, EditedLine DEF NotFull
<1>8. row \in Int /\ here \in [x : Columns, y : Int]
  BY <1>4, SMT
<1>9. chip \in Chips
  BY ScrollDraws DEF IInv
<1>10. Puts(puts, moved + 1) /\ moved + 1 \in Nat
  <2> HIDE DEF moved, end, here
  <2>1. ASSUME NEW i \in 1..(moved + 1) PROVE puts[i].c \in Byte
    <3>1. CASE i <= moved
      <4>1. End + 1 - i \in 1..Len(call.done)
        BY <1>3, <1>5, <3>1, SMTT(30) DEF moved
      <4>2. call.done[End + 1 - i] \in Byte
        BY <1>3, <4>1, ElementOfSeq
      <4> QED
        BY <3>1, <4>2 DEF Put
    <3>2. CASE ~(i <= moved)
      BY <3>2 DEF Put
    <3> QED
      BY <3>1, <3>2
  <2>2. moved + 1 \in Nat
    BY <1>5, SMT
  <2> HIDE DEF puts
  <2>3. DOMAIN puts = 1..(moved + 1)
    BY DEF puts
  <2> QED
    BY <2>1, <2>2, <2>3 DEF Puts
<1>11. ASSUME ~lost
       PROVE  /\ ~astray /\ ~scrolls /\ row = y /\ y \in Lines
              /\ end.x \in Columns /\ end.y \in Int /\ Index(end) = h + moved
              /\ 0 <= h /\ h + moved + 1 < N
  <2>1. ~astray /\ end # [x |-> CHARS_WIDTH - 1, y |-> LastRow] /\ ~(end.x >= CHARS_WIDTH)
    BY <1>11
  <2>2. y \in Lines /\ y \in Nat /\ y < CHARS_HEIGHT /\ 0 <= Home /\ Home + End < N
    BY <1>3, <2>1, Numbers, SMT DEF Lines
  <2>3. 0 <= h /\ h + moved < N
    <3> HIDE DEF h, N
    <3> QED
      BY <1>2, <1>3, <2>2, SMTT(30)
  <2>4. ~scrolls
    <3> SUFFICES ASSUME scrolls PROVE FALSE
      OBVIOUS
    <3>1. y = CHARS_HEIGHT - 1 /\ col >= CHARS_WIDTH
      BY <2>2, Numbers, SMT DEF LastRow
    <3>2. N = (CHARS_HEIGHT - 1) * CHARS_WIDTH + CHARS_WIDTH
      BY Numbers, SMT
    <3> DEFINE r == (CHARS_HEIGHT - 1) * CHARS_WIDTH
    <3>3. r \in Int
      BY Numbers, SMT
    <3>4. h = r + x
      BY <1>3, <3>1
    <3>5. N = r + CHARS_WIDTH
      BY <3>2
    <3> HIDE DEF r, h, N
    <3> QED
      BY <1>4, <1>5, <2>3, <3>1, <3>3, <3>4, <3>5, Numbers, SMT
  <2>5. row = y
    BY <2>4
  <2>6. end.x \in Columns /\ end.y \in Int /\ Index(end) = h + moved
    <3>1. CASE wraps
      <4>1. end.x = col - CHARS_WIDTH /\ end.y = y + 1
        BY <2>5, <3>1
      <4>2. col - CHARS_WIDTH \in Columns
        BY <1>5, <2>1, <3>1, <4>1, Numbers, SMT DEF Columns
      <4>3. (y + 1) * CHARS_WIDTH = y * CHARS_WIDTH + CHARS_WIDTH
        BY <2>2, Numbers, SMT
      <4>4. Index(end) = y * CHARS_WIDTH + CHARS_WIDTH + (col - CHARS_WIDTH)
        BY <4>1, <4>3 DEF Index
      <4> DEFINE r == y * CHARS_WIDTH
      <4>5. Index(end) = r + CHARS_WIDTH + ((x + moved) - CHARS_WIDTH) /\ h = r + x /\ r \in Int
        <5>1. Index(end) = r + CHARS_WIDTH + ((x + moved) - CHARS_WIDTH)
          BY <4>4, Zenon
        <5>2. h = r + x /\ r \in Int
          BY <1>3, <1>4
        <5> QED
          BY <5>1, <5>2
      <4> HIDE DEF r, h, moved, end
      <4>6. Index(end) = h + moved
        BY <1>4, <1>5, <4>5, Numbers, SMT
      <4> QED
        BY <2>2, <4>1, <4>2, <4>6, SMT
    <3>2. CASE ~wraps
      <4>1. end.x = col /\ end.y = y
        BY <2>5, <3>2
      <4>2. col \in Columns
        BY <1>5, <3>2, Numbers, SMT DEF Columns
      <4>3. Index(end) = y * CHARS_WIDTH + (x + moved)
        BY <4>1 DEF Index
      <4> DEFINE r == y * CHARS_WIDTH
      <4>4. Index(end) = r + (x + moved) /\ h = r + x /\ r \in Int
        BY <1>3, <1>4, <4>3
      <4> HIDE DEF r, h, moved, end
      <4>5. Index(end) = h + moved
        BY <1>4, <1>5, <4>4, SMT
      <4> QED
        BY <2>2, <4>1, <4>2, <4>5
    <3> QED
      BY <3>1, <3>2
  <2>7. h + moved + 1 < N
    <3> SUFFICES ASSUME ~(h + moved + 1 < N) PROVE FALSE
      OBVIOUS
    <3> DEFINE r == LastRow * CHARS_WIDTH
               p == end.y * CHARS_WIDTH
    <3>1. N = r + CHARS_WIDTH /\ r \in Int /\ LastRow \in Int /\ LastRow = CHARS_HEIGHT - 1
      BY Numbers, SMT DEF LastRow
    <3>2. p \in Int
      BY <2>6, Numbers, SMT
    <3>3. Index(end) = p + end.x
      BY DEF Index
    <3>4. end.x \in Int /\ end.x < CHARS_WIDTH
      BY <2>6, Numbers, SMT DEF Columns
    <3>5. p + end.x = r + CHARS_WIDTH - 1
      <4> HIDE DEF r, p, h, N, moved, end
      <4> QED
        BY <1>3, <1>5, <2>3, <2>6, <3>1, <3>2, <3>3, <3>4, Numbers, SMTT(30)
    <3>6. end.y = LastRow
      <4>1. CASE end.y < LastRow
        <5>1. p + CHARS_WIDTH <= r
          BY <2>6, <3>1, <4>1, RowsApart
        <5> HIDE DEF r, p, end
        <5> QED
          BY <3>1, <3>2, <3>4, <3>5, <5>1, Numbers, SMT
      <4>2. CASE end.y > LastRow
        <5>1. r + CHARS_WIDTH <= p
          BY <2>6, <3>1, <4>2, RowsApart, SMT
        <5>2. end.x >= 0
          BY <2>6, Numbers, SMT DEF Columns
        <5> HIDE DEF r, p, end
        <5> QED
          BY <3>1, <3>2, <3>4, <3>5, <5>1, <5>2, Numbers, SMT
      <4> HIDE DEF end
      <4> QED
        BY <2>6, <3>1, <4>1, <4>2, SMT
    <3>7. end.x = CHARS_WIDTH - 1
      <4>1. p = r
        BY <3>6
      <4> HIDE DEF r, p, end
      <4> QED
        BY <3>1, <3>2, <3>4, <3>5, <4>1, Numbers, SMT
    <3>8. end = [x |-> end.x, y |-> end.y]
      OBVIOUS
    <3> HIDE DEF end
    <3> QED
      BY <2>1, <3>6, <3>7, <3>8
  <2> QED
    BY <2>1, <2>2, <2>3, <2>4, <2>5, <2>6, <2>7
<1>12. ASSUME ~lost, NEW i \in 1..(moved + 1) PROVE OnCell(puts[i].at)
  <2>1. /\ row = y /\ y \in Lines
        /\ end.x \in Columns /\ end.y \in Int /\ Index(end) = h + moved
        /\ 0 <= h /\ h + moved + 1 < N
    BY <1>11, <1>12
  <2>2. CASE i <= moved
    <3> DEFINE a == CellBefore(end, i - 1)
    <3>1. puts[i].at = a
      BY <2>2 DEF Put
    <3>2. i - 1 \in Nat /\ i \in Nat
      BY <1>5, SMT
    <3>3. end \in [x : Int, y : Int]
      <4>1. end.x \in Int
        BY <2>1, Numbers, SMT DEF Columns
      <4>2. end = [x |-> end.x, y |-> end.y]
        OBVIOUS
      <4> HIDE DEF end
      <4> QED
        BY <2>1, <4>1, <4>2
    <3> HIDE DEF end
    <3>4. a.x \in Columns /\ a.y \in Int /\ Index(a) = Index(end) - (i - 1)
      BY <2>1, <3>2, <3>3, CellBeforeIs
    <3> HIDE DEF a, puts, h, N, moved, lost
    <3>5. 0 <= Index(a) /\ Index(a) < N
      <4>1. /\ Index(a) = Index(end) - (i - 1) /\ Index(end) = h + moved
            /\ 0 <= h /\ h + moved + 1 < N /\ h \in Int /\ N \in Nat
        BY <1>2, <1>3, <2>1, <3>4
      <4>2. i \in Nat /\ i > 0 /\ i <= moved /\ moved \in Nat
        BY <1>5, <2>2, <3>2, SMTT(30)
      <4> QED
        BY <4>1, <4>2, SMT
    <3> QED
      BY <3>1, <3>4, <3>5, OnCellIs DEF N
  <2>3. CASE ~(i <= moved)
    <3>1. puts[i].at = here
      BY <2>3 DEF Put
    <3> QED
      BY <1>4, <2>1, <3>1 DEF OnCell
  <2> QED
    BY <2>2, <2>3
<1>13. /\ PutAll(chip, puts) \in Chips
       /\ ~lost => \A b \in Addr \ Video : PutAll(chip, puts)[b] = sram[b]
  <2>1. ~lost => chip = sram
    BY <1>11
  <2> HIDE DEF chip, puts, moved, lost
  <2> QED
    BY <1>9, <1>10, <1>12, <2>1, PutAllBytes, PutAllDraws
<1>14. ~lost => /\ ~astray /\ here.y \in Lines
                /\ 0 <= Index(here) - call.pos
                /\ Index(here) - call.pos + (End + 1) < N
  <2> SUFFICES ASSUME ~lost
               PROVE  /\ ~astray /\ here.y \in Lines
                      /\ 0 <= Index(here) - call.pos
                      /\ Index(here) - call.pos + (End + 1) < N
    OBVIOUS
  <2>1. here = Here /\ ~astray /\ y \in Lines /\ h + moved + 1 < N
    BY <1>11 DEF Here
  <2>2. Index(here) = h /\ 0 <= Home
    BY <1>3, <2>1
  <2>3. here.y = y
    BY <2>1 DEF Here
  <2> HIDE DEF h, N, here, lost
  <2> QED
    BY <1>2, <1>3, <2>1, <2>2, <2>3, SMTT(30) DEF moved
<1> HIDE DEF here, line, lost, puts, chip
<1>15. call.pos <= Len(line) /\ Len(line) < BufferSize
  BY <1>3, <1>7, SMT
<1> QED
  BY <1>1, <1>3, <1>6, <1>7, <1>8, <1>13, <1>14, <1>15, EditStep

LEMMA InputKeyStep == IInv /\ InputKey => Fine
<1>1. Typed \subseteq Byte
  BY SyscallsAssumption DEF SyscallsAssumption, Typed
<1> QED
  BY <1>1, InputMoveStep, InputEraseStep, InputAppendStep, InputInsertStep DEF InputKey

LEMMA InputEndsStep == IInv /\ InputEnds => Fine
<1> SUFFICES ASSUME IInv, InputEnds PROVE Fine
  OBVIOUS
<1> DEFINE con == LineFeed(Con)
<1>1. Confined(con)
  BY LineFeedConfined
<1>2. /\ call.addr \in Addr /\ call.done \in Seq(Byte) /\ call.f = "get_input"
      /\ Len(call.done) < BufferSize
  BY DEF IInv, CallInv, Calls, InputEnds, Input
<1>3. Len(call.done) < Base
  <2>1. Len(call.done) \in Nat
    BY <1>2, LenProperties
  <2> QED
    BY <1>2, <2>1, Numbers, SMT
<1>4. Touched(call.addr, Len(call.done)) \subseteq Destination
  BY <1>2 DEF Destination
<1>5. CallInv' /\ LineInv'
  <2>1. call' = call /\ ~busy'
    BY DEF InputEnds
  <2> QED
    BY <2>1, NoLine DEF IInv, CallInv, Input
<1>6. /\ local' = M!LocalWritten(local, call.addr, call.done)
      /\ sram' = M!SramWritten(con.chip, call.addr, call.done)
      /\ x' = con.x /\ y' = con.y /\ astray' = astray
  BY DEF InputEnds, End
<1> HIDE DEF con
<1> QED
  BY <1>1, <1>2, <1>3, <1>4, <1>5, <1>6, DrawAndStoreStep

-----------------------------------------------------------------------------
(* The theorems.                                                           *)

\* A program starts with its arguments on the stack and a clear screen.
LEMMA InitInv == Init => IInv
<1> SUFFICES ASSUME Init PROVE IInv
  OBVIOUS
<1> DEFINE zeros == [a \in 0..(LocalSize - 1) |-> 0]
           chip == [a \in Addr |-> IF a \in DOMAIN Data THEN Data[a] ELSE 0]
<1>1. zeros \in [0..(LocalSize - 1) -> Byte]
  BY ZeroByte
<1>2. chip \in Chips /\ Space \in Byte
  BY ZeroByte, SyscallsAssumption DEF SyscallsAssumption, Chips
<1>3. PICK p \in Pushes : local = M!LocalWritten(zeros, StackTop(p.sp), p.src)
  BY DEF Init
<1>4. sram = video_cls(chip, Space) /\ x = 0 /\ y = 0 /\ call = NoCall /\ ~busy
  BY DEF Init
<1> HIDE DEF zeros, chip
<1>5. local \in [0..(LocalSize - 1) -> Byte]
  <2>1. p.sp \in Byte /\ p.src \in Seq(Byte) /\ Len(p.src) < Base
    BY SyscallsAssumption DEF SyscallsAssumption
  <2>2. StackTop(p.sp) \in Addr
    BY <2>1, StackIsAddr
  <2> QED
    BY <1>1, <1>2, <1>3, <2>1, <2>2, WritesBytes
<1>6. sram \in Chips
  BY <1>2, <1>4, ClsDraws
<1>7. 0 \in Columns /\ 0 \in Lines /\ 0 \in Int
  BY Numbers, SMT DEF Columns, Lines
<1>8. CallInv
  <2>1. NoCall \in Calls /\ NoCall.f = "none"
    <3>1. 0 \in Addr /\ 0 \in Nat /\ <<>> \in Seq(Byte)
      BY ZeroByte, EmptySeq
    <3> QED
      BY <3>1 DEF NoCall, Call, Calls, Names
  <2> QED
    BY <1>4, <2>1 DEF CallInv
<1> QED
  BY <1>4, <1>5, <1>6, <1>7, <1>8 DEF IInv, LineInv, Input

\* Every step of the program and of its calls.
LEMMA NextStep == IInv /\ [Next]_vars => IInv' /\ [OnlyScreenChanges]_vars
<1> SUFFICES ASSUME IInv, [Next]_vars PROVE IInv' /\ [OnlyScreenChanges]_vars
  OBVIOUS
<1>1. CASE Program
  BY <1>1, ProgramStep DEF Fine
<1>2. CASE Vm_syscall
  <2>1. CASE Sys_load
    BY <2>1, LoadStep DEF Fine
  <2>2. CASE Sys_put_char \/ Sys_set_cursor \/ Sys_fill_screen \/ Sys_put_tile
    BY <2>2, DrawingCallStep DEF Fine
  <2>3. CASE Sys_save \/ Sys_get_char \/ Sys_random \/ Sys_vsync \/ Sys_srand \/ Sys_version
    BY <2>3, QuietCallStep DEF Fine
  <2>4. CASE Sys_exit \/ Sys_unknown \/ Sys_put_string \/ Sys_write \/ Sys_read \/ Sys_get_input
    BY <2>4, BeginCallStep DEF Fine
  <2>5. CASE ReportEnds \/ WriteEnds \/ ReadEnds
    BY <2>5, EndStep DEF Fine
  <2>6. CASE PutNext
    BY <2>6, PutNextStep DEF Fine
  <2>7. CASE PutStringNext
    BY <2>7, PutStringStep DEF Fine
  <2>8. CASE WriteChunk
    BY <2>8, WriteChunkStep DEF Fine
  <2>9. CASE (\E c \in Key : ReadKey(c)) \/ InputKey
    BY <2>9, ReadKeyStep, InputKeyStep DEF Fine
  <2>10. CASE InputEnds
    BY <2>10, InputEndsStep DEF Fine
  <2> QED
    BY <1>2, <2>1, <2>2, <2>3, <2>4, <2>5, <2>6, <2>7, <2>8, <2>9, <2>10 DEF Vm_syscall
<1>3. CASE UNCHANGED vars
  BY <1>3 DEF vars, memory, screen, IInv, CallInv, LineInv, Input, Home
<1> QED
  BY <1>1, <1>2, <1>3 DEF Next

\* The memories hold bytes, a call in progress is one that can be, and until a
\* line goes astray the cursor is on the screen between characters, and so is the
\* line that is edited, with room for the cursor after it.
THEOREM CallsInvariant == Spec => []IInv
<1> QED
  BY InitInv, NextStep, PTL DEF Spec

\* Wherever the cursor has been put and whatever is printed, typed or edited, a
\* call changes the memory of the screen and what it was asked to fill, and
\* nothing else, until a line goes astray in call 0x21.
THEOREM DrawingIsHarmless == Spec => DrawingKeepsMemory
<1> QED
  BY InitInv, NextStep, PTL DEF Spec, DrawingKeepsMemory

-----------------------------------------------------------------------------
(* Text that a call moves.  While the call goes on, every character it has *)
(* shown, and every one it has taken from memory to show, is what memory   *)
(* holds at its place, unless that is on the screen.                       *)

CharOf(done, todo, i) == IF i <= Len(done) THEN done[i] ELSE todo[i - Len(done)]

ByteOf(l, s, a) == M!VmRead(l, s, a, 1)[1]

\* put_string goes on at address 0, the others may end in the other memory.
KeptBy(l, s, f, start, done, todo) ==
  \A i \in 1..(Len(done) + Len(todo)) :
    /\ f = "put_string" \/ start + i - 1 < MemSize
    /\ (start + i - 1) % MemSize \notin Video
    => ByteOf(l, s, (start + i - 1) % MemSize) = CharOf(done, todo, i)

Kept == ~astray => KeptBy(local, sram, call.f, call.start, call.done, call.todo)

Moving == Len(call.done) + Len(call.todo)

TextInv ==
  /\ busy /\ call.f \in {"put_string", "write", "read"} =>
       /\ r_a = (Moving + (IF call.f = "read" THEN 0 ELSE call.count)) % Base
       /\ call.addr = (call.start + Moving) % MemSize
       /\ call.f # "write" => call.todo = <<>>
       /\ call.f = "put_string" => call.count = 0
       /\ call.f = "read" => Len(call.done) + call.count < MemSize
       /\ Kept
  /\ busy /\ call.f = "get_input" => call.addr = call.start

-----------------------------------------------------------------------------
LEMMA ModSum ==
  ASSUME NEW m \in Nat, m > 0, NEW u \in Nat, NEW v \in Nat
  PROVE  ((u % m) + v) % m = (u + v) % m
<1> DEFINE q == u \div m
           a == u % m
           p == (a + v) \div m
           b == (a + v) % m
<1>1. q \in Int /\ a \in 0..(m - 1) /\ u = q * m + a
  BY SMT
<1> HIDE DEF q, a
<1>2. p \in Int /\ b \in 0..(m - 1) /\ a + v = p * m + b
  BY <1>1, SMT
<1> HIDE DEF p, b
<1>3. (q + p) * m = q * m + p * m
  BY <1>1, <1>2, SMT
<1>4. u + v = (q + p) * m + b
  BY <1>1, <1>2, <1>3, SMT
<1>5. (u + v) % m = b
  <2> DEFINE r == q + p
  <2>1. r \in Int
    BY <1>1, <1>2, SMT
  <2> HIDE DEF r
  <2>2. u + v = r * m + b
    BY <1>4 DEF r
  <2> QED
    BY <1>2, <2>1, <2>2, SMT
<1> QED
  BY <1>5 DEF a, b

\* A byte that is read, from either memory.
LEMMA ReadAt ==
  ASSUME NEW l \in [0..(LocalSize - 1) -> Byte], NEW s \in Chips,
         NEW a \in Addr, NEW n \in Nat, NEW i \in 1..n, a + i - 1 < MemSize
  PROVE  M!VmRead(l, s, a, n)[i] =
           IF a + i - 1 < LocalSize THEN l[a + i - 1] ELSE s[a + i - 1]
<1> DEFINE part == M!Part(a, n)
<1>1. a \in Nat /\ a < MemSize /\ i \in Nat /\ i > 0 /\ i <= n
  BY Numbers, SMT DEF Addr
<1>2. M!VmRead(l, s, a, n)[i] =
        IF i <= part THEN M!Holds(l, a + i - 1)
        ELSE M!Holds(s, M!SramAddr(M!SramStart(a, part), i - part))
  BY DEF M!VmRead
<1>3. part \in 0..n /\ (i <= part <=> a + i - 1 < LocalSize)
  BY <1>1, Numbers, SMT DEF M!Part
<1> HIDE DEF part
<1>4. a + i - 1 \in Addr
  BY <1>1, Numbers, SMT DEF Addr
<1>5. DOMAIN s = Addr /\ DOMAIN l = 0..(LocalSize - 1)
  BY DEF Chips
<1>6. CASE i <= part
  <2>1. a + i - 1 \in 0..(LocalSize - 1)
    BY <1>1, <1>3, <1>6, Numbers, SMT
  <2> QED
    BY <1>2, <1>3, <1>5, <1>6, <2>1 DEF M!Holds
<1>7. CASE ~(i <= part)
  <2>1. M!SramAddr(M!SramStart(a, part), i - part) = a + i - 1
    BY <1>1, <1>3, Numbers, SMT DEF M!SramAddr, M!SramStart
  <2> QED
    BY <1>2, <1>3, <1>4, <1>5, <1>7, <2>1 DEF M!Holds
<1> QED
  BY <1>6, <1>7

LEMMA ReadByteAt ==
  ASSUME NEW l \in [0..(LocalSize - 1) -> Byte], NEW s \in Chips, NEW a \in Addr
  PROVE  ByteOf(l, s, a) = IF a < LocalSize THEN l[a] ELSE s[a]
<1>1. a + 1 - 1 = a /\ a < MemSize
  BY Numbers, SMT DEF Addr
<1>2. ASSUME NEW n \in Nat, n = 1, NEW i \in 1..n, i = 1
      PROVE  M!VmRead(l, s, a, n)[i] = IF a + 1 - 1 < LocalSize THEN l[a + 1 - 1] ELSE s[a + 1 - 1]
  <2>1. a + i - 1 < MemSize
    BY <1>1, <1>2
  <2>2. M!VmRead(l, s, a, n)[i] = IF a + i - 1 < LocalSize THEN l[a + i - 1] ELSE s[a + i - 1]
    BY <2>1, ReadAt
  <2> QED
    BY <1>2, <2>2
<1>3. 1 \in Nat /\ 1 \in 1..1
  BY SMT
<1>4. M!VmRead(l, s, a, 1)[1] = IF a + 1 - 1 < LocalSize THEN l[a + 1 - 1] ELSE s[a + 1 - 1]
  BY <1>2, <1>3
<1> QED
  BY <1>1, <1>4 DEF ByteOf

\* A byte that was written, read again.
LEMMA WrittenAt ==
  ASSUME NEW l \in [0..(LocalSize - 1) -> Byte], NEW s \in Chips, NEW a \in Addr,
         NEW src \in Seq(Byte), NEW i \in 1..Len(src), a + Len(src) <= MemSize
  PROVE  (IF a + i - 1 < LocalSize THEN M!LocalWritten(l, a, src)[a + i - 1]
          ELSE M!SramWritten(s, a, src)[a + i - 1]) = src[i]
<1> DEFINE n == Len(src)
           part == M!Part(a, n)
           head == SubSeq(src, 1, part)
           rest == SubSeq(src, part + 1, n)
           b == a + i - 1
<1>1. /\ n \in Nat /\ a \in Nat /\ a < MemSize /\ a + n <= MemSize
      /\ i \in Nat /\ i > 0 /\ i <= n
      /\ \A k \in 1..n : src[k] \in Byte
  BY LenProperties, ElementOfSeq, Numbers, SMT DEF Addr
<1>2. b \in Addr /\ b \in Nat
  <2> HIDE DEF n
  <2> QED
    BY <1>1, Numbers, SMT DEF Addr
<1>3. /\ M!LocalWritten(l, a, src) = IF part = 0 THEN l ELSE M!Stored(l, a, head)
      /\ M!SramWritten(s, a, src) = M!Stored(s, a + part, rest)
  BY DEF M!LocalWritten, M!SramWritten, M!SramStart
<1>4. part \in 0..n /\ (i <= part <=> b < LocalSize)
  <2> HIDE DEF n
  <2> QED
    BY <1>1, Numbers, SMT DEF M!Part
<1> HIDE DEF part, n
<1>5. CASE b < LocalSize
  <2>1. i <= part /\ part # 0 /\ part \in Nat
    BY <1>1, <1>4, <1>5, SMT
  <2>2. Len(head) = part /\ head[i] = src[i]
    <3>1. \A k \in 1..part : src[k] \in Byte
      BY <1>1, <1>4, SMT
    <3>2. Len(head) = (IF 1 <= part THEN part - 1 + 1 ELSE 0)
          /\ \A k \in 1..(part - 1 + 1) : head[k] = src[1 + k - 1]
      BY <1>1, <1>4, <2>1, <3>1, SubSeqProperties
    <3>3. i \in 1..(part - 1 + 1) /\ 1 + i - 1 = i /\ part - 1 + 1 = part /\ 1 <= part
      BY <1>1, <2>1, SMT
    <3> QED
      BY <3>2, <3>3
  <2>3. b \in DOMAIN l \cup {M!SramAddr(a, k) : k \in 1..Len(head)}
    BY <1>2, <1>5, Numbers, SMT
  <2>4. M!ByteAt(a, b) = i
    BY <1>1, Numbers, SMT DEF M!ByteAt
  <2>5. M!Stored(l, a, head)[b] = IF M!ByteAt(a, b) <= Len(head) THEN head[M!ByteAt(a, b)] ELSE l[b]
    BY <2>3 DEF M!Stored
  <2> HIDE DEF head
  <2> QED
    BY <1>3, <1>5, <2>1, <2>2, <2>4, <2>5
<1>6. CASE ~(b < LocalSize)
  <2>1. i > part /\ part \in Nat /\ i - part \in 1..(n - part)
    BY <1>1, <1>4, <1>6, SMT
  <2>2. Len(rest) = n - part /\ rest[i - part] = src[i]
    <3>1. \A k \in (part + 1)..n : src[k] \in Byte
      BY <1>1, <1>4, SMT
    <3>2. Len(rest) = (IF part + 1 <= n THEN n - (part + 1) + 1 ELSE 0)
          /\ \A k \in 1..(n - (part + 1) + 1) : rest[k] = src[(part + 1) + k - 1]
      BY <1>1, <1>4, <2>1, <3>1, SubSeqProperties
    <3>3. /\ i - part \in 1..(n - (part + 1) + 1) /\ (part + 1) + (i - part) - 1 = i
          /\ n - (part + 1) + 1 = n - part /\ part + 1 <= n
      BY <1>1, <2>1, SMT
    <3> QED
      BY <3>2, <3>3
  <2>3. b \in DOMAIN s \cup {M!SramAddr(a + part, k) : k \in 1..Len(rest)}
    BY <1>2 DEF Chips
  <2>4. M!ByteAt(a + part, b) = i - part
    BY <1>1, <2>1, Numbers, SMT DEF M!ByteAt
  <2>5. M!Stored(s, a + part, rest)[b] =
          IF M!ByteAt(a + part, b) <= Len(rest) THEN rest[M!ByteAt(a + part, b)] ELSE s[b]
    BY <2>3 DEF M!Stored
  <2>6. i - part <= Len(rest)
    BY <1>1, <2>1, <2>2, SMTT(30)
  <2> HIDE DEF rest
  <2> QED
    BY <1>3, <1>6, <2>2, <2>4, <2>5, <2>6
<1> QED
  BY <1>5, <1>6 DEF b

LEMMA WrittenByte ==
  ASSUME NEW l \in [0..(LocalSize - 1) -> Byte], NEW s \in Chips, NEW a \in Addr, NEW c \in Byte
  PROVE  (IF a < LocalSize THEN M!LocalWritten(l, a, <<c>>)[a]
          ELSE M!SramWritten(s, a, <<c>>)[a]) = c
<1>1. ASSUME NEW src \in Seq(Byte), src = <<c>>, NEW i \in 1..Len(src), i = 1
      PROVE  (IF a < LocalSize THEN M!LocalWritten(l, a, src)[a] ELSE M!SramWritten(s, a, src)[a]) = c
  <2>1. Len(src) = 1 /\ src[i] = c
    BY <1>1
  <2>2. a + Len(src) <= MemSize /\ a + i - 1 = a
    BY <1>1, <2>1, Numbers, SMT DEF Addr
  <2>3. (IF a + i - 1 < LocalSize THEN M!LocalWritten(l, a, src)[a + i - 1]
         ELSE M!SramWritten(s, a, src)[a + i - 1]) = src[i]
    BY <2>2, WrittenAt
  <2> QED
    BY <2>1, <2>2, <2>3
<1>2. <<c>> \in Seq(Byte) /\ 1 \in 1..Len(<<c>>)
  BY SMT
<1> QED
  BY <1>1, <1>2

\* What a character is drawn over is on the screen.
LEMMA SameByte ==
  ASSUME IInv, Fine, busy, ~astray'
  PROVE  \A a \in Addr : a \notin Video /\ a \notin Destination =>
           ByteOf(local', sram', a) = ByteOf(local, sram, a)
<1> SUFFICES ASSUME NEW a \in Addr, a \notin Video, a \notin Destination
             PROVE  ByteOf(local', sram', a) = ByteOf(local, sram, a)
  OBVIOUS
<1>1. ByteOf(local, sram, a) = IF a < LocalSize THEN local[a] ELSE sram[a]
  BY ReadByteAt DEF IInv
<1>2. ByteOf(local', sram', a) = IF a < LocalSize THEN local'[a] ELSE sram'[a]
  BY ReadByteAt DEF Fine, IInv
<1>3. sram'[a] = sram[a] /\ (a < LocalSize => local'[a] = local[a])
  <2>1. a < LocalSize => a \in 0..(LocalSize - 1)
    BY Numbers, SMT DEF Addr
  <2> QED
    BY <2>1 DEF Fine, OnlyScreenChanges
<1> QED
  BY <1>1, <1>2, <1>3

LEMMA PlaceIsAddr ==
  ASSUME NEW start \in Addr, NEW i \in Nat, i > 0
  PROVE  /\ (start + i - 1) % MemSize \in Addr
         /\ start + i - 1 < MemSize => (start + i - 1) % MemSize = start + i - 1
<1>1. start \in Nat /\ start + i - 1 \in Nat
  BY Numbers, SMT DEF Addr
<1> QED
  BY <1>1, Numbers, SMT DEF Addr

\* The next character of write is shown.
LEMMA ShowNext ==
  ASSUME NEW done \in Seq(Byte), NEW todo \in Seq(Byte), todo # <<>>
  PROVE  /\ Append(done, Head(todo)) \in Seq(Byte) /\ Tail(todo) \in Seq(Byte)
         /\ Len(Append(done, Head(todo))) + Len(Tail(todo)) = Len(done) + Len(todo)
         /\ \A i \in 1..(Len(done) + Len(todo)) :
              CharOf(Append(done, Head(todo)), Tail(todo), i) = CharOf(done, todo, i)
<1> DEFINE d == Append(done, Head(todo))
           t == Tail(todo)
<1>1. Len(done) \in Nat /\ Len(todo) \in Nat
  BY LenProperties
<1>2. Head(todo) \in Byte /\ Head(todo) = todo[1] /\ t \in Seq(Byte) /\ Len(t) = Len(todo) - 1
      /\ \A j \in 1..(Len(todo) - 1) : t[j] = todo[j + 1]
  BY HeadTailProperties, ElementOfSeq, EmptySeq
<1>3. d \in Seq(Byte) /\ Len(d) = Len(done) + 1 /\ d[Len(done) + 1] = Head(todo)
      /\ \A j \in 1..Len(done) : d[j] = done[j]
  BY <1>2, AppendProperties
<1> HIDE DEF d, t
<1>4. Len(d) + Len(t) = Len(done) + Len(todo)
  BY <1>1, <1>2, <1>3, SMT
<1>5. ASSUME NEW i \in 1..(Len(done) + Len(todo))
      PROVE  CharOf(d, t, i) = CharOf(done, todo, i)
  <2>1. CASE i <= Len(done)
    <3>1. i \in 1..Len(done) /\ i <= Len(done) + 1
      BY <1>1, <2>1, SMT
    <3> QED
      BY <1>3, <2>1, <3>1 DEF CharOf
  <2>2. CASE i = Len(done) + 1
    <3>1. ~(i <= Len(done)) /\ i <= Len(done) + 1 /\ i - Len(done) = 1
      BY <1>1, <2>2, SMT
    <3> QED
      BY <1>2, <1>3, <2>2, <3>1 DEF CharOf
  <2>3. CASE i > Len(done) + 1
    <3>1. /\ ~(i <= Len(done)) /\ ~(i <= Len(done) + 1)
          /\ i - (Len(done) + 1) \in 1..(Len(todo) - 1)
          /\ (i - (Len(done) + 1)) + 1 = i - Len(done)
      BY <1>1, <2>3, SMT
    <3> QED
      BY <1>2, <1>3, <3>1 DEF CharOf
  <2> QED
    BY <1>1, <2>1, <2>2, <2>3, SMT
<1> QED
  BY <1>2, <1>3, <1>4, <1>5 DEF d, t

LEMMA KeptShown ==
  ASSUME NEW done \in Seq(Byte), NEW todo \in Seq(Byte), todo # <<>>, NEW start \in Addr,
         NEW l, NEW s, NEW m, NEW t, KeptBy(l, s, "write", start, done, todo),
         \A a \in Addr : a \notin Video => ByteOf(m, t, a) = ByteOf(l, s, a)
  PROVE  KeptBy(m, t, "write", start, Append(done, Head(todo)), Tail(todo))
<1> DEFINE d == Append(done, Head(todo))
           r == Tail(todo)
<1>1. Len(d) + Len(r) = Len(done) + Len(todo) /\ Len(done) \in Nat /\ Len(todo) \in Nat
  BY ShowNext, LenProperties
<1>2. \A i \in 1..(Len(done) + Len(todo)) : CharOf(d, r, i) = CharOf(done, todo, i)
  BY ShowNext
<1> HIDE DEF d, r
<1>3. SUFFICES ASSUME NEW i \in 1..(Len(done) + Len(todo)), start + i - 1 < MemSize,
                      (start + i - 1) % MemSize \notin Video
               PROVE  ByteOf(m, t, (start + i - 1) % MemSize) = CharOf(d, r, i)
  BY <1>1 DEF KeptBy, d, r
<1>4. (start + i - 1) % MemSize \in Addr
  BY <1>1, PlaceIsAddr, SMT
<1>5. ByteOf(l, s, (start + i - 1) % MemSize) = CharOf(done, todo, i)
  BY <1>3 DEF KeptBy
<1> QED
  BY <1>2, <1>3, <1>4, <1>5

\* write takes its next characters from memory.
LEMMA KeptTaken ==
  ASSUME NEW done \in Seq(Byte), NEW start \in Addr, NEW size \in Nat, NEW addr \in Addr,
         NEW l \in [0..(LocalSize - 1) -> Byte], NEW s \in Chips,
         addr = (start + Len(done)) % MemSize
  PROVE  LET todo == M!VmRead(l, s, addr, size)
         IN  /\ todo \in Seq(Byte) /\ Len(todo) = size
             /\ KeptBy(l, s, "write", start, done, <<>>) => KeptBy(l, s, "write", start, done, todo)
<1> DEFINE todo == M!VmRead(l, s, addr, size)
<1>1. todo \in [1..size -> Byte]
  BY ReadsBytes
<1>2. todo \in Seq(Byte) /\ Len(todo) = size
  <2> HIDE DEF todo
  <2>1. todo \in Seq(Byte)
    BY <1>1, SeqDef
  <2>2. DOMAIN todo = 1..Len(todo) /\ Len(todo) \in Nat /\ DOMAIN todo = 1..size
    BY <1>1, <2>1, LenProperties
  <2>3. Len(todo) = size
    <3> DEFINE n == Len(todo)
    <3>1. n \in Nat /\ 1..n = 1..size
      BY <2>2
    <3> HIDE DEF n
    <3>2. \A k \in Int : 1 <= k /\ k <= n <=> 1 <= k /\ k <= size
      BY <3>1, SMT
    <3>3. n = size
      BY <3>1, <3>2, SMT
    <3> QED
      BY <3>3, SMTT(30) DEF n
  <2> QED
    BY <2>1, <2>3
<1>3. \A j \in 1..size : addr + j - 1 < MemSize =>
        todo[j] = IF addr + j - 1 < LocalSize THEN l[addr + j - 1] ELSE s[addr + j - 1]
  BY ReadAt
<1> HIDE DEF todo
<1>4. Len(done) \in Nat /\ start \in Nat /\ Len(<<>>) = 0
  BY LenProperties, EmptySeq, Numbers, SMT DEF Addr
<1>5. ASSUME KeptBy(l, s, "write", start, done, <<>>),
             NEW i \in 1..(Len(done) + size), start + i - 1 < MemSize,
             (start + i - 1) % MemSize \notin Video
      PROVE  ByteOf(l, s, (start + i - 1) % MemSize) = CharOf(done, todo, i)
  <2>1. CASE i <= Len(done)
    <3>1. i \in 1..(Len(done) + 0) /\ Len(done) + Len(<<>>) = Len(done) + 0
      BY <1>4, <2>1, SMT
    <3>2. ByteOf(l, s, (start + i - 1) % MemSize) = CharOf(done, <<>>, i)
      BY <1>4, <1>5, <3>1 DEF KeptBy
    <3> QED
      BY <2>1, <3>2 DEF CharOf
  <2>2. CASE ~(i <= Len(done))
    <3> DEFINE j == i - Len(done)
    <3>1. j \in 1..size /\ start + Len(done) < MemSize /\ start + Len(done) \in Nat
      BY <1>4, <1>5, <2>2, Numbers, SMT
    <3>2. addr = start + Len(done)
      <4> DEFINE u == start + Len(done)
      <4>1. u \in Nat /\ u < MemSize
        BY <3>1
      <4> HIDE DEF u
      <4>2. u % MemSize = u
        BY <4>1, Numbers, SMT
      <4> QED
        BY <4>2 DEF u
    <3>3. addr + j - 1 = start + i - 1
      BY <1>4, <3>2, SMT
    <3>4. /\ start + i - 1 \in Addr /\ (start + i - 1) % MemSize = start + i - 1
      <4>1. i \in Nat /\ i > 0
        BY <1>4, SMT
      <4> QED
        BY <1>5, <4>1, PlaceIsAddr
    <3> HIDE DEF j
    <3>5. todo[j] = IF start + i - 1 < LocalSize THEN l[start + i - 1] ELSE s[start + i - 1]
      BY <1>3, <1>5, <3>1, <3>3
    <3>6. ByteOf(l, s, start + i - 1) = todo[j]
      BY <3>4, <3>5, ReadByteAt
    <3> QED
      BY <2>2, <3>4, <3>6 DEF CharOf, j
  <2> QED
    BY <2>1, <2>2
<1> QED
  BY <1>2, <1>5 DEF KeptBy, todo

\* A character that was shown, and that memory holds where the text goes on.
LEMMA KeptOne ==
  ASSUME NEW f, NEW done \in Seq(Byte), NEW start \in Addr, NEW c \in Byte,
         NEW l, NEW s, NEW m, NEW t, KeptBy(l, s, f, start, done, <<>>),
         \A i \in 1..Len(done) :
           /\ f = "put_string" \/ start + i - 1 < MemSize
           /\ (start + i - 1) % MemSize \notin Video
           => ByteOf(m, t, (start + i - 1) % MemSize) = ByteOf(l, s, (start + i - 1) % MemSize),
         /\ f = "put_string" \/ start + Len(done) < MemSize
         /\ (start + Len(done)) % MemSize \notin Video
         => ByteOf(m, t, (start + Len(done)) % MemSize) = c
  PROVE  KeptBy(m, t, f, start, Append(done, c), <<>>)
<1> DEFINE d == Append(done, c)
<1>1. Len(done) \in Nat /\ start \in Nat /\ Len(<<>>) = 0
  BY LenProperties, EmptySeq, Numbers, SMT DEF Addr
<1>2. Len(d) = Len(done) + 1 /\ d[Len(done) + 1] = c /\ \A j \in 1..Len(done) : d[j] = done[j]
  BY AppendProperties
<1> HIDE DEF d
<1>3. ASSUME NEW i \in 1..(Len(done) + 1), f = "put_string" \/ start + i - 1 < MemSize,
             (start + i - 1) % MemSize \notin Video
      PROVE  ByteOf(m, t, (start + i - 1) % MemSize) = CharOf(d, <<>>, i)
  <2>1. i <= Len(d)
    BY <1>1, <1>2, SMT
  <2>2. CASE i <= Len(done)
    <3>1. i \in 1..Len(done) /\ i \in 1..(Len(done) + Len(<<>>))
      BY <1>1, <2>2, SMT
    <3>2. ByteOf(l, s, (start + i - 1) % MemSize) = done[i]
      BY <1>3, <2>2, <3>1 DEF KeptBy, CharOf
    <3> QED
      BY <1>2, <1>3, <2>1, <3>1, <3>2 DEF CharOf
  <2>3. CASE ~(i <= Len(done))
    <3>1. i = Len(done) + 1 /\ start + i - 1 = start + Len(done)
      BY <1>1, <2>3, SMTT(30)
    <3> QED
      BY <1>2, <1>3, <2>1, <3>1 DEF CharOf
  <2> QED
    BY <2>2, <2>3
<1>4. Len(d) + Len(<<>>) = Len(done) + 1
  BY <1>1, <1>2, SMT
<1> QED
  BY <1>3, <1>4 DEF KeptBy, d
-----------------------------------------------------------------------------
(* Every step keeps it.                                                    *)

LEMMA IdleText == ~busy' => TextInv'
BY DEF TextInv

\* What is known of a call that is in progress.
LEMMA InProgress ==
  ASSUME IInv
  PROVE  /\ call \in Calls /\ call.start \in Addr /\ call.addr \in Addr /\ call.count \in Nat
         /\ call.todo \in Seq(Byte) /\ call.done \in Seq(Byte)
         /\ Len(call.done) \in Nat /\ Len(call.todo) \in Nat /\ Len(<<>>) = 0
BY LenProperties, EmptySeq DEF IInv, CallInv, Calls

LEMMA StartText ==
  ASSUME NEW f, NEW addr \in Addr, NEW count \in Nat, Begin(f, addr, count, <<>>),
         f \in {"put_string", "write", "read"} => r_a' = (IF f = "write" THEN count ELSE 0) % Base,
         f = "put_string" => count = 0,
         f = "read" => count < MemSize
  PROVE  TextInv'
<1>1. call' = [f |-> f, start |-> addr, addr |-> addr, count |-> count, todo |-> <<>>,
               done |-> <<>>, pos |-> 0]
  BY DEF Begin, Call
<1>2. Len(<<>>) = 0
  BY EmptySeq
<1>3. Moving' = 0
  BY <1>1, <1>2, SMT DEF Moving
<1>4. Kept'
  <2>1. ~\E i \in 1..(Len(<<>>) + Len(<<>>)) : TRUE
    BY <1>2, SMT
  <2> QED
    BY <1>1, <2>1 DEF Kept, KeptBy
<1>5. addr = (addr + 0) % MemSize /\ 0 + count = count /\ 0 + 0 = 0
  BY Numbers, SMT DEF Addr
<1> QED
  BY <1>1, <1>2, <1>3, <1>4, <1>5, SMT DEF TextInv

LEMMA BeginText ==
  IInv /\ (Sys_exit \/ Sys_unknown \/ Sys_put_string \/ Sys_write \/ Sys_read \/ Sys_get_input)
    => TextInv'
<1> SUFFICES ASSUME IInv,
                    Sys_exit \/ Sys_unknown \/ Sys_put_string \/ Sys_write \/ Sys_read \/ Sys_get_input
             PROVE  TextInv'
  OBVIOUS
<1>1. 0 \in Nat /\ 0 % Base = 0 /\ 0 < MemSize /\ \A a \in Addr : a \in Nat /\ a < MemSize
  BY Numbers, SMT DEF Addr
<1>2. CASE Sys_exit \/ Sys_unknown
  <2>1. call'.f = "report"
    BY <1>2 DEF Sys_exit, Sys_unknown, Begin, Call
  <2> QED
    BY <2>1 DEF TextInv
<1>3. CASE Sys_put_string
  <2> DEFINE addr == Word(Args(2)[1], Args(2)[2])
  <2>1. Args(2)[1] \in Byte /\ Args(2)[2] \in Byte
    BY ArgsAreBytes, SMT
  <2>2. addr \in Addr
    BY <2>1, WordIsAddr
  <2>3. Begin("put_string", addr, 0, <<>>) /\ r_a' = 0
    BY <1>3 DEF Sys_put_string
  <2> HIDE DEF addr
  <2> QED
    BY <1>1, <2>2, <2>3, StartText
<1>4. CASE Sys_write \/ Sys_read
  <2> DEFINE v == Args(6)
             addr == Word(v[3], v[4])
             size == Word(v[5], v[6])
             out == IF Handle(v) \in {1, 2} THEN size ELSE 0
             in == IF Handle(v) = 0 THEN size ELSE 0
  <2>1. \A i \in 1..6 : v[i] \in Byte
    BY ArgsAreBytes
  <2>2. v[3] \in Byte /\ v[4] \in Byte /\ v[5] \in Byte /\ v[6] \in Byte
    BY <2>1, SMT
  <2> HIDE DEF v
  <2>3. addr \in Addr /\ size \in Addr
    BY <2>2, WordIsAddr
  <2>4. out \in Nat /\ in \in Nat /\ in < MemSize
    BY <1>1, <2>3
  <2>5. (Begin("write", addr, out, <<>>) /\ r_a' = out % Base)
        \/ (Begin("read", addr, in, <<>>) /\ r_a' = 0)
    BY <1>4 DEF Sys_write, Sys_read, v
  <2> HIDE DEF addr, out, in
  <2> QED
    BY <1>1, <2>3, <2>4, <2>5, StartText
<1>5. CASE Sys_get_input
  <2> DEFINE v == Args(3)
             addr == Word(v[1], v[2])
             size == IF v[3] < InputLimit THEN v[3] ELSE InputLimit
  <2>1. \A i \in 1..3 : v[i] \in Byte
    BY ArgsAreBytes
  <2>2. v[1] \in Byte /\ v[2] \in Byte /\ v[3] \in Byte
    BY <2>1, SMT
  <2> HIDE DEF v
  <2>3. addr \in Addr /\ size \in Nat
    <3>1. \A b \in Byte : b \in Nat
      BY SMT DEF Byte
    <3> QED
      BY <2>2, <3>1, WordIsAddr, Numbers
  <2>4. Begin("get_input", addr, size, <<>>)
    BY <1>5 DEF Sys_get_input, v
  <2> HIDE DEF addr, size
  <2> QED
    BY <2>3, <2>4, StartText
<1> QED
  BY <1>2, <1>3, <1>4, <1>5

\* A character of write, or of a report.
LEMMA PutNextText == ASSUME IInv, TextInv, Fine, PutNext PROVE TextInv'
<1>1. /\ busy /\ call.todo # <<>> /\ call' = [[call EXCEPT !.todo = Tail(@)]
                                               EXCEPT !.done = Append(@, Head(call.todo))]
      /\ r_a' = r_a
  BY DEF PutNext, PutChar
<1>2. call'.f = call.f
  BY <1>1, InProgress DEF Calls
<1>3. CASE call.f # "write"
  <2>1. call.f \notin {"put_string", "read", "get_input"}
    BY <1>1 DEF TextInv, IInv, CallInv
  <2> QED
    BY <1>2, <1>3, <2>1 DEF TextInv
<1>4. CASE call.f = "write"
  <2>1. /\ call'.done = Append(call.done, Head(call.todo)) /\ call'.todo = Tail(call.todo)
        /\ call'.start = call.start /\ call'.addr = call.addr /\ call'.count = call.count
    BY <1>1, InProgress DEF Calls
  <2>2. Moving' = Moving
    BY <1>1, <2>1, InProgress, ShowNext DEF Moving
  <2>3. Kept'
    <3> SUFFICES ASSUME ~astray'
                 PROVE  KeptBy(local', sram', call'.f, call'.start, call'.done, call'.todo)
      BY DEF Kept
    <3>1. KeptBy(local, sram, "write", call.start, call.done, call.todo)
      BY <1>1, <1>4 DEF TextInv, Kept, PutNext
    <3>2. \A a \in Addr : a \notin Video => ByteOf(local', sram', a) = ByteOf(local, sram, a)
      BY <1>1, <1>4, SameByte DEF Destination
    <3>3. KeptBy(local', sram', "write", call.start, Append(call.done, Head(call.todo)), Tail(call.todo))
      BY <1>1, <3>1, <3>2, InProgress, KeptShown
    <3> QED
      BY <1>2, <1>4, <2>1, <3>3
  <2> QED
    BY <1>1, <1>2, <1>4, <2>1, <2>2, <2>3 DEF TextInv
<1> QED
  BY <1>3, <1>4

LEMMA WriteChunkText == ASSUME IInv, TextInv, WriteChunk PROVE TextInv'
<1> DEFINE size == IF call.count < Chunk THEN call.count ELSE Chunk
           todo == M!VmRead(local, sram, call.addr, size)
<1>1. busy /\ call.f = "write" /\ call.todo = <<>>
  BY DEF WriteChunk
<1>2. size \in Nat /\ call.count \in Nat /\ call.count - size \in Nat
      /\ size + (call.count - size) = call.count
  <2>1. call.count \in Nat
    BY InProgress
  <2>2. Chunk \in Nat
    BY Numbers
  <2> HIDE DEF todo
  <2> QED
    BY <2>1, <2>2, SMT
<1>3. /\ call' = [call EXCEPT !.todo = todo, !.count = @ - size, !.addr = NextAddr(size)]
      /\ UNCHANGED <<local, sram, r_a, busy, astray>>
  BY DEF WriteChunk, memory, screen
<1> HIDE DEF size
<1>4. Kept /\ r_a = (Moving + call.count) % Base /\ call.addr = (call.start + Moving) % MemSize
  BY <1>1 DEF TextInv
<1>5. Moving = Len(call.done)
  BY <1>1, InProgress, SMT DEF Moving
<1>6. /\ todo \in Seq(Byte) /\ Len(todo) = size
      /\ ~astray => KeptBy(local, sram, "write", call.start, call.done, todo)
  <2>1. /\ ~astray => KeptBy(local, sram, "write", call.start, call.done, <<>>)
        /\ call.addr = (call.start + Len(call.done)) % MemSize
    BY <1>1, <1>4, <1>5 DEF Kept
  <2>2. local \in [0..(LocalSize - 1) -> Byte] /\ sram \in Chips
    BY DEF IInv
  <2>3. /\ todo \in Seq(Byte) /\ Len(todo) = size
        /\ KeptBy(local, sram, "write", call.start, call.done, <<>>) =>
             KeptBy(local, sram, "write", call.start, call.done, todo)
    BY <1>2, <2>1, <2>2, InProgress, KeptTaken
  <2> HIDE DEF todo
  <2> QED
    BY <2>1, <2>3
<1> HIDE DEF todo
<1>7. /\ call'.f = "write" /\ call'.done = call.done /\ call'.todo = todo /\ call'.start = call.start
      /\ call'.count = call.count - size /\ call'.addr = (call.addr + size) % MemSize
  BY <1>1, <1>3, InProgress DEF Calls, NextAddr
<1>8. Moving' = Moving + size
  BY <1>5, <1>6, <1>7 DEF Moving
<1>9. Moving \in Nat /\ call.start \in Nat
  <2>1. \A a \in Addr : a \in Nat
    BY SMT DEF Addr
  <2> QED
    BY <1>5, <2>1, InProgress
<1>10. r_a' = (Moving' + call'.count) % Base
  <2>1. Moving + size + (call.count - size) = Moving + call.count
    BY <1>2, <1>9, SMT
  <2> QED
    BY <1>3, <1>4, <1>7, <1>8, <2>1
<1>11. call'.addr = (call'.start + Moving') % MemSize
  <2>1. (((call.start + Moving) % MemSize) + size) % MemSize = ((call.start + Moving) + size) % MemSize
    <3> DEFINE u == call.start + Moving
    <3>1. u \in Nat /\ MemSize \in Nat /\ MemSize > 0
      BY <1>9, Numbers, SMT
    <3> HIDE DEF u
    <3>2. ((u % MemSize) + size) % MemSize = (u + size) % MemSize
      BY <1>2, <3>1, ModSum, Zenon
    <3> QED
      BY <3>2 DEF u
  <2>2. (call.start + Moving) + size = call.start + (Moving + size)
    BY <1>2, <1>9, SMT
  <2> QED
    BY <1>4, <1>7, <1>8, <2>1, <2>2
<1>12. Kept'
  BY <1>3, <1>6, <1>7 DEF Kept
<1> QED
  BY <1>7, <1>10, <1>11, <1>12 DEF TextInv

LEMMA OneOn ==
  ASSUME NEW m \in Nat, m > 0, NEW u \in Nat, NEW v \in Nat
  PROVE  (((u + v) % m) + 1) % m = (u + (v + 1)) % m
<1> DEFINE w == u + v
<1>1. w \in Nat /\ 1 \in Nat /\ w + 1 = u + (v + 1)
  BY SMT
<1> HIDE DEF w
<1>2. ((w % m) + 1) % m = (w + 1) % m
  BY <1>1, ModSum, Zenon
<1> QED
  BY <1>1, <1>2 DEF w

\* One more character, with the address and the accumulator that follow it.
LEMMA OneMore ==
  ASSUME IInv, TextInv, busy, call.f \in {"put_string", "read"}, NEW c \in Byte,
         call'.f = call.f, call'.done = Append(call.done, c), call'.start = call.start,
         call'.todo = call.todo, call'.addr = (call.addr + 1) % MemSize,
         r_a' = (r_a + 1) % Base, Kept',
         call.f = "put_string" => call'.count = call.count,
         call.f = "read" => call'.count = call.count - 1 /\ call.count > 0
  PROVE  TextInv'
<1>1. /\ r_a = (Moving + 0) % Base /\ call.addr = (call.start + Moving) % MemSize
      /\ call.todo = <<>> /\ (call.f = "put_string" => call.count = 0)
      /\ (call.f = "read" => Len(call.done) + call.count < MemSize)
  BY DEF TextInv
<1>2. Len(call.done) \in Nat /\ Len(<<>>) = 0 /\ Len(call'.done) = Len(call.done) + 1
      /\ call.start \in Nat /\ call.count \in Nat
  <2>1. Len(Append(call.done, c)) = Len(call.done) + 1
    BY InProgress, AppendProperties
  <2>2. \A a \in Addr : a \in Nat
    BY SMT DEF Addr
  <2> QED
    BY <2>1, <2>2, InProgress
<1>3. Moving \in Nat /\ Moving' = Moving + 1 /\ Moving = Len(call.done)
  BY <1>1, <1>2, SMT DEF Moving
<1>4. call'.addr = (call'.start + Moving') % MemSize
  <2>1. MemSize \in Nat /\ MemSize > 0
    BY Numbers, SMT
  <2>2. (((call.start + Moving) % MemSize) + 1) % MemSize = (call.start + (Moving + 1)) % MemSize
    BY <1>2, <1>3, <2>1, OneOn, Zenon
  <2> QED
    BY <1>1, <1>3, <2>2
<1>5. r_a' = (Moving' + 0) % Base
  <2>1. Base \in Nat /\ Base > 0 /\ Moving + 0 = 0 + Moving /\ Moving' + 0 = 0 + (Moving + 1) /\ 0 \in Nat
    BY <1>3, Numbers, SMT
  <2>2. r_a = (0 + Moving) % Base
    BY <1>1, <2>1
  <2>3. (((0 + Moving) % Base) + 1) % Base = (0 + (Moving + 1)) % Base
    BY <1>3, <2>1, OneOn, Zenon
  <2> QED
    BY <2>1, <2>2, <2>3
<1>6. /\ call'.todo = <<>>
      /\ call'.f = "put_string" => call'.count = 0
      /\ call'.f = "read" => Len(call'.done) + call'.count < MemSize
  BY <1>1, <1>2, SMT
<1>7. Moving' + (IF call'.f = "read" THEN 0 ELSE call'.count) = Moving' + 0
  BY <1>6
<1> QED
  BY <1>4, <1>5, <1>6, <1>7 DEF TextInv

LEMMA PutStringText == ASSUME IInv, TextInv, Fine, PutStringNext PROVE TextInv'
<1>1. busy /\ call.f = "put_string"
  BY DEF PutStringNext
<1>2. CASE Return
  BY <1>2, IdleText DEF Return
<1>3. CASE ~Return
  <2> DEFINE c == ByteOf(local, sram, call.addr)
  <2>1. /\ call' = [[call EXCEPT !.addr = (@ + 1) % MemSize] EXCEPT !.done = Append(@, c)]
        /\ r_a' = (r_a + 1) % Base /\ astray' = astray
    BY <1>3 DEF PutStringNext, PutChar, ByteOf, ReadByte
  <2>2. c \in Byte
    <3>1. M!VmRead(local, sram, call.addr, 1) \in [1..1 -> Byte]
      BY ReadsBytes DEF IInv
    <3> QED
      BY <3>1, SMT DEF ByteOf
  <2> HIDE DEF c
  <2>3. /\ call'.f = call.f /\ call'.done = Append(call.done, c) /\ call'.start = call.start
        /\ call'.todo = call.todo /\ call'.addr = (call.addr + 1) % MemSize
        /\ call'.count = call.count
    BY <2>1, InProgress DEF Calls
  <2>4. Kept'
    <3> SUFFICES ASSUME ~astray, ~astray'
                 PROVE  KeptBy(local', sram', call'.f, call'.start, call'.done, call'.todo)
      BY <2>1 DEF Kept
    <3>1. call.todo = <<>> /\ call.addr = (call.start + Len(call.done)) % MemSize
          /\ KeptBy(local, sram, "put_string", call.start, call.done, <<>>)
      <4>1. Len(call.done) + 0 = Len(call.done)
        BY InProgress, SMT
      <4> QED
        BY <1>1, <4>1, InProgress DEF TextInv, Moving, Kept
    <3>2. \A a \in Addr : a \notin Video => ByteOf(local', sram', a) = ByteOf(local, sram, a)
      BY <1>1, SameByte DEF Destination
    <3>3. \A i \in 1..Len(call.done) : (call.start + i - 1) % MemSize \in Addr
      <4>1. \A i \in 1..Len(call.done) : i \in Nat /\ i > 0
        BY InProgress, SMT
      <4> QED
        BY <4>1, InProgress, PlaceIsAddr
    <3>4. KeptBy(local', sram', "put_string", call.start, Append(call.done, c), <<>>)
      BY <2>2, <3>1, <3>2, <3>3, InProgress, KeptOne DEF c
    <3> QED
      BY <1>1, <2>3, <3>1, <3>4
  <2> QED
    BY <1>1, <2>1, <2>2, <2>3, <2>4, OneMore
<1> QED
  BY <1>2, <1>3

\* A key that read stores is read back, and is stored over none before it.
LEMMA ReadKeyText == ASSUME IInv, TextInv, Fine, NEW c \in Key, ReadKey(c) PROVE TextInv'
<1> DEFINE con == put_char(Con, c)
           n == Len(call.done)
<1>1. c \in Byte /\ con.chip \in Chips
  <2>1. c \in Byte
    BY SyscallsAssumption DEF SyscallsAssumption
  <2> QED
    BY <2>1, PutCharConfined DEF Confined, Anywhere
<1>2. /\ busy /\ call.f = "read" /\ call.count > 0
      /\ local' = M!LocalWritten(local, call.addr, <<c>>)
      /\ sram' = M!SramWritten(con.chip, call.addr, <<c>>)
      /\ call' = [call EXCEPT !.addr = (@ + 1) % MemSize, !.count = @ - 1, !.done = Append(@, c)]
      /\ r_a' = (r_a + 1) % Base /\ astray' = astray
  BY DEF ReadKey
<1> HIDE DEF con
<1>3. /\ call'.f = call.f /\ call'.done = Append(call.done, c) /\ call'.start = call.start
      /\ call'.todo = call.todo /\ call'.addr = (call.addr + 1) % MemSize
      /\ call'.count = call.count - 1
  BY <1>2, InProgress DEF Calls
<1>4. /\ n \in Nat /\ call.start \in Nat /\ call.start < MemSize /\ call.count \in Nat
      /\ MemSize \in Nat /\ \A a \in Addr : a \in Nat /\ a < MemSize
  <2>1. MemSize \in Nat /\ \A a \in Addr : a \in Nat /\ a < MemSize
    BY Numbers, SMT DEF Addr
  <2> QED
    BY <2>1, InProgress
<1>5. /\ call.todo = <<>> /\ call.addr = (call.start + n) % MemSize /\ n + call.count < MemSize
      /\ ~astray => KeptBy(local, sram, "read", call.start, call.done, <<>>)
  <2>1. n + 0 = n
    BY <1>4, SMT
  <2> QED
    BY <1>2, <2>1, InProgress DEF TextInv, Moving, Kept
<1> HIDE DEF n
<1>6. ASSUME ~astray, NEW i \in 1..n, call.start + i - 1 < MemSize,
             (call.start + i - 1) % MemSize \notin Video
      PROVE  ByteOf(local', sram', (call.start + i - 1) % MemSize) =
               ByteOf(local, sram, (call.start + i - 1) % MemSize)
  <2> DEFINE p == call.start + i - 1
  <2>1. i \in Nat /\ i > 0
    BY <1>4, SMT
  <2>2. p % MemSize = p /\ p \in Addr
    BY <1>6, <2>1, InProgress, PlaceIsAddr
  <2>3. p # call.addr
    <3>1. CASE call.start + n < MemSize
      <4>1. (call.start + n) % MemSize = call.start + n
        BY <1>4, <3>1, SMT
      <4> QED
        BY <1>4, <1>5, <4>1, SMT
    <3>2. CASE ~(call.start + n < MemSize)
      <4> DEFINE r == (call.start + n) - MemSize
      <4>1. r \in 0..(MemSize - 1) /\ call.start + n = 1 * MemSize + r /\ r < call.start
        <5>1. call.count > 0
          BY <1>2
        <5>2. n < MemSize
          BY <1>4, <1>5, <5>1, SMT
        <5> QED
          BY <1>4, <3>2, <5>2, SMT
      <4> HIDE DEF r
      <4>2. (call.start + n) % MemSize = r
        BY <1>4, <4>1, SMT
      <4> QED
        BY <1>4, <1>5, <2>1, <4>1, <4>2, SMT
    <3> QED
      BY <3>1, <3>2
  <2> HIDE DEF p
  <2>4. p \notin Video
    BY <1>6, <2>2 DEF p
  <2>5. ByteOf(local', sram', p) = ByteOf(local, sram, p)
    BY <1>2, <1>6, <2>2, <2>3, <2>4, SameByte DEF Destination
  <2> QED
    BY <2>2, <2>5 DEF p
<1>7. ASSUME call.start + n < MemSize
      PROVE  ByteOf(local', sram', (call.start + n) % MemSize) = c
  <2>1. call.addr \in Addr
    BY InProgress
  <2>2. (IF call.addr < LocalSize THEN local'[call.addr] ELSE sram'[call.addr]) = c
    BY <1>1, <1>2, <2>1, WrittenByte DEF IInv
  <2>3. ByteOf(local', sram', call.addr) =
          IF call.addr < LocalSize THEN local'[call.addr] ELSE sram'[call.addr]
    BY <2>1, ReadByteAt DEF Fine, IInv
  <2> QED
    BY <1>5, <2>2, <2>3
<1>8. ~astray => KeptBy(local', sram', "read", call.start, Append(call.done, c), <<>>)
  BY <1>1, <1>5, <1>6, <1>7, InProgress, KeptOne DEF n
<1>9. Kept'
  BY <1>2, <1>3, <1>5, <1>8 DEF Kept
<1> QED
  BY <1>1, <1>2, <1>3, <1>9, OneMore

\* Whatever a key does to the line, its place in memory is the same.
LEMMA InputKeyText == IInv /\ TextInv /\ InputKey => TextInv' /\ busy'
<1> SUFFICES ASSUME IInv, TextInv, InputKey PROVE TextInv' /\ busy'
  BY SMTT(30)
<1>1. Input /\ busy' = busy /\ \E line, n : call' = [call EXCEPT !.done = line, !.pos = n]
  <2>1. ASSUME NEW chip, NEW a, NEW line, NEW n, NEW lost, Edited(chip, a, line, n, lost)
        PROVE  busy' = busy /\ \E u, m : call' = [call EXCEPT !.done = u, !.pos = m]
    BY <2>1 DEF Edited
  <2>2. ASSUME NEW c \in Typed, InputAppend(c)
        PROVE  Input /\ busy' = busy /\ \E u, m : call' = [call EXCEPT !.done = u, !.pos = m]
    BY <2>2 DEF InputAppend
  <2> QED
    BY <2>1, <2>2 DEF InputKey, InputLeft, InputRight, InputErase, InputInsert
<1>2. busy /\ call.f = "get_input" /\ call'.f = "get_input"
      /\ call'.start = call.start /\ call'.addr = call.addr
  BY <1>1, InProgress DEF Calls, Input
<1> QED
  BY <1>1, <1>2 DEF TextInv

-----------------------------------------------------------------------------
(* The end of a call.                                                      *)

\* More text than there is memory goes over the screen.
LEMMA WholeMemory ==
  ASSUME NEW a \in Addr, NEW n \in Nat, Touched(a, n) \cap Video = {}
  PROVE  n < MemSize
<1> SUFFICES ASSUME n >= MemSize PROVE FALSE
  BY Numbers, SMT
<1> DEFINE i == IF a <= VIDEO_ADDR THEN VIDEO_ADDR - a + 1 ELSE VIDEO_ADDR - a + 1 + MemSize
<1>1. VIDEO_ADDR < VideoEnd
  <2>1. CHARS_HEIGHT * RowBytes > 0
    <3>1. RowBytes > 0
      BY Numbers, SMT
    <3> QED
      BY <3>1, Numbers, SMT
  <2> DEFINE r == CHARS_HEIGHT * RowBytes
  <2>2. r > 0 /\ r \in Int /\ VideoEnd = VIDEO_ADDR + r
    BY <2>1, Numbers, SMT
  <2> HIDE DEF r
  <2> QED
    BY <2>2, Numbers, SMT
<1>2. VIDEO_ADDR \in Video
  BY <1>1, Numbers, SMT DEF Video
<1>3. i \in 1..n /\ VIDEO_ADDR = M!SramAddr(a, i)
  BY <1>1, Numbers, SMT DEF Addr, M!SramAddr
<1> HIDE DEF i
<1> QED
  BY <1>2, <1>3 DEF Touched

\* All that was shown is what memory holds.
LEMMA KeptIsHeld ==
  ASSUME NEW l, NEW s, NEW f, NEW start \in Addr, NEW done \in Seq(Byte),
         KeptBy(l, s, f, start, done, <<>>), Touched(start, Len(done)) \cap Video = {},
         f = "put_string" \/ start + Len(done) <= MemSize
  PROVE  [i \in 1..Len(done) |-> ByteOf(l, s, (start + i - 1) % MemSize)] = done
<1> DEFINE n == Len(done)
<1>1. n \in Nat /\ Len(<<>>) = 0 /\ start \in Nat /\ start < MemSize /\ MemSize \in Nat
      /\ DOMAIN done = 1..n
  BY LenProperties, EmptySeq, Numbers, SMT DEF Addr
<1>2. n < MemSize
  BY <1>1, WholeMemory
<1> HIDE DEF n
<1>3. ASSUME NEW i \in 1..n
      PROVE  ByteOf(l, s, (start + i - 1) % MemSize) = done[i]
  <2>1. i \in Nat /\ i > 0 /\ i <= n /\ i \in 1..(n + 0)
    BY <1>1, SMT
  <2>2. (start + i - 1) % MemSize = M!SramAddr(start, i)
    BY <1>1, <1>2, <2>1, SMT DEF M!SramAddr
  <2>3. (start + i - 1) % MemSize \notin Video
    BY <2>2 DEF Touched, n
  <2>4. start + n <= MemSize => start + i - 1 < MemSize
    BY <1>1, <2>1, SMT
  <2>5. CharOf(done, <<>>, i) = done[i]
    BY <2>1 DEF CharOf, n
  <2> QED
    BY <1>1, <2>1, <2>3, <2>4, <2>5 DEF KeptBy, n
<1> QED
  BY <1>1, <1>3 DEF n

\* A call that ends has shown all of its text, which memory holds.
LEMMA EndMoved ==
  ASSUME IInv, TextInv, busy, call.f \in {"put_string", "write", "read"},
         call.todo = <<>>, call.f # "put_string" => call.count = 0,
         call.f = "put_string" => ReadByte(call.addr) = 0,
         UNCHANGED <<local, sram, call, r_a>>
  PROVE  MovedIsShown
<1> DEFINE n == Len(call.done)
<1>1. n \in Nat /\ Len(<<>>) = 0 /\ call.start \in Addr /\ call.done \in Seq(Byte)
  BY InProgress
<1>2. /\ r_a = (Moving + (IF call.f = "read" THEN 0 ELSE call.count)) % Base
      /\ call.addr = (call.start + Moving) % MemSize
      /\ call.f = "put_string" => call.count = 0
      /\ ~astray => KeptBy(local, sram, call.f, call.start, call.done, <<>>)
  BY DEF TextInv, Kept
<1>3. Moving = n /\ n + 0 = n
  <2> HIDE DEF n
  <2>1. Moving = n + 0
    BY <1>1 DEF Moving, n
  <2> QED
    BY <1>1, <2>1, SMT
<1>4. r_a' = n % Base /\ call.addr = (call.start + n) % MemSize
  BY <1>2, <1>3
<1>5. ASSUME ~astray, Touched(call.start, n) \cap Video = {},
             call.f = "put_string" \/ call.start + n <= MemSize
      PROVE  Holds(call.start, n)' = call.done
  <2>1. [i \in 1..n |-> ByteOf(local, sram, (call.start + i - 1) % MemSize)] = call.done
    BY <1>1, <1>2, <1>5, KeptIsHeld
  <2> QED
    BY <2>1 DEF Holds, ReadByte, ByteOf
<1> QED
  BY <1>4, <1>5 DEF MovedIsShown

\* The line of an input is stored after it was shown.
LEMMA InputMoved == ASSUME IInv, TextInv, Fine, InputEnds PROVE MovedIsShown
<1> DEFINE con == LineFeed(Con)
           n == Len(call.done)
<1>1. /\ busy /\ call.f = "get_input" /\ call' = call /\ r_a' = n
      /\ local' = M!LocalWritten(local, call.addr, call.done)
      /\ sram' = M!SramWritten(con.chip, call.addr, call.done)
  BY DEF InputEnds, Input, End
<1>2. con.chip \in Chips
  BY LineFeedConfined DEF Confined, Anywhere
<1> HIDE DEF con
<1>3. /\ n \in Nat /\ call.start \in Addr /\ call.addr = call.start /\ call.done \in Seq(Byte)
      /\ n < BufferSize
  BY <1>1, InProgress DEF TextInv, IInv, CallInv
<1>4. n % Base = n
  <2> HIDE DEF n
  <2> QED
    BY <1>3, Numbers, SMT
<1>5. ASSUME call.start + n <= MemSize
      PROVE  Holds(call.start, n)' = call.done
  <2>1. ASSUME NEW i \in 1..n
        PROVE  ByteOf(local', sram', (call.start + i - 1) % MemSize) = call.done[i]
    <3> DEFINE p == call.start + i - 1
    <3>1. i \in Nat /\ i > 0 /\ p < MemSize
      <4>1. call.start \in Nat
        BY <1>3, Numbers, SMT DEF Addr
      <4> HIDE DEF n
      <4> QED
        BY <1>3, <1>5, <4>1, Numbers, SMT
    <3>2. p % MemSize = p /\ p \in Addr
      BY <1>3, <3>1, PlaceIsAddr
    <3>3. (IF p < LocalSize THEN local'[p] ELSE sram'[p]) = call.done[i]
      BY <1>1, <1>2, <1>3, <1>5, WrittenAt, SMTT(30) DEF IInv
    <3> HIDE DEF p
    <3>4. ByteOf(local', sram', p) = call.done[i]
      BY <3>2, <3>3, ReadByteAt DEF Fine, IInv
    <3> QED
      BY <3>2, <3>4 DEF p
  <2>2. call.done = [i \in 1..n |-> call.done[i]]
    BY <1>3, LenProperties
  <2> QED
    BY <1>1, <2>1, <2>2 DEF Holds, ReadByte, ByteOf
<1> QED
  BY <1>1, <1>4, <1>5 DEF MovedIsShown

-----------------------------------------------------------------------------
(* The theorems about text.                                                *)

LEMMA InitText == Init => TextInv
BY DEF Init, TextInv

LEMMA NextText == IInv /\ TextInv /\ [Next]_vars => TextInv' /\ [MovedIsShown]_vars
<1> SUFFICES ASSUME IInv, TextInv, [Next]_vars PROVE TextInv' /\ [MovedIsShown]_vars
  OBVIOUS
<1>1. Fine \/ UNCHANGED vars
  BY NextStep DEF Fine
<1>2. CASE UNCHANGED vars
  BY <1>2 DEF vars, memory, screen, control, TextInv, Kept, Moving
<1> SUFFICES ASSUME Next, Fine PROVE TextInv' /\ MovedIsShown
  BY <1>1, <1>2
<1>3. ASSUME ~busy, ~busy' PROVE TextInv' /\ MovedIsShown
  BY <1>3, IdleText DEF MovedIsShown
<1>4. CASE Program
  <2>1. ~busy /\ ~busy'
    BY <1>4 DEF Program, Store, Push, Run, Ready
  <2> QED
    BY <1>3, <2>1
<1>5. CASE Vm_syscall
  <2>1. CASE \/ Sys_load \/ Sys_save \/ Sys_put_char \/ Sys_set_cursor \/ Sys_fill_screen
             \/ Sys_get_char \/ Sys_put_tile \/ Sys_random \/ Sys_vsync \/ Sys_srand \/ Sys_version
    <3>1. \E f \in Names : AtOnce(f)
      <4>1. {"load", "save", "put_char", "set_cursor", "fill_screen", "get_char", "put_tile",
             "random", "vsync", "srand", "version"} \subseteq Names
        BY DEF Names
      <4> QED
        BY <2>1, <4>1 DEF Sys_load, Sys_save, Sys_put_char, Sys_set_cursor, Sys_fill_screen,
          Sys_get_char, Sys_put_tile, Sys_random, Sys_vsync, Sys_srand, Sys_version
    <3>2. ~busy /\ ~busy'
      BY <3>1 DEF AtOnce, Ready
    <3> QED
      BY <1>3, <3>2
  <2>2. CASE Sys_exit \/ Sys_unknown \/ Sys_put_string \/ Sys_write \/ Sys_read \/ Sys_get_input
    <3>1. ~busy
      BY <2>2 DEF Sys_exit, Sys_unknown, Sys_put_string, Sys_write, Sys_read, Sys_get_input,
        Begin, Ready
    <3> QED
      BY <2>2, <3>1, BeginText DEF MovedIsShown
  <2>3. CASE PutNext
    BY <2>3, PutNextText DEF PutNext, MovedIsShown
  <2>4. CASE ReportEnds
    BY <2>4, IdleText DEF ReportEnds, Return, MovedIsShown
  <2>5. CASE PutStringNext
    <3>1. TextInv'
      BY <2>5, PutStringText
    <3>2. CASE busy'
      BY <3>1, <3>2 DEF MovedIsShown
    <3>3. CASE ~busy'
      <4>1. busy /\ call.f = "put_string" /\ ReadByte(call.addr) = 0 /\ UNCHANGED <<local, sram, call, r_a>>
        BY <2>5, <3>3 DEF PutStringNext, Return, memory
      <4>2. call.todo = <<>>
        BY <4>1 DEF TextInv
      <4> QED
        BY <3>1, <4>1, <4>2, EndMoved
    <3> QED
      BY <3>2, <3>3
  <2>6. CASE WriteChunk
    BY <2>6, WriteChunkText DEF WriteChunk, MovedIsShown
  <2>7. CASE WriteEnds \/ ReadEnds
    <3>1. /\ busy /\ ~busy' /\ call.f \in {"write", "read"} /\ call.count = 0
          /\ UNCHANGED <<local, sram, call, r_a>>
      BY <2>7 DEF WriteEnds, ReadEnds, Return, memory
    <3>2. call.todo = <<>>
      BY <2>7, <3>1 DEF TextInv, WriteEnds, ReadEnds
    <3> QED
      BY <3>1, <3>2, IdleText, EndMoved
  <2>8. ASSUME NEW c \in Key, ReadKey(c) PROVE TextInv' /\ MovedIsShown
    BY <2>8, ReadKeyText DEF ReadKey, MovedIsShown
  <2>9. CASE InputKey
    BY <2>9, InputKeyText DEF MovedIsShown
  <2>10. CASE InputEnds
    BY <2>10, IdleText, InputMoved DEF InputEnds
  <2> QED
    BY <1>5, <2>1, <2>2, <2>3, <2>4, <2>5, <2>6, <2>7, <2>8, <2>9, <2>10 DEF Vm_syscall
<1> QED
  BY <1>4, <1>5 DEF Next

\* While put_string, write or read goes on, the accumulator counts the text,
\* the address goes on with it, and what was shown is what memory holds.
THEOREM TextInvariant == Spec => []TextInv
<1> QED
  BY InitInv, NextStep, InitText, NextText, PTL DEF Spec

\* When the call ends, what the screen showed, or the line as it was edited, is
\* what memory holds at the address it was given, high byte first, all of it, and
\* the accumulator says how much; what is shown while a line is astray aside, as
\* it is drawn over memory.
THEOREM TextIsMoved == Spec => TextMoved
<1> QED
  BY CallsInvariant, TextInvariant, NextText, PTL DEF Spec, TextMoved

-----------------------------------------------------------------------------
(* The cells of the screen.                                                *)

Tiles == [1..CharLines -> Byte]

\* Where row of pixels number line of a cell is, and what the cell shows.
CellAddr(row, col, line) == VIDEO_ADDR + col + row * RowBytes + (line - 1) * CHARS_WIDTH
Cell(chip, row, col) == [line \in 1..CharLines |-> chip[CellAddr(row, col, line)]]
Clear == [line \in 1..CharLines |-> 0]

LEMMA CellInVideo ==
  ASSUME NEW row \in Lines, NEW col \in Columns, NEW line \in 1..CharLines
  PROVE  /\ CellAddr(row, col, line) \in Video
         /\ CellAddr(row, col, line) \in Addr
         /\ CellAddr(row, col, line) = PixelAddr(col, row, line - 1)
<1>1. line - 1 \in 0..(CharLines - 1)
  BY Numbers, SMT
<1>2. PixelAddr(col, row, line - 1) = CellAddr(row, col, line)
      /\ PixelAddr(col, row, line - 1) \in Video
  BY <1>1, PixelAt DEF CellAddr
<1> QED
  BY <1>2, ZeroByte

\* A number is divided in one way.
LEMMA OneQuotient ==
  ASSUME NEW m \in Nat, NEW q \in Nat, NEW r \in Nat, NEW s \in Nat, NEW t \in Nat,
         s < m, t < m, q * m + s = r * m + t
  PROVE  q = r /\ s = t
<1>1. q * m \in Nat /\ r * m \in Nat
  BY SMT
<1>2. CASE q < r
  <2>1. q * m + m <= r * m
    BY <1>2, Rows
  <2> QED
    BY <1>1, <2>1, SMT
<1>3. CASE r < q
  <2>1. r * m + m <= q * m
    BY <1>3, Rows
  <2> QED
    BY <1>1, <2>1, SMT
<1>4. CASE q = r
  BY <1>1, <1>4, SMT
<1> QED
  BY <1>2, <1>3, <1>4, SMT

\* The place of a byte in its row of characters.
LEMMA InRow ==
  ASSUME NEW col \in Columns, NEW line \in 1..CharLines
  PROVE  /\ (line - 1) * CHARS_WIDTH \in Nat /\ line - 1 \in Nat /\ col \in Nat
         /\ col < CHARS_WIDTH /\ (line - 1) * CHARS_WIDTH + col < RowBytes
<1>1. line - 1 \in Nat /\ line - 1 < CharLines /\ col \in Nat /\ col < CHARS_WIDTH
  BY Numbers, SMT DEF Columns
<1>2. /\ (line - 1) * CHARS_WIDTH + CHARS_WIDTH <= CharLines * CHARS_WIDTH
      /\ (line - 1) * CHARS_WIDTH \in Nat
  <2> DEFINE i == line - 1
  <2>1. i \in Nat /\ i < CharLines
    BY <1>1
  <2> HIDE DEF i
  <2>2. i * CHARS_WIDTH + CHARS_WIDTH <= CharLines * CHARS_WIDTH /\ i * CHARS_WIDTH \in Nat
    BY <2>1, Numbers, Rows
  <2> QED
    BY <2>2 DEF i
<1>3. RowBytes = CharLines * CHARS_WIDTH
  BY Numbers, SMT
<1> DEFINE p == (line - 1) * CHARS_WIDTH
<1>4. p \in Nat /\ p + CHARS_WIDTH <= RowBytes
  BY <1>2, <1>3
<1> HIDE DEF p
<1>5. p + col < RowBytes
  BY <1>1, <1>4, Numbers, SMT
<1> QED
  BY <1>1, <1>4, <1>5 DEF p

LEMMA CellsApart ==
  ASSUME NEW row \in Lines, NEW col \in Columns, NEW line \in 1..CharLines,
         NEW v \in Lines, NEW u \in Columns, NEW k \in 1..CharLines,
         CellAddr(row, col, line) = CellAddr(v, u, k)
  PROVE  row = v /\ col = u /\ line = k
<1> DEFINE i == (line - 1) * CHARS_WIDTH + col
           j == (k - 1) * CHARS_WIDTH + u
<1>1. i \in Nat /\ i < RowBytes /\ j \in Nat /\ j < RowBytes
  <2>1. (line - 1) * CHARS_WIDTH \in Nat /\ col \in Nat /\ i < RowBytes
        /\ (k - 1) * CHARS_WIDTH \in Nat /\ u \in Nat /\ j < RowBytes
    BY InRow
  <2> QED
    BY <2>1, SMT
<1>2. row \in Nat /\ v \in Nat
  BY SMT DEF Lines
<1>3. row * RowBytes + i = v * RowBytes + j
  <2>1. row * RowBytes \in Nat /\ v * RowBytes \in Nat
    BY <1>2, Numbers, SMT
  <2>2. (line - 1) * CHARS_WIDTH \in Nat /\ col \in Nat /\ (k - 1) * CHARS_WIDTH \in Nat /\ u \in Nat
    BY InRow
  <2> DEFINE a == row * RowBytes
             b == v * RowBytes
             c == (line - 1) * CHARS_WIDTH
             d == (k - 1) * CHARS_WIDTH
  <2>3. VIDEO_ADDR + col + a + c = VIDEO_ADDR + u + b + d
    BY DEF CellAddr
  <2>4. a \in Nat /\ b \in Nat /\ c \in Nat /\ d \in Nat
    BY <2>1, <2>2
  <2> HIDE DEF a, b, c, d
  <2>5. a + (c + col) = b + (d + u)
    BY <2>2, <2>3, <2>4, Numbers, SMT
  <2> QED
    BY <2>5 DEF a, b, c, d
<1> HIDE DEF i, j
<1>4. row = v /\ i = j
  BY <1>1, <1>2, <1>3, Numbers, OneQuotient
<1>5. line - 1 = k - 1 /\ col = u
  <2> DEFINE p == line - 1
             q == k - 1
  <2>1. p \in Nat /\ q \in Nat /\ col \in Nat /\ col < CHARS_WIDTH /\ u \in Nat /\ u < CHARS_WIDTH
    BY InRow
  <2>2. p * CHARS_WIDTH + col = q * CHARS_WIDTH + u
    BY <1>4 DEF i, j
  <2> HIDE DEF p, q
  <2>3. p = q /\ col = u
    BY <2>1, <2>2, Numbers, OneQuotient
  <2> QED
    BY <2>3 DEF p, q
<1> QED
  BY <1>4, <1>5, Numbers, SMT

\* A tile is drawn on its own cell and on no other.
LEMMA TileCell ==
  ASSUME NEW chip \in Chips, NEW u \in Columns, NEW v \in Lines, NEW tile \in Tiles,
         NEW row \in Lines, NEW col \in Columns
  PROVE  Cell(video_put_tile(chip, u, v, tile), row, col) =
           IF row = v /\ col = u THEN tile ELSE Cell(chip, row, col)
<1> DEFINE lines(a) == {line \in 0..(CharLines - 1) : a = PixelAddr(u, v, line)}
           value(a) == IF lines(a) = {} THEN chip[a]
                       ELSE tile[1 + CHOOSE line \in lines(a) : TRUE]
<1>1. DOMAIN chip = Addr
  BY DEF Chips
<1>2. video_put_tile(chip, u, v, tile) = [a \in Addr |-> value(a)]
  BY <1>1 DEF video_put_tile
<1>3. \A line \in 0..(CharLines - 1) :
        line + 1 \in 1..CharLines /\ 1 + line = line + 1 /\ (line + 1) - 1 = line
  BY Numbers, SMT
<1>4. ASSUME NEW k \in 1..CharLines
      PROVE  value(CellAddr(row, col, k)) =
               IF row = v /\ col = u THEN tile[k] ELSE chip[CellAddr(row, col, k)]
  <2> DEFINE a == CellAddr(row, col, k)
  <2>1. ASSUME NEW line \in lines(a) PROVE row = v /\ col = u /\ 1 + line = k
    <3>1. line + 1 \in 1..CharLines /\ CellAddr(v, u, line + 1) = a
      <4>1. line \in 0..(CharLines - 1) /\ a = PixelAddr(u, v, line)
        OBVIOUS
      <4>2. line + 1 \in 1..CharLines /\ (line + 1) - 1 = line
        BY <1>3, <4>1
      <4>3. CellAddr(v, u, line + 1) = PixelAddr(u, v, (line + 1) - 1)
        BY <4>2, CellInVideo
      <4> QED
        BY <4>1, <4>2, <4>3
    <3>2. row = v /\ col = u /\ k = line + 1
      BY <3>1, CellsApart
    <3> QED
      BY <1>3, <3>2
  <2>2. CASE row = v /\ col = u
    <3>1. k - 1 \in lines(a)
      <4>1. k - 1 \in 0..(CharLines - 1)
        BY Numbers, SMT
      <4>2. a = PixelAddr(u, v, k - 1)
        BY <2>2, CellInVideo
      <4> QED
        BY <4>1, <4>2
    <3>2. (CHOOSE line \in lines(a) : TRUE) \in lines(a)
      BY <3>1, SMTT(30)
    <3>3. 1 + (CHOOSE line \in lines(a) : TRUE) = k
      BY <2>1, <3>2
    <3> HIDE DEF lines
    <3> QED
      BY <2>2, <3>1, <3>3
  <2>3. CASE ~(row = v /\ col = u)
    <3>1. lines(a) = {}
      BY <2>1, <2>3
    <3> HIDE DEF lines
    <3> QED
      BY <2>3, <3>1
  <2> QED
    BY <2>2, <2>3
<1> HIDE DEF value
<1>5. Cell(video_put_tile(chip, u, v, tile), row, col) =
        [k \in 1..CharLines |-> value(CellAddr(row, col, k))]
  BY <1>2, CellInVideo DEF Cell
<1>6. CASE row = v /\ col = u
  BY <1>4, <1>5, <1>6 DEF Tiles
<1>7. CASE ~(row = v /\ col = u)
  BY <1>4, <1>5, <1>7 DEF Cell
<1> QED
  BY <1>6, <1>7

LEMMA ZeroTile == Clear \in Tiles
BY ZeroByte DEF Clear, Tiles

LEMMA GlyphIsTile == \A c \in Byte : Font[c] \in Tiles
BY SyscallsAssumption DEF SyscallsAssumption, Tiles

\* Scrolling moves each row of cells up, and the last is clear.
LEMMA ScrollCell ==
  ASSUME NEW chip \in Chips, NEW row \in Lines, NEW col \in Columns
  PROVE  Cell(scroll_up(chip), row, col) =
           IF row + 1 \in Lines THEN Cell(chip, row + 1, col) ELSE Clear
<1> DEFINE value(a) == IF a \notin Video THEN chip[a]
                       ELSE IF a + RowBytes < VideoEnd THEN chip[a + RowBytes] ELSE 0
<1>1. DOMAIN chip = Addr
  BY DEF Chips
<1>2. scroll_up(chip) = [a \in Addr |-> value(a)]
  BY <1>1 DEF scroll_up
<1>3. row \in Nat /\ row < CHARS_HEIGHT
  BY Numbers, SMT DEF Lines
<1>4. ASSUME NEW k \in 1..CharLines
      PROVE  value(CellAddr(row, col, k)) =
               IF row + 1 \in Lines THEN chip[CellAddr(row + 1, col, k)] ELSE 0
  <2>1. CellAddr(row, col, k) \in Video
    BY CellInVideo
  <2>2. (k - 1) * CHARS_WIDTH \in Nat /\ col \in Nat
    BY InRow
  <2>3. (row + 1) * RowBytes = row * RowBytes + RowBytes /\ row * RowBytes \in Nat
    BY <1>3, Numbers, SMT
  <2>4. CellAddr(row + 1, col, k) = CellAddr(row, col, k) + RowBytes
    <3> DEFINE p == row * RowBytes
               q == (k - 1) * CHARS_WIDTH
    <3>1. CellAddr(row, col, k) = VIDEO_ADDR + col + p + q
          /\ CellAddr(row + 1, col, k) = VIDEO_ADDR + col + (p + RowBytes) + q
      BY <2>3 DEF CellAddr
    <3>2. p \in Nat /\ q \in Nat
      BY <2>2, <2>3
    <3> HIDE DEF p, q
    <3> QED
      BY <2>2, <3>1, <3>2, Numbers, SMT
  <2>5. CASE row + 1 \in Lines
    <3>1. CellAddr(row + 1, col, k) \in Video
      BY <2>5, CellInVideo
    <3>2. CellAddr(row, col, k) + RowBytes < VideoEnd
      BY <2>4, <3>1, Numbers, SMT DEF Video
    <3> QED
      BY <2>1, <2>4, <2>5, <3>2
  <2>6. CASE row + 1 \notin Lines
    <3>1. row + 1 = CHARS_HEIGHT
      BY <1>3, <2>6, Numbers, SMT DEF Lines
    <3>2. row * RowBytes + RowBytes = CHARS_HEIGHT * RowBytes
      BY <2>3, <3>1
    <3>3. ~(CellAddr(row, col, k) + RowBytes < VideoEnd)
      <4> DEFINE p == row * RowBytes
                 q == (k - 1) * CHARS_WIDTH
      <4>1. CellAddr(row, col, k) = VIDEO_ADDR + col + p + q /\ VideoEnd = VIDEO_ADDR + (p + RowBytes)
        BY <3>2, Numbers DEF CellAddr
      <4>2. p \in Nat /\ q \in Nat
        BY <2>2, <2>3
      <4> HIDE DEF p, q
      <4> QED
        BY <2>2, <4>1, <4>2, Numbers, SMT
    <3> QED
      BY <2>1, <2>6, <3>3
  <2> QED
    BY <2>5, <2>6
<1> HIDE DEF value
<1>5. Cell(scroll_up(chip), row, col) = [k \in 1..CharLines |-> value(CellAddr(row, col, k))]
  BY <1>2, CellInVideo DEF Cell
<1>6. CASE row + 1 \in Lines
  BY <1>4, <1>5, <1>6 DEF Cell
<1>7. CASE row + 1 \notin Lines
  BY <1>4, <1>5, <1>7 DEF Clear
<1> QED
  BY <1>6, <1>7

LEMMA Remainder ==
  ASSUME NEW m \in Nat, m > 0, NEW k \in Nat, NEW b \in Nat, b < m, NEW u \in Nat, u = k * m + b
  PROVE  u % m = b /\ u \div m = k
<1> DEFINE q == u \div m
           a == u % m
<1>1. q \in Int /\ a \in 0..(m - 1) /\ u = q * m + a
  BY SMT
<1>2. q >= 0
  BY SMT
<1> HIDE DEF q, a
<1>3. a \in Nat /\ a < m /\ q \in Nat
  BY <1>1, <1>2, SMT
<1>4. k = q /\ b = a
  BY <1>1, <1>3, OneQuotient
<1> QED
  BY <1>4 DEF q, a

\* Filling the screen draws the character on every cell.
LEMMA ClsCell ==
  ASSUME NEW chip \in Chips, NEW c \in Byte, NEW row \in Lines, NEW col \in Columns
  PROVE  Cell(video_cls(chip, c), row, col) = Font[c]
<1> DEFINE value(a) == IF a \in Video THEN Font[c][1 + ((a - VIDEO_ADDR) % RowBytes) \div CHARS_WIDTH]
                       ELSE chip[a]
<1>1. DOMAIN chip = Addr
  BY DEF Chips
<1>2. video_cls(chip, c) = [a \in Addr |-> value(a)]
  BY <1>1 DEF video_cls
<1>3. ASSUME NEW k \in 1..CharLines PROVE value(CellAddr(row, col, k)) = Font[c][k]
  <2> DEFINE a == CellAddr(row, col, k)
             i == (k - 1) * CHARS_WIDTH + col
  <2>1. a \in Video
    BY CellInVideo
  <2>2. (k - 1) * CHARS_WIDTH \in Nat /\ k - 1 \in Nat /\ col \in Nat /\ col < CHARS_WIDTH
        /\ i < RowBytes
    BY InRow
  <2>3. row \in Nat /\ row * RowBytes \in Nat
    BY Numbers, SMT DEF Lines
  <2>4. a - VIDEO_ADDR = row * RowBytes + i
    <3> DEFINE p == row * RowBytes
               q == (k - 1) * CHARS_WIDTH
    <3>1. a = VIDEO_ADDR + col + p + q /\ i = q + col
      BY DEF CellAddr
    <3>2. p \in Nat /\ q \in Nat
      BY <2>2, <2>3
    <3> HIDE DEF p, q, a, i
    <3>3. a - VIDEO_ADDR = p + i
      BY <2>2, <3>1, <3>2, Numbers, SMT
    <3> QED
      BY <3>3 DEF p
  <2>5. i \in Nat
    BY <2>2, SMT
  <2>6. RowBytes > 0
    BY <2>2, <2>5, Numbers, SMT
  <2>7. (a - VIDEO_ADDR) % RowBytes = i
    <3> DEFINE u == a - VIDEO_ADDR
               p == row * RowBytes
    <3>1. p \in Nat /\ u = p + i
      BY <2>3, <2>4
    <3> HIDE DEF a, i, u, p
    <3>2. u \in Nat
      BY <2>5, <3>1, SMT
    <3>3. u = row * RowBytes + i
      BY <3>1 DEF p
    <3>4. RowBytes \in Nat
      BY Numbers
    <3>5. u % RowBytes = i
      BY <2>2, <2>3, <2>5, <2>6, <3>2, <3>3, <3>4, Remainder
    <3> QED
      BY <3>5 DEF u
  <2>8. i \div CHARS_WIDTH = k - 1
    <3> DEFINE q == k - 1
    <3>1. i = q * CHARS_WIDTH + col /\ q \in Nat
      BY <2>2
    <3> HIDE DEF i, q
    <3>2. i \div CHARS_WIDTH = q
      BY <2>2, <3>1, Numbers, Remainder
    <3> QED
      BY <3>2 DEF q
  <2>9. 1 + (k - 1) = k
    BY SMT
  <2> HIDE DEF a, i
  <2> QED
    BY <2>1, <2>7, <2>8, <2>9 DEF a
<1> HIDE DEF value
<1>4. Cell(video_cls(chip, c), row, col) = [k \in 1..CharLines |-> value(CellAddr(row, col, k))]
  BY <1>2, CellInVideo DEF Cell
<1> QED
  BY <1>3, <1>4, GlyphIsTile DEF Tiles

\* What is written elsewhere leaves the cells as they are.
LEMMA OtherCells ==
  ASSUME NEW chip, NEW other, \A a \in Video : other[a] = chip[a],
         NEW row \in Lines, NEW col \in Columns
  PROVE  Cell(other, row, col) = Cell(chip, row, col)
<1>1. \A k \in 1..CharLines : other[CellAddr(row, col, k)] = chip[CellAddr(row, col, k)]
  BY CellInVideo
<1> QED
  BY <1>1 DEF Cell
-----------------------------------------------------------------------------
(* The roll of paper, for a text t of events and their places f on it.     *)

Places == [row : Nat, col : Columns, top : Nat]
Codes  == Byte \cup {NewLine}
Events ==
  [k : {"fill", "char"}, c : Codes] \cup [k : {"key"}, c : Byte]
    \cup [k : {"tile"}, rows : Tiles] \cup [k : {"at"}, x : Columns, y : Lines]

IsText(t) == t \in Seq(Events) /\ Len(t) >= 1 /\ t[1].k = "fill" /\ t[1].c \in Byte

Moved(p, e) ==
  CASE e.k = "char" -> Feed(Wrapped(Onwards(p, e.c)))
    [] e.k = "key"  -> Feed(Wrapped([p EXCEPT !.col = @ + 1]))
    [] e.k = "at"   -> MovedTo(p, e)
    [] e.k = "tile" -> p

Origin == [row |-> 0, col |-> 0, top |-> 0]

IsPaper(t, f) ==
  f = [n \in 1..Len(t) |-> IF n = 1 THEN Origin ELSE Moved(f[n - 1], t[n])]

\* The events that drew on a cell of the paper.
DrawnOn(t, f, row, col) ==
  {n \in 2..Len(t) : Draws(t[n]) /\ f[n - 1].row = row /\ f[n - 1].col = col}

Drawn(e) == IF e.k = "tile" THEN e.rows ELSE Font[e.c]
Blank(t, row) == IF row < CHARS_HEIGHT THEN Font[t[1].c] ELSE Clear

\* A cell of the paper shows the last thing drawn on it.
Shows(t, f, row, col, tile) ==
  \/ DrawnOn(t, f, row, col) = {} /\ tile = Blank(t, row)
  \/ \E n \in DrawnOn(t, f, row, col) :
       (\A other \in DrawnOn(t, f, row, col) : other <= n) /\ tile = Drawn(t[n])

\* The screen is the window on the paper, and nothing is on the paper below it.
OnPaper(t, f, chip, u, v, p) ==
  LET end == f[Len(t)]
  IN  /\ IsText(t) /\ IsPaper(t, f) /\ f \in [1..Len(t) -> Places]
      /\ v \in Lines /\ u = end.col /\ end.row = end.top + v
      /\ \A n \in 1..Len(t) : f[n].row < end.top + CHARS_HEIGHT
      /\ p => \A row \in Lines, col \in Columns :
                Shows(t, f, end.top + row, col, Cell(chip, row, col))

\* The cell of a screen after event e, that scrolled it by d lines.
Redrawn(chip, e, u, v, d, row, col) ==
  IF Draws(e) /\ row + d = v /\ col = u THEN Drawn(e)
  ELSE IF row + d \in Lines THEN Cell(chip, row + d, col) ELSE Clear

\* The next event, e, takes the paper to next and the screen to chip2.
Continues(end, chip, u, v, p, e, next, d, chip2, v2, p2) ==
  /\ e \in Events /\ e.k # "fill" /\ next = Moved(end, e) /\ next \in Places
  /\ d \in {0, 1} /\ next.top = end.top + d
  /\ v2 \in Lines /\ next.row = next.top + v2
  /\ p2 => p /\ \A row \in Lines, col \in Columns :
                  Cell(chip2, row, col) = Redrawn(chip, e, u, v, d, row, col)

LEMMA NextEvent ==
  ASSUME NEW t, NEW f, NEW chip, NEW u, NEW v, NEW p, OnPaper(t, f, chip, u, v, p),
         NEW e, NEW next, NEW d, NEW chip2, NEW v2, NEW p2,
         Continues(f[Len(t)], chip, u, v, p, e, next, d, chip2, v2, p2)
  PROVE  \E g : OnPaper(Append(t, e), g, chip2, next.col, v2, p2)
<1> USE DEF Continues
<1> DEFINE m == Len(t)
           end == f[m]
           t2 == Append(t, e)
           g == [n \in 1..(m + 1) |-> IF n = m + 1 THEN next ELSE f[n]]
<1>0. CHARS_HEIGHT \in Nat
  BY Numbers
<1>1. /\ t \in Seq(Events) /\ t[1].k = "fill" /\ t[1].c \in Byte /\ m \in Nat /\ m >= 1
      /\ IsPaper(t, f) /\ f \in [1..m -> Places]
      /\ v \in Lines /\ u = end.col /\ end.row = end.top + v
      /\ \A n \in 1..m : f[n].row < end.top + CHARS_HEIGHT
      /\ p => \A row \in Lines, col \in Columns :
                Shows(t, f, end.top + row, col, Cell(chip, row, col))
  BY LenProperties DEF OnPaper, IsText
<1>2. t2 \in Seq(Events) /\ Len(t2) = m + 1 /\ t2[m + 1] = e /\ \A n \in 1..m : t2[n] = t[n]
  BY <1>1, AppendProperties
<1>3. /\ 1 \in 1..m /\ m \in 1..m /\ m + 1 # 1 /\ m + 1 \in 1..(m + 1)
      /\ \A n \in 1..m : n \in 1..(m + 1) /\ n # m + 1
      /\ \A n \in 1..(m + 1) : n # m + 1 => n \in 1..m
      /\ \A n \in 1..(m + 1) : n # 1 => n - 1 \in 1..m
      /\ (m + 1) - 1 = m
      /\ \A n \in 2..(m + 1) : n \in 1..(m + 1) /\ n # 1 /\ n <= m + 1
      /\ \A n \in 2..m : n \in 1..m /\ n \in 2..(m + 1)
      /\ \A n \in 2..(m + 1) : n # m + 1 => n \in 2..m
      /\ m + 1 \in 2..(m + 1)
  BY <1>1, SMT
<1> HIDE DEF m, t2
<1>4. /\ g[m + 1] = next /\ \A n \in 1..m : g[n] = f[n]
  BY <1>3
<1>5. g = [n \in 1..Len(t2) |-> IF n = 1 THEN Origin ELSE Moved(g[n - 1], t2[n])]
  <2>1. ASSUME NEW n \in 1..(m + 1)
        PROVE  g[n] = IF n = 1 THEN Origin ELSE Moved(g[n - 1], t2[n])
    <3>1. CASE n = m + 1
      BY <1>1, <1>2, <1>3, <1>4, <3>1 DEF m
    <3>2. CASE n # m + 1
      <4>1. n \in 1..m /\ g[n] = f[n] /\ t2[n] = t[n] /\ (n # 1 => g[n - 1] = f[n - 1])
        BY <1>2, <1>3, <1>4, <3>2, SMTT(30)
      <4>2. f[n] = IF n = 1 THEN Origin ELSE Moved(f[n - 1], t[n])
        BY <1>1, <4>1 DEF IsPaper, m
      <4> QED
        BY <4>1, <4>2
    <3> QED
      BY <3>1, <3>2
  <2> QED
    BY <1>2, <2>1, SMTT(30)
<1>6. g \in [1..(m + 1) -> Places]
  BY <1>1, <1>3
<1> HIDE DEF g
<1>7. /\ end \in Places /\ next \in Places /\ d \in Nat /\ next.top = end.top + d
      /\ v \in Nat /\ v2 \in Nat /\ v2 < CHARS_HEIGHT /\ end.top \in Nat /\ next.top \in Nat
  <2>1. end \in Places
    BY <1>1, <1>3
  <2> QED
    BY <1>1, <2>1, Numbers, SMTT(30) DEF Places, Lines, m
<1>8. ASSUME NEW n \in 1..(m + 1) PROVE g[n].row < next.top + CHARS_HEIGHT
  <2>1. CASE n = m + 1
    <3>1. g[n].row = next.row /\ next.row = next.top + v2
      BY <1>4, <2>1
    <3> QED
      BY <1>7, <3>1, <1>0, SMT
  <2>2. CASE n # m + 1
    <3>1. n \in 1..m /\ g[n] = f[n] /\ f[n] \in Places
      BY <1>1, <1>3, <1>4, <2>2
    <3>2. g[n].row = f[n].row /\ f[n].row \in Nat /\ f[n].row < end.top + CHARS_HEIGHT
      BY <1>1, <3>1 DEF Places
    <3> DEFINE a == end.top
               b == next.top
               r == f[n].row
    <3>3. a \in Nat /\ d \in Nat /\ b = a + d /\ r \in Nat /\ r < a + CHARS_HEIGHT
          /\ g[n].row = r
      BY <1>7, <3>2
    <3> HIDE DEF a, b, r
    <3>4. r < b + CHARS_HEIGHT
      BY <1>0, <3>3, SMT
    <3> QED
      BY <3>3, <3>4 DEF b
  <2> QED
    BY <2>1, <2>2
<1>9. ASSUME p2, NEW row \in Lines, NEW col \in Columns
      PROVE  Shows(t2, g, next.top + row, col, Cell(chip2, row, col))
  <2> DEFINE r == next.top + row
             old == DrawnOn(t, f, r, col)
             new == DrawnOn(t2, g, r, col)
             tile == Cell(chip2, row, col)
  <2>1. row \in Nat /\ row < CHARS_HEIGHT /\ r = end.top + (row + d)
    <3>1. row \in Nat /\ row < CHARS_HEIGHT
      BY Numbers, SMT DEF Lines
    <3> HIDE DEF end
    <3> QED
      BY <1>7, <3>1, SMT
  <2>2. p /\ tile = Redrawn(chip, e, u, v, d, row, col)
    BY <1>9
  <2>3. end.row = r <=> row + d = v
    <3> DEFINE a == end.top
               b == end.row
    <3>1. b = a + v /\ r = a + (row + d) /\ a \in Nat /\ v \in Nat /\ d \in Nat
      BY <1>1, <1>7, <2>1
    <3> HIDE DEF a, b, r
    <3>2. b = r <=> row + d = v
      BY <2>1, <3>1, SMT
    <3> QED
      BY <3>2 DEF b
  <2> HIDE DEF r
  <2>4. \A n : n \in new <=> n \in old \/ (n = m + 1 /\ Draws(e) /\ row + d = v /\ col = u)
    <3>1. \A n \in 2..(m + 1) :
            /\ n # m + 1 => n \in 2..m /\ t2[n] = t[n] /\ g[n - 1] = f[n - 1]
            /\ n = m + 1 => t2[n] = e /\ g[n - 1] = end
      BY <1>2, <1>3, <1>4
    <3>2. \A n \in 2..m : n # m + 1
      BY <1>3
    <3>3. ASSUME NEW n
          PROVE  n \in new <=> /\ n \in 2..(m + 1) /\ Draws(t2[n]) /\ g[n - 1].row = r
                               /\ g[n - 1].col = col
      BY <1>2 DEF DrawnOn
    <3>4. ASSUME NEW n
          PROVE  n \in old <=> /\ n \in 2..m /\ Draws(t[n]) /\ f[n - 1].row = r
                               /\ f[n - 1].col = col
      BY DEF DrawnOn, m
    <3> HIDE DEF old, new, end
    <3>5. ASSUME NEW n \in 2..(m + 1), n # m + 1 PROVE n \in new <=> n \in old
      BY <3>1, <3>3, <3>4, <3>5
    <3>6. m + 1 \in new <=> Draws(e) /\ row + d = v /\ col = u
      BY <1>1, <1>3, <2>3, <3>1, <3>3 DEF end
    <3>7. \A n \in old : n \in 2..(m + 1) /\ n # m + 1
      BY <1>3, <3>2, <3>4
    <3> QED
      BY <3>3, <3>5, <3>6, <3>7
  <2>5. CASE Draws(e) /\ row + d = v /\ col = u
    <3>1. m + 1 \in new /\ tile = Drawn(t2[m + 1])
      BY <1>2, <2>2, <2>4, <2>5 DEF Redrawn
    <3>2. \A other \in new : other <= m + 1
      <4>1. \A other \in new : other \in 2..(m + 1)
        BY <1>2 DEF DrawnOn
      <4> QED
        BY <1>3, <4>1
    <3> QED
      BY <3>1, <3>2 DEF Shows, r
  <2>6. CASE ~(Draws(e) /\ row + d = v /\ col = u)
    <3>1. new = old
      <4> HIDE DEF new, old
      <4> QED
        BY <2>4, <2>6
    <3>2. t2[1] = t[1] /\ \A n \in old : t2[n] = t[n]
      BY <1>2, <1>3 DEF DrawnOn, m
    <3>3. CASE row + d \in Lines
      <4>1. tile = Cell(chip, row + d, col)
        BY <2>2, <2>6, <3>3 DEF Redrawn
      <4>2. Shows(t, f, r, col, tile)
        BY <1>1, <2>1, <2>2, <3>3, <4>1
      <4> QED
        BY <3>1, <3>2, <4>2 DEF Shows, Blank, r
    <3>4. CASE row + d \notin Lines
      <4>1. tile = Clear
        BY <2>2, <2>6, <3>4 DEF Redrawn
      <4>2. row + d >= CHARS_HEIGHT
        BY <1>7, <2>1, <3>4, Numbers, SMT DEF Lines
      <4>3. old = {}
        <5>1. ASSUME NEW n \in old PROVE FALSE
          <6>1. n \in 2..m /\ f[n - 1].row = r
            BY DEF DrawnOn, m
          <6>2. n - 1 \in 1..m
            BY <1>3, <6>1
          <6>3. f[n - 1].row < end.top + CHARS_HEIGHT /\ f[n - 1].row \in Nat
            BY <1>1, <6>2 DEF Places
          <6> HIDE DEF end
          <6> QED
            BY <1>7, <2>1, <4>2, <6>1, <6>3, Numbers, SMTT(30)
        <5> QED
          BY <5>1
      <4>4. ~(r < CHARS_HEIGHT)
        <5> HIDE DEF end
        <5> QED
          BY <1>7, <2>1, <4>2, Numbers, SMT
      <4> QED
        BY <3>1, <4>1, <4>3, <4>4 DEF Shows, Blank, r
    <3> QED
      BY <3>3, <3>4
  <2> QED
    BY <2>5, <2>6
<1>10. IsText(t2)
  BY <1>1, <1>2, <1>3, SMT DEF IsText
<1>11. IsPaper(t2, g)
  BY <1>5 DEF IsPaper
<1>12. OnPaper(t2, g, chip2, next.col, v2, p2)
  BY <1>2, <1>4, <1>6, <1>8, <1>9, <1>10, <1>11 DEF OnPaper
<1> QED
  BY <1>12 DEF t2
-----------------------------------------------------------------------------
(* put_char, on the screen and on the paper.                               *)

\* con2 shows what con did, d lines further, and its cursor is at place p.
Scrolled(con, con2, p, d) ==
  /\ con2.x = p.col /\ con2.y \in Lines /\ p.row = p.top + con2.y
  /\ \A row \in Lines, col \in Columns :
       Cell(con2.chip, row, col) =
         IF row + d \in Lines THEN Cell(con.chip, row + d, col) ELSE Clear

LEMMA LineFeedPrinted ==
  ASSUME NEW con, con.chip \in Chips, con.y \in Lines,
         NEW r \in Nat, NEW tp \in Nat, r = tp + con.y + 1,
         NEW q, q = [row |-> r, col |-> 0, top |-> tp]
  PROVE  /\ Feed(q) \in Places
         /\ \E d \in {0, 1} : Feed(q).top = tp + d /\ Scrolled(con, LineFeed(con), Feed(q), d)
<1>1. CHARS_HEIGHT \in Nat /\ CHARS_HEIGHT > 0 /\ con.y \in Nat /\ con.y < CHARS_HEIGHT /\ 0 \in Columns
  BY Numbers, SMT DEF Lines, Columns
<1>2. Feed(q) = [row |-> r, col |-> 0, top |-> Larger(tp, r - CHARS_HEIGHT + 1)]
  BY DEF Feed
<1>3. CASE con.y + 1 > LastRow
  <2>1. LineFeed(con) = [chip |-> scroll_up(con.chip), x |-> 0, y |-> con.y]
    BY <1>3 DEF LineFeed
  <2>2. con.y + 1 = CHARS_HEIGHT
    BY <1>1, <1>3, SMT DEF LastRow
  <2>3. Larger(tp, r - CHARS_HEIGHT + 1) = tp + 1
    BY <1>1, <2>2, SMT DEF Larger
  <2>4. Feed(q) = [row |-> r, col |-> 0, top |-> tp + 1] /\ tp + 1 \in Nat
        /\ r = (tp + 1) + con.y
    BY <1>1, <1>2, <2>3, SMT
  <2>5. Feed(q) \in Places
    BY <1>1, <2>4 DEF Places
  <2>6. Scrolled(con, LineFeed(con), Feed(q), 1)
    BY <2>1, <2>4, ScrollCell DEF Scrolled
  <2> QED
    BY <2>4, <2>5, <2>6
<1>4. CASE ~(con.y + 1 > LastRow)
  <2>1. LineFeed(con) = [chip |-> con.chip, x |-> 0, y |-> con.y + 1]
    BY <1>4 DEF LineFeed
  <2>2. con.y + 1 \in Lines /\ con.y + 1 < CHARS_HEIGHT
    BY <1>1, <1>4, SMT DEF LastRow, Lines
  <2>3. Larger(tp, r - CHARS_HEIGHT + 1) = tp
    BY <1>1, <2>2, SMT DEF Larger
  <2>4. Feed(q) = [row |-> r, col |-> 0, top |-> tp] /\ tp + 0 = tp
        /\ r = tp + (con.y + 1)
    BY <1>1, <1>2, <2>3, SMT
  <2>5. Feed(q) \in Places
    BY <1>1, <2>4 DEF Places
  <2>6. \A row \in Lines : row + 0 = row
    BY SMT DEF Lines
  <2>7. Scrolled(con, LineFeed(con), Feed(q), 0)
    BY <2>1, <2>2, <2>4, <2>6 DEF Scrolled
  <2> QED
    BY <2>4, <2>5, <2>7
<1> QED
  BY <1>3, <1>4

\* A cursor on the screen stays, and one past the right edge goes to the next line.
LEMMA SettledPrinted ==
  ASSUME NEW con, con.chip \in Chips, con.x \in Nat, con.y \in Lines,
         NEW r \in Nat, NEW tp \in Nat, r = tp + con.y,
         NEW q, q = [row |-> r, col |-> con.x, top |-> tp]
  PROVE  /\ Feed(Wrapped(q)) \in Places
         /\ \E d \in {0, 1} : /\ Feed(Wrapped(q)).top = tp + d
                              /\ Scrolled(con, Settled(con), Feed(Wrapped(q)), d)
<1>1. CHARS_WIDTH \in Nat /\ CHARS_HEIGHT \in Nat /\ con.y \in Nat /\ con.y < CHARS_HEIGHT
  BY Numbers, SMT DEF Lines
<1>2. CASE PastEdge(con.x)
  <2>1. Settled(con) = LineFeed(con)
    BY <1>2 DEF Settled
  <2>2. ~(q.col < CHARS_WIDTH)
    BY <1>1, <1>2, SMT DEF PastEdge
  <2> DEFINE s == r + 1
  <2>3. s \in Nat /\ s = tp + con.y + 1 /\ q.row + 1 = s
    OBVIOUS
  <2> HIDE DEF s
  <2>4. Wrapped(q) = [row |-> s, col |-> 0, top |-> tp]
    BY <2>2, <2>3 DEF Wrapped
  <2> QED
    BY <2>1, <2>3, <2>4, LineFeedPrinted
<1>3. CASE ~PastEdge(con.x)
  <2>1. Settled(con) = con
    BY <1>3 DEF Settled
  <2>2. con.x < CHARS_WIDTH /\ con.x \in Columns
    BY <1>1, <1>3, SMT DEF PastEdge, Columns
  <2>3. Wrapped(q) = q
    BY <2>2 DEF Wrapped
  <2>4. Feed(q) = [row |-> r, col |-> con.x, top |-> Larger(tp, r - CHARS_HEIGHT + 1)]
    BY DEF Feed
  <2>5. Larger(tp, r - CHARS_HEIGHT + 1) = tp /\ tp + 0 = tp
    BY <1>1, SMT DEF Larger
  <2>6. Feed(Wrapped(q)) = [row |-> r, col |-> con.x, top |-> tp]
    BY <2>3, <2>4, <2>5
  <2>7. \A row \in Lines : row + 0 = row
    BY SMT DEF Lines
  <2>8. Feed(Wrapped(q)) \in Places
    BY <2>2, <2>6 DEF Places
  <2>9. Scrolled(con, Settled(con), Feed(Wrapped(q)), 0)
    BY <2>1, <2>6, <2>7 DEF Scrolled
  <2> QED
    BY <2>5, <2>6, <2>8, <2>9
<1> QED
  BY <1>2, <1>3

\* The next stop of the tabulator is one place on the paper.
LEMMA TabIsNext ==
  ASSUME NEW col \in Nat
  PROVE  /\ NextTab(col) \in Nat
         /\ NextTab(col) = CHOOSE t \in (col + 1)..(col + TabStop) : t % TabStop = 0
<1> DEFINE q == col \div TabStop
           s == col % TabStop
           next == (q + 1) * TabStop
<1>1. TabStop \in Nat /\ TabStop > 0
  BY Numbers
<1>2. q \in Int /\ s \in 0..(TabStop - 1) /\ col = q * TabStop + s
  BY <1>1, SMT
<1>3. q >= 0
  BY <1>1, SMT
<1>4. NextTab(col) = next
  BY DEF NextTab
<1> HIDE DEF q, s
<1>5. q \in Nat /\ s \in Nat /\ s < TabStop /\ q + 1 \in Nat
  BY <1>1, <1>2, <1>3, SMT
<1>6. next = q * TabStop + TabStop /\ q * TabStop \in Nat
  BY <1>1, <1>5, SMT
<1>7. next \in Nat /\ next \in (col + 1)..(col + TabStop)
  <2> DEFINE p == q * TabStop
  <2>1. p \in Nat /\ next = p + TabStop /\ col = p + s
    BY <1>2, <1>6
  <2> HIDE DEF p, next
  <2> QED
    BY <1>1, <1>5, <2>1, SMT
<1>8. next % TabStop = 0
  <2> DEFINE k == q + 1
  <2>1. k \in Nat /\ next = k * TabStop + 0 /\ 0 \in Nat /\ 0 < TabStop
    BY <1>1, <1>5, <1>7, SMT
  <2> HIDE DEF k, next
  <2> QED
    BY <1>1, <1>7, <2>1, Remainder
<1>9. ASSUME NEW t \in (col + 1)..(col + TabStop), t % TabStop = 0 PROVE t = next
  <2> DEFINE k == t \div TabStop
             b == t % TabStop
  <2>1. t \in Nat /\ col < t /\ t <= col + TabStop
    BY <1>1, SMT
  <2>2. k \in Int /\ b \in 0..(TabStop - 1) /\ t = k * TabStop + b
    BY <1>1, <2>1, SMT
  <2>3. k >= 0
    BY <1>1, <2>1, SMT
  <2>4. b = 0
    BY <1>9
  <2> HIDE DEF k, b
  <2>5. k \in Nat /\ t = k * TabStop /\ k * TabStop \in Nat
    BY <1>1, <2>2, <2>3, <2>4, SMT
  <2> DEFINE p == q * TabStop
             w == k * TabStop
  <2>6. p \in Nat /\ w \in Nat /\ t = w /\ next = p + TabStop /\ col = p + s
    BY <1>2, <1>6, <2>5
  <2>7. CASE k < q + 1
    <3>1. k < q \/ k = q
      BY <1>5, <2>5, <2>7, SMT
    <3>2. w <= p
      <4>1. CASE k = q
        BY <2>6, <4>1, SMT
      <4>2. CASE k < q
        <5>1. w + TabStop <= p
          BY <1>1, <1>5, <2>5, <4>2, Rows
        <5> HIDE DEF w, p
        <5> QED
          BY <1>1, <2>6, <5>1, SMT
      <4> QED
        BY <3>1, <4>1, <4>2
    <3> HIDE DEF w, p, next
    <3> QED
      BY <1>1, <1>5, <2>1, <2>6, <3>2, SMT
  <2>8. CASE q + 1 < k
    <3>1. next + TabStop <= w
      <4> DEFINE j == q + 1
      <4>1. j \in Nat /\ j < k
        BY <1>5, <2>8
      <4> HIDE DEF j
      <4>2. j * TabStop + TabStop <= w
        BY <1>1, <2>5, <4>1, Rows
      <4> QED
        BY <4>2 DEF j
    <3> HIDE DEF w, p, next
    <3> QED
      BY <1>1, <1>5, <2>1, <2>6, <3>1, SMT
  <2>9. CASE k = q + 1
    BY <2>5, <2>9
  <2> QED
    BY <1>5, <2>5, <2>7, <2>8, <2>9, SMT
<1> HIDE DEF next
<1>10. next = CHOOSE t \in (col + 1)..(col + TabStop) : t % TabStop = 0
  BY <1>7, <1>8, <1>9
<1> QED
  BY <1>4, <1>7, <1>10

\* The console con2 and the paper after event e, which takes them from con and p.
FollowsOn(p, con, e, con2) ==
  /\ Moved(p, e) \in Places
  /\ con2.x = Moved(p, e).col /\ con2.y \in Lines
  /\ Moved(p, e).row = Moved(p, e).top + con2.y
  /\ \E d \in {0, 1} :
       /\ Moved(p, e).top = p.top + d
       /\ \A row \in Lines, col \in Columns :
            Cell(con2.chip, row, col) = Redrawn(con.chip, e, con.x, con.y, d, row, col)

\* A character that is drawn, and the cursor goes on by a cell.
LEMMA GlyphPrinted ==
  ASSUME NEW con \in [chip : Chips, x : Columns, y : Lines], NEW c \in Byte,
         NEW p \in Places, p.col = con.x, p.row = p.top + con.y,
         NEW e, Draws(e), Drawn(e) = Font[c],
         Moved(p, e) = Feed(Wrapped([p EXCEPT !.col = @ + 1]))
  PROVE  FollowsOn(p, con, e, Settled(Shown(con, c)))
<1> DEFINE r == p.row
           tp == p.top
           q == [row |-> r, col |-> con.x + 1, top |-> tp]
           t == Shown(con, c)
<1>1. /\ p = [row |-> r, col |-> con.x, top |-> tp] /\ r \in Nat /\ tp \in Nat /\ r = tp + con.y
      /\ con.chip \in Chips /\ con.x \in Columns /\ con.y \in Lines
  BY DEF Places
<1>2. con.x \in Nat /\ con.x + 1 \in Nat
  BY <1>1, Numbers, SMT DEF Columns
<1> HIDE DEF r, tp
<1>3. [p EXCEPT !.col = @ + 1] = q
  BY <1>1
<1>4. t.chip = video_put_char(con.chip, con.x, con.y, c) /\ t.x = con.x + 1 /\ t.y = con.y
  BY DEF Shown
<1>5. t.chip \in Chips
  BY <1>1, <1>4, CharDraws
<1> HIDE DEF t
<1>6. q = [row |-> r, col |-> t.x, top |-> tp] /\ t.x \in Nat /\ t.y \in Lines /\ r = tp + t.y
  BY <1>1, <1>2, <1>4
<1> HIDE DEF q
<1>7. Feed(Wrapped(q)) \in Places
  BY <1>1, <1>5, <1>6, SettledPrinted
<1>8. PICK d \in {0, 1} : Feed(Wrapped(q)).top = tp + d
                         /\ Scrolled(t, Settled(t), Feed(Wrapped(q)), d)
  BY <1>1, <1>5, <1>6, SettledPrinted
<1>9. Moved(p, e) = Feed(Wrapped(q))
  BY <1>3
<1>10. ASSUME NEW row \in Lines, NEW col \in Columns
       PROVE  Cell(Settled(t).chip, row, col) = Redrawn(con.chip, e, con.x, con.y, d, row, col)
  <2>1. Cell(Settled(t).chip, row, col) =
          IF row + d \in Lines THEN Cell(t.chip, row + d, col) ELSE Clear
    BY <1>8 DEF Scrolled
  <2>2. CASE row + d \in Lines
    <3>1. Cell(t.chip, row + d, col) =
            IF row + d = con.y /\ col = con.x THEN Font[c] ELSE Cell(con.chip, row + d, col)
      BY <1>1, <1>4, <2>2, TileCell, GlyphIsTile DEF video_put_char
    <3> QED
      BY <2>1, <2>2, <3>1 DEF Redrawn
  <2>3. CASE row + d \notin Lines
    <3>1. row + d # con.y
      BY <1>1, <2>3
    <3> QED
      BY <2>1, <2>3, <3>1 DEF Redrawn
  <2> QED
    BY <2>2, <2>3
<1> QED
  BY <1>7, <1>8, <1>9, <1>10 DEF Scrolled, FollowsOn, t, tp

LEMMA PutCharPrinted ==
  ASSUME NEW con \in [chip : Chips, x : Columns, y : Lines], NEW c \in Codes,
         NEW p \in Places, p.col = con.x, p.row = p.top + con.y
  PROVE  FollowsOn(p, con, Char(c), put_char(con, c))
<1> DEFINE e == Char(c)
           r == p.row
           tp == p.top
<1>1. e.k = "char" /\ e.c = c /\ Drawn(e) = Font[c] /\ (Draws(e) <=> c \notin {NewLine, Tab})
  BY DEF Char, Drawn, Draws
<1>2. Moved(p, e) = Feed(Wrapped(Onwards(p, c)))
  BY <1>1 DEF Moved
<1>3. /\ p = [row |-> r, col |-> con.x, top |-> tp] /\ r \in Nat /\ tp \in Nat /\ r = tp + con.y
      /\ con.chip \in Chips /\ con.x \in Columns /\ con.y \in Lines
  BY DEF Places
<1>4. con.x \in Nat /\ con.x + 1 \in Nat /\ con.y \in Nat /\ 0 < CHARS_WIDTH
  BY <1>3, Numbers, SMT DEF Columns, Lines
<1> HIDE DEF e, r, tp
<1>5. CASE c = NewLine
  <2> DEFINE s == r + 1
             q == [row |-> s, col |-> 0, top |-> tp]
  <2>0. s \in Nat /\ s = tp + con.y + 1 /\ p.row + 1 = s
    BY <1>3, <1>4, SMT DEF r
  <2> HIDE DEF s
  <2>1. Onwards(p, c) = q
    <3>1. Onwards(p, c) = [p EXCEPT !.row = @ + 1, !.col = 0]
      BY <1>5 DEF Onwards, NewLine, Tab
    <3>2. Onwards(p, c) = [p EXCEPT !.row = s, !.col = 0]
      BY <2>0, <3>1
    <3> QED
      BY <1>3, <3>2
  <2>2. Wrapped(q) = q
    BY <1>4 DEF Wrapped
  <2>3. put_char(con, c) = Settled(LineFeed(con))
    BY <1>5 DEF put_char, NewLine, Tab
  <2>4. Settled(LineFeed(con)) = LineFeed(con)
    <3>1. LineFeed(con).x = 0
      BY DEF LineFeed
    <3>2. ~PastEdge(0)
      BY Numbers, SMT DEF PastEdge
    <3> QED
      BY <3>1, <3>2 DEF Settled
  <2>5. PICK d \in {0, 1} : Feed(q).top = tp + d /\ Scrolled(con, LineFeed(con), Feed(q), d)
    BY <1>3, <2>0, LineFeedPrinted
  <2>6. Feed(q) \in Places
    BY <1>3, <2>0, LineFeedPrinted
  <2>7. ~Draws(e)
    BY <1>1, <1>5
  <2> HIDE DEF q
  <2>8. Moved(p, e) = Feed(q) /\ put_char(con, c) = LineFeed(con)
    BY <1>2, <2>1, <2>2, <2>3, <2>4
  <2> QED
    BY <2>5, <2>6, <2>7, <2>8 DEF Scrolled, Redrawn, FollowsOn, e, tp
<1>6. CASE c = Tab
  <2> DEFINE q == [row |-> r, col |-> NextTab(con.x), top |-> tp]
             t == [con EXCEPT !.x = NextTab(@)]
  <2>1. NextTab(con.x) \in Nat
        /\ NextTab(con.x) = CHOOSE k \in (con.x + 1)..(con.x + TabStop) : k % TabStop = 0
    BY <1>4, TabIsNext
  <2>2. Onwards(p, c) = q
    <3>1. Onwards(p, c) = [p EXCEPT !.col = CHOOSE k \in (@ + 1)..(@ + TabStop) : k % TabStop = 0]
      BY <1>6 DEF Onwards, NewLine, Tab
    <3>2. Onwards(p, c) = [p EXCEPT !.col = NextTab(con.x)]
      BY <1>3, <2>1, <3>1
    <3> QED
      BY <1>3, <3>2
  <2>3. t.chip = con.chip /\ t.x = NextTab(con.x) /\ t.y = con.y
    OBVIOUS
  <2>4. put_char(con, c) = Settled(t)
    BY <1>6 DEF put_char, NewLine, Tab
  <2> HIDE DEF t
  <2>5. q = [row |-> r, col |-> t.x, top |-> tp] /\ t.x \in Nat /\ t.chip \in Chips /\ t.y \in Lines
        /\ r = tp + t.y
    BY <1>3, <2>1, <2>3
  <2> HIDE DEF q
  <2>6. Feed(Wrapped(q)) \in Places
    BY <1>3, <2>5, SettledPrinted
  <2>7. PICK d \in {0, 1} : Feed(Wrapped(q)).top = tp + d
                           /\ Scrolled(t, Settled(t), Feed(Wrapped(q)), d)
    BY <1>3, <2>5, SettledPrinted
  <2>8. ~Draws(e)
    BY <1>1, <1>6
  <2>9. Moved(p, e) = Feed(Wrapped(q))
    BY <1>2, <2>2
  <2> QED
    BY <2>3, <2>4, <2>6, <2>7, <2>8, <2>9 DEF Scrolled, Redrawn, FollowsOn, e, tp
<1>7. CASE c # NewLine /\ c # Tab
  <2>1. Onwards(p, c) = [p EXCEPT !.col = @ + 1]
    BY <1>7 DEF Onwards
  <2>2. put_char(con, c) = Settled(Shown(con, c))
    BY <1>7 DEF put_char
  <2>3. c \in Byte
    BY <1>7 DEF Codes
  <2>4. Draws(e) /\ Drawn(e) = Font[c] /\ Moved(p, e) = Feed(Wrapped([p EXCEPT !.col = @ + 1]))
    BY <1>1, <1>2, <1>7, <2>1
  <2>5. FollowsOn(p, con, e, Settled(Shown(con, c)))
    BY <2>3, <2>4, GlyphPrinted
  <2> QED
    BY <2>2, <2>5 DEF FollowsOn, e
<1> QED
  BY <1>5, <1>6, <1>7
-----------------------------------------------------------------------------
(* The events, one by one.                                                 *)

LEMMA EndOfPaper ==
  ASSUME NEW t, NEW f, NEW chip, NEW u, NEW v, NEW p, OnPaper(t, f, chip, u, v, p)
  PROVE  /\ f[Len(t)] \in Places /\ f[Len(t)].col = u /\ f[Len(t)].row = f[Len(t)].top + v
         /\ u \in Columns /\ v \in Lines
<1>1. Len(t) \in Nat /\ Len(t) >= 1
  BY LenProperties DEF OnPaper, IsText
<1>2. Len(t) \in 1..Len(t)
  BY <1>1, SMT
<1>3. f[Len(t)] \in Places
  BY <1>2 DEF OnPaper
<1> QED
  BY <1>3 DEF OnPaper, Places

\* A character.
LEMMA CharPrinted ==
  ASSUME NEW t, NEW f, NEW chip \in Chips, NEW u, NEW v, NEW p, OnPaper(t, f, chip, u, v, p),
         NEW c \in Codes, NEW con, con = [chip |-> chip, x |-> u, y |-> v]
  PROVE  \E g : OnPaper(Append(t, Char(c)), g, put_char(con, c).chip, put_char(con, c).x,
                        put_char(con, c).y, p)
<1> DEFINE end == f[Len(t)]
           e == Char(c)
           next == Moved(end, e)
           con2 == put_char(con, c)
<1>1. end \in Places /\ end.col = u /\ end.row = end.top + v /\ u \in Columns /\ v \in Lines
  BY EndOfPaper
<1>2. e \in Events /\ e.k # "fill"
  BY DEF Char, Events
<1>3. con \in [chip : Chips, x : Columns, y : Lines] /\ con.chip = chip /\ con.x = u /\ con.y = v
  BY <1>1
<1> HIDE DEF end
<1>4. /\ next \in Places /\ con2.x = next.col /\ con2.y \in Lines /\ next.row = next.top + con2.y
  BY <1>1, <1>3, PutCharPrinted DEF FollowsOn
<1>5. PICK d \in {0, 1} :
        /\ next.top = end.top + d
        /\ \A row \in Lines, col \in Columns :
             Cell(con2.chip, row, col) = Redrawn(chip, e, u, v, d, row, col)
  BY <1>1, <1>3, PutCharPrinted DEF FollowsOn
<1> HIDE DEF e, con2
<1>6. \E g : OnPaper(Append(t, e), g, con2.chip, next.col, con2.y, p)
  <2>1. Continues(end, chip, u, v, p, e, next, d, con2.chip, con2.y, p)
    BY <1>2, <1>4, <1>5 DEF Continues
  <2> HIDE DEF next
  <2>2. Continues(f[Len(t)], chip, u, v, p, e, next, d, con2.chip, con2.y, p)
    BY <2>1 DEF end
  <2> QED
    BY <2>2, NextEvent
<1> QED
  BY <1>4, <1>6 DEF e, con2

\* A key at the end of a line: every character but the keys that edit is drawn.
LEMMA KeyPrinted ==
  ASSUME NEW t, NEW f, NEW chip \in Chips, NEW u, NEW v, NEW p, OnPaper(t, f, chip, u, v, p),
         NEW c \in Byte, NEW con, con = [chip |-> chip, x |-> u, y |-> v],
         NEW con2, con2 = Settled(Shown(con, c)), NEW e, e = [k |-> "key", c |-> c]
  PROVE  \E g : OnPaper(Append(t, e), g, con2.chip, con2.x, con2.y, p)
<1> DEFINE end == f[Len(t)]
           next == Moved(end, e)
<1>1. end \in Places /\ end.col = u /\ end.row = end.top + v /\ u \in Columns /\ v \in Lines
  BY EndOfPaper
<1>2. e \in Events /\ e.k # "fill" /\ Draws(e) /\ Drawn(e) = Font[c]
  BY DEF Events, Draws, Drawn
<1>3. Moved(end, e) = Feed(Wrapped([end EXCEPT !.col = @ + 1]))
  BY DEF Moved
<1>4. con \in [chip : Chips, x : Columns, y : Lines] /\ con.chip = chip /\ con.x = u /\ con.y = v
  BY <1>1
<1> HIDE DEF end
<1>5. FollowsOn(end, con, e, con2)
  BY <1>3, <1>1, <1>2, <1>4, GlyphPrinted
<1>6. /\ next \in Places /\ con2.x = next.col /\ con2.y \in Lines /\ next.row = next.top + con2.y
  BY <1>4, <1>5 DEF FollowsOn
<1>7. PICK d \in {0, 1} :
        /\ next.top = end.top + d
        /\ \A row \in Lines, col \in Columns :
             Cell(con2.chip, row, col) = Redrawn(chip, e, u, v, d, row, col)
  BY <1>4, <1>5 DEF FollowsOn
<1>8. \E g : OnPaper(Append(t, e), g, con2.chip, next.col, con2.y, p)
  <2>1. Continues(end, chip, u, v, p, e, next, d, con2.chip, con2.y, p)
    BY <1>2, <1>6, <1>7 DEF Continues
  <2> HIDE DEF next
  <2>2. Continues(f[Len(t)], chip, u, v, p, e, next, d, con2.chip, con2.y, p)
    BY <2>1 DEF end
  <2> QED
    BY <2>2, NextEvent
<1> QED
  BY <1>6, <1>8

\* A tile.
LEMMA TilePrinted ==
  ASSUME NEW t, NEW f, NEW chip \in Chips, NEW u, NEW v, NEW p, OnPaper(t, f, chip, u, v, p),
         NEW tile \in Tiles, NEW e, e = [k |-> "tile", rows |-> tile]
  PROVE  \E g : OnPaper(Append(t, e), g, video_put_tile(chip, u, v, tile), u, v, p)
<1> DEFINE end == f[Len(t)]
           chip2 == video_put_tile(chip, u, v, tile)
<1>1. end \in Places /\ end.col = u /\ end.row = end.top + v /\ u \in Columns /\ v \in Lines
  BY EndOfPaper
<1>2. e \in Events /\ e.k # "fill" /\ Draws(e) /\ Drawn(e) = tile
  BY DEF Events, Draws, Drawn
<1>3. Moved(end, e) = end
  BY DEF Moved
<1>4. end.top = end.top + 0
  <2>1. end.top \in Nat
    BY <1>1 DEF Places
  <2> HIDE DEF end
  <2> QED
    BY <2>1, SMT
<1>5. \A row \in Lines : row + 0 = row
  BY SMT DEF Lines
<1>6. ASSUME NEW row \in Lines, NEW col \in Columns
      PROVE  Cell(chip2, row, col) = Redrawn(chip, e, u, v, 0, row, col)
  BY <1>1, <1>2, <1>5, TileCell DEF Redrawn
<1> HIDE DEF chip2
<1>7. Continues(end, chip, u, v, p, e, end, 0, chip2, v, p)
  BY <1>1, <1>2, <1>3, <1>4, <1>6 DEF Continues
<1>8. \E g : OnPaper(Append(t, e), g, chip2, end.col, v, p)
  BY <1>7, NextEvent
<1> QED
  BY <1>1, <1>8 DEF chip2

LEMMA PlaceMoved ==
  ASSUME NEW a, NEW b, NEW c, NEW u, NEW r, NEW w, w = [row |-> a, col |-> b, top |-> c],
         NEW z, z = [w EXCEPT !.col = u, !.row = r]
  PROVE  z = [row |-> r, col |-> u, top |-> c]
OBVIOUS

\* The cursor is moved.
LEMMA CursorPrinted ==
  ASSUME NEW t, NEW f, NEW chip \in Chips, NEW u, NEW v, NEW p, OnPaper(t, f, chip, u, v, p),
         NEW u2 \in Columns, NEW v2 \in Lines, NEW e, e = [k |-> "at", x |-> u2, y |-> v2]
  PROVE  \E g : OnPaper(Append(t, e), g, chip, u2, v2, p)
<1> DEFINE end == f[Len(t)]
           next == [row |-> end.top + v2, col |-> u2, top |-> end.top]
<1>1. end \in Places /\ end.col = u /\ end.row = end.top + v /\ u \in Columns /\ v \in Lines
  BY EndOfPaper
<1>2. e \in Events /\ e.k # "fill" /\ ~Draws(e)
  BY DEF Events, Draws
<1>3. end.top \in Nat /\ end.top = end.top + 0 /\ end.top + v2 \in Nat
  <2>1. end.top \in Nat
    BY <1>1 DEF Places
  <2> HIDE DEF end
  <2> QED
    BY <2>1, SMT DEF Lines
<1>4. Moved(end, e) = next
  <2> DEFINE r == end.top + v2
             a == end.row
             b == end.col
             c == end.top
             z == Moved(end, e)
  <2>1. z = [end EXCEPT !.col = u2, !.row = r]
    BY DEF Moved, MovedTo
  <2>2. end = [row |-> a, col |-> b, top |-> c]
    BY <1>1 DEF Places
  <2> HIDE DEF z, r, a, b, c, end
  <2>3. z = [row |-> r, col |-> u2, top |-> c]
    BY <2>1, <2>2, PlaceMoved
  <2> QED
    BY <2>3 DEF z, r, c
<1>5. next \in Places /\ next.top = end.top /\ next.row = next.top + v2 /\ next.col = u2
  BY <1>3 DEF Places
<1>6. \A row \in Lines : row + 0 = row
  BY SMT DEF Lines
<1>7. ASSUME NEW row \in Lines, NEW col \in Columns
      PROVE  Cell(chip, row, col) = Redrawn(chip, e, u, v, 0, row, col)
  BY <1>2, <1>6 DEF Redrawn
<1> HIDE DEF next
<1>8. Continues(end, chip, u, v, p, e, next, 0, chip, v2, p)
  BY <1>2, <1>3, <1>4, <1>5, <1>7 DEF Continues
<1>9. \E g : OnPaper(Append(t, e), g, chip, next.col, v2, p)
  BY <1>8, NextEvent
<1> QED
  BY <1>5, <1>9

\* The screen is filled: a new roll.
LEMMA FillPrinted ==
  ASSUME NEW chip \in Chips, NEW c \in Byte, NEW t, t = <<[k |-> "fill", c |-> c]>>, NEW p
  PROVE  \E g : OnPaper(t, g, video_cls(chip, c), 0, 0, p)
<1> DEFINE e == [k |-> "fill", c |-> c]
           g == [n \in 1..1 |-> Origin]
           chip2 == video_cls(chip, c)
<1>1. e \in Events /\ e.k = "fill" /\ e.c = c
  BY DEF Events, Codes
<1> HIDE DEF e
<1>2. t = <<e>>
  BY DEF e
<1>3. t \in Seq(Events) /\ Len(t) = 1 /\ t[1] = e
  BY <1>1, <1>2
<1>4. 1 \in 1..1 /\ (\A n \in 1..1 : n = 1) /\ 2..1 = {} /\ 0 \in Columns /\ 0 \in Lines
      /\ CHARS_HEIGHT \in Nat /\ CHARS_HEIGHT > 0
  BY Numbers, SMT DEF Columns, Lines
<1>5. Origin \in Places /\ Origin.row = 0 /\ Origin.col = 0 /\ Origin.top = 0
  BY <1>4 DEF Origin, Places
<1>6. IsText(t)
  BY <1>1, <1>3 DEF IsText
<1>7. IsPaper(t, g)
  BY <1>3, <1>4 DEF IsPaper
<1>8. g \in [1..Len(t) -> Places] /\ g[Len(t)] = Origin /\ \A n \in 1..Len(t) : g[n] = Origin
  BY <1>3, <1>4, <1>5
<1>9. ASSUME NEW row \in Lines, NEW col \in Columns
      PROVE  Shows(t, g, 0 + row, col, Cell(chip2, row, col))
  <2>1. DrawnOn(t, g, 0 + row, col) = {}
    BY <1>3, <1>4 DEF DrawnOn
  <2>2. 0 + row < CHARS_HEIGHT
    BY <1>4, SMT DEF Lines
  <2>3. Cell(chip2, row, col) = Font[c]
    BY ClsCell
  <2> QED
    BY <1>1, <1>3, <2>1, <2>2, <2>3 DEF Shows, Blank
<1> HIDE DEF g, chip2
<1>10. 0 = 0 + 0 /\ 0 < 0 + CHARS_HEIGHT
  BY <1>4, SMT
<1>11. OnPaper(t, g, chip2, 0, 0, p)
  BY <1>4, <1>5, <1>6, <1>7, <1>8, <1>9, <1>10 DEF OnPaper
<1> QED
  BY <1>11 DEF chip2

\* What is stored elsewhere, and what is stored on the screen by the program.
LEMMA StorePrinted ==
  ASSUME NEW t, NEW f, NEW chip, NEW u, NEW v, NEW p, OnPaper(t, f, chip, u, v, p),
         NEW chip2, NEW p2, p2 => p /\ \A a \in Video : chip2[a] = chip[a]
  PROVE  OnPaper(t, f, chip2, u, v, p2)
<1>1. p2 => \A row \in Lines, col \in Columns : Cell(chip2, row, col) = Cell(chip, row, col)
  BY OtherCells
<1> QED
  BY <1>1 DEF OnPaper

-----------------------------------------------------------------------------
(* The calls.                                                              *)

\* The screen is on the paper that has what is noted; the cursor is there too,
\* but for a line that went astray.
PrintInv ==
  /\ plain => ~astray
  /\ \E f, u, v : /\ OnPaper(text, f, sram, u, v, plain)
                  /\ ~astray => u = x /\ v = y

LEMMA NewPaper ==
  ASSUME NEW f, OnPaper(text', f, sram', x', y', plain'), plain' => ~astray'
  PROVE  PrintInv'
BY DEF PrintInv

LEMMA StorePrint ==
  ASSUME PrintInv, UNCHANGED <<x, y, text, astray>>,
         plain' => plain /\ \A a \in Video : sram'[a] = sram[a]
  PROVE  PrintInv'
<1>1. PICK f, u, v : OnPaper(text, f, sram, u, v, plain) /\ (~astray => u = x /\ v = y)
  BY DEF PrintInv
<1>2. OnPaper(text, f, sram', u, v, plain')
  BY <1>1, StorePrinted
<1>3. plain' => ~astray'
  BY DEF PrintInv
<1> QED
  BY <1>1, <1>2, <1>3 DEF PrintInv

LEMMA QuietPrint ==
  ASSUME PrintInv, UNCHANGED <<sram, x, y, text, plain, astray>>
  PROVE  PrintInv'
BY StorePrint

\* While a line is astray nothing is noted.
LEMMA FrozenPrint ==
  ASSUME PrintInv, astray, astray', text' = text, plain' => plain
  PROVE  PrintInv'
<1>1. PICK f, u, v : OnPaper(text, f, sram, u, v, plain)
  BY DEF PrintInv
<1>2. ~plain'
  BY DEF PrintInv
<1>3. OnPaper(text, f, sram', u, v, plain')
  BY <1>1, <1>2, StorePrinted
<1> QED
  BY <1>2, <1>3 DEF PrintInv

LEMMA NotedPrint ==
  ASSUME PrintInv, NEW e, text' = Noted(e), astray' = astray, plain' => plain,
         ~astray => \E g : OnPaper(Append(text, e), g, sram', x', y', plain')
  PROVE  PrintInv'
<1>1. CASE astray
  BY <1>1, FrozenPrint DEF Noted
<1>2. CASE ~astray
  <2>1. text' = Append(text, e) /\ ~astray'
    BY <1>2 DEF Noted
  <2>2. PICK g : OnPaper(Append(text, e), g, sram', x', y', plain')
    BY <1>2
  <2> QED
    BY <2>1, <2>2, NewPaper
<1> QED
  BY <1>1, <1>2

\* A character, and then perhaps something that is stored.
LEMMA CharPrint ==
  ASSUME IInv, PrintInv, NEW c \in Codes, NEW con, con = put_char(Con, c),
         text' = Noted(Char(c)), x' = con.x, y' = con.y, astray' = astray, plain' => plain,
         plain' /\ ~astray => \A a \in Video : sram'[a] = con.chip[a]
  PROVE  PrintInv'
<1>1. ASSUME ~astray PROVE \E g : OnPaper(Append(text, Char(c)), g, sram', x', y', plain')
  <2>1. PICK f : OnPaper(text, f, sram, x, y, plain)
    BY <1>1 DEF PrintInv
  <2>2. sram \in Chips /\ Con = [chip |-> sram, x |-> x, y |-> y]
    BY DEF IInv, Con
  <2>3. PICK g : OnPaper(Append(text, Char(c)), g, con.chip, con.x, con.y, plain)
    BY <2>1, <2>2, CharPrinted
  <2>4. OnPaper(Append(text, Char(c)), g, sram', con.x, con.y, plain')
    BY <1>1, <2>3, StorePrinted
  <2> QED
    BY <2>4
<1> QED
  BY <1>1, NotedPrint

LEMMA KeyIsCode == ASSUME NEW c \in Byte PROVE c \in Codes
BY DEF Codes

LEMMA StoresElsewhere ==
  ASSUME NEW chip \in Chips, NEW a \in Addr, NEW src \in Seq(Byte), Len(src) < Base,
         Touched(a, Len(src)) \cap Video = {}
  PROVE  \A b \in Video : M!SramWritten(chip, a, src)[b] = chip[b]
<1> DEFINE l == [b \in 0..(LocalSize - 1) |-> 0]
<1>1. l \in [0..(LocalSize - 1) -> Byte]
  BY ZeroByte
<1> HIDE DEF l
<1>2. \A b \in Addr : M!SramWritten(chip, a, src)[b] # chip[b] => b \in Touched(a, Len(src))
  BY <1>1, WritesBytes
<1> QED
  BY <1>2, ZeroByte

LEMMA ProgramPrint == IInv /\ PrintInv /\ Program => PrintInv'
<1> SUFFICES ASSUME IInv, PrintInv, Program PROVE PrintInv'
  OBVIOUS
<1>1. ASSUME NEW a \in Addr, NEW src \in Seq(Byte), Len(src) < Base, Vm_ram_write(a, src),
             UNCHANGED <<x, y, text, astray>>
      PROVE  PrintInv'
  <2>1. plain' => plain /\ \A b \in Video : sram'[b] = sram[b]
    BY <1>1, StoresElsewhere DEF Vm_ram_write, IInv
  <2> QED
    BY <1>1, <2>1, StorePrint
<1>2. ASSUME NEW s \in Stores, Store(s) PROVE PrintInv'
  <2>1. s.addr \in Addr /\ s.src \in Seq(Byte) /\ Len(s.src) < Base
    BY SyscallsAssumption DEF SyscallsAssumption
  <2> QED
    BY <1>1, <1>2, <2>1 DEF Store
<1>3. ASSUME NEW p \in Pushes, Push(p) PROVE PrintInv'
  <2>1. p.sp \in Byte /\ p.src \in Seq(Byte) /\ Len(p.src) < Base
    BY SyscallsAssumption DEF SyscallsAssumption
  <2>2. StackTop(p.sp) \in Addr
    BY <2>1, StackIsAddr
  <2> QED
    BY <1>1, <1>3, <2>1, <2>2 DEF Push
<1>4. ASSUME Run PROVE PrintInv'
  BY <1>4, QuietPrint DEF Run, screen, memory
<1> QED
  BY <1>2, <1>3, <1>4 DEF Program

LEMMA LoadPrint == IInv /\ PrintInv /\ Sys_load => PrintInv'
<1> SUFFICES ASSUME IInv, PrintInv, Sys_load PROVE PrintInv'
  OBVIOUS
<1> DEFINE addr == Word(Args(2)[1], Args(2)[2])
<1>1. PICK block \in Blocks :
        /\ sram' = M!Stored(sram, addr, block)
        /\ plain' = (plain /\ Touched(addr, Len(block)) \cap Video = {})
  BY DEF Sys_load
<1>2. addr \in Addr /\ block \in Seq(Byte) /\ Len(block) < MemSize
  <2>1. Args(2)[1] \in Byte /\ Args(2)[2] \in Byte
    BY ArgsAreBytes, SMT
  <2> QED
    BY <2>1, WordIsAddr, SyscallsAssumption DEF SyscallsAssumption
<1> HIDE DEF addr
<1>3. \A b \in Addr : sram'[b] # sram[b] => b \in Touched(addr, Len(block))
  <2>1. Addr \in SUBSET Addr /\ sram \in [Addr -> Byte]
    BY DEF IInv, Chips
  <2>2. \A i \in 1..Len(block) : M!SramAddr(addr, i) \in Addr
    <3>1. Len(block) \in Nat
      BY <1>2, LenProperties
    <3> QED
      BY <1>2, <3>1, Numbers, SMT DEF Addr, M!SramAddr
  <2>3. \A b \in Addr : M!Stored(sram, addr, block)[b] # sram[b] =>
          \E i \in 1..Len(block) : b = M!SramAddr(addr, i)
    BY <1>2, <2>1, <2>2, StoresBytes
  <2> QED
    BY <1>1, <2>3 DEF Touched
<1>4. plain' => plain /\ \A b \in Video : sram'[b] = sram[b]
  BY <1>1, <1>3, ZeroByte
<1>5. UNCHANGED <<x, y, text, astray>>
  BY DEF Sys_load
<1> QED
  BY <1>4, <1>5, StorePrint

\* The cursor is put on the screen: there is a paper for what is noted, wherever
\* it was before.
LEMMA CursorPrint ==
  ASSUME PrintInv, sram \in Chips, NEW a \in Columns, NEW b \in Lines,
         x' = a, y' = b, sram' = sram, text' = Append(text, At(a, b)),
         plain' = plain, ~astray'
  PROVE  PrintInv'
<1>1. PICK f, u, v : OnPaper(text, f, sram, u, v, plain)
  BY DEF PrintInv
<1> DEFINE e == At(a, b)
<1>2. e = [k |-> "at", x |-> a, y |-> b]
  BY DEF At
<1> HIDE DEF e
<1>3. \E g : OnPaper(Append(text, e), g, sram, a, b, plain)
  BY <1>1, <1>2, CursorPrinted
<1> QED
  BY <1>3, NewPaper DEF e

LEMMA DrawingCallPrint ==
  IInv /\ PrintInv /\ (Sys_put_char \/ Sys_set_cursor \/ Sys_fill_screen \/ Sys_put_tile) => PrintInv'
<1> SUFFICES ASSUME IInv, PrintInv,
                    Sys_put_char \/ Sys_set_cursor \/ Sys_fill_screen \/ Sys_put_tile
             PROVE  PrintInv'
  OBVIOUS
<1>1. Con.chip = sram /\ Con.x = x /\ Con.y = y /\ sram \in Chips
  BY DEF Con, IInv
<1>2. Args(1)[1] \in Byte /\ Args(2)[1] \in Byte /\ Args(2)[2] \in Byte
  BY ArgsAreBytes, SMT
<1>3. ASSUME NEW tile \in Tiles, NEW e, e = [k |-> "tile", rows |-> tile], plain' = plain,
             sram' = video_put_tile(sram, x, y, tile), x' = x, y' = y, text' = Noted(e),
             astray' = astray
      PROVE  PrintInv'
  <2>1. ASSUME ~astray PROVE \E g : OnPaper(Append(text, e), g, sram', x', y', plain')
    <3>1. PICK f : OnPaper(text, f, sram, x, y, plain)
      BY <2>1 DEF PrintInv
    <3>2. \E g : OnPaper(Append(text, e), g, video_put_tile(sram, x, y, tile), x, y, plain)
      BY <1>1, <1>3, <3>1, TilePrinted
    <3> QED
      BY <1>3, <3>2
  <2> QED
    BY <1>3, <2>1, NotedPrint
<1>4. CASE Sys_put_char
  <2> DEFINE c == Args(1)[1]
             con == [Con EXCEPT !.chip = video_put_char(@, x, y, c)]
  <2>1. con.chip = video_put_char(sram, x, y, c) /\ con.x = x /\ con.y = y
    BY <1>1
  <2>2. sram' = con.chip /\ x' = con.x /\ y' = con.y /\ plain' = plain /\ astray' = astray
        /\ text' = Noted([k |-> "tile", rows |-> Font[c]])
    BY <1>4 DEF Sys_put_char, Becomes
  <2>3. Font[c] \in Tiles
    BY <1>2, GlyphIsTile
  <2> HIDE DEF con, c
  <2>4. sram' = video_put_tile(sram, x, y, Font[c])
    BY <2>1, <2>2 DEF video_put_char
  <2> QED
    BY <1>3, <2>1, <2>2, <2>3, <2>4
<1>5. CASE Sys_set_cursor
  <2>1. CASE UNCHANGED <<sram, x, y, text, plain, astray>>
    BY <2>1, QuietPrint
  <2> DEFINE v == Args(2)
  <2>2. CASE ~OutOfScreen(v) /\ PutAt(v[1], v[2]) /\ plain' = plain /\ ~astray'
    <3>1. v[1] \in Columns /\ v[2] \in Lines
      BY <1>2, <2>2, Numbers, SMT DEF OutOfScreen, Columns, Lines, Byte
    <3> HIDE DEF v
    <3> QED
      BY <1>1, <2>2, <3>1, CursorPrint DEF PutAt
  <2>3. \/ UNCHANGED <<sram, x, y, text, plain, astray>>
        \/ ~OutOfScreen(v) /\ PutAt(v[1], v[2]) /\ plain' = plain /\ ~astray'
    BY <1>5 DEF Sys_set_cursor
  <2> QED
    BY <2>1, <2>2, <2>3
<1>6. CASE Sys_fill_screen
  <2> DEFINE c == Args(1)[1]
             t == <<[k |-> "fill", c |-> c]>>
  <2>1. sram' = video_cls(sram, c) /\ x' = 0 /\ y' = 0 /\ text' = t /\ ~astray'
    BY <1>6 DEF Sys_fill_screen, Fill
  <2>2. c \in Byte
    BY <1>2
  <2> HIDE DEF c
  <2>3. \E g : OnPaper(t, g, video_cls(sram, c), 0, 0, plain')
    BY <1>1, <2>2, FillPrinted
  <2> QED
    BY <2>1, <2>3, NewPaper
<1>7. CASE Sys_put_tile
  <2> DEFINE tile == M!VmRead(local, sram, Word(Args(2)[1], Args(2)[2]), CharLines)
             con == [Con EXCEPT !.chip = video_put_tile(@, x, y, tile)]
  <2>1. con.chip = video_put_tile(sram, x, y, tile) /\ con.x = x /\ con.y = y
    BY <1>1
  <2>2. sram' = con.chip /\ x' = con.x /\ y' = con.y /\ plain' = plain /\ astray' = astray
        /\ text' = Noted([k |-> "tile", rows |-> tile])
    BY <1>7 DEF Sys_put_tile, Becomes
  <2>3. tile \in Tiles
    BY ReadsBytes, Numbers DEF IInv, Tiles
  <2> HIDE DEF con, tile
  <2> QED
    BY <1>3, <2>1, <2>2, <2>3
<1> QED
  BY <1>4, <1>5, <1>6, <1>7

LEMMA PutCharPrint ==
  ASSUME IInv, PrintInv, NEW c \in Byte, NEW left, PutChar(c, left), plain' = plain,
         astray' = astray
  PROVE  PrintInv'
<1> DEFINE con == put_char(Con, c)
<1>1. sram' = con.chip /\ x' = con.x /\ y' = con.y /\ text' = Noted(Char(c))
  BY DEF PutChar, Becomes
<1> HIDE DEF con
<1> QED
  BY <1>1, KeyIsCode, CharPrint DEF con

LEMMA PutNextPrint == IInv /\ PrintInv /\ PutNext => PrintInv'
<1> SUFFICES ASSUME IInv, PrintInv, PutNext PROVE PrintInv'
  OBVIOUS
<1>1. Head(call.todo) \in Byte
  <2>1. call.todo \in Seq(Byte) /\ call.todo # <<>>
    BY DEF IInv, CallInv, Calls, PutNext
  <2> QED
    BY <2>1, HeadTailProperties
<1>2. PutChar(Head(call.todo), [call EXCEPT !.todo = Tail(@)]) /\ plain' = plain /\ astray' = astray
  BY DEF PutNext
<1> QED
  BY <1>1, <1>2, PutCharPrint

LEMMA PutStringPrint == IInv /\ PrintInv /\ PutStringNext => PrintInv'
<1> SUFFICES ASSUME IInv, PrintInv, PutStringNext PROVE PrintInv'
  OBVIOUS
<1> DEFINE c == ReadByte(call.addr)
<1>1. c \in Byte
  <2>1. M!VmRead(local, sram, call.addr, 1) \in [1..1 -> Byte]
    BY ReadsBytes DEF IInv
  <2> QED
    BY <2>1, SMT DEF ReadByte
<1>2. CASE Return
  BY <1>2, QuietPrint DEF Return, memory, screen
<1>3. CASE PutChar(c, [call EXCEPT !.addr = (@ + 1) % MemSize]) /\ plain' = plain /\ astray' = astray
  BY <1>1, <1>3, PutCharPrint
<1> QED
  BY <1>2, <1>3 DEF PutStringNext

LEMMA ReadKeyPrint == ASSUME IInv, PrintInv, NEW c \in Key, ReadKey(c) PROVE PrintInv'
<1> DEFINE con == put_char(Con, c)
           a == call.addr
<1>1. c \in Byte
  BY SyscallsAssumption DEF SyscallsAssumption
<1>2. con.chip \in Chips
  BY <1>1, PutCharConfined DEF Confined, Anywhere
<1>3. /\ sram' = M!SramWritten(con.chip, a, <<c>>) /\ x' = con.x /\ y' = con.y
      /\ plain' = (plain /\ a \notin Video) /\ text' = Noted(Char(c)) /\ astray' = astray
  BY DEF ReadKey
<1>4. a \in Addr
  BY DEF IInv, CallInv, Calls
<1> HIDE DEF con, a
<1>5. <<c>> \in Seq(Byte) /\ Len(<<c>>) = 1 /\ 1 < Base
  BY <1>1, Numbers, SMT
<1>6. Touched(a, 1) = {a}
  <2>1. \A i \in 1..1 : M!SramAddr(a, i) = a
    BY <1>4, Numbers, SMT DEF M!SramAddr, Addr
  <2>2. 1 \in 1..1
    BY SMT
  <2> QED
    BY <2>1, <2>2 DEF Touched
<1>7. plain' => plain /\ \A b \in Video : sram'[b] = con.chip[b]
  <2>1. a \notin Video => Touched(a, Len(<<c>>)) \cap Video = {}
    BY <1>5, <1>6
  <2> QED
    BY <1>2, <1>3, <1>4, <1>5, <2>1, StoresElsewhere
<1> QED
  BY <1>1, <1>3, <1>7, KeyIsCode, CharPrint DEF con

\* A new history, of where the cursor is.
LEMMA EditedPrint ==
  ASSUME IInv, PrintInv, Fine, NEW chip, NEW a, NEW line, NEW n, NEW lost,
         astray => lost, Edited(chip, a, line, n, lost)
  PROVE  PrintInv'
<1>1. astray' = lost /\ plain' = FALSE /\ x' = a.x /\ y' = a.y
      /\ text' = IF lost THEN text ELSE <<text[1], At(a.x, a.y)>>
  BY DEF Edited
<1>2. PICK f, u, v : OnPaper(text, f, sram, u, v, plain)
  BY DEF PrintInv
<1>3. CASE lost
  <2>1. OnPaper(text, f, sram', u, v, plain')
    BY <1>1, <1>2, StorePrinted
  <2> QED
    BY <1>1, <1>3, <2>1 DEF PrintInv
<1>4. CASE ~lost
  <2>1. a.x \in Columns /\ a.y \in Lines /\ sram' \in Chips
    BY <1>1, <1>4 DEF Fine, IInv
  <2>2. text[1] = [k |-> "fill", c |-> text[1].c] /\ text[1].c \in Byte
    <3>1. text \in Seq(Events) /\ Len(text) >= 1 /\ text[1].k = "fill" /\ text[1].c \in Byte
      BY <1>2 DEF OnPaper, IsText
    <3>2. text[1] \in Events
      <4>1. 1 \in 1..Len(text)
        BY <3>1, LenProperties, SMT
      <4> QED
        BY <3>1, <4>1, ElementOfSeq
    <3> QED
      BY <3>1, <3>2 DEF Events
  <2> DEFINE c == text[1].c
             t == <<[k |-> "fill", c |-> c]>>
             e == At(a.x, a.y)
             cls == video_cls(sram', c)
  <2>3. e = [k |-> "at", x |-> a.x, y |-> a.y]
    BY DEF At
  <2>4. text' = <<text[1], e>>
    BY <1>1, <1>4
  <2>5. c \in Byte /\ text[1] = [k |-> "fill", c |-> c]
    BY <2>2
  <2> HIDE DEF c, e
  <2>6. text' = Append(t, e)
    BY <2>4, <2>5
  <2>7. PICK g : OnPaper(t, g, cls, 0, 0, FALSE)
    BY <2>1, <2>5, FillPrinted
  <2> HIDE DEF t, cls
  <2>8. OnPaper(t, g, sram', 0, 0, FALSE)
    BY <2>7, StorePrinted
  <2>9. PICK h : OnPaper(Append(t, e), h, sram', a.x, a.y, FALSE)
    BY <2>1, <2>3, <2>8, CursorPrinted
  <2> QED
    BY <1>1, <2>6, <2>9, NewPaper
<1> QED
  BY <1>3, <1>4

LEMMA InputKeyPrint == ASSUME IInv, PrintInv, Fine, InputKey PROVE PrintInv'
<1>1. CASE InputLeft
  BY <1>1, EditedPrint DEF InputLeft
<1>2. CASE InputRight
  BY <1>2, EditedPrint DEF InputRight
<1>3. CASE InputErase
  BY <1>3, EditedPrint DEF InputErase
<1>4. ASSUME NEW c \in Typed, InputAppend(c) PROVE PrintInv'
  <2> DEFINE con == Settled(Shown(Con, c))
             e == [k |-> "key", c |-> c]
  <2>1. sram' = con.chip /\ x' = con.x /\ y' = con.y /\ plain' = plain /\ astray' = astray
        /\ text' = Noted(e)
    BY <1>4 DEF InputAppend, Becomes
  <2>2. c \in Byte
    BY SyscallsAssumption DEF SyscallsAssumption, Typed
  <2>3. sram \in Chips /\ Con = [chip |-> sram, x |-> x, y |-> y]
    BY DEF IInv, Con
  <2> HIDE DEF e
  <2>4. ASSUME ~astray PROVE \E g : OnPaper(Append(text, e), g, sram', x', y', plain')
    <3>1. PICK f : OnPaper(text, f, sram, x, y, plain)
      BY <2>4 DEF PrintInv
    <3> HIDE DEF con
    <3>2. \E g : OnPaper(Append(text, e), g, con.chip, con.x, con.y, plain)
      BY <2>2, <2>3, <3>1, KeyPrinted DEF con, e
    <3> QED
      BY <2>1, <3>2
  <2> HIDE DEF con
  <2> QED
    BY <2>1, <2>4, NotedPrint
<1>5. ASSUME NEW c \in Typed, InputInsert(c) PROVE PrintInv'
  BY <1>5, EditedPrint DEF InputInsert
<1> QED
  BY <1>1, <1>2, <1>3, <1>4, <1>5 DEF InputKey

LEMMA InputEndsPrint == IInv /\ PrintInv /\ InputEnds => PrintInv'
<1> SUFFICES ASSUME IInv, PrintInv, InputEnds PROVE PrintInv'
  OBVIOUS
<1> DEFINE con == put_char(Con, NewLine)
           a == call.addr
           src == call.done
<1>1. con = LineFeed(Con)
  <2>1. con = Settled(LineFeed(Con))
    BY DEF put_char, NewLine, Tab
  <2>2. LineFeed(Con).x = 0
    BY DEF LineFeed
  <2>3. ~PastEdge(0)
    BY Numbers, SMT DEF PastEdge
  <2> QED
    BY <2>1, <2>2, <2>3 DEF Settled
<1>2. con.chip \in Chips
  BY <1>1, LineFeedConfined DEF Confined, Anywhere
<1>3. /\ a \in Addr /\ src \in Seq(Byte) /\ Len(src) < Base
  <2>1. a \in Addr /\ src \in Seq(Byte) /\ Len(src) < BufferSize
    BY DEF IInv, CallInv, Calls, InputEnds, Input
  <2>2. Len(src) \in Nat
    BY <2>1, LenProperties
  <2> QED
    BY <2>1, <2>2, SyscallsAssumption, SMT DEF SyscallsAssumption
<1>4. /\ sram' = M!SramWritten(con.chip, a, src) /\ x' = con.x /\ y' = con.y
      /\ plain' = (plain /\ Touched(a, Len(src)) \cap Video = {})
      /\ text' = Noted(Char(NewLine)) /\ astray' = astray
  BY <1>1 DEF InputEnds, End
<1> HIDE DEF con, a, src
<1>5. plain' => plain /\ \A b \in Video : sram'[b] = con.chip[b]
  BY <1>2, <1>3, <1>4, StoresElsewhere
<1>6. NewLine \in Codes
  BY DEF Codes
<1> QED
  BY <1>4, <1>5, <1>6, CharPrint DEF con

LEMMA NextPrint == IInv /\ PrintInv /\ [Next]_vars => PrintInv'
<1> SUFFICES ASSUME IInv, PrintInv, [Next]_vars PROVE PrintInv'
  OBVIOUS
<1>1. CASE Program
  BY <1>1, ProgramPrint
<1>2. CASE Vm_syscall
  <2>1. CASE Sys_load
    BY <2>1, LoadPrint
  <2>2. CASE Sys_put_char \/ Sys_set_cursor \/ Sys_fill_screen \/ Sys_put_tile
    BY <2>2, DrawingCallPrint
  <2>3. CASE \/ Sys_save \/ Sys_get_char \/ Sys_random \/ Sys_vsync \/ Sys_srand \/ Sys_version
             \/ Sys_exit \/ Sys_unknown \/ Sys_put_string \/ Sys_write \/ Sys_read \/ Sys_get_input
             \/ ReportEnds \/ WriteEnds \/ ReadEnds \/ WriteChunk
    <3>1. UNCHANGED <<memory, screen>>
      BY <2>3 DEF Sys_save, Sys_get_char, Sys_random, Sys_vsync, Sys_srand, Sys_version,
        Sys_exit, Sys_unknown, Sys_put_string, Sys_write, Sys_read, Sys_get_input, Begin,
        ReportEnds, WriteEnds, ReadEnds, Return, WriteChunk
    <3> QED
      BY <3>1, QuietPrint DEF memory, screen
  <2>4. CASE PutNext
    BY <2>4, PutNextPrint
  <2>5. CASE PutStringNext
    BY <2>5, PutStringPrint
  <2>6. CASE \E c \in Key : ReadKey(c)
    BY <2>6, ReadKeyPrint
  <2>7. CASE InputKey
    BY <2>7, InputKeyStep, InputKeyPrint
  <2>8. CASE InputEnds
    BY <2>8, InputEndsPrint
  <2> QED
    BY <1>2, <2>1, <2>2, <2>3, <2>4, <2>5, <2>6, <2>7, <2>8 DEF Vm_syscall
<1>3. CASE UNCHANGED vars
  BY <1>3, QuietPrint DEF vars, memory, screen
<1> QED
  BY <1>1, <1>2, <1>3 DEF Next

LEMMA InitPrint == Init => PrintInv
<1> SUFFICES ASSUME Init PROVE PrintInv
  OBVIOUS
<1> DEFINE chip == [a \in Addr |-> IF a \in DOMAIN Data THEN Data[a] ELSE 0]
           t == <<[k |-> "fill", c |-> Space]>>
<1>1. chip \in Chips /\ Space \in Byte
  BY ZeroByte, SyscallsAssumption DEF SyscallsAssumption, Chips
<1>2. sram = video_cls(chip, Space) /\ x = 0 /\ y = 0 /\ text = t
  BY DEF Init
<1> HIDE DEF chip
<1>3. \E g : OnPaper(t, g, video_cls(chip, Space), 0, 0, plain)
  BY <1>1, FillPrinted
<1>4. ~astray
  BY DEF Init
<1> QED
  BY <1>2, <1>3, <1>4 DEF PrintInv

-----------------------------------------------------------------------------
(* There is one such paper, and Glyph shows it.                            *)

LEMMA LeastPlace ==
  ASSUME NEW n, NEW I, I \subseteq 1..n, I # {}
  PROVE  \E m \in I : \A o \in I : m <= o
<1> DEFINE R == OpToRel(<, Nat)
<1>1. I \subseteq Nat
  BY SMT
<1>2. PICK m \in I : \A o \in I : ~(<<o, m>> \in R)
  <2>1. IsWellFoundedOn(R, Nat)
    BY NatLessThanWellFounded
  <2> HIDE DEF R
  <2> QED
    BY <1>1, <2>1, WFMin
<1>3. \A o \in I : m <= o
  <2> SUFFICES ASSUME NEW o \in I PROVE m <= o
    OBVIOUS
  <2>1. ~(o < m)
    BY <1>1, <1>2 DEF OpToRel
  <2> QED
    BY <1>1, <2>1, SMT
<1> QED
  BY <1>3

LEMMA OnePaper ==
  ASSUME NEW t, NEW f, NEW g, IsPaper(t, f), IsPaper(t, g)
  PROVE  f = g
<1> DEFINE I == {n \in 1..Len(t) : f[n] # g[n]}
<1>1. I = {}
  <2> SUFFICES ASSUME I # {} PROVE FALSE
    OBVIOUS
  <2>1. PICK m \in I : \A o \in I : m <= o
    <3>1. I \subseteq 1..Len(t)
      OBVIOUS
    <3> HIDE DEF I
    <3> QED
      BY <3>1, LeastPlace
  <2>2. m \in 1..Len(t) /\ f[m] # g[m]
    BY <2>1
  <2>3. CASE m = 1
    BY <2>2, <2>3 DEF IsPaper
  <2>4. CASE m # 1
    <3>1. m - 1 \in 1..Len(t) /\ ~(m <= m - 1)
      BY <2>2, <2>4, SMT
    <3>2. f[m - 1] = g[m - 1]
      BY <2>1, <3>1
    <3> QED
      BY <2>2, <2>4, <3>2 DEF IsPaper
  <2> QED
    BY <2>3, <2>4
<1>2. \A n \in 1..Len(t) : f[n] = g[n]
  BY <1>1
<1> QED
  BY <1>2 DEF IsPaper

LEMMA PaperIs ==
  ASSUME NEW f, IsPaper(text, f)
  PROVE  Paper = f
<1> DEFINE body(g) == [n \in 1..Len(text) |-> IF n = 1 THEN Origin ELSE Moved(g[n - 1], text[n])]
           place == CHOOSE g : g = body(g)
<1>1. Paper = place
  BY DEF Paper, Moved, Origin
<1>2. f = body(f)
  BY DEF IsPaper
<1>3. place = body(place)
  <2> HIDE DEF body
  <2> QED
    BY <1>2
<1> HIDE DEF place
<1>4. IsPaper(text, place)
  BY <1>3 DEF IsPaper
<1> QED
  BY <1>1, <1>4, OnePaper

LEMMA GlyphIs ==
  ASSUME NEW f, NEW row, NEW col, NEW tile, Shows(text, f, row, col, tile)
  PROVE  Glyph(f, row, col) = tile
<1> DEFINE on == DrawnOn(text, f, row, col)
           n == CHOOSE last \in on : \A other \in on : other <= last
<1>1. Glyph(f, row, col) = IF on = {} THEN Blank(text, row) ELSE Drawn(text[n])
  BY DEF Glyph, DrawnOn, Blank, Drawn, Clear
<1>2. \A m \in on : m \in Int
  BY SMT DEF DrawnOn
<1> HIDE DEF on
<1>3. CASE on = {}
  BY <1>1, <1>3 DEF Shows, on
<1>4. CASE on # {}
  <2>1. PICK m \in on : (\A other \in on : other <= m) /\ tile = Drawn(text[m])
    BY <1>4 DEF Shows, on
  <2>2. n \in on /\ \A other \in on : other <= n
    BY <2>1
  <2> HIDE DEF n
  <2>3. n = m
    <3>1. n <= m /\ m <= n /\ n \in Int /\ m \in Int
      BY <1>2, <2>1, <2>2
    <3> QED
      BY <3>1, SMT
  <2> QED
    BY <1>1, <1>4, <2>1, <2>3
<1> QED
  BY <1>3, <1>4

LEMMA ShownIsPrinted == PrintInv => ShowsPrinted
<1> SUFFICES ASSUME PrintInv, ~astray PROVE ShowsPrinted
  BY DEF ShowsPrinted
<1>1. PICK f : OnPaper(text, f, sram, x, y, plain)
  BY DEF PrintInv
<1> DEFINE end == f[Len(text)]
<1>2. Paper = f
  BY <1>1, PaperIs DEF OnPaper
<1>3. end \in Places /\ end.col = x /\ end.row = end.top + y /\ y \in Lines
  BY <1>1, EndOfPaper
<1>4. y = end.row - end.top
  <2>1. end.top \in Nat
    BY <1>3 DEF Places
  <2> HIDE DEF end
  <2> QED
    BY <1>3, <2>1, SMT DEF Lines
<1>5. ASSUME plain, NEW row \in Lines, NEW col \in Columns, NEW line \in 1..CharLines
      PROVE  sram[VIDEO_ADDR + (row * CharLines + line - 1) * CHARS_WIDTH + col] =
               Glyph(f, end.top + row, col)[line]
  <2>1. Shows(text, f, end.top + row, col, Cell(sram, row, col))
    BY <1>1, <1>5 DEF OnPaper
  <2>2. Glyph(f, end.top + row, col) = Cell(sram, row, col)
    BY <2>1, GlyphIs
  <2>3. VIDEO_ADDR + (row * CharLines + line - 1) * CHARS_WIDTH + col = CellAddr(row, col, line)
    <3>1. row \in Nat /\ line - 1 \in Nat /\ line \in Nat /\ col \in Nat
      BY InRow, SMT DEF Lines
    <3>2. row * RowBytes = (row * CharLines) * CHARS_WIDTH
      BY <3>1, Numbers, SMT
    <3>3. (row * CharLines + line - 1) * CHARS_WIDTH = (row * CharLines) * CHARS_WIDTH + (line - 1) * CHARS_WIDTH
      <4> DEFINE a == row * CharLines
                 b == line - 1
      <4>1. a \in Nat /\ b \in Nat
        BY <3>1, Numbers, SMT
      <4>2. row * CharLines + line - 1 = a + b
        BY <3>1, <4>1, SMT
      <4> HIDE DEF a, b
      <4>3. (a + b) * CHARS_WIDTH = a * CHARS_WIDTH + b * CHARS_WIDTH
        BY <4>1, Numbers, SMT
      <4> QED
        BY <4>2, <4>3 DEF a, b
    <3> DEFINE p == row * RowBytes
               q == (line - 1) * CHARS_WIDTH
    <3>4. p \in Nat /\ q \in Nat
      BY <3>1, InRow, Numbers, SMT
    <3>5. (row * CharLines + line - 1) * CHARS_WIDTH = p + q
      BY <3>2, <3>3
    <3>6. CellAddr(row, col, line) = VIDEO_ADDR + col + p + q
      BY DEF CellAddr
    <3> HIDE DEF p, q
    <3> QED
      BY <3>1, <3>4, <3>5, <3>6, Numbers, SMT
  <2> QED
    BY <2>2, <2>3 DEF Cell
<1> QED
  BY <1>1, <1>2, <1>3, <1>4, <1>5 DEF ShowsPrinted, Lines, Columns

\* The screen is what a terminal shows of all that was printed, typed, drawn and
\* moved since it was filled, until a line is edited, and the cursor is where the
\* next character goes, until a line goes astray, for every screen, tabulator and
\* font, and however far the text has scrolled.
THEOREM ScreenIsPrinted == Spec => []ShowsPrinted
<1> QED
  BY InitInv, NextStep, InitPrint, NextPrint, ShownIsPrinted, PTL DEF Spec
=============================================================================
