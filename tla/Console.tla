------------------------------ MODULE Console -------------------------------
(***************************************************************************)
(* Text on the screen (put_char and scroll_up in init/main.c, video/       *)
(* video.c).  The screen is a part of the serial SRAM, a row of characters *)
(* being CharLines rows of pixels, a byte for each character.  A console   *)
(* [chip, x, y] is what the chip holds and where the cursor is.            *)
(***************************************************************************)
EXTENDS Integers, Sequences

CONSTANTS
  MemSize,       \* bytes of the chip, 0x10000
  VIDEO_ADDR,    \* where the screen begins, 0x0200
  CHARS_WIDTH,   \* 32
  CHARS_HEIGHT,  \* 24
  CharLines,     \* 8
  TabStop,       \* 8
  Font           \* the rows of pixels of each character

RowBytes == CHARS_WIDTH * CharLines
VideoEnd == VIDEO_ADDR + CHARS_HEIGHT * RowBytes
Video    == VIDEO_ADDR..(VideoEnd - 1)

ASSUME ConsoleAssumption ==
  /\ {MemSize, VIDEO_ADDR, RowBytes} \subseteq Nat
  /\ {CHARS_WIDTH, CHARS_HEIGHT, CharLines, TabStop} \subseteq Nat \ {0}
  /\ TabStop <= CHARS_WIDTH /\ VideoEnd \in Nat /\ VideoEnd <= MemSize

NewLine == 10
Tab     == 9

-----------------------------------------------------------------------------
(* Drawing.                                                                *)

\* Where row of pixels number line of a character goes.
PixelAddr(x, y, line) == (VIDEO_ADDR + x + y * RowBytes + line * CHARS_WIDTH) % MemSize

\* video_put_tile, and video_put_char with the rows of pixels of the character.
video_put_tile(chip, x, y, tile) ==
  [a \in DOMAIN chip |->
     LET lines == {line \in 0..(CharLines - 1) : a = PixelAddr(x, y, line)}
     IN  IF lines = {} THEN chip[a] ELSE tile[1 + CHOOSE line \in lines : TRUE]]

video_put_char(chip, x, y, c) == video_put_tile(chip, x, y, Font[c])

video_cls(chip, c) ==
  [a \in DOMAIN chip |->
     IF a \in Video THEN Font[c][1 + ((a - VIDEO_ADDR) % RowBytes) \div CHARS_WIDTH] ELSE chip[a]]

\* Each row moves up, and the last is cleared.
scroll_up(chip) ==
  [a \in DOMAIN chip |->
     IF a \notin Video THEN chip[a]
     ELSE IF a + RowBytes < VideoEnd THEN chip[a + RowBytes] ELSE 0]

-----------------------------------------------------------------------------
(* put_char.                                                               *)

LastRow_Past == CHARS_HEIGHT
LastRow == CHARS_HEIGHT - 1

LineFeed(con) ==
  IF con.y + 1 > LastRow THEN [chip |-> scroll_up(con.chip), x |-> 0, y |-> con.y]
  ELSE [chip |-> con.chip, x |-> 0, y |-> con.y + 1]

NextTab(x) == (x \div TabStop + 1) * TabStop

Shown(con, c) == [chip |-> video_put_char(con.chip, con.x, con.y, c), x |-> con.x + 1, y |-> con.y]

PastEdge_Late(x) == x > CHARS_WIDTH
PastEdge(x) == x > CHARS_WIDTH - 1

\* A cursor past the right edge goes to the next line.
Settled(con) == IF PastEdge(con.x) THEN LineFeed(con) ELSE con

put_char(con, c) ==
  Settled(CASE c = NewLine -> LineFeed(con)
            [] c = Tab     -> [con EXCEPT !.x = NextTab(@)]
            [] OTHER       -> Shown(con, c))
=============================================================================
