------------------------------ MODULE LineEdit ------------------------------
(***************************************************************************)
(* The line editor of the shell and of SYS 0x21 (buffered_input in         *)
(* init/main.c): text is typed, deleted and inserted in at a cursor that   *)
(* moves over the screen, the line wraps from row to row, and the screen   *)
(* scrolls when the bottom is reached.  The cell under the cursor is       *)
(* inverted now and then (video_cursor), and must be put right before the  *)
(* cursor moves.                                                           *)
(*                                                                         *)
(* A cell is a pair <<column, row>>.  Drawing outside the grid of cells is *)
(* drawing over some other memory, recorded in spilt.                      *)
(***************************************************************************)
EXTENDS Integers, SequencesExt

CONSTANTS
  Cols,     \* CHARS_WIDTH, 32
  Rows,     \* CHARS_HEIGHT, 24
  Char,     \* characters that are typed
  Starts,   \* where the cursor may be when a line begins
  Sizes,    \* sizes passed to buffered_input, 0 being one a program may pass
  Limit,    \* the most SYS 0x21 lets through, 64
  BufferSize  \* bytes of buffer, 128: the line of a size of 0 goes no further
              \* here, and past it in the code, over other variables

ASSUME LineEditAssumption ==
  /\ Cols \in Nat \ {0} /\ Rows \in Nat \ {0}
  /\ Starts \subseteq (0..(Cols - 1)) \X (0..(Rows - 1))
  /\ Limit \in Nat \ {0} /\ BufferSize \in Nat /\ Limit <= BufferSize
  /\ Sizes \subseteq 0..Limit

\* A line fits on the screen when it has scrolled.
ASSUME ScreenAssumption == BufferSize <= Cols * (Rows - 1)

Cells == (0..(Cols - 1)) \X (0..(Rows - 1))

Blank == "blank"  \* what scroll_up and a deleted character leave
Other == "other"  \* text of earlier lines, which is not told apart

VARIABLES
  editing,   \* is buffered_input running?
  size,      \* its parameter
  text,      \* the first end characters of its buffer
  pos,       \* the place of the cursor in them
  at,        \* <<x, y>>
  cell,      \* the characters on the screen
  lit,       \* the cells that are inverted
  cursor,    \* is the cursor shown? (video.c)
  spilt,     \* has anything been drawn outside the screen?
  home,      \* where the line began, counting cells by rows
  astray     \* has an insertion ended in the last cell of the screen, or past
             \* the right edge?

screen == <<cell, lit, cursor, spilt>>
vars   == <<editing, size, text, pos, at, screen, home, astray>>

Lin(c) == c[2] * Cols + c[1]

-----------------------------------------------------------------------------
(* The screen.                                                             *)

ScrollsAt_Late(row) == row > Rows
ScrollsAt(row) == row >= Rows

\* scroll_up moves every row up and clears the last.
Scrolled(f) ==
  [c \in Cells |-> IF c[2] = Rows - 1 THEN Blank ELSE f[<<c[1], c[2] + 1>>]]

\* video_cursor_off: what is inverted once the cursor is hidden.
LitWithoutCursor_Kept == lit
LitWithoutCursor == IF cursor THEN SymDiff(lit, {at} \cap Cells) ELSE lit

CursorSpills == cursor /\ at \notin Cells

Forward(a) == IF a[1] < Cols - 1 THEN <<a[1] + 1, a[2]>> ELSE <<0, a[2] + 1>>

Back_SameRow(a) == IF a[1] > 0 THEN <<a[1] - 1, a[2]>> ELSE <<Cols - 1, a[2]>>
Back(a) == IF a[1] > 0 THEN <<a[1] - 1, a[2]>> ELSE <<Cols - 1, a[2] - 1>>

Up_Not(a) == a
Up(a) == <<a[1], a[2] - 1>>

\* n cells further on, or back; the column a walk back starts from need not
\* be on the screen, and a column is only wrapped once it is below zero.
After(a, n) ==
  LET k == Lin(a) + n IN <<k % Cols, k \div Cols>>
Before(a, n) ==
  IF n <= a[1] THEN <<a[1] - n, a[2]>> ELSE After(a, -n)

\* video_put_char for every cell in the domain of put.
Drawn(f, put) == [c \in Cells |-> IF c \in DOMAIN put THEN put[c] ELSE f[c]]
Spills(put) == DOMAIN put \ Cells # {}

\* Hide the cursor, draw, and scroll after that if asked to.
Draw(put, scrolls) ==
  /\ cell' = IF scrolls THEN Scrolled(Drawn(cell, put)) ELSE Drawn(cell, put)
  /\ lit' = LET l == LitWithoutCursor \ DOMAIN put
            IN  IF scrolls THEN {Up(c) : c \in l} \cap Cells ELSE l
  /\ cursor' = FALSE
  /\ spilt' = (spilt \/ CursorSpills \/ Spills(put))
  /\ home' = IF scrolls THEN home - Cols ELSE home

Nothing == [c \in {} |-> Blank]

-----------------------------------------------------------------------------
(* buffered_input.                                                         *)

\* A call, with the cursor wherever the program or the shell has left it.
Begin(start, n) ==
  /\ ~editing
  /\ editing' = TRUE /\ size' = n /\ text' = <<>> /\ pos' = 0
  /\ at' = start /\ home' = Lin(start)
  /\ cell' = [c \in Cells |-> Other]
  /\ spilt' = FALSE /\ astray' = FALSE
  /\ UNCHANGED <<lit, cursor>>

\* No key for a while.
Blink ==
  /\ editing
  /\ lit' = SymDiff(lit, {at} \cap Cells)
  /\ cursor' = ~cursor
  /\ spilt' = (spilt \/ at \notin Cells)
  /\ UNCHANGED <<editing, size, text, pos, at, cell, home, astray>>

Left ==
  /\ editing
  /\ Draw(Nothing, FALSE)
  /\ IF pos > 0 THEN pos' = pos - 1 /\ at' = Back(at) ELSE UNCHANGED <<pos, at>>
  /\ UNCHANGED <<editing, size, text, astray>>

Right ==
  /\ editing
  /\ Draw(Nothing, FALSE)
  /\ IF pos < Len(text) THEN pos' = pos + 1 /\ at' = Forward(at)
                        ELSE UNCHANGED <<pos, at>>
  /\ UNCHANGED <<editing, size, text, astray>>

Enter ==
  /\ editing
  /\ editing' = FALSE
  /\ Draw(Nothing, ScrollsAt(at[2] + 1))
  /\ at' = <<0, IF ScrollsAt(at[2] + 1) THEN at[2] ELSE at[2] + 1>>
  /\ UNCHANGED <<size, text, pos, astray>>

\* The characters after the deleted one move back by a cell each.
Backspace ==
  /\ editing
  /\ IF pos > 0
     THEN LET left  == RemoveAt(text, pos)
              line  == [c \in {After(Back(at), k) : k \in 0..(Len(text) - pos)} |->
                          LET k == Lin(c) - Lin(Back(at)) + pos
                          IN  IF k <= Len(left) THEN left[k] ELSE Blank]
          IN  /\ text' = left /\ pos' = pos - 1 /\ at' = Back(at)
              /\ Draw(line, FALSE)
     ELSE Draw(Nothing, FALSE) /\ UNCHANGED <<text, pos, at>>
  /\ UNCHANGED <<editing, size, astray>>

BufferFull_Late == Len(text) = size
BufferFull == Len(text) + 1 = size

\* At the end of the line.
Append1(d) ==
  /\ pos = Len(text)
  /\ text' = Append(text, d) /\ pos' = pos + 1
  /\ LET next    == Forward(at)
         scrolls == next[1] = 0 /\ ScrollsAt(next[2])
     IN  /\ Draw([c \in {at} |-> d], scrolls)
         /\ at' = IF scrolls THEN Up(next) ELSE next
  /\ UNCHANGED astray

WrapsAt(i) == i >= Cols

Moves_Short == 0..(Len(text) - pos - 2)
\* The steps back from the last character to the one after the cursor.
Moves == 0..(Len(text) - pos - 1)

\* Inside the line: scroll if the last character would not fit, then move
\* the characters from the cursor on by a cell, from the last one back.  The
\* column of the last is wrapped at most once.
Insert1(d) ==
  /\ pos < Len(text)
  /\ text' = InsertAt(text, pos + 1, d)
  /\ LET i       == at[1] + Len(text) - pos
         wrapped == IF WrapsAt(i) THEN <<i - Cols, at[2] + 1>> ELSE <<i, at[2]>>
         scrolls == WrapsAt(i) /\ ScrollsAt(wrapped[2])
         last    == IF scrolls THEN Up(wrapped) ELSE wrapped
         here    == IF scrolls THEN Up(at) ELSE at
         moved   == {Before(last, n) : n \in Moves}
         line    == [c \in moved \cup {here} |->
                       IF c = here THEN d ELSE text[pos + Lin(c) - Lin(here)]]
     IN  /\ cell' = Drawn(IF scrolls THEN Scrolled(cell) ELSE cell, line)
         /\ lit' = LET l == LitWithoutCursor
                   IN  (IF scrolls THEN {Up(c) : c \in l} \cap Cells ELSE l)
                         \ DOMAIN line
         /\ cursor' = FALSE
         /\ spilt' = (spilt \/ CursorSpills \/ Spills(line))
         /\ home' = IF scrolls THEN home - Cols ELSE home
         /\ at' = here
         /\ astray' = (astray \/ last = <<Cols - 1, Rows - 1>> \/ last[1] >= Cols)
  /\ UNCHANGED pos

Type(d) ==
  /\ editing
  /\ \/ /\ BufferFull
        /\ Draw(Nothing, FALSE)
        /\ UNCHANGED <<text, pos, at, astray>>
     \/ /\ ~BufferFull /\ Len(text) + 1 < BufferSize
        /\ Append1(d) \/ Insert1(d)
  /\ UNCHANGED <<editing, size>>

-----------------------------------------------------------------------------
Init ==
  /\ editing = FALSE /\ size = 0 /\ text = <<>> /\ pos = 0 /\ at = <<0, 0>>
  /\ cell = [c \in Cells |-> Other]
  /\ lit = {} /\ cursor = FALSE /\ spilt = FALSE
  /\ home = 0 /\ astray = FALSE

Next ==
  \/ \E start \in Starts, n \in Sizes : Begin(start, n)
  \/ Blink \/ Left \/ Right \/ Enter \/ Backspace
  \/ \E d \in Char : Type(d)

Spec == Init /\ [][Next]_vars

-----------------------------------------------------------------------------
(* Properties.                                                             *)

\* The cursor on the screen is where the next character goes in the buffer,
\* however the line was edited and however often the screen scrolled.
CursorFollowsText == editing => Lin(at) = home + pos

\* What the screen shows of the line is what buffered_input will return,
\* whatever was inserted and deleted and wherever it wrapped, unless an
\* insertion went astray.
TextShown ==
  editing /\ ~astray =>
    \A k \in 1..Len(text) :
      home + k - 1 >= 0 => cell[After(<<0, 0>>, home + k - 1)] = text[k]

\* The inverted cell is the one under the cursor, and there is none when the
\* cursor is hidden: moving or scrolling leaves no ghost behind.
OneCursor ==
  ~astray => lit = (IF cursor THEN {at} ELSE {})

\* The cursor stays on the screen and nothing is drawn outside it, unless an
\* insertion has put a character in the last cell without a scroll, or one
\* past the right edge because the line needs a second wrap.
StaysOnScreen == ~astray => at \in Cells /\ ~spilt

\* A key changes no cell outside the line it edits; a scroll moves the rest.
RestKept ==
  [][editing /\ editing' /\ ~astray' =>
       LET rows == (home - home') \div Cols
           last == home' + (IF Len(text') > Len(text) THEN Len(text') ELSE Len(text))
       IN  \A c \in Cells :
             Lin(c) < home' \/ Lin(c) >= last =>
               cell'[c] = (IF c[2] + rows < Rows THEN cell[<<c[1], c[2] + rows>>]
                                                 ELSE Blank)]_vars

\* The line and the zero that ends it fit in the size that was asked for,
\* whatever is inserted and deleted: the test for a full buffer is an equality,
\* and would never be met again once it was missed.  It is missed from the
\* start by a size of 0, which limits nothing.
InputLimited == editing /\ size # 0 => Len(text) + 1 <= size

\* "The size of the buffer is limited to 64 chars" (syscall.c, at SYS 0x21), and
\* "The maximum size of the input is limited to 64 characters including the
\* zero to end the string" (docs/manual.markdown), for every size.
InputFits == Len(text) + 1 <= Limit
=============================================================================
