----------------------------- MODULE Syscalls ------------------------------
(***************************************************************************)
(* The services a program asks for with SYS (vm_syscall in init/syscall.c) *)
(* over the two memories of the virtual machine and the screen, which is a *)
(* part of one of them.  Every character is a step of its own: a call may  *)
(* print the memory it is drawing on, and keys come when they come.  The   *)
(* cursor blinks in LineEdit only: its cell is put right before each key.  *)
(*                                                                         *)
(* The history of the screen is text: what was printed, drawn and moved    *)
(* since it was last filled, or since a line was edited.  That of a call   *)
(* is in call.done.                                                        *)
(***************************************************************************)
EXTENDS Console, SequencesExt

CONSTANTS
  Base,         \* values of a byte, 256; an address is two bytes
  Chunk,        \* bytes write takes from memory at a time, 64
  InputLimit,   \* the largest size of an input call, 64
  BufferSize,   \* bytes of buffer, 128
  text_err_ok, text_err_prg, text_err_sys,  \* what the end of a program prints
  Data,         \* what a program has in memory
  Stores,       \* what it may write: [addr, src]
  Pushes,       \* what it may have on its stack: [sp, src]
  Blocks,       \* what a tape may hold
  Space,        \* the blank character
  Key,          \* the characters of the keyboard
  Random,       \* what rand may return, any byte
  MaxCalls,     \* bound: calls, and bytes written before them
  MaxText       \* bound: length of text

Byte      == 0..(Base - 1)
Addr      == 0..(MemSize - 1)
LocalSize == 2 * Base

ASSUME SyscallsAssumption ==
  /\ {Base, Chunk, InputLimit} \subseteq Nat \ {0}
  /\ Chunk < Base /\ InputLimit < Base
  /\ BufferSize \in Nat /\ InputLimit <= BufferSize /\ BufferSize < Base
  /\ BufferSize <= CHARS_WIDTH * (CHARS_HEIGHT - 1)
  /\ MemSize = Base * Base
  /\ VIDEO_ADDR = LocalSize
  /\ \A c \in Byte : Font[c] \in [1..CharLines -> Byte]
  /\ \A a \in DOMAIN Data : Data[a] \in Byte
  /\ \A s \in Stores : s.addr \in Addr /\ s.src \in Seq(Byte) /\ Len(s.src) < Base
  /\ \A p \in Pushes : p.sp \in Byte /\ p.src \in Seq(Byte) /\ Len(p.src) < Base
  /\ \A b \in Blocks : b \in Seq(Byte) /\ Len(b) < MemSize
  /\ {text_err_ok, text_err_prg, text_err_sys} \subseteq Seq(Byte)
  /\ Key \subseteq Byte /\ Space \in Byte

VARIABLES
  local, sram,  \* the memories of the virtual machine
  r_a,          \* its accumulator
  r_sp,         \* its stack pointer
  prog_exit,    \* has the program ended?
  x, y,         \* the cursor
  call,         \* the call in progress, or the last one
  busy,         \* is it in progress?
  calls,        \* how many there were, up to MaxCalls
  text,         \* what the screen was told since it was filled
  plain,        \* has nothing else written to the screen?
  astray        \* has an inserted character moved the end of the line to the
                \* last cell of the screen, or past its right edge?

memory  == <<local, sram>>
screen  == <<x, y, text, plain, astray>>
control == <<r_sp, prog_exit, calls>>
vars    == <<memory, screen, control, r_a, call, busy>>

M == INSTANCE VmMemory WITH dst <- <<>>, MaxAccess <- Base - 1

-----------------------------------------------------------------------------
(* Memory and screen.                                                      *)

\* addr16(v[1], v[0]): the first byte on the stack is the high one.
Word(hi, lo) == Base * hi + lo

\* addr16(r_sp + 1, 1)
StackTop(sp) == Base + ((sp + 1) % Base)
Args(n) == M!VmRead(local, sram, StackTop(r_sp), n)

ReadByte(a) == M!VmRead(local, sram, a, 1)[1]

Touched(a, n) == {M!SramAddr(a, i) : i \in 1..n}

Vm_ram_write(a, src) ==
  /\ local' = M!LocalWritten(local, a, src)
  /\ sram' = M!SramWritten(sram, a, src)
  /\ plain' = (plain /\ Touched(a, Len(src)) \cap Video = {})

Con == [chip |-> sram, x |-> x, y |-> y]

\* Once a line has gone astray the history is not kept.
Noted(e) == IF astray THEN text ELSE Append(text, e)

\* The screen becomes that of con, because of event e.
Becomes(con, e) ==
  /\ Len(text) < MaxText
  /\ sram' = con.chip /\ x' = con.x /\ y' = con.y
  /\ text' = Noted(e)

\* A call, with the address it was given and the next one, what it has still to
\* move, the bytes it has shown or has in buffer, and the cursor in these.
Call(f, addr, count, todo) ==
  [f |-> f, start |-> addr, addr |-> addr, count |-> count, todo |-> todo,
   done |-> <<>>, pos |-> 0]
NoCall == Call("none", 0, 0, <<>>)

Char(c) == [k |-> "char", c |-> c]

-----------------------------------------------------------------------------
(* The program between its calls.                                          *)

Ready == ~prog_exit /\ ~busy /\ calls < MaxCalls

\* It stores bytes anywhere, or has arguments on its stack.
Store(s) ==
  /\ Ready
  /\ Vm_ram_write(s.addr, s.src)
  /\ calls' = calls + 1 /\ call' = NoCall
  /\ UNCHANGED <<x, y, text, astray, r_a, r_sp, prog_exit, busy>>

Push(p) ==
  /\ Ready
  /\ Vm_ram_write(StackTop(p.sp), p.src)
  /\ r_sp' = p.sp
  /\ calls' = calls + 1 /\ call' = NoCall
  /\ UNCHANGED <<x, y, text, astray, r_a, prog_exit, busy>>

\* cmd_run
Run ==
  /\ prog_exit /\ ~busy /\ calls < MaxCalls
  /\ prog_exit' = FALSE /\ r_a' = 0 /\ r_sp' = Base - 1
  /\ calls' = calls + 1 /\ call' = NoCall
  /\ UNCHANGED <<memory, screen, busy>>

-----------------------------------------------------------------------------
(* The calls that end at once.                                             *)

AtOnce(f) ==
  /\ Ready
  /\ calls' = calls + 1 /\ call' = Call(f, 0, 0, <<>>)
  /\ UNCHANGED <<r_sp, prog_exit, busy>>

\* load writes to the chip itself, and answers 0 or that it failed.
Sys_load ==
  /\ AtOnce("load")
  /\ \E block \in Blocks, error \in {0, 1} :
       LET addr == Word(Args(2)[1], Args(2)[2])
       IN  /\ sram' = M!Stored(sram, addr, block)
           /\ plain' = (plain /\ Touched(addr, Len(block)) \cap Video = {})
           /\ r_a' = error
  /\ UNCHANGED <<local, x, y, text, astray>>

Sys_save ==
  /\ AtOnce("save")
  /\ r_a' \in {0, 1}
  /\ UNCHANGED <<memory, screen>>

Sys_put_char ==
  /\ AtOnce("put_char")
  /\ Becomes([Con EXCEPT !.chip = video_put_char(@, x, y, Args(1)[1])],
             [k |-> "tile", rows |-> Font[Args(1)[1]]])
  /\ r_a' = 0
  /\ UNCHANGED <<local, plain, astray>>

OutOfScreen(v) == v[1] > CHARS_WIDTH - 1 \/ v[2] > CHARS_HEIGHT - 1

At(col, row) == [k |-> "at", x |-> col, y |-> row]

\* The cursor is on the screen, wherever a line that went astray had taken it.
PutAt(col, row) ==
  /\ Len(text) < MaxText
  /\ x' = col /\ y' = row /\ UNCHANGED sram
  /\ text' = Append(text, At(col, row))

Sys_set_cursor ==
  /\ AtOnce("set_cursor")
  /\ LET v == Args(2)
     IN  \/ /\ OutOfScreen(v)
            /\ r_a' = 1
            /\ UNCHANGED <<sram, x, y, text, astray>>
         \/ /\ ~OutOfScreen(v)
            /\ r_a' = 0 /\ astray' = FALSE
            /\ PutAt(v[1], v[2])
  /\ UNCHANGED <<local, plain>>

Fill(c) ==
  /\ sram' = video_cls(sram, c)
  /\ x' = 0 /\ y' = 0
  /\ text' = <<[k |-> "fill", c |-> c]>>
  /\ plain' = TRUE /\ astray' = FALSE

Sys_fill_screen ==
  /\ AtOnce("fill_screen")
  /\ Fill(Args(1)[1])
  /\ r_a' = 0
  /\ UNCHANGED local

Sys_get_char ==
  /\ AtOnce("get_char")
  /\ r_a' \in Key \cup {0}
  /\ UNCHANGED <<memory, screen>>

\* The accumulator keeps the value it has.
Sys_put_tile ==
  /\ AtOnce("put_tile")
  /\ LET tile == M!VmRead(local, sram, Word(Args(2)[1], Args(2)[2]), CharLines)
     IN  Becomes([Con EXCEPT !.chip = video_put_tile(@, x, y, tile)], [k |-> "tile", rows |-> tile])
  /\ UNCHANGED <<local, plain, astray, r_a>>

Sys_random  == AtOnce("random") /\ r_a' \in Random /\ UNCHANGED <<memory, screen>>
Sys_vsync   == AtOnce("vsync") /\ UNCHANGED <<memory, screen, r_a>>
Sys_srand   == AtOnce("srand") /\ r_a' = 0 /\ UNCHANGED <<memory, screen>>
Sys_version == AtOnce("version") /\ r_a' = 1 /\ UNCHANGED <<memory, screen>>

-----------------------------------------------------------------------------
(* The calls that go on.                                                   *)

Begin(f, addr, count, todo) ==
  /\ Ready
  /\ calls' = calls + 1
  /\ call' = Call(f, addr, count, todo)
  /\ busy' = TRUE
  /\ UNCHANGED <<memory, screen, r_sp>>

Return ==
  /\ busy' = FALSE
  /\ UNCHANGED <<memory, screen, control, call>>

\* The end of a program, asked for or by a call there is not.
Sys_exit ==
  /\ Begin("report", 0, 0, IF Args(1)[1] # 0 THEN text_err_prg ELSE text_err_ok)
  /\ prog_exit' = TRUE
  /\ UNCHANGED r_a

Sys_unknown ==
  /\ Begin("report", 0, 0, text_err_sys)
  /\ prog_exit' = TRUE
  /\ UNCHANGED r_a

Sys_put_string ==
  /\ Begin("put_string", Word(Args(2)[1], Args(2)[2]), 0, <<>>)
  /\ r_a' = 0
  /\ UNCHANGED prog_exit

Handle(v) == Word(v[1], v[2])

\* An empty write, or one to anything but the screen, does nothing.
Sys_write ==
  /\ LET v     == Args(6)
         count == IF Handle(v) \in {1, 2} THEN Word(v[5], v[6]) ELSE 0
     IN  Begin("write", Word(v[3], v[4]), count, <<>>) /\ r_a' = count % Base
  /\ UNCHANGED prog_exit

Sys_read ==
  /\ LET v == Args(6)
     IN  Begin("read", Word(v[3], v[4]), IF Handle(v) = 0 THEN Word(v[5], v[6]) ELSE 0, <<>>)
  /\ r_a' = 0
  /\ UNCHANGED prog_exit

\* count is the size of the buffer of buffered_input.
Sys_get_input ==
  /\ LET v    == Args(3)
         size == IF v[3] < InputLimit THEN v[3] ELSE InputLimit
     IN  Begin("get_input", Word(v[1], v[2]), size, <<>>)
  /\ UNCHANGED <<prog_exit, r_a>>

\* put_char, with what the call has left to do.
PutChar(c, left) ==
  /\ Becomes(put_char(Con, c), Char(c))
  /\ call' = [left EXCEPT !.done = Append(@, c)]

\* A character of a report, or of the chunk write has in its buffer.
PutNext ==
  /\ busy /\ call.todo # <<>>
  /\ PutChar(Head(call.todo), [call EXCEPT !.todo = Tail(@)])
  /\ UNCHANGED <<local, plain, astray, control, r_a, busy>>

ReportEnds == busy /\ call.f = "report" /\ call.todo = <<>> /\ Return /\ UNCHANGED r_a

\* put_string looks for its zero in memory, which it may be drawing on.
PutStringNext ==
  /\ busy /\ call.f = "put_string"
  /\ LET c == ReadByte(call.addr)
     IN  \/ c = 0 /\ Return /\ UNCHANGED r_a
         \/ /\ c # 0
            /\ PutChar(c, [call EXCEPT !.addr = (@ + 1) % MemSize])
            /\ r_a' = (r_a + 1) % Base
            /\ UNCHANGED <<local, plain, astray, control, busy>>

NextAddr_Same(size) == call.addr
NextAddr(size) == (call.addr + size) % MemSize

WriteChunk ==
  /\ busy /\ call.f = "write" /\ call.todo = <<>> /\ call.count > 0
  /\ LET size == IF call.count < Chunk THEN call.count ELSE Chunk
     IN  call' = [call EXCEPT !.todo = M!VmRead(local, sram, call.addr, size),
                              !.count = @ - size, !.addr = NextAddr(size)]
  /\ UNCHANGED <<memory, screen, control, r_a, busy>>

WriteEnds ==
  busy /\ call.f = "write" /\ call.todo = <<>> /\ call.count = 0 /\ Return /\ UNCHANGED r_a

\* read shows a key and stores it.  Both may be on the screen: the store is last.
ReadKey(c) ==
  /\ busy /\ call.f = "read" /\ call.count > 0
  /\ Len(text) < MaxText
  /\ LET con == put_char(Con, c)
     IN  /\ local' = M!LocalWritten(local, call.addr, <<c>>)
         /\ sram' = M!SramWritten(con.chip, call.addr, <<c>>)
         /\ plain' = (plain /\ call.addr \notin Video)
         /\ x' = con.x /\ y' = con.y
  /\ text' = Noted(Char(c))
  /\ call' = [call EXCEPT !.addr = (@ + 1) % MemSize, !.count = @ - 1, !.done = Append(@, c)]
  /\ r_a' = (r_a + 1) % Base
  /\ UNCHANGED <<control, busy, astray>>

ReadEnds == busy /\ call.f = "read" /\ call.count = 0 /\ Return /\ UNCHANGED r_a

-----------------------------------------------------------------------------
(* buffered_input: call.done is its buffer, call.pos the cursor in it.  The *)
(* keys that move past an end of the line, or add to a full one, do        *)
(* nothing.                                                                *)

EraseKey == 8
RightKey == 16
LeftKey  == 17
Typed    == Key \ {NewLine, EraseKey, RightKey, LeftKey}

Input == busy /\ call.f = "get_input"
End   == Len(call.done)

\* A size of 0 is never met; the model goes no further than the buffer.
NotFull == End + 1 # call.count /\ End + 1 < BufferSize

\* n cells after a cell, or before it.  A walk back starts from a column that
\* need not be on the screen, and only goes to the row above from the first one.
CellAfter(a, n) ==
  LET k == a.y * CHARS_WIDTH + a.x + n IN [x |-> k % CHARS_WIDTH, y |-> k \div CHARS_WIDTH]
CellBefore(a, n) == IF n <= a.x THEN [a EXCEPT !.x = @ - n] ELSE CellAfter(a, -n)

Here == [x |-> x, y |-> y]
Put(a, c) == [at |-> a, c |-> c]

\* video_put_char for each of a sequence of cells; the last one on an address
\* counts.
PutAll(chip, puts) ==
  [a \in DOMAIN chip |->
     LET lines(n) == {line \in 0..(CharLines - 1) : a = PixelAddr(puts[n].at.x, puts[n].at.y, line)}
         on       == {n \in DOMAIN puts : lines(n) # {}}
         last     == CHOOSE n \in on : \A m \in on : m <= n
     IN  IF on = {} THEN chip[a] ELSE Font[puts[last].c][1 + CHOOSE line \in lines(last) : TRUE]]

\* A key that edits the line.  The history of the screen starts again.
Edited(chip, a, line, pos, lost) ==
  /\ sram' = chip /\ x' = a.x /\ y' = a.y
  /\ call' = [call EXCEPT !.done = line, !.pos = pos]
  /\ astray' = lost
  /\ text' = IF lost THEN text ELSE <<text[1], At(a.x, a.y)>>
  /\ plain' = FALSE
  /\ UNCHANGED <<local, control, r_a, busy>>

InputLeft ==
  /\ Input /\ call.pos > 0
  /\ Edited(sram, CellBefore(Here, 1), call.done, call.pos - 1, astray)

InputRight ==
  /\ Input /\ call.pos < End
  /\ Edited(sram, CellAfter(Here, 1), call.done, call.pos + 1, astray)

\* The characters after the deleted one move back, and a blank comes last.
InputErase ==
  /\ Input /\ call.pos > 0
  /\ LET left == CellBefore(Here, 1)
         rest == SubSeq(call.done, call.pos + 1, End) \o <<Space>>
         puts == [n \in 1..Len(rest) |-> Put(CellAfter(left, n - 1), rest[n])]
     IN  Edited(PutAll(sram, puts), left, RemoveAt(call.done, call.pos), call.pos - 1, astray)

\* At the end of the line.
InputAppend(c) ==
  /\ Input /\ NotFull /\ call.pos = End
  /\ Becomes(Settled(Shown(Con, c)), [k |-> "key", c |-> c])
  /\ call' = [call EXCEPT !.done = Append(@, c), !.pos = @ + 1]
  /\ UNCHANGED <<local, plain, astray, control, r_a, busy>>

\* Inside the line: the column of its new end is wrapped at most once, there is
\* a scroll if that is below the screen, and then the characters from the cursor
\* on move by a cell, from the last one back.
InputInsert(c) ==
  /\ Input /\ NotFull /\ call.pos < End
  /\ LET col     == x + End - call.pos
         wraps   == col >= CHARS_WIDTH
         scrolls == wraps /\ y + 1 > LastRow
         row     == IF scrolls THEN y - 1 ELSE y
         end     == [x |-> IF wraps THEN col - CHARS_WIDTH ELSE col, y |-> IF wraps THEN row + 1 ELSE row]
         here    == [x |-> x, y |-> row]
         moved   == End - call.pos
         puts    == [n \in 1..(moved + 1) |->
                       IF n <= moved THEN Put(CellBefore(end, n - 1), call.done[End + 1 - n])
                                     ELSE Put(here, c)]
     IN  Edited(PutAll(IF scrolls THEN scroll_up(sram) ELSE sram, puts),
                here, InsertAt(call.done, call.pos + 1, c), call.pos,
                astray \/ end = [x |-> CHARS_WIDTH - 1, y |-> LastRow] \/ end.x >= CHARS_WIDTH)

InputKey ==
  \/ InputLeft \/ InputRight \/ InputErase
  \/ \E c \in Typed : InputAppend(c) \/ InputInsert(c)

\* The line is stored without the zero that ends it in the buffer.
InputEnds ==
  /\ Input
  /\ Len(text) < MaxText
  /\ LET con == LineFeed(Con)
     IN  /\ local' = M!LocalWritten(local, call.addr, call.done)
         /\ sram' = M!SramWritten(con.chip, call.addr, call.done)
         /\ plain' = (plain /\ Touched(call.addr, End) \cap Video = {})
         /\ x' = con.x /\ y' = con.y
  /\ text' = Noted(Char(NewLine))
  /\ r_a' = End
  /\ busy' = FALSE
  /\ UNCHANGED <<control, call, astray>>

-----------------------------------------------------------------------------
\* A program has been loaded and has its first arguments on the stack.
Init ==
  /\ \E p \in Pushes :
       /\ local = M!LocalWritten([a \in 0..(LocalSize - 1) |-> 0], StackTop(p.sp), p.src)
       /\ r_sp = p.sp
  /\ sram = video_cls([a \in Addr |-> IF a \in DOMAIN Data THEN Data[a] ELSE 0], Space)
  /\ r_a = 0 /\ prog_exit = FALSE
  /\ x = 0 /\ y = 0 /\ text = <<[k |-> "fill", c |-> Space]>>
  /\ plain = TRUE /\ astray = FALSE
  /\ call = NoCall /\ busy = FALSE /\ calls = 0

Program == (\E s \in Stores : Store(s)) \/ (\E p \in Pushes : Push(p)) \/ Run

Vm_syscall ==
  \/ Sys_exit \/ Sys_load \/ Sys_save
  \/ Sys_put_char \/ Sys_put_string \/ Sys_set_cursor \/ Sys_fill_screen \/ Sys_write
  \/ Sys_get_char \/ Sys_get_input \/ Sys_read \/ Sys_put_tile
  \/ Sys_random \/ Sys_vsync \/ Sys_srand \/ Sys_version \/ Sys_unknown
  \/ PutNext \/ ReportEnds \/ PutStringNext \/ WriteChunk \/ WriteEnds
  \/ (\E c \in Key : ReadKey(c)) \/ ReadEnds \/ InputKey \/ InputEnds

Next == Program \/ Vm_syscall

Spec == Init /\ [][Next]_vars

-----------------------------------------------------------------------------
(* Properties.                                                             *)

\* Where the text goes on a roll of paper without an end, of which the screen
\* is a window: after n of its events, the row and column of the next one and
\* the first row of the window.
Larger(a, b) == IF a > b THEN a ELSE b
Onwards(p, c) ==
  CASE c = NewLine -> [p EXCEPT !.row = @ + 1, !.col = 0]
    [] c = Tab     -> [p EXCEPT !.col = CHOOSE t \in (@ + 1)..(@ + TabStop) : t % TabStop = 0]
    [] OTHER       -> [p EXCEPT !.col = @ + 1]
Wrapped(p) == IF p.col < CHARS_WIDTH THEN p ELSE [p EXCEPT !.row = @ + 1, !.col = 0]
MovedTo(p, e) == [p EXCEPT !.col = e.x, !.row = p.top + e.y]
Feed(p) == [p EXCEPT !.top = Larger(@, p.row - CHARS_HEIGHT + 1)]

Paper ==
  LET place[n \in 1..Len(text)] ==
        IF n = 1 THEN [row |-> 0, col |-> 0, top |-> 0]
        ELSE CASE text[n].k = "char" -> Feed(Wrapped(Onwards(place[n - 1], text[n].c)))
               [] text[n].k = "key"  -> Feed(Wrapped([place[n - 1] EXCEPT !.col = @ + 1]))
               [] text[n].k = "at"   -> MovedTo(place[n - 1], text[n])
               [] text[n].k = "tile" -> place[n - 1]
  IN  place

Draws(e) == e.k \in {"tile", "key"} \/ (e.k = "char" /\ e.c \notin {NewLine, Tab})

\* The last thing drawn on a cell of the paper, or else what the screen was
\* filled with; rows that came in later are clear.
Glyph(paper, row, col) ==
  LET on == {n \in 2..Len(text) : Draws(text[n]) /\ paper[n - 1].row = row /\ paper[n - 1].col = col}
      n  == CHOOSE last \in on : \A other \in on : other <= last
  IN  IF on = {} THEN IF row < CHARS_HEIGHT THEN Font[text[1].c] ELSE [i \in 1..CharLines |-> 0]
      ELSE IF text[n].k = "tile" THEN text[n].rows ELSE Font[text[n].c]

\* The screen is what a terminal shows of all that was printed, typed, drawn
\* and moved since it was filled, whichever calls did it and however often it
\* scrolled, unless the program has written to the screen by itself or a line
\* was edited; and the cursor is where the next character goes, after edits too,
\* until a line goes astray.  A tab goes to the next tab stop and draws nothing
\* (put_char), where docs/manual.markdown has "0x09 (as 8 spaces)".
ShowsPrinted ==
  ~astray =>
    LET paper == Paper
        end   == paper[Len(text)]
    IN  /\ x = end.col /\ y = end.row - end.top
        /\ plain => \A row \in 0..(CHARS_HEIGHT - 1), col \in 0..(CHARS_WIDTH - 1) :
                      \A line \in 1..CharLines :
                        sram[VIDEO_ADDR + (row * CharLines + line - 1) * CHARS_WIDTH + col] =
                          Glyph(paper, end.top + row, col)[line]

\* What a call was asked to fill.
Destination ==
  CASE call.f = "read"      -> {call.addr}
    [] call.f = "get_input" -> Touched(call.addr, Len(call.done))
    [] OTHER                -> {}

OnlyScreenChanges ==
  ~astray' /\ (busy \/ call'.f \notin {"none", "load"}) =>
    /\ \A a \in Addr \ Video : sram'[a] # sram[a] => a \in Destination
    /\ \A a \in 0..(LocalSize - 1) : local'[a] # local[a] => a \in Destination

\* Wherever the cursor is put and whatever is printed or edited, drawing changes
\* the screen only: not the program, its zero page or its stack.  The exception
\* is a line that has gone astray in call 0x21: an inserted character has moved
\* its end to the last cell, and no scroll made room for the cursor (main.c:213).
\* Going right then takes the cursor to row 24, and what is typed there goes to
\* 0x1a00, where programs are; only set cursor and fill screen bring it back.
DrawingKeepsMemory == [][OnlyScreenChanges]_vars

\* The bytes of the program at an address.
Holds(a, n) == [i \in 1..n |-> ReadByte((a + i - 1) % MemSize)]

MovedIsShown ==
  busy /\ ~busy' /\ call.f # "report" =>
    LET n == Len(call.done)
    IN  /\ r_a' = n % Base
        /\ call.f \in {"write", "read"} => call.count = 0
        /\ (astray => call.f = "get_input") /\ Touched(call.start, n) \cap Video = {}
           /\ (call.f = "put_string" \/ call.start + n <= MemSize)
             => Holds(call.start, n)' = call.done
        /\ call.f = "put_string" => ReadByte(call.addr) = 0 /\ call.addr = (call.start + n) % MemSize

\* When a call that moves text ends, what the screen showed (for call 0x21, the
\* line as it was edited) is what memory holds at the address it was given, up
\* to its zero or as many as asked for, and the accumulator says how many, as a
\* byte.  The exceptions are text on the screen itself, a write that goes on past
\* the end of memory, and what is shown below the screen by calls that come after
\* a line went astray, as it may be drawn over the text.  Call 0x21 neither stores
\* nor counts the zero that ends the line, where docs/manual.markdown has
\* "including the zero end".
TextMoved == [][MovedIsShown]_vars
=============================================================================
