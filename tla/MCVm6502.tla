------------------------------ MODULE MCVm6502 ------------------------------
(***************************************************************************)
(* Two kinds of programs.  Those that use the stack are four pieces of     *)
(* three bytes, of every combination of the menus below; the third piece   *)
(* is also where a break goes.  Those with a result to compare are a       *)
(* multiplication by shifting and adding, and a copy through pointers,     *)
(* over every combination of some numbers and places.                      *)
(***************************************************************************)
EXTENDS Vm6502

Returns == {
  <<\H60, \H02, \Hea>>,  \* RTS; SYS; NOP
  <<\H40, \Hea, \Hea>>}  \* RTI
Bytes == {
  <<\Ha9, \H05, \H48>>,  \* LDA #5; PHA
  <<\H48, \H68, \H68>>,  \* PHA; PLA; PLA
  <<\H28, \H02, \Hea>>}  \* PLP; SYS; NOP
Calls == {
  <<\H20, \H09, \H1a>>,  \* JSR fourth piece
  <<\H00, \Hea, \H02>>}  \* BRK; padding; SYS
Others == {
  <<\Ha2, \H00, \H9a>>,  \* LDX #0; TXS
  <<\Ha2, \H01, \H9a>>,  \* LDX #1; TXS
  <<\H38, \H08, \H18>>,  \* SEC; PHP; CLC
  <<\H20, \H06, \H1a>>,  \* JSR third piece
  <<\H8d, \Hfe, \H01>>,  \* STA $01fe
  <<\Ha9, \H21, \H02>>,  \* LDA #$21; SYS
  <<\Ha9, \H22, \H02>>}  \* LDA #$22; SYS

Menu(k) ==
  CASE k = 0 -> Returns \cup Bytes \cup Calls \cup Others
    [] k = 1 -> Returns \cup Bytes \cup Calls \cup Others
    [] k = 2 -> Returns \cup Bytes \cup Calls
    [] k = 3 -> Returns \cup Bytes

\* The bytes of a program, from PROG_START on, and others beside it.
At(start, bytes) == [a \in start..(start + Len(bytes) - 1) |-> bytes[a - start + 1]]
Both(f, g) == [a \in DOMAIN f \cup DOMAIN g |-> IF a \in DOMAIN f THEN f[a] ELSE g[a]]

BreakVector == At(\Hfffe, <<\H06, \H1a>>)
Stop == <<\Hff>>  \* no instruction

StackPrograms ==
  {Both(At(PROG_START, p \o q \o r \o s \o Stop), BreakVector) :
     p \in Menu(0), q \in Menu(1), r \in Menu(2), s \in Menu(3)}

-----------------------------------------------------------------------------
Small == {0, 1, 4, 5, 7}
Factors == {0, 1, 85, 127, 128, 200, 255}
Places  == {\H30, \H1fd, \H1fe, \H1ff, \H200, \H3000, \Hfffa}
Block   == <<11, 22>>

Low8(w)  == w % 256
High8(w) == w \div 256

\* $11 times $10, of which three bits count: 32 times the product, with its
\* high byte in A and $12 and the low one in $10.
Multiply(m, n) == <<
  \Ha9, m, \H85, \H10, \Ha9, n, \H85, \H11,  \* LDA #m; STA $10; LDA #n; STA $11
  \Ha9, 0, \Ha2, 3, \H46, \H10,              \* LDA #0; LDX #3; LSR $10
  \H90, 3, \H18, \H65, \H11,                 \* BCC over; CLC; ADC $11
  \H6a, \H66, \H10, \Hca, \Hd0, \Hf5,        \* over: ROR A; ROR $10; DEX; BNE BCC
  \H85, \H12, \Hff>>                         \* STA $12

\* Block is written at p, and copied from there to q, last byte first.
Copy(p, q) == <<
  \Ha9, Low8(p), \H85, \H20, \Ha9, High8(p), \H85, \H21,
  \Ha9, Low8(q), \H85, \H22, \Ha9, High8(q), \H85, \H23,
  \Ha0, 1,                                   \* LDY #1
  \Hb9, \H80, \H1a, \H91, \H20, \H88, \H10, \Hf8, \* loop: LDA $1a80,Y; STA ($20),Y; DEY; BPL
  \H4c, \H1d, \H1a, \Ha0, 1,                 \* JMP on; on: LDY #1
  \Hb1, \H20, \H91, \H22, \H88, \H10, \Hf9,  \* loop: LDA ($20),Y; STA ($22),Y; DEY; BPL
  \Hff>>

Multiplications == {At(PROG_START, Multiply(m, n)) : m \in Small, n \in Factors}
\* The destination may overlap the source from above only.
Moves  == {m \in Places \X Places : m[2] # m[1] - 1}
Copies == {Both(At(PROG_START, Copy(m[1], m[2])), At(\H1a80, Block)) : m \in Moves}

AllPrograms == StackPrograms \cup Multiplications \cup Copies

Lines == {<<>>, <<7>>}

-----------------------------------------------------------------------------
Halted == ~running /\ steps < MaxSteps
Multiplied == Halted /\ r_pc = PROG_START + 27
Copied     == Halted /\ r_pc = PROG_START + 38

\* The multiplication ends with the product of its operands: the additions,
\* rotations and branches hand the carry on to each other.  The copy ends with
\* the block at its destination, wherever that is in the two memories and
\* however the block falls over their border.
ProgramsCompute ==
  /\ Multiplied =>
       256 * ReadByte(\H12) + ReadByte(\H10) = 32 * sram[PROG_START + 1] * sram[PROG_START + 5]
  /\ Copied => Read(WordOf(Read(\H22, 2)), 2) = Block
=============================================================================
