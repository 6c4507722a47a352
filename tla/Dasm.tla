------------------------------- MODULE Dasm --------------------------------
(***************************************************************************)
(* The assembler and the disassembler (dasm/dasm.c).  A line is a sequence *)
(* of tokens [t, v]: a name, a register, a sign or "sp" for blanks, with   *)
(* nothing in v; "num" with the number typed; "text" with the characters   *)
(* between two quotes.  Names and registers stand for either case of their *)
(* letters.  The modes have the names of Isa, and "rel" for AT_RELATIVE.   *)
(*                                                                         *)
(* OPCODES is 153 and vm_op_tbl has 152 rows: a search that fails goes on  *)
(* into the five bytes after the table, whatever the linker put there.     *)
(***************************************************************************)
EXTENDS Integers, Sequences, SequencesExt, Folds

VARIABLE after  \* those five bytes, as a row

-----------------------------------------------------------------------------
(* The table.                                                              *)

\* The two digits of an opcode, as in the table.
A == 10
B == 11
C == 12
D == 13
E == 14
F == 15
Op(high, low) == 16 * high + low

ImpliedRows == [BRK |-> Op(0,0), SYS |-> Op(0,2), PHP |-> Op(0,8), CLC |-> Op(1,8), PLP |-> Op(2,8),
                SEC |-> Op(3,8), RTI |-> Op(4,0), PHA |-> Op(4,8), CLI |-> Op(5,8), RTS |-> Op(6,0),
                PLA |-> Op(6,8), SEI |-> Op(7,8), DEY |-> Op(8,8), TXA |-> Op(8,A), TYA |-> Op(9,8),
                TXS |-> Op(9,A), TAY |-> Op(A,8), TAX |-> Op(A,A), CLV |-> Op(B,8), TSX |-> Op(B,A),
                INY |-> Op(C,8), DEX |-> Op(C,A), CLD |-> Op(D,8), INX |-> Op(E,8), NOP |-> Op(E,A),
                SED |-> Op(F,8)]

RelativeRows == [BPL |-> Op(1,0), BMI |-> Op(3,0), BVC |-> Op(5,0), BVS |-> Op(7,0), BCC |-> Op(9,0),
                 BCS |-> Op(B,0), BNE |-> Op(D,0), BEQ |-> Op(F,0)]

OperandRows == [
  ORA |-> [zpx |-> {Op(0,1), Op(1,5)}, zp |-> {Op(0,5)}, imm |-> {Op(0,9)}, abs |-> {Op(0,D)},
           indy |-> {Op(1,1)}, absy |-> {Op(1,9)}, absx |-> {Op(1,D), Op(3,D)}],
  ASL |-> [zp |-> {Op(0,6)}, acc |-> {Op(0,A)}, abs |-> {Op(0,E)}, zpx |-> {Op(1,6)}, absx |-> {Op(1,E)}],
  JSR |-> [abs |-> {Op(2,0)}],
  AND |-> [zpx |-> {Op(2,1), Op(3,5)}, zp |-> {Op(2,5)}, imm |-> {Op(2,9)}, abs |-> {Op(2,D)},
           indy |-> {Op(3,1)}, absy |-> {Op(3,9)}],
  BIT |-> [zp |-> {Op(2,4)}, abs |-> {Op(2,C)}],
  ROL |-> [zp |-> {Op(2,6)}, acc |-> {Op(2,A)}, abs |-> {Op(2,E)}, zpx |-> {Op(3,6)}, absx |-> {Op(3,E)}],
  EOR |-> [indx |-> {Op(4,1)}, zp |-> {Op(4,5)}, imm |-> {Op(4,9)}, abs |-> {Op(4,D)}, indy |-> {Op(5,1)},
           zpx |-> {Op(5,5)}, absy |-> {Op(5,9)}, absx |-> {Op(5,D)}],
  LSR |-> [zp |-> {Op(4,6)}, acc |-> {Op(4,A)}, abs |-> {Op(4,E)}, zpx |-> {Op(5,6)}, absx |-> {Op(5,E)}],
  JMP |-> [abs |-> {Op(4,C)}, ind |-> {Op(6,C)}],
  ADC |-> [zpx |-> {Op(6,1), Op(7,5)}, zp |-> {Op(6,5)}, imm |-> {Op(6,9)}, abs |-> {Op(6,D)},
           indy |-> {Op(7,1)}, absy |-> {Op(7,9)}, absx |-> {Op(7,D)}],
  ROR |-> [zp |-> {Op(6,6)}, acc |-> {Op(6,A)}, abs |-> {Op(6,E)}, zpx |-> {Op(7,6)}, absx |-> {Op(7,E)}],
  STA |-> [indx |-> {Op(8,1)}, zp |-> {Op(8,5)}, abs |-> {Op(8,D)}, indy |-> {Op(9,1)}, zpx |-> {Op(9,5)},
           absy |-> {Op(9,9)}, absx |-> {Op(9,D)}],
  STY |-> [zp |-> {Op(8,4)}, abs |-> {Op(8,C)}, zpx |-> {Op(9,4)}],
  STX |-> [zp |-> {Op(8,6)}, abs |-> {Op(8,E)}, zpy |-> {Op(9,6)}],
  LDY |-> [imm |-> {Op(A,0)}, zp |-> {Op(A,4)}, abs |-> {Op(A,C)}, zpx |-> {Op(B,4)}, absx |-> {Op(B,C)}],
  LDA |-> [zpx |-> {Op(A,1), Op(B,5)}, zp |-> {Op(A,5)}, imm |-> {Op(A,9)}, abs |-> {Op(A,D)},
           indy |-> {Op(B,1)}, absy |-> {Op(B,9)}, absx |-> {Op(B,D)}],
  LDX |-> [imm |-> {Op(A,2)}, zp |-> {Op(A,6)}, abs |-> {Op(A,E)}, zpy |-> {Op(B,6)}, absy |-> {Op(B,E)}],
  CPY |-> [imm |-> {Op(C,0)}, zp |-> {Op(C,4)}, abs |-> {Op(C,C)}],
  CMP |-> [zpx |-> {Op(C,1), Op(D,5)}, zp |-> {Op(C,5)}, imm |-> {Op(C,9)}, abs |-> {Op(C,D)},
           indy |-> {Op(D,1)}, absy |-> {Op(D,9)}, absx |-> {Op(D,D)}],
  DEC |-> [zp |-> {Op(C,6)}, abs |-> {Op(C,E)}, zpx |-> {Op(D,6)}, absx |-> {Op(D,E)}],
  CPX |-> [imm |-> {Op(E,0)}, zp |-> {Op(E,4)}, abs |-> {Op(E,C)}],
  SBC |-> [zpx |-> {Op(E,1), Op(F,5)}, zp |-> {Op(E,5)}, imm |-> {Op(E,9)}, abs |-> {Op(E,D)},
           indy |-> {Op(F,1)}, absy |-> {Op(F,9)}, absx |-> {Op(F,D)}],
  INC |-> [zp |-> {Op(E,6)}, abs |-> {Op(E,E)}, zpx |-> {Op(F,6)}, absx |-> {Op(F,E)}]]

Plain(rows, mode) == {[mne |-> n, code |-> rows[n], mode |-> mode] : n \in DOMAIN rows}
Rows(n, modes) ==
  UNION {{[mne |-> n, code |-> c, mode |-> mode] : c \in modes[mode]} : mode \in DOMAIN modes}

vm_op_tbl ==
  Plain(ImpliedRows, "implied") \cup Plain(RelativeRows, "rel") \cup
  UNION {Rows(n, OperandRows[n]) : n \in DOMAIN OperandRows}

\* The rows are in the order of their opcodes, so the first is the least.
First(rows) == CHOOSE r \in rows : \A q \in rows : r.code <= q.code

Named(n) == {r \in vm_op_tbl : r.mne = n}
InMode(rows, mode) == {r \in rows : r.mode = mode}

\* find_mne, with a mode and with any; "Has" is that it found something.
HasMne(n)    == Named(n) # {} \/ after.mne = n
Has(n, mode) == InMode(Named(n), mode) # {} \/ (after.mne = n /\ after.mode = mode)
find_mne(n, mode) == LET rows == InMode(Named(n), mode) IN IF rows = {} THEN after ELSE First(rows)

-----------------------------------------------------------------------------
(* dasm_as: the bytes.  cmd_as takes a negative length and 0 alike, so no   *)
(* bytes stand for both.                                                   *)

Rejected == <<>>

Tok(t)  == [t |-> t, v |-> <<>>]
Num(n)  == [t |-> "num", v |-> <<n>>]
Text(s) == [t |-> "text", v |-> s]
Tokens  == {k \in [t : STRING, v : Seq(Nat)] : k.t = "num" => k.v # <<>>}

\* Blanks are passed over.
Solid(line) ==
  LET upto[i \in 0..Len(line)] ==
        IF i = 0 THEN <<>>
        ELSE IF line[i].t = "sp" THEN upto[i - 1] ELSE Append(upto[i - 1], line[i])
  IN  upto[Len(line)]
Shape(line) == LET s == Solid(line) IN [i \in DOMAIN s |-> s[i].t]

\* get_value reads into 16 bits.
Value(token) == token.v[1] % 65536
\* The first number of a line; no mode has two.
ValueIn(line) ==
  LET first == SelectInSeq(line, LAMBDA k : k.t = "num")
  IN  IF first = 0 THEN 0 ELSE Value(line[first])

\* Blanks are skipped everywhere but before a number after # or (, and before
\* the Y of (nn),Y.
Tight(line) ==
  \A i \in 2..Len(line) : line[i].t = "sp" =>
    /\ line[i - 1].t \notin {"#", "("}
    /\ ~IsSuffix(<<")", ",">>, Shape(SubSeq(line, 1, i - 1)))

Direct_Wide(n, v, short, long) == IF v <= 256 /\ Has(n, short) THEN short ELSE long

\* A number below 256 is taken for the zero page if the instruction can.
Direct(n, v, short, long) == IF v <= 255 /\ Has(n, short) THEN short ELSE long

\* The mode a line asks for; "none" is an error.
ModeOf(n, shape, v) ==
  CASE shape = <<>>                           -> "implied"
    [] shape = <<"A">>                        -> "acc"
    [] shape = <<"#", "num">>                 -> "imm"
    [] shape = <<"(", "num", ")">>            -> "ind"
    [] shape = <<"(", "num", ")", ",", "Y">>  -> "indy"
    [] shape = <<"(", "num", ",", "X", ")">>  -> "indx"
    [] shape = <<"num">>             -> Direct(n, v, "zp", IF Has(n, "rel") THEN "rel" ELSE "abs")
    [] shape = <<"num", ",", "X">>   -> Direct(n, v, "zpx", "absx")
    [] shape = <<"num", ",", "Y">>   -> Direct(n, v, "zpy", "absy")
    [] OTHER                         -> "none"

Width_Ind(mode) ==
  CASE mode \in {"implied", "acc"} -> 1
    [] mode \in {"abs", "absx", "absy"} -> 3
    [] OTHER -> 2

Width(mode) ==
  CASE mode \in {"implied", "acc"} -> 1
    [] mode \in {"abs", "absx", "absy", "ind"} -> 3
    [] OTHER -> 2

\* The offset is cast to 8 bits before its range is tested, so it always fits.
Offset(addr, v) == (v - addr - 1) % 256

emit_op(row, v, len) == SubSeq(<<row.code, v % 256, v \div 256>>, 1, len)

Instruction(addr, line) ==
  LET n    == Head(line).t
      args == Tail(line)
      v    == ValueIn(args)
      mode == ModeOf(n, Shape(args), v)
      fits == mode \in {"imm", "indx", "indy"} => v <= 255
  IN  IF HasMne(n) /\ Tight(args) /\ mode # "none" /\ fits /\ Has(n, mode)
      THEN emit_op(find_mne(n, mode), IF mode = "rel" THEN Offset(addr, v) ELSE v, Width(mode))
      ELSE Rejected

Quote     == 34
Backslash == 92

\* A backslash before a quote gives the quote.
Unescaped(s) ==
  FlattenSeq([i \in DOMAIN s |->
    IF s[i] = Backslash /\ i < Len(s) /\ s[i + 1] = Quote THEN <<>> ELSE <<s[i]>>])

IsDatum(k) == k.t \in {",", "sp", "text"} \/ (k.t = "num" /\ Value(k) <= 255)
Datum(k) ==
  CASE k.t = "num"  -> <<Value(k)>>
    [] k.t = "text" -> Unescaped(k.v)
    [] OTHER        -> <<>>

\* A line that starts with a dot; blanks are not skipped after the dot.
Data(items) ==
  IF items # <<>> /\ Head(items).t # "sp" /\ \A i \in DOMAIN items : IsDatum(items[i])
  THEN FlattenSeq([i \in DOMAIN items |-> Datum(items[i])])
  ELSE Rejected

\* A blank at the start is skipped.
Unblanked(line) == IF line # <<>> /\ Head(line).t = "sp" THEN Tail(line) ELSE line
Starts(line, t) == Unblanked(line) # <<>> /\ Head(Unblanked(line)).t = t

dasm_as(addr, input) ==
  CASE Unblanked(input) = <<>> -> Rejected
    [] Starts(input, ".")      -> Data(Tail(Unblanked(input)))
    [] OTHER                   -> Instruction(addr, Unblanked(input))

-----------------------------------------------------------------------------
(* dasm_das: the line for the instruction at addr, op being three bytes,   *)
(* and how many of them it takes.                                          *)

SignedByte_Positive(b) == IF b > 128 THEN b - 256 ELSE b
SignedByte(b) == IF b >= 128 THEN b - 256 ELSE b
Target_Next(addr, b) == (addr + 2 + SignedByte(b)) % 65536
Target(addr, b) == (addr + 1 + SignedByte(b)) % 65536

Operands(addr, mode, op) ==
  LET byte == Num(op[2])
      word == Num(op[2] + 256 * op[3])
  IN  CASE mode = "abs"  -> <<word>>
        [] mode = "imm"  -> <<Tok("#"), byte>>
        [] mode = "zp"   -> <<byte>>
        [] mode = "ind"  -> <<Tok("("), word, Tok(")")>>
        [] mode = "absx" -> <<word, Tok(","), Tok("X")>>
        [] mode = "absy" -> <<word, Tok(","), Tok("Y")>>
        [] mode = "zpx"  -> <<byte, Tok(","), Tok("X")>>
        [] mode = "zpy"  -> <<byte, Tok(","), Tok("Y")>>
        [] mode = "indx" -> <<Tok("("), byte, Tok(","), Tok("X"), Tok(")")>>
        [] mode = "indy" -> <<Tok("("), byte, Tok(")"), Tok(","), Tok("Y")>>
        [] mode = "rel"  -> <<Num(Target(addr, op[2]))>>
        [] mode = "acc"  -> <<Tok("A")>>
        [] OTHER         -> <<>>

ListWidth(mode) == IF mode = "none" THEN 1 ELSE Width(mode)

Coded(c) == {r \in vm_op_tbl : r.code = c}

dasm_das(addr, op) ==
  LET rows == Coded(op[1])
      row  == IF rows = {} THEN after ELSE First(rows)
      gap  == IF row.mode = "implied" THEN <<>> ELSE <<Tok("sp")>>
  IN  IF row.code = op[1]
      THEN [line |-> <<Tok(row.mne)>> \o gap \o Operands(addr, row.mode, op), len |-> ListWidth(row.mode)]
      ELSE [line |-> <<Tok("???")>>, len |-> 1]
=============================================================================
