-------------------------------- MODULE Isa --------------------------------
(***************************************************************************)
(* The instructions vm_exec decodes (vm/vm.c): opcode, name and addressing *)
(* mode, how many bytes each takes, and where a branch goes.  The first    *)
(* three bits of an opcode are its row in a table of 32 columns.           *)
(***************************************************************************)
EXTENDS Alu, Sequences

Family(mne, row, codes) ==
  {[code |-> 32 * row + codes[mode], mne |-> mne, mode |-> mode] : mode \in DOMAIN codes}

Memory3  == [zp |-> 4, abs |-> 12, zpx |-> 20]
Memory3y == [zp |-> 6, abs |-> 14, zpy |-> 22]
Memory4  == [zp |-> 6, abs |-> 14, zpx |-> 22, absx |-> 30]
Shift5   == [zp |-> 6, acc |-> 10, abs |-> 14, zpx |-> 22, absx |-> 30]
Store7   == [indx |-> 1, zp |-> 5, abs |-> 13, indy |-> 17,
             zpx |-> 21, absy |-> 25, absx |-> 29]
Operand8 == [indx |-> 1, zp |-> 5, imm |-> 9, abs |-> 13, indy |-> 17,
             zpx |-> 21, absy |-> 25, absx |-> 29]

\* An opcode by its two hexadecimal digits.
Implied(high, low, mne) == {[code |-> 16 * high + low, mne |-> mne, mode |-> "implied"]}

Accumulator ==
  Family("ORA", 0, Operand8) \cup Family("AND", 1, Operand8) \cup
  Family("EOR", 2, Operand8) \cup Family("ADC", 3, Operand8) \cup
  Family("STA", 4, Store7)   \cup Family("LDA", 5, Operand8) \cup
  Family("CMP", 6, Operand8) \cup Family("SBC", 7, Operand8) \cup
  Family("BIT", 1, [zp |-> 4, abs |-> 12])

Memory1 ==
  Family("ASL", 0, Shift5) \cup Family("ROL", 1, Shift5) \cup
  Family("LSR", 2, Shift5) \cup Family("ROR", 3, Shift5) \cup
  Family("DEC", 6, Memory4) \cup Family("INC", 7, Memory4)

Index ==
  Family("LDX", 5, [imm |-> 2, zp |-> 6, abs |-> 14, zpy |-> 22, absy |-> 30]) \cup
  Family("LDY", 5, [imm |-> 0, zp |-> 4, abs |-> 12, zpx |-> 20, absx |-> 28]) \cup
  Family("CPX", 7, [imm |-> 0, zp |-> 4, abs |-> 12]) \cup
  Family("CPY", 6, [imm |-> 0, zp |-> 4, abs |-> 12]) \cup
  Family("STX", 4, Memory3y) \cup Family("STY", 4, Memory3)

Registers ==
  Implied(10, 10, "TAX") \cup Implied(8, 10, "TXA") \cup Implied(10, 8, "TAY") \cup
  Implied(9, 8, "TYA") \cup Implied(11, 10, "TSX") \cup Implied(9, 10, "TXS") \cup
  Implied(14, 8, "INX") \cup Implied(12, 10, "DEX") \cup Implied(12, 8, "INY") \cup
  Implied(8, 8, "DEY") \cup Implied(14, 10, "NOP") \cup Implied(1, 8, "CLC") \cup
  Implied(3, 8, "SEC") \cup Implied(5, 8, "CLI") \cup Implied(7, 8, "SEI") \cup
  Implied(13, 8, "CLD") \cup Implied(15, 8, "SED") \cup Implied(11, 8, "CLV")

Control ==
  Implied(1, 0, "BPL") \cup Implied(3, 0, "BMI") \cup Implied(5, 0, "BVC") \cup
  Implied(7, 0, "BVS") \cup Implied(9, 0, "BCC") \cup Implied(11, 0, "BCS") \cup
  Implied(13, 0, "BNE") \cup Implied(15, 0, "BEQ") \cup Implied(4, 8, "PHA") \cup
  Implied(6, 8, "PLA") \cup Implied(0, 8, "PHP") \cup Implied(2, 8, "PLP") \cup
  Implied(6, 0, "RTS") \cup Implied(4, 0, "RTI") \cup Implied(0, 0, "BRK") \cup
  Implied(0, 2, "SYS") \cup Family("JSR", 1, [abs |-> 0]) \cup
  Family("JMP", 2, [abs |-> 12, ind |-> 44])

Instructions == Accumulator \cup Memory1 \cup Index \cup Registers \cup Control

Decode == [c \in {i.code : i \in Instructions} |-> CHOOSE i \in Instructions : i.code = c]

Branches == {"BPL", "BMI", "BVC", "BVS", "BCC", "BCS", "BNE", "BEQ"}

\* The bytes an instruction takes: pt after its reads, or r_pc++ of a branch.
LengthOf(instr) ==
  IF instr.mne \in Branches THEN 2
  ELSE CASE instr.mode \in {"implied", "acc"} -> 1
         [] instr.mode \in {"abs", "absx", "absy", "ind"} -> 3
         [] OTHER -> 2

BranchTarget(pc, offset) == (pc + 2 + Signed(offset)) % 65536
=============================================================================
