-------------------------------- MODULE Alu --------------------------------
(***************************************************************************)
(* The arithmetic of the virtual machine (vm/vm.c): what ADC, SBC, the     *)
(* comparisons and the shifts make of their operands, as values of 8 bits  *)
(* and sets of flags.  The code computes in 16 bits and takes them apart;  *)
(* the flags of r_s are a set of the numbers vm.h gives them.              *)
(***************************************************************************)
EXTENDS Integers

Byte == 0..255
Bit  == {0, 1}

Cf == 0
Zf == 1
If == 2
Df == 3
Bf == 4
Vf == 6
Nf == 7

When(cond, flag) == IF cond THEN {flag} ELSE {}

\* testN and testZ.
NZ(v) == When(v >= 128, Nf) \cup When(v = 0, Zf)

Negative(v) == v >= 128

\* The two digits of a byte.
Low(v)  == v % 16
High(v) == v \div 16

\* A result and the flags it comes with; the instruction clears the others
\* of those it names.
Result(v, flags) == [v |-> v, f |-> flags]

-----------------------------------------------------------------------------
AdcV_Signless(a, m, v) == Negative(a) # Negative(v)
\* Overflow of a sum: the operands agree in sign and the result does not.
AdcV(a, m, v) == Negative(a) = Negative(m) /\ Negative(a) # Negative(v)

Adc_CarryLate(a, m, c) ==
  LET v == (a + m + c) % 256
  IN  Result(v, NZ(v) \cup When(AdcV(a, m, v), Vf) \cup When(a + m > 255, Cf))
Adc(a, m, c) ==
  LET t == a + m + c
      v == t % 256
  IN  Result(v, NZ(v) \cup When(AdcV(a, m, v), Vf) \cup When(t > 255, Cf))

\* A decimal digit that went over 9.
Adjusted(t) == IF t > 9 THEN t + 6 ELSE t

AdcDecimal(a, m, c) ==
  LET low  == Adjusted(Low(a) + Low(m) + c)
      high == Adjusted(High(a) + High(m) + (IF low > 15 THEN 1 ELSE 0))
      v    == Low(low) + 16 * Low(high)
  IN  Result(v, When(v = 0, Zf) \cup When(high > 15, Cf))

\* Overflow of a difference: the operands differ in sign and the result has
\* not that of the first.
SbcV(a, m, v) == Negative(a) # Negative(m) /\ Negative(a) # Negative(v)

Sbc(a, m, c) ==
  LET t == a - m - (1 - c)
      v == t % 256
  IN  Result(v, NZ(v) \cup When(SbcV(a, m, v), Vf) \cup When(t >= 0, Cf))

\* Bit 4 of a 16 bit value: the code's test for a borrow.
Borrow(t) == High(t) % 2

\* A decimal digit that went below 0.
Borrowed(t) == IF Borrow(t) = 1 THEN t - 6 ELSE t

SbcDecimal(a, m, c) ==
  LET low  == Borrowed(Low(a) - Low(m) - (1 - c))
      high == Borrowed(High(a) - High(m) - Borrow(low))
      v    == Low(low) + 16 * Low(high)
  IN  Result(v, When(v = 0, Zf) \cup When(high >= 0, Cf))

Compare_Signed(r, m) == Result((r - m) % 256, NZ((r - m) % 256) \cup When(r > m, Cf))
\* CMP, CPX and CPY: r_ts, and the flags.
Compare(r, m) == Result((r - m) % 256, NZ((r - m) % 256) \cup When(r >= m, Cf))

-----------------------------------------------------------------------------
(* Shifts and rotations by one bit.                                        *)

Asl(v) == Result((2 * v) % 256, NZ((2 * v) % 256) \cup When(v >= 128, Cf))

Lsr(v) == Result(v \div 2, When(v \div 2 = 0, Zf) \cup When(v % 2 = 1, Cf))

Rol(v, c) ==
  LET w == ((2 * v) % 256) + c
  IN  Result(w, NZ(w) \cup When(v >= 128, Cf))

Ror(v, c) ==
  LET w == v \div 2 + 128 * c
  IN  Result(w, NZ(w) \cup When(v % 2 = 1, Cf))

-----------------------------------------------------------------------------
(* Reference definitions.                                                  *)

Carry(r) == IF Cf \in r.f THEN 1 ELSE 0

\* What a byte is as a signed number, and as two decimal digits.
Signed(v)  == IF v >= 128 THEN v - 256 ELSE v
Decimal(v) == 10 * High(v) + Low(v)
IsDecimal(v) == High(v) < 10 /\ Low(v) < 10
=============================================================================
