----------------------------- MODULE AluChecks ------------------------------
(***************************************************************************)
(* The arithmetic of Alu on every pair of bytes, with and without carry:   *)
(* a state is an accumulator, an operand and a carry, and what one         *)
(* instruction made of them, or was never to be computed ("idle").         *)
(***************************************************************************)
EXTENDS Alu

VARIABLES acc, operand, carry, done, outcome

aluVars == <<acc, operand, carry, done, outcome>>

AluIdle == acc = 0 /\ operand = 0 /\ carry = 0 /\ done = "idle" /\ outcome = Result(0, {})
AluInit == acc \in Byte /\ operand \in Byte /\ carry \in Bit /\ done = "none" /\ outcome = Result(acc, {})

Does(name, result) ==
  /\ done = "none" /\ done' = name /\ outcome' = result
  /\ UNCHANGED <<acc, operand, carry>>

AluNext ==
  \/ Does("ADC", Adc(acc, operand, carry)) \/ Does("SBC", Sbc(acc, operand, carry))
  \/ Does("ADC decimal", AdcDecimal(acc, operand, carry)) \/ Does("SBC decimal", SbcDecimal(acc, operand, carry))
  \/ Does("CMP", Compare(acc, operand))

AluSpec == AluInit /\ [][AluNext]_aluVars

-----------------------------------------------------------------------------
\* Sums and differences are exact, the carry counted: a number of many bytes,
\* or of many decimal digits, is added and subtracted a byte at a time.
CarryMakesExact ==
  /\ done = "ADC" => outcome.v + 256 * Carry(outcome) = acc + operand + carry
  /\ done = "SBC" => outcome.v - 256 * (1 - Carry(outcome)) = acc - operand - (1 - carry)
  /\ IsDecimal(acc) /\ IsDecimal(operand) /\ done = "ADC decimal" =>
       IsDecimal(outcome.v) /\ Decimal(outcome.v) + 100 * Carry(outcome) = Decimal(acc) + Decimal(operand) + carry
  /\ IsDecimal(acc) /\ IsDecimal(operand) /\ done = "SBC decimal" =>
       IsDecimal(outcome.v) /\ Decimal(outcome.v) - 100 * (1 - Carry(outcome)) = Decimal(acc) - Decimal(operand) - (1 - carry)

\* V says that the signed result does not fit, and after a subtraction N and
\* V together say which operand was less.
OverflowIsSigned ==
  /\ done = "ADC" => (Vf \in outcome.f <=> Signed(acc) + Signed(operand) + carry \notin -128..127)
  /\ done = "SBC" => (Vf \in outcome.f <=> Signed(acc) - Signed(operand) - (1 - carry) \notin -128..127)
  /\ done = "SBC" /\ carry = 1 => ((Nf \in outcome.f) # (Vf \in outcome.f) <=> Signed(acc) < Signed(operand))

\* A comparison and a subtraction decide alike, so that the branches after
\* the one mean what they mean after the other.
CompareIsSubtract ==
  done = "CMP" => LET d == Sbc(acc, operand, 1) IN outcome.v = d.v /\ outcome.f = d.f \ {Vf}
=============================================================================
