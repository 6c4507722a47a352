------------------------------ MODULE Storage ------------------------------
(***************************************************************************)
(* The block format of storage.c: what the encoder makes of a payload, and *)
(* the decoder as a function from its state and a byte to its next state.  *)
(*                                                                         *)
(* A byte is the set of its bits that are set, so that the exclusive or of *)
(* two bytes is their symmetric difference.  W is the number of bits, 8 in *)
(* the firmware; lengths and counts have twice as many.                    *)
(***************************************************************************)
EXTENDS Integers, Sequences

CONSTANT W

ASSUME StorageAssumption == W \in Nat \ {0}

BitsOfByte == 0..(W - 1)
Byte == SUBSET BitsOfByte

Xor(a, b) == (a \ b) \cup (b \ a)

\* The powers of two, up to the number of values of a byte.
Power[k \in 0..W] == IF k = 0 THEN 1 ELSE 2 * Power[k - 1]
Values == Power[W]

\* What the lowest bits of b are worth, and all of them.
Worth(b) ==
  LET low[k \in 0..W] ==
        IF k = 0 THEN 0 ELSE low[k - 1] + (IF k - 1 \in b THEN Power[k - 1] ELSE 0)
  IN  low
Num(b) == Worth(b)[W]

ByteOf(n) == {k \in BitsOfByte : (n \div Power[k]) % 2 = 1}
Wrapped(n) == n % (Values * Values)

Magic == BitsOfByte

-----------------------------------------------------------------------------
(* The encoder.                                                            *)

\* The parity of the first bytes, and of all of them.
Parities(bytes) ==
  LET upto[n \in 0..Len(bytes)] == IF n = 0 THEN {} ELSE Xor(upto[n - 1], bytes[n])
  IN  upto
ParityOf(bytes) == Parities(bytes)[Len(bytes)]

\* encode_header, after its synchronisation, which carries no byte: magic, the
\* length with its high byte first, their parity.
HeaderOf(n) ==
  LET msb == ByteOf(n \div Values)
      lsb == ByteOf(n)
  IN  <<Magic, msb, lsb, Xor(msb, lsb)>>

\* A block: header, payload, and the parity of the payload (encode_end).
BlockOf(payload) ==
  HeaderOf(Len(payload)) \o payload \o <<ParityOf(payload)>>

\* _encode_byte: one half pulse per bit, the lowest first, long for a one.  This
\* is the one that comes after n of them.
PulseAfter(bytes, n) == n % W \in bytes[n \div W + 1]

-----------------------------------------------------------------------------
(* The decoder.                                                            *)

C_MAGIC == 1
C_LEN0  == 2
C_LEN1  == 3
C_PAR0  == 4
C_DATA  == 5
C_PAR1  == 6
C_END   == 7

InitDecoder == [control |-> C_MAGIC, length |-> 0, parity |-> {}, count |-> 0]

Advance(d) == [d EXCEPT !.control = @ + 1]
Fail(d)    == [d EXCEPT !.control = -@]

\* decode hands the byte to the write callback in this state only.
Writes(d) == d.control = C_DATA

DecodeMagic(d, b) == IF b = Magic THEN Advance(d) ELSE Fail(d)

DecodeLen0(d, b) ==
  [Advance(d) EXCEPT !.length = Num(b), !.parity = Xor(@, b)]

DecodeLen1(d, b) ==
  [Advance(d) EXCEPT !.length = Wrapped(@ * Values + Num(b)), !.parity = Xor(@, b)]

DecodePar0_Ignored(d, b) == [Advance(d) EXCEPT !.parity = {}]
DecodePar0(d, b) ==
  IF b = d.parity THEN [Advance(d) EXCEPT !.parity = {}] ELSE Fail(d)

DecodeData(d, b) ==
  LET e == [d EXCEPT !.count = Wrapped(@ + 1), !.parity = Xor(@, b)]
  IN  IF e.count = e.length THEN Advance(e) ELSE e

DecodePar1_Ignored(d, b) == Advance(d)
DecodePar1(d, b) == IF b = d.parity THEN Advance(d) ELSE Fail(d)

Decode(d, b) ==
  CASE d.control = C_MAGIC -> DecodeMagic(d, b)
    [] d.control = C_LEN0  -> DecodeLen0(d, b)
    [] d.control = C_LEN1  -> DecodeLen1(d, b)
    [] d.control = C_PAR0  -> DecodePar0(d, b)
    [] d.control = C_DATA  -> DecodeData(d, b)
    [] d.control = C_PAR1  -> DecodePar1(d, b)
    [] d.control = C_END   -> d
    [] OTHER               -> Fail(d)
=============================================================================
