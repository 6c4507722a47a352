----------------------------- MODULE DasmChecks -----------------------------
(***************************************************************************)
(* A line is typed at an address and assembled, or three bytes are there   *)
(* already; what is there is listed, and the listing is typed again.       *)
(***************************************************************************)
EXTENDS Dasm, Isa

CONSTANTS
  Addresses,   \* where the instruction is
  TypedLines,  \* lines to assemble
  BytesThere,  \* three bytes to list
  Afters       \* rows the bytes after the table may look like

ASSUME PlacesAssumption == Addresses \subseteq Nat /\ \A place \in Addresses : place < 65536
ASSUME TypingAssumption == TypedLines \subseteq Seq(Tokens)
ASSUME BytesAssumption  == BytesThere \subseteq [1..3 -> 0..255]
ASSUME AfterAssumption  == Afters \subseteq [mne : STRING, code : 0..255, mode : STRING]
ASSUME TypedDataAssumption ==
  \A line \in TypedLines : Starts(line, ".") => Data(Tail(Unblanked(line))) \in Seq(0..255)

VARIABLES org, typed, image, listed, again

dasmVars == <<after, org, typed, image, listed, again>>

-----------------------------------------------------------------------------
None == [line |-> <<>>, len |-> 0]

\* The three bytes that are listed, at org.
There == SubSeq(image \o <<0, 0>>, 1, 3)

DasmInit ==
  /\ after \in Afters /\ org \in Addresses
  /\ \/ typed \in TypedLines /\ image = Rejected
     \/ typed = <<>> /\ image \in BytesThere
  /\ listed = None /\ again = Rejected

As ==
  /\ typed # <<>> /\ image = Rejected
  /\ image' = dasm_as(org, typed)
  /\ UNCHANGED <<after, org, typed, listed, again>>

List ==
  /\ image # Rejected /\ listed = None
  /\ listed' = dasm_das(org, There)
  /\ UNCHANGED <<after, org, typed, image, again>>

AsAgain ==
  /\ listed # None /\ again = Rejected
  /\ again' = dasm_as(org, listed.line)
  /\ UNCHANGED <<after, org, typed, image, listed>>

DasmNext == As \/ List \/ AsAgain

DasmSpec == DasmInit /\ [][DasmNext]_dasmVars

-----------------------------------------------------------------------------
(* Properties.  A name that the bytes after the table happen to spell is   *)
(* left out of them: the assembler finds it there as well.                 *)

Runs == image # Rejected /\ image[1] \in DOMAIN Decode
Instr == Decode[image[1]]

\* Rows with the wrong mode or name, and rows hidden by another of the same
\* name and mode above them.
Misnamed == {Op(0, 1), Op(2, 1), Op(6, 1), Op(A, 1), Op(C, 1), Op(E, 1), Op(3, D)}
Shadowed == {Op(1, 5), Op(3, 5), Op(7, 5), Op(B, 5), Op(D, 5), Op(F, 5), Op(3, D)}

\* The bytes of a number, low byte first.
Little(v, n) == IF n = 0 THEN <<>> ELSE IF n = 1 THEN <<v>> ELSE <<v % 256, v \div 256>>

\* The modes that read an operand as it is written.
ReadAs(shape) ==
  CASE shape = <<>> -> {"implied"} [] shape = <<"A">> -> {"acc"} [] shape = <<"#", "num">> -> {"imm"}
    [] shape = <<"num">> -> {"zp", "abs"}
    [] shape = <<"num", ",", "X">> -> {"zpx", "absx"} [] shape = <<"num", ",", "Y">> -> {"zpy", "absy"}
    [] shape = <<"(", "num", ")">> -> {"ind"}
    [] shape = <<"(", "num", ",", "X", ")">> -> {"indx"} [] shape = <<"(", "num", ")", ",", "Y">> -> {"indy"}
    [] OTHER -> {}

\* What was typed was an instruction.
Mnemonic == Head(Unblanked(typed)).t
Args     == Tail(Unblanked(typed))
Typed    == Unblanked(typed) # <<>> /\ ~Starts(typed, ".") /\ Mnemonic # after.mne

IsBranch(n) == n \in Branches

\* What the assembler accepts is the instruction the machine runs: its name,
\* its length and, a branch aside, its mode and its operand; the lines that
\* find a row with the wrong mode are the exception.
AssembledIsRun ==
  image # Rejected /\ Typed =>
    \/ image[1] \in Misnamed
    \/ /\ Runs /\ Instr.mne = Mnemonic /\ Len(image) = LengthOf(Instr)
       /\ \/ IsBranch(Mnemonic)
          \/ Instr.mode \in ReadAs(Shape(Args)) /\ Tail(image) = Little(ValueIn(Args), Len(image) - 1)

\* The listing keeps in step with the machine: every opcode takes the length it
\* runs with and, 0x3d aside, is listed with the name it runs with.  A byte the
\* machine halts on takes one byte, unless dasm_das finds it in the bytes after
\* the table (OPCODES is one more than its rows).
ListingInStep ==
  listed # None =>
    IF Runs THEN listed.len = LengthOf(Instr) /\ (Head(listed.line).t = Instr.mne \/ image[1] = Op(3, D))
    ELSE image[1] # after.code => listed.len = 1 /\ Head(listed.line).t = "???"

\* A listing typed in again gives the same bytes, branches included wherever
\* they go; an absolute address below 256 comes back as the shorter form.
Shortened == Instr.mode \in {"abs", "absx", "absy"} /\ There[3] = 0 /\ Len(again) = 2
ListingReassembles ==
  again # Rejected /\ Runs /\ image[1] \notin Shadowed /\ Head(listed.line).t # after.mne /\ ~Shortened =>
    again = SubSeq(There, 1, listed.len)

\* A branch to a place within reach is listed with the place that was typed,
\* over the ends of the memory too; out of reach, only the low byte is right.
Near(v) == \E d \in -128..127 : v = (org + 1 + d) % 65536
ListedTargetIsTyped ==
  listed # None /\ Typed /\ IsBranch(Mnemonic) =>
    LET v == ValueIn(Args)
        w == ValueIn(listed.line)
    IN  (w - v) % 256 = 0 /\ (Near(v) => w = v)

-----------------------------------------------------------------------------
(* What the manual says, and the code does not do.                         *)

\* docs/manual.markdown:255: the operand of "Relative" is the address "nnnn".
BranchGoesThere ==
  image # Rejected /\ Typed /\ IsBranch(Mnemonic) => BranchTarget(org, image[2]) = ValueIn(Args)
=============================================================================
