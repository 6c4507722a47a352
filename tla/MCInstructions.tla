--------------------------- MODULE MCInstructions --------------------------
(***************************************************************************)
(* The instructions, apart from the machine: what the arithmetic makes of  *)
(* every pair of bytes, and what the assembler and the disassembler make   *)
(* of every opcode and of every name with every form of operand.           *)
(***************************************************************************)
EXTENDS AluChecks, DasmChecks

CONSTANTS
  Numbers,  \* numbers typed
  Operand   \* bytes after an opcode

Names == {r.mne : r \in vm_op_tbl} \cup {"XXX"}
Forms(n) == {
  <<>>, <<Tok("A")>>, <<Tok("#"), Num(n)>>, <<Num(n)>>,
  <<Num(n), Tok(","), Tok("X")>>, <<Num(n), Tok(","), Tok("Y")>>, <<Tok("("), Num(n), Tok(")")>>,
  <<Tok("("), Num(n), Tok(","), Tok("X"), Tok(")")>>,
  <<Tok("("), Num(n), Tok(")"), Tok(","), Tok("Y")>>, <<Tok("("), Num(n), Tok(","), Tok("Y")>>}

\* Every line, with a blank after the name; and one with a blank more, anywhere.
Lines ==
  {<<Tok(n), Tok("sp")>> \o f : n \in Names, f \in UNION {Forms(v) : v \in Numbers}}
Blanks(line) == {InsertAt(line, i, Tok("sp")) : i \in {1} \cup 4..Len(line)}
LooseLines == UNION {Blanks(<<Tok("EOR"), Tok("sp")>> \o f) : f \in Forms(18)}

DataLines ==
  {<<Tok("."), Text(<<72, Backslash, Quote>>), Tok(","), Num(n)>> : n \in Numbers} \cup {<<Tok(".")>>, <<>>}

MCLines == Lines \cup LooseLines \cup DataLines
MCBytes == {<<c, x, y>> : c \in 0..255, x \in Operand, y \in Operand}

JunkRow  == [mne |-> "junk", code |-> \H03, mode |-> "abs"]
MCAfters == {
  JunkRow, [mne |-> "junk", code |-> \Hff, mode |-> "none"],
  [mne |-> "junk", code |-> \H69, mode |-> "acc"], [mne |-> "JSR", code |-> \H03, mode |-> "zp"]}

DasmIdle ==
  /\ after = JunkRow /\ org = 0 /\ typed = <<>> /\ image = Rejected
  /\ listed = None /\ again = Rejected

Init == (AluInit /\ DasmIdle) \/ (AluIdle /\ DasmInit)
Next == (AluNext /\ UNCHANGED dasmVars) \/ (DasmNext /\ UNCHANGED aluVars)
Spec == Init /\ [][Next]_<<aluVars, dasmVars>>

\* The branches by themselves.
BranchSpec == AluIdle /\ DasmInit /\ [][DasmNext /\ UNCHANGED aluVars]_<<aluVars, dasmVars>>
=============================================================================
