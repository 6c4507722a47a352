------------------------------- MODULE Vm6502 -------------------------------
(***************************************************************************)
(* The 6502 virtual machine (vm/vm.c): vm_exec reads three bytes at r_pc,  *)
(* decodes the first and runs one instruction; cmd_run calls it until it   *)
(* returns 0 or a system call sets prog_exit.  The flags of r_s are a set  *)
(* of the numbers vm.h gives them, 4 and 5 included.  The system calls are *)
(* modelled by what they do to the machine: an answer in the accumulator,  *)
(* bytes written to the memory, the end of the program.                    *)
(*                                                                         *)
(* addr16 is given two reads that each advance pt, and C leaves their order *)
(* to the compiler; the only order any program can run with, low byte      *)
(* first, is taken.                                                        *)
(***************************************************************************)
EXTENDS Isa

CONSTANTS
  Memories,  \* what the chip may hold when a program starts
  Answers,   \* what a system call may leave in the accumulator
  Texts,     \* what a system call may write to the memory
  MaxSteps   \* bound on the instructions run

Word == 0..65535

\* A block, and a read, are shorter than 0x10000.
ASSUME VmAssumption ==
  /\ \A f \in Memories : DOMAIN f \subseteq Word /\ \A a \in DOMAIN f : f[a] \in Byte
  /\ Answers \subseteq Byte
  /\ \A text \in Texts : text \in Seq(Byte) /\ Len(text) \in Word
  /\ MaxSteps \in Nat

PROG_START == 6656  \* 0x1a00

VARIABLES
  r_a, r_x, r_y, r_sp, r_s, r_pc,  \* the registers
  local, sram,                     \* the two memories
  running,                         \* is cmd_run in its loop?
  steps,                           \* instructions run so far
  stacked,                         \* bytes pushed and not yet pulled, last first, the
                                   \* last of a call or a break with its frame
  spilt                            \* has a push left the stack page?

registers == <<r_a, r_x, r_y, r_sp, r_s, r_pc>>
memory    == <<local, sram>>
history   == <<stacked, spilt>>
vars      == <<registers, memory, running, steps, history>>

M == INSTANCE VmMemory
       WITH LocalSize <- 512, MemSize <- 65536, MaxAccess <- 255, dst <- <<>>

-----------------------------------------------------------------------------
(* The instruction at r_pc and its operand.                                *)

Read(addr, n) == M!VmRead(local, sram, addr, n)
ReadByte(addr) == Read(addr, 1)[1]
WordOf(bytes) == bytes[1] + 256 * bytes[2]

Fetched == Read(r_pc, 3)
Code    == Fetched[1]
Valid   == Code \in DOMAIN Decode
Mne     == Decode[Code].mne
Mode    == Decode[Code].mode
Next1   == Fetched[2]
Next2   == Next1 + 256 * Fetched[3]

Length  == LengthOf(Decode[Code])

\* A zero page address stays in the zero page.
Indexed(b, r) == (b + r) % 256

IndirectY_InPage(word, y) == 256 * (word \div 256) + ((word + y) % 256)
\* The index is added after the indirection and carries into the high byte.
IndirectY(word, y) == (word + y) % 65536

EffectiveAddr ==
  CASE Mode = "zp"   -> Next1
    [] Mode = "zpx"  -> Indexed(Next1, r_x)
    [] Mode = "zpy"  -> Indexed(Next1, r_y)
    [] Mode = "abs"  -> Next2
    [] Mode = "absx" -> (Next2 + r_x) % 65536
    [] Mode = "absy" -> (Next2 + r_y) % 65536
    [] Mode = "indx" -> WordOf(Read(Indexed(Next1, r_x), 2))
    [] Mode = "indy" -> IndirectY(WordOf(Read(Next1, 2)), r_y)
    [] Mode = "ind"  -> WordOf(Read(Next2, 2))

Operand ==
  CASE Mode = "imm" -> Next1
    [] Mode = "acc" -> r_a
    [] Mode = "implied" -> 0
    [] OTHER -> ReadByte(EffectiveAddr)

\* A byte as the set of its bits, and back.
Weight == <<1, 2, 4, 8, 16, 32, 64, 128>>
Bits(v) == {b \in 0..7 : (v \div Weight[b + 1]) % 2 = 1}
ByteOf(bits) ==
  LET w(b) == IF b \in bits THEN Weight[b + 1] ELSE 0
  IN  w(0) + w(1) + w(2) + w(3) + w(4) + w(5) + w(6) + w(7)

-----------------------------------------------------------------------------
(* What an instruction without a jump or the stack does: the value, where  *)
(* it goes, and the flags.  "m" is the operand: a byte of the memory, or   *)
(* the accumulator.                                                        *)

Outcome(to, v, clears, sets) == [to |-> to, v |-> v, clears |-> clears, sets |-> sets]

Moved(to, v)         == Outcome(to, v, {Nf, Zf}, NZ(v))
Computed(to, r)      == Outcome(to, r.v, {Nf, Zf, Cf}, r.f)
Added(r)             == Outcome("a", r.v, {Nf, Vf, Zf, Cf}, r.f)
Kept(to, v)          == Outcome(to, v, {}, {})
FlagIs(clears, sets) == Outcome("none", 0, clears, sets)

C == IF Cf \in r_s THEN 1 ELSE 0

AccumulatorOutcome(m) ==
  CASE Mne = "LDA" -> Moved("a", m)
    [] Mne = "STA" -> Kept("m", r_a)
    [] Mne = "AND" -> Moved("a", ByteOf(Bits(r_a) \cap Bits(m)))
    [] Mne = "ORA" -> Moved("a", ByteOf(Bits(r_a) \cup Bits(m)))
    [] Mne = "EOR" -> Moved("a", ByteOf((Bits(r_a) \cup Bits(m)) \ (Bits(r_a) \cap Bits(m))))
    [] Mne = "ADC" -> Added(IF Df \in r_s THEN AdcDecimal(r_a, m, C) ELSE Adc(r_a, m, C))
    [] Mne = "SBC" -> Added(IF Df \in r_s THEN SbcDecimal(r_a, m, C) ELSE Sbc(r_a, m, C))
    [] Mne = "CMP" -> FlagIs({Nf, Zf, Cf}, Compare(r_a, m).f)
    [] Mne = "BIT" -> FlagIs({Nf, Vf, Zf},
                             (Bits(m) \cap {Nf, Vf}) \cup When(Bits(r_a) \cap Bits(m) = {}, Zf))

MemoryOutcome(m) ==
  CASE Mne = "ASL" -> Computed("m", Asl(m))
    [] Mne = "LSR" -> Computed("m", Lsr(m))
    [] Mne = "ROL" -> Computed("m", Rol(m, C))
    [] Mne = "ROR" -> Computed("m", Ror(m, C))
    [] Mne = "INC" -> Moved("m", (m + 1) % 256)
    [] Mne = "DEC" -> Moved("m", (m - 1) % 256)

IndexOutcome(m) ==
  CASE Mne = "LDX" -> Moved("x", m)
    [] Mne = "LDY" -> Moved("y", m)
    [] Mne = "STX" -> Kept("m", r_x)
    [] Mne = "STY" -> Kept("m", r_y)
    [] Mne = "CPX" -> FlagIs({Nf, Zf, Cf}, Compare(r_x, m).f)
    [] Mne = "CPY" -> FlagIs({Nf, Zf, Cf}, Compare(r_y, m).f)

RegisterOutcome ==
  CASE Mne = "TAX" -> Moved("x", r_a)
    [] Mne = "TXA" -> Moved("a", r_x)
    [] Mne = "TAY" -> Moved("y", r_a)
    [] Mne = "TYA" -> Moved("a", r_y)
    [] Mne = "TSX" -> Moved("x", r_sp)
    [] Mne = "TXS" -> Kept("sp", r_x)
    [] Mne = "INX" -> Moved("x", (r_x + 1) % 256)
    [] Mne = "DEX" -> Moved("x", (r_x - 1) % 256)
    [] Mne = "INY" -> Moved("y", (r_y + 1) % 256)
    [] Mne = "DEY" -> Moved("y", (r_y - 1) % 256)
    [] Mne = "NOP" -> FlagIs({}, {})
    [] Mne = "CLC" -> FlagIs({Cf}, {}) [] Mne = "SEC" -> FlagIs({}, {Cf})
    [] Mne = "CLI" -> FlagIs({If}, {}) [] Mne = "SEI" -> FlagIs({}, {If})
    [] Mne = "CLD" -> FlagIs({Df}, {}) [] Mne = "SED" -> FlagIs({}, {Df})
    [] Mne = "CLV" -> FlagIs({Vf}, {})

-----------------------------------------------------------------------------
(* The history of the stack: what was pushed and not yet pulled, at most a *)
(* page of it, and where the calls and breaks should return to.  A program *)
(* that moves the stack pointer, or writes to the stack page by other      *)
(* means, starts it afresh.                                                *)

StackSize == 256
StackPage == 256..511

Forget == stacked' = <<>> /\ spilt' = FALSE

ForgetIf(cond) == IF cond THEN Forget ELSE UNCHANGED history

InStackPage(addr, n) == \E i \in 0..(n - 1) : (addr + i) % 65536 \in StackPage

\* Where a call or a break should return to, and with which flags; those of a
\* break are never empty.
Frame(next, flags) == [next |-> next % 65536, flags |-> flags]

\* The bytes a frame takes.
FrameSize(f) == IF f.flags = {} THEN 2 ELSE 3

-----------------------------------------------------------------------------
(* Steps of vm_exec.                                                       *)

Goto(addr) == r_pc' = addr % 65536
Advance    == Goto(r_pc + Length)

WriteTo(addr, bytes) ==
  /\ local' = M!LocalWritten(local, addr, bytes)
  /\ sram' = M!SramWritten(sram, addr, bytes)

Exec(instructions) ==
  /\ running /\ steps < MaxSteps /\ steps' = steps + 1
  /\ Valid /\ Decode[Code] \in instructions

Apply(o) ==
  LET inMemory == o.to = "m" /\ Mode # "acc"
  IN  /\ r_a' = IF o.to = "a" \/ (o.to = "m" /\ Mode = "acc") THEN o.v ELSE r_a
      /\ r_x' = IF o.to = "x" THEN o.v ELSE r_x
      /\ r_y' = IF o.to = "y" THEN o.v ELSE r_y
      /\ r_sp' = IF o.to = "sp" THEN o.v ELSE r_sp
      /\ r_s' = (r_s \ o.clears) \cup o.sets
      /\ Advance
      /\ IF inMemory THEN WriteTo(EffectiveAddr, <<o.v>>) ELSE UNCHANGED memory
      /\ ForgetIf(o.to = "sp" \/ (inMemory /\ EffectiveAddr \in StackPage))
      /\ UNCHANGED running

OnAccumulator == Exec(Accumulator) /\ Apply(AccumulatorOutcome(Operand))
OnMemory      == Exec(Memory1) /\ Apply(MemoryOutcome(Operand))
OnIndex       == Exec(Index) /\ Apply(IndexOutcome(Operand))
OnRegisters   == Exec(Registers) /\ Apply(RegisterOutcome)

Named(names) == {i \in Control : i.mne \in names}

Taken ==
  CASE Mne = "BPL" -> Nf \notin r_s [] Mne = "BMI" -> Nf \in r_s
    [] Mne = "BVC" -> Vf \notin r_s [] Mne = "BVS" -> Vf \in r_s
    [] Mne = "BCC" -> Cf \notin r_s [] Mne = "BCS" -> Cf \in r_s
    [] Mne = "BNE" -> Zf \notin r_s [] Mne = "BEQ" -> Zf \in r_s

Branch ==
  /\ Exec(Named(Branches))
  /\ Goto(IF Taken THEN BranchTarget(r_pc, Next1) ELSE r_pc + Length)
  /\ UNCHANGED <<r_a, r_x, r_y, r_sp, r_s, memory, running, history>>

Jump ==
  /\ Exec(Named({"JMP"}))
  /\ Goto(IF Mode = "abs" THEN Next2 ELSE EffectiveAddr)
  /\ UNCHANGED <<r_a, r_x, r_y, r_sp, r_s, memory, running, history>>

\* addr16(v, 1) of vm.h, for v up to three off the ends of a byte.
StackAddr(v) == IF v \in 0..255 THEN 256 + v ELSE v % 65536

PushedAt_Below(n) == StackAddr(r_sp - n)
\* n bytes are pushed with one write, and pulled with one read.
PushedAt(n) == StackAddr(r_sp - n + 1)

\* Bytes on top of a stack, the last pushed first, and their frame if they have
\* one; as much of it all as the page holds.
OnTop(st, bytes, frames) ==
  LET n   == Len(bytes) + Len(st)
      new == [i \in 1..Len(bytes) |->
                [byte |-> bytes[i], frames |-> IF i = 1 THEN frames ELSE {}]]
  IN  SubSeq(new \o st, 1, IF n < StackSize THEN n ELSE StackSize)

Push(bytes, frames) ==
  /\ WriteTo(PushedAt(Len(bytes)), bytes)
  /\ r_sp' = (r_sp - Len(bytes)) % 256
  /\ stacked' = OnTop(stacked, bytes, frames)
  /\ spilt' = (spilt \/ r_sp < Len(bytes) - 1)

SpAfterPull(n) == (r_sp + n) % 256

Pulled(n) == Read(StackAddr(r_sp + 1), n)
Pull(n) ==
  /\ r_sp' = SpAfterPull(n)
  /\ stacked' = SubSeq(stacked, n + 1, Len(stacked))
  /\ UNCHANGED <<spilt, memory>>

\* PHP pushes the flags with 4 and 5 set.
PushByte ==
  /\ Exec(Named({"PHA", "PHP"}))
  /\ Push(<<IF Mne = "PHA" THEN r_a ELSE ByteOf(r_s \cup {5, Bf})>>, {})
  /\ Advance
  /\ UNCHANGED <<r_a, r_x, r_y, r_s, running>>

PullA ==
  /\ Exec(Named({"PLA"}))
  /\ Pull(1) /\ Advance
  /\ r_a' = Pulled(1)[1]
  /\ r_s' = (r_s \ {Nf, Zf}) \cup NZ(r_a')
  /\ UNCHANGED <<r_x, r_y, running>>

PullFlags ==
  /\ Exec(Named({"PLP"}))
  /\ Pull(1) /\ Advance
  /\ r_s' = Bits(Pulled(1)[1])
  /\ UNCHANGED <<r_a, r_x, r_y, running>>

CallPushes_Next(pc) == (pc + 3) % 65536
\* JSR pushes the address of its last byte.
CallPushes(pc) == (pc + 2) % 65536

Call ==
  /\ Exec(Named({"JSR"}))
  /\ Push(<<CallPushes(r_pc) % 256, CallPushes(r_pc) \div 256>>, {Frame(r_pc + 3, {})})
  /\ Goto(Next2)
  /\ UNCHANGED <<r_a, r_x, r_y, r_s, running>>

Return ==
  /\ Exec(Named({"RTS"}))
  /\ Pull(2)
  /\ Goto(WordOf(Pulled(2)) + 1)
  /\ UNCHANGED <<r_a, r_x, r_y, r_s, running>>

\* The vector is read after the push.
Break ==
  /\ Exec(Named({"BRK"}))
  /\ LET next == (r_pc + 2) % 65536
     IN  Push(<<ByteOf(r_s \cup {5, Bf}), next % 256, next \div 256>>,
              {Frame(r_pc + 2, r_s \cup {5, Bf})})
  /\ Goto(WordOf(M!VmRead(local', sram', 65534, 2)))
  /\ r_s' = r_s \cup {If}
  /\ UNCHANGED <<r_a, r_x, r_y, running>>

ReturnFromBreak ==
  /\ Exec(Named({"RTI"}))
  /\ Pull(3)
  /\ r_s' = Bits(Pulled(3)[1])
  /\ Goto(WordOf(Tail(Pulled(3))))
  /\ UNCHANGED <<r_a, r_x, r_y, running>>

\* vm_exec returns 0.
Halt ==
  /\ running /\ steps < MaxSteps /\ steps' = steps + 1
  /\ ~Valid /\ running' = FALSE
  /\ UNCHANGED <<registers, memory, history>>

-----------------------------------------------------------------------------
(* vm_syscall, by its effect on the machine.  What it draws is not part of *)
(* the memory here.                                                        *)

\* Every number but 01, 02, 10..14, 20..22, 30, a0..a2 and f0.
Terminates ==
  Byte \ {1, 2, 16, 17, 18, 19, 20, 32, 33, 34, 48, 160, 161, 162, 240}
Silent == {48, 161}

\* The arguments are pulled with one read, and stay on the stack.
Arguments(n) == Read(StackAddr(r_sp + 1), n)

\* The word that starts at place i of them.  Its high byte comes first, being
\* the one that was pushed last.
ArgWord(arg, i) == arg[i + 1] + 256 * arg[i]

SysEnds ==
  /\ Exec(Named({"SYS"})) /\ r_a \in Terminates
  /\ running' = FALSE /\ Advance
  /\ UNCHANGED <<r_a, r_x, r_y, r_sp, r_s, memory, history>>

SysAnswers ==
  /\ Exec(Named({"SYS"})) /\ r_a \notin Terminates \cup {1, 33, 34}
  /\ r_a' \in (IF r_a \in Silent THEN {r_a} ELSE Answers) /\ Advance
  /\ UNCHANGED <<r_x, r_y, r_sp, r_s, memory, running, history>>

\* load writes to the chip itself.
SysLoads ==
  /\ Exec(Named({"SYS"})) /\ r_a = 1
  /\ \E text \in Texts : sram' = M!Stored(sram, ArgWord(Arguments(2), 1), text)
  /\ r_a' \in Bit /\ Advance
  /\ UNCHANGED <<r_x, r_y, r_sp, r_s, local, running, history>>

\* The line is shorter than the size asked for, which is 64 at most; a size of
\* 0 is never reached by its length, a byte.
InputSize(n) == IF n = 0 THEN 256 ELSE IF n < 64 THEN n ELSE 64

SysInput ==
  /\ Exec(Named({"SYS"})) /\ r_a = 33
  /\ LET arg == Arguments(3)
     IN  \E text \in Texts :
           /\ Len(text) < InputSize(arg[3])
           /\ WriteTo(ArgWord(arg, 1), text)
           /\ r_a' = Len(text)
           /\ ForgetIf(InStackPage(ArgWord(arg, 1), Len(text)))
  /\ Advance
  /\ UNCHANGED <<r_x, r_y, r_sp, r_s, running>>

\* Each byte is written by itself, so that the address goes on at 0.
WriteEach(addr, bytes) ==
  LET n    == IF addr + Len(bytes) <= 65536 THEN Len(bytes) ELSE 65536 - addr
      head == SubSeq(bytes, 1, n)
      rest == SubSeq(bytes, n + 1, Len(bytes))
  IN  /\ local' = M!LocalWritten(M!LocalWritten(local, addr, head), 0, rest)
      /\ sram' = M!SramWritten(M!SramWritten(sram, addr, head), 0, rest)

\* As many bytes as asked for, of standard input only.
SysReads ==
  /\ Exec(Named({"SYS"})) /\ r_a = 34
  /\ LET arg   == Arguments(6)
         addr  == ArgWord(arg, 3)
         count == IF ArgWord(arg, 1) = 0 THEN ArgWord(arg, 5) ELSE 0
     IN  \E text \in Texts :
           /\ Len(text) = count
           /\ WriteEach(addr, text)
           /\ r_a' = Len(text) % 256
           /\ ForgetIf(InStackPage(addr, Len(text)))
  /\ Advance
  /\ UNCHANGED <<r_x, r_y, r_sp, r_s, running>>

-----------------------------------------------------------------------------
(* cmd_run: vm_init, and again.                                            *)

Start(a, x, y, sp, s, pc) ==
  a = 0 /\ x = 0 /\ y = 0 /\ sp = 255 /\ s = {} /\ pc = PROG_START

Init ==
  /\ Start(r_a, r_x, r_y, r_sp, r_s, r_pc)
  /\ local = [a \in {} |-> 0] /\ sram \in Memories
  /\ running = TRUE /\ steps = 0
  /\ stacked = <<>> /\ spilt = FALSE

Run ==
  /\ ~running /\ steps < MaxSteps /\ steps' = steps + 1
  /\ running' = TRUE
  /\ Start(r_a', r_x', r_y', r_sp', r_s', r_pc')
  /\ Forget
  /\ UNCHANGED memory

Vm_exec ==
  \/ OnAccumulator \/ OnMemory \/ OnIndex \/ OnRegisters
  \/ Branch \/ Jump \/ PushByte \/ PullA \/ PullFlags
  \/ Call \/ Return \/ Break \/ ReturnFromBreak \/ Halt
  \/ SysEnds \/ SysAnswers \/ SysLoads \/ SysInput \/ SysReads

Next == Vm_exec \/ Run

Spec == Init /\ [][Next]_vars

-----------------------------------------------------------------------------
(* Properties.                                                             *)

\* The stack gives back what was pushed, last first, whatever mix of bytes,
\* flags, calls and breaks pushed it, and round the end of its page; a push of
\* more than one byte that leaves the page is the exception.
StackIsLifo ==
  ~spilt => \A i \in 1..Len(stacked) : ReadByte(256 + ((r_sp + i) % 256)) = stacked[i].byte

\* RTS and RTI resume the program after the call or the break whose frame they
\* pull, RTI with the flags of that moment, unless the stack has gone round and
\* overwritten it; what ran in between may push and pull and call as it likes.
FramesResume ==
  [][(Return \/ ReturnFromBreak) /\ ~spilt /\ stacked # <<>> =>
       \A f \in stacked[1].frames :
         (f.flags # {}) = (Mne = "RTI") /\ FrameSize(f) <= Len(stacked) =>
           r_pc' = f.next /\ (f.flags # {} => r_s' = f.flags)]_vars
=============================================================================
