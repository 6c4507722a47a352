----------------------------- MODULE ShellProofs -----------------------------
(***************************************************************************)
(* What was assembled is what runs, for every line that may be typed at    *)
(* the prompt, for as and for poke, every tape and every program: the      *)
(* shell writes to the chip, over the end of memory too, and the program   *)
(* fetches through two memories.                                           *)
(*                                                                         *)
(* What carries it: the chip holds the bytes of every instruction that was *)
(* not overwritten, and none of them is on the screen.                     *)
(*                                                                         *)
(* From there, what dis lists is what was assembled, and apart from it,    *)
(* what save writes is what was typed.                                     *)
(*                                                                         *)
(* The rest is about the instructions themselves: what the arithmetic      *)
(* makes of two bytes, and what the assembler and the disassembler make of *)
(* any line and of any bytes.  What carries it: the rows of the table and  *)
(* the instructions of the machine are one for one but for the rows that   *)
(* are wrong, and what is listed for a row reads as that row.              *)
(***************************************************************************)
EXTENDS Shell, SequenceTheorems, WellFoundedInduction, DasmChecks, AluChecks, TLAPS

\* The bytes of an instruction.
IsInstruction(bytes) ==
  Len(bytes) \in Nat /\ Len(bytes) <= 3 /\ bytes = [i \in 1..Len(bytes) |-> bytes[i]]

\* The chip f holds the instructions of src.
Mirrors(f, src) ==
  \A a \in DOMAIN src :
    /\ a \in M!Addr /\ IsInstruction(src[a])
    /\ \A i \in 1..Len(src[a]) :
         M!SramAddr(a, i) \notin Video /\ M!Holds(f, M!SramAddr(a, i)) = src[a][i]

\* as and poke stand at an address.
StaticInv ==
  /\ static = [name \in DOMAIN static |-> static[name]]
  /\ "as" \in DOMAIN static /\ static["as"] \in M!Addr
  /\ "poke" \in DOMAIN static /\ static["poke"] \in M!Addr

IInv == StaticInv /\ Mirrors(sram, source)

-----------------------------------------------------------------------------
(* Memory.                                                                 *)

LEMMA AddressRange ==
  M!Addr \subseteq Int /\ \A x \in Int : x \in M!Addr <=> 0 <= x /\ x <= 65535
<1>1. M!Addr \subseteq Int
  BY SMTT(60) DEF M!Addr
<1>2. \A x \in Int : x \in M!Addr <=> 0 <= x /\ x <= 65535
  BY SMTT(60) DEF M!Addr
<1> QED
  BY <1>1, <1>2

LEMMA AddressIsNumber ==
  ASSUME NEW a \in M!Addr
  PROVE  a \in Int /\ 0 <= a /\ a <= 65535
BY AddressRange

LEMMA StartIsAddress ==
  PROG_START \in Nat /\ PROG_START >= 512 /\ PROG_START \in M!Addr
BY ScreenAssumption, AddressRange DEF ScreenAssumption

\* Addresses of a transfer and their places in it.
LEMMA TransferStaysInChip ==
  ASSUME NEW start \in M!Addr, NEW i \in Nat, 1 <= i, i <= 65536
  PROVE  M!SramAddr(start, i) \in M!Addr
<1>1. start \in Int /\ 0 <= start /\ start <= 65535
  BY AddressRange
<1>2. M!SramAddr(start, i) \in Int /\ 0 <= M!SramAddr(start, i) /\ M!SramAddr(start, i) <= 65535
  BY <1>1, SMT DEF M!SramAddr
<1> QED
  BY <1>2, AddressRange

LEMMA PlaceOfAddress ==
  ASSUME NEW start \in M!Addr, NEW b \in M!Addr
  PROVE  /\ M!ByteAt(start, b) \in Nat /\ M!ByteAt(start, b) > 0
         /\ M!SramAddr(start, M!ByteAt(start, b)) = b
<1>1. start \in Int /\ 0 <= start /\ start <= 65535 /\ b \in Int /\ 0 <= b /\ b <= 65535
  BY AddressRange
<1> QED
  BY <1>1, SMT DEF M!ByteAt, M!SramAddr

LEMMA AddressOfPlace ==
  ASSUME NEW start \in M!Addr, NEW i \in Nat, 1 <= i, i <= 65536
  PROVE  M!ByteAt(start, M!SramAddr(start, i)) = i
<1>1. start \in Int /\ 0 <= start /\ start <= 65535
  BY AddressRange
<1> QED
  BY <1>1, SMT DEF M!ByteAt, M!SramAddr

LEMMA PlacesOfInstruction ==
  ASSUME NEW bytes, Len(bytes) \in Nat, Len(bytes) <= 3, NEW i \in 1..Len(bytes)
  PROVE  i \in Nat /\ 1 <= i /\ i <= Len(bytes) /\ i <= 65536
BY SMT

\* A transfer leaves the other bytes outside of the screen as they were,
LEMMA OthersStay ==
  ASSUME NEW f, NEW start \in M!Addr, NEW bytes, Len(bytes) \in Nat,
         NEW b \in M!Addr, b \notin Video, b \notin Touched(start, bytes)
  PROVE  M!Holds(Lasting(M!Stored(f, start, bytes)), b) = M!Holds(f, b)
<1> DEFINE g == M!Stored(f, start, bytes)
           n == M!ByteAt(start, b)
<1>1. ~(n <= Len(bytes))
  <2>1. n \in Nat /\ n > 0 /\ b = M!SramAddr(start, n)
    BY PlaceOfAddress
  <2> HIDE DEF n
  <2>2. n <= Len(bytes) => n \in 1..Len(bytes)
    BY <2>1, SMT
  <2> QED
    BY <2>1, <2>2 DEF Touched
<1>2. b \in DOMAIN g <=> b \in DOMAIN f
  BY DEF M!Stored, Touched
<1>3. b \in DOMAIN g => g[b] = f[b]
  BY <1>1 DEF M!Stored
<1>4. b \in DOMAIN Lasting(g) <=> b \in DOMAIN g
  BY DEF Lasting
<1>5. b \in DOMAIN g => Lasting(g)[b] = g[b]
  BY DEF Lasting
<1> HIDE DEF g
<1> QED
  BY <1>2, <1>3, <1>4, <1>5 DEF M!Holds, g

\* and gives its own to the addresses it goes to.
LEMMA BytesArrive ==
  ASSUME NEW f, NEW start \in M!Addr, NEW bytes, Len(bytes) \in Nat, Len(bytes) <= 3,
         NEW i \in 1..Len(bytes), M!SramAddr(start, i) \notin Video
  PROVE  M!Holds(Lasting(M!Stored(f, start, bytes)), M!SramAddr(start, i)) = bytes[i]
<1> DEFINE g == M!Stored(f, start, bytes)
           b == M!SramAddr(start, i)
<1>1. M!ByteAt(start, b) = i /\ i <= Len(bytes)
  BY PlacesOfInstruction, AddressOfPlace
<1>2. b \in DOMAIN g
  BY DEF M!Stored
<1>3. g[b] = bytes[i]
  BY <1>1, <1>2 DEF M!Stored
<1>4. b \in DOMAIN Lasting(g) /\ Lasting(g)[b] = g[b]
  BY <1>2 DEF Lasting
<1> HIDE DEF g, b
<1> QED
  BY <1>3, <1>4 DEF M!Holds, g, b

\* What a transfer does not touch is held as before.
LEMMA IntactMirrors ==
  ASSUME NEW f, Mirrors(f, source), NEW start \in M!Addr, NEW bytes, Len(bytes) \in Nat
  PROVE  Mirrors(Lasting(M!Stored(f, start, bytes)), Intact(Touched(start, bytes)))
<1> DEFINE g == Lasting(M!Stored(f, start, bytes))
           cells == Touched(start, bytes)
           left == {a \in DOMAIN source : ~Covers(a, source[a], cells)}
<1>1. Intact(cells) = [a \in left |-> source[a]]
  BY DEF Intact
<1>2. ASSUME NEW a \in left
      PROVE  /\ a \in M!Addr /\ IsInstruction(source[a])
             /\ \A i \in 1..Len(source[a]) :
                  M!SramAddr(a, i) \notin Video /\ M!Holds(g, M!SramAddr(a, i)) = source[a][i]
  <2>1. a \in M!Addr /\ IsInstruction(source[a])
    BY DEF Mirrors
  <2>2. ASSUME NEW i \in 1..Len(source[a])
        PROVE  M!SramAddr(a, i) \notin Video /\ M!Holds(g, M!SramAddr(a, i)) = source[a][i]
    <3>1. M!SramAddr(a, i) \notin Video /\ M!Holds(f, M!SramAddr(a, i)) = source[a][i]
      BY DEF Mirrors
    <3>2. M!SramAddr(a, i) \notin cells
      BY DEF Covers, Touched
    <3>3. M!SramAddr(a, i) \in M!Addr
      BY <2>1, PlacesOfInstruction, TransferStaysInChip DEF IsInstruction
    <3> QED
      BY <3>1, <3>2, <3>3, OthersStay
  <2> QED
    BY <2>1, <2>2
<1> HIDE DEF g, left, cells
<1> QED
  BY <1>1, <1>2 DEF Mirrors, g, cells

LEMMA WriteIsTyped ==
  ASSUME NEW w \in ProgramWrites
  PROVE  /\ w.addr \in Int /\ 0 <= w.addr /\ w.addr <= 65535
         /\ w.src \in Seq(0..255) /\ Len(w.src) \in Nat
<1>1. w.addr \in M!Addr
  BY WritesAssumption DEF WritesAssumption
<1>2. w.src \in Seq(0..255) /\ Len(w.src) \in Nat
  BY WritesAssumption DEF WritesAssumption
<1>3. w.addr \in Int /\ 0 <= w.addr /\ w.addr <= 65535
  <2> DEFINE a == w.addr
  <2> HIDE DEF a
  <2>1. a \in Int /\ 0 <= a /\ a <= 65535
    BY <1>1, AddressIsNumber DEF a
  <2> QED
    BY <2>1 DEF a
<1> QED
  BY <1>2, <1>3

\* So is what a program does not write, the part in the chip being all that
\* counts.
LEMMA ProgramMirrors ==
  ASSUME Mirrors(sram, source), NEW w \in ProgramWrites
  PROVE  LET part == M!Part(w.addr, Len(w.src))
         IN  Mirrors(Lasting(M!SramWritten(sram, w.addr, w.src)),
                     Intact(Touched(M!SramStart(w.addr, part), SubSeq(w.src, part + 1, Len(w.src)))))
<1> DEFINE size == Len(w.src)
           part == M!Part(w.addr, size)
           rest == SubSeq(w.src, part + 1, size)
<1>1. w.addr \in Int /\ 0 <= w.addr /\ w.addr <= 65535
  BY WriteIsTyped
<1>2. w.src \in Seq(0..255) /\ size \in Nat
  BY WriteIsTyped
<1> HIDE DEF size
<1>3. part \in Nat /\ part <= size /\ w.addr + part <= 65535
  BY <1>1, <1>2, SMT DEF M!Part
<1>4. M!SramStart(w.addr, part) \in M!Addr
  <2>1. M!SramStart(w.addr, part) \in Int /\ 0 <= M!SramStart(w.addr, part)
        /\ M!SramStart(w.addr, part) <= 65535
    BY <1>1, <1>3, SMT DEF M!SramStart
  <2> QED
    BY <2>1, AddressRange
<1> HIDE DEF part
<1>5. Len(rest) \in Nat
  <2>1. \A i \in (part + 1)..size : w.src[i] \in 0..255
    <3>1. \A i \in 1..Len(w.src) : w.src[i] \in 0..255
      BY <1>2, ElementOfSeq
    <3>2. \A i \in (part + 1)..size : i \in 1..size
      BY <1>2, <1>3, SMT
    <3> QED
      BY <3>1, <3>2 DEF size
  <2>2. Len(rest) = IF part + 1 <= size THEN size - (part + 1) + 1 ELSE 0
    BY <2>1, <1>2, <1>3, SubSeqProperties
  <2> QED
    BY <2>2, <1>2, <1>3, SMT
<1> HIDE DEF rest
<1>6. Mirrors(Lasting(M!Stored(sram, M!SramStart(w.addr, part), rest)),
              Intact(Touched(M!SramStart(w.addr, part), rest)))
  BY <1>4, <1>5, IntactMirrors
<1> QED
  BY <1>6 DEF M!SramWritten, part, rest, size

\* The program fetches from the chip above local.
LEMMA FetchIsFromChip ==
  ASSUME NEW a \in M!Addr, a >= PROG_START, NEW n
  PROVE  M!VmRead(local, sram, a, n) = [i \in 1..n |-> M!Holds(sram, M!SramAddr(a, i))]
<1>1. a \in Int /\ a >= 512
  BY AddressRange, StartIsAddress
<1>2. M!Part(a, n) = 0
  BY <1>1, SMT DEF M!Part
<1>3. M!SramStart(a, 0) = a
  BY <1>1, SMT DEF M!SramStart
<1>4. ASSUME NEW i \in 1..n PROVE ~(i <= 0) /\ i - 0 = i
  BY SMT
<1> QED
  BY <1>2, <1>3, <1>4 DEF M!VmRead

LEMMA MirrorIsFetched == Mirrors(sram, source) => ProgramRunsSource
<1> SUFFICES ASSUME Mirrors(sram, source), NEW a \in DOMAIN source, a >= PROG_START
             PROVE  source[a] = M!VmRead(local, sram, a, Len(source[a]))
  BY DEF ProgramRunsSource
<1>1. a \in M!Addr /\ source[a] = [i \in 1..Len(source[a]) |-> source[a][i]]
  BY DEF Mirrors, IsInstruction
<1>2. \A i \in 1..Len(source[a]) : M!Holds(sram, M!SramAddr(a, i)) = source[a][i]
  BY DEF Mirrors
<1> QED
  BY <1>1, <1>2, FetchIsFromChip

-----------------------------------------------------------------------------
(* What the assembler returns.                                             *)

LEMMA InstructionIsShort ==
  ASSUME NEW addr, NEW line, Instruction(addr, line) # Rejected
  PROVE  IsInstruction(Instruction(addr, line))
<1>1. ASSUME NEW row, NEW v, NEW mode
      PROVE  IsInstruction(emit_op(row, v, Width(mode)))
  <2> DEFINE all == <<row.code, v % 256, v \div 256>>
             S == {row.code, v % 256, v \div 256}
             n == Width(mode)
  <2>1. n \in Nat /\ 1 <= n /\ n <= 3
    BY DEF Width
  <2>2. \A i \in 1..n : all[i] \in S
    <3>1. all[1] \in S /\ all[2] \in S /\ all[3] \in S
      OBVIOUS
    <3> HIDE DEF all, S, n
    <3> QED
      BY <2>1, <3>1, SMT
  <2> HIDE DEF all, S, n
  <2>3. SubSeq(all, 1, n) \in Seq(S) /\ Len(SubSeq(all, 1, n)) = n
    BY <2>1, <2>2, SubSeqProperties
  <2>4. SubSeq(all, 1, n) = [i \in 1..Len(SubSeq(all, 1, n)) |-> SubSeq(all, 1, n)[i]]
    BY <2>3, SeqDef
  <2> QED
    BY <2>1, <2>3, <2>4 DEF IsInstruction, emit_op, all, n
<1> QED
  BY <1>1 DEF Instruction

LEMMA AssembledIsShort ==
  ASSUME NEW addr, NEW tokens, ~Starts(tokens, "."), dasm_as(addr, tokens) # Rejected
  PROVE  IsInstruction(dasm_as(addr, tokens))
<1>1. dasm_as(addr, tokens) = Instruction(addr, Unblanked(tokens))
  BY DEF dasm_as
<1> QED
  BY <1>1, InstructionIsShort

LEMMA AssembledIsFinite ==
  ASSUME NEW addr, NEW tokens \in AsLines
  PROVE  Len(dasm_as(addr, tokens)) \in Nat
<1>1. CASE dasm_as(addr, tokens) = Rejected
  BY <1>1 DEF Rejected
<1>2. CASE dasm_as(addr, tokens) # Rejected /\ Starts(tokens, ".")
  <2>1. dasm_as(addr, tokens) = Data(Tail(Unblanked(tokens)))
    BY <1>2 DEF dasm_as
  <2>2. Data(Tail(Unblanked(tokens))) \in Seq(0..255)
    BY <1>2, DataAssumption DEF DataAssumption
  <2> QED
    BY <2>1, <2>2
<1>3. CASE dasm_as(addr, tokens) # Rejected /\ ~Starts(tokens, ".")
  BY <1>3, AssembledIsShort DEF IsInstruction
<1> QED
  BY <1>1, <1>2, <1>3

-----------------------------------------------------------------------------
(* The addresses.                                                          *)

LEMMA LeastInPlaces ==
  ASSUME NEW n \in Nat, NEW I, I \subseteq 1..n, I # {}
  PROVE  \E x \in I : \A y \in I : x <= y
<1> DEFINE R == OpToRel(<, Nat)
<1>1. I \subseteq Nat
  BY SMT
<1>2. PICK x \in I : \A y \in I : ~(<<y, x>> \in R)
  <2>1. IsWellFoundedOn(R, Nat)
    BY NatLessThanWellFounded
  <2> HIDE DEF R
  <2> QED
    BY <1>1, <2>1, WFMin
<1>3. \A y \in I : x <= y
  <2> SUFFICES ASSUME NEW y \in I PROVE x <= y
    OBVIOUS
  <2>1. ~(y < x)
    BY <1>1, <1>2 DEF OpToRel
  <2> QED
    BY <1>1, <2>1, SMT
<1> QED
  BY <1>3

LEMMA LeastIsIn ==
  ASSUME NEW n \in Nat, NEW I, I \subseteq 1..n, I # {}
  PROVE  Min(I) \in I
BY LeastInPlaces DEF Min

LEMMA EatenIsTyped ==
  ASSUME NEW rest \in Seq(Tokens), Eaten(rest) # <<>>
  PROVE  Head(Eaten(rest)) \in Tokens
<1> DEFINE solid == {i \in 1..Len(rest) : rest[i].t # "sp"}
           first == SelectInSeq(rest, LAMBDA k : k.t # "sp")
<1>1. first = IF solid # {} THEN Min(solid) ELSE 0
  BY DEF SelectInSeq
<1>2. solid # {}
  BY <1>1 DEF Eaten
<1>3. first \in Nat /\ first \in 1..Len(rest)
  <2>1. solid \subseteq 1..Len(rest) /\ Len(rest) \in Nat
    OBVIOUS
  <2>2. first = Min(solid)
    BY <1>1, <1>2
  <2> HIDE DEF solid, first
  <2>3. first \in 1..Len(rest)
    BY <1>2, <2>1, <2>2, LeastIsIn
  <2> QED
    BY <2>3
<1>4. Eaten(rest) = SubSeq(rest, first, Len(rest))
  BY <1>3 DEF Eaten
<1> HIDE DEF first
<1>5. \A i \in first..Len(rest) : rest[i] \in Tokens
  BY <1>3, ElementOfSeq
<1>6. Eaten(rest) \in Seq(Tokens)
  BY <1>3, <1>4, <1>5, SubSeqProperties
<1> QED
  BY <1>6

LEMMA ValueIsAddress ==
  ASSUME NEW k \in Tokens, k.t = "num"
  PROVE  Value(k) \in M!Addr
<1>1. k.v \in Seq(Nat) /\ k.v # <<>>
  BY DEF Tokens
<1>2. k.v[1] \in Nat
  BY <1>1
<1>3. Value(k) \in Int /\ 0 <= Value(k) /\ Value(k) <= 65535
  BY <1>2, SMT DEF Value
<1> QED
  BY <1>3, AddressRange

LEMMA AddressIsAddress ==
  ASSUME NEW line \in CommandLines, static[line.name] \in M!Addr
  PROVE  Address(line) \in M!Addr
<1> DEFINE r == Eaten(line.rest)
           old == static[line.name]
<1>1. line.rest \in Seq(Tokens)
  BY LinesAssumption DEF LinesAssumption
<1>2. CASE r # <<>> /\ Head(r).t = "num"
  <2>1. Head(r) \in Tokens
    BY <1>1, <1>2, EatenIsTyped
  <2> QED
    BY <1>2, <2>1, ValueIsAddress DEF Address, get_param, StartsWithNumber
<1>3. CASE ~(r # <<>> /\ Head(r).t = "num")
  <2> HIDE DEF r, old
  <2>1. get_param(line.rest, old).addr = old
    <3>1. CASE r = <<>>
      BY <3>1 DEF get_param, StartsWithNumber, r
    <3>2. CASE r # <<>> /\ Head(r).t # "num"
      BY <3>2 DEF get_param, StartsWithNumber, r
    <3> QED
      BY <3>1, <3>2, <1>3
  <2> QED
    BY <2>1 DEF Address, old
<1> QED
  BY <1>2, <1>3

\* static may move to another address, or one of peek and list to anything.
LEMMA SetsKeeps ==
  ASSUME StaticInv, NEW name \in {"peek", "poke", "list", "as"}, NEW addr, Sets(name, addr),
         name \in {"poke", "as"} => addr \in M!Addr
  PROVE  StaticInv'
BY Zenon DEF StaticInv, Sets

\* One byte or more further on.
LEMMA AdvanceIsAddress ==
  ASSUME NEW addr \in M!Addr, NEW n \in Nat
  PROVE  Wrapped(addr + n) \in M!Addr
<1>1. addr \in Int /\ 0 <= addr
  BY AddressIsNumber
<1>2. Wrapped(addr + n) \in Int /\ 0 <= Wrapped(addr + n) /\ Wrapped(addr + n) <= 65535
  BY <1>1, SMT DEF Wrapped
<1> QED
  BY <1>2, AddressRange

-----------------------------------------------------------------------------
(* The steps.                                                              *)

LEMMA InitInv == Init => IInv
<1> SUFFICES ASSUME Init PROVE IInv
  OBVIOUS
<1>1. 0 \in M!Addr
  BY AddressRange
<1>2. StaticInv
  BY <1>1, StartIsAddress DEF Init, StaticInv
<1>3. DOMAIN source = {}
  BY DEF Init
<1> QED
  BY <1>2, <1>3 DEF IInv, Mirrors

\* Whatever leaves the memory alone and moves an address, if at all, to an
\* address.
LEMMA UnchangedInv ==
  ASSUME IInv, UNCHANGED memory, UNCHANGED static \/ StaticInv'
  PROVE  IInv'
BY DEF IInv, StaticInv, Mirrors, memory, M!Holds

LEMMA SetsInv ==
  ASSUME IInv, UNCHANGED memory, NEW name \in {"peek", "poke", "list", "as"}, NEW addr,
         Sets(name, addr), name \in {"poke", "as"} => addr \in M!Addr
  PROVE  IInv'
BY SetsKeeps, UnchangedInv DEF IInv

LEMMA AddressInv ==
  ASSUME IInv, NEW line \in CommandLines, line.name \in {"peek", "poke", "list", "as"},
         Sets(line.name, Address(line)), UNCHANGED memory
  PROVE  IInv'
<1>1. line.name \in {"poke", "as"} => Address(line) \in M!Addr
  BY AddressIsAddress DEF IInv, StaticInv
<1> QED
  BY <1>1, SetsInv

LEMMA RefusesInv ==
  ASSUME IInv, NEW line \in CommandLines, line.name \in {"peek", "poke", "list", "as"}, Refuses(line)
  PROVE  IInv'
<1>1. CASE Ends("ERR: CMD")
  BY <1>1, UnchangedInv DEF Ends, Keeps
<1>2. CASE Sets(line.name, Address(line)) /\ UNCHANGED <<memory, reader>>
  BY <1>2, AddressInv
<1> QED
  BY <1>1, <1>2 DEF Refuses

LEMMA LoadInv ==
  ASSUME IInv, NEW line, cmd_load(line)
  PROVE  IInv'
<1>1. CASE Ends("cancelled")
  BY <1>1, UnchangedInv DEF Ends, Keeps
<1>2. ASSUME NEW block \in Blocks, sram_write(PROG_START, block),
             source' = Intact(Touched(PROG_START, block)), UNCHANGED static
      PROVE  IInv'
  <2>1. Len(block) \in Nat
    BY BlocksAssumption DEF BlocksAssumption
  <2>2. Mirrors(Lasting(M!Stored(sram, PROG_START, block)), Intact(Touched(PROG_START, block)))
    BY <2>1, StartIsAddress, IntactMirrors DEF IInv
  <2>3. Mirrors(sram, source)'
    BY <1>2, <2>2 DEF sram_write, Mirrors
  <2> QED
    BY <1>2, <2>3 DEF IInv, StaticInv
<1> QED
  BY <1>1, <1>2 DEF cmd_load

LEMMA PromptInv ==
  ASSUME IInv, NEW line \in CommandLines, Prompt(line)
  PROVE  IInv'
<1>1. CASE ~Matches(line) /\ Ends("ERR: CMD")
  BY <1>1, UnchangedInv DEF Ends, Keeps
<1>2. CASE cmd_peek(line)
  <2>1. CASE Sets("peek", Wrapped(Address(line) + PeekBytes)) /\ UNCHANGED <<memory, reader>>
    BY <2>1, SetsInv
  <2> QED
    BY <1>2, <2>1, RefusesInv DEF cmd_peek
<1>3. CASE cmd_poke(line) \/ cmd_as(line)
  <2>1. CASE Asks(line)
    BY <1>3, <2>1, AddressInv DEF cmd_poke, cmd_as, Asks
  <2> QED
    BY <1>3, <2>1, RefusesInv DEF cmd_poke, cmd_as
<1>4. CASE cmd_list(line)
  <2>1. CASE Sets("list", Following(listing'[ListLines])) /\ UNCHANGED <<memory, reader>>
    BY <2>1, SetsInv
  <2> QED
    BY <1>4, <2>1, RefusesInv DEF cmd_list
<1>5. CASE cmd_save(line)
  <2>1. Ends("ERR: CMD") \/ Ends("ERR: ADDR") \/ Ends("cancelled") \/ \E range : Saved(range)
    BY <1>5, Zenon DEF cmd_save
  <2> QED
    BY <2>1, UnchangedInv DEF Ends, Keeps, Saved
<1>6. CASE cmd_load(line)
  BY <1>6, LoadInv
<1>7. CASE cmd_run(line) \/ cmd_cls(line) \/ cmd_help(line)
  BY <1>7, UnchangedInv DEF cmd_run, cmd_cls, cmd_help, Ends, Keeps
<1> QED
  BY <1>1, <1>2, <1>3, <1>4, <1>5, <1>6, <1>7 DEF Prompt

LEMMA PokeInv ==
  ASSUME IInv, NEW tokens, PokeLine(tokens)
  PROVE  IInv'
<1>1. CASE UNCHANGED <<memory, static>>
  BY <1>1, UnchangedInv
<1>2. ASSUME NEW byte, Poked(static["poke"], byte)
      PROVE  IInv'
  <2> DEFINE addr == static["poke"]
             bytes == <<byte>>
  <2>1. addr \in M!Addr
    BY DEF IInv, StaticInv
  <2>2. Len(bytes) = 1
    OBVIOUS
  <2> HIDE DEF bytes
  <2>3. Touched(addr, bytes) = {addr}
    <3>1. M!SramAddr(addr, 1) = addr
      <4>1. addr \in Int /\ 0 <= addr /\ addr <= 65535
        BY <2>1, AddressIsNumber
      <4> HIDE DEF addr
      <4> QED
        BY <4>1, SMT DEF M!SramAddr
    <3>2. Touched(addr, bytes) = {M!SramAddr(addr, i) : i \in {1}}
      <4>1. 1..1 = {1}
        BY SMT
      <4> QED
        BY <2>2, <4>1 DEF Touched
    <3> QED
      BY <3>1, <3>2
  <2>4. StaticInv'
    BY <1>2, <2>1, AdvanceIsAddress, SetsKeeps DEF IInv, Poked
  <2> HIDE DEF addr
  <2>5. Mirrors(Lasting(M!Stored(sram, addr, bytes)), Intact({addr}))
    <3>1. Len(bytes) \in Nat
      BY <2>2
    <3>2. Mirrors(Lasting(M!Stored(sram, addr, bytes)), Intact(Touched(addr, bytes)))
      BY <2>1, <3>1, IntactMirrors DEF IInv
    <3> QED
      BY <2>3, <3>2
  <2>6. Mirrors(sram', source')
    BY <1>2, <2>5 DEF sram_write, Poked, addr, bytes
  <2>7. Mirrors(sram, source)'
    BY <2>6 DEF Mirrors, M!Holds
  <2> QED
    BY <2>4, <2>7 DEF IInv
<1> QED
  BY <1>1, <1>2 DEF PokeLine

\* The new instruction is where it was written, and not on the screen.
LEMMA AsInv ==
  ASSUME IInv, NEW tokens \in AsLines, AsLine(tokens)
  PROVE  IInv'
<1> DEFINE addr  == static["as"]
           bytes == dasm_as(addr, tokens)
           kept  == Intact(Touched(addr, bytes))
           chip  == Lasting(M!Stored(sram, addr, bytes))
           new   == [a \in DOMAIN kept \cup {addr} |-> IF a = addr THEN bytes ELSE kept[a]]
<1>1. CASE UNCHANGED <<memory, static>>
  BY <1>1, UnchangedInv
<1>2. CASE bytes # Rejected /\ Assembled(addr, bytes, Starts(tokens, "."))
  <2>0. /\ sram_write(addr, bytes)
        /\ Sets("as", Wrapped(addr + Len(bytes)))
        /\ source' = IF Starts(tokens, ".") \/ Covers(addr, bytes, Video) THEN kept ELSE new
    BY <1>2 DEF Assembled, Written
  <2>1. addr \in M!Addr /\ Len(bytes) \in Nat
    BY AssembledIsFinite DEF IInv, StaticInv
  <2>2. StaticInv'
    <3> HIDE DEF addr, bytes
    <3>1. Wrapped(addr + Len(bytes)) \in M!Addr
      BY <2>1, AdvanceIsAddress
    <3> QED
      BY <2>0, <3>1, SetsKeeps DEF IInv
  <2>3. sram' = chip
    BY <2>0 DEF sram_write
  <2>4. ~Starts(tokens, ".") => IsInstruction(bytes)
    BY <1>2, AssembledIsShort
  <2> HIDE DEF addr, bytes
  <2>5. Mirrors(chip, kept)
    BY <2>1, IntactMirrors DEF IInv
  <2>6. ASSUME ~Starts(tokens, "."), ~Covers(addr, bytes, Video)
        PROVE  Mirrors(chip, new)
    <3>1. IsInstruction(bytes)
      BY <2>4, <2>6
    <3>2. ASSUME NEW i \in 1..Len(bytes)
          PROVE  M!SramAddr(addr, i) \notin Video /\ M!Holds(chip, M!SramAddr(addr, i)) = bytes[i]
      <4>1. M!SramAddr(addr, i) \notin Video
        BY <2>6 DEF Covers, Touched
      <4> QED
        BY <2>1, <3>1, <4>1, BytesArrive DEF IsInstruction
    <3> HIDE DEF kept, chip
    <3> QED
      BY <2>1, <2>5, <3>1, <3>2 DEF Mirrors
  <2>7. Mirrors(sram, source)'
    <3> HIDE DEF kept, chip, new
    <3>1. Mirrors(sram', source')
      BY <2>0, <2>3, <2>5, <2>6
    <3> QED
      BY <3>1 DEF Mirrors, M!Holds
  <2> QED
    BY <2>2, <2>7 DEF IInv
<1> QED
  BY <1>1, <1>2 DEF AsLine

LEMMA WriteInv ==
  ASSUME IInv, NEW w \in ProgramWrites, ProgramWrite(w)
  PROVE  IInv'
<1>1. Mirrors(sram', source')
  BY ProgramMirrors DEF IInv, ProgramWrite
<1>2. Mirrors(sram, source)'
  BY <1>1 DEF Mirrors, M!Holds
<1>3. UNCHANGED static
  BY DEF ProgramWrite
<1> QED
  BY <1>2, <1>3 DEF IInv, StaticInv

LEMMA NextInv == IInv /\ [Next]_vars => IInv'
<1> SUFFICES ASSUME IInv, [Next]_vars PROVE IInv'
  OBVIOUS
<1>1. ASSUME NEW line \in CommandLines, Prompt(line) PROVE IInv'
  BY <1>1, PromptInv
<1>2. ASSUME NEW tokens \in PokeLines, PokeLine(tokens) PROVE IInv'
  BY <1>2, PokeInv
<1>3. ASSUME NEW tokens \in AsLines, AsLine(tokens) PROVE IInv'
  BY <1>3, AsInv
<1>4. ASSUME NEW w \in ProgramWrites, ProgramWrite(w) PROVE IInv'
  BY <1>4, WriteInv
<1>5. CASE ProgramEnds
  BY <1>5, UnchangedInv DEF ProgramEnds
<1>6. CASE UNCHANGED vars
  BY <1>6, UnchangedInv DEF vars
<1> QED
  BY <1>1, <1>2, <1>3, <1>4, <1>5, <1>6 DEF Next

\* What was assembled and not overwritten is what the program fetches, for
\* every line, tape and program and wherever programs begin above local.
THEOREM RunsWhatWasAssembled == Spec => []ProgramRunsSource
<1>1. IInv => ProgramRunsSource
  BY MirrorIsFetched DEF IInv
<1> QED
  BY InitInv, NextInv, <1>1, PTL DEF Spec

-----------------------------------------------------------------------------
(* A command that fails.                                                   *)

LEMMA SameSetsNothing ==
  ASSUME StaticInv, NEW name, NEW addr, Sets(name, addr), addr = static[name]
  PROVE  UNCHANGED static
BY DEF StaticInv, Sets

Harmless == UNCHANGED <<memory, static>> /\ saved' = NeverSaved
Fails    == said' \in Errors

LEMMA EndsIsHarmless ==
  ASSUME NEW how, Ends(how)
  PROVE  Harmless
BY DEF Ends, Keeps, Quiet, Harmless

\* The address that was not understood is the one the command keeps.
LEMMA RefusesIsHarmless ==
  ASSUME IInv, NEW line, Refuses(line)
  PROVE  Harmless
<1>1. CASE Ends("ERR: CMD")
  BY <1>1, EndsIsHarmless
<1>2. CASE /\ BadAddress(line) /\ Quiet
           /\ Sets(line.name, Address(line)) /\ UNCHANGED <<memory, reader>>
  <2> DEFINE r == Eaten(line.rest)
             old == static[line.name]
  <2>1. Address(line) = old
    <3> HIDE DEF r, old
    <3>1. CASE r = <<>>
      BY <3>1 DEF get_param, StartsWithNumber, r, old, Address
    <3>2. CASE StartsWithNumber(r)
      <4>1. get_param(line.rest, old).ret = "some"
        BY <3>2 DEF get_param, r, StartsWithNumber
      <4> QED
        BY <1>2, <4>1 DEF BadAddress, old
    <3>3. CASE r # <<>> /\ ~StartsWithNumber(r)
      BY <3>3 DEF get_param, r, old, Address
    <3> QED
      BY <3>1, <3>2, <3>3
  <2>2. UNCHANGED static
    BY <1>2, <2>1, SameSetsNothing DEF IInv
  <2> QED
    BY <1>2, <2>2 DEF Harmless, Quiet
<1> QED
  BY <1>1, <1>2 DEF Refuses

LEMMA PromptFailsHarmlessly ==
  ASSUME IInv, NEW line, Prompt(line), Fails
  PROVE  Harmless
<1> USE DEF Fails, Errors, Says
<1>1. CASE ~Matches(line) /\ Ends("ERR: CMD")
  BY <1>1, EndsIsHarmless
<1>2. CASE cmd_peek(line) \/ cmd_poke(line) \/ cmd_list(line) \/ cmd_as(line)
  <2>1. CASE cmd_peek(line)
    <3>1. ~Says("bytes")
      OBVIOUS
    <3> HIDE DEF Says
    <3> QED
      BY <2>1, <3>1, RefusesIsHarmless DEF cmd_peek
  <2>2. CASE cmd_poke(line) \/ cmd_as(line)
    BY <2>2, RefusesIsHarmless DEF cmd_poke, cmd_as, Asks
  <2>3. CASE cmd_list(line)
    BY <2>3, RefusesIsHarmless DEF cmd_list
  <2> QED
    BY <1>2, <2>1, <2>2, <2>3
<1>3. CASE cmd_save(line)
  <2>1. Ends("ERR: CMD") \/ Ends("ERR: ADDR") \/ Ends("cancelled") \/ \E range : Saved(range)
    BY <1>3, Zenon DEF cmd_save
  <2>2. ~(\E range : Saved(range))
    BY DEF Saved
  <2> QED
    BY <2>1, <2>2, EndsIsHarmless
<1>4. CASE cmd_load(line)
  BY <1>4, EndsIsHarmless DEF cmd_load
<1>5. CASE cmd_run(line) \/ cmd_cls(line) \/ cmd_help(line)
  BY <1>5, EndsIsHarmless DEF cmd_run, cmd_cls, cmd_help
<1> QED
  BY <1>1, <1>2, <1>3, <1>4, <1>5 DEF Prompt

\* A line that is refused, at the prompt or by the assembler, changes no
\* memory and no address a later command starts from, and saves nothing.
THEOREM RefusedChangesNothing == Spec => FailedCommandKeeps
<1>1. IInv /\ [Next]_vars => [said' \in Errors => UNCHANGED <<memory, static>> /\ saved' = NeverSaved]_vars
  <2> SUFFICES ASSUME IInv, Next, Fails PROVE Harmless
    BY DEF Fails, Harmless
  <2>1. ASSUME NEW line \in CommandLines, Prompt(line) PROVE Harmless
    BY <2>1, PromptFailsHarmlessly
  <2>2. ASSUME NEW tokens \in PokeLines, PokeLine(tokens) PROVE Harmless
    BY <2>2 DEF PokeLine, Says, Fails, Errors
  <2>3. ASSUME NEW tokens \in AsLines, AsLine(tokens) PROVE Harmless
    BY <2>3 DEF AsLine, Says, Fails, Errors, Harmless, Quiet
  <2>4. ASSUME NEW w \in ProgramWrites, ProgramWrite(w) PROVE Harmless
    BY <2>4 DEF ProgramWrite, Says, Fails, Errors
  <2>5. CASE ProgramEnds
    BY <2>5 DEF ProgramEnds, Says, Fails, Errors
  <2> QED
    BY <2>1, <2>2, <2>3, <2>4, <2>5 DEF Next
<1> QED
  BY InitInv, NextInv, <1>1, PTL DEF Spec, FailedCommandKeeps
-----------------------------------------------------------------------------
(* What is saved.                                                          *)

LEMMA MinIs ==
  ASSUME NEW I, I \subseteq Nat, NEW n \in I, \A m \in I : n <= m
  PROVE  Min(I) = n
<1>1. Min(I) \in I /\ \A m \in I : Min(I) <= m
  BY DEF Min
<1>2. Min(I) <= n /\ n <= Min(I) /\ n \in Nat /\ Min(I) \in Nat
  BY <1>1
<1> QED
  BY <1>2, SMT

\* Place p of a line has its first token that is no blank.
FirstSolid(rest, p) ==
  p \in 1..Len(rest) /\ rest[p].t # "sp" /\ \A i \in 1..(p - 1) : rest[i].t = "sp"

Blank(rest) == \A i \in 1..Len(rest) : rest[i].t = "sp"

\* What follows the blanks, if anything does, is the line from a place on.
LEMMA EatenFrom ==
  ASSUME NEW rest \in Seq(Tokens)
  PROVE  \/ Blank(rest) /\ Eaten(rest) = <<>>
         \/ \E p \in 1..Len(rest) :
              /\ FirstSolid(rest, p) /\ Eaten(rest) # <<>>
              /\ Head(Eaten(rest)) = rest[p]
              /\ Tail(Eaten(rest)) = SubSeq(rest, p + 1, Len(rest))
<1> DEFINE solid == {i \in 1..Len(rest) : rest[i].t # "sp"}
           first == SelectInSeq(rest, LAMBDA k : k.t # "sp")
<1>1. first = IF solid # {} THEN Min(solid) ELSE 0
  BY DEF SelectInSeq
<1>2. CASE solid = {}
  <2>1. first = 0
    BY <1>1, <1>2
  <2>2. Eaten(rest) = <<>>
    BY <2>1 DEF Eaten
  <2>3. Blank(rest)
    BY <1>2 DEF Blank
  <2> QED
    BY <2>2, <2>3
<1>3. CASE solid # {}
  <2>1. Len(rest) \in Nat /\ solid \subseteq 1..Len(rest)
    OBVIOUS
  <2>2. first = Min(solid)
    BY <1>1, <1>3
  <2>3. first \in solid /\ \A i \in solid : first <= i
    <3> HIDE DEF solid, first
    <3>1. Min(solid) \in solid
      BY <1>3, <2>1, LeastIsIn
    <3>2. PICK x \in solid : \A y \in solid : x <= y
      BY <1>3, <2>1, LeastInPlaces
    <3> QED
      BY <2>2, <3>1, <3>2 DEF Min
  <2>4. FirstSolid(rest, first)
    <3>1. first \in 1..Len(rest) /\ rest[first].t # "sp"
      BY <2>3
    <3>2. ASSUME NEW i \in 1..(first - 1) PROVE rest[i].t = "sp"
      <4> HIDE DEF first
      <4>1. i \in 1..Len(rest) /\ ~(first <= i)
        BY <2>1, <3>1, <3>2, SMT
      <4> QED
        BY <2>3, <4>1
    <3> QED
      BY <3>1, <3>2 DEF FirstSolid
  <2> HIDE DEF first, solid
  <2>5. first \in 1..Len(rest)
    BY <2>4 DEF FirstSolid
  <2>6. first # 0 /\ first \in Nat
    BY <2>1, <2>5, SMT
  <2>7. Eaten(rest) = SubSeq(rest, first, Len(rest))
    BY <2>6 DEF Eaten, first
  <2>8. /\ SubSeq(rest, first, Len(rest)) # <<>>
        /\ Head(SubSeq(rest, first, Len(rest))) = rest[first]
        /\ Tail(SubSeq(rest, first, Len(rest))) = SubSeq(rest, first + 1, Len(rest))
    <3>1. Len(rest) \in first..Len(rest)
      BY <2>1, <2>5, SMT
    <3>2. /\ Head(SubSeq(rest, first, Len(rest))) = rest[first]
          /\ Tail(SubSeq(rest, first, Len(rest))) = SubSeq(rest, first + 1, Len(rest))
      BY <2>5, <3>1, HeadTailOfSubSeq
    <3>3. SubSeq(rest, first, Len(rest)) # <<>>
      <4>1. \A i \in first..Len(rest) : rest[i] \in Tokens
        BY <2>5, ElementOfSeq
      <4>2. Len(SubSeq(rest, first, Len(rest)))
              = IF first <= Len(rest) THEN Len(rest) - first + 1 ELSE 0
        BY <2>1, <2>6, <4>1, SubSeqProperties
      <4>3. Len(SubSeq(rest, first, Len(rest))) # 0
        BY <2>1, <2>5, <4>2, SMT
      <4> DEFINE eaten == SubSeq(rest, first, Len(rest))
      <4> HIDE DEF eaten
      <4>4. Len(eaten) # 0 => eaten # <<>>
        OBVIOUS
      <4> QED
        BY <4>3, <4>4 DEF eaten
    <3> QED
      BY <3>2, <3>3
  <2> QED
    BY <2>4, <2>5, <2>7, <2>8
<1> QED
  BY <1>2, <1>3

\* What get_param finds in a line.
LEMMA ParamFound ==
  ASSUME NEW rest \in Seq(Tokens), NEW addr
  PROVE  LET r == get_param(rest, addr)
         IN  \/ r.ret = "bad"
             \/ r.ret = "none" /\ Blank(rest) /\ r.addr = addr /\ r.left = rest
             \/ /\ r.ret = "some"
                /\ \E p \in 1..Len(rest) :
                     /\ FirstSolid(rest, p) /\ rest[p].t = "num"
                     /\ r.addr = Value(rest[p])
                     /\ r.left = SubSeq(rest, p + 1, Len(rest))
<1> DEFINE e == Eaten(rest)
<1>1. CASE e = <<>> /\ Blank(rest)
  <2> HIDE DEF e
  <2> QED
    BY <1>1 DEF get_param, StartsWithNumber, e
<1>2. ASSUME NEW p \in 1..Len(rest), FirstSolid(rest, p), e # <<>>, Head(e) = rest[p],
             Tail(e) = SubSeq(rest, p + 1, Len(rest))
      PROVE  \/ get_param(rest, addr).ret = "bad"
             \/ /\ get_param(rest, addr).ret = "some"
                /\ rest[p].t = "num"
                /\ get_param(rest, addr).addr = Value(rest[p])
                /\ get_param(rest, addr).left = SubSeq(rest, p + 1, Len(rest))
  <2> HIDE DEF e
  <2>1. CASE StartsWithNumber(e)
    BY <1>2, <2>1 DEF get_param, StartsWithNumber, e
  <2>2. CASE ~StartsWithNumber(e)
    BY <1>2, <2>2 DEF get_param, e
  <2> QED
    BY <2>1, <2>2
<1> QED
  BY <1>1, <1>2, EatenFrom

\* A block that is what was typed.
BlockTyped(block) ==
  /\ block.start < block.end
  /\ LET first  == Numbers(block.rest)
         second == {i \in first : i > Min(first)}
     IN  /\ block.start = (IF first = {} THEN PROG_START ELSE Value(block.rest[Min(first)]))
         /\ block.end = (IF second = {} THEN LastAddress ELSE Value(block.rest[Min(second)]))
         /\ \A i \in 1..Len(block.rest) :
              (block.rest[i].t \notin {"num", "sp"}) => second # {}

\* A line without a number,
LEMMA NoneTyped ==
  ASSUME NEW rest, Blank(rest), PROG_START < LastAddress
  PROVE  BlockTyped([start |-> PROG_START, end |-> LastAddress, rest |-> rest])
<1>1. Numbers(rest) = {}
  BY DEF Numbers, Blank
<1> QED
  BY <1>1 DEF BlockTyped, Blank

\* one whose first token is one,
LEMMA FirstTyped ==
  ASSUME NEW rest \in Seq(Tokens), NEW p \in 1..Len(rest), FirstSolid(rest, p), rest[p].t = "num"
  PROVE  /\ Numbers(rest) # {} /\ Min(Numbers(rest)) = p
         /\ {i \in Numbers(rest) : i > Min(Numbers(rest))}
              = {i \in 1..Len(rest) : i > p /\ rest[i].t = "num"}
<1>1. p \in Numbers(rest) /\ Numbers(rest) \subseteq Nat
  BY SMT DEF Numbers
<1>2. ASSUME NEW m \in Numbers(rest) PROVE p <= m
  <2>1. m \in 1..Len(rest) /\ rest[m].t = "num"
    BY DEF Numbers
  <2>2. m \notin 1..(p - 1)
    BY <2>1 DEF FirstSolid
  <2> QED
    BY <2>1, <2>2, SMT
<1>3. Min(Numbers(rest)) = p
  BY <1>1, <1>2, MinIs
<1> QED
  BY <1>1, <1>3 DEF Numbers

\* and nothing but blanks after it,
LEMMA OneTyped ==
  ASSUME NEW rest \in Seq(Tokens), NEW p \in 1..Len(rest), FirstSolid(rest, p), rest[p].t = "num",
         \A i \in 1..Len(rest) : i > p => rest[i].t = "sp", Value(rest[p]) < LastAddress
  PROVE  BlockTyped([start |-> Value(rest[p]), end |-> LastAddress, rest |-> rest])
<1> DEFINE more == {i \in 1..Len(rest) : i > p /\ rest[i].t = "num"}
<1>1. more = {}
  OBVIOUS
<1>2. ASSUME NEW i \in 1..Len(rest) PROVE rest[i].t \in {"num", "sp"}
  <2>1. i \in 1..(p - 1) \/ i = p \/ i > p
    BY SMT
  <2> QED
    BY <2>1 DEF FirstSolid
<1> HIDE DEF more
<1> QED
  BY <1>1, <1>2, FirstTyped DEF BlockTyped, more

\* and another number next.
LEMMA TwoTyped ==
  ASSUME NEW rest \in Seq(Tokens), NEW p \in 1..Len(rest), FirstSolid(rest, p), rest[p].t = "num",
         NEW q \in 1..Len(rest), p < q, rest[q].t = "num",
         \A i \in 1..Len(rest) : p < i /\ i < q => rest[i].t = "sp",
         Value(rest[p]) < Value(rest[q])
  PROVE  BlockTyped([start |-> Value(rest[p]), end |-> Value(rest[q]), rest |-> rest])
<1> DEFINE more == {i \in 1..Len(rest) : i > p /\ rest[i].t = "num"}
<1>1. q \in more /\ more \subseteq Nat
  BY SMT
<1>2. ASSUME NEW m \in more PROVE q <= m
  <2>1. ~(p < m /\ m < q)
    OBVIOUS
  <2>2. m \in Nat /\ m > p /\ q \in Nat
    BY SMT
  <2> QED
    BY <2>1, <2>2, SMT
<1> HIDE DEF more
<1>3. Min(more) = q
  BY <1>1, <1>2, MinIs
<1> QED
  BY <1>1, <1>3, FirstTyped DEF BlockTyped, more

\* save gives what was typed, when it gives anything.
LEMMA RangeIsTyped ==
  ASSUME NEW rest \in Seq(Tokens)
  PROVE  LET first  == get_param(rest, PROG_START)
             left   == AfterFirst(first)
             second == get_param(left, LastAddress)
         IN  Separated(left) /\ second.ret # "bad" /\ ~BadRange(first.addr, second.addr)
               => BlockTyped([start |-> first.addr, end |-> second.addr, rest |-> rest])
<1> DEFINE first  == get_param(rest, PROG_START)
           left   == AfterFirst(first)
           second == get_param(left, LastAddress)
<1> SUFFICES ASSUME Separated(left), second.ret # "bad", ~BadRange(first.addr, second.addr)
             PROVE  BlockTyped([start |-> first.addr, end |-> second.addr, rest |-> rest])
  OBVIOUS
<1>1. first.ret # "bad"
  <2> SUFFICES ASSUME first.ret = "bad" PROVE FALSE
    OBVIOUS
  <2>1. left = LastLetter
    BY DEF AfterFirst
  <2>2. ~Separated(LastLetter)
    BY DEF Separated, LastLetter, Tok
  <2> HIDE DEF left
  <2> QED
    BY <2>1, <2>2
<1>2. left = first.left
  BY <1>1 DEF AfterFirst
<1>3. LastAddress \in Int /\ PROG_START \in Int
  BY StartIsAddress DEF LastAddress
<1>4. ASSUME first.addr \in Int, second.addr \in Int
      PROVE  first.addr < second.addr
  <2> HIDE DEF first, second
  <2> QED
    BY <1>4, SMT DEF BadRange
<1>5. CASE first.ret = "none" /\ Blank(rest) /\ first.addr = PROG_START /\ first.left = rest
  <2> HIDE DEF first, left, second
  <2>1. ~\E p \in 1..Len(rest) : FirstSolid(rest, p)
    BY <1>5 DEF FirstSolid, Blank
  <2>2. second.addr = LastAddress
    BY <1>2, <1>5, <2>1, ParamFound DEF second
  <2> QED
    BY <1>3, <1>4, <1>5, <2>2, NoneTyped
<1>6. ASSUME NEW p \in 1..Len(rest), FirstSolid(rest, p), rest[p].t = "num",
             first.addr = Value(rest[p]), first.left = SubSeq(rest, p + 1, Len(rest))
      PROVE  BlockTyped([start |-> first.addr, end |-> second.addr, rest |-> rest])
  <2> HIDE DEF first, left, second
  <2>1. Len(rest) \in Nat /\ p \in Nat /\ p <= Len(rest)
    BY SMT
  <2>2. /\ left \in Seq(Tokens)
        /\ Len(left) = Len(rest) - p
        /\ \A i \in 1..Len(left) : left[i] = rest[p + i]
    <3>1. \A i \in (p + 1)..Len(rest) : rest[i] \in Tokens
      <4> SUFFICES ASSUME NEW i \in (p + 1)..Len(rest) PROVE rest[i] \in Tokens
        OBVIOUS
      <4>1. i \in 1..Len(rest)
        BY <2>1, SMT
      <4> QED
        BY <4>1, ElementOfSeq
    <3> DEFINE tail == SubSeq(rest, p + 1, Len(rest))
    <3>2. /\ tail \in Seq(Tokens)
          /\ Len(tail) = IF p + 1 <= Len(rest) THEN Len(rest) - (p + 1) + 1 ELSE 0
          /\ \A i \in 1..(Len(rest) - (p + 1) + 1) : tail[i] = rest[(p + 1) + i - 1]
      BY <2>1, <3>1, SubSeqProperties
    <3>3. left = tail
      BY <1>2, <1>6
    <3> HIDE DEF tail
    <3>4. Len(tail) = Len(rest) - p
      BY <2>1, <3>2, SMT
    <3>5. ASSUME NEW i \in 1..Len(tail) PROVE tail[i] = rest[p + i]
      <4>1. i \in 1..(Len(rest) - (p + 1) + 1) /\ (p + 1) + i - 1 = p + i
        BY <2>1, <3>4, SMT
      <4> QED
        BY <3>2, <4>1
    <3> QED
      BY <3>2, <3>3, <3>4, <3>5
  <2>3. Value(rest[p]) \in Int
    <3>1. rest[p] \in Tokens
      BY ElementOfSeq
    <3> QED
      BY <1>6, <3>1, ValueIsAddress, AddressIsNumber
  <2>4. CASE Blank(left) /\ second.addr = LastAddress
    <3>1. ASSUME NEW i \in 1..Len(rest), i > p PROVE rest[i].t = "sp"
      <4>1. i - p \in 1..Len(left) /\ p + (i - p) = i
        BY <2>1, <2>2, <3>1, SMT
      <4> QED
        BY <2>2, <2>4, <4>1 DEF Blank
    <3> QED
      BY <1>3, <1>4, <1>6, <2>3, <2>4, <3>1, OneTyped
  <2>5. ASSUME NEW k \in 1..Len(left), FirstSolid(left, k), left[k].t = "num",
               second.addr = Value(left[k])
        PROVE  BlockTyped([start |-> first.addr, end |-> second.addr, rest |-> rest])
    <3>1. p + k \in 1..Len(rest) /\ p < p + k /\ rest[p + k] = left[k]
      BY <2>1, <2>2, SMT
    <3>2. ASSUME NEW i \in 1..Len(rest), p < i, i < p + k PROVE rest[i].t = "sp"
      <4>1. i - p \in 1..Len(left) /\ i - p \in 1..(k - 1) /\ p + (i - p) = i
        BY <2>1, <2>2, <3>2, SMT
      <4>2. left[i - p].t = "sp"
        BY <2>5, <4>1 DEF FirstSolid
      <4> QED
        BY <2>2, <4>1, <4>2
    <3>3. Value(rest[p + k]) \in Int
      <4>1. rest[p + k] \in Tokens
        BY <3>1, ElementOfSeq
      <4> QED
        BY <2>5, <3>1, <4>1, ValueIsAddress, AddressIsNumber
    <3>4. Value(rest[p]) < Value(rest[p + k])
      BY <1>4, <1>6, <2>3, <2>5, <3>1, <3>3
    <3> DEFINE q == p + k
    <3>5. q \in 1..Len(rest) /\ p < q /\ rest[q].t = "num" /\ Value(rest[p]) < Value(rest[q])
          /\ \A i \in 1..Len(rest) : p < i /\ i < q => rest[i].t = "sp"
      BY <2>5, <3>1, <3>2, <3>4
    <3>6. second.addr = Value(rest[q])
      BY <2>5, <3>1
    <3> HIDE DEF q
    <3>7. BlockTyped([start |-> Value(rest[p]), end |-> Value(rest[q]), rest |-> rest])
      BY <1>6, <3>5, TwoTyped
    <3> QED
      BY <1>6, <3>6, <3>7
  <2> QED
    BY <2>2, <2>4, <2>5, ParamFound DEF second
<1> HIDE DEF first, left, second
<1> QED
  BY <1>1, <1>5, <1>6, ParamFound DEF first

\* What is saved is what was typed, whatever is typed.
THEOREM OnlyTypedIsSaved == Spec => []SavesWhatWasTyped
<1>1. (saved = NeverSaved \/ BlockTyped(saved)) => SavesWhatWasTyped
  <2> SUFFICES ASSUME saved = NeverSaved \/ BlockTyped(saved) PROVE SavesWhatWasTyped
    OBVIOUS
  <2>1. CASE saved = NeverSaved
    <3>1. saved.start = 0 /\ saved.end = 1
      BY <2>1 DEF NeverSaved
    <3> QED
      BY <2>1, <3>1 DEF SavesWhatWasTyped
  <2>2. CASE BlockTyped(saved)
    BY <2>2 DEF SavesWhatWasTyped, BlockTyped
  <2> QED
    BY <2>1, <2>2
<1>2. Init => saved = NeverSaved \/ BlockTyped(saved)
  BY DEF Init
<1>3. (saved = NeverSaved \/ BlockTyped(saved)) /\ [Next]_vars => (saved = NeverSaved \/ BlockTyped(saved))'
  <2> SUFFICES ASSUME saved = NeverSaved \/ BlockTyped(saved), [Next]_vars
               PROVE  saved' = NeverSaved \/ BlockTyped(saved')
    BY DEF BlockTyped
  <2>1. ASSUME NEW line \in CommandLines, Prompt(line)
        PROVE  saved' = NeverSaved \/ BlockTyped(saved')
    <3>1. CASE cmd_save(line)
      <4> DEFINE first  == get_param(line.rest, PROG_START)
                 left   == AfterFirst(first)
                 second == get_param(left, LastAddress)
      <4>1. line.rest \in Seq(Tokens)
        BY LinesAssumption DEF LinesAssumption
      <4>2. (\E how : Ends(how))
            \/ /\ Separated(left) /\ second.ret # "bad" /\ ~BadRange(first.addr, second.addr)
               /\ Saved([start |-> first.addr, end |-> second.addr, rest |-> line.rest])
        BY <3>1, Zenon DEF cmd_save
      <4>3. CASE \E how : Ends(how)
        BY <4>3 DEF Ends, Keeps, Quiet
      <4>4. CASE /\ Separated(left) /\ second.ret # "bad" /\ ~BadRange(first.addr, second.addr)
                 /\ Saved([start |-> first.addr, end |-> second.addr, rest |-> line.rest])
        BY <4>1, <4>4, RangeIsTyped DEF Saved
      <4> HIDE DEF first, left, second
      <4> QED
        BY <4>2, <4>3, <4>4
    <3>2. CASE ~cmd_save(line)
      BY <2>1, <3>2 DEF Prompt, Ends, Keeps, Quiet, cmd_peek, cmd_poke, cmd_list, cmd_as, cmd_load,
                        cmd_run, cmd_cls, cmd_help, Refuses, Asks
    <3> QED
      BY <3>1, <3>2
  <2>2. ASSUME NEW tokens \in PokeLines, PokeLine(tokens) PROVE saved' = NeverSaved
    BY <2>2 DEF PokeLine, Quiet
  <2>3. ASSUME NEW tokens \in AsLines, AsLine(tokens) PROVE saved' = NeverSaved
    BY <2>3 DEF AsLine, Quiet
  <2>4. ASSUME NEW w \in ProgramWrites, ProgramWrite(w) PROVE saved' = NeverSaved
    BY <2>4 DEF ProgramWrite, Quiet
  <2>5. CASE ProgramEnds
    BY <2>5 DEF ProgramEnds, Quiet
  <2>6. CASE UNCHANGED vars
    BY <2>6 DEF vars
  <2> QED
    BY <2>1, <2>2, <2>3, <2>4, <2>5, <2>6 DEF Next
<1> QED
  BY <1>1, <1>2, <1>3, PTL DEF Spec
-----------------------------------------------------------------------------
(* The table, as the assembler and the disassembler search it.             *)

\* The bytes of an instruction, by its opcode, where there is one.
CodeWidth(c) ==
  LET low  == c % 16
      high == c \div 16
  IN  CASE low \in {8, 10}     -> 1
        [] low \in {12, 13, 14} -> 3
        [] low = 9  -> IF high % 2 = 1 THEN 3 ELSE 2
        [] low = 2  -> IF high = 0 THEN 1 ELSE 2
        [] low = 0  -> IF high = 2 THEN 3 ELSE IF high \in {0, 4, 6} THEN 1 ELSE 2
        [] OTHER -> 2

\* A row with mode and opcode c.
Fits(mode, c) == c \in Nat /\ mode # "none" /\ Width(mode) = CodeWidth(c)

LEMMA ImpliedFit == \A n \in DOMAIN ImpliedRows : Fits("implied", ImpliedRows[n])
BY SMTT(60) DEF ImpliedRows, Fits, CodeWidth, Width, Op, A, B, C, D, E, F

LEMMA RelativeFit == \A n \in DOMAIN RelativeRows : Fits("rel", RelativeRows[n])
BY SMTT(60) DEF RelativeRows, Fits, CodeWidth, Width, Op, A, B, C, D, E, F

FitAll(modes) == \A mode \in DOMAIN modes : \A c \in modes[mode] : Fits(mode, c)

LEMMA OperandsFit == \A n \in DOMAIN OperandRows : FitAll(OperandRows[n])
<1> USE DEF FitAll, Fits, CodeWidth, Width, Op, A, B, C, D, E, F
<1>1. \A n \in {"ORA", "ASL", "JSR", "AND", "BIT", "ROL"} : FitAll(OperandRows[n])
  BY SMTT(60) DEF OperandRows
<1>2. \A n \in {"EOR", "LSR", "JMP", "ADC", "ROR", "STA"} : FitAll(OperandRows[n])
  BY SMTT(60) DEF OperandRows
<1>3. \A n \in {"STY", "STX", "LDY", "LDA", "LDX", "CPY"} : FitAll(OperandRows[n])
  BY SMTT(60) DEF OperandRows
<1>4. \A n \in {"CMP", "DEC", "CPX", "SBC", "INC"} : FitAll(OperandRows[n])
  BY SMTT(60) DEF OperandRows
<1>5. DOMAIN OperandRows = {
      "ORA", "ASL", "JSR", "AND", "BIT", "ROL",
      "EOR", "LSR", "JMP", "ADC", "ROR", "STA",
      "STY", "STX", "LDY", "LDA", "LDX", "CPY",
      "CMP", "DEC", "CPX", "SBC", "INC"}
  BY DEF OperandRows
<1> HIDE DEF FitAll
<1> QED
  BY <1>1, <1>2, <1>3, <1>4, <1>5

LEMMA TableFits ==
  ASSUME NEW r \in vm_op_tbl
  PROVE  Fits(r.mode, r.code)
<1>1. CASE r \in Plain(ImpliedRows, "implied")
  BY <1>1, ImpliedFit DEF Plain
<1>2. CASE r \in Plain(RelativeRows, "rel")
  BY <1>2, RelativeFit DEF Plain
<1>3. ASSUME NEW n \in DOMAIN OperandRows, r \in Rows(n, OperandRows[n])
      PROVE  Fits(r.mode, r.code)
  BY <1>3, OperandsFit DEF Rows, FitAll
<1> QED
  BY <1>1, <1>2, <1>3 DEF vm_op_tbl

LEMMA FirstIsOne ==
  ASSUME NEW rows, rows \subseteq vm_op_tbl, rows # {}
  PROVE  First(rows) \in rows
<1> DEFINE codes == {r.code : r \in rows}
           R == OpToRel(<, Nat)
<1>1. codes \subseteq Nat /\ codes # {}
  BY TableFits DEF Fits
<1>2. PICK x \in codes : \A y \in codes : ~(<<y, x>> \in R)
  <2>1. IsWellFoundedOn(R, Nat)
    BY NatLessThanWellFounded
  <2> HIDE DEF R, codes
  <2> QED
    BY <1>1, <2>1, WFMin
<1>3. \A y \in codes : x <= y
  <2> SUFFICES ASSUME NEW y \in codes PROVE x <= y
    OBVIOUS
  <2>1. ~(y < x)
    BY <1>1, <1>2 DEF OpToRel
  <2>2. x \in Nat /\ y \in Nat
    BY <1>1
  <2> QED
    BY <2>1, <2>2, SMT
<1>4. PICK r \in rows : r.code = x
  OBVIOUS
<1>5. \A q \in rows : r.code <= q.code
  BY <1>3, <1>4
<1> QED
  BY <1>5 DEF First

\* The row the disassembler finds, the row after the table being last.
Found(c, last) == IF Coded(c) = {} THEN last ELSE First(Coded(c))

\* The bytes after the table are no row that takes another length than the
\* row with the same opcode.
AfterFits == \A r \in Coded(after.code) : ListWidth(after.mode) = ListWidth(r.mode)

\* The disassembler takes the bytes for one instruction.
Readable(bytes, last) ==
  /\ Len(bytes) >= 1 /\ Found(bytes[1], last).code = bytes[1]
  /\ ListWidth(Found(bytes[1], last).mode) = Len(bytes)

LEMMA FoundIs ==
  ASSUME NEW c, NEW last, Coded(c) # {}
  PROVE  Found(c, last) \in Coded(c)
BY FirstIsOne DEF Found, Coded

\* A row of the table, and the row after it, are found by their opcodes, or one
\* of their length is.
LEMMA RowIsFound ==
  ASSUME NEW row, row \in vm_op_tbl \/ (row = after /\ row.mode # "none"), AfterFits
  PROVE  Found(row.code, after).code = row.code /\ ListWidth(Found(row.code, after).mode) = Width(row.mode)
<1>1. CASE row \in vm_op_tbl
  <2>1. row \in Coded(row.code)
    BY <1>1 DEF Coded
  <2>2. Found(row.code, after) \in vm_op_tbl /\ Found(row.code, after).code = row.code
    BY <2>1, FoundIs DEF Coded
  <2> QED
    BY <1>1, <2>2, TableFits DEF Fits, ListWidth
<1>2. CASE row = after /\ row.mode # "none"
  <2>1. CASE Coded(row.code) = {}
    BY <1>2, <2>1 DEF Found, ListWidth
  <2>2. CASE Coded(row.code) # {}
    <3>1. Found(row.code, after) \in Coded(row.code)
      BY <2>2, FoundIs
    <3> QED
      BY <1>2, <3>1 DEF AfterFits, Coded, ListWidth
  <2> QED
    BY <2>1, <2>2
<1> QED
  BY <1>1, <1>2

LEMMA FindsRow ==
  ASSUME NEW n, NEW mode, Has(n, mode)
  PROVE  /\ find_mne(n, mode) \in vm_op_tbl \/ find_mne(n, mode) = after
         /\ find_mne(n, mode).mode = mode
<1> DEFINE rows == InMode(Named(n), mode)
<1>1. CASE rows = {}
  BY <1>1 DEF Has, find_mne
<1>2. CASE rows # {}
  <2>1. rows \subseteq vm_op_tbl /\ \A r \in rows : r.mode = mode
    BY DEF InMode, Named
  <2>2. find_mne(n, mode) = First(rows)
    BY <1>2 DEF find_mne
  <2> HIDE DEF rows
  <2> QED
    BY <1>2, <2>1, <2>2, FirstIsOne
<1> QED
  BY <1>1, <1>2

\* What the assembler makes of an instruction is one to the disassembler.
LEMMA InstructionIsReadable ==
  ASSUME AfterFits, NEW addr, NEW line, Instruction(addr, line) # Rejected
  PROVE  Readable(Instruction(addr, line), after)
<1> DEFINE n    == Head(line).t
           args == Tail(line)
           v    == ValueIn(args)
           mode == ModeOf(n, Shape(args), v)
           w    == IF mode = "rel" THEN Offset(addr, v) ELSE v
           row  == find_mne(n, mode)
<1>1. /\ Has(n, mode) /\ mode # "none"
      /\ Instruction(addr, line) = emit_op(row, w, Width(mode))
  BY DEF Instruction
<1> HIDE DEF n, args, v, mode, w
<1>2. row.mode = mode /\ (row \in vm_op_tbl \/ row = after)
  BY <1>1, FindsRow
<1> HIDE DEF row
<1>3. Found(row.code, after).code = row.code /\ ListWidth(Found(row.code, after).mode) = Width(mode)
  BY <1>1, <1>2, RowIsFound
<1> DEFINE all == <<row.code, w % 256, w \div 256>>
           S == {row.code, w % 256, w \div 256}
           len == Width(mode)
<1>4. len \in Nat /\ 1 <= len /\ len <= 3
  BY DEF Width
<1>5. \A i \in 1..len : all[i] \in S
  <2>1. all[1] \in S /\ all[2] \in S /\ all[3] \in S
    OBVIOUS
  <2> HIDE DEF all, S, len
  <2> QED
    BY <1>4, <2>1, SMT
<1>6. all[1] = row.code
  OBVIOUS
<1> HIDE DEF all, S, len
<1>7. Len(SubSeq(all, 1, len)) = len /\ SubSeq(all, 1, len)[1] = all[1]
  <2>1. /\ Len(SubSeq(all, 1, len)) = IF 1 <= len THEN len - 1 + 1 ELSE 0
        /\ \A i \in 1..(len - 1 + 1) : SubSeq(all, 1, len)[i] = all[1 + i - 1]
    BY <1>4, <1>5, SubSeqProperties
  <2>2. 1 \in 1..(len - 1 + 1) /\ 1 + 1 - 1 = 1 /\ len - 1 + 1 = len
    BY <1>4, SMT
  <2> QED
    BY <1>4, <2>1, <2>2
<1> QED
  BY <1>1, <1>3, <1>4, <1>6, <1>7 DEF Readable, emit_op, all, len
-----------------------------------------------------------------------------
(* The listing.                                                            *)

\* Where list starts, and what it finds.
ListStart  == "list" \in DOMAIN static /\ static["list"] \in M!Addr
SourceInv  == \A a \in DOMAIN source : Readable(source[a], after)
ListingInv == IInv /\ AfterFits /\ ListStart /\ SourceInv /\ ListingWalksSource

\* The operands of each mode, those with a word first.
WordModes == {"abs", "ind", "absx", "absy"}
ByteModes == {"imm", "zp", "zpx", "zpy", "indx", "indy", "rel"}
Chosen(mode, abs, ind, absx, absy, imm, zp, zpx, zpy, indx, indy, rel, inA) ==
  CASE mode = "abs"  -> abs
    [] mode = "imm"  -> imm
    [] mode = "zp"   -> zp
    [] mode = "ind"  -> ind
    [] mode = "absx" -> absx
    [] mode = "absy" -> absy
    [] mode = "zpx"  -> zpx
    [] mode = "zpy"  -> zpy
    [] mode = "indx" -> indx
    [] mode = "indy" -> indy
    [] mode = "rel"  -> rel
    [] mode = "acc"  -> inA
    [] OTHER         -> <<>>
OfWords(mode, word, bytes, inA) ==
  Chosen(mode, word[1], word[2], word[3], word[4],
         bytes[1], bytes[2], bytes[3], bytes[4], bytes[5], bytes[6], bytes[7], inA)

LEMMA ChosenAre ==
  ASSUME NEW mode, NEW words, NEW bytes, NEW inA, NEW words2, NEW bytes2,
         mode \in WordModes => words = words2,
         mode \in ByteModes => bytes = bytes2
  PROVE  OfWords(mode, words, bytes, inA) = OfWords(mode, words2, bytes2, inA)
<1>1. CASE mode \in WordModes
  <2>1. mode \notin ByteModes /\ mode # "acc" /\ words = words2
    BY <1>1 DEF WordModes, ByteModes
  <2> QED
    BY <1>1, <2>1 DEF OfWords, Chosen, WordModes
<1>2. CASE mode \in ByteModes
  <2>1. mode \notin WordModes /\ mode # "acc" /\ bytes = bytes2
    BY <1>2 DEF WordModes, ByteModes
  <2> QED
    BY <1>2, <2>1 DEF OfWords, Chosen, WordModes
<1>3. CASE mode \notin WordModes /\ mode \notin ByteModes
  BY <1>3 DEF OfWords, Chosen, WordModes, ByteModes
<1> QED
  BY <1>1, <1>2, <1>3

WordOperands(n) ==
  <<<<Num(n)>>, <<Tok("("), Num(n), Tok(")")>>, <<Num(n), Tok(","), Tok("X")>>,
    <<Num(n), Tok(","), Tok("Y")>>>>
WordIn(op) == op[2] + 256 * op[3]
ByteOperands(addr, op) ==
  LET byte == Num(op[2])
  IN  <<<<Tok("#"), byte>>, <<byte>>, <<byte, Tok(","), Tok("X")>>, <<byte, Tok(","), Tok("Y")>>,
        <<Tok("("), byte, Tok(","), Tok("X"), Tok(")")>>,
        <<Tok("("), byte, Tok(")"), Tok(","), Tok("Y")>>, <<Num(Target(addr, op[2]))>>>>

LEMMA OperandsByMode ==
  ASSUME NEW addr, NEW mode, NEW op
  PROVE  Operands(addr, mode, op)
           = OfWords(mode, WordOperands(WordIn(op)), ByteOperands(addr, op), <<Tok("A")>>)
BY DEF Operands, OfWords, Chosen, WordOperands, WordIn, ByteOperands

\* Of the three bytes only those of the instruction matter.
LEMMA OperandsAre ==
  ASSUME NEW addr, NEW mode, NEW op, NEW other,
         ListWidth(mode) # 1 => op[2] = other[2],
         ListWidth(mode) = 3 => op[3] = other[3]
  PROVE  Operands(addr, mode, op) = Operands(addr, mode, other)
<1>1. mode \in WordModes => WordIn(op) = WordIn(other)
  <2> SUFFICES ASSUME mode \in WordModes PROVE WordIn(op) = WordIn(other)
    OBVIOUS
  <2>1. op[2] = other[2] /\ op[3] = other[3]
    BY DEF ListWidth, Width, WordModes
  <2> QED
    BY <2>1 DEF WordIn
<1>2. mode \in ByteModes => ByteOperands(addr, op) = ByteOperands(addr, other)
  <2> SUFFICES ASSUME mode \in ByteModes PROVE ByteOperands(addr, op) = ByteOperands(addr, other)
    OBVIOUS
  <2>1. op[2] = other[2]
    BY DEF ListWidth, Width, ByteModes
  <2> QED
    BY <2>1, Zenon DEF ByteOperands
<1> QED
  BY <1>1, <1>2, ChosenAre, OperandsByMode

\* dasm_das, the row after the table being last.
Das(addr, op, last) ==
  LET row == Found(op[1], last)
      gap == IF row.mode = "implied" THEN <<>> ELSE <<Tok("sp")>>
  IN  IF row.code = op[1]
      THEN [line |-> <<Tok(row.mne)>> \o gap \o Operands(addr, row.mode, op), len |-> ListWidth(row.mode)]
      ELSE [line |-> <<Tok("???")>>, len |-> 1]

LEMMA DasIs == \A addr, op : dasm_das(addr, op) = Das(addr, op, after)
BY DEF dasm_das, Das, Found

\* The line for a row.
LineOf(addr, row, op) ==
  <<Tok(row.mne)>> \o (IF row.mode = "implied" THEN <<>> ELSE <<Tok("sp")>>)
    \o Operands(addr, row.mode, op)

LEMMA DasReads ==
  ASSUME NEW addr, NEW bytes, Readable(bytes, after), Len(bytes) \in Nat, NEW op,
         \A i \in 1..Len(bytes) : op[i] = bytes[i]
  PROVE  /\ dasm_das(addr, op).len = Len(bytes)
         /\ dasm_das(addr, op).line = LineOf(addr, Found(bytes[1], after), op)
<1>1. 1 \in 1..Len(bytes)
  BY SMT DEF Readable
<1>2. op[1] = bytes[1]
  BY <1>1
<1> QED
  BY <1>2 DEF dasm_das, Found, Readable, LineOf

LEMMA DasAgrees ==
  ASSUME NEW addr, NEW bytes, Readable(bytes, after), Len(bytes) \in Nat, NEW op, NEW other,
         \A i \in 1..Len(bytes) : op[i] = bytes[i] /\ other[i] = bytes[i]
  PROVE  dasm_das(addr, op).line = dasm_das(addr, other).line
<1> DEFINE mode == Found(bytes[1], after).mode
<1>1. ListWidth(mode) = Len(bytes) /\ Len(bytes) >= 1
  BY DEF Readable
<1> HIDE DEF mode
<1>2. ListWidth(mode) # 1 => 2 \in 1..Len(bytes)
  BY <1>1, SMT
<1>3. ListWidth(mode) = 3 => 3 \in 1..Len(bytes)
  BY <1>1, SMT
<1>4. Operands(addr, mode, op) = Operands(addr, mode, other)
  BY <1>2, <1>3, OperandsAre
<1>5. dasm_das(addr, op).line = LineOf(addr, Found(bytes[1], after), op)
  <2>1. \A i \in 1..Len(bytes) : op[i] = bytes[i]
    OBVIOUS
  <2> QED
    BY <2>1, DasReads
<1>6. dasm_das(addr, other).line = LineOf(addr, Found(bytes[1], after), other)
  <2>1. \A i \in 1..Len(bytes) : other[i] = bytes[i]
    OBVIOUS
  <2> QED
    BY <2>1, DasReads
<1> QED
  BY <1>4, <1>5, <1>6 DEF mode, LineOf

\* What list reads at an instruction, and its bytes filled up to three.
LEMMA ReadAtInstruction ==
  ASSUME Mirrors(sram, source), NEW a \in DOMAIN source
  PROVE  \A i \in 1..Len(source[a]) : sram_read(a, 3)[i] = source[a][i]
<1> SUFFICES ASSUME NEW i \in 1..Len(source[a])
             PROVE  sram_read(a, 3)[i] = source[a][i]
  OBVIOUS
<1>1. Len(source[a]) \in Nat /\ Len(source[a]) <= 3
  BY DEF Mirrors, IsInstruction
<1>2. M!SramAddr(a, i) \notin Video /\ M!Holds(sram, M!SramAddr(a, i)) = source[a][i]
  BY DEF Mirrors
<1>3. i \in 1..3
  BY <1>1, SMT
<1> QED
  BY <1>2, <1>3 DEF sram_read

LEMMA FilledUp ==
  ASSUME NEW bytes, IsInstruction(bytes), Len(bytes) >= 1
  PROVE  \A i \in 1..Len(bytes) : SubSeq(bytes \o <<0, 0>>, 1, 3)[i] = bytes[i]
<1> DEFINE n == Len(bytes)
           S == {bytes[i] : i \in 1..n} \cup {0}
           all == bytes \o <<0, 0>>
<1>1. n \in Nat /\ 1 <= n /\ n <= 3 /\ bytes = [i \in 1..n |-> bytes[i]]
  BY DEF IsInstruction
<1>2. bytes \in Seq(S) /\ <<0, 0>> \in Seq(S)
  <2>1. \A i \in 1..n : bytes[i] \in S
    OBVIOUS
  <2>2. 0 \in S
    OBVIOUS
  <2> HIDE DEF n, S
  <2>3. bytes \in [1..n -> S]
    BY <1>1, <2>1
  <2>4. bytes \in Seq(S)
    BY <1>1, <2>3, SeqDef
  <2>5. <<0, 0>> \in Seq(S)
    BY <2>2
  <2> QED
    BY <2>4, <2>5
<1> HIDE DEF S
<1>3. /\ all \in Seq(S) /\ Len(all) = n + 2
      /\ \A i \in 1..n : all[i] = bytes[i]
  <2>1. Len(<<0, 0>>) = 2
    OBVIOUS
  <2>2. /\ all \in Seq(S) /\ Len(all) = n + Len(<<0, 0>>)
        /\ \A i \in 1..Len(all) : all[i] = IF i <= n THEN bytes[i] ELSE <<0, 0>>[i - n]
    BY <1>2, ConcatProperties
  <2> HIDE DEF all, n
  <2>3. \A i \in 1..n : i \in 1..Len(all) /\ i <= n
    BY <1>1, <2>1, <2>2, SMT
  <2> QED
    BY <2>1, <2>2, <2>3
<1> HIDE DEF all, n
<1>4. \A i \in 1..3 : all[i] \in S
  <2> SUFFICES ASSUME NEW i \in 1..3 PROVE all[i] \in S
    OBVIOUS
  <2>1. i \in 1..Len(all)
    BY <1>1, <1>3, SMT
  <2> QED
    BY <1>3, <2>1, ElementOfSeq
<1>5. \A i \in 1..(3 - 1 + 1) : SubSeq(all, 1, 3)[i] = all[1 + i - 1]
  BY <1>4, SubSeqProperties
<1>6. \A i \in 1..n : i \in 1..(3 - 1 + 1) /\ 1 + i - 1 = i
  BY <1>1, SMT
<1>7. \A i \in 1..n : SubSeq(all, 1, 3)[i] = bytes[i]
  BY <1>3, <1>5, <1>6
<1> QED
  BY <1>7 DEF all, n

LEMMA DasLengthIs == ASSUME NEW addr, NEW op PROVE dasm_das(addr, op).len \in 1..3
BY DEF dasm_das, ListWidth, Width

LEMMA FollowingIsAddress ==
  ASSUME NEW addr \in M!Addr
  PROVE  Following(LineAt(addr)) \in M!Addr
<1>1. LineAt(addr).addr = addr /\ LineAt(addr).len \in Nat
  BY DasLengthIs DEF LineAt
<1> QED
  BY <1>1, AdvanceIsAddress DEF Following

\* A listing, line by line: the recursion has a value, by the least number for
\* which it would have none.
Walked(f, n, addr) ==
  f[1] = LineAt(addr) /\ \A i \in 2..n : f[i] = LineAt(Following(f[i - 1]))
Lines == {LineAt(a) : a \in M!Addr}

LEMMA WalkExists ==
  ASSUME NEW addr \in M!Addr, NEW n \in Nat \ {0}
  PROVE  \E f \in [1..n -> Lines] : Walked(f, n, addr)
<1> DEFINE Walkable(m) == \E f \in [1..m -> Lines] : Walked(f, m, addr)
           T == {m \in 1..n : ~Walkable(m)}
<1>1. SUFFICES ASSUME T # {} PROVE FALSE
  <2>1. n \in 1..n
    BY SMT
  <2> QED
    BY <2>1
<1>2. PICK m \in T : \A y \in T : m <= y
  <2>1. T \subseteq 1..n
    OBVIOUS
  <2> HIDE DEF T
  <2> QED
    BY <1>1, <2>1, LeastInPlaces
<1>3. m \in 1..n /\ m \in Nat /\ m <= n /\ 1 <= m /\ ~Walkable(m)
  BY SMT
<1>4. CASE m = 1
  <2> DEFINE f == [i \in 1..1 |-> LineAt(addr)]
  <2>1. f \in [1..m -> Lines] /\ f[1] = LineAt(addr)
    BY <1>4 DEF Lines
  <2>2. \A i \in 2..m : FALSE
    BY <1>4, SMT
  <2> HIDE DEF f
  <2>3. Walked(f, m, addr)
    BY <2>1, <2>2 DEF Walked
  <2> QED
    BY <1>3, <2>1, <2>3
<1>5. CASE m # 1
  <2>1. m - 1 \in 1..n /\ ~(m <= m - 1)
    BY <1>3, <1>5, SMT
  <2>2. Walkable(m - 1)
    BY <1>2, <2>1
  <2>3. PICK h \in [1..(m - 1) -> Lines] : Walked(h, m - 1, addr)
    BY <2>2
  <2> DEFINE next == LineAt(Following(h[m - 1]))
             f == [i \in 1..m |-> IF i = m THEN next ELSE h[i]]
  <2>4. /\ m - 1 \in 1..(m - 1) /\ 1 \in 1..m /\ 1 # m /\ m \in 1..m
        /\ \A i \in 1..m : i # m => i \in 1..(m - 1)
    BY <1>3, <1>5, SMT
  <2>5. next \in Lines
    <3>1. PICK a \in M!Addr : h[m - 1] = LineAt(a)
      BY <2>4 DEF Lines
    <3> QED
      BY <3>1, FollowingIsAddress DEF Lines
  <2> HIDE DEF next
  <2>6. f \in [1..m -> Lines]
    BY <2>4, <2>5
  <2>7. f[1] = LineAt(addr)
    BY <2>3, <2>4 DEF Walked
  <2>8. ASSUME NEW i \in 2..m PROVE f[i] = LineAt(Following(f[i - 1]))
    <3>1. /\ i \in 1..m /\ i - 1 \in 1..m /\ i - 1 # m
          /\ i # m => i \in 2..(m - 1)
      BY <1>3, SMT
    <3>2. f[i - 1] = h[i - 1]
      BY <3>1
    <3>3. CASE i = m
      <4>1. f[i] = next
        BY <3>1, <3>3
      <4> QED
        BY <3>2, <3>3, <4>1 DEF next
    <3>4. CASE i # m
      <4>1. f[i] = h[i] /\ h[i] = LineAt(Following(h[i - 1]))
        BY <2>3, <3>1, <3>4 DEF Walked
      <4> QED
        BY <3>2, <4>1
    <3> QED
      BY <3>3, <3>4
  <2> HIDE DEF f
  <2>9. Walkable(m)
    BY <2>6, <2>7, <2>8 DEF Walked
  <2> QED
    BY <1>3, <2>9
<1> QED
  BY <1>4, <1>5

LEMMA ListedIsWalked ==
  ASSUME NEW addr \in M!Addr, NEW n \in Nat \ {0}
  PROVE  Listed(addr, n) \in [1..n -> Lines] /\ Walked(Listed(addr, n), n, addr)
<1> DEFINE body(f) == [i \in 1..n |-> IF i = 1 THEN LineAt(addr) ELSE LineAt(Following(f[i - 1]))]
           lines == CHOOSE f : f = body(f)
<1>0. /\ 1 \in 1..n
      /\ \A i \in 2..n : i \in 1..n /\ i # 1 /\ i - 1 \in 1..n
      /\ \A i \in 1..n : i # 1 => i \in 2..n /\ ~(i <= i - 1)
      /\ 1..n \subseteq Nat
  BY SMT
<1>1. Listed(addr, n) = lines
  BY DEF Listed
<1>2. PICK f \in [1..n -> Lines] : Walked(f, n, addr)
  BY WalkExists
<1>3. f = body(f)
  <2>1. \A i \in 1..n : f[i] = body(f)[i]
    BY <1>0, <1>2 DEF Walked
  <2> QED
    BY <2>1
<1>4. lines = body(lines)
  <2> HIDE DEF body
  <2> QED
    BY <1>3
<1> HIDE DEF lines
<1>5. Walked(lines, n, addr)
  BY <1>0, <1>4 DEF Walked
<1>6. ASSUME NEW i \in 1..n PROVE lines[i] \in Lines
  <2> DEFINE T == {k \in 1..n : lines[k] \notin Lines}
  <2>1. SUFFICES ASSUME T # {} PROVE FALSE
    BY <1>6
  <2>2. PICK m \in T : \A y \in T : m <= y
    <3>1. T \subseteq 1..n
      OBVIOUS
    <3> HIDE DEF T
    <3> QED
      BY <2>1, <3>1, LeastInPlaces
  <2>3. CASE m = 1
    BY <1>5, <2>3 DEF Walked, Lines
  <2>4. CASE m # 1
    <3>1. m \in 2..n /\ m - 1 \in 1..n /\ ~(m <= m - 1)
      BY <1>0, <2>4
    <3>2. lines[m - 1] \in Lines
      BY <2>2, <3>1
    <3>3. PICK a \in M!Addr : lines[m - 1] = LineAt(a)
      BY <3>2 DEF Lines
    <3>4. lines[m] = LineAt(Following(LineAt(a)))
      BY <1>5, <3>1, <3>3 DEF Walked
    <3> QED
      BY <3>3, <3>4, FollowingIsAddress DEF Lines
  <2> QED
    BY <2>3, <2>4
<1>7. lines \in [1..n -> Lines]
  <2>1. lines = [i \in 1..n |-> lines[i]]
    <3>1. lines = [i \in 1..n |-> body(lines)[i]]
      BY <1>4
    <3> HIDE DEF body
    <3> QED
      BY <1>4, <3>1
  <2> QED
    BY <1>6, <2>1
<1> QED
  BY <1>1, <1>5, <1>7

\* A listing that comes to an instruction shows it and goes on after it.
Walks(list, src, last) ==
  \A k \in 1..Len(list) :
    list[k].addr \in DOMAIN src =>
      LET bytes == src[list[k].addr]
      IN  /\ list[k].len = Len(bytes)
          /\ k < Len(list) => list[k + 1].addr = Wrapped(list[k].addr + Len(bytes))
          /\ list[k].line = Das(list[k].addr, SubSeq(bytes \o <<0, 0>>, 1, 3), last).line

LEMMA ListedWalks ==
  ASSUME Mirrors(sram, source), SourceInv, NEW addr \in M!Addr, NEW n \in Nat \ {0}
  PROVE  /\ Walks(Listed(addr, n), source, after)
         /\ Following(Listed(addr, n)[n]) \in M!Addr
<1> DEFINE list == Listed(addr, n)
<1>1. list \in [1..n -> Lines] /\ Walked(list, n, addr)
  BY ListedIsWalked
<1> HIDE DEF list
<1>2. Len(list) = n
  <2>1. list \in Seq(Lines)
    BY <1>1, SeqDef
  <2> QED
    BY <1>1, <2>1, LenProperties
<1>3. ASSUME NEW k \in 1..n, list[k].addr \in DOMAIN source
      PROVE  LET bytes == source[list[k].addr]
             IN  /\ list[k].len = Len(bytes)
                 /\ k < n => list[k + 1].addr = Wrapped(list[k].addr + Len(bytes))
                 /\ list[k].line = dasm_das(list[k].addr, SubSeq(bytes \o <<0, 0>>, 1, 3)).line
  <2>1. PICK a \in M!Addr : list[k] = LineAt(a)
    BY <1>1 DEF Lines
  <2>2. list[k].addr = a /\ a \in DOMAIN source
    BY <1>3, <2>1 DEF LineAt
  <2> DEFINE bytes == source[a]
             op == sram_read(a, 3)
             filled == SubSeq(bytes \o <<0, 0>>, 1, 3)
  <2>3. list[k].len = dasm_das(a, op).len /\ list[k].line = dasm_das(a, op).line
    BY <2>1 DEF LineAt
  <2>4. /\ IsInstruction(bytes) /\ Readable(bytes, after)
        /\ Len(bytes) \in Nat /\ Len(bytes) >= 1
    BY <2>2 DEF Mirrors, IsInstruction, SourceInv, Readable
  <2>5. \A i \in 1..Len(bytes) : op[i] = bytes[i]
    BY <2>2, ReadAtInstruction
  <2>6. \A i \in 1..Len(bytes) : filled[i] = bytes[i]
    BY <2>4, FilledUp
  <2> HIDE DEF bytes, op, filled
  <2>7. dasm_das(a, op).len = Len(bytes)
    BY <2>4, <2>5, DasReads
  <2>8. dasm_das(a, op).line = dasm_das(a, filled).line
    BY <2>4, <2>5, <2>6, DasAgrees
  <2>9. ASSUME k < n PROVE list[k + 1].addr = Wrapped(a + Len(bytes))
    <3>1. k + 1 \in 2..n /\ (k + 1) - 1 = k
      BY <2>9, SMT
    <3>2. list[k + 1] = LineAt(Following(list[k]))
      BY <1>1, <3>1 DEF Walked
    <3>3. list[k + 1].addr = Following(list[k])
      BY <3>2 DEF LineAt
    <3> QED
      BY <2>2, <2>3, <2>7, <3>3 DEF Following
  <2> QED
    BY <2>2, <2>3, <2>7, <2>8, <2>9 DEF bytes, filled
<1>4. Walks(list, source, after)
  BY <1>2, <1>3, DasIs DEF Walks
<1>5. Following(list[n]) \in M!Addr
  <2>1. n \in 1..n
    BY SMT
  <2>2. PICK a \in M!Addr : list[n] = LineAt(a)
    BY <1>1, <2>1 DEF Lines
  <2> QED
    BY <2>2, FollowingIsAddress
<1> QED
  BY <1>4, <1>5 DEF list

\* The conditions on the source and on the address are kept,
LEMMA IntactReadable ==
  ASSUME SourceInv, UNCHANGED after, NEW cells, source' = Intact(cells)
  PROVE  SourceInv'
BY DEF SourceInv, Intact

LEMMA SetsListStart ==
  ASSUME StaticInv, ListStart, NEW name, NEW addr, Sets(name, addr), name = "list" => addr \in M!Addr
  PROVE  ListStart'
BY Zenon DEF StaticInv, ListStart, Sets

LEMMA AddressKeepsStart ==
  ASSUME StaticInv, ListStart, NEW line \in CommandLines, Sets(line.name, Address(line))
  PROVE  ListStart'
<1>1. line.name = "list" => Address(line) \in M!Addr
  BY AddressIsAddress DEF ListStart
<1> QED
  BY <1>1, SetsListStart

LEMMA NothingListed ==
  ASSUME listing' = <<>>
  PROVE  ListingWalksSource'
<1>1. Len(<<>>) = 0 /\ 1..0 = {}
  BY SMT
<1> QED
  BY <1>1 DEF ListingWalksSource

\* the lines that list shows are those of the source,
LEMMA ListWalks ==
  ASSUME ListingInv, NEW line \in CommandLines, line.name = "list", UNCHANGED <<memory, after>>,
         listing' = Listed(Address(line), ListLines), Sets("list", Following(listing'[ListLines]))
  PROVE  ListingWalksSource' /\ ListStart'
<1>1. Address(line) \in M!Addr
  BY AddressIsAddress DEF ListingInv, ListStart
<1>2. ListLines \in Nat \ {0}
  BY ListAssumption DEF ListAssumption
<1>3. Walks(listing', source, after) /\ Following(listing'[ListLines]) \in M!Addr
  BY <1>1, <1>2, ListedWalks DEF ListingInv, IInv
<1>4. ListingWalksSource'
  <2>1. source' = source /\ after' = after
    BY DEF memory
  <2> QED
    <3>1. Walks(listing', source', after')
      BY <1>3, <2>1
    <3> QED
      BY <3>1 DEF Walks, ListingWalksSource, dasm_das, Das, Found
<1>5. ListStart'
  BY <1>3, SetsListStart DEF ListingInv, IInv
<1> QED
  BY <1>4, <1>5

\* and what as adds to the source can be listed.
LEMMA AsReadable ==
  ASSUME ListingInv, NEW tokens, NEW addr, UNCHANGED after,
         dasm_as(addr, tokens) # Rejected,
         Assembled(addr, dasm_as(addr, tokens), Starts(tokens, "."))
  PROVE  SourceInv'
<1> DEFINE bytes == dasm_as(addr, tokens)
           kept == Intact(Touched(addr, bytes))
<1>1. ~Starts(tokens, ".") => Readable(bytes, after)
  BY InstructionIsReadable DEF dasm_as, ListingInv
<1>2. \A a \in DOMAIN kept : Readable(kept[a], after)
  BY DEF Intact, SourceInv, ListingInv
<1>3. \/ source' = kept
      \/ /\ ~Starts(tokens, ".")
         /\ source' = [a \in DOMAIN kept \cup {addr} |-> IF a = addr THEN bytes ELSE kept[a]]
  BY DEF Assembled
<1> HIDE DEF bytes, kept
<1> QED
  BY <1>1, <1>2, <1>3 DEF SourceInv

LEMMA PromptLists ==
  ASSUME ListingInv, NEW line \in CommandLines, Prompt(line)
  PROVE  UNCHANGED after /\ ListStart' /\ SourceInv' /\ ListingWalksSource'
<1> DEFINE Done == UNCHANGED after /\ ListStart' /\ SourceInv' /\ ListingWalksSource'
<1>0. StaticInv /\ ListStart /\ SourceInv
  BY DEF ListingInv, IInv
<1>1. ASSUME UNCHANGED <<memory, after>>, listing' = <<>>, UNCHANGED static \/ ListStart'
      PROVE  Done
  BY <1>0, <1>1, NothingListed DEF SourceInv, ListStart, memory
<1>2. ASSUME NEW how, Ends(how) PROVE Done
  BY <1>1, <1>2 DEF Ends, Says, Keeps, Quiet, memory
<1>3. ASSUME Refuses(line) PROVE Done
  <2>1. CASE Ends("ERR: CMD")
    BY <1>2, <2>1
  <2>2. CASE Says("ERR: ADDR") /\ Quiet /\ Sets(line.name, Address(line)) /\ UNCHANGED memory
    BY <1>0, <1>1, <2>2, AddressKeepsStart DEF Says, Quiet, memory
  <2> QED
    BY <1>3, <2>1, <2>2 DEF Refuses
<1>4. CASE cmd_peek(line)
  <2>1. CASE /\ Sets("peek", Wrapped(Address(line) + PeekBytes))
             /\ Says("bytes") /\ Quiet /\ UNCHANGED memory
    BY <1>0, <1>1, <2>1, SetsListStart DEF Says, Quiet, memory
  <2> QED
    BY <1>3, <1>4, <2>1 DEF cmd_peek
<1>5. CASE cmd_poke(line) \/ cmd_as(line)
  <2>1. CASE Asks(line)
    BY <1>0, <1>1, <2>1, AddressKeepsStart DEF Asks, Says, Quiet, memory
  <2> QED
    BY <1>3, <1>5, <2>1 DEF cmd_poke, cmd_as
<1>6. CASE cmd_list(line)
  <2>1. CASE /\ listing' = Listed(Address(line), ListLines)
             /\ Sets("list", Following(listing'[ListLines]))
             /\ Says("lines") /\ UNCHANGED memory
    <3>1. ListingWalksSource' /\ ListStart'
      BY <1>6, <2>1, ListWalks DEF cmd_list, Says
    <3> QED
      BY <1>0, <2>1, <3>1 DEF SourceInv, Says, memory
  <2> QED
    BY <1>3, <1>6, <2>1 DEF cmd_list
<1>7. CASE cmd_save(line)
  <2>1. (\E how : Ends(how)) \/ \E range : Saved(range)
    BY <1>7, Zenon DEF cmd_save
  <2>2. ASSUME NEW range, Saved(range) PROVE Done
    BY <1>1, <2>2 DEF Saved, Says, memory
  <2> QED
    BY <1>2, <2>1, <2>2
<1>8. CASE cmd_load(line)
  <2>1. ASSUME NEW block, source' = Intact(Touched(PROG_START, block)), UNCHANGED <<after, static>>,
               listing' = <<>>
        PROVE  Done
    <3>1. SourceInv'
      BY <1>0, <2>1, IntactReadable
    <3> QED
      BY <1>0, <2>1, <3>1, NothingListed DEF ListStart
  <2>2. CASE Ends("cancelled")
    BY <1>2, <2>2
  <2> QED
    BY <1>8, <2>1, <2>2 DEF cmd_load, Says, Quiet
<1>9. CASE cmd_run(line)
  BY <1>1, <1>9 DEF cmd_run, Says, Quiet, memory
<1>10. CASE cmd_cls(line) \/ cmd_help(line) \/ Ends("ERR: CMD")
  BY <1>2, <1>10 DEF cmd_cls, cmd_help
<1> QED
  BY <1>4, <1>5, <1>6, <1>7, <1>8, <1>9, <1>10 DEF Prompt

LEMMA StepLists ==
  ASSUME ListingInv, [Next]_vars
  PROVE  UNCHANGED after /\ ListStart' /\ SourceInv' /\ ListingWalksSource'
<1>0. StaticInv /\ ListStart /\ SourceInv
  BY DEF ListingInv, IInv
<1>1. ASSUME NEW line \in CommandLines, Prompt(line)
      PROVE  UNCHANGED after /\ ListStart' /\ SourceInv' /\ ListingWalksSource'
  BY <1>1, PromptLists
<1>2. ASSUME NEW tokens \in PokeLines, PokeLine(tokens)
      PROVE  UNCHANGED after /\ ListStart' /\ SourceInv' /\ ListingWalksSource'
  <2>1. after' = after /\ listing' = <<>>
    BY <1>2 DEF PokeLine, Says, Quiet
  <2>2. CASE UNCHANGED <<memory, static>>
    BY <1>0, <2>1, <2>2, NothingListed DEF SourceInv, ListStart, memory
  <2>3. ASSUME NEW byte, Poked(static["poke"], byte) PROVE ListStart' /\ SourceInv'
    <3>1. SourceInv'
      BY <1>0, <2>1, <2>3, IntactReadable DEF Poked
    <3>2. ListStart'
      BY <1>0, <2>3, SetsListStart DEF Poked
    <3> QED
      BY <3>1, <3>2
  <2> QED
    BY <1>2, <2>1, <2>2, <2>3, NothingListed DEF PokeLine
<1>3. ASSUME NEW tokens \in AsLines, AsLine(tokens)
      PROVE  UNCHANGED after /\ ListStart' /\ SourceInv' /\ ListingWalksSource'
  <2>1. after' = after /\ listing' = <<>>
    BY <1>3 DEF AsLine, Says, Quiet
  <2>2. CASE UNCHANGED <<memory, static>>
    BY <1>0, <2>1, <2>2, NothingListed DEF SourceInv, ListStart, memory
  <2> DEFINE bytes == dasm_as(static["as"], tokens)
  <2>3. ASSUME bytes # Rejected, Assembled(static["as"], bytes, Starts(tokens, "."))
        PROVE  ListStart' /\ SourceInv'
    <3>1. SourceInv'
      BY <2>1, <2>3, AsReadable
    <3>2. ListStart'
      BY <1>0, <2>3, SetsListStart DEF Assembled
    <3> QED
      BY <3>1, <3>2
  <2> QED
    BY <1>3, <2>1, <2>2, <2>3, NothingListed DEF AsLine
<1>4. ASSUME NEW w \in ProgramWrites, ProgramWrite(w)
      PROVE  UNCHANGED after /\ ListStart' /\ SourceInv' /\ ListingWalksSource'
  <2>1. after' = after /\ listing' = <<>> /\ static' = static
    BY <1>4 DEF ProgramWrite, Says, Quiet
  <2>2. SourceInv'
    BY <1>0, <1>4, <2>1, IntactReadable DEF ProgramWrite
  <2> QED
    BY <1>0, <2>1, <2>2, NothingListed DEF ListStart
<1>5. CASE ProgramEnds
  <2>1. UNCHANGED <<memory, static, after>> /\ listing' = <<>>
    BY <1>5 DEF ProgramEnds, Says, Quiet
  <2> QED
    BY <1>0, <2>1, NothingListed DEF SourceInv, ListStart, memory
<1>6. CASE UNCHANGED vars
  <2>1. UNCHANGED <<source, static, after, listing>>
    BY <1>6 DEF vars, memory
  <2>2. ListingWalksSource'
    BY <2>1 DEF ListingInv, ListingWalksSource, dasm_das
  <2> QED
    BY <1>0, <2>1, <2>2 DEF SourceInv, ListStart
<1> QED
  BY <1>1, <1>2, <1>3, <1>4, <1>5, <1>6 DEF Next

\* A listing shows what was assembled, whatever was typed, poked, loaded and run
\* before, unless the bytes after the table are a row that disagrees with one of
\* the table about the length of an opcode.
THEOREM ListingFollowsSource == Spec /\ AfterFits => []ListingWalksSource
<1>1. Init /\ AfterFits => ListingInv
  <2> SUFFICES ASSUME Init, AfterFits PROVE ListingInv
    OBVIOUS
  <2>1. IInv
    BY InitInv
  <2>2. ListStart
    BY StartIsAddress DEF Init, ListStart
  <2>3. SourceInv
    BY DEF Init, SourceInv
  <2>4. ListingWalksSource
    <3>1. Len(<<>>) = 0 /\ 1..0 = {}
      BY SMT
    <3> QED
      BY <3>1 DEF Init, ListingWalksSource
  <2> QED
    BY <2>1, <2>2, <2>3, <2>4 DEF ListingInv
<1>2. ListingInv /\ [Next]_vars => ListingInv'
  <2> SUFFICES ASSUME ListingInv, [Next]_vars PROVE ListingInv'
    OBVIOUS
  <2>1. IInv'
    BY NextInv DEF ListingInv
  <2>2. UNCHANGED after /\ ListStart' /\ SourceInv' /\ ListingWalksSource'
    BY StepLists
  <2>3. AfterFits'
    BY <2>2 DEF ListingInv, AfterFits
  <2> QED
    BY <2>1, <2>2, <2>3 DEF ListingInv
<1>3. ListingInv => ListingWalksSource
  BY DEF ListingInv
<1> QED
  BY <1>1, <1>2, <1>3, PTL DEF Spec

-----------------------------------------------------------------------------
(* The arithmetic, for every pair of bytes and every flag.                 *)

\* Binary addition and subtraction carry no more and no less than they lose.
LEMMA AdcExact ==
  ASSUME NEW a \in Byte, NEW m \in Byte, NEW c \in Bit
  PROVE  LET r == Adc(a, m, c)
         IN  r.v + 256 * Carry(r) = a + m + c
<1>1. Cf # Zf /\ Cf # Nf /\ Cf # Vf
  BY DEF Cf, Zf, Nf, Vf
<1> QED
  BY <1>1, SMT DEF Adc, Carry, Result, NZ, When, Byte, Bit

LEMMA SbcExact ==
  ASSUME NEW a \in Byte, NEW m \in Byte, NEW c \in Bit
  PROVE  LET r == Sbc(a, m, c)
         IN  r.v - 256 * (1 - Carry(r)) = a - m - (1 - c)
BY SMT DEF Sbc, Carry, Result, NZ, When, Byte, Bit, Cf, Zf, Nf, Vf

\* In decimal, of digits that are digits, by a hundred.
LEMMA AdcDecimalExact ==
  ASSUME NEW a \in Byte, NEW m \in Byte, NEW c \in Bit, IsDecimal(a), IsDecimal(m)
  PROVE  LET r == AdcDecimal(a, m, c)
         IN  IsDecimal(r.v) /\ Decimal(r.v) + 100 * Carry(r) = Decimal(a) + Decimal(m) + c
<1> DEFINE one  == Low(a) + Low(m) + c
           low  == Adjusted(one)
           two  == High(a) + High(m) + (IF low > 15 THEN 1 ELSE 0)
           high == Adjusted(two)
           v    == Low(low) + 16 * Low(high)
<1>1. one \in 0..19 /\ High(a) \in 0..9 /\ High(m) \in 0..9
  BY SMT DEF Low, High, IsDecimal, Byte, Bit
<1>2. (low > 15 <=> one > 9) /\ Low(low) = (IF one > 9 THEN one - 10 ELSE one)
  BY <1>1, SMT DEF Adjusted, Low
<1> HIDE DEF low
<1>3. two \in 0..19
  BY <1>1, SMT
<1>4. (high > 15 <=> two > 9) /\ Low(high) = (IF two > 9 THEN two - 10 ELSE two)
  BY <1>3, SMT DEF Adjusted, Low
<1>5. v % 16 = Low(low) /\ v \div 16 = Low(high)
  <2>1. Low(low) \in 0..9 /\ Low(high) \in 0..9
    <3> HIDE DEF high, one, two
    <3> QED
      BY <1>1, <1>2, <1>3, <1>4, SMT
  <2> HIDE DEF high
  <2> QED
    BY <2>1, SMT
<1>6. AdcDecimal(a, m, c) = Result(v, When(v = 0, Zf) \cup When(high > 15, Cf))
  BY DEF AdcDecimal, low, Low, High
<1>7. AdcDecimal(a, m, c).v = v /\ Carry(AdcDecimal(a, m, c)) = (IF high > 15 THEN 1 ELSE 0)
  <2> HIDE DEF v, high
  <2> QED
    BY <1>6 DEF Result, Carry, When, Cf, Zf
<1>8. Decimal(v) = 10 * Low(high) + Low(low) /\ (IsDecimal(v) <=> Low(high) < 10 /\ Low(low) < 10)
  BY <1>5 DEF Decimal, IsDecimal, Low, High
<1>9. Decimal(a) + Decimal(m) + c = 10 * (High(a) + High(m)) + one
  BY SMT DEF Decimal, Low, High, Byte, Bit
<1> HIDE DEF v, high, one
<1> QED
  BY <1>1, <1>2, <1>3, <1>4, <1>7, <1>8, <1>9, SMT

LEMMA SbcDecimalExact ==
  ASSUME NEW a \in Byte, NEW m \in Byte, NEW c \in Bit, IsDecimal(a), IsDecimal(m)
  PROVE  LET r == SbcDecimal(a, m, c)
         IN  IsDecimal(r.v) /\ Decimal(r.v) - 100 * (1 - Carry(r)) = Decimal(a) - Decimal(m) - (1 - c)
BY SMT DEF SbcDecimal, Borrowed, Borrow, Low, High, Decimal, IsDecimal, Carry, Result, When, Byte, Bit, Cf, Zf

\* Overflow is a signed result out of range.
LEMMA AdcSigned ==
  ASSUME NEW a \in Byte, NEW m \in Byte, NEW c \in Bit
  PROVE  Vf \in Adc(a, m, c).f <=> Signed(a) + Signed(m) + c \notin -128..127
BY SMT DEF Adc, AdcV, Negative, Signed, Result, NZ, When, Byte, Bit, Cf, Zf, Nf, Vf

LEMMA SbcSigned ==
  ASSUME NEW a \in Byte, NEW m \in Byte, NEW c \in Bit
  PROVE  Vf \in Sbc(a, m, c).f <=> Signed(a) - Signed(m) - (1 - c) \notin -128..127
<1> DEFINE t == a - m - (1 - c)
           v == t % 256
<1>1. Vf \in Sbc(a, m, c).f <=> SbcV(a, m, v)
  <2> HIDE DEF v
  <2> QED
    BY SMT DEF Sbc, Result, NZ, When, Cf, Zf, Nf, Vf, v
<1>2. t \in -256..255 /\ v = (IF t < 0 THEN t + 256 ELSE t)
  BY SMT DEF Byte, Bit
<1>3. t = a - m - (1 - c) /\ a \in 0..255 /\ m \in 0..255 /\ c \in 0..1
  BY DEF Byte, Bit
<1> HIDE DEF v, t
<1>4. SbcV(a, m, v) <=> Signed(a) - Signed(m) - (1 - c) \notin -128..127
  BY <1>2, <1>3, SMTT(60) DEF SbcV, Negative, Signed
<1> QED
  BY <1>1, <1>4

\* A comparison is a subtraction with the carry set, less the result.
LEMMA SbcLess ==
  ASSUME NEW a \in Byte, NEW m \in Byte
  PROVE  LET f == Sbc(a, m, 1).f
         IN  (Nf \in f) # (Vf \in f) <=> Signed(a) < Signed(m)
BY SMT DEF Sbc, SbcV, Negative, Signed, Result, NZ, When, Byte, Bit, Cf, Zf, Nf, Vf

LEMMA CmpIsSbc ==
  ASSUME NEW a \in Byte, NEW m \in Byte
  PROVE  LET d == Sbc(a, m, 1) IN Compare(a, m).v = d.v /\ Compare(a, m).f = d.f \ {Vf}
BY SMT DEF Sbc, Compare, Result, NZ, When, Byte, Bit, Cf, Zf, Nf, Vf

\* What one instruction made of two bytes and a carry.
AluInv ==
  /\ acc \in Byte /\ operand \in Byte /\ carry \in Bit
  /\ done = "ADC" => outcome = Adc(acc, operand, carry)
  /\ done = "SBC" => outcome = Sbc(acc, operand, carry)
  /\ done = "ADC decimal" => outcome = AdcDecimal(acc, operand, carry)
  /\ done = "SBC decimal" => outcome = SbcDecimal(acc, operand, carry)
  /\ done = "CMP" => outcome = Compare(acc, operand)

\* An outcome is what the operands and the carry give.
LEMMA AluIsComputed == AluSpec => []AluInv
<1>1. AluInit => AluInv
  BY DEF AluInit, AluInv
<1>2. ASSUME AluInv, [AluNext]_aluVars
      PROVE  AluInv'
  <2>1. CASE AluNext
    BY <1>2, <2>1 DEF AluInv, AluNext, Does
  <2>2. CASE UNCHANGED aluVars
    BY <1>2, <2>2 DEF AluInv, aluVars
  <2> QED
    BY <1>2, <2>1, <2>2
<1> QED
  BY <1>1, <1>2, PTL DEF AluSpec

\* CarryMakesExact: ADC and SBC, binary and decimal.
THEOREM SumsAreExact == AluSpec => []CarryMakesExact
<1>1. AluInv => CarryMakesExact
  <2> SUFFICES ASSUME AluInv PROVE CarryMakesExact
    OBVIOUS
  <2>1. acc \in Byte /\ operand \in Byte /\ carry \in Bit
    BY DEF AluInv
  <2>2. ASSUME done = "ADC" PROVE outcome.v + 256 * Carry(outcome) = acc + operand + carry
    BY <2>1, <2>2, AdcExact DEF AluInv
  <2>3. ASSUME done = "SBC" PROVE outcome.v - 256 * (1 - Carry(outcome)) = acc - operand - (1 - carry)
    BY <2>1, <2>3, SbcExact DEF AluInv
  <2>4. ASSUME IsDecimal(acc), IsDecimal(operand), done = "ADC decimal"
        PROVE  IsDecimal(outcome.v) /\
               Decimal(outcome.v) + 100 * Carry(outcome) = Decimal(acc) + Decimal(operand) + carry
    <3> DEFINE r == AdcDecimal(acc, operand, carry)
    <3>1. IsDecimal(r.v) /\ Decimal(r.v) + 100 * Carry(r) = Decimal(acc) + Decimal(operand) + carry
      BY <2>1, <2>4, AdcDecimalExact
    <3>2. outcome = r
      BY <2>4 DEF AluInv
    <3> QED
      BY <3>1, <3>2
  <2>5. ASSUME IsDecimal(acc), IsDecimal(operand), done = "SBC decimal"
        PROVE  IsDecimal(outcome.v) /\
               Decimal(outcome.v) - 100 * (1 - Carry(outcome)) = Decimal(acc) - Decimal(operand) - (1 - carry)
    <3> DEFINE r == SbcDecimal(acc, operand, carry)
    <3>1. IsDecimal(r.v) /\ Decimal(r.v) - 100 * (1 - Carry(r)) = Decimal(acc) - Decimal(operand) - (1 - carry)
      BY <2>1, <2>5, SbcDecimalExact
    <3>2. outcome = r
      BY <2>5 DEF AluInv
    <3> QED
      BY <3>1, <3>2
  <2> QED
    BY <2>2, <2>3, <2>4, <2>5 DEF CarryMakesExact
<1> QED
  BY <1>1, AluIsComputed, PTL

\* OverflowIsSigned: V after ADC and SBC, and N with it after SBC.
THEOREM OverflowIsOutOfRange == AluSpec => []OverflowIsSigned
<1>1. AluInv => OverflowIsSigned
  <2> SUFFICES ASSUME AluInv PROVE OverflowIsSigned
    OBVIOUS
  <2>1. acc \in Byte /\ operand \in Byte /\ carry \in Bit
    BY DEF AluInv
  <2>2. done = "ADC" => (Vf \in outcome.f <=> Signed(acc) + Signed(operand) + carry \notin -128..127)
    BY <2>1, AdcSigned DEF AluInv
  <2>3. done = "SBC" => (Vf \in outcome.f <=> Signed(acc) - Signed(operand) - (1 - carry) \notin -128..127)
    BY <2>1, SbcSigned DEF AluInv
  <2>4. ASSUME done = "SBC", carry = 1
        PROVE  (Nf \in outcome.f) # (Vf \in outcome.f) <=> Signed(acc) < Signed(operand)
    BY <2>1, <2>4, SbcLess DEF AluInv
  <2> QED
    BY <2>2, <2>3, <2>4 DEF OverflowIsSigned
<1> QED
  BY <1>1, AluIsComputed, PTL

\* CompareIsSubtract: CMP, CPX and CPY set the flags of SBC.
THEOREM ComparesAsSubtracts == AluSpec => []CompareIsSubtract
<1>1. AluInv => CompareIsSubtract
  BY CmpIsSbc DEF AluInv, CompareIsSubtract
<1> QED
  BY <1>1, AluIsComputed, PTL

-----------------------------------------------------------------------------
(* The opcodes the machine decodes: each one's name and mode, by its row   *)
(* and its column of 32; no two instructions share an opcode.              *)

\* The name and the mode of an opcode, by its row and its column.
NameIn(row, col) ==
  CASE col % 4 = 1 -> <<"ORA", "AND", "EOR", "ADC", "STA", "LDA", "CMP", "SBC">>[row + 1]
    [] col \in {6, 14, 22, 30} -> <<"ASL", "ROL", "LSR", "ROR", "STX", "LDX", "DEC", "INC">>[row + 1]
    [] col = 10 -> <<"ASL", "ROL", "LSR", "ROR", "TXA", "TAX", "DEX", "NOP">>[row + 1]
    [] col = 2  -> IF row = 0 THEN "SYS" ELSE "LDX"
    [] col = 26 -> IF row = 4 THEN "TXS" ELSE "TSX"
    [] col = 0  -> <<"BRK", "JSR", "RTI", "RTS", "", "LDY", "CPY", "CPX">>[row + 1]
    [] col = 8  -> <<"PHP", "PLP", "PHA", "PLA", "DEY", "TAY", "INY", "INX">>[row + 1]
    [] col = 16 -> <<"BPL", "BMI", "BVC", "BVS", "BCC", "BCS", "BNE", "BEQ">>[row + 1]
    [] col = 24 -> <<"CLC", "SEC", "CLI", "SEI", "TYA", "CLV", "CLD", "SED">>[row + 1]
    [] OTHER    -> <<"", "BIT", "JMP", "JMP", "STY", "LDY", "CPY", "CPX">>[row + 1]

ModeIn(row, col) ==
  CASE col = 1  -> "indx"
    [] col \in {4, 5, 6} -> "zp"
    [] col = 9  -> "imm"
    [] col = 10 -> IF row < 4 THEN "acc" ELSE "implied"
    [] col \in {12, 13, 14} -> IF row = 3 /\ col = 12 THEN "ind" ELSE "abs"
    [] col = 17 -> "indy"
    [] col \in {20, 21} -> "zpx"
    [] col = 22 -> IF row \in {4, 5} THEN "zpy" ELSE "zpx"
    [] col = 25 -> "absy"
    [] col \in {28, 29} -> "absx"
    [] col = 30 -> IF row = 5 THEN "absy" ELSE "absx"
    [] col = 2  -> IF row = 5 THEN "imm" ELSE "implied"
    [] col = 0  -> IF row = 1 THEN "abs" ELSE IF row > 4 THEN "imm" ELSE "implied"
    [] OTHER    -> "implied"

NameAt(c) == NameIn(c \div 32, c % 32)
ModeAt(c) == ModeIn(c \div 32, c % 32)

\* The instruction is where its opcode says.
Placed(i) == i.code \in 0..255 /\ i.mne = NameAt(i.code) /\ i.mode = ModeAt(i.code)

\* An opcode has one row and one column.
LEMMA FieldsAre ==
  ASSUME NEW row \in 0..7, NEW col \in 0..31
  PROVE  32 * row + col \in 0..255 /\ (32 * row + col) \div 32 = row /\ (32 * row + col) % 32 = col
OBVIOUS

\* A family that is in its row.
InRow(mne, row, codes) ==
  /\ row \in 0..7
  /\ \A mode \in DOMAIN codes :
       codes[mode] \in 0..31 /\ NameIn(row, codes[mode]) = mne /\ ModeIn(row, codes[mode]) = mode

\* Every instruction is where its name and its mode say.
LEMMA FamilyPlaced ==
  ASSUME NEW mne, NEW row, NEW codes, InRow(mne, row, codes), NEW i \in Family(mne, row, codes)
  PROVE  Placed(i)
<1>1. PICK mode \in DOMAIN codes : i = [code |-> 32 * row + codes[mode], mne |-> mne, mode |-> mode]
  BY DEF Family
<1>2. /\ i.code \in 0..255 /\ i.code \div 32 = row /\ i.code % 32 = codes[mode]
  BY <1>1, FieldsAre DEF InRow
<1> QED
  BY <1>1, <1>2 DEF InRow, Placed, NameAt, ModeAt

LEMMA AccumulatorPlaced == \A i \in Accumulator : Placed(i)
<1>1. ASSUME NEW row \in 0..7
      PROVE  \A mode \in DOMAIN Operand8 :
               Operand8[mode] \in 0..31 /\ Operand8[mode] % 4 = 1 /\ ModeIn(row, Operand8[mode]) = mode
  BY SMTT(60) DEF Operand8, ModeIn
<1>2. ASSUME NEW row \in 0..7
      PROVE  \A mode \in DOMAIN Store7 :
               Store7[mode] \in 0..31 /\ Store7[mode] % 4 = 1 /\ ModeIn(row, Store7[mode]) = mode
  BY SMTT(60) DEF Store7, ModeIn
<1>3. ASSUME NEW col \in 0..31, col % 4 = 1
      PROVE  /\ NameIn(0, col) = "ORA" /\ NameIn(1, col) = "AND" /\ NameIn(2, col) = "EOR"
             /\ NameIn(3, col) = "ADC" /\ NameIn(4, col) = "STA" /\ NameIn(5, col) = "LDA"
             /\ NameIn(6, col) = "CMP" /\ NameIn(7, col) = "SBC"
  BY <1>3 DEF NameIn
<1>4. /\ InRow("ORA", 0, Operand8) /\ InRow("AND", 1, Operand8)
      /\ InRow("EOR", 2, Operand8) /\ InRow("ADC", 3, Operand8)
  BY <1>1, <1>3 DEF InRow
<1>5. /\ InRow("STA", 4, Store7) /\ InRow("LDA", 5, Operand8)
      /\ InRow("CMP", 6, Operand8) /\ InRow("SBC", 7, Operand8)
  BY <1>1, <1>2, <1>3 DEF InRow
<1>6. InRow("BIT", 1, [zp |-> 4, abs |-> 12])
  BY SMTT(60) DEF InRow, NameIn, ModeIn
<1> QED
  BY <1>4, <1>5, <1>6, FamilyPlaced DEF Accumulator

LEMMA MemoryPlaced == \A i \in Memory1 : Placed(i)
<1>1. /\ InRow("ASL", 0, Shift5) /\ InRow("ROL", 1, Shift5) /\ InRow("LSR", 2, Shift5)
      /\ InRow("ROR", 3, Shift5)
  BY SMTT(60) DEF InRow, NameIn, ModeIn, Shift5
<1>2. InRow("DEC", 6, Memory4) /\ InRow("INC", 7, Memory4)
  BY SMTT(60) DEF InRow, NameIn, ModeIn, Memory4
<1> QED
  BY <1>1, <1>2, FamilyPlaced DEF Memory1

LEMMA IndexPlaced == \A i \in Index : Placed(i)
<1> USE DEF InRow, NameIn, ModeIn
<1>1. InRow("LDX", 5, [imm |-> 2, zp |-> 6, abs |-> 14, zpy |-> 22, absy |-> 30])
  BY SMTT(60)
<1>2. InRow("LDY", 5, [imm |-> 0, zp |-> 4, abs |-> 12, zpx |-> 20, absx |-> 28])
  BY SMTT(60)
<1>3. InRow("CPX", 7, [imm |-> 0, zp |-> 4, abs |-> 12]) /\ InRow("CPY", 6, [imm |-> 0, zp |-> 4, abs |-> 12])
  BY SMTT(60)
<1>4. InRow("STX", 4, Memory3y) /\ InRow("STY", 4, Memory3)
  BY SMTT(60) DEF Memory3y, Memory3
<1> HIDE DEF InRow
<1> QED
  BY <1>1, <1>2, <1>3, <1>4, FamilyPlaced DEF Index

\* An instruction without operand that is in its cell.
InCell(high, low, mne) ==
  /\ high \in 0..15 /\ low \in 0..15
  /\ NameIn(high \div 2, 16 * (high % 2) + low) = mne
  /\ ModeIn(high \div 2, 16 * (high % 2) + low) = "implied"

\* One without an operand is in a cell of 16.
LEMMA ImpliedPlaced ==
  ASSUME NEW high, NEW low, NEW mne, InCell(high, low, mne), NEW i \in Implied(high, low, mne)
  PROVE  Placed(i)
<1>1. i = [code |-> 16 * high + low, mne |-> mne, mode |-> "implied"]
  BY DEF Implied
<1>2. /\ i.code \in 0..255 /\ i.code \div 32 = high \div 2 /\ i.code % 32 = 16 * (high % 2) + low
  BY <1>1 DEF InCell
<1> QED
  BY <1>1, <1>2 DEF InCell, Placed, NameAt, ModeAt

LEMMA RegistersPlaced == \A i \in Registers : Placed(i)
<1>1. /\ InCell(10, 10, "TAX") /\ InCell(8, 10, "TXA") /\ InCell(10, 8, "TAY")
      /\ InCell(9, 8, "TYA") /\ InCell(11, 10, "TSX") /\ InCell(9, 10, "TXS")
  BY SMTT(60) DEF InCell, NameIn, ModeIn
<1>2. /\ InCell(14, 8, "INX") /\ InCell(12, 10, "DEX") /\ InCell(12, 8, "INY")
      /\ InCell(8, 8, "DEY") /\ InCell(14, 10, "NOP") /\ InCell(1, 8, "CLC")
  BY SMTT(60) DEF InCell, NameIn, ModeIn
<1>3. /\ InCell(3, 8, "SEC") /\ InCell(5, 8, "CLI") /\ InCell(7, 8, "SEI")
      /\ InCell(13, 8, "CLD") /\ InCell(15, 8, "SED") /\ InCell(11, 8, "CLV")
  BY SMTT(60) DEF InCell, NameIn, ModeIn
<1> QED
  BY <1>1, <1>2, <1>3, ImpliedPlaced DEF Registers

LEMMA ControlPlaced == \A i \in Control : Placed(i)
<1>1. InRow("JSR", 1, [abs |-> 0])
  BY SMTT(60) DEF InRow, NameIn, ModeIn
<1>2. ASSUME NEW i \in Family("JMP", 2, [abs |-> 12, ind |-> 44])
      PROVE  Placed(i)
  <2>1. i = [code |-> 76, mne |-> "JMP", mode |-> "abs"] \/ i = [code |-> 108, mne |-> "JMP", mode |-> "ind"]
    BY DEF Family
  <2>2. /\ NameIn(2, 12) = "JMP" /\ ModeIn(2, 12) = "abs"
        /\ NameIn(3, 12) = "JMP" /\ ModeIn(3, 12) = "ind"
    BY SMTT(60) DEF NameIn, ModeIn
  <2>3. 76 \div 32 = 2 /\ 76 % 32 = 12 /\ 108 \div 32 = 3 /\ 108 % 32 = 12
    OBVIOUS
  <2> QED
    BY <2>1, <2>2, <2>3 DEF Placed, NameAt, ModeAt
<1>3. /\ InCell(1, 0, "BPL") /\ InCell(3, 0, "BMI") /\ InCell(5, 0, "BVC")
      /\ InCell(7, 0, "BVS") /\ InCell(9, 0, "BCC") /\ InCell(11, 0, "BCS")
  BY SMTT(60) DEF InCell, NameIn, ModeIn
<1>4. /\ InCell(13, 0, "BNE") /\ InCell(15, 0, "BEQ") /\ InCell(4, 8, "PHA")
      /\ InCell(6, 8, "PLA") /\ InCell(0, 8, "PHP") /\ InCell(2, 8, "PLP")
  BY SMTT(60) DEF InCell, NameIn, ModeIn
<1>5. /\ InCell(6, 0, "RTS") /\ InCell(4, 0, "RTI") /\ InCell(0, 0, "BRK")
      /\ InCell(0, 2, "SYS")
  BY SMTT(60) DEF InCell, NameIn, ModeIn
<1> QED
  BY <1>1, <1>2, <1>3, <1>4, <1>5, FamilyPlaced, ImpliedPlaced DEF Control

\* What an opcode decodes to.
LEMMA DecodeIs ==
  ASSUME NEW c \in DOMAIN Decode
  PROVE  c \in 0..255 /\ Decode[c].code = c /\ Decode[c].mne = NameAt(c) /\ Decode[c].mode = ModeAt(c)
<1>1. \E i \in Instructions : i.code = c
  BY DEF Decode
<1>2. Decode[c] \in Instructions /\ Decode[c].code = c
  BY <1>1 DEF Decode
<1> QED
  BY <1>2, AccumulatorPlaced, MemoryPlaced, IndexPlaced, RegistersPlaced, ControlPlaced DEF Instructions, Placed

-----------------------------------------------------------------------------
(* The rows of the table against the instructions of the machine.          *)

\* The instruction the machine has for a row.
Meant(r) ==
  IF r.code = Op(3, D) THEN [r EXCEPT !.mne = "AND"]
  ELSE IF r.code \in Misnamed THEN [r EXCEPT !.mode = "indx"]
  ELSE IF r.mode = "rel" THEN [r EXCEPT !.mode = "implied"]
  ELSE r

\* The rows of a name and its family have the same opcodes, and the same modes
\* but for the rows that are wrong.
Agree(n, row, codes) ==
  \A m \in DOMAIN OperandRows[n] : \A c \in OperandRows[n][m] :
    \/ m \in DOMAIN codes /\ c = 32 * row + codes[m] /\ c \notin Misnamed
    \/ "indx" \in DOMAIN codes /\ c = 32 * row + codes["indx"] /\ c \in Misnamed \ {61} /\ m = "zpx"
    \/ n = "ORA" /\ c = 61 /\ m = "absx"
Complete(n, row, codes) ==
  \A m \in DOMAIN codes :
    \/ \E o \in DOMAIN OperandRows[n] : 32 * row + codes[m] \in OperandRows[n][o]
    \/ n = "AND" /\ 32 * row + codes[m] = 61

OperandModes == {"acc", "imm", "zp", "zpx", "zpy", "abs", "absx", "absy", "ind", "indx", "indy"}

\* A name with its rows and its family.
Same(n, row, codes) ==
  /\ n \in DOMAIN OperandRows /\ n \notin Branches /\ DOMAIN OperandRows[n] \subseteq OperandModes
  /\ Agree(n, row, codes) /\ Complete(n, row, codes)

\* Name by name, the table and the families have the same opcodes.
LEMMA OperandsAgree ==
  /\ Same("ORA", 0, Operand8) /\ Same("AND", 1, Operand8) /\ Same("EOR", 2, Operand8)
  /\ Same("ADC", 3, Operand8) /\ Same("STA", 4, Store7) /\ Same("LDA", 5, Operand8)
  /\ Same("CMP", 6, Operand8) /\ Same("SBC", 7, Operand8)
  /\ Same("BIT", 1, [zp |-> 4, abs |-> 12]) /\ Same("ASL", 0, Shift5) /\ Same("ROL", 1, Shift5)
  /\ Same("LSR", 2, Shift5) /\ Same("ROR", 3, Shift5) /\ Same("DEC", 6, Memory4)
  /\ Same("INC", 7, Memory4)
  /\ Same("LDX", 5, [imm |-> 2, zp |-> 6, abs |-> 14, zpy |-> 22, absy |-> 30])
  /\ Same("LDY", 5, [imm |-> 0, zp |-> 4, abs |-> 12, zpx |-> 20, absx |-> 28])
  /\ Same("CPX", 7, [imm |-> 0, zp |-> 4, abs |-> 12])
  /\ Same("CPY", 6, [imm |-> 0, zp |-> 4, abs |-> 12]) /\ Same("STX", 4, Memory3y)
  /\ Same("STY", 4, Memory3) /\ Same("JSR", 1, [abs |-> 0])
  /\ Same("JMP", 2, [abs |-> 12, ind |-> 44])
<1> USE DEF Same, OperandModes, Agree, Complete, Misnamed, Branches, Op, A, B, C, D, E, F
<1>1. Same("ORA", 0, Operand8)
  BY SMTT(60) DEF OperandRows, Operand8
<1>2. Same("AND", 1, Operand8)
  BY SMTT(60) DEF OperandRows, Operand8
<1>3. Same("EOR", 2, Operand8)
  BY SMTT(60) DEF OperandRows, Operand8
<1>4. Same("ADC", 3, Operand8)
  BY SMTT(60) DEF OperandRows, Operand8
<1>5. Same("STA", 4, Store7)
  BY SMTT(60) DEF OperandRows, Store7
<1>6. Same("LDA", 5, Operand8)
  BY SMTT(60) DEF OperandRows, Operand8
<1>7. Same("CMP", 6, Operand8)
  BY SMTT(60) DEF OperandRows, Operand8
<1>8. Same("SBC", 7, Operand8)
  BY SMTT(60) DEF OperandRows, Operand8
<1>9. Same("BIT", 1, [zp |-> 4, abs |-> 12])
  BY SMTT(60) DEF OperandRows
<1>10. Same("ASL", 0, Shift5)
  BY SMTT(60) DEF OperandRows, Shift5
<1>11. Same("ROL", 1, Shift5)
  BY SMTT(60) DEF OperandRows, Shift5
<1>12. Same("LSR", 2, Shift5)
  BY SMTT(60) DEF OperandRows, Shift5
<1>13. Same("ROR", 3, Shift5)
  BY SMTT(60) DEF OperandRows, Shift5
<1>14. Same("DEC", 6, Memory4)
  BY SMTT(60) DEF OperandRows, Memory4
<1>15. Same("INC", 7, Memory4)
  BY SMTT(60) DEF OperandRows, Memory4
<1>16. Same("LDX", 5, [imm |-> 2, zp |-> 6, abs |-> 14, zpy |-> 22, absy |-> 30])
  BY SMTT(60) DEF OperandRows
<1>17. Same("LDY", 5, [imm |-> 0, zp |-> 4, abs |-> 12, zpx |-> 20, absx |-> 28])
  BY SMTT(60) DEF OperandRows
<1>18. Same("CPX", 7, [imm |-> 0, zp |-> 4, abs |-> 12])
  BY SMTT(60) DEF OperandRows
<1>19. Same("CPY", 6, [imm |-> 0, zp |-> 4, abs |-> 12])
  BY SMTT(60) DEF OperandRows
<1>20. Same("STX", 4, Memory3y)
  BY SMTT(60) DEF OperandRows, Memory3y
<1>21. Same("STY", 4, Memory3)
  BY SMTT(60) DEF OperandRows, Memory3
<1>22. Same("JSR", 1, [abs |-> 0])
  BY SMTT(60) DEF OperandRows
<1>23. Same("JMP", 2, [abs |-> 12, ind |-> 44])
  BY SMTT(60) DEF OperandRows
<1> HIDE DEF Same
<1> QED
  BY <1>1, <1>2, <1>3, <1>4, <1>5, <1>6, <1>7, <1>8, <1>9, <1>10, <1>11, <1>12,
     <1>13, <1>14, <1>15, <1>16, <1>17, <1>18, <1>19, <1>20, <1>21, <1>22, <1>23

\* So do the rows without an operand, and the branches.
LEMMA PlainAgree ==
  /\ \A n \in DOMAIN ImpliedRows :
       [code |-> ImpliedRows[n], mne |-> n, mode |-> "implied"] \in Registers \cup Control
  /\ \A n \in DOMAIN RelativeRows :
       [code |-> RelativeRows[n], mne |-> n, mode |-> "implied"] \in Registers \cup Control
<1>1. \A n \in DOMAIN ImpliedRows :
       [code |-> ImpliedRows[n], mne |-> n, mode |-> "implied"] \in Registers \cup Control
  BY SMTT(60) DEF ImpliedRows, Registers, Control, Implied, Op, A, B, C, D, E, F
<1>2. \A n \in DOMAIN RelativeRows :
       [code |-> RelativeRows[n], mne |-> n, mode |-> "implied"] \in Registers \cup Control
  BY SMTT(60) DEF RelativeRows, Registers, Control, Implied, Op, A, B, C, D, E, F
<1> QED
  BY <1>1, <1>2

\* None of them is among the rows that are wrong.
LEMMA PlainApart ==
  /\ \A n \in DOMAIN ImpliedRows : n \notin Branches /\ ImpliedRows[n] \notin Misnamed
  /\ \A n \in DOMAIN RelativeRows : n \in Branches /\ RelativeRows[n] \notin Misnamed
<1>1. \A n \in DOMAIN ImpliedRows : n \notin Branches /\ ImpliedRows[n] \notin Misnamed
  BY SMTT(60) DEF ImpliedRows, Branches, Misnamed, Op, A, B, C, D, E, F
<1>2. \A n \in DOMAIN RelativeRows : n \in Branches /\ RelativeRows[n] \notin Misnamed
  BY SMTT(60) DEF RelativeRows, Branches, Misnamed, Op, A, B, C, D, E, F
<1> QED
  BY <1>1, <1>2

\* Every name with operands has its family.
LEMMA HasFamily ==
  ASSUME NEW n \in DOMAIN OperandRows
  PROVE  \E row, codes : Same(n, row, codes) /\ Family(n, row, codes) \subseteq Instructions
<1>1. n \in {
      "ORA", "ASL", "JSR", "AND", "BIT", "ROL", "EOR", "LSR", "JMP", "ADC", "ROR", "STA",
      "STY", "STX", "LDY", "LDA", "LDX", "CPY", "CMP", "DEC", "CPX", "SBC", "INC"}
  BY DEF OperandRows
<1>2. CASE n \in {"ORA", "AND", "EOR", "ADC", "STA", "LDA", "CMP", "SBC", "BIT"}
  BY <1>2, OperandsAgree DEF Accumulator, Instructions
<1>3. CASE n \in {"ASL", "ROL", "LSR", "ROR", "DEC", "INC"}
  BY <1>3, OperandsAgree DEF Memory1, Instructions
<1>4. CASE n \in {"LDX", "LDY", "CPX", "CPY", "STX", "STY"}
  BY <1>4, OperandsAgree DEF Index, Instructions
<1>5. CASE n \in {"JSR", "JMP"}
  BY <1>5, OperandsAgree DEF Control, Instructions
<1> QED
  BY <1>1, <1>2, <1>3, <1>4, <1>5

\* The rows that are branches, and the rows that are wrong.
Rowed(r) ==
  /\ r = [mne |-> r.mne, code |-> r.code, mode |-> r.mode]
  /\ r.mode \in OperandModes \cup {"implied", "rel"}
  /\ r.mode = "rel" <=> r.mne \in Branches
  /\ r.code \in Misnamed => r.mode = IF r.code = Op(3, D) THEN "absx" ELSE "zpx"
  /\ r.code = Op(3, D) => r.mne = "ORA"

\* A row is an instruction, the wrong ones read as the machine reads them.
LEMMA RowMeant ==
  ASSUME NEW r \in vm_op_tbl
  PROVE  Rowed(r) /\ Meant(r) \in Instructions
<1> USE DEF OperandModes
<1>0. Op(3, D) = 61 /\ 61 \in Misnamed
  BY DEF Op, D, Misnamed
<1>1. CASE r \in Plain(ImpliedRows, "implied")
  BY <1>0, <1>1, PlainAgree, PlainApart DEF Plain, Rowed, Meant, Instructions
<1>2. CASE r \in Plain(RelativeRows, "rel")
  BY <1>0, <1>2, PlainAgree, PlainApart DEF Plain, Rowed, Meant, Instructions
<1>3. ASSUME NEW n \in DOMAIN OperandRows, r \in Rows(n, OperandRows[n])
      PROVE  Rowed(r) /\ Meant(r) \in Instructions
  <2>0. PICK m \in DOMAIN OperandRows[n] : \E c \in OperandRows[n][m] : r = [mne |-> n, code |-> c, mode |-> m]
    BY <1>3 DEF Rows
  <2>1. PICK c \in OperandRows[n][m] : r = [mne |-> n, code |-> c, mode |-> m]
    BY <2>0
  <2>2. PICK row, codes : Same(n, row, codes) /\ Family(n, row, codes) \subseteq Instructions
    BY HasFamily
  <2>3. \A o \in DOMAIN codes : [code |-> 32 * row + codes[o], mne |-> n, mode |-> o] \in Instructions
    BY <2>2 DEF Family
  <2>4. m \in OperandModes /\ m # "rel" /\ n \notin Branches
    BY <2>2 DEF Same, OperandModes
  <2>5. CASE m \in DOMAIN codes /\ c = 32 * row + codes[m] /\ c \notin Misnamed
    <3>1. r \in Instructions
      BY <2>1, <2>3, <2>5
    <3>2. Meant(r) = r
      BY <1>0, <2>1, <2>4, <2>5 DEF Meant
    <3> QED
      BY <1>0, <2>1, <2>4, <2>5, <3>1, <3>2 DEF Rowed
  <2>6. CASE "indx" \in DOMAIN codes /\ c = 32 * row + codes["indx"] /\ c \in Misnamed \ {61} /\ m = "zpx"
    BY <1>0, <2>1, <2>3, <2>4, <2>6 DEF Rowed, Meant
  <2>7. CASE n = "ORA" /\ c = 61 /\ m = "absx"
    <3>1. [code |-> 32 * 1 + Operand8["absx"], mne |-> "AND", mode |-> "absx"] \in Family("AND", 1, Operand8)
      BY DEF Family, Operand8
    <3>2. [code |-> 61, mne |-> "AND", mode |-> "absx"] \in Instructions
      BY <3>1 DEF Operand8, Accumulator, Instructions
    <3> QED
      BY <1>0, <2>1, <2>4, <2>7, <3>2 DEF Rowed, Meant
  <2> QED
    BY <2>2, <2>5, <2>6, <2>7 DEF Same, Agree
<1> QED
  BY <1>1, <1>2, <1>3 DEF vm_op_tbl

\* An instruction without operand is in one of the two short tables.
InPlain(high, low, mne) ==
  \/ mne \in DOMAIN ImpliedRows /\ ImpliedRows[mne] = 16 * high + low
  \/ mne \in DOMAIN RelativeRows /\ RelativeRows[mne] = 16 * high + low

\* Every instruction without an operand has a row.
LEMMA PlainComplete ==
  ASSUME NEW high, NEW low, NEW mne, InPlain(high, low, mne), NEW i \in Implied(high, low, mne)
  PROVE  \E r \in vm_op_tbl : r.code = i.code
<1>1. i.code = 16 * high + low
  BY DEF Implied
<1>2. CASE mne \in DOMAIN ImpliedRows /\ ImpliedRows[mne] = 16 * high + low
  <2>1. [mne |-> mne, code |-> ImpliedRows[mne], mode |-> "implied"] \in vm_op_tbl
    BY <1>2 DEF vm_op_tbl, Plain
  <2> QED
    BY <1>1, <1>2, <2>1
<1>3. CASE mne \in DOMAIN RelativeRows /\ RelativeRows[mne] = 16 * high + low
  <2>1. [mne |-> mne, code |-> RelativeRows[mne], mode |-> "rel"] \in vm_op_tbl
    BY <1>3 DEF vm_op_tbl, Plain
  <2> QED
    BY <1>1, <1>3, <2>1
<1> QED
  BY <1>2, <1>3 DEF InPlain

\* So has every instruction of a family.
LEMMA FamilyComplete ==
  ASSUME NEW n, NEW row, NEW codes, Same(n, row, codes), NEW i \in Family(n, row, codes)
  PROVE  \E r \in vm_op_tbl : r.code = i.code
<1>1. PICK m \in DOMAIN codes : i.code = 32 * row + codes[m]
  BY DEF Family
<1>2. ASSUME NEW k \in DOMAIN OperandRows, NEW o \in DOMAIN OperandRows[k], i.code \in OperandRows[k][o]
      PROVE  \E r \in vm_op_tbl : r.code = i.code
  <2>1. [mne |-> k, code |-> i.code, mode |-> o] \in Rows(k, OperandRows[k])
    BY <1>2 DEF Rows
  <2>2. [mne |-> k, code |-> i.code, mode |-> o] \in vm_op_tbl
    BY <2>1 DEF vm_op_tbl
  <2> QED
    BY <2>2
<1>3. CASE \E o \in DOMAIN OperandRows[n] : i.code \in OperandRows[n][o]
  BY <1>2, <1>3 DEF Same
<1>4. CASE i.code = 61
  <2>1. "ORA" \in DOMAIN OperandRows /\ "absx" \in DOMAIN OperandRows["ORA"]
    BY DEF OperandRows
  <2>2. 61 \in OperandRows["ORA"]["absx"]
    BY DEF OperandRows, Op, D
  <2> QED
    BY <1>2, <1>4, <2>1, <2>2
<1> QED
  BY <1>1, <1>3, <1>4 DEF Same, Complete

\* Every opcode the machine decodes is in the table, and no other is.
LEMMA EveryOpcode ==
  ASSUME NEW i \in Instructions
  PROVE  \E r \in vm_op_tbl : r.code = i.code
<1> USE DEF InPlain, ImpliedRows, RelativeRows, Op, A, B, C, D, E, F
<1>1. /\ InPlain(10, 10, "TAX") /\ InPlain(8, 10, "TXA") /\ InPlain(10, 8, "TAY")
      /\ InPlain(9, 8, "TYA") /\ InPlain(11, 10, "TSX") /\ InPlain(9, 10, "TXS")
      /\ InPlain(14, 8, "INX") /\ InPlain(12, 10, "DEX") /\ InPlain(12, 8, "INY")
  BY SMTT(60)
<1>2. /\ InPlain(8, 8, "DEY") /\ InPlain(14, 10, "NOP") /\ InPlain(1, 8, "CLC")
      /\ InPlain(3, 8, "SEC") /\ InPlain(5, 8, "CLI") /\ InPlain(7, 8, "SEI")
      /\ InPlain(13, 8, "CLD") /\ InPlain(15, 8, "SED") /\ InPlain(11, 8, "CLV")
  BY SMTT(60)
<1>3. /\ InPlain(1, 0, "BPL") /\ InPlain(3, 0, "BMI") /\ InPlain(5, 0, "BVC")
      /\ InPlain(7, 0, "BVS") /\ InPlain(9, 0, "BCC") /\ InPlain(11, 0, "BCS")
      /\ InPlain(13, 0, "BNE") /\ InPlain(15, 0, "BEQ") /\ InPlain(4, 8, "PHA")
  BY SMTT(60)
<1>4. /\ InPlain(6, 8, "PLA") /\ InPlain(0, 8, "PHP") /\ InPlain(2, 8, "PLP")
      /\ InPlain(6, 0, "RTS") /\ InPlain(4, 0, "RTI") /\ InPlain(0, 0, "BRK")
      /\ InPlain(0, 2, "SYS")
  BY SMTT(60)
<1> HIDE DEF InPlain
<1>9. i \in Registers \cup Control => \E r \in vm_op_tbl : r.code = i.code
  BY <1>1, <1>2, <1>3, <1>4, PlainComplete, FamilyComplete, OperandsAgree DEF Registers, Control
<1> QED
  BY <1>9, FamilyComplete, OperandsAgree DEF Instructions, Accumulator, Memory1, Index

\* The machine decodes the opcode of a row to what the row meant.
LEMMA DecodeOfRow ==
  ASSUME NEW r \in vm_op_tbl
  PROVE  r.code \in DOMAIN Decode /\ Decode[r.code] = Meant(r)
<1>1. Meant(r) \in Instructions /\ Meant(r).code = r.code
  BY RowMeant DEF Meant, Rowed
<1>2. r.code \in DOMAIN Decode
  BY <1>1 DEF Decode
<1>3. Decode[r.code] \in Instructions /\ Decode[r.code].code = r.code
  BY <1>1, <1>2 DEF Decode
<1>4. \A i \in Instructions : i = [code |-> i.code, mne |-> i.mne, mode |-> i.mode]
  BY DEF Instructions, Accumulator, Memory1, Index, Registers, Control, Family, Implied
<1>5. \A i \in Instructions : Placed(i)
  BY AccumulatorPlaced, MemoryPlaced, IndexPlaced, RegistersPlaced, ControlPlaced DEF Instructions
<1> QED
  BY <1>1, <1>2, <1>3, <1>4, <1>5 DEF Placed

\* No two rows have an opcode.
LEMMA CodesApart ==
  ASSUME NEW r \in vm_op_tbl, NEW q \in vm_op_tbl, r.code = q.code
  PROVE  r = q
<1>1. Meant(r) = Meant(q)
  BY DecodeOfRow
<1>2. Rowed(r) /\ Rowed(q)
  BY RowMeant
<1>3. r.mne = q.mne /\ r.mode = q.mode
  <2>1. CASE r.code = Op(3, D)
    <3>1. Op(3, D) \in Misnamed
      BY DEF Misnamed
    <3> QED
      BY <1>2, <2>1, <3>1 DEF Rowed
  <2>2. CASE r.code # Op(3, D) /\ r.code \in Misnamed
    BY <1>1, <1>2, <2>2 DEF Rowed, Meant
  <2>3. CASE r.code # Op(3, D) /\ r.code \notin Misnamed
    BY <1>1, <1>2, <2>3 DEF Rowed, Meant
  <2> QED
    BY <2>1, <2>2, <2>3
<1> QED
  BY <1>2, <1>3 DEF Rowed

\* An opcode that decodes has one row, and one that does not has none.
LEMMA CodedIs ==
  ASSUME NEW c
  PROVE  /\ c \in DOMAIN Decode <=> Coded(c) # {}
         /\ \A r \in Coded(c) : Coded(c) = {r} /\ First(Coded(c)) = r /\ r \in vm_op_tbl /\ r.code = c
<1>1. c \in DOMAIN Decode <=> Coded(c) # {}
  <2>1. ASSUME c \in DOMAIN Decode PROVE Coded(c) # {}
    <3>1. PICK i \in Instructions : i.code = c
      BY <2>1 DEF Decode
    <3> QED
      BY <3>1, EveryOpcode DEF Coded
  <2>2. ASSUME Coded(c) # {} PROVE c \in DOMAIN Decode
    BY <2>2, DecodeOfRow DEF Coded
  <2> QED
    BY <2>1, <2>2
<1>2. ASSUME NEW r \in Coded(c)
      PROVE  Coded(c) = {r} /\ First(Coded(c)) = r /\ r \in vm_op_tbl /\ r.code = c
  <2>1. r \in vm_op_tbl /\ r.code = c
    BY <1>2 DEF Coded
  <2>2. Coded(c) = {r}
    BY <2>1, CodesApart DEF Coded
  <2>3. r.code <= r.code
    <3>1. Meant(r) \in Instructions
      BY <2>1, RowMeant
    <3>2. r.code \in 0..255
      BY <2>1, DecodeOfRow, DecodeIs
    <3> QED
      BY <3>2
  <2>4. First({r}) = r
    BY <2>3 DEF First
  <2> QED
    BY <2>1, <2>2, <2>4
<1> QED
  BY <1>1, <1>2

\* The length the machine takes is the length of the table.
LEMMA LengthOfRow ==
  ASSUME NEW r \in vm_op_tbl
  PROVE  LengthOf(Decode[r.code]) = Width(r.mode) /\ Width(r.mode) \in 1..3 /\ ListWidth(r.mode) = Width(r.mode)
<1>1. Rowed(r) /\ Decode[r.code] = Meant(r)
  BY RowMeant, DecodeOfRow
<1>2. "AND" \notin Branches /\ "ORA" \notin Branches
  BY DEF Branches
<1>3. CASE r.code = Op(3, D)
  <2>1. Op(3, D) \in Misnamed
    BY DEF Misnamed
  <2>2. r.mode = "absx" /\ r.mne = "ORA"
    BY <1>1, <1>3, <2>1 DEF Rowed
  <2>3. Decode[r.code].mne = "AND" /\ Decode[r.code].mode = "absx"
    BY <1>1, <1>3, <2>2 DEF Rowed, Meant
  <2> QED
    BY <1>2, <2>2, <2>3 DEF LengthOf, Width, ListWidth
<1>4. CASE r.code # Op(3, D) /\ r.code \in Misnamed
  <2>2. r.mode = "zpx" /\ r.mne \notin Branches
    BY <1>1, <1>4 DEF Rowed
  <2>3. Decode[r.code].mne = r.mne /\ Decode[r.code].mode = "indx"
    BY <1>1, <1>4, <2>2 DEF Rowed, Meant
  <2> QED
    BY <2>2, <2>3 DEF LengthOf, Width, ListWidth
<1>5. CASE r.code # Op(3, D) /\ r.code \notin Misnamed
  <2>1. CASE r.mode = "rel"
    <3>1. Decode[r.code].mne = r.mne /\ r.mne \in Branches
      BY <1>1, <1>5, <2>1 DEF Rowed, Meant
    <3>2. LengthOf(Decode[r.code]) = 2
      BY <3>1 DEF LengthOf
    <3>3. Width("rel") = 2 /\ ListWidth("rel") = 2
      BY DEF Width, ListWidth
    <3> QED
      BY <2>1, <3>2, <3>3
  <2>2. CASE r.mode # "rel"
    <3>1. Decode[r.code] = r /\ r.mne \notin Branches
      BY <1>1, <1>5, <2>2 DEF Rowed, Meant
    <3> QED
      BY <1>1, <3>1 DEF LengthOf, Width, ListWidth, Rowed, OperandModes
  <2> QED
    BY <2>1, <2>2
<1> QED
  BY <1>3, <1>4, <1>5

\* Of the rows of a name and a mode, those that are not hidden are the first.
Least(modes) == \A m \in DOMAIN modes : \A c, d \in modes[m] : c \in Shadowed \/ c <= d

\* Name by name, of the rows of a mode those that are not hidden come first.
LEMMA OperandsLeast == \A n \in DOMAIN OperandRows : Least(OperandRows[n])
<1> USE DEF Least, Shadowed, Op, A, B, C, D, E, F
<1>1. \A n \in {"ORA", "ASL", "JSR", "AND", "BIT", "ROL"} : Least(OperandRows[n])
  BY SMTT(60) DEF OperandRows
<1>2. \A n \in {"EOR", "LSR", "JMP", "ADC", "ROR", "STA"} : Least(OperandRows[n])
  BY SMTT(60) DEF OperandRows
<1>3. \A n \in {"STY", "STX", "LDY", "LDA", "LDX", "CPY"} : Least(OperandRows[n])
  BY SMTT(60) DEF OperandRows
<1>4. \A n \in {"CMP", "DEC", "CPX", "SBC", "INC"} : Least(OperandRows[n])
  BY SMTT(60) DEF OperandRows
<1>5. DOMAIN OperandRows = {
      "ORA", "ASL", "JSR", "AND", "BIT", "ROL",
      "EOR", "LSR", "JMP", "ADC", "ROR", "STA",
      "STY", "STX", "LDY", "LDA", "LDX", "CPY",
      "CMP", "DEC", "CPX", "SBC", "INC"}
  BY DEF OperandRows
<1> HIDE DEF Least
<1> QED
  BY <1>1, <1>2, <1>3, <1>4, <1>5

\* So for any two rows of a name and a mode.
LEMMA LeastOfMode ==
  ASSUME NEW r \in vm_op_tbl, NEW q \in vm_op_tbl, r.mne = q.mne, r.mode = q.mode,
         r.code \notin Shadowed
  PROVE  r.code <= q.code
<1>1. r.code \in Nat /\ q.code \in Nat
  BY TableFits DEF Fits
<1>2. ASSUME NEW s \in vm_op_tbl
      PROVE  \/ s.mode = "implied" /\ s \in Plain(ImpliedRows, "implied")
             \/ s.mode = "rel" /\ s \in Plain(RelativeRows, "rel")
             \/ /\ s.mode \in OperandModes /\ s.mne \in DOMAIN OperandRows
                /\ s.mode \in DOMAIN OperandRows[s.mne] /\ s.code \in OperandRows[s.mne][s.mode]
  <2>1. CASE s \in Plain(ImpliedRows, "implied")
    BY <2>1 DEF Plain
  <2>2. CASE s \in Plain(RelativeRows, "rel")
    BY <2>2 DEF Plain
  <2>3. ASSUME NEW n \in DOMAIN OperandRows, s \in Rows(n, OperandRows[n])
        PROVE  /\ s.mode \in OperandModes /\ s.mne \in DOMAIN OperandRows
               /\ s.mode \in DOMAIN OperandRows[s.mne] /\ s.code \in OperandRows[s.mne][s.mode]
    <3>1. DOMAIN OperandRows[n] \subseteq OperandModes
      BY HasFamily DEF Same
    <3> QED
      BY <2>3, <3>1 DEF Rows
  <2> QED
    BY <2>1, <2>2, <2>3 DEF vm_op_tbl
<1>3. "implied" \notin OperandModes /\ "rel" \notin OperandModes
  BY DEF OperandModes
<1>4. CASE r.mode = "implied"
  <2>1. r \in Plain(ImpliedRows, "implied") /\ q \in Plain(ImpliedRows, "implied")
    BY <1>2, <1>3, <1>4
  <2>2. r.code = q.code
    BY <2>1 DEF Plain
  <2> QED
    BY <1>1, <2>2
<1>5. CASE r.mode = "rel"
  <2>1. r \in Plain(RelativeRows, "rel") /\ q \in Plain(RelativeRows, "rel")
    BY <1>2, <1>3, <1>5
  <2>2. r.code = q.code
    BY <2>1 DEF Plain
  <2> QED
    BY <1>1, <2>2
<1>6. CASE r.mode \notin {"implied", "rel"}
  <2>1. r.mne \in DOMAIN OperandRows /\ r.mode \in DOMAIN OperandRows[r.mne] /\ r.code \in OperandRows[r.mne][r.mode]
    BY <1>2, <1>6
  <2>2. q.code \in OperandRows[r.mne][r.mode]
    BY <1>2, <1>6
  <2> QED
    BY <2>1, <2>2, OperandsLeast DEF Least
<1> QED
  BY <1>4, <1>5, <1>6

\* find_mne finds the row of a name and a mode that is not hidden.
LEMMA FindIs ==
  ASSUME NEW r \in vm_op_tbl
  PROVE  /\ Has(r.mne, r.mode) /\ HasMne(r.mne)
         /\ r.code \notin Shadowed => find_mne(r.mne, r.mode) = r
<1> DEFINE rows == InMode(Named(r.mne), r.mode)
<1>1. r \in rows /\ r \in Named(r.mne) /\ rows \subseteq vm_op_tbl
  BY DEF InMode, Named
<1>2. \A q \in rows : q \in vm_op_tbl /\ q.mne = r.mne /\ q.mode = r.mode
  BY DEF InMode, Named
<1>3. find_mne(r.mne, r.mode) = First(rows)
  BY <1>1 DEF find_mne
<1>4. Has(r.mne, r.mode) /\ HasMne(r.mne)
  BY <1>1 DEF Has, HasMne
<1> HIDE DEF rows
<1>5. ASSUME r.code \notin Shadowed PROVE First(rows) = r
  <2>1. First(rows) \in rows
    BY <1>1, FirstIsOne
  <2>2. \A q \in rows : r.code <= q.code
    BY <1>2, <1>5, LeastOfMode
  <2>3. \A q \in rows : First(rows).code <= q.code
    BY <1>1, <2>2 DEF First
  <2>4. First(rows).code \in Nat /\ r.code \in Nat
    BY <1>1, <2>1, TableFits DEF Fits
  <2>5. First(rows).code = r.code
    BY <1>1, <2>1, <2>2, <2>3, <2>4
  <2> QED
    BY <1>1, <2>1, <2>5, CodesApart
<1> QED
  BY <1>3, <1>4, <1>5

\* The row that find_mne finds, when a row after the table has not the name.
LEMMA FoundRow ==
  ASSUME NEW n, NEW mode, Has(n, mode), n # after.mne
  PROVE  /\ find_mne(n, mode) \in vm_op_tbl
         /\ find_mne(n, mode).mne = n /\ find_mne(n, mode).mode = mode
<1> DEFINE rows == InMode(Named(n), mode)
<1>1. rows # {}
  BY DEF Has
<1>2. rows \subseteq vm_op_tbl /\ \A r \in rows : r.mne = n /\ r.mode = mode
  BY DEF InMode, Named
<1>3. find_mne(n, mode) = First(rows)
  BY <1>1 DEF find_mne
<1> HIDE DEF rows
<1> QED
  BY <1>1, <1>2, <1>3, FirstIsOne

-----------------------------------------------------------------------------
(* Lines: the blanks that are passed over, and what is read past a blank.  *)

\* A function that skips the blanks of a line is the one that Solid takes.
LEMMA SolidIs ==
  ASSUME NEW line, Len(line) \in Nat, NEW f, f = [i \in 0..Len(line) |-> f[i]],
         f[0] = <<>>,
         \A i \in 1..Len(line) : f[i] = IF line[i].t = "sp" THEN f[i - 1] ELSE Append(f[i - 1], line[i])
  PROVE  Solid(line) = f[Len(line)]
<1> DEFINE n == Len(line)
           body(g) == [i \in 0..n |->
             IF i = 0 THEN <<>> ELSE IF line[i].t = "sp" THEN g[i - 1] ELSE Append(g[i - 1], line[i])]
           upto == CHOOSE g : g = body(g)
<1>0. \A i \in 0..n : i # 0 => i \in 1..n /\ i - 1 \in 0..n /\ i - 1 < i
  BY SMT
<1>1. Solid(line) = upto[n]
  BY DEF Solid
<1>2. f = body(f)
  <2>1. \A i \in 0..n : f[i] = body(f)[i]
    BY <1>0
  <2> QED
    BY <2>1
<1>3. upto = body(upto)
  <2> HIDE DEF body
  <2> QED
    BY <1>2
<1> HIDE DEF upto
<1>4. upto[0] = <<>> /\ \A i \in 1..n : upto[i] = IF line[i].t = "sp" THEN upto[i - 1] ELSE Append(upto[i - 1], line[i])
  <2>1. 0 \in 0..n /\ \A i \in 1..n : i \in 0..n /\ i # 0
    BY SMT
  <2> HIDE DEF n
  <2> QED
    BY <1>3, <2>1
<1>5. \A i \in 0..n : upto[i] = f[i]
  <2> DEFINE T == {i \in 0..n : upto[i] # f[i]}
  <2>1. SUFFICES ASSUME T # {} PROVE FALSE
    OBVIOUS
  <2>2. T \subseteq 1..n
    <3>1. \A i \in T : i # 0 /\ i \in 0..n
      BY <1>4
    <3> QED
      BY <1>0, <3>1
  <2>3. PICK m \in T : \A y \in T : m <= y
    <3> HIDE DEF T
    <3> QED
      BY <2>1, <2>2, LeastInPlaces
  <2>4. m \in 1..n /\ m - 1 \in 0..n /\ ~(m <= m - 1)
    BY <2>2, SMT
  <2>5. upto[m - 1] = f[m - 1]
    BY <2>3, <2>4
  <2>6. upto[m] = f[m]
    BY <1>4, <2>4, <2>5
  <2> QED
    BY <2>3, <2>6
<1>6. n \in 0..n
  BY SMT
<1> QED
  BY <1>1, <1>5, <1>6

\* An empty line has nothing in it.
LEMMA NothingSolid == Solid(<<>>) = <<>>
<1> DEFINE f == [i \in 0..0 |-> <<>>]
<1>1. Len(<<>>) = 0
  OBVIOUS
<1>2. f = [i \in 0..Len(<<>>) |-> f[i]] /\ f[0] = <<>> /\ f[Len(<<>>)] = <<>>
  BY <1>1
<1>3. \A i \in 1..Len(<<>>) : FALSE
  BY <1>1, SMT
<1> HIDE DEF f
<1>4. Len(<<>>) \in Nat
  BY <1>1
<1> QED
  BY <1>2, <1>3, <1>4, SolidIs

\* The operands of a listing follow a blank.
Spaced(s) == <<Tok("sp")>> \o s

\* A line with a token before it.
LEMMA Prepended ==
  ASSUME NEW S, NEW x \in S, NEW s \in Seq(S)
  PROVE  /\ <<x>> \o s \in Seq(S) /\ Len(<<x>> \o s) = Len(s) + 1 /\ (<<x>> \o s)[1] = x
         /\ \A i \in 1..Len(s) : (<<x>> \o s)[i + 1] = s[i]
<1>1. <<x>> \in Seq(S) /\ Len(<<x>>) = 1 /\ <<x>>[1] = x
  OBVIOUS
<1>2. Len(s) \in Nat
  OBVIOUS
<1> DEFINE one == <<x>>
<1> HIDE DEF one
<1>3. /\ one \o s \in Seq(S) /\ Len(one \o s) = 1 + Len(s)
      /\ \A i \in 1..(1 + Len(s)) : (one \o s)[i] = IF i <= 1 THEN one[1] ELSE s[i - 1]
  <2>1. one \in Seq(S) /\ Len(one) = 1
    BY <1>1 DEF one
  <2>2. /\ one \o s \in Seq(S) /\ Len(one \o s) = Len(one) + Len(s)
        /\ \A i \in 1..(Len(one) + Len(s)) : (one \o s)[i] = IF i <= Len(one) THEN one[i] ELSE s[i - Len(one)]
    BY <2>1, ConcatProperties
  <2>3. \A i \in 1..(1 + Len(s)) : i <= 1 => i = 1
    BY SMT
  <2> QED
    BY <2>1, <2>2, <2>3
<1>4. 1 \in 1..(1 + Len(s)) /\ 1 <= 1
  BY <1>2, SMT
<1>5. \A i \in 1..Len(s) : i + 1 \in 1..(1 + Len(s)) /\ ~(i + 1 <= 1) /\ (i + 1) - 1 = i
  BY <1>2, SMT
<1>6. 1 + Len(s) = Len(s) + 1
  BY <1>2
<1>7. (one \o s)[1] = x
  BY <1>1, <1>3, <1>4 DEF one
<1>8. \A i \in 1..Len(s) : (one \o s)[i + 1] = s[i]
  BY <1>3, <1>5
<1> QED
  BY <1>3, <1>6, <1>7, <1>8 DEF one

\* A line with a blank before it.
LEMMA SpacedIs ==
  ASSUME NEW S, Tok("sp") \in S, NEW s \in Seq(S)
  PROVE  /\ Spaced(s) \in Seq(S) /\ Len(Spaced(s)) = Len(s) + 1 /\ Spaced(s)[1] = Tok("sp")
         /\ \A i \in 1..Len(s) : Spaced(s)[i + 1] = s[i]
BY Prepended DEF Spaced

\* It reads as the line: its tokens, and its first number as its value.
LEMMA SpacedReads ==
  ASSUME NEW S, Tok("sp") \in S, NEW s \in Seq(S), \A i \in 1..Len(s) : s[i].t # "sp"
  PROVE  /\ Solid(Spaced(s)) = s /\ Tight(Spaced(s))
         /\ \A k \in 1..Len(s) :
              s[k].t = "num" /\ (\A i \in 1..(k - 1) : s[i].t # "num") => ValueIn(Spaced(s)) = Value(s[k])
<1> DEFINE line == Spaced(s)
           n == Len(s)
<1>1. /\ line \in Seq(S) /\ Len(line) = n + 1 /\ line[1] = Tok("sp")
      /\ \A i \in 1..n : line[i + 1] = s[i]
  BY SpacedIs
<1>2. n \in Nat /\ \A i \in 2..(n + 1) : i - 1 \in 1..n /\ (i - 1) + 1 = i
  BY SMT
<1> HIDE DEF line
<1>3. \A i \in 2..(n + 1) : line[i] = s[i - 1]
  BY <1>1, <1>2
<1>4. Tok("sp").t = "sp"
  BY DEF Tok
<1>5. Tight(line)
  BY <1>1, <1>2, <1>3 DEF Tight
<1>6. Solid(line) = s
  <2> DEFINE f == [i \in 0..(n + 1) |-> SubSeq(s, 1, i - 1)]
  <2>1. f[0] = <<>> /\ f[1] = <<>>
    <3>1. 0 \in 0..(n + 1) /\ 1 \in 0..(n + 1) /\ 0 - 1 < 1 /\ 1 - 1 < 1 /\ 1 - 1 \in Int /\ 0 - 1 \in Int
      BY <1>2, SMT
    <3>2. f[0] = SubSeq(s, 1, 0 - 1) /\ f[1] = SubSeq(s, 1, 1 - 1)
      BY <3>1
    <3> HIDE DEF f
    <3>3. SubSeq(s, 1, 0 - 1) = <<>> /\ SubSeq(s, 1, 1 - 1) = <<>>
      BY <3>1, SubSeqEmpty
    <3> QED
      BY <3>2, <3>3
  <2>2. ASSUME NEW i \in 1..(n + 1)
        PROVE  f[i] = IF line[i].t = "sp" THEN f[i - 1] ELSE Append(f[i - 1], line[i])
    <3>1. CASE i = 1
      <4>1. i - 1 = 0
        BY <3>1
      <4> HIDE DEF f
      <4> QED
        BY <1>1, <1>4, <2>1, <3>1, <4>1
    <3>2. CASE i # 1
      <4>1. /\ i \in 2..(n + 1) /\ i \in 0..(n + 1) /\ i - 1 \in 0..(n + 1) /\ i - 1 \in 1..n /\ i - 1 \in 1..(i - 1)
            /\ 1 \in 1..n /\ (i - 1) - 1 \in Int
        BY <1>2, <3>2, SMT
      <4>2. line[i] = s[i - 1] /\ line[i].t # "sp"
        BY <1>3, <4>1
      <4>3. f[i] = SubSeq(s, 1, i - 1) /\ f[i - 1] = SubSeq(s, 1, (i - 1) - 1)
        BY <4>1
      <4> HIDE DEF f
      <4> DEFINE k == i - 1
      <4>4. k \in 1..n /\ k \in 1..k /\ k \in Nat /\ k \in 1..Len(s)
        BY <4>1
      <4>4a. i - 1 = k /\ 1 \in 1..Len(s) /\ k \in 1..Len(s)
        BY <4>1
      <4> HIDE DEF k
      <4>4b. k - 1 \in Int /\ 1 \in Int
        BY <4>4
      <4>5. SubSeq(s, 1, k) = SubSeq(s, 1, k - 1) \o <<s[k]>>
        BY <4>4, <4>4a, SubSeqRecursiveSecond
      <4>6. SubSeq(s, 1, k - 1) \in Seq(S)
        <5>1. \A j \in 1..(k - 1) : j \in 1..Len(s)
          BY <4>4, SMT
        <5>2. \A j \in 1..(k - 1) : s[j] \in S
          BY <5>1, ElementOfSeq
        <5> QED
          BY <4>4b, <5>2, SubSeqProperties
      <4>7. Append(SubSeq(s, 1, k - 1), s[k]) = SubSeq(s, 1, k - 1) \o <<s[k]>>
        BY <4>4, <4>6, ElementOfSeq, AppendIsConcat
      <4> QED
        BY <4>2, <4>3, <4>4a, <4>5, <4>7
    <3> QED
      BY <3>1, <3>2
  <2>3. f = [i \in 0..(n + 1) |-> f[i]]
    OBVIOUS
  <2>4. f[n + 1] = s
    <3>1. n + 1 \in 0..(n + 1) /\ (n + 1) - 1 = n
      BY <1>2, SMT
    <3>2. f[n + 1] = SubSeq(s, 1, n)
      BY <3>1
    <3> HIDE DEF f
    <3> QED
      BY <3>2, SubSeqFull
  <2> HIDE DEF f
  <2>5. Len(line) = n + 1 /\ Len(line) \in Nat
    BY <1>1, <1>2
  <2> HIDE DEF n
  <2> QED
    BY <2>1, <2>2, <2>3, <2>4, <2>5, SolidIs
<1>7. ASSUME NEW k \in 1..n, s[k].t = "num", \A i \in 1..(k - 1) : s[i].t # "num"
      PROVE  ValueIn(line) = Value(s[k])
  <2> DEFINE I == {i \in 1..Len(line) : line[i].t = "num"}
             first == SelectInSeq(line, LAMBDA x : x.t = "num")
  <2>1. first = IF I # {} THEN Min(I) ELSE 0
    BY DEF SelectInSeq
  <2>2. k + 1 \in I
    <3>1. k + 1 \in 1..(n + 1)
      BY <1>2, SMT
    <3> QED
      BY <1>1, <1>7, <3>1
  <2>3. I \subseteq Nat
    BY SMT
  <2>4. \A i \in I : k + 1 <= i
    <3> SUFFICES ASSUME NEW i \in I, ~(k + 1 <= i) PROVE FALSE
      OBVIOUS
    <3>1. i \in 1..(n + 1) /\ line[i].t = "num"
      BY <1>1
    <3>2. i # 1
      BY <1>1, <1>4, <3>1
    <3>3. i \in 2..(n + 1) /\ i - 1 \in 1..(k - 1)
      BY <1>2, <3>1, <3>2, SMT
    <3> QED
      BY <1>3, <1>7, <3>1, <3>3
  <2> HIDE DEF I, first
  <2>5. first = k + 1
    BY <2>1, <2>2, <2>3, <2>4, MinIs
  <2>6. k + 1 # 0
    BY <1>2, SMT
  <2>7. ValueIn(line) = IF first = 0 THEN 0 ELSE Value(line[first])
    BY DEF ValueIn, first
  <2> QED
    BY <1>1, <2>5, <2>6, <2>7
<1> QED
  BY <1>5, <1>6, <1>7 DEF line

-----------------------------------------------------------------------------
(* The operands of a mode, and how they are read.                          *)

\* The operands of a mode with the number n in them.
Form(mode, n) ==
  CASE mode \in {"abs", "zp", "rel"} -> <<Num(n)>>
    [] mode = "imm"  -> <<Tok("#"), Num(n)>>
    [] mode = "ind"  -> <<Tok("("), Num(n), Tok(")")>>
    [] mode \in {"absx", "zpx"} -> <<Num(n), Tok(","), Tok("X")>>
    [] mode \in {"absy", "zpy"} -> <<Num(n), Tok(","), Tok("Y")>>
    [] mode = "indx" -> <<Tok("("), Num(n), Tok(","), Tok("X"), Tok(")")>>
    [] mode = "indy" -> <<Tok("("), Num(n), Tok(")"), Tok(","), Tok("Y")>>
    [] mode = "acc"  -> <<Tok("A")>>
    [] OTHER         -> <<>>

\* The shape of the operands of a mode.
FormShape(mode) ==
  CASE mode \in {"abs", "zp", "rel"} -> <<"num">>
    [] mode = "imm"  -> <<"#", "num">>
    [] mode = "ind"  -> <<"(", "num", ")">>
    [] mode \in {"absx", "zpx"} -> <<"num", ",", "X">>
    [] mode \in {"absy", "zpy"} -> <<"num", ",", "Y">>
    [] mode = "indx" -> <<"(", "num", ",", "X", ")">>
    [] mode = "indy" -> <<"(", "num", ")", ",", "Y">>
    [] mode = "acc"  -> <<"A">>
    [] OTHER         -> <<>>

\* After a blank, s reads as a shape with the number n in it.
ReadsAs(s, shape, n) ==
  Shape(Spaced(s)) = shape /\ Tight(Spaced(s)) /\ (shape # <<"A">> => ValueIn(Spaced(s)) = n % 65536)

Pieces(n) ==
  {Tok("sp"), Tok("#"), Tok(","), Tok("("), Tok(")"), Tok("X"), Tok("Y"), Tok("A"), Num(n)}

\* Tokens without blanks read as their shape and their number.
LEMMA FormReads ==
  ASSUME NEW n, NEW s \in Seq(Pieces(n)), NEW shape, shape = [i \in DOMAIN s |-> s[i].t],
         \A i \in 1..Len(s) : shape[i] # "sp", NEW k,
         shape # <<"A">> => k \in 1..Len(s) /\ s[k] = Num(n) /\ \A i \in 1..(k - 1) : shape[i] # "num"
  PROVE  ReadsAs(s, shape, n)
<1> DEFINE S == Pieces(n)
<1>1. Tok("sp") \in S
  BY DEF Pieces
<1> HIDE DEF S
<1>2. DOMAIN s = 1..Len(s)
  BY LenProperties DEF S
<1>3. \A i \in 1..Len(s) : s[i].t = shape[i] /\ s[i].t # "sp"
  BY <1>2
<1>4. /\ Solid(Spaced(s)) = s /\ Tight(Spaced(s))
      /\ \A m \in 1..Len(s) :
           s[m].t = "num" /\ (\A i \in 1..(m - 1) : s[i].t # "num") => ValueIn(Spaced(s)) = Value(s[m])
  <2>1. s \in Seq(S)
    BY DEF S
  <2> QED
    BY <1>1, <1>3, <2>1, SpacedReads
<1>5. Shape(Spaced(s)) = shape
  BY <1>4 DEF Shape
<1>6. ASSUME shape # <<"A">> PROVE ValueIn(Spaced(s)) = n % 65536
  <2>1. k \in 1..Len(s) /\ s[k] = Num(n) /\ \A i \in 1..(k - 1) : shape[i] # "num"
    BY <1>6
  <2>2. \A i \in 1..(k - 1) : i \in 1..Len(s)
    BY <2>1, SMT
  <2>3. s[k].t = "num" /\ Value(s[k]) = n % 65536
    BY <2>1 DEF Num, Value
  <2>4. \A i \in 1..(k - 1) : s[i].t # "num"
    BY <1>3, <2>1, <2>2
  <2> QED
    BY <1>4, <2>1, <2>3, <2>4
<1> QED
  BY <1>4, <1>5, <1>6 DEF ReadsAs

\* So do the operands of every mode.
LEMMA FormIs ==
  ASSUME NEW mode \in OperandModes \cup {"rel"}, NEW n
  PROVE  ReadsAs(Form(mode, n), FormShape(mode), n) /\ Form(mode, n) \in Seq(Pieces(n))
<1> DEFINE s == Form(mode, n)
           shape == FormShape(mode)
           Good(k) ==
             /\ s \in Seq(Pieces(n)) /\ shape = [i \in DOMAIN s |-> s[i].t]
             /\ \A i \in 1..Len(s) : shape[i] # "sp"
             /\ shape # <<"A">> => k \in 1..Len(s) /\ s[k] = Num(n) /\ \A i \in 1..(k - 1) : shape[i] # "num"
           S == Pieces(n)
           comma == ","
<1>0. comma # "sp" /\ comma # "num" /\ comma # "A"
  OBVIOUS
<1>a. Num(n) \in S /\ \A t \in {"#", comma, "(", ")", "X", "Y", "A"} : Tok(t) \in S
  BY Zenon DEF Pieces
<1>b. Num(n).t = "num" /\ \A t : Tok(t).t = t
  BY DEF Num, Tok
<1> HIDE DEF comma, S
<1>1. CASE mode \in {"abs", "zp", "rel"}
  <2>1. s = <<Num(n)>> /\ shape = <<"num">>
    BY <1>1 DEF Form, FormShape, comma
  <2> HIDE DEF s, shape
  <2>2. Good(1)
    <3>1. s \in Seq(S)
      BY <1>a, <2>1
    <3>2. shape = [i \in DOMAIN s |-> s[i].t]
      BY <1>b, <2>1
    <3>3. \A i \in 1..Len(s) : shape[i] # "sp"
      BY <1>0, <2>1
    <3>4. 1 \in 1..Len(s) /\ (shape # <<"A">> => s[1] = Num(n)) /\ \A i \in 1..(1 - 1) : shape[i] # "num"
      BY <1>0, <2>1
    <3> QED
      BY <3>1, <3>2, <3>3, <3>4 DEF S
  <2> QED
    BY <2>2, FormReads DEF s, shape
<1>2. CASE mode = "imm"
  <2>1. s = <<Tok("#"), Num(n)>> /\ shape = <<"#", "num">>
    BY <1>2 DEF Form, FormShape, comma
  <2> HIDE DEF s, shape
  <2>2. Good(2)
    <3>1. s \in Seq(S)
      BY <1>a, <2>1
    <3>2. shape = [i \in DOMAIN s |-> s[i].t]
      BY <1>b, <2>1
    <3>3. \A i \in 1..Len(s) : shape[i] # "sp"
      BY <1>0, <2>1
    <3>4. 2 \in 1..Len(s) /\ (shape # <<"A">> => s[2] = Num(n)) /\ \A i \in 1..(2 - 1) : shape[i] # "num"
      BY <1>0, <2>1
    <3> QED
      BY <3>1, <3>2, <3>3, <3>4 DEF S
  <2> QED
    BY <2>2, FormReads DEF s, shape
<1>3. CASE mode = "ind"
  <2>1. s = <<Tok("("), Num(n), Tok(")")>> /\ shape = <<"(", "num", ")">>
    BY <1>3 DEF Form, FormShape, comma
  <2> HIDE DEF s, shape
  <2>2. Good(2)
    <3>1. s \in Seq(S)
      BY <1>a, <2>1
    <3>2. shape = [i \in DOMAIN s |-> s[i].t]
      BY <1>b, <2>1
    <3>3. \A i \in 1..Len(s) : shape[i] # "sp"
      BY <1>0, <2>1
    <3>4. 2 \in 1..Len(s) /\ (shape # <<"A">> => s[2] = Num(n)) /\ \A i \in 1..(2 - 1) : shape[i] # "num"
      BY <1>0, <2>1
    <3> QED
      BY <3>1, <3>2, <3>3, <3>4 DEF S
  <2> QED
    BY <2>2, FormReads DEF s, shape
<1>4. CASE mode \in {"absx", "zpx"}
  <2>1. s = <<Num(n), Tok(comma), Tok("X")>> /\ shape = <<"num", comma, "X">>
    BY <1>4 DEF Form, FormShape, comma
  <2> HIDE DEF s, shape
  <2>2. Good(1)
    <3>1. s \in Seq(S)
      BY <1>a, <2>1
    <3>2. shape = [i \in DOMAIN s |-> s[i].t]
      BY <1>b, <2>1
    <3>3. \A i \in 1..Len(s) : shape[i] # "sp"
      BY <1>0, <2>1
    <3>4. 1 \in 1..Len(s) /\ (shape # <<"A">> => s[1] = Num(n)) /\ \A i \in 1..(1 - 1) : shape[i] # "num"
      BY <1>0, <2>1
    <3> QED
      BY <3>1, <3>2, <3>3, <3>4 DEF S
  <2> QED
    BY <2>2, FormReads DEF s, shape
<1>5. CASE mode \in {"absy", "zpy"}
  <2>1. s = <<Num(n), Tok(comma), Tok("Y")>> /\ shape = <<"num", comma, "Y">>
    BY <1>5 DEF Form, FormShape, comma
  <2> HIDE DEF s, shape
  <2>2. Good(1)
    <3>1. s \in Seq(S)
      BY <1>a, <2>1
    <3>2. shape = [i \in DOMAIN s |-> s[i].t]
      BY <1>b, <2>1
    <3>3. \A i \in 1..Len(s) : shape[i] # "sp"
      BY <1>0, <2>1
    <3>4. 1 \in 1..Len(s) /\ (shape # <<"A">> => s[1] = Num(n)) /\ \A i \in 1..(1 - 1) : shape[i] # "num"
      BY <1>0, <2>1
    <3> QED
      BY <3>1, <3>2, <3>3, <3>4 DEF S
  <2> QED
    BY <2>2, FormReads DEF s, shape
<1>6. CASE mode = "indx"
  <2>1. s = <<Tok("("), Num(n), Tok(comma), Tok("X"), Tok(")")>> /\ shape = <<"(", "num", comma, "X", ")">>
    BY <1>6 DEF Form, FormShape, comma
  <2> HIDE DEF s, shape
  <2>2. Good(2)
    <3>1. s \in Seq(S)
      BY <1>a, <2>1
    <3>2. shape = [i \in DOMAIN s |-> s[i].t]
      BY <1>b, <2>1
    <3>3. \A i \in 1..Len(s) : shape[i] # "sp"
      BY <1>0, <2>1
    <3>4. 2 \in 1..Len(s) /\ (shape # <<"A">> => s[2] = Num(n)) /\ \A i \in 1..(2 - 1) : shape[i] # "num"
      BY <1>0, <2>1
    <3> QED
      BY <3>1, <3>2, <3>3, <3>4 DEF S
  <2> QED
    BY <2>2, FormReads DEF s, shape
<1>7. CASE mode = "indy"
  <2>1. s = <<Tok("("), Num(n), Tok(")"), Tok(comma), Tok("Y")>> /\ shape = <<"(", "num", ")", comma, "Y">>
    BY <1>7 DEF Form, FormShape, comma
  <2> HIDE DEF s, shape
  <2>2. Good(2)
    <3>1. s \in Seq(S)
      BY <1>a, <2>1
    <3>2. shape = [i \in DOMAIN s |-> s[i].t]
      BY <1>b, <2>1
    <3>3. \A i \in 1..Len(s) : shape[i] # "sp"
      BY <1>0, <2>1
    <3>4. 2 \in 1..Len(s) /\ (shape # <<"A">> => s[2] = Num(n)) /\ \A i \in 1..(2 - 1) : shape[i] # "num"
      BY <1>0, <2>1
    <3> QED
      BY <3>1, <3>2, <3>3, <3>4 DEF S
  <2> QED
    BY <2>2, FormReads DEF s, shape
<1>8. CASE mode = "acc"
  <2>1. s = <<Tok("A")>> /\ shape = <<"A">>
    BY <1>8 DEF Form, FormShape, comma
  <2> HIDE DEF s, shape
  <2>2. Good(1)
    <3>1. s \in Seq(S)
      BY <1>a, <2>1
    <3>2. shape = [i \in DOMAIN s |-> s[i].t]
      BY <1>b, <2>1
    <3>3. \A i \in 1..Len(s) : shape[i] # "sp"
      BY <1>0, <2>1
    <3>4. 1 \in 1..Len(s) /\ (shape # <<"A">> => s[1] = Num(n)) /\ \A i \in 1..(1 - 1) : shape[i] # "num"
      BY <1>0, <2>1
    <3> QED
      BY <3>1, <3>2, <3>3, <3>4 DEF S
  <2> QED
    BY <2>2, FormReads DEF s, shape
<1> QED
  BY <1>1, <1>2, <1>3, <1>4, <1>5, <1>6, <1>7, <1>8 DEF OperandModes

-----------------------------------------------------------------------------
(* What is listed.                                                         *)

\* The first of a line and the rest of it.
LEMMA HeadFirst ==
  ASSUME NEW S, NEW x \in S, NEW s \in Seq(S)
  PROVE  <<x>> \o s # <<>> /\ Head(<<x>> \o s) = x /\ Tail(<<x>> \o s) = s
<1> DEFINE all == <<x>> \o s
<1>1. Len(s) \in Nat
  OBVIOUS
<1>2. all \in Seq(S) /\ Len(all) = Len(s) + 1 /\ all[1] = x /\ \A i \in 1..Len(s) : all[i + 1] = s[i]
  BY Prepended
<1> HIDE DEF all
<1>3. all # <<>>
  <2>1. all = <<>> => Len(all) = 0
    OBVIOUS
  <2> QED
    BY <1>1, <1>2, <2>1
<1>4. Head(all) = x
  BY <1>2, <1>3
<1>5. Tail(all) \in Seq(S) /\ Len(Tail(all)) = Len(all) - 1 /\ \A i \in 1..Len(Tail(all)) : Tail(all)[i] = all[i + 1]
  BY <1>2, <1>3, HeadTailProperties
<1>6. Len(Tail(all)) = Len(s)
  BY <1>1, <1>2, <1>5
<1>7. Tail(all) = s
  BY <1>2, <1>5, <1>6, SeqEqual
<1> QED
  BY <1>3, <1>4, <1>7 DEF all

\* The number that is listed for three bytes.
NumberIn(place, mode, op) ==
  IF mode \in WordModes THEN WordIn(op) ELSE IF mode = "rel" THEN Target(place, op[2]) ELSE op[2]

\* What is listed after the name are the operands of the mode.
LEMMA OperandsInForm ==
  ASSUME NEW place, NEW mode \in OperandModes \cup {"rel"}, NEW op
  PROVE  Operands(place, mode, op) = Form(mode, NumberIn(place, mode, op))
<1>1. CASE mode \in WordModes
  BY <1>1 DEF Operands, Form, NumberIn, WordIn, WordModes
<1>2. CASE mode \in {"imm", "zp", "zpx", "zpy", "indx", "indy", "acc"}
  BY <1>2 DEF Operands, Form, NumberIn, WordModes
<1>3. CASE mode = "rel"
  BY <1>3 DEF Operands, Form, NumberIn, WordModes
<1> QED
  BY <1>1, <1>2, <1>3 DEF WordModes, OperandModes

\* What follows the name in a listing.
Follow(place, row, op) ==
  IF row.mode = "implied" THEN <<>> ELSE Spaced(Form(row.mode, NumberIn(place, row.mode, op)))

\* The names are no blanks, dots or numbers.
LEMMA NamesAre ==
  ASSUME NEW r \in vm_op_tbl
  PROVE  r.mne \notin {"sp", ".", "num", "???"}
<1> DEFINE Odd == {"sp", ".", "num", "???"}
<1>1. \A n \in DOMAIN ImpliedRows : n \notin Odd
  BY DEF ImpliedRows
<1>2. \A n \in DOMAIN RelativeRows : n \notin Odd
  BY DEF RelativeRows
<1>3. \A n \in DOMAIN OperandRows : n \notin Odd
  BY DEF OperandRows
<1> HIDE DEF Odd
<1>4. r.mne \in DOMAIN ImpliedRows \cup DOMAIN RelativeRows \cup DOMAIN OperandRows
  BY DEF vm_op_tbl, Plain, Rows
<1> QED
  BY <1>1, <1>2, <1>3, <1>4 DEF Odd

\* The line that is listed for a row of the table.
LEMMA RowIsListed ==
  ASSUME NEW place, NEW op, NEW r \in vm_op_tbl, op[1] = r.code
  PROVE  /\ dasm_das(place, op).len = Width(r.mode)
         /\ dasm_das(place, op).line # <<>>
         /\ Head(dasm_das(place, op).line) = Tok(r.mne)
         /\ Tail(dasm_das(place, op).line) = Follow(place, r, op)
         /\ r.mode # "implied" => dasm_das(place, op).line = <<Tok(r.mne)>> \o Follow(place, r, op)
<1> DEFINE gap == IF r.mode = "implied" THEN <<>> ELSE <<Tok("sp")>>
           line == <<Tok(r.mne)>> \o gap \o Operands(place, r.mode, op)
<1>1. r \in Coded(op[1])
  BY DEF Coded
<1>2. Coded(op[1]) # {} /\ First(Coded(op[1])) = r
  BY <1>1, CodedIs
<1>3. dasm_das(place, op) = [line |-> line, len |-> ListWidth(r.mode)]
  BY <1>2 DEF dasm_das
<1>4. ListWidth(r.mode) = Width(r.mode)
  BY LengthOfRow
<1> HIDE DEF line, gap
<1>5. CASE r.mode = "implied"
  <2>1. gap = <<>> /\ Operands(place, r.mode, op) = <<>> /\ Follow(place, r, op) = <<>>
    BY <1>5 DEF gap, Operands, Follow
  <2>2. <<Tok(r.mne)>> \in Seq({Tok(r.mne)})
    OBVIOUS
  <2>3. line = <<Tok(r.mne)>>
    BY <2>1, <2>2, ConcatEmptySeq DEF line
  <2>4. line # <<>> /\ Head(line) = Tok(r.mne) /\ Tail(line) = <<>>
    BY <2>3
  <2> QED
    BY <1>3, <1>4, <1>5, <2>1, <2>4
<1>6. CASE r.mode # "implied"
  <2> DEFINE n == NumberIn(place, r.mode, op)
             form == Form(r.mode, n)
             S == Pieces(n) \cup {Tok(r.mne)}
  <2>1. r.mode \in OperandModes \cup {"rel"}
    BY <1>6, RowMeant DEF Rowed
  <2>2. Operands(place, r.mode, op) = form
    BY <2>1, OperandsInForm
  <2>3. form \in Seq(Pieces(n))
    BY <2>1, FormIs
  <2>4. Tok(r.mne) \in S /\ Tok("sp") \in S /\ Pieces(n) \subseteq S
    BY DEF Pieces
  <2>5. Follow(place, r, op) = Spaced(form) /\ gap = <<Tok("sp")>>
    BY <1>6 DEF Follow, gap
  <2> HIDE DEF S, form, n
  <2>6. form \in Seq(S)
    BY <2>3, <2>4, SeqMonotonic
  <2>7. <<Tok(r.mne)>> \in Seq(S) /\ <<Tok("sp")>> \in Seq(S)
    BY <2>4
  <2>8. line = <<Tok(r.mne)>> \o Spaced(form)
    BY <2>2, <2>5, <2>6, <2>7, ConcatAssociative DEF line, Spaced
  <2>9. Spaced(form) \in Seq(S)
    BY <2>4, <2>6, SpacedIs
  <2>10. line # <<>> /\ Head(line) = Tok(r.mne) /\ Tail(line) = Spaced(form)
    BY <2>4, <2>8, <2>9, HeadFirst
  <2> QED
    BY <1>3, <1>4, <2>5, <2>8, <2>10
<1> QED
  BY <1>5, <1>6

\* An opcode with no row is listed as ??? and takes one byte.
LEMMA Unlisted ==
  ASSUME NEW place, NEW op, Coded(op[1]) = {}, op[1] # after.code
  PROVE  dasm_das(place, op) = [line |-> <<Tok("???")>>, len |-> 1]
BY DEF dasm_das

-----------------------------------------------------------------------------
(* What was assembled.                                                     *)

\* The bytes that emit_op gives.
Emits(e, row, v, mode) ==
  /\ Len(e) = Width(mode) /\ e # <<>> /\ e[1] = row.code
  /\ e \in Seq({row.code, v % 256, v \div 256})
  /\ Width(mode) = 1 => Tail(e) = <<>>
  /\ Width(mode) = 2 => e[2] = v % 256 /\ Tail(e) = <<v % 256>>
  /\ Width(mode) = 3 => e[2] = v % 256 /\ e[3] = v \div 256 /\ Tail(e) = <<v % 256, v \div 256>>

LEMMA EmittedIs ==
  ASSUME NEW row, NEW v \in Nat, NEW mode, NEW e, e = emit_op(row, v, Width(mode))
  PROVE  Emits(e, row, v, mode)
<1> DEFINE lo == v % 256
           hi == v \div 256
           S == {row.code, lo, hi}
           all == <<row.code, lo, hi>>
           n == Width(mode)
<1>1. n \in {1, 2, 3}
  BY DEF Width
<1>2. all[1] = row.code /\ all[2] = lo /\ all[3] = hi
  OBVIOUS
<1>3. \A i \in 1..n : all[i] \in S
  <2> HIDE DEF all, n
  <2> QED
    BY <1>1, <1>2, SMT
<1>4. e = SubSeq(all, 1, n)
  BY DEF emit_op
<1> HIDE DEF all, n, lo, hi
<1>5. /\ SubSeq(all, 1, n) \in Seq(S)
      /\ Len(SubSeq(all, 1, n)) = IF 1 <= n THEN n - 1 + 1 ELSE 0
      /\ \A i \in 1..(n - 1 + 1) : SubSeq(all, 1, n)[i] = all[1 + i - 1]
  BY <1>1, <1>3, SubSeqProperties
<1> HIDE DEF S
<1>6. e \in Seq(S) /\ Len(e) = n /\ \A i \in 1..n : e[i] = all[i]
  BY <1>1, <1>4, <1>5
<1>7. e # <<>>
  <2>1. e = <<>> => Len(e) = 0
    OBVIOUS
  <2> QED
    BY <1>1, <1>6, <2>1
<1>8. e[1] = row.code /\ (n >= 2 => e[2] = lo) /\ (n = 3 => e[3] = hi)
  BY <1>1, <1>2, <1>6
<1>9. Tail(e) \in Seq(S) /\ Len(Tail(e)) = n - 1 /\ \A i \in 1..(n - 1) : Tail(e)[i] = e[i + 1]
  BY <1>6, <1>7, HeadTailProperties
<1>10. n = 1 => Tail(e) = <<>>
  <2> SUFFICES ASSUME n = 1 PROVE Tail(e) = <<>>
    OBVIOUS
  <2>1. Len(Tail(e)) = 0
    BY <1>9
  <2> QED
    BY <1>9, <2>1, EmptySeq
<1>11. n = 2 => Tail(e) = <<lo>>
  <2> DEFINE t == <<lo>>
  <2> SUFFICES ASSUME n = 2 PROVE Tail(e) = t
    OBVIOUS
  <2>1. t \in Seq(S) /\ Len(t) = 1 /\ t[1] = lo
    BY DEF S
  <2> HIDE DEF t
  <2>2. Len(Tail(e)) = 1 /\ Tail(e)[1] = lo
    <3>1. n - 1 = 1 /\ 1 + 1 = 2 /\ 1 \in 1..1 /\ n >= 2
      OBVIOUS
    <3> QED
      BY <1>8, <1>9, <3>1
  <2>3. \A i \in 1..Len(Tail(e)) : Tail(e)[i] = t[i]
    BY <2>1, <2>2
  <2> QED
    BY <1>9, <2>1, <2>2, <2>3, SeqEqual
<1>12. n = 3 => Tail(e) = <<lo, hi>>
  <2> DEFINE t == <<lo, hi>>
  <2> SUFFICES ASSUME n = 3 PROVE Tail(e) = t
    OBVIOUS
  <2>1. t \in Seq(S) /\ Len(t) = 2 /\ t[1] = lo /\ t[2] = hi
    BY DEF S
  <2> HIDE DEF t
  <2>2. Len(Tail(e)) = 2 /\ Tail(e)[1] = lo /\ Tail(e)[2] = hi
    <3>1. n - 1 = 2 /\ 1 + 1 = 2 /\ 2 + 1 = 3 /\ 1 \in 1..2 /\ 2 \in 1..2 /\ n >= 2
      OBVIOUS
    <3> QED
      BY <1>8, <1>9, <3>1
  <2>3. \A i \in 1..Len(Tail(e)) : Tail(e)[i] = t[i]
    BY <2>1, <2>2
  <2> QED
    BY <1>9, <2>1, <2>2, <2>3, SeqEqual
<1> QED
  BY <1>4, <1>6, <1>7, <1>8, <1>10, <1>11, <1>12 DEF Emits, S, n, lo, hi

\* What an accepted instruction is made of.
LEMMA Accepted ==
  ASSUME NEW place, NEW line, Instruction(place, line) # Rejected
  PROVE  LET n    == Head(line).t
             v    == ValueIn(Tail(line))
             mode == ModeOf(n, Shape(Tail(line)), v)
         IN  /\ mode # "none" /\ Has(n, mode)
             /\ mode \in {"imm", "indx", "indy"} => v <= 255
             /\ Instruction(place, line)
                  = emit_op(find_mne(n, mode), IF mode = "rel" THEN Offset(place, v) ELSE v, Width(mode))
BY DEF Instruction

\* A number of 16 bits.
IsWord(x) == x \in Nat /\ x < 65536

\* A line has a value of 16 bits.
LEMMA ValueIs ==
  ASSUME NEW line \in Seq(Tokens)
  PROVE  IsWord(ValueIn(line))
<1> DEFINE I == {i \in 1..Len(line) : line[i].t = "num"}
           first == SelectInSeq(line, LAMBDA x : x.t = "num")
<1>1. first = IF I # {} THEN Min(I) ELSE 0
  BY DEF SelectInSeq
<1>2. ValueIn(line) = IF first = 0 THEN 0 ELSE Value(line[first])
  BY DEF ValueIn
<1>3. I \subseteq 1..Len(line) /\ Len(line) \in Nat /\ \A i \in I : line[i].t = "num"
  OBVIOUS
<1> HIDE DEF I, first
<1>4. CASE I # {}
  <2>1. first \in I
    BY <1>1, <1>3, <1>4, LeastIsIn
  <2>2. line[first] \in Tokens /\ line[first].t = "num"
    BY <1>3, <2>1, ElementOfSeq
  <2> DEFINE k == line[first]
  <2> HIDE DEF k
  <2>3. k \in Tokens /\ k.t = "num"
    BY <2>2 DEF k
  <2>4. k.v \in Seq(Nat) /\ k.v # <<>>
    BY <2>3 DEF Tokens
  <2>5. k.v[1] \in Nat
    BY <2>4
  <2>6. Value(k) \in Int /\ 0 <= Value(k) /\ Value(k) <= 65535
    BY <2>5, SMT DEF Value
  <2>7. first # 0
    BY <1>3, <2>1
  <2>8. ValueIn(line) = Value(k)
    BY <1>2, <2>7 DEF k
  <2> QED
    BY <2>6, <2>8 DEF IsWord
<1>5. CASE I = {}
  <2>1. ValueIn(line) = 0
    BY <1>1, <1>2, <1>5
  <2> QED
    BY <2>1 DEF IsWord
<1> QED
  BY <1>4, <1>5, Zenon

-----------------------------------------------------------------------------
(* The invariant: what was assembled and listed is what the assembler and  *)
(* the disassembler make of the line and of the bytes.                     *)

Bytes == 0..255

\* The three bytes that are listed.
LEMMA ThreeBytes ==
  ASSUME NEW s \in Seq(Bytes), s # <<>>
  PROVE  LET op == SubSeq(s \o <<0, 0>>, 1, 3)
         IN  /\ Len(op) = 3 /\ op[1] \in Bytes /\ op[2] \in Bytes /\ op[3] \in Bytes
             /\ op[1] = s[1] /\ (Len(s) >= 2 => op[2] = s[2])
<1> DEFINE zeros == <<0, 0>>
           all == s \o zeros
           n == Len(s)
<1>1. n \in Nat /\ n >= 1
  <2>1. Len(s) \in Nat \ {0}
    BY EmptySeq
  <2> QED
    BY <2>1
<1>2. zeros \in Seq(Bytes) /\ Len(zeros) = 2
  BY DEF Bytes
<1> HIDE DEF zeros
<1>3. /\ all \in Seq(Bytes) /\ Len(all) = n + 2
      /\ \A i \in 1..(n + 2) : all[i] = IF i <= n THEN s[i] ELSE zeros[i - n]
  <2>1. /\ all \in Seq(Bytes) /\ Len(all) = n + Len(zeros)
        /\ \A i \in 1..(n + Len(zeros)) : all[i] = IF i <= n THEN s[i] ELSE zeros[i - n]
    BY <1>2, ConcatProperties
  <2> HIDE DEF all, n
  <2> QED
    BY <1>2, <2>1
<1> HIDE DEF all, n
<1>4. \A i \in 1..3 : all[i] \in Bytes
  <2> SUFFICES ASSUME NEW i \in 1..3 PROVE all[i] \in Bytes
    OBVIOUS
  <2>1. i \in 1..Len(all)
    BY <1>1, <1>3, SMT
  <2> QED
    BY <1>3, <2>1, ElementOfSeq
<1>5. /\ Len(SubSeq(all, 1, 3)) = 3
      /\ \A i \in 1..3 : SubSeq(all, 1, 3)[i] = all[i]
  BY <1>4, SubSeqProperties
<1>6. all[1] = s[1] /\ (n >= 2 => all[2] = s[2])
  <2>1. 1 \in 1..(n + 2) /\ 2 \in 1..(n + 2) /\ 1 <= n /\ (n >= 2 => 2 <= n)
    BY <1>1, SMT
  <2> QED
    BY <1>3, <2>1
<1>7. 1 \in 1..3 /\ 2 \in 1..3 /\ 3 \in 1..3
  OBVIOUS
<1> QED
  BY <1>4, <1>5, <1>6, <1>7 DEF all, n, zeros

\* What is at a place of the specification, and what the steps made of it.
DasmInv ==
  /\ after \in [mne : STRING, code : 0..255, mode : STRING] /\ IsWord(org)
  /\ typed \in TypedLines \cup {<<>>}
  /\ \/ image = Rejected
     \/ image \in BytesThere /\ typed = <<>>
     \/ image = dasm_as(org, typed) /\ typed # <<>>
  /\ listed = None \/ (image # Rejected /\ listed = dasm_das(org, There))
  /\ again = Rejected \/ (listed # None /\ again = dasm_as(org, listed.line))

\* The search depends on the bytes after the table alone, and these stay.
LEMMA SameSearch ==
  ASSUME after' = after
  PROVE  \A n, mode : HasMne(n)' = HasMne(n) /\ Has(n, mode)' = Has(n, mode) /\ find_mne(n, mode)' = find_mne(n, mode)
BY DEF HasMne, Has, find_mne

\* So does the mode of a line,
LEMMA SameMode ==
  ASSUME after' = after
  PROVE  \A n, shape, v : ModeOf(n, shape, v)' = ModeOf(n, shape, v)
<1>1. \A n, v, short, long : Direct(n, v, short, long)' = Direct(n, v, short, long)
  BY SameSearch DEF Direct
<1> QED
  BY <1>1, SameSearch DEF ModeOf

\* the instruction,
LEMMA SameInstruction ==
  ASSUME after' = after
  PROVE  \A place, line : Instruction(place, line)' = Instruction(place, line)
BY SameSearch, SameMode DEF Instruction

\* and what is assembled
LEMMA SameAs ==
  ASSUME after' = after
  PROVE  \A place, line : dasm_as(place, line)' = dasm_as(place, line)
BY SameInstruction DEF dasm_as

\* and listed.
LEMMA SameDas ==
  ASSUME after' = after
  PROVE  \A place, op : dasm_das(place, op)' = dasm_das(place, op)
BY DEF dasm_das
\* It holds at first, and every step keeps it.
LEMMA DasmInitInv == DasmInit => DasmInv
<1> SUFFICES ASSUME DasmInit PROVE DasmInv
  OBVIOUS
<1>1. after \in [mne : STRING, code : 0..255, mode : STRING]
  BY AfterAssumption DEF DasmInit, AfterAssumption
<1>2. IsWord(org)
  BY PlacesAssumption DEF PlacesAssumption, DasmInit, IsWord
<1> QED
  BY <1>1, <1>2 DEF DasmInit, DasmInv

LEMMA DasmStepInv == DasmInv /\ [DasmNext]_dasmVars => DasmInv'
<1> SUFFICES ASSUME DasmInv, [DasmNext]_dasmVars PROVE DasmInv'
  OBVIOUS
<1>1. after' = after /\ org' = org /\ typed' = typed
  BY DEF DasmNext, As, List, AsAgain, dasmVars
<1>2. /\ dasm_as(org, typed)' = dasm_as(org, typed)
      /\ image' = image => dasm_das(org, There)' = dasm_das(org, There)
      /\ listed' = listed => dasm_as(org, listed.line)' = dasm_as(org, listed.line)
  BY <1>1, SameAs, SameDas DEF There
<1>3. IsWord(org)'
  BY <1>1 DEF DasmInv, IsWord
<1>4. (after \in [mne : STRING, code : 0..255, mode : STRING] /\ typed \in TypedLines \cup {<<>>})'
  BY <1>1 DEF DasmInv
<1>5. CASE As
  BY <1>1, <1>2, <1>3, <1>4, <1>5 DEF As, DasmInv
<1>6. CASE List
  BY <1>1, <1>2, <1>3, <1>4, <1>6 DEF List, DasmInv
<1>7. CASE AsAgain
  BY <1>1, <1>2, <1>3, <1>4, <1>7 DEF AsAgain, DasmInv
<1>8. CASE UNCHANGED dasmVars
  BY <1>1, <1>2, <1>3, <1>4, <1>8 DEF dasmVars, DasmInv
<1> QED
  BY <1>5, <1>6, <1>7, <1>8 DEF DasmNext

\* It always holds.
LEMMA DasmAlways == DasmSpec => []DasmInv
BY DasmInitInv, DasmStepInv, PTL DEF DasmSpec

\* Without the blank before it a line is still a line.
LEMMA UnblankedIsTyped ==
  ASSUME NEW line \in Seq(Tokens)
  PROVE  Unblanked(line) \in Seq(Tokens)
<1>1. CASE line # <<>> /\ Head(line).t = "sp"
  BY <1>1, HeadTailProperties DEF Unblanked
<1>2. CASE ~(line # <<>> /\ Head(line).t = "sp")
  BY <1>2 DEF Unblanked
<1> QED
  BY <1>1, <1>2

\* Arguments of a line that was typed.
LEMMA ArgsAreTyped ==
  ASSUME DasmInv, Unblanked(typed) # <<>>
  PROVE  Args \in Seq(Tokens) /\ IsWord(ValueIn(Args)) /\ typed \in TypedLines
<1>1. typed # <<>>
  BY DEF Unblanked
<1>2. typed \in Seq(Tokens) /\ typed \in TypedLines
  BY <1>1, TypingAssumption DEF TypingAssumption, DasmInv
<1>3. Args \in Seq(Tokens)
  BY <1>2, UnblankedIsTyped, HeadTailProperties DEF Args
<1> QED
  BY <1>2, <1>3, ValueIs

\* The bytes of a word, of an offset and of a row.
LEMMA WordBytes ==
  ASSUME NEW v, IsWord(v)
  PROVE  v % 256 \in Bytes /\ v \div 256 \in Bytes
BY DEF IsWord, Bytes

LEMMA OffsetIsByte == ASSUME NEW place, IsWord(place), NEW v, IsWord(v) PROVE IsWord(Offset(place, v))
BY DEF IsWord, Offset

LEMMA RowCodeIsByte == \A r \in vm_op_tbl : r.code \in Bytes
BY DecodeOfRow, DecodeIs DEF Bytes

\* An instruction is assembled into bytes.
LEMMA AssembledAreBytes ==
  ASSUME after.code \in Bytes, NEW place, IsWord(place), NEW line \in Seq(Tokens), line # <<>>,
         Instruction(place, line) # Rejected
  PROVE  Instruction(place, line) \in Seq(Bytes)
<1> DEFINE n    == Head(line).t
           args == Tail(line)
           v    == ValueIn(args)
           mode == ModeOf(n, Shape(args), v)
           w    == IF mode = "rel" THEN Offset(place, v) ELSE v
           row  == find_mne(n, mode)
<1>1. Has(n, mode) /\ Instruction(place, line) = emit_op(row, w, Width(mode))
  BY Accepted
<1>2. IsWord(v)
  <2>1. args \in Seq(Tokens)
    BY HeadTailProperties
  <2> QED
    BY <2>1, ValueIs
<1> HIDE DEF mode, v, n, args
<1>3. IsWord(w)
  BY <1>2, OffsetIsByte
<1>4. row.code \in Bytes
  <2>1. row \in vm_op_tbl \/ row = after
    BY <1>1, FindsRow
  <2> HIDE DEF row
  <2> QED
    BY <2>1, RowCodeIsByte
<1> HIDE DEF w, row
<1>5. w % 256 \in Bytes /\ w \div 256 \in Bytes
  BY <1>3, WordBytes
<1>6. emit_op(row, w, Width(mode)) \in Seq({row.code, w % 256, w \div 256})
  <2> DEFINE e == emit_op(row, w, Width(mode))
  <2> SUFFICES e \in Seq({row.code, w % 256, w \div 256})
    OBVIOUS
  <2>1. w \in Nat
    BY <1>3 DEF IsWord
  <2>2. e = emit_op(row, w, Width(mode))
    OBVIOUS
  <2> HIDE DEF e
  <2> QED
    BY <2>1, <2>2, EmittedIs DEF Emits
<1>7. {row.code, w % 256, w \div 256} \subseteq Bytes
  BY <1>4, <1>5
<1> QED
  BY <1>1, <1>6, <1>7, SeqMonotonic

\* What is assembled or found is a sequence of bytes.
LEMMA ImageIsBytes ==
  ASSUME DasmInv, image # Rejected
  PROVE  image \in Seq(Bytes) /\ image # <<>>
<1>0. image # <<>>
  BY DEF Rejected
<1>1. CASE image \in BytesThere
  <2>1. image \in [1..3 -> Bytes]
    BY <1>1, BytesAssumption DEF BytesAssumption, Bytes
  <2> QED
    BY <1>0, <2>1, SeqDef
<1>2. CASE image = dasm_as(org, typed) /\ typed # <<>>
  <2>1. typed \in TypedLines /\ typed \in Seq(Tokens)
    BY <1>2, TypingAssumption DEF TypingAssumption, DasmInv
  <2>2. Unblanked(typed) # <<>>
    <3> SUFFICES ASSUME Unblanked(typed) = <<>> PROVE FALSE
      OBVIOUS
    <3>1. ~Starts(typed, ".")
      BY DEF Starts
    <3>2. dasm_as(org, typed) = Rejected
      BY <3>1 DEF dasm_as
    <3> QED
      BY <1>2, <3>2
  <2>3. CASE Starts(typed, ".")
    <3>1. image = Data(Tail(Unblanked(typed)))
      BY <1>2, <2>2, <2>3 DEF dasm_as
    <3> QED
      BY <1>0, <2>1, <2>3, <3>1, TypedDataAssumption DEF TypedDataAssumption, Bytes
  <2>4. CASE ~Starts(typed, ".")
    <3>1. image = Instruction(org, Unblanked(typed))
      BY <1>2, <2>2, <2>4 DEF dasm_as
    <3>2. Unblanked(typed) \in Seq(Tokens)
      BY <2>1, UnblankedIsTyped
    <3>3. after.code \in Bytes /\ IsWord(org)
      BY DEF DasmInv, Bytes
    <3> QED
      BY <1>0, <2>2, <3>1, <3>2, <3>3, AssembledAreBytes
  <2> QED
    BY <2>3, <2>4
<1> QED
  BY <1>1, <1>2 DEF DasmInv

-----------------------------------------------------------------------------
(* What the assembler accepts is what runs, and the listing keeps in step. *)

\* The mode for a shape.
LEMMA ModeOfShape ==
  ASSUME NEW n, NEW v
  PROVE  /\ ModeOf(n, <<>>, v) = "implied"
         /\ ReadAs(<<>>) = {"implied"}
         /\ ModeOf(n, <<"A">>, v) = "acc"
         /\ ReadAs(<<"A">>) = {"acc"}
         /\ ModeOf(n, <<"#", "num">>, v) = "imm"
         /\ ReadAs(<<"#", "num">>) = {"imm"}
         /\ ModeOf(n, <<"(", "num", ")">>, v) = "ind"
         /\ ReadAs(<<"(", "num", ")">>) = {"ind"}
         /\ ModeOf(n, <<"(", "num", ")", ",", "Y">>, v) = "indy"
         /\ ReadAs(<<"(", "num", ")", ",", "Y">>) = {"indy"}
         /\ ModeOf(n, <<"(", "num", ",", "X", ")">>, v) = "indx"
         /\ ReadAs(<<"(", "num", ",", "X", ")">>) = {"indx"}
         /\ ModeOf(n, <<"num">>, v) = Direct(n, v, "zp", IF Has(n, "rel") THEN "rel" ELSE "abs")
         /\ ReadAs(<<"num">>) = {"zp", "abs"}
         /\ ModeOf(n, <<"num", ",", "X">>, v) = Direct(n, v, "zpx", "absx")
         /\ ReadAs(<<"num", ",", "X">>) = {"zpx", "absx"}
         /\ ModeOf(n, <<"num", ",", "Y">>, v) = Direct(n, v, "zpy", "absy")
         /\ ReadAs(<<"num", ",", "Y">>) = {"zpy", "absy"}
<1>1. ModeOf(n, <<>>, v) = "implied" /\ ReadAs(<<>>) = {"implied"}
  BY DEF ModeOf, ReadAs
<1>2. ModeOf(n, <<"A">>, v) = "acc" /\ ReadAs(<<"A">>) = {"acc"}
  BY DEF ModeOf, ReadAs
<1>3. ModeOf(n, <<"#", "num">>, v) = "imm" /\ ReadAs(<<"#", "num">>) = {"imm"}
  BY DEF ModeOf, ReadAs
<1>4. ModeOf(n, <<"(", "num", ")">>, v) = "ind" /\ ReadAs(<<"(", "num", ")">>) = {"ind"}
  BY DEF ModeOf, ReadAs
<1>5. /\ ModeOf(n, <<"(", "num", ")", ",", "Y">>, v) = "indy"
      /\ ReadAs(<<"(", "num", ")", ",", "Y">>) = {"indy"}
  BY DEF ModeOf, ReadAs
<1>6. /\ ModeOf(n, <<"(", "num", ",", "X", ")">>, v) = "indx"
      /\ ReadAs(<<"(", "num", ",", "X", ")">>) = {"indx"}
  BY DEF ModeOf, ReadAs
<1>7. /\ ModeOf(n, <<"num">>, v) = Direct(n, v, "zp", IF Has(n, "rel") THEN "rel" ELSE "abs")
      /\ ReadAs(<<"num">>) = {"zp", "abs"}
  BY DEF ModeOf, ReadAs
<1>8. /\ ModeOf(n, <<"num", ",", "X">>, v) = Direct(n, v, "zpx", "absx")
      /\ ReadAs(<<"num", ",", "X">>) = {"zpx", "absx"}
  BY DEF ModeOf, ReadAs
<1>9. /\ ModeOf(n, <<"num", ",", "Y">>, v) = Direct(n, v, "zpy", "absy")
      /\ ReadAs(<<"num", ",", "Y">>) = {"zpy", "absy"}
  BY DEF ModeOf, ReadAs
<1> QED
  BY <1>1, <1>2, <1>3, <1>4, <1>5, <1>6, <1>7, <1>8, <1>9

\* A mode reads what was written, and one of the zero page a byte.
LEMMA ModeIs ==
  ASSUME NEW n, NEW shape, NEW v
  PROVE  LET mode == ModeOf(n, shape, v)
         IN  /\ mode \in ReadAs(shape) \cup {"none", "rel"}
             /\ mode \in {"zp", "zpx", "zpy"} => v <= 255
<1> DEFINE mode == ModeOf(n, shape, v)
<1> SUFFICES mode \in ReadAs(shape) \cup {"none", "rel"} /\ (mode \in {"zp", "zpx", "zpy"} => v <= 255)
  OBVIOUS
<1>1. \A short, long : Direct(n, v, short, long) = long \/ (Direct(n, v, short, long) = short /\ v <= 255)
  BY DEF Direct
<1>2. CASE shape \in {<<>>, <<"A">>, <<"#", "num">>, <<"(", "num", ")">>,
                      <<"(", "num", ")", ",", "Y">>, <<"(", "num", ",", "X", ")">>}
  <2> DEFINE Single(m) == mode = m /\ ReadAs(shape) = {m}
  <2>1. ASSUME shape = <<>> PROVE Single("implied")
    BY <2>1 DEF ModeOf, ReadAs
  <2>2. ASSUME shape = <<"A">> PROVE Single("acc")
    BY <2>2 DEF ModeOf, ReadAs
  <2>3. ASSUME shape = <<"#", "num">> PROVE Single("imm")
    BY <2>3 DEF ModeOf, ReadAs
  <2>4. ASSUME shape = <<"(", "num", ")">> PROVE Single("ind")
    BY <2>4 DEF ModeOf, ReadAs
  <2>5. ASSUME shape = <<"(", "num", ")", ",", "Y">> PROVE Single("indy")
    BY <2>5, ModeOfShape, Zenon
  <2>6. ASSUME shape = <<"(", "num", ",", "X", ")">> PROVE Single("indx")
    BY <2>6, ModeOfShape, Zenon
  <2> HIDE DEF mode
  <2>7. \E m \in {"implied", "acc", "imm", "ind", "indy", "indx"} : Single(m)
    BY <1>2, <2>1, <2>2, <2>3, <2>4, <2>5, <2>6, Zenon
  <2> QED
    BY <2>7
<1>3. CASE shape = <<"num">>
  <2>1. ReadAs(shape) = {"zp", "abs"} /\ mode = Direct(n, v, "zp", IF Has(n, "rel") THEN "rel" ELSE "abs")
    BY <1>3, ModeOfShape, Zenon
  <2>2. mode \in {"zp", "abs", "rel"} /\ (mode = "zp" => v <= 255)
    BY <1>1, <2>1
  <2> HIDE DEF mode
  <2> QED
    BY <2>1, <2>2
<1>4. CASE shape = <<"num", ",", "X">>
  <2>1. ReadAs(shape) = {"zpx", "absx"} /\ mode = Direct(n, v, "zpx", "absx")
    BY <1>4, ModeOfShape, Zenon
  <2>2. mode \in {"zpx", "absx"} /\ (mode = "zpx" => v <= 255)
    BY <1>1, <2>1
  <2> HIDE DEF mode
  <2> QED
    BY <2>1, <2>2
<1>5. CASE shape = <<"num", ",", "Y">>
  <2>1. ReadAs(shape) = {"zpy", "absy"} /\ mode = Direct(n, v, "zpy", "absy")
    BY <1>5, ModeOfShape, Zenon
  <2>2. mode \in {"zpy", "absy"} /\ (mode = "zpy" => v <= 255)
    BY <1>1, <2>1
  <2> HIDE DEF mode
  <2> QED
    BY <2>1, <2>2
<1>6. CASE shape \notin {<<>>, <<"A">>, <<"#", "num">>, <<"(", "num", ")">>,
                      <<"(", "num", ")", ",", "Y">>, <<"(", "num", ",", "X", ")">>,
                      <<"num">>, <<"num", ",", "X">>, <<"num", ",", "Y">>}
  <2>1. mode = "none"
    BY <1>6 DEF ModeOf
  <2> QED
    BY <2>1
<1> QED
  BY <1>2, <1>3, <1>4, <1>5, <1>6

\* The number of a short instruction is a byte.
LEMMA ByteIs == ASSUME NEW v, IsWord(v), v <= 255 PROVE v % 256 = v
BY DEF IsWord

\* The name, the length, the mode and the operand, from the row that was found.
LEMMA AssembledRuns == DasmInv => AssembledIsRun
<1> SUFFICES ASSUME DasmInv, image # Rejected, Typed
             PROVE  \/ image[1] \in Misnamed
                    \/ /\ Runs /\ Instr.mne = Mnemonic /\ Len(image) = LengthOf(Instr)
                       /\ \/ IsBranch(Mnemonic)
                          \/ Instr.mode \in ReadAs(Shape(Args)) /\ Tail(image) = Little(ValueIn(Args), Len(image) - 1)
  BY DEF AssembledIsRun
<1> DEFINE n     == Mnemonic
           v     == ValueIn(Args)
           shape == Shape(Args)
           mode  == ModeOf(n, shape, v)
           w     == IF mode = "rel" THEN Offset(org, v) ELSE v
           row   == find_mne(n, mode)
<1>1. Unblanked(typed) # <<>> /\ ~Starts(typed, ".") /\ n # after.mne
  BY DEF Typed
<1>2. image = Instruction(org, Unblanked(typed))
  <2>1. typed # <<>>
    BY <1>1 DEF Unblanked
  <2>2. image = dasm_as(org, typed)
    BY <2>1 DEF DasmInv
  <2> QED
    BY <1>1, <2>2 DEF dasm_as
<1>3. /\ mode # "none" /\ Has(n, mode) /\ (mode \in {"imm", "indx", "indy"} => v <= 255)
      /\ image = emit_op(row, w, Width(mode))
  BY <1>2, Accepted DEF Mnemonic, Args
<1>4. IsWord(v)
  BY <1>1, ArgsAreTyped
<1>5. mode \in ReadAs(shape) \cup {"none", "rel"} /\ (mode \in {"zp", "zpx", "zpy"} => v <= 255)
  BY ModeIs
<1> HIDE DEF n, v, shape, mode
<1>6. row \in vm_op_tbl /\ row.mne = n /\ row.mode = mode
  BY <1>1, <1>3, FoundRow
<1> HIDE DEF row, w
<1>7. /\ Len(image) = Width(mode) /\ image[1] = row.code
      /\ Width(mode) = 1 => Tail(image) = <<>>
      /\ Width(mode) = 2 => Tail(image) = <<w % 256>>
      /\ Width(mode) = 3 => Tail(image) = <<w % 256, w \div 256>>
  <2>1. image = emit_op(row, w, Width(mode))
    BY <1>3
  <2>2. IsWord(w)
    BY <1>4, OffsetIsByte DEF w, DasmInv
  <2>3. w \in Nat
    BY <2>2 DEF IsWord
  <2>4. Emits(image, row, w, mode)
    BY <2>1, <2>3, EmittedIs
  <2> QED
    BY <2>4 DEF Emits
<1>8. Runs /\ Instr = Meant(row)
  BY <1>6, <1>7, DecodeOfRow DEF Runs, Instr
<1>9. LengthOf(Instr) = Width(mode) /\ Width(mode) \in 1..3
  BY <1>6, <1>7, LengthOfRow DEF Instr
<1>10. Rowed(row)
  BY <1>6, RowMeant
<1>11. ASSUME row.code \notin Misnamed
       PROVE  /\ Instr.mne = n
              /\ IsBranch(n) \/ (Instr.mode \in ReadAs(shape) /\ Tail(image) = Little(v, Len(image) - 1))
  <2>1. row.code # Op(3, D)
    BY <1>11 DEF Misnamed
  <2>2. CASE mode = "rel"
    BY <1>6, <1>8, <1>10, <1>11, <2>1, <2>2 DEF Meant, Rowed, IsBranch
  <2>3. CASE mode # "rel"
    <3>1. Instr = row
      BY <1>6, <1>8, <1>11, <2>1, <2>3 DEF Meant
    <3>2. Instr.mne = n /\ Instr.mode \in ReadAs(shape)
      BY <1>3, <1>5, <1>6, <2>3, <3>1
    <3>3. w = v
      BY <2>3 DEF w
    <3>4. Tail(image) = Little(v, Len(image) - 1)
      <4>1. CASE Width(mode) = 1
        BY <1>7, <4>1 DEF Little
      <4>2. CASE Width(mode) = 2
        <5>1. mode \in {"imm", "indx", "indy", "zp", "zpx", "zpy"}
          BY <1>6, <1>10, <2>3, <4>2 DEF Rowed, OperandModes, Width
        <5>2. v <= 255
          BY <1>3, <1>5, <5>1
        <5>3. v % 256 = v
          BY <1>4, <5>2, ByteIs
        <5>4. Tail(image) = <<v>> /\ Len(image) = 2
          BY <1>7, <3>3, <4>2, <5>3
        <5> QED
          BY <5>4 DEF Little
      <4>3. CASE Width(mode) = 3
        <5>1. Tail(image) = <<v % 256, v \div 256>> /\ Len(image) = 3
          BY <1>7, <3>3, <4>3
        <5> QED
          BY <5>1 DEF Little
      <4> QED
        BY <1>9, <4>1, <4>2, <4>3
    <3> QED
      BY <3>2, <3>4
  <2> QED
    BY <2>2, <2>3
<1> QED
  BY <1>7, <1>8, <1>9, <1>11 DEF n, v, shape

\* What the assembler accepts is the instruction the machine runs: AssembledIsRun,
\* for every line and wherever it is, whatever follows the table.
THEOREM AssembledInstructionsRun == DasmSpec => []AssembledIsRun
BY DasmAlways, AssembledRuns, PTL

\* The row of an opcode has the length and the name it runs with.
LEMMA ListedSteps == DasmInv => ListingInStep
<1> SUFFICES ASSUME DasmInv, listed # None
             PROVE  IF Runs THEN /\ listed.len = LengthOf(Instr)
                                 /\ Head(listed.line).t = Instr.mne \/ image[1] = Op(3, D)
                    ELSE image[1] # after.code => listed.len = 1 /\ Head(listed.line).t = "???"
  BY DEF ListingInStep
<1>1. image # Rejected /\ listed = dasm_das(org, There)
  BY DEF DasmInv
<1>2. There[1] = image[1]
  BY <1>1, ImageIsBytes, ThreeBytes DEF There
<1>3. CASE Runs
  <2>1. PICK r \in Coded(image[1]) : r \in vm_op_tbl /\ r.code = image[1]
    BY <1>1, <1>3, CodedIs DEF Runs
  <2>2. listed.len = Width(r.mode) /\ Head(listed.line) = Tok(r.mne)
    BY <1>1, <1>2, <2>1, RowIsListed
  <2>3. Instr = Meant(r) /\ LengthOf(Instr) = Width(r.mode)
    BY <2>1, DecodeOfRow, LengthOfRow DEF Instr
  <2>4. Head(listed.line).t = r.mne
    BY <2>2 DEF Tok
  <2>5. Instr.mne = r.mne \/ r.code = Op(3, D)
    BY <2>1, <2>3, RowMeant DEF Meant, Rowed
  <2> QED
    BY <1>3, <2>1, <2>2, <2>3, <2>4, <2>5
<1>4. CASE ~Runs
  <2>1. Coded(image[1]) = {}
    BY <1>1, <1>4, CodedIs DEF Runs
  <2>2. image[1] # after.code => listed = [line |-> <<Tok("???")>>, len |-> 1]
    BY <1>1, <1>2, <2>1, Unlisted
  <2>3. Head(<<Tok("???")>>).t = "???"
    BY DEF Tok
  <2> QED
    BY <1>4, <2>2, <2>3
<1> QED
  BY <1>3, <1>4

\* The listing takes as many bytes as the machine: ListingInStep, for every three
\* bytes that may be there.
THEOREM ListingsKeepStep == DasmSpec => []ListingInStep
BY DasmAlways, ListedSteps, PTL

-----------------------------------------------------------------------------
(* A listing typed again.                                                  *)

\* Three bytes that are listed.
AreBytes(op) == op[1] \in Bytes /\ op[2] \in Bytes /\ op[3] \in Bytes

\* A row and a number that give the bytes they came from.
LEMMA EmitsBack ==
  ASSUME NEW op, AreBytes(op), NEW row, op[1] = row.code, NEW mode, NEW v,
         Width(mode) >= 2 => v % 256 = op[2], Width(mode) = 3 => v \div 256 = op[3]
  PROVE  emit_op(row, v, Width(mode)) = SubSeq(op, 1, Width(mode))
<1> DEFINE lo == v % 256
           hi == v \div 256
           all == <<row.code, lo, hi>>
           n == Width(mode)
<1>1. n \in {1, 2, 3}
  BY DEF Width
<1>2. all[1] = op[1] /\ (n >= 2 => all[2] = op[2]) /\ (n = 3 => all[3] = op[3])
  OBVIOUS
<1>3. emit_op(row, v, Width(mode)) = SubSeq(all, 1, n)
  BY DEF emit_op
<1> HIDE DEF all, n, lo, hi
<1>4. \A i \in 1..n : all[i] = op[i] /\ op[i] \in Bytes
  <2> SUFFICES ASSUME NEW i \in 1..n PROVE all[i] = op[i] /\ op[i] \in Bytes
    OBVIOUS
  <2>1. i = 1 \/ (i = 2 /\ n >= 2) \/ (i = 3 /\ n = 3)
    BY <1>1, SMT
  <2> QED
    BY <1>2, <2>1 DEF AreBytes
<1>5. /\ SubSeq(all, 1, n) \in Seq(Bytes) /\ Len(SubSeq(all, 1, n)) = n
      /\ \A i \in 1..n : SubSeq(all, 1, n)[i] = all[i]
  <2>1. \A i \in 1..n : all[i] \in Bytes
    BY <1>4
  <2> QED
    BY <1>1, <2>1, SubSeqProperties
<1>6. /\ SubSeq(op, 1, n) \in Seq(Bytes) /\ Len(SubSeq(op, 1, n)) = n
      /\ \A i \in 1..n : SubSeq(op, 1, n)[i] = op[i]
  <2>1. \A i \in 1..n : op[i] \in Bytes
    BY <1>4
  <2> QED
    BY <1>1, <2>1, SubSeqProperties
<1>7. SubSeq(all, 1, n) = SubSeq(op, 1, n)
  <2>1. \A i \in 1..Len(SubSeq(all, 1, n)) : SubSeq(all, 1, n)[i] = SubSeq(op, 1, n)[i]
    BY <1>4, <1>5, <1>6
  <2> QED
    BY <1>5, <1>6, <2>1, SeqEqual
<1> QED
  BY <1>3, <1>7 DEF n

\* A word from its two bytes, and a branch from its target.
LEMMA WordBack ==
  ASSUME NEW b \in Bytes, NEW c \in Bytes, NEW v, v = b + 256 * c
  PROVE  IsWord(v) /\ v % 65536 = v /\ v % 256 = b /\ v \div 256 = c /\ (v <= 255 => c = 0)
BY DEF IsWord, Bytes

\* A byte from itself.
LEMMA ByteBack ==
  ASSUME NEW b \in Bytes
  PROVE  IsWord(b) /\ b % 65536 = b /\ b % 256 = b /\ b <= 255
BY DEF IsWord, Bytes

\* The offset of the target of an offset.
LEMMA TargetBack ==
  ASSUME NEW place, IsWord(place), NEW b \in Bytes
  PROVE  /\ IsWord(Target(place, b)) /\ Target(place, b) % 65536 = Target(place, b)
         /\ Offset(place, Target(place, b)) = b /\ b % 256 = b
BY DEF IsWord, Bytes, Target, SignedByte, Offset

\* The name of a row is not both of a branch and of an operand.
LEMMA BranchesApart ==
  ASSUME NEW r \in vm_op_tbl, r.mne # after.mne
  PROVE  IF r.mode = "rel" THEN ~Has(r.mne, "zp") ELSE ~Has(r.mne, "rel")
<1>1. \A q \in vm_op_tbl : q.mode = "rel" <=> q.mne \in Branches
  BY RowMeant DEF Rowed
<1>2. \A m : Has(r.mne, m) => find_mne(r.mne, m) \in vm_op_tbl /\ find_mne(r.mne, m).mne = r.mne /\ find_mne(r.mne, m).mode = m
  BY FoundRow
<1> QED
  BY <1>1, <1>2

\* A line without a second token has no blank where it may not.
LEMMA EmptyTight ==
  ASSUME NEW line, 2..Len(line) = {}
  PROVE  Tight(line)
BY DEF Tight

\* What follows the name is read back: its shape, its number and, but for a
\* number of the zero page, its mode.
LEMMA FollowReads ==
  ASSUME NEW place, NEW op, NEW r \in vm_op_tbl, IsWord(NumberIn(place, r.mode, op)),
         NumberIn(place, r.mode, op) % 65536 = NumberIn(place, r.mode, op)
  PROVE  LET args == Follow(place, r, op)
         IN  /\ Shape(args) = FormShape(r.mode) /\ Tight(args)
             /\ r.mode \notin {"implied", "acc"} => ValueIn(args) = NumberIn(place, r.mode, op)
<1> DEFINE args == Follow(place, r, op)
           n == NumberIn(place, r.mode, op)
           Read == /\ Shape(args) = FormShape(r.mode) /\ Tight(args)
                   /\ r.mode \notin {"implied", "acc"} => ValueIn(args) = n
<1> SUFFICES Read
  OBVIOUS
<1>1. CASE r.mode = "implied"
  <2>1. args = <<>>
    BY <1>1 DEF Follow
  <2>2. FormShape("implied") = <<>>
    BY DEF FormShape
  <2>3. Shape(<<>>) = <<>>
    BY NothingSolid DEF Shape
  <2>4. Tight(<<>>)
    <3>1. 2..Len(<<>>) = {}
      OBVIOUS
    <3> QED
      BY <3>1, EmptyTight
  <2> HIDE DEF args
  <2> QED
    BY <1>1, <2>1, <2>2, <2>3, <2>4
<1>2. CASE r.mode # "implied"
  <2>1. r.mode \in OperandModes \cup {"rel"}
    BY <1>2, RowMeant DEF Rowed
  <2>2. ReadsAs(Form(r.mode, n), FormShape(r.mode), n)
    BY <2>1, FormIs
  <2>3. args = Spaced(Form(r.mode, n))
    BY <1>2 DEF Follow
  <2>4. r.mode # "acc" => FormShape(r.mode) # <<"A">>
    <3> USE DEF FormShape
    <3>1. ASSUME r.mode \in {"abs", "zp", "rel"} PROVE FormShape(r.mode)[1] = "num"
      BY <3>1
    <3>2. ASSUME r.mode = "imm" PROVE FormShape(r.mode)[1] = "#"
      BY <3>2
    <3>3. ASSUME r.mode = "ind" PROVE FormShape(r.mode)[1] = "("
      BY <3>3
    <3>4. ASSUME r.mode \in {"absx", "zpx"} PROVE FormShape(r.mode)[1] = "num"
      BY <3>4
    <3>5. ASSUME r.mode \in {"absy", "zpy"} PROVE FormShape(r.mode)[1] = "num"
      BY <3>5
    <3>6. ASSUME r.mode = "indx" PROVE FormShape(r.mode)[1] = "("
      BY <3>6
    <3>7. ASSUME r.mode = "indy" PROVE FormShape(r.mode)[1] = "("
      BY <3>7
    <3>8. <<"A">>[1] = "A"
      OBVIOUS
    <3> HIDE DEF FormShape
    <3> QED
      BY <2>1, <3>1, <3>2, <3>3, <3>4, <3>5, <3>6, <3>7, <3>8 DEF OperandModes
  <2> HIDE DEF args, n
  <2>5. Shape(args) = FormShape(r.mode) /\ Tight(args) /\ (FormShape(r.mode) # <<"A">> => ValueIn(args) = n % 65536)
    BY <2>2, <2>3 DEF ReadsAs
  <2> QED
    BY <2>4, <2>5 DEF n
<1> QED
  BY <1>1, <1>2

\* The mode is that of the row, or a short one for a number that is a byte.
LEMMA ModeBack ==
  ASSUME NEW r \in vm_op_tbl, r.mne # after.mne, NEW v,
         r.mode \in {"zp", "zpx", "zpy"} => v <= 255
  PROVE  LET mode == ModeOf(r.mne, FormShape(r.mode), v)
         IN  \/ mode = r.mode
             \/ r.mode \in {"abs", "absx", "absy"} /\ mode \in {"zp", "zpx", "zpy"} /\ v <= 255
<1> DEFINE mode == ModeOf(r.mne, FormShape(r.mode), v)
           Back == \/ mode = r.mode
                   \/ r.mode \in {"abs", "absx", "absy"} /\ mode \in {"zp", "zpx", "zpy"} /\ v <= 255
<1> SUFFICES Back
  OBVIOUS
<1>1. r.mode \in OperandModes \cup {"implied", "rel"}
  BY RowMeant DEF Rowed
<1>2. Has(r.mne, r.mode)
  BY FindIs
<1>3. \A short, long : Direct(r.mne, v, short, long) = IF v <= 255 /\ Has(r.mne, short) THEN short ELSE long
  BY DEF Direct
<1>4. CASE r.mode \in {"implied", "acc"}
  BY <1>4 DEF ModeOf, FormShape
<1>5. CASE r.mode \in {"imm", "ind"}
  BY <1>5 DEF ModeOf, FormShape
<1>6. CASE r.mode = "indx"
  BY <1>6 DEF ModeOf, FormShape
<1>7. CASE r.mode = "indy"
  BY <1>7 DEF ModeOf, FormShape
<1>8. CASE r.mode \in {"zp", "abs", "rel"}
  <2>1. mode = Direct(r.mne, v, "zp", IF Has(r.mne, "rel") THEN "rel" ELSE "abs")
    BY <1>8 DEF ModeOf, FormShape
  <2> HIDE DEF mode
  <2> QED
    BY <1>2, <1>3, <1>8, <2>1, BranchesApart
<1>9. CASE r.mode \in {"zpx", "absx"}
  <2>1. mode = Direct(r.mne, v, "zpx", "absx")
    BY <1>9 DEF ModeOf, FormShape
  <2> HIDE DEF mode
  <2> QED
    BY <1>2, <1>3, <1>9, <2>1
<1>10. CASE r.mode \in {"zpy", "absy"}
  <2>1. mode = Direct(r.mne, v, "zpy", "absy")
    BY <1>10 DEF ModeOf, FormShape
  <2> HIDE DEF mode
  <2> QED
    BY <1>2, <1>3, <1>10, <2>1
<1> HIDE DEF Back
<1> QED
  BY <1>1, <1>4, <1>5, <1>6, <1>7, <1>8, <1>9, <1>10 DEF OperandModes

\* The number that is listed for a row.
LEMMA NumberListed ==
  ASSUME NEW place, IsWord(place), NEW op, AreBytes(op), NEW mode \in OperandModes \cup {"implied", "rel"}
  PROVE  LET v == NumberIn(place, mode, op)
             w == IF mode = "rel" THEN Offset(place, v) ELSE v
         IN  /\ IsWord(v) /\ v % 65536 = v
             /\ mode \in {"zp", "zpx", "zpy"} => v <= 255
             /\ mode \in {"abs", "absx", "absy"} /\ v <= 255 => op[3] = 0
             /\ Width(mode) >= 2 => w % 256 = op[2]
             /\ Width(mode) = 3 => w \div 256 = op[3]
<1> DEFINE v == NumberIn(place, mode, op)
           w == IF mode = "rel" THEN Offset(place, v) ELSE v
           Goal == /\ IsWord(v) /\ v % 65536 = v
                   /\ mode \in {"zp", "zpx", "zpy"} => v <= 255
                   /\ mode \in {"abs", "absx", "absy"} /\ v <= 255 => op[3] = 0
                   /\ Width(mode) >= 2 => w % 256 = op[2]
                   /\ Width(mode) = 3 => w \div 256 = op[3]
<1> SUFFICES Goal
  OBVIOUS
<1>1. CASE mode \in WordModes
  <2>1. v = op[2] + 256 * op[3] /\ mode # "rel" /\ mode \notin {"zp", "zpx", "zpy"}
    BY <1>1 DEF NumberIn, WordIn, WordModes
  <2>2. w = v
    BY <2>1
  <2> HIDE DEF v, w
  <2>3. IsWord(v) /\ v % 65536 = v /\ v % 256 = op[2] /\ v \div 256 = op[3] /\ (v <= 255 => op[3] = 0)
    BY <2>1, WordBack DEF AreBytes
  <2> QED
    BY <2>1, <2>2, <2>3
<1>2. CASE mode = "rel"
  <2>1. v = Target(place, op[2]) /\ w = Offset(place, v)
    BY <1>2 DEF NumberIn, WordModes
  <2> HIDE DEF v, w
  <2>2. IsWord(v) /\ v % 65536 = v /\ w % 256 = op[2]
    BY <2>1, TargetBack DEF AreBytes
  <2>3. Width("rel") = 2
    BY DEF Width
  <2> QED
    BY <1>2, <2>2, <2>3
<1>3. CASE mode \notin WordModes \cup {"rel"}
  <2>1. v = op[2]
    BY <1>3 DEF NumberIn
  <2>2. w = v
    BY <1>3
  <2>3. mode \notin {"abs", "absx", "absy"}
    BY <1>3 DEF WordModes
  <2>4. Width(mode) # 3
    BY <1>3 DEF Width, WordModes
  <2> HIDE DEF v, w
  <2>5. IsWord(v) /\ v % 65536 = v /\ v % 256 = op[2] /\ v <= 255
    BY <2>1, ByteBack DEF AreBytes
  <2> QED
    BY <2>2, <2>3, <2>4, <2>5
<1> HIDE DEF Goal
<1> QED
  BY <1>1, <1>2, <1>3

\* The line that is listed for a row is assembled into the bytes it came from,
\* or into two for an absolute address below 256.
LEMMA LineAssembled ==
  ASSUME NEW place, IsWord(place), NEW op, AreBytes(op), NEW r \in vm_op_tbl, op[1] = r.code,
         r.code \notin Shadowed, r.mne # after.mne,
         NEW out, out = dasm_as(place, dasm_das(place, op).line), out # Rejected
  PROVE  \/ out = SubSeq(op, 1, Width(r.mode))
         \/ r.mode \in {"abs", "absx", "absy"} /\ op[3] = 0 /\ Len(out) = 2
<1> DEFINE line == dasm_das(place, op).line
           n    == r.mne
           args == Follow(place, r, op)
           N    == NumberIn(place, r.mode, op)
           v    == ValueIn(args)
           mode == ModeOf(n, FormShape(r.mode), v)
           w    == IF mode = "rel" THEN Offset(place, v) ELSE v
<1>0. r.mode \in OperandModes \cup {"implied", "rel"}
  BY RowMeant DEF Rowed
<1>1. line # <<>> /\ Head(line) = Tok(n) /\ Tail(line) = args
  BY RowIsListed
<1>2. IsWord(N) /\ N % 65536 = N /\ (r.mode \in {"zp", "zpx", "zpy"} => N <= 255)
  BY <1>0, NumberListed
<1>3. Shape(args) = FormShape(r.mode) /\ (r.mode \notin {"implied", "acc"} => v = N)
  BY <1>2, FollowReads
<1> HIDE DEF line, args
<1>4. Head(line).t = n
  BY <1>1 DEF Tok
<1>5. Unblanked(line) = line /\ ~Starts(line, ".")
  BY <1>1, <1>4, NamesAre DEF Unblanked, Starts
<1>6. out = Instruction(place, line)
  BY <1>1, <1>5 DEF dasm_as, line
<1>7. out = emit_op(find_mne(n, mode), w, Width(mode))
  BY <1>1, <1>3, <1>4, <1>6, Accepted
<1>8. \/ mode = r.mode
      \/ r.mode \in {"abs", "absx", "absy"} /\ mode \in {"zp", "zpx", "zpy"} /\ v <= 255
  BY <1>2, <1>3, ModeBack
<1> HIDE DEF N, v, mode
<1>9. CASE mode = r.mode
  <2>1. find_mne(n, mode) = r
    BY <1>9, FindIs
  <2>2. CASE r.mode \in {"implied", "acc"}
    <3>1. Width(r.mode) = 1
      BY <2>2 DEF Width
    <3> HIDE DEF w
    <3>2. (Width(r.mode) >= 2 => w % 256 = op[2]) /\ (Width(r.mode) = 3 => w \div 256 = op[3])
      BY <3>1
    <3>3. emit_op(r, w, Width(r.mode)) = SubSeq(op, 1, Width(r.mode))
      BY <3>2, EmitsBack
    <3> QED
      BY <1>7, <1>9, <2>1, <3>3
  <2>3. CASE r.mode \notin {"implied", "acc"}
    <3>1. w = IF r.mode = "rel" THEN Offset(place, N) ELSE N
      BY <1>3, <1>9, <2>3
    <3> HIDE DEF w
    <3>2. (Width(r.mode) >= 2 => w % 256 = op[2]) /\ (Width(r.mode) = 3 => w \div 256 = op[3])
      BY <1>0, <3>1, NumberListed DEF N
    <3>3. emit_op(r, w, Width(r.mode)) = SubSeq(op, 1, Width(r.mode))
      BY <3>2, EmitsBack
    <3> QED
      BY <1>7, <1>9, <2>1, <3>3
  <2> QED
    BY <2>2, <2>3
<1>10. CASE r.mode \in {"abs", "absx", "absy"} /\ mode \in {"zp", "zpx", "zpy"} /\ v <= 255
  <2>1. v = N /\ w = v
    BY <1>3, <1>10
  <2>2. op[3] = 0
    BY <1>0, <1>10, <2>1, NumberListed DEF N
  <2>3. Width(mode) = 2
    BY <1>10 DEF Width
  <2>4. w \in Nat
    BY <1>2, <2>1 DEF IsWord
  <2> DEFINE row == find_mne(n, mode)
  <2> HIDE DEF row, w
  <2>5. out = emit_op(row, w, Width(mode))
    BY <1>7 DEF row
  <2>6. Emits(out, row, w, mode)
    BY <2>4, <2>5, EmittedIs
  <2>7. Len(out) = 2
    BY <2>3, <2>6 DEF Emits
  <2> QED
    BY <1>10, <2>2, <2>7
<1> QED
  BY <1>8, <1>9, <1>10

\* The bytes that are listed.
LEMMA ThereIs ==
  ASSUME DasmInv, image # Rejected
  PROVE  AreBytes(There) /\ There[1] = image[1] /\ (Len(image) >= 2 => There[2] = image[2])
BY ImageIsBytes, ThreeBytes DEF There, AreBytes

\* The row that was listed is found again, in its mode or a shorter one.
LEMMA ListedAgain == DasmInv => ListingReassembles
<1> SUFFICES ASSUME DasmInv, again # Rejected, Runs, image[1] \notin Shadowed,
                    Head(listed.line).t # after.mne, ~Shortened
             PROVE  again = SubSeq(There, 1, listed.len)
  BY DEF ListingReassembles
<1>1. /\ image # Rejected /\ listed = dasm_das(org, There) /\ again = dasm_as(org, listed.line) /\ IsWord(org)
  BY DEF DasmInv
<1>2. AreBytes(There) /\ There[1] = image[1]
  BY <1>1, ThereIs
<1>3. PICK r \in Coded(image[1]) : r \in vm_op_tbl /\ r.code = image[1]
  BY <1>1, CodedIs DEF Runs
<1>4. listed.len = Width(r.mode) /\ Head(listed.line) = Tok(r.mne)
  BY <1>1, <1>2, <1>3, RowIsListed
<1>5. r.mne # after.mne
  BY <1>4 DEF Tok
<1>6. \/ again = SubSeq(There, 1, Width(r.mode))
      \/ r.mode \in {"abs", "absx", "absy"} /\ There[3] = 0 /\ Len(again) = 2
  BY <1>1, <1>2, <1>3, <1>5, LineAssembled
<1>7. r.mode \in {"abs", "absx", "absy"} => Instr.mode = r.mode
  <2>1. Instr = Meant(r) /\ Rowed(r)
    BY <1>3, DecodeOfRow, RowMeant DEF Instr
  <2>2. r.code # Op(3, D)
    BY <1>3 DEF Shadowed
  <2> QED
    BY <2>1, <2>2 DEF Meant, Rowed
<1> QED
  BY <1>4, <1>6, <1>7 DEF Shortened

\* A listing typed again gives the bytes it came from: ListingReassembles, the
\* branches over the ends of memory included.
THEOREM ListingsReassemble == DasmSpec => []ListingReassembles
BY DasmAlways, ListedAgain, PTL

-----------------------------------------------------------------------------
(* The target of a branch.                                                 *)

\* The first number of a line is its value.
LEMMA FirstValue ==
  ASSUME NEW S, NEW line \in Seq(S), NEW k \in 1..Len(line), line[k].t = "num",
         \A i \in 1..(k - 1) : line[i].t # "num"
  PROVE  ValueIn(line) = Value(line[k])
<1> DEFINE I == {i \in 1..Len(line) : line[i].t = "num"}
           first == SelectInSeq(line, LAMBDA x : x.t = "num")
<1>1. first = IF I # {} THEN Min(I) ELSE 0
  BY DEF SelectInSeq
<1>2. k \in I /\ k # 0 /\ I \subseteq Nat
  OBVIOUS
<1>3. \A i \in I : k <= i
  <2> SUFFICES ASSUME NEW i \in I, ~(k <= i) PROVE FALSE
    OBVIOUS
  <2>1. i \in 1..(k - 1) /\ line[i].t = "num"
    BY SMT
  <2> QED
    BY <2>1
<1> HIDE DEF I, first
<1>4. first = k
  BY <1>1, <1>2, <1>3, MinIs
<1>5. ValueIn(line) = IF first = 0 THEN 0 ELSE Value(line[first])
  BY DEF ValueIn, first
<1> QED
  BY <1>2, <1>4, <1>5

\* The number of a branch that is listed is its value.
LEMMA TargetListed ==
  ASSUME NEW name, name # "num", NEW t, IsWord(t)
  PROVE  ValueIn(<<Tok(name)>> \o Spaced(<<Num(t)>>)) = t
<1> DEFINE S    == {Tok(name), Tok("sp"), Num(t)}
           one  == <<Num(t)>>
           rest == Spaced(one)
           line == <<Tok(name)>> \o rest
<1>1. Tok(name) \in S /\ Tok("sp") \in S /\ one \in Seq(S) /\ Len(one) = 1 /\ one[1] = Num(t)
  OBVIOUS
<1> HIDE DEF S, one
<1>2. rest \in Seq(S) /\ Len(rest) = Len(one) + 1 /\ rest[1] = Tok("sp") /\ \A i \in 1..Len(one) : rest[i + 1] = one[i]
  BY <1>1, SpacedIs
<1> HIDE DEF rest
<1>3. /\ line \in Seq(S) /\ Len(line) = Len(rest) + 1 /\ line[1] = Tok(name)
      /\ \A i \in 1..Len(rest) : line[i + 1] = rest[i]
  <2> DEFINE x == Tok(name)
  <2>1. x \in S
    BY <1>1
  <2> HIDE DEF x
  <2>2. /\ <<x>> \o rest \in Seq(S) /\ Len(<<x>> \o rest) = Len(rest) + 1 /\ (<<x>> \o rest)[1] = x
        /\ \A i \in 1..Len(rest) : (<<x>> \o rest)[i + 1] = rest[i]
    BY <1>2, <2>1, Prepended
  <2> QED
    BY <2>2 DEF x
<1> HIDE DEF line
<1>4. Len(rest) = 2 /\ rest[2] = Num(t)
  <2>1. 1 \in 1..Len(one) /\ 1 + 1 = 2
    BY <1>1
  <2> QED
    BY <1>1, <1>2, <2>1
<1>5. Len(line) = 3 /\ line[2] = Tok("sp") /\ line[3] = Num(t)
  <2>1. 1 \in 1..Len(rest) /\ 2 \in 1..Len(rest) /\ 1 + 1 = 2 /\ 2 + 1 = 3
    BY <1>4
  <2> QED
    BY <1>2, <1>3, <1>4, <2>1
<1>6. line[1].t # "num" /\ line[2].t # "num" /\ line[3].t = "num" /\ line[3].v[1] = t
  BY <1>3, <1>5 DEF Tok, Num
<1>7. \A i \in 1..(3 - 1) : line[i].t # "num"
  <2>1. \A i \in 1..(3 - 1) : i = 1 \/ i = 2
    BY SMT
  <2> QED
    BY <1>6, <2>1
<1>8. ValueIn(line) = Value(line[3])
  <2>1. 3 \in 1..Len(line)
    BY <1>5
  <2> QED
    BY <1>3, <1>6, <1>7, <2>1, FirstValue
<1>9. t % 65536 = t
  BY DEF IsWord
<1>10. ValueIn(line) = t
  BY <1>6, <1>8, <1>9 DEF Value
<1> QED
  BY <1>10 DEF line, rest, one

\* The target of the offset to a place has its low byte, and is the place when
\* it is near.
LEMMA TargetNear ==
  ASSUME NEW place, IsWord(place), NEW v, IsWord(v), NEW t, t = Target(place, Offset(place, v))
  PROVE  /\ IsWord(t) /\ (t - v) % 256 = 0 /\ Offset(place, v) % 256 = Offset(place, v)
         /\ (\E d \in -128..127 : v = (place + 1 + d) % 65536) => t = v
<1> DEFINE b == (v - place - 1) % 256
           s == IF b >= 128 THEN b - 256 ELSE b
<1>1. place \in Nat /\ v \in Nat /\ place < 65536 /\ v < 65536
  BY DEF IsWord
<1>2. Offset(place, v) = b /\ t = (place + 1 + s) % 65536
  BY DEF Offset, Target, SignedByte
<1>3. b \in 0..255 /\ b % 256 = b
  BY <1>1
<1>4. \E k \in Int : v - place - 1 = 256 * k + b
  <2> DEFINE x == v - place - 1
             q == x \div 256
  <2>1. x \in Int
    BY <1>1
  <2> HIDE DEF x
  <2>2. q \in Int /\ x = 256 * q + (x % 256)
    BY <2>1
  <2>3. b = x % 256
    BY DEF x
  <2> HIDE DEF q, b
  <2>4. x = 256 * q + b
    BY <2>2, <2>3
  <2> QED
    BY <2>2, <2>4 DEF x
<1> HIDE DEF b
<1>5. s \in -128..127 /\ (s = b \/ s = b - 256)
  BY <1>3
<1>6. \E k \in Int : v - place - 1 = 256 * k + s
  <2>1. PICK k \in Int : v - place - 1 = 256 * k + b
    BY <1>4
  <2>2. CASE s = b
    BY <2>1, <2>2
  <2>3. CASE s = b - 256
    <3>1. v - place - 1 = 256 * (k + 1) + s /\ k + 1 \in Int
      BY <1>1, <1>3, <2>1, <2>3
    <3> QED
      BY <3>1
  <2> QED
    BY <1>5, <2>2, <2>3
<1> HIDE DEF s
<1>7. IsWord(t)
  BY <1>1, <1>2, <1>5 DEF IsWord
<1>8. PICK k \in Int : v - place - 1 = 256 * k + s
  BY <1>6
<1>9. (t - v) % 256 = 0
  BY <1>1, <1>2, <1>5, <1>8
<1>10. ASSUME NEW d \in -128..127, v = (place + 1 + d) % 65536 PROVE t = v
  <2>1. \E m \in Int : v = place + 1 + d - 65536 * m
    BY <1>1, <1>10
  <2>2. PICK m \in Int : v = place + 1 + d - 65536 * m
    BY <2>1
  <2>3. d - s = 256 * (k + 256 * m)
    BY <1>1, <1>5, <1>8, <2>2
  <2>4. d = s
    BY <1>5, <2>3
  <2> QED
    BY <1>2, <1>10, <2>4
<1> QED
  BY <1>2, <1>3, <1>7, <1>9, <1>10

\* The row of a branch that was assembled is the one that is listed.
LEMMA BranchListed == DasmInv => ListedTargetIsTyped
<1> SUFFICES ASSUME DasmInv, listed # None, Typed, IsBranch(Mnemonic)
             PROVE  LET v == ValueIn(Args)
                        w == ValueIn(listed.line)
                    IN  (w - v) % 256 = 0 /\ (Near(v) => w = v)
  BY DEF ListedTargetIsTyped
<1> DEFINE n     == Mnemonic
           v     == ValueIn(Args)
           mode  == ModeOf(n, Shape(Args), v)
           off   == IF mode = "rel" THEN Offset(org, v) ELSE v
           row   == find_mne(n, mode)
<1>1. Unblanked(typed) # <<>> /\ ~Starts(typed, ".") /\ n # after.mne /\ n \in Branches
  BY DEF Typed, IsBranch
<1>2. typed # <<>>
  BY <1>1 DEF Unblanked
<1>3. image # Rejected /\ listed = dasm_das(org, There) /\ image = Instruction(org, Unblanked(typed)) /\ IsWord(org)
  BY <1>1, <1>2 DEF DasmInv, dasm_as
<1>4. Has(n, mode) /\ image = emit_op(row, off, Width(mode))
  BY <1>3, Accepted DEF Mnemonic, Args
<1>5. IsWord(v)
  BY <1>1, ArgsAreTyped
<1> HIDE DEF n, v, mode
<1>6. row \in vm_op_tbl /\ row.mne = n /\ row.mode = mode
  BY <1>1, <1>4, FoundRow
<1>7. mode = "rel"
  BY <1>1, <1>6, RowMeant DEF Rowed
<1>8. off = Offset(org, v)
  BY <1>7
<1> HIDE DEF row, off
<1>9. IsWord(off)
  BY <1>3, <1>5, <1>8, OffsetIsByte
<1>10. Emits(image, row, off, mode)
  <2>1. off \in Nat
    BY <1>9 DEF IsWord
  <2> QED
    BY <1>4, <2>1, EmittedIs
<1>11. Width(mode) = 2
  BY <1>7 DEF Width
<1>12. Len(image) = 2 /\ image[1] = row.code /\ image[2] = off % 256
  BY <1>10, <1>11 DEF Emits
<1>13. There[1] = row.code /\ There[2] = off % 256
  BY <1>3, <1>12, ThereIs
<1> DEFINE t == Target(org, off)
<1>14. IsWord(t) /\ (t - v) % 256 = 0 /\ (Near(v) => t = v) /\ off % 256 = off
  BY <1>3, <1>5, <1>8, TargetNear DEF Near
<1>15. Follow(org, row, There) = Spaced(<<Num(t)>>)
  <2>1. NumberIn(org, "rel", There) = t
    BY <1>13, <1>14 DEF NumberIn, WordModes
  <2>2. Form("rel", t) = <<Num(t)>>
    BY DEF Form
  <2> HIDE DEF t
  <2> QED
    BY <1>6, <1>7, <2>1, <2>2 DEF Follow
<1> HIDE DEF t
<1>16. listed.line = <<Tok(n)>> \o Spaced(<<Num(t)>>)
  BY <1>3, <1>6, <1>7, <1>13, <1>15, RowIsListed
<1>17. n # "num"
  BY <1>6, NamesAre
<1>18. ValueIn(listed.line) = t
  BY <1>14, <1>16, <1>17, TargetListed
<1> QED
  BY <1>14, <1>18 DEF v

\* A branch within reach is listed with the place that was typed:
\* ListedTargetIsTyped, for every place and every address.
THEOREM BranchesAreListed == DasmSpec => []ListedTargetIsTyped
BY DasmAlways, BranchListed, PTL
=============================================================================
