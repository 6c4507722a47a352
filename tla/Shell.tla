------------------------------- MODULE Shell --------------------------------
(***************************************************************************)
(* The command line (main and cmd_* in init/main.c) over the two memories  *)
(* of the virtual machine.  peek, poke, list and as keep the address where *)
(* they stopped, each its own; poke and as ask for a second line.          *)
(*                                                                         *)
(* A line is [name, rest]: the name of a command or another word, in any   *)
(* case, and the tokens (see Dasm) that come right after it, a number      *)
(* being hexadecimal.  The history is source, what was assembled and not   *)
(* overwritten since.                                                      *)
(*                                                                         *)
(* Whatever the shell prints is drawn in the chip, from 0x200 up to where  *)
(* programs begin (see Syscalls).  The model keeps nothing there, and has  *)
(* list read the same byte from all of it.                                 *)
(***************************************************************************)
EXTENDS Dasm

CONSTANTS
  PROG_START,     \* 0x1a00
  ListLines,      \* lines of a listing, 12
  PeekBytes,      \* bytes peek shows, 8 lines of 6
  Pixels,         \* what list finds on the screen
  CommandLines,   \* what may be typed at the prompt
  AsLines,        \* what may be typed for as,
  PokeLines,      \* and for poke, in two characters
  Blocks,         \* what a tape may hold
  ProgramWrites,  \* what a program may write: [addr, src]
  MaxCommands     \* bound: lines at the prompt and steps of programs

VARIABLES
  local, sram,  \* the memories, sparse
  static,    \* the static addr of peek, poke, list and as
  reader,    \* what reads the next line: the prompt, poke, as or a program
  said,      \* how the last command ended
  listing,   \* what list has just shown: [addr, line, len]
  saved,     \* the block just given to save: [start, end], and the line
  source,    \* a function from addresses to the bytes of instructions
  commands   \* how many there were, up to MaxCommands

M == INSTANCE VmMemory
       WITH LocalSize <- 512, MemSize <- 65536, Byte <- 0..255, MaxAccess <- 255, dst <- <<>>

ASSUME ScreenAssumption == PROG_START \in M!Addr /\ 512 <= PROG_START /\ Pixels \in 0..255
ASSUME ListAssumption == ListLines \in Nat \ {0}
ASSUME LinesAssumption ==
  /\ \A line \in CommandLines : line.rest \in Seq(Tokens)
  /\ AsLines \cup PokeLines \subseteq Seq(Tokens)
ASSUME DataAssumption ==
  \A tokens \in AsLines : Starts(tokens, ".") => Data(Tail(Unblanked(tokens))) \in Seq(0..255)
ASSUME BlocksAssumption == Blocks \subseteq Seq(0..255)
ASSUME WritesAssumption == ProgramWrites \subseteq [addr : M!Addr, src : Seq(0..255)]

memory == <<local, sram, source>>
vars   == <<memory, static, reader, said, listing, saved, commands, after>>

-----------------------------------------------------------------------------
(* Memory.                                                                 *)

Touched(addr, src) == {M!SramAddr(addr, i) : i \in 1..Len(src)}
Covers(addr, bytes, cells) == Touched(addr, bytes) \cap cells # {}

\* source without what overlaps the cells.
Intact(cells) ==
  LET left == {a \in DOMAIN source : ~Covers(a, source[a], cells)}
  IN  [a \in left |-> source[a]]

\* An address has 16 bits.
Wrapped(addr) == addr % 65536

Video == 512..(PROG_START - 1)
Lasting(f) == [a \in DOMAIN f \ Video |-> f[a]]

\* The shell reads and writes the chip.
sram_read(addr, n) ==
  [i \in 1..n |-> LET a == M!SramAddr(addr, i) IN IF a \in Video THEN Pixels ELSE M!Holds(sram, a)]
sram_write(addr, src) ==
  /\ sram' = Lasting(M!Stored(sram, addr, src))
  /\ UNCHANGED local

-----------------------------------------------------------------------------
(* A line at the prompt.                                                   *)

WithParams    == {"peek", "poke", "save", "list", "as"}
WithoutParams == {"run", "cls", "load", "help"}

NeverSaved == [start |-> 0, end |-> 1, rest |-> <<>>]

\* A command with parameters needs only begin the line.
Matches(line) ==
  line.name \in WithParams \/ (line.name \in WithoutParams /\ line.rest = <<>>)

Quiet      == listing' = <<>> /\ saved' = NeverSaved
Says(what) == said' = what /\ UNCHANGED after
Keeps      == UNCHANGED <<memory, static, reader>> /\ Quiet
Ends(how)  == Says(how) /\ Keeps

\* 0 or a blank at the start of rest.
Separated(rest) == rest # <<>> => Head(rest).t = "sp"

\* What follows the blanks.
Eaten(rest) ==
  LET first == SelectInSeq(rest, LAMBDA k : k.t # "sp")
  IN  IF first = 0 THEN <<>> ELSE SubSeq(rest, first, Len(rest))

StartsWithNumber(tokens) == tokens # <<>> /\ Head(tokens).t = "num"

get_param_Cleared(rest, addr) ==
  LET r == Eaten(rest)
  IN  IF StartsWithNumber(r) THEN [ret |-> "some", addr |-> Value(Head(r)), left |-> Tail(r)]
      ELSE [ret |-> IF r = <<>> THEN "none" ELSE "bad", addr |-> IF r = <<>> THEN addr ELSE 0, left |-> rest]

\* Whether there is an address, what the caller has in addr after the call,
\* and what is left of the line.
get_param(rest, addr) ==
  LET r == Eaten(rest)
  IN  CASE r = <<>>            -> [ret |-> "none", addr |-> addr, left |-> rest]
        [] StartsWithNumber(r) -> [ret |-> "some", addr |-> Value(Head(r)), left |-> Tail(r)]
        [] OTHER               -> [ret |-> "bad", addr |-> addr, left |-> rest]

\* peek, poke, list and as, up to where they do something with their address;
\* get_param has had it to write to.
Sets(name, addr) == static' = [static EXCEPT ![name] = addr]
Address(line)    == get_param(line.rest, static[line.name]).addr
BadAddress(line) == get_param(line.rest, static[line.name]).ret = "bad"
Refuses(line) ==
  \/ ~Separated(line.rest) /\ Ends("ERR: CMD")
  \/ /\ Separated(line.rest) /\ BadAddress(line)
     /\ Says("ERR: ADDR") /\ Quiet
     /\ Sets(line.name, Address(line))
     /\ UNCHANGED <<memory, reader>>
Accepts(line) == Separated(line.rest) /\ ~BadAddress(line)

cmd_peek(line) ==
  /\ line.name = "peek"
  /\ \/ Refuses(line)
     \/ /\ Accepts(line)
        /\ Sets("peek", Wrapped(Address(line) + PeekBytes))
        /\ Says("bytes") /\ Quiet
        /\ UNCHANGED <<memory, reader>>

\* What poke and as ask for is a line of its own.
Asks(line) ==
  /\ Accepts(line)
  /\ Sets(line.name, Address(line))
  /\ reader' = line.name /\ Says("") /\ Quiet
  /\ UNCHANGED memory

cmd_poke(line) == line.name = "poke" /\ (Refuses(line) \/ Asks(line))
cmd_as(line)   == line.name = "as" /\ (Refuses(line) \/ Asks(line))

\* The line at an address, and where the next one is.
LineAt(addr) ==
  LET das == dasm_das(addr, sram_read(addr, 3)) IN [addr |-> addr, line |-> das.line, len |-> das.len]
Following_Three(entry) == Wrapped(entry.addr + 3)
Following(entry) == Wrapped(entry.addr + entry.len)

Listed(addr, n) ==
  LET lines[i \in 1..n] == IF i = 1 THEN LineAt(addr) ELSE LineAt(Following(lines[i - 1]))
  IN  lines

cmd_list(line) ==
  /\ line.name = "list"
  /\ \/ Refuses(line)
     \/ /\ Accepts(line)
        /\ listing' = Listed(Address(line), ListLines)
        /\ Sets("list", Following(listing'[ListLines]))
        /\ Says("lines") /\ saved' = NeverSaved
        /\ UNCHANGED <<memory, reader>>

\* Where save looks for its second address.  next_param is a byte and is never
\* below 0: an error of -1 is the position of the last letter of the command.
LastLetter == <<Tok("e")>>
AfterFirst(first) == IF first.ret = "bad" THEN LastLetter ELSE first.left

LastAddress == 65535

BadRange_Above(start, end) == start > end
BadRange(start, end) == start >= end

Saved(range) ==
  /\ saved' = range
  /\ Says("saved") \/ Says("ERR: IO")
  /\ listing' = <<>>
  /\ UNCHANGED <<memory, static, reader>>

cmd_save(line) ==
  /\ line.name = "save"
  /\ LET first  == get_param(line.rest, PROG_START)
         left   == AfterFirst(first)
         second == get_param(left, LastAddress)
         formed == Separated(line.rest) /\ Separated(left)
         bad    == second.ret = "bad" \/ BadRange(first.addr, second.addr)
     IN  \/ ~formed /\ Ends("ERR: CMD")
         \/ formed /\ bad /\ Ends("ERR: ADDR")
         \/ formed /\ ~bad /\ Ends("cancelled")
         \/ formed /\ ~bad /\ Saved([start |-> first.addr, end |-> second.addr, rest |-> line.rest])

\* A load that fails has written the beginning of the block.
cmd_load(line) ==
  /\ line.name = "load" /\ line.rest = <<>>
  /\ \/ Ends("cancelled")
     \/ \E block \in Blocks :
          /\ sram_write(PROG_START, block)
          /\ source' = Intact(Touched(PROG_START, block))
          /\ Says("loaded") \/ Says("ERR: IO")
          /\ Quiet
          /\ UNCHANGED <<static, reader>>

cmd_run(line) ==
  /\ line.name = "run" /\ line.rest = <<>>
  /\ reader' = "program" /\ Says("") /\ Quiet
  /\ UNCHANGED <<memory, static>>

cmd_cls(line)  == line.name = "cls" /\ line.rest = <<>> /\ Ends("")
cmd_help(line) == line.name = "help" /\ line.rest = <<>> /\ Ends("help")

Prompt(line) ==
  /\ reader = "prompt" /\ commands < MaxCommands /\ commands' = commands + 1
  /\ \/ ~Matches(line) /\ Ends("ERR: CMD")
     \/ cmd_peek(line) \/ cmd_poke(line) \/ cmd_list(line) \/ cmd_as(line) \/ cmd_save(line)
     \/ cmd_load(line) \/ cmd_run(line) \/ cmd_cls(line) \/ cmd_help(line)

-----------------------------------------------------------------------------
(* The second line of poke and as, and a program.                          *)

Poked(addr, byte) ==
  /\ sram_write(addr, <<byte>>)
  /\ source' = Intact({addr})
  /\ Sets("poke", Wrapped(addr + 1))

\* An empty line, or one without a number, is no value.
PokeLine(tokens) ==
  /\ reader = "poke"
  /\ reader' = "prompt" /\ Says("") /\ Quiet
  /\ LET r == Eaten(tokens)
     IN  \/ ~StartsWithNumber(r) /\ UNCHANGED <<memory, static>>
         \/ StartsWithNumber(r) /\ Poked(static["poke"], Value(Head(r)) % 256)
  /\ UNCHANGED commands

Written_Three(bytes) == IF Len(bytes) < 3 THEN SubSeq(bytes \o <<0, 0>>, 1, 3) ELSE bytes
\* op_len bytes of op.
Written(bytes) == bytes

\* A line that starts with a dot is data, and gives no instruction.
Assembled(addr, bytes, isData) ==
  LET kept == Intact(Touched(addr, bytes))
  IN  /\ sram_write(addr, Written(bytes))
      /\ Sets("as", Wrapped(addr + Len(bytes)))
      /\ source' = IF isData \/ Covers(addr, bytes, Video) THEN kept
                   ELSE [a \in DOMAIN kept \cup {addr} |-> IF a = addr THEN bytes ELSE kept[a]]

AsLine(tokens) ==
  /\ reader = "as"
  /\ reader' = "prompt" /\ Quiet
  /\ LET bytes == dasm_as(static["as"], tokens)
     IN  \/ /\ bytes = Rejected
            /\ Says(IF tokens = <<>> THEN "" ELSE "ERR: SYNTAX")
            /\ UNCHANGED <<memory, static>>
         \/ /\ bytes # Rejected
            /\ Assembled(static["as"], bytes, Starts(tokens, "."))
            /\ Says("Ok")
  /\ UNCHANGED commands

ProgramWrite(w) ==
  /\ reader = "program" /\ commands < MaxCommands /\ commands' = commands + 1
  /\ local' = M!LocalWritten(local, w.addr, w.src)
  /\ sram' = Lasting(M!SramWritten(sram, w.addr, w.src))
  /\ LET part == M!Part(w.addr, Len(w.src))
     IN  source' = Intact(Touched(M!SramStart(w.addr, part), SubSeq(w.src, part + 1, Len(w.src))))
  /\ Says("") /\ Quiet
  /\ UNCHANGED <<static, reader>>

ProgramEnds ==
  /\ reader = "program"
  /\ reader' = "prompt" /\ Says("") /\ Quiet
  /\ UNCHANGED <<memory, static, commands>>

-----------------------------------------------------------------------------
Init ==
  /\ local = [a \in {} |-> 0] /\ sram = [a \in {} |-> 0] /\ source = [a \in {} |-> <<>>]
  /\ static = [peek |-> 0, poke |-> 0, list |-> PROG_START, as |-> PROG_START]
  /\ reader = "prompt" /\ said = "" /\ listing = <<>> /\ saved = NeverSaved
  /\ commands = 0

Next ==
  \/ \E line \in CommandLines : Prompt(line)
  \/ \E tokens \in PokeLines : PokeLine(tokens)
  \/ \E tokens \in AsLines : AsLine(tokens)
  \/ \E w \in ProgramWrites : ProgramWrite(w)
  \/ ProgramEnds

Spec == Init /\ [][Next]_vars

-----------------------------------------------------------------------------
(* Properties.                                                             *)

\* A listing that comes to an instruction typed for as, by whatever route and
\* whatever was poked, loaded or run in between, shows that instruction and
\* goes on right after it.
ListingWalksSource ==
  \A k \in 1..Len(listing) :
    listing[k].addr \in DOMAIN source =>
      LET bytes == source[listing[k].addr]
      IN  /\ listing[k].len = Len(bytes)
          /\ k < Len(listing) => listing[k + 1].addr = Wrapped(listing[k].addr + Len(bytes))
          /\ listing[k].line = dasm_das(listing[k].addr, SubSeq(bytes \o <<0, 0>>, 1, 3)).line

\* From PROG_START on, and over the end of memory, vm_exec fetches what was
\* assembled, whatever the program has written to its own part of memory.
ProgramRunsSource ==
  \A a \in DOMAIN source :
    a >= PROG_START => source[a] = M!VmRead(local, sram, a, Len(source[a]))

Errors == {"ERR: CMD", "ERR: ADDR", "ERR: SYNTAX"}

\* A line that is refused changes no memory and no address a later command
\* starts from, and saves nothing.
FailedCommandKeeps ==
  [][said' \in Errors => UNCHANGED <<memory, static>> /\ saved' = NeverSaved]_vars

\* Where the numbers of a line are.
Numbers(rest) == {i \in 1..Len(rest) : rest[i].t = "num"}

\* What is saved is what was typed: never an empty block, and never one with a
\* default for an address that was typed wrong, although the error of the
\* first get_param is not seen.
SavesWhatWasTyped ==
  /\ saved.start < saved.end
  /\ saved # NeverSaved =>
       LET first  == Numbers(saved.rest)
           second == {i \in first : i > Min(first)}
       IN  /\ saved.start = (IF first = {} THEN PROG_START ELSE Value(saved.rest[Min(first)]))
           /\ saved.end = (IF second = {} THEN LastAddress ELSE Value(saved.rest[Min(second)]))
           /\ \A i \in 1..Len(saved.rest) :
                (saved.rest[i].t \notin {"num", "sp"}) => second # {}
=============================================================================
