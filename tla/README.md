# A verification project for DAN64

DAN64 is an 8-bit computer on one AVR micro-controller: firmware in C that draws
a PAL picture line by line from an interrupt, keeps 64KB in a serial SRAM that
the picture and the programs share, reads a PS/2 keyboard, saves and loads
programs as audio, and runs them in a 6502 virtual machine with a few system
calls, a shell and an assembler.

There are no threads and no locks. What runs concurrently is one main program
and three interrupts (the scanline of the picture, the sample of the audio
output, the edge of the audio input), a keyboard whose bytes the main program
has to fetch in time, and the tape. They share flags, indices and one SPI bus.
That, and the arithmetic of a machine of 8 and 16 bits, is what this project is
about.

Paths below are those of the repository; line numbers are in PROJECT.json.

## 1. Inventory

| part | source | state | operations |
|---|---|---|---|
| SRAM bus and video timing | `memory/mem.c`, `video/video.c` | `vsync`, `scanline`, `adj_pal_lines`, TOIE1, the command the chip has latched | `sram_read`, `sram_write`, `sram_set`, `video_wait`, `video_off`, `video_on`, `TIMER1_OVF_vect` |
| Audio output | `storage/storage.c`, `save` in `init/main.c` | `ain_buffer`, `ain_start`, `ain_end`, `_aout_err`, the divider of the interrupt | `save`, `ain_put`, `aout_on`, `aout_off`, `TIMER2_OVF_vect` |
| Audio input | `storage/storage.c`, `load` in `init/main.c` | the same ring, `ain_sync`, `bit` and `byte` of the interrupt, the decoder | `load`, `ain_get`, `ain_on`, `ain_off`, `PCINT1_vect` |
| Storage format | `storage/storage.c` | `decoder_struct` | `encode_header`, `encode_byte`, `encode_end`, `decode` |
| Line editor | `buffered_input`, `scroll_up` in `init/main.c`, cursor in `video/video.c` | the buffer, its length and position, `x`, `y`, the screen, the cursor flag | one step per key |
| Keyboard | `input/keyboard.c` | the USART, `keyb_buffer`, `keyb_shift`, `keyb_released` | `keyboard_poll`, `keyboard_asc`, `keyboard_flush` |
| Memory of the virtual machine | `init/syscall.c` | `local`, the SRAM | `vm_ram_read`, `vm_ram_write`, and the writes to the chip that go past them |
| 6502 virtual machine | `vm/vm.c`, `include/vm.h` | the registers | `vm_init`, `vm_exec`, `cmd_run` |
| System calls | `init/syscall.c` | `r_a`, `buffer`, `prog_exit` | `vm_syscall` |
| Console output | `put_char`, `put_string` in `init/main.c`, `video/video.c` | `x`, `y`, the screen, which is part of the memory | `put_char`, `video_cls`, `video_put_char`, `video_put_tile` |
| Shell | `init/main.c` | `buffer`, one address per command | `main`, `get_param`, `cmd_*` |
| Assembler and disassembler | `dasm/dasm.c` | none, but its table | `dasm_as`, `dasm_das` |
| Data and tools | `include/font.h`, `include/keyb_map.h`, `storage/tools`, `dasm/tools`, `tools`, `cc65`, `vm/test` | none of the machine's | generated tables, command lines on a PC, programs for the machine, a test harness |

How they interact:

- Everything that touches memory (the virtual machine, the shell, the console,
  `load` and `save`) goes through `sram_*`, and so through `video_wait`: it can
  start only while `vsync` is set, and the scanline interrupt, which fetches the
  picture from the same chip, clears `vsync` six lines ahead of the picture.
- `load` and `save` turn the picture off (`video_off`), which also sets `vsync`
  for good, because they need the time; `video_on` gives it back.
- `save` fills a ring that an interrupt empties; `load` empties the same ring,
  which another interrupt fills. Neither disables the interrupt it shares with.
- The keyboard is polled: bytes wait in the USART until somebody asks for a key,
  and nobody does during a transfer, a command or a user program that does not.
- `vm_exec` gets its bytes by `vm_ram_read`, which splits addresses between a
  512 byte array of the micro-controller and the chip; `SYS` calls back into the
  console, the line editor, the keyboard and the storage.

What makes each part correct, and what is hard about it:

| part | correct when | hard because |
|---|---|---|
| SRAM bus | the interrupt never finds the chip selected; a transfer is taken whole; everybody who waits is served | a flag read once, before a burst of up to 64 bytes, stands in for a lock; whether it suffices is a matter of time |
| audio output | the samples of a block are played in order and once, and success is reported only if all were | the interrupt raises an error by itself, between any two steps of `save`; the drain ends by that same error |
| audio input | what is loaded is what was saved, or the load fails; a load always ends | misread pulses, tapes that stop, a ring that drops its oldest byte, state left by an aborted load |
| storage format | every single error is found before it does harm | the length decides how much memory is overwritten, before the parity of the data is seen |
| line editor | the screen shows the buffer, the cursor is where the next character goes | buffer, cursor and screen are updated apart, over wraps and scrolls |
| keyboard | keys come out as typed; a lost byte does no lasting harm | a release is two bytes, and a flush, a full ring or a full USART may take one of them |
| memory of the virtual machine | a program sees one linear memory | an access may fall over the border, and an offset, a pointer and a count are adjusted apart |
| virtual machine | arithmetic is exact, the stack is a stack, returns resume what called | 152 cases that share tails by `goto`; addresses in `int`, registers in bytes |
| console output | the screen shows what was printed, and drawing touches nothing else | cells are bytes of the memory of the program, computed from a cursor the program may set |
| system calls | text goes where it was asked to, and the answer says how much | a call may print the memory it draws on; 16-bit counts answered in 8 bits |
| shell, assembler | a failed parse changes nothing; what is assembled is what is listed and run | casts before range tests; a table written by hand |

The full list of hazards, at the lines where they bite, with the properties that
cover them, is in PROJECT.json.

## 2. Plan

Done, in this order:

1. `SramBus`: the bus, the heart of the design.
2. `AudioRing`, `BoundedFifo` (abstract), `AudioOut`, `Storage`, `AudioIn`.
3. `LineEdit`, `Keyboard`: the two ends of the console.
4. `LinearMemory` (abstract), `VmMemory`, `MemoryProofs` (of the bus and of this
   memory), `Alu`, `Vm6502`.
5. `Isa` (what `vm_exec` decodes), `Dasm` (the assembler, the disassembler and
   their table) and `DasmChecks`, which compares them.
6. `Console`: characters, tabs, new lines and scrolling, by the row of pixels.
7. `Syscalls`: every call of `vm_syscall` over `VmMemory` and `Console`.
8. `Shell`: the command line, over `VmMemory` and `Dasm`.
9. `AudioRingProofs`, `AudioOutProofs`, `AudioInProofs`, `InputProofs`,
   `SyscallsProofs`, `ShellProofs`, `Vm6502Proofs`.

Left out: a `Machine` of `SramBus` with `load` and `save` as its main programs, to see
the rings and the picture together. `SramBus` has `video_off` and `video_on` at any
time, so that it covers the order in which `load` and `save` call them, and what the
rings need of the interrupts is in `AudioOut` and `AudioIn`; the product of the three
would add to the states and little to what is asked of them.

## 3. The models

A module that models code names the functions it models in its header; each
definition has its lines in PROJECT.json. Definitions whose name ends in an
underscore and a word (`NextLine_NoWrap`) are deliberate faults, used to see that
a property would notice; no specification uses them.

**SramBus** models the two users of the bus. `Request`, `VideoWait`, `Select`,
`SendByte` and `Deselect` are a call of `sram_read`, `sram_write` or `sram_set`,
byte by byte; `TimerOverflow` is the whole scanline interrupt, with the line that
is repeated every other frame. The chip is external: it takes three header bytes
and then data, until it is deselected. Time is in `ran`: between two interrupts
the CPU runs at least `StepsPerLine` steps of a transfer, and maybe more.

**AudioRing** is the ring buffer as functions on a record (`Stored`, `Taken`,
`AinFull`, `AinReady`, `Flushed`), shared by the two audio modules and by `Keyboard`,
whose ring works alike;
**BoundedFifo** is what it promises, a queue whose producer waits or whose oldest
element is dropped.

**AudioOut** models `save` with its encoder (a sample is its number) and the
interrupt of timer 2. `Spin` is the wait of `ain_put`, `Loop` the test of the error
between bytes, `KeepError` and `Drain` the end of `save`.

**Storage** is the format: `BlockOf` encodes, `Decode` is one call of `decode`. A byte
is the set of its bits, `Num` and `ByteOf` go between that and a number, and what C
has as loops over bits and bytes are recursive functions (`Worth`, `Parities`).
**AudioIn** puts it to work: `Edge` is the pin change interrupt, which settles for
four edges and then makes bytes of pulses; `Load`, `Start`, `Poll`, `Timeout`, `Get`
and `Finish` are `load`. The tape is external: `Long` says how long its next pulse is.

**LineEdit** has one action per key of `buffered_input`, `Blink` for its counter,
and the screen as a function from cells to characters with the set of inverted
cells.

**Keyboard** has the keyboard and the USART as environment, and `Poll`, `Ask`,
`AscStep` and `Flush` for the program. **MCInput** runs it or `LineEdit`, each by
itself: the one gives keys and the other takes them, in any order.

**VmMemory** has `vm_ram_read` and `vm_ram_write` as operators on the two memories
and as actions, next to the writes that go to the chip directly (`Sram_write`).
**LinearMemory** is what a program is promised.

**Alu** has the arithmetic of `vm_exec` as functions to a value and a set of flags,
**Isa** the 152 opcodes it decodes, with the mode and length of each.
**Vm6502** has the rest: `Operand` and `EffectiveAddr` for the twelve addressing
modes, and one action per kind of instruction: `OnAccumulator`, `OnMemory`,
`OnIndex`, `OnRegisters`, `Branch`, `Jump`, `PushByte`, `PullA`, `PullFlags`, `Call`,
`Return`, `Break`, `ReturnFromBreak`, `Halt`, and five for the system calls, by their
effect on registers and memory. It accesses memory only through the operators of
`VmMemory`. `stacked` and `spilt` are history: the bytes pushed and not yet pulled,
each call and break with its last byte (`Frame`: where it should return to and
with which flags), and whether a push left the stack page. `stacked` holds a page
at most, because the next byte overwrites the oldest: a call whose bytes are gone
has no frame either. A program that moves the stack pointer, or writes to the
stack page by other means, starts them afresh.

**Console** is `put_char` and what it calls, as functions on a record of the chip
and the cursor. A cell is eight bytes of the chip, in eight rows of the picture;
nothing in it knows where the program is, so that a cursor off the grid would
draw over code.

**Syscalls** is `vm_syscall` over both: a call that prints has a step for each
character (`PutNext`, `PutStringNext`), because what it prints may be what it draws
on; `WriteChunk` is the buffer of 64 bytes that `write` goes through; `ReadKey`,
`InputKey` and `InputEnds` take keys when they come. Between its calls a program
writes to memory and to its stack (`Store`, `Push`), and is started again (`Run`).
A word on the stack of the program has its high byte first (`Word`, which is
`addr16(v[1], v[0])`). The line of call 0x21 is edited on the screen it shares with the
program (`InputAppend`, `InputInsert`, `InputErase`, `InputLeft`, `InputRight`), without
the blinking of the cursor, which is in `LineEdit`; `astray` says that an insertion has
taken its end to the last cell of the screen, from where the cursor can leave it. What
`load` and `save` do on the tape is in `AudioIn` and `AudioOut`: here a load leaves any
of a few blocks.

**Dasm** is `dasm_as` and `dasm_das` as functions on lines of tokens, with
all the rows of `vm_op_tbl`, its mistakes included. The search of the table is by
its row count, which is one too many: `after` is the row that the linker happens to
put there. **DasmChecks** types any of `TypedLines` at any of `Addresses`, or finds any
of `BytesThere`, lists what is there (`List`) and types the listing in again
(`AsAgain`), for any of `Afters`; **AluChecks** does one instruction to two bytes.
**MCInstructions** is the two of them side by side, with every form of line.

**Shell** is the command line. `Prompt` reads a line and does all of its command,
`PokeLine` (`Poked`) and `AsLine` (`Assembled`) the second line that `poke` and `as` ask
for, `ProgramWrite` and `ProgramEnds` a program that runs. It works on the chip, as the
code does, and `source` remembers what was assembled and not overwritten since.

Undefined and unspecified behaviour: `addr16(*pt++, *pt++)` has two unordered side
effects on `pt`. The only outcome under which any program runs, the low byte
first, is modelled. The bytes after `vm_op_tbl` are any of a few rows.

## 4. The runs

| run | what it asks | bounds |
|---|---|---|
| `sram_bus` | Do the main program and the scanline interrupt ever meet on the bus, and is everybody served? | the PAL frame of the firmware (312 lines), its transfer sizes 0, 1, 32 and 64, and the slowest CPU the timing assumption allows: 12 steps a line |
| `audio_out` | Does `save` play every sample once and in order, and report success only then? | stages of 4 to 6 samples and a ring of 4 slots: like the firmware's (40 and more samples, 32 slots), a stage does not fit in the ring; up to 3 bytes |
| `audio_out_hang` | Does `save` always return? It does not. | the same |
| `audio_in` | Is what is loaded what was saved, whatever the tape does? | bytes of 2 bits, every payload of 0, 1 or 2 bytes, at most one misread pulse, a ring of 3 slots, tapes that stop anywhere |
| `input` | Does the screen show what will be returned, with the cursor at its place, and does it fit? Do keys come out as typed, and does shift recover from a loss? | 3 by 3 cells, two characters, sizes 0, 3 and 6 with a buffer of 6, lines that begin in any cell: a line spans up to three rows, and scrolls while it is edited; one letter, one mute key, one shift key, four events, a ring of 3 and a USART of 1: both overflow |
| `input_zero` | Is a line within the limit of call 0x21 for every size? It is not for 0. | the same screen, sizes 0 and 3, a limit of 3 and a buffer of 6 |
| `vm_memory` | Are the two memories one to the program? | 3 local bytes of 6, accesses of up to 2 bytes: on either side, over the border, over the end |
| `instructions` | Is the arithmetic exact; is what is assembled what runs, and is the listing in step with it? | every accumulator, operand and carry; every name with every form of operand, numbers at the limits of a byte, a word and a branch, at three addresses; every opcode, with five values for the two bytes after it; three rows after the table |
| `dasm_branch` | Does a branch go to the address it was typed with? It does not. | the same |
| `vm_6502` | Is the stack a stack, do returns resume their callers, and do whole programs give the right result? | 6860 programs of four pieces (pushes, pulls, calls, breaks, returns, `TXS` to the two lowest places, a store into the stack page, input calls), 35 products, copies between seven places in both memories and over their border; 32 instructions, which every product and copy ends within |
| `syscalls` | Is the screen a terminal, does drawing keep the program, and does text arrive? | bytes below 12, 144 bytes of memory of which 24 are a screen of 4 by 3 characters; three calls in any order, of all the calls there are, with a text over the end of memory, one on the screen itself, writes of 3 and 13 characters, a read into the first cells, and lines of sizes 0, 1 and 3 (the limit) in a buffer of 4, edited with every key |
| `shell` | Do the commands keep in step with each other and with memory? | four commands out of some sixty lines with every shape of parameters, at 0x1a00, over the border at 0x200 and at 0xffff; two writes of programs; listings of six lines (twelve in the firmware) |

Why the bounds are enough: each is chosen so that every limit is met (a full ring,
a wrapped index, a line longer than the screen is wide, the border of the two
memories, the bottom of the stack page, a scroll in the middle of a call), and the
sizes of the firmware only repeat what happens there. `MaxSteps`, `MaxText`,
`MaxEvents`, `MaxLen`, `MaxFlips`, `MaxCalls` and `MaxCommands` cap what is unbounded,
and appear as guards. Deadlock is checked except in the runs that end with such a
bound or after a single instruction: `instructions`, `dasm_branch`, `vm_6502`,
`syscalls` and `shell`.

The failing runs state a line of the manual or of a comment (the findings of
PROJECT.json quote them):

- `audio_out_hang`: after an underrun in the middle of a stage, `save` waits for
  room in the ring for ever, with the screen off.
- `input_zero`: a program that asks for a line of size 0 gets one that is longer than
  the limit of call 0x21: the test for a full buffer is for equality.
- `dasm_branch`: a branch is assembled to go to the byte after its target. The
  listing counts the same way, so that it does not show.

The passing runs state what holds apart from such a case, and say so:

- `StaysOnScreen`, `TextShown`, `OneCursor` and `RestKept`, until an insertion went
  `astray`: one that ends in the last cell of the screen does not scroll it, and the
  cursor can then leave the screen; and the column is wrapped once where a long
  line that begins far to the right needs two wraps.
- `SaveEndsOrUnderruns`, unless the ring ran empty too soon.
- `StackIsLifo` and `FramesResume`, unless a push of two or three bytes has left its
  page (`spilt`): with `r_sp` at 0 or 1 a call or a break writes to the end of memory.
- `InputLimited`, for every size but 0.
- `WritesStayInBlock` bounds a block of no bytes by what follows its header, and not by
  its length: the count is compared after it was raised, so that an empty block is
  loaded as one of 65536 bytes. Its parity goes to the destination, and the load ends
  by giving up, which `CleanTapeLoads` allows for.
- `AssembledIsRun` and `ListingReassembles`, apart from `Misnamed` and `Shadowed`: six
  opcodes that `vm_exec` runs as indexed indirect have zero page indexed as their
  mode in the table, and hide the ones that run in that mode from the assembler;
  0x3d has the name `ORA` for `AND`.
- `ListingInStep`, apart from the name of 0x3d and the names that are read after the
  table.
- `DrawingKeepsMemory` and `ShowsPrinted`, until a line of call 0x21 goes `astray`: an
  insertion that ends in the last cell, and then the right arrow, takes the cursor to
  row 24, and the next key is drawn at 0x1a00, where programs are. `syscalls` reaches
  it: without the exception `DrawingKeepsMemory` fails.
- `TextMoved`, unless the text is on the screen, or a write goes over the end of
  memory (there it goes on in the chip below 0x200, which no program sees), or a
  call after a line that went astray draws over it.
- `ShowsPrinted` compares the cells until a line is edited inside or the program writes
  to the screen itself, and from then on the cursor only; `TextShown` has the cells of
  edited lines.

More observations, without a property. The manual says that put string takes 0x09 "as 8
spaces" (`docs/manual.markdown:358-359`); `put_char` goes to the next tab stop and draws
nothing, and `ShowsPrinted` says so. The manual has call 0x21 answer a count that
includes the zero (`docs/manual.markdown:399`); the code leaves the zero out of the count
and does not store it, and `TextMoved` says so. A write or read of
256 characters answers 0; `save` reports a first address that is no number as
`ERR: CMD` and not `ERR: ADDR`, because -1 became a position in the line; the end of a
`save` is exclusive, so that the byte at 0xffff is never saved; `peek`, `poke`, `list`
and `as` work on the chip, so that below 0x200 they show and set bytes that no
program sees (`ProgramRunsSource` says from `PROG_START` on).

## 5. Fairness

- `SramBus`: weak fairness of the main program and of the timer. The CPU executes
  and timer 1 counts, whatever the program does; a disabled interrupt
  (`video_off`) disables its action.
- `AudioOut`: weak fairness of `save` once called, and of timer 2 while enabled.
  Nobody has to call `save`.
- `AudioIn`: weak fairness of `load` once it has been told to start. Nobody has to
  press a key or play the tape.
- The other specifications are safety only and assume nothing.

## 6. What is proved

TLAPS checks these for every value of the constants that the named assumptions
allow.

**MemoryProofs**, the bus. `TypeCorrect`, `NoStrayWriteEver`, `BurstsIntact` and
`PicturesIntact`: for every frame layout (`FrameAssumption`), every set of transfer
sizes and every CPU speed such that the longest transfer fits in the lines between
the one that clears `vsync` and the first visible one (`TimingAssumption`). None of
the properties is inductive, because none says anything of time. The invariant
`IInv` adds three things: `VsyncInv`, `vsync` is clear in the quiet lines; `LeadInv`,
a transfer that is still under way in the quiet lines has made `StepsPerLine` steps
for each line that went by; and `ChipInv`, what the chip has seen is what was sent.
When a visible line is due, `LeadInv` and the timing assumption leave no transfer
that could still be under way (`NoTransferOnVisibleLine`), and the rest follows
action by action.

**AudioRingProofs** has what the proofs about its users share: what each function of
the ring does to the sequence it holds, for every size (`FlushedIsEmpty`,
`TakenIsTail`, `StoredIsAppend`), and that a function defined by recursion on the
numbers up to n exists (`LeastNumber`, `RecursionExists`).

**AudioOutProofs.** `SaveTypeCorrect`, `PlayedInOrder`, `SavedIsPlayed` and
`BufferIsFifo`, for every size of the ring, of the stages and of the block. That a
save which answers 0 was played to its end is the delicate one: the interrupt ends
the drain by raising the same error that an underrun raises, and `save` looks at it
three times. `IInv` adds `QueueInv`, what was played and what is in the ring together
are the samples put so far; `StageInv`, the sample each stage ends with; and `EndInv`,
an error raised after `save` kept its copy was raised on an empty ring.

**AudioInProofs.** `BufferIsFifo` and `GetFindsByte`, for every size of the ring and of
a byte. The interrupt moves the index that `ain_get` also moves; `RingInv` says that
between the test and the `ain_get` the ring never becomes empty.

`LoadedIsSaved`, `CleanLoads` and `WritesStay`, for every payload whose length fits the
header, 0 included, every size of a byte and any number of settling edges (`StorageAssumption`,
`AudioInAssumption`). None of the three is inductive. `BlockInv` says that, while
no byte was lost and one pulse at most misread, there are a byte `at` and a bit
`wrong` such that the interrupt has `made` the first bytes of the block with that bit
turned over, of which load has `taken` some and the rest is in the ring (`Stream`),
and that the decoder and what it wrote are what the first `taken` bytes make of them
(`Progress`: a case for each state, one for a load that failed, and `Endless`, for a
block of no bytes whose header was accepted).
`ProgressIsMade` is the argument: a wrong bit turns over one parity and nothing that
is compared with it, and no other length reaches the data. The bytes of numbers
(`LengthInHeader`) and the parities are recursive functions; what they are is shown by
the least number for which it is not (`RecursionExists`, `RecursionIsUnique`).

**InputProofs**, the line editor. `CursorFollows` and `InputIsLimited`, for every
screen, every buffer and every size within the limit, 0 included: the line fits in the
size it was asked for, unless that is 0, and in the buffer always. Counting cells by
rows (`Lin`) turns the wraps and scrolls into sums; `IInv` adds that the buffer keeps
room for its zero, and that every arrow, deletion and insertion moves `at`, `pos` and
`home` by the same number of cells, astray or not.

`TextIsShown`, `OneCursorOnly`, `StaysOn` and `RestOfScreen`, for every screen with a row
to spare beside the longest line (`ScreenAssumption`; the firmware asks for 64
characters on 24 rows of 32). `SInv` has them together, because each needs the
others: a character is drawn in its cell only if the cursor is on the screen, the
cursor is on it only if the line is (`LineShown`), and a scroll moves the inverted cell
only if it knows which one it is (`LitMatches`).

**InputProofs**, the keyboard. `TypesWhatIsMeant`, `NoKeyStaysBehind` and
`ShiftIsPutRight`, for every size of the ring and of the USART, any keys and any
number of events (`KeyboardAssumption`, `RingAssumption`: the scan codes of letters,
mute keys, shift keys and 0xf0 differ). The properties speak of what has been read;
the invariant `KInv` must speak of what has not: there is a run of the decoder over
all the bytes that are on their way (`Run` over `Pending`: ring, USART and wire, oldest
first) that starts in the state the flags are in and ends with no release half read,
with shift as the keyboard has it, and with everything that was meant returned
(`Sound`). After a loss the run says nothing (`LossAgrees`, where it takes
`RecursionExists` to have one), until a shift key goes down and up (`PressAgrees`,
`ReleaseAgrees`). A poll moves a byte and leaves the run alone (`PollMoves`), a step of
`keyboard_asc` drops its first state (`DecodedAgrees`).

**MemoryProofs**, the memory of the virtual machine. `MemoryTypeCorrect` and
`MemoryIsLinear`: `VmMemory` implements `LinearMemory` for every size of the local
memory, of the chip and of the longest access, as long as an access is no longer than
the local memory and does not reach from the border to the end of the chip
(`MemoryAssumption`; in the firmware 512, 65536 and 255). The type invariant is
inductive and is all the step needs. The argument goes through what a write leaves at
one address: lemmas give the value of each byte of `LocalWritten` and `SramWritten`, for
an access on either side and for one that is split, and the three actions map to a read,
a write and a stutter or a write of what a program can see.

**Vm6502Proofs.** `MachineInvariant`, `LastInFirstOut` and `CallsAndBreaksResume`, for
any contents of memory, any program and so any order of the 152 instructions, any
answers, texts and files (`VmAssumption`: they are bytes, and a text or a file is
shorter than 0x10000). Neither property is inductive. `VInv` has the types of
registers and memories, which every outcome of an instruction must keep (the
arithmetic, the modes, the tables of `Isa`), and `StackInv`: the bytes in `stacked` are
the ones above the stack pointer (`Holding`), and each frame is the address in its
two bytes, and the flags in the third (`Saving`). A push keeps that because a page
holds what is stacked and the pointer goes round it; a store keeps it because it is
outside the page or starts the history afresh; and a return reads the bytes of its frame
in one access, which goes on past the end of the page: so `Saving` says that no frame
lies across it. A push that crosses it, where the code writes below the page,
sets `spilt`, and both properties say nothing from then on until the history starts
afresh. The memory is read and written
through lemmas of its own on `VmMemory`, at both sides of the border at 0x200.

**SyscallsProofs.** `CallsInvariant`, `DrawingIsHarmless`, `TextIsMoved` and
`ScreenIsPrinted`. For the first two: whatever a program has in memory and on its stack
and wherever it puts the cursor, the calls that draw change only the screen, until a
line goes astray, and the calls that store text only the bytes they were given, for
every size of byte, screen, character and font (`ConsoleAssumption`,
`SyscallsAssumption`). `IInv` says that both memories hold bytes and that the cursor is
on the screen between two characters, until a line goes astray; inside `put_char` it may
be past the right edge, and `SettledDraws` brings it back. `LineInv` says the same of a
line that is edited: all of it is on the screen, with room for the cursor after it, and
that is what an insertion in the last cell takes away. Moving characters and the cursor
then stays on the screen (`PutAllDraws`). `PixelInVideo` is the sum that matters: the
rows of a cell on the grid are in the memory of the screen. `TextInv` adds, for a call
under way, that what it has shown or taken so far is what memory holds from its first
address on, and what it has still to show is what `buffer` got from there: drawing keeps
that as long as the text is not on the screen (`KeptBy`), and a text that goes over the
border of the two memories is read a byte at a time or a chunk at a time.
`ScreenIsPrinted` is about the other side of a call, what the screen shows.
`ShowsPrinted` compares it with a roll of paper and says nothing of a single step, so
that `PrintInv` adds the paper itself: every event has its place on it, none is below
the window, and each cell of the screen shows the last event on the cell of the paper
behind it (`Shows`). `NextEvent` is the step, for any event that moves the window by no
line or one; `TileCell`, `ScrollCell` and `ClsCell` give the cells of the screen (no two
of them share a byte: `CellsApart`), and `PutCharPrinted` follows `put_char` on both
sides, a tabulator that passes the right edge and the scroll at the last line included.
What a program stores on the screen itself ends the comparison until the next fill
(`plain`), and so does a key that edits a line, from which on the paper has the cursor
only (`EditedPrint`). `OnePaper` says, by the least place at which two would differ,
that the recursion of `Paper` has one value.

**ShellProofs.** `RunsWhatWasAssembled`: the program fetches what was assembled,
whatever is typed, loaded and run in between (`ScreenAssumption`, `LinesAssumption`,
`DataAssumption`, `BlocksAssumption`, `WritesAssumption`). The two sides differ: the
shell writes to the chip, which goes on at its first byte after the last, and the
program fetches through two memories. `IInv` adds that the chip holds the bytes of
every instruction left in `source`, none of them on the screen (`Mirrors`), and that
`poke` and `as` stand at an address (`StaticInv`); `IntactMirrors` is the argument, that
a transfer disturbs nothing it does not touch, over the end of memory too.
`RefusedChangesNothing` follows action by action: every error leaves the memory and
the kept addresses as they were, an address that `get_param` could not read included.
`OnlyTypedIsSaved` takes the range that `save` writes back to the line: `get_param`
passes blanks, so that its first and second value are the first and second number
of the line, and what is left out is the start or the end of programs.
`ListingFollowsSource` adds to `IInv` that every entry of `source` is one instruction
to the disassembler (`Readable`), from where a listing starts at one. The assembler
finds a row by name and mode and the disassembler by opcode: `TableFits` says of
the whole table that the two agree about the length, and as what is read after the
last row depends on the build, the theorem asks that it is no row that disagrees with
one of the table (`AfterFits`; in `MCShell` it is none). The listing, a recursive
function, is walked by the least row at which it would leave the source
(`ListedIsWalked`); `ListAssumption` says that it has lines.
`DataAssumption` says that a line of data gives bytes: it follows from the folds of
`Data`, whose operators the prover cannot instantiate, and TLC evaluates it for the
lines of `MCShell`.

ShellProofs has the instructions too, apart from the shell. `SumsAreExact`,
`OverflowIsOutOfRange` and `ComparesAsSubtracts` are arithmetic, one lemma for each
operation, the decimal ones by their digits. The rest is about `DasmSpec`, for any
lines, any address, any bytes and any row after the table that is one
(`TypingAssumption`, `PlacesAssumption`, `BytesAssumption`, `AfterAssumption`;
`TypedDataAssumption` is to typed lines what `DataAssumption` is to the shell's).
`DasmInv` only says that what was assembled and listed is what `dasm_as` and
`dasm_das` made of the line and the bytes; the work is in the functions:

- Row and column of an opcode give its name and mode (`NameAt`, `ModeAt`), and every
  instruction is `Placed`: so no two share an opcode, and `Decode` has one value.
- A row of the table is `Meant` to be an instruction: name by name, the opcodes of
  `OperandRows` are those of the families of `Isa`, but for the seven of `Misnamed`
  (`RowMeant`, `OperandsAgree`), and every opcode has one row (`CodedIs`). With
  `LengthOfRow`, this is `ListingsKeepStep`.
- `find_mne` finds a row of the name and the mode asked for (`FoundRow`), and `ModeOf`
  asks for a mode that reads what was written (`ModeIs`): `AssembledInstructionsRun`.
- What is listed reads as what it was made of: a blank is passed over
  (`SpacedReads`), each mode has its shape and its number (`FormIs`), the shape asks
  for that mode again or a shorter one (`ModeBack`), the row is the first of its
  name and mode unless it is `Shadowed` (`FindIs`), and the bytes of the number are
  those that were there (`EmitsBack`, `TargetBack`): `ListingsReassemble`.
- A branch is listed by the row it was assembled with, and its target differs from
  what was typed by a multiple of 256, or not at all when the distance is that of a
  signed byte (`TargetNear`): `BranchesAreListed`.

Only model-checked: liveness under fairness and everything that needs ENABLED, which
the prover does not do (`RequestServed`, `SaveEndsOrUnderruns`, `LoadEnds`), and results
of fixed programs (`ProgramsCompute`), which are induction over the steps of a run.

## 7. What is not modelled

- The analogue side, and the exact timing of interrupts in cycles: `SramBus` takes
  a lower bound on the steps per line as a parameter, and the other modules leave
  the order of main program and interrupts open altogether.
- The rows of pixels in `LineEdit`, where a cell is a character and whether it is
  inverted; `Console` has them.
- The text that the shell prints, and what it draws between 0x200 and the start of
  programs: in `Shell` all of that memory reads as one byte.
- The font and the key map (generated tables of data), the tools for the PC (command
  lines around the encoder and the assembler), the examples and library for cc65
  (programs that run inside the machine), and the test harness of the virtual
  machine, which brings a memory of its own.
