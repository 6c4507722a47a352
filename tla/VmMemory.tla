------------------------------ MODULE VmMemory ------------------------------
(***************************************************************************)
(* The memory of the virtual machine (init/syscall.c): the zero page and   *)
(* the stack are an array of the micro-controller, local, and the rest is  *)
(* the serial SRAM.  vm_ram_read and vm_ram_write split an access that     *)
(* begins in the one and ends in the other.  The chip goes on at its first *)
(* byte when an access runs over its last.  A memory is a function; where  *)
(* it is not defined it holds 0, so that Vm6502 may keep it small.         *)
(***************************************************************************)
EXTENDS Integers, Sequences

CONSTANTS
  LocalSize,  \* bytes of local, 512
  MemSize,    \* bytes of the SRAM, 0x10000
  Byte,       \* what a byte holds, 0..255
  MaxAccess   \* the longest access, 255: its size is a byte

ASSUME MemoryAssumption ==
  /\ LocalSize \in Nat /\ MemSize \in Nat /\ MaxAccess \in Nat
  /\ 0 < MaxAccess /\ MaxAccess <= LocalSize /\ LocalSize + MaxAccess <= MemSize
  /\ 0 \in Byte

Addr   == 0..(MemSize - 1)
Locals == 0..(LocalSize - 1)
Strings == UNION {[1..n -> Byte] : n \in 0..MaxAccess}

-----------------------------------------------------------------------------
(* The accesses, as operators on the two memories.                         *)

Holds(f, a) == IF a \in DOMAIN f THEN f[a] ELSE 0

\* The address of byte i, counted from 1, of a transfer that starts at a.
SramAddr(a, i) == IF a + i <= MemSize THEN a + i - 1 ELSE a + i - 1 - MemSize

\* Which byte of that transfer goes to address b.
ByteAt(a, b) == IF a <= b THEN b - a + 1 ELSE b - a + 1 + MemSize

\* f with bytes stored from address start on, once round the chip if need be.
Stored(f, start, bytes) ==
  [a \in DOMAIN f \cup {SramAddr(start, i) : i \in 1..Len(bytes)} |->
     IF ByteAt(start, a) <= Len(bytes) THEN bytes[ByteAt(start, a)] ELSE f[a]]

Part_OffByOne(addr, size) ==
  IF addr >= LocalSize THEN 0
  ELSE IF size + addr > LocalSize THEN LocalSize - 1 - addr ELSE size

\* How many bytes of an access are in local: the first ones.
Part(addr, size) ==
  IF addr >= LocalSize THEN 0
  ELSE IF size + addr > LocalSize THEN LocalSize - addr ELSE size

\* Where the rest of it begins.
SramStart(addr, part) == addr + part

VmRead(local, sram, addr, size) ==
  LET part == Part(addr, size)
  IN  [i \in 1..size |->
         IF i <= part THEN Holds(local, addr + i - 1)
         ELSE Holds(sram, SramAddr(SramStart(addr, part), i - part))]

LocalWritten(local, addr, src) ==
  LET part == Part(addr, Len(src))
  IN  IF part = 0 THEN local ELSE Stored(local, addr, SubSeq(src, 1, part))

SramWritten(sram, addr, src) ==
  LET part == Part(addr, Len(src))
  IN  Stored(sram, SramStart(addr, part), SubSeq(src, part + 1, Len(src)))

-----------------------------------------------------------------------------
(* The memory by itself, under accesses of a program, of the picture and   *)
(* of the shell.                                                           *)

VARIABLES
  local, sram,  \* the two memories
  dst           \* what the last vm_ram_read returned

vars == <<local, sram, dst>>

TypeOK ==
  /\ local \in [Locals -> Byte]
  /\ sram \in [Addr -> Byte]
  /\ dst \in Strings

Init ==
  /\ local = [a \in Locals |-> 0]
  /\ sram \in [Addr -> Byte]
  /\ dst = <<>>

Vm_ram_read(addr, size) ==
  /\ dst' = VmRead(local, sram, addr, size)
  /\ UNCHANGED <<local, sram>>

Vm_ram_write(addr, src) ==
  /\ local' = LocalWritten(local, addr, src)
  /\ sram' = SramWritten(sram, addr, src)
  /\ UNCHANGED dst

\* load, poke, as and the drawing routines write to the chip itself.
Sram_write(addr, src) ==
  /\ sram' = Stored(sram, addr, src)
  /\ UNCHANGED <<local, dst>>

Next ==
  \/ \E addr \in Addr, size \in 0..MaxAccess : Vm_ram_read(addr, size)
  \/ \E addr \in Addr, src \in Strings : Vm_ram_write(addr, src)
  \/ \E addr \in Addr, src \in Strings : Sram_write(addr, src)

Spec == Init /\ [][Next]_vars

-----------------------------------------------------------------------------
(* Properties.                                                             *)

\* What a program sees at each address.
Mem == [a \in Addr |-> IF a < LocalSize THEN local[a] ELSE sram[a]]

Linear == INSTANCE LinearMemory WITH mem <- Mem

\* However an access falls over the two memories, a program sees one, and
\* what the others write to the chip never reaches the bytes it has in local.
IsLinear == Linear!Spec
=============================================================================
