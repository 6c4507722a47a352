---------------------------- MODULE LinearMemory ----------------------------
(***************************************************************************)
(* What a program of the virtual machine is promised: one memory of        *)
(* MemSize bytes, from the zero page to the end (docs/manual.markdown:     *)
(* "Linear 64KB memory access").  What it is not promised is that an       *)
(* access goes on at 0 when it runs over the end: those bytes are lost     *)
(* when written and can be anything when read.                             *)
(***************************************************************************)
EXTENDS Integers, Sequences

CONSTANTS
  MemSize,    \* bytes of the memory
  Byte,       \* what one of them holds
  MaxAccess   \* the longest access

Addr == 0..(MemSize - 1)
Strings == UNION {[1..n -> Byte] : n \in 0..MaxAccess}

VARIABLES
  mem,  \* the memory
  dst   \* what the last read returned

Init == mem \in [Addr -> Byte] /\ dst = <<>>

\* The bytes of mem under an access.
Under(addr, src) == {a \in Addr : addr <= a /\ a < addr + Len(src)}

Read(addr, size) ==
  /\ dst' \in [1..size -> Byte]
  /\ \A i \in 1..size : addr + i - 1 \in Addr => dst'[i] = mem[addr + i - 1]
  /\ UNCHANGED mem

Write(addr, src) ==
  /\ mem' = [a \in Addr |-> IF a \in Under(addr, src) THEN src[a - addr + 1] ELSE mem[a]]
  /\ UNCHANGED dst

Next ==
  \/ \E addr \in Addr, size \in 0..MaxAccess : Read(addr, size)
  \/ \E addr \in Addr, src \in Strings : Write(addr, src)

Spec == Init /\ [][Next]_<<mem, dst>>
=============================================================================
