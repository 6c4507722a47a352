----------------------------- MODULE MCSyscalls ----------------------------
(***************************************************************************)
(* A machine of bytes below 12: 144 bytes of memory, of which 24 are in    *)
(* local and the next 24 are a screen of three rows of four characters.    *)
(***************************************************************************)
EXTENDS Syscalls

Ok  == <<11, 10>>
Err == <<1, 10>>
Sys == <<2, 10>>

\* Two rows of pixels each; the blank has none.
MCFont == [c \in 0..11 |-> IF c = 4 THEN <<0, 0>> ELSE <<c, (c * 5 + 1) % 12>>]

\* Text, at an address of bytes 8 and 4.
MCData == [a \in 100..103 |-> <<11, 9, 10, 7>>[a - 99]]

MCStores == {[addr |-> 143, src |-> <<11, 10>>]}   \* on the last byte

MCPushes == {
  [sp |-> 5,  src |-> <<8, 4, 3>>],              \* the text
  [sp |-> 11, src |-> <<11, 11, 1>>],            \* address 143
  [sp |-> 5,  src |-> <<3, 2, 1>>],              \* the last cell
  [sp |-> 5,  src |-> <<2, 2, 0>>],              \* the one before it
  [sp |-> 5,  src |-> <<0, 1, 8, 4, 1, 1>>],     \* write 13 characters
  [sp |-> 5,  src |-> <<0, 2, 11, 11, 0, 3>>],   \* write 3 over the end
  [sp |-> 8,  src |-> <<0, 0, 1, 11, 0, 2>>]}    \* read 2, from 23

MCBlocks == {<<>>, <<3, 7>>}
=============================================================================
