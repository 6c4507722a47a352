----------------------------- MODULE AudioRing -----------------------------
(***************************************************************************)
(* The ring buffer of storage.c: ain_buffer with its indices ain_start    *)
(* and ain_end.  Loads and saves use the same one, and keyboard.c has      *)
(* another like it.  It is empty when the indices are equal, so that one   *)
(* slot is never used.                                                     *)
(***************************************************************************)
EXTENDS Naturals

CONSTANT BufSize  \* AIN_BUFFER_SIZE, or KEYB_BUFFER_SIZE

ASSUME RingAssumption == BufSize \in Nat \ {0, 1}

Slots == 0..(BufSize - 1)

Rings(Item) == [buf : [Slots -> Item], start : Slots, end : Slots]

Succ(k) == (k + 1) % BufSize

AinFull_Never(r) == FALSE
AinFull(r) == Succ(r.end) = r.start

AinReady(r) == r.end # r.start

Flushed_StartOnly(r) == [r EXCEPT !.start = 0]
Flushed(r) == [buf |-> r.buf, start |-> 0, end |-> 0]

\* Store, advance, and drop the oldest if that was the last free slot.
Stored_NoDrop(r, x) ==
  [buf |-> [r.buf EXCEPT ![r.end] = x], start |-> r.start, end |-> Succ(r.end)]
Stored(r, x) ==
  [buf   |-> [r.buf EXCEPT ![r.end] = x],
   start |-> IF Succ(r.end) = r.start THEN Succ(r.start) ELSE r.start,
   end   |-> Succ(r.end)]

Oldest(r) == r.buf[r.start]
Taken(r) == [r EXCEPT !.start = Succ(@)]

\* The queue the ring stands for, oldest first.
RingLen(r) == (r.end + BufSize - r.start) % BufSize
Contents(r) == [k \in 1..RingLen(r) |-> r.buf[(r.start + k - 1) % BufSize]]
=============================================================================
