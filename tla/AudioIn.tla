------------------------------ MODULE AudioIn ------------------------------
(***************************************************************************)
(* Loading a block from tape: the pin change interrupt PCINT1_vect makes   *)
(* bytes of the pulses and puts them in the ring buffer, dropping the      *)
(* oldest when it is full; load (init/main.c) takes them out, gives them   *)
(* to the decoder, which writes the payload to memory, and gives up when   *)
(* the buffer stays empty for too long.                                    *)
(*                                                                         *)
(* The tape is external: some pulses to settle the signal, which the       *)
(* interrupt discards (the synchronisation of encode_header among them),   *)
(* then the half pulses of a block.  A pulse may be misread (long for      *)
(* short or the other way round), and the tape may stop anywhere.  How     *)
(* fast load is and how long it waits are left open: the buffer may        *)
(* overflow, and a wait may end before the next pulse.                     *)
(***************************************************************************)
EXTENDS AudioRing, Storage

CONSTANTS
  SyncEdges,   \* edges discarded by the interrupt, 4
  MinLen,      \* the lengths of the payloads on the tapes
  MaxLen,
  MaxFlips     \* bound on misread pulses per tape

ASSUME AudioInAssumption ==
  /\ SyncEdges \in Nat \ {0}
  /\ MinLen \in Nat /\ MaxLen \in MinLen..(Values * Values - 1)
  /\ MaxFlips \in Nat

VARIABLES
  pc,       \* where load is
  dec,      \* its decoder
  written,  \* what load_data_write has written, from the destination on
  result,   \* what the last call returned: none yet, loaded (0), failed (the
            \* control code), cancelled (1)
  ring,     \* ain_buffer, ain_start and ain_end
  sync,     \* ain_sync
  bit,      \* the static variables of the interrupt
  byte,
  payload,  \* what was saved on the tape
  pos,      \* the pulses of the tape played so far
  flips,    \* how many of them were misread
  dropped,  \* has the ring buffer dropped a byte during this load?
  timedout  \* did load give up waiting?

loader == <<pc, dec, written, result, timedout>>
isr    == <<sync, bit, byte>>
tape   == <<payload, pos, flips>>
vars   == <<loader, isr, tape, ring, dropped>>

Payloads == UNION {[1..n -> Byte] : n \in MinLen..MaxLen}

-----------------------------------------------------------------------------
(* load, and SYS 0x01 which calls it with quiet set.                       *)

Load(quiet) ==
  /\ pc = "idle"
  /\ pc' = IF quiet THEN "start" ELSE "prompt"
  /\ dec' = InitDecoder
  /\ written' = <<>> /\ result' = "none" /\ timedout' = FALSE
  /\ UNCHANGED <<ring, isr, tape, dropped>>

\* ENTER goes on, ESC returns 1.
Prompt(key) ==
  /\ pc = "prompt"
  /\ IF key = "enter"
     THEN pc' = "start" /\ UNCHANGED result
     ELSE pc' = "idle" /\ result' = "cancelled"
  /\ UNCHANGED <<dec, written, timedout, ring, isr, tape, dropped>>

SyncAfterOn_Kept == sync
SyncAfterOn == 0

\* video_off and ain_on; somebody puts a tape in.
Start ==
  /\ pc = "start"
  /\ pc' = "poll"
  /\ ring' = Flushed(ring) /\ sync' = SyncAfterOn
  /\ payload' \in Payloads /\ pos' = 0 /\ flips' = 0 /\ dropped' = FALSE
  /\ UNCHANGED <<dec, written, result, timedout, bit, byte>>

\* The wait for a byte ends because there is one.
Poll ==
  /\ pc = "poll" /\ AinReady(ring)
  /\ pc' = "get"
  /\ UNCHANGED <<dec, written, result, timedout, ring, isr, tape, dropped>>

WaitOver_InBlock == ~AinReady(ring) /\ dec.control # C_MAGIC
WaitOver == ~AinReady(ring)

\* The wait for a byte ends because the count down reached zero.
Timeout ==
  /\ pc = "poll" /\ WaitOver
  /\ pc' = "off" /\ timedout' = TRUE
  /\ UNCHANGED <<dec, written, result, ring, isr, tape, dropped>>

LoadOver(d) == d.control < 0 \/ d.control = C_END

\* ain_get, decode and the tests of its result.
Get ==
  /\ pc = "get"
  /\ ring' = Taken(ring)
  /\ dec' = Decode(dec, Oldest(ring))
  /\ written' = IF Writes(dec) THEN Append(written, Oldest(ring)) ELSE written
  /\ pc' = IF LoadOver(dec') THEN "off" ELSE "poll"
  /\ UNCHANGED <<result, timedout, isr, tape, dropped>>

\* ain_off and video_on, and the result.
Finish ==
  /\ pc = "off"
  /\ result' = IF dec.control = C_END THEN "loaded" ELSE "failed"
  /\ pc' = "idle"
  /\ UNCHANGED <<dec, written, timedout, ring, isr, tape, dropped>>

Loader ==
  \/ \E quiet \in BOOLEAN : Load(quiet)
  \/ \E key \in {"enter", "esc"} : Prompt(key)
  \/ Start \/ Poll \/ Timeout \/ Get \/ Finish

-----------------------------------------------------------------------------
(* The tape and PCINT1_vect.                                               *)

Block == BlockOf(payload)

\* The two pulses encode_end adds close the last bit of the block.
TapeLen == SyncEdges + W * Len(Block) + 2

\* Is the pulse that comes after n of them long?
Long(n) ==
  n >= SyncEdges /\ (n - SyncEdges < W * Len(Block) => PulseAfter(Block, n - SyncEdges))

InterruptOn == pc \in {"poll", "get", "off"}

\* The interrupt makes nothing of the first edges.
Settle ==
  /\ sync < SyncEdges
  /\ sync' = sync + 1 /\ bit' = 0 /\ byte' = {}
  /\ UNCHANGED <<ring, dropped>>

\* One more bit, and after the last one a byte for the ring buffer.
NextBit(long) ==
  /\ sync = SyncEdges
  /\ LET b == IF long THEN byte \cup {bit} ELSE byte
     IN  IF bit + 1 = W
         THEN /\ ring' = Stored(ring, b)
              /\ dropped' = (dropped \/ AinFull(ring))
              /\ bit' = 0 /\ byte' = {}
         ELSE /\ bit' = bit + 1 /\ byte' = b
              /\ UNCHANGED <<ring, dropped>>
  /\ UNCHANGED sync

\* The end of a pulse, as it was recorded or misread.
Edge(misread) ==
  /\ InterruptOn /\ pos < TapeLen
  /\ misread => flips < MaxFlips
  /\ flips' = IF misread THEN flips + 1 ELSE flips
  /\ pos' = pos + 1
  /\ Settle \/ NextBit(Long(pos) # misread)
  /\ UNCHANGED <<payload, loader>>

-----------------------------------------------------------------------------
Init ==
  /\ pc = "idle" /\ dec = InitDecoder /\ written = <<>>
  /\ result = "none" /\ timedout = FALSE
  /\ ring = [buf |-> [k \in Slots |-> {}], start |-> 0, end |-> 0]
  /\ sync = 0 /\ bit = 0 /\ byte = {}
  /\ payload \in Payloads /\ pos = 0 /\ flips = 0 /\ dropped = FALSE

Next == Loader \/ \E misread \in BOOLEAN : Edge(misread)

\* Once called, load runs on; nobody has to play the tape.
Fairness == WF_vars(pc \notin {"idle", "prompt"} /\ Loader)

Spec == Init /\ [][Next]_vars /\ Fairness

-----------------------------------------------------------------------------
(* Properties.                                                             *)

\* With at most one misread pulse and no byte lost, load returns 0 only if
\* memory holds the payload that was saved: the magic number and the two
\* parities find every single error, in the header, the data or a parity.
LoadedMeansSaved ==
  result = "loaded" /\ flips <= 1 /\ ~dropped => written = payload

\* A tape that is read without a fault is loaded, whatever state an aborted
\* load before it left the interrupt and the buffer in, unless load gave up
\* waiting, as it always does for a block of no bytes.
CleanTapeLoads ==
  result = "failed" /\ pos > 0 /\ flips = 0 /\ ~dropped => timedout

\* With at most one misread pulse and no byte lost, decode never writes past
\* the end of the block: a wrong length never gets past the header parity.  A
\* block of no bytes, which SYS 0x02 saves when its count is 0, has no end: its
\* length is compared after the count has moved on, so whatever the tape has
\* after the header, the parity and the closing pulses, goes to memory.
WritesStayInBlock ==
  flips <= 1 /\ ~dropped =>
    Len(written) <= IF payload = <<>> THEN (W + 2) \div W ELSE Len(payload)

\* The ring buffer is a queue that drops its oldest byte when it is full.
Queue == INSTANCE BoundedFifo WITH
  Item <- Byte, Cap <- BufSize - 1, queue <- Contents(ring)
RingIsFifo == Queue!Lossy

\* load returns: a tape that stops, at any place, makes it time out.
LoadEnds == pc = "start" ~> pc = "idle"
=============================================================================
