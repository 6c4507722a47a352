------------------------------ MODULE SramBus ------------------------------
(***************************************************************************)
(* The 64KB serial SRAM of the DAN64 is on one SPI bus with two users: the *)
(* main program, through sram_read, sram_write and sram_set (memory/mem.c),*)
(* and the scanline interrupt TIMER1_OVF_vect (video/video.c), which       *)
(* fetches each visible line of the picture from the same chip.            *)
(* Nothing locks the bus.  The main program calls video_wait before a      *)
(* transfer, and the interrupt clears vsync a few lines before the first   *)
(* visible line, so that a transfer that saw vsync set can still finish.   *)
(***************************************************************************)
EXTENDS Naturals

CONSTANTS
  LinesPerFrame,  \* PAL_LINES_PER_FRAME, 312
  DBegin,         \* PAL_LINES_DBEGIN, the first line drawn, 68
  DEnd,           \* PAL_LINES_DEND, one past the last line drawn, 260
  VsyncLine,      \* the line whose interrupt sets vsync, 310
  VsyncLead,      \* how many lines before DBegin vsync is cleared, 6
  AdjLine,        \* the line repeated every other frame, 6
  Sizes,          \* the transfer sizes the firmware asks for, in bytes
  MaxBurst,       \* the largest of them, 64 (two text rows of scroll_up)
  StepsPerLine    \* steps of a transfer the CPU is sure to run in one line

\* The layout of a frame, as include/video.h and video.c order its lines.
ASSUME FrameAssumption ==
  /\ LinesPerFrame \in Nat /\ DBegin \in Nat /\ DEnd \in Nat
  /\ VsyncLine \in Nat /\ VsyncLead \in Nat /\ AdjLine \in Nat
  /\ MaxBurst \in Nat /\ StepsPerLine \in Nat
  /\ Sizes \subseteq 0..MaxBurst
  /\ 0 < AdjLine /\ AdjLine + VsyncLead < DBegin
  /\ DBegin <= DEnd /\ DEnd <= VsyncLine /\ VsyncLine <= LinesPerFrame

\* The timing fact the design relies on: between the interrupt that clears
\* vsync and the one that draws, the CPU runs at least as many steps as the
\* longest transfer has (select, three header bytes, the data, deselect).
ASSUME TimingAssumption == MaxBurst + 5 <= VsyncLead * StepsPerLine

VARIABLES
  scanline,  \* the next line the interrupt will serve
  adj,       \* adj_pal_lines
  vsync,     \* 1 while the main program may start a transfer
  toie,      \* TOIE1 of TIMSK1: is the scanline interrupt enabled?
  pc,        \* where the main program is: idle, wait, select or xfer
  op,        \* the SPI command of the transfer under way: read or write
  size,      \* its number of data bytes
  sent,      \* the bytes the main program has put on the bus, header included
  chip,      \* the SRAM: selected?, header bytes seen, command latched
  landed,    \* data bytes of this transfer the chip took as data
  stray,     \* has the chip stored a byte that the interrupt sent?
  ran        \* steps of the main program since the last interrupt, capped;
             \* not counted while the interrupt is disabled

video == <<scanline, adj, vsync, toie>>
xfer  == <<op, size, sent, landed>>
busVars == <<video, pc, xfer, chip, stray, ran>>

HeaderLen == 3      \* command, address MSB, address LSB

ChipOff == [sel |-> FALSE, seen |-> 0, cmd |-> "none"]
ChipOn  == [sel |-> TRUE,  seen |-> 0, cmd |-> "none"]
ChipStates ==
  [sel : BOOLEAN, seen : 0..HeaderLen, cmd : {"none", "read", "write"}]

BusTypeOK ==
  /\ scanline \in 1..LinesPerFrame
  /\ adj \in {0, 1} /\ vsync \in {0, 1} /\ toie \in BOOLEAN
  /\ pc \in {"idle", "wait", "select", "xfer"}
  /\ op \in {"read", "write"}
  /\ size \in 0..MaxBurst /\ sent \in 0..(MaxBurst + HeaderLen)
  /\ chip \in ChipStates
  /\ landed \in 0..MaxBurst
  /\ stray \in BOOLEAN
  /\ ran \in 0..StepsPerLine

Tick == ran' = IF toie /\ ran < StepsPerLine THEN ran + 1 ELSE ran

-----------------------------------------------------------------------------
(* The main program.                                                       *)

\* Anything that does not touch the bus.
Compute ==
  /\ pc = "idle"
  /\ Tick
  /\ UNCHANGED <<video, pc, xfer, chip, stray>>

\* A call of sram_read, sram_write or sram_set.
Request(o, n) ==
  /\ pc = "idle"
  /\ pc' = "wait"
  /\ op' = o /\ size' = n /\ sent' = 0 /\ landed' = 0
  /\ Tick
  /\ UNCHANGED <<video, chip, stray>>

BusGranted_NoWait == TRUE
BusGranted == vsync = 1

\* One turn of the loop of video_wait.
VideoWait ==
  /\ pc = "wait"
  /\ pc' = IF BusGranted THEN "select" ELSE "wait"
  /\ Tick
  /\ UNCHANGED <<video, xfer, chip, stray>>

Select ==
  /\ pc = "select"
  /\ pc' = "xfer"
  /\ chip' = ChipOn
  /\ Tick
  /\ UNCHANGED <<video, xfer, stray>>

\* One byte on SPDR and the wait for it: header bytes first, then the data.
SendByte ==
  /\ pc = "xfer" /\ sent < HeaderLen + size
  /\ sent' = sent + 1
  /\ chip' = IF ~chip.sel \/ chip.seen = HeaderLen THEN chip
             ELSE [chip EXCEPT !.seen = @ + 1,
                               !.cmd = IF chip.seen = 0 THEN op ELSE @]
  /\ landed' = IF chip.sel /\ chip.seen = HeaderLen THEN landed + 1 ELSE landed
  /\ Tick
  /\ UNCHANGED <<video, pc, op, size, stray>>

Deselect ==
  /\ pc = "xfer" /\ sent = HeaderLen + size
  /\ pc' = "idle"
  /\ chip' = ChipOff
  /\ Tick
  /\ UNCHANGED <<video, xfer, stray>>

\* video_off, which load and save call between transfers.
VideoOff ==
  /\ pc = "idle" /\ toie
  /\ toie' = FALSE /\ vsync' = 1
  /\ ran' = 0
  /\ UNCHANGED <<scanline, adj, pc, xfer, chip, stray>>

\* video_on, which ends what video_off began.  An overflow of timer 1 may be
\* pending, so the interrupt may come at once.
VideoOn ==
  /\ pc = "idle" /\ ~toie
  /\ adj' = 1 /\ vsync' = 0 /\ scanline' = VsyncLine
  /\ toie' = TRUE
  /\ ran' = StepsPerLine
  /\ UNCHANGED <<pc, xfer, chip, stray>>

Main ==
  \/ Compute
  \/ \E o \in {"read", "write"}, n \in Sizes : Request(o, n)
  \/ VideoWait \/ Select \/ SendByte \/ Deselect
  \/ VideoOff \/ VideoOn

-----------------------------------------------------------------------------
(* The scanline interrupt.  It runs to its end before the main program     *)
(* goes on, and it comes once per line: the guard on ran is the lower      *)
(* bound on what the CPU does between two of them.                         *)

Visible(l) == DBegin <= l /\ l < DEnd
ClearsVsync_AtOnce(l) == l = DBegin
ClearsVsync_Late(l) == l + 1 = DBegin
ClearsVsync(l) == l + VsyncLead = DBegin

VsyncAfterLine_NeverSet(l) == IF ClearsVsync(l) THEN 0 ELSE vsync
VsyncAfterLine(l) ==
  IF l = VsyncLine THEN 1 ELSE IF ClearsVsync(l) THEN 0 ELSE vsync

\* The line is fetched with a read command of its own.  On a chip the main
\* program has selected, those bytes continue the command under way, and a
\* write stores them; the interrupt then leaves the chip deselected.
DrawLine ==
  IF Visible(scanline)
  THEN /\ stray' = (stray \/ (chip.sel /\ chip.cmd = "write"))
       /\ chip' = ChipOff
  ELSE UNCHANGED <<stray, chip>>

NextLine(l) == IF l > LinesPerFrame THEN 1 ELSE l

TimerOverflow ==
  /\ toie /\ ran >= StepsPerLine
  /\ vsync' = VsyncAfterLine(scanline)
  /\ DrawLine
  /\ adj' = IF scanline = AdjLine THEN 1 - adj ELSE adj
  /\ scanline' = NextLine(IF scanline = AdjLine THEN scanline - adj' + 1
                                                ELSE scanline + 1)
  /\ ran' = 0
  /\ UNCHANGED <<toie, pc, xfer>>

-----------------------------------------------------------------------------
\* The state video_init leaves, with interrupts just enabled.
BusInit ==
  /\ scanline = VsyncLine /\ adj = 1 /\ vsync = 0 /\ toie = TRUE
  /\ pc = "idle" /\ op = "read" /\ size = 0 /\ sent = 0
  /\ chip = ChipOff /\ landed = 0 /\ stray = FALSE
  /\ ran = StepsPerLine

BusNext == Main \/ TimerOverflow

\* The CPU and timer 1 never stop.
Fairness == WF_busVars(Main) /\ WF_busVars(TimerOverflow)

BusSpec == BusInit /\ [][BusNext]_busVars /\ Fairness
-----------------------------------------------------------------------------
(* Properties.                                                             *)

\* The read command of the interrupt is never taken by the chip as data of a
\* write that sram_write or sram_set has under way.
NoStrayWrite == ~stray

\* When sram_read, sram_write or sram_set deselects the chip, the chip has
\* taken every data byte of that call as data, under the command it sent: no
\* interrupt ended the command early.
BurstIntact ==
  pc = "xfer" /\ sent = HeaderLen + size =>
    landed = size /\ chip.sel /\ chip.cmd = op

\* Whenever TIMER1_OVF_vect fetches a visible line it finds the chip
\* deselected, so that its header is taken as a header and the line on the
\* screen is the one in memory.
PictureIntact == [][TimerOverflow /\ Visible(scanline) => ~chip.sel]_busVars

\* A transfer that waits in video_wait is done some time: vsync comes once
\* per frame, whatever video_off and video_on did before.
RequestServed == pc = "wait" ~> pc = "idle"
=============================================================================
