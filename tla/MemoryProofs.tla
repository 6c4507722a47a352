---------------------------- MODULE MemoryProofs ----------------------------
(***************************************************************************)
(* The serial SRAM: how it is reached, and what the virtual machine makes  *)
(* of it.                                                                  *)
(*                                                                         *)
(* The bus needs no lock: with the timing assumption of SramBus, no        *)
(* visible line is fetched while a transfer of the main program is under   *)
(* way, for every frame layout, transfer size and speed the assumption     *)
(* allows.  None of the safety properties is inductive.  What carries them *)
(* is LeadInv: once vsync is clear, a transfer that is still under way has *)
(* made at least StepsPerLine steps in each line that went by, so that it  *)
(* is over before the first visible line.                                  *)
(*                                                                         *)
(* The two memories of the virtual machine are one linear memory for its   *)
(* programs: VmMemory implements LinearMemory, for every size of the local *)
(* array, of the chip and of an access that MemoryAssumption allows.       *)
(***************************************************************************)
EXTENDS SramBus, VmMemory, SequenceTheorems, TLAPS

-----------------------------------------------------------------------------
(* The bus.                                                                *)

\* The lines between the one that clears vsync and the one that sets it.
Quiet(l) == DBegin < l + VsyncLead /\ l <= VsyncLine

InTransfer == pc \in {"select", "xfer"}

\* The steps the transfer under way has made since video_wait let it go.
Progress == IF pc = "select" THEN 0 ELSE sent + 1

\* The lines that went by since vsync was cleared.
Elapsed(l) == l + VsyncLead - DBegin - 1

VsyncInv == toie /\ Quiet(scanline) => vsync = 0

LeadInv ==
  toie /\ Quiet(scanline) /\ InTransfer =>
    Elapsed(scanline) * StepsPerLine + ran <= Progress

\* What the chip has seen of the transfer is what the main program has sent.
ChipInv ==
  /\ pc = "xfer" =>
       /\ chip.sel
       /\ chip.seen = (IF sent < HeaderLen THEN sent ELSE HeaderLen)
       /\ landed = (IF sent < HeaderLen THEN 0 ELSE sent - HeaderLen)
       /\ sent > 0 => chip.cmd = op
  /\ pc # "xfer" => ~chip.sel
  /\ pc \in {"wait", "select"} => sent = 0 /\ landed = 0
  /\ sent <= HeaderLen + size
  /\ ~stray

IInv == BusTypeOK /\ VsyncInv /\ LeadInv /\ ChipInv

-----------------------------------------------------------------------------
\* Arithmetic of whole lines: one more line is StepsPerLine more steps.
LEMMA OneMoreLine ==
  ASSUME NEW n \in Nat, NEW s \in Nat
  PROVE  (n + 1) * s = n * s + s /\ n * s \in Nat
BY SMT

\* Arithmetic of whole lines: more lines, no fewer steps.
LEMMA MoreLines ==
  ASSUME NEW m \in Nat, NEW n \in Nat, NEW s \in Nat, m <= n
  PROVE  m * s <= n * s
<1>1. PICK d \in Nat : n = m + d
  BY SMT
<1>2. n * s = m * s + d * s
  BY <1>1, SMT
<1>3. d * s \in Nat /\ m * s \in Nat /\ n * s \in Nat
  BY SMT
<1> QED
  BY <1>2, <1>3, SMT

\* The timing assumption at work: a transfer is never under way when the
\* interrupt is due on a visible line.
LEMMA NoTransferOnVisibleLine ==
  ASSUME IInv, toie, ran >= StepsPerLine, Visible(scanline)
  PROVE  ~InTransfer
<1> SUFFICES ASSUME InTransfer PROVE FALSE
  OBVIOUS
<1> DEFINE k == Elapsed(scanline)
<1>1. VsyncLead \in Nat \ {0} /\ Quiet(scanline)
  <2>1. VsyncLead # 0
    <3> SUFFICES ASSUME VsyncLead = 0 PROVE FALSE
      OBVIOUS
    <3>1. VsyncLead * StepsPerLine = 0
      BY FrameAssumption, SMT DEF FrameAssumption
    <3> QED
      BY <3>1, FrameAssumption, TimingAssumption DEF FrameAssumption, TimingAssumption
  <2> QED
    BY <2>1, FrameAssumption DEF FrameAssumption, Quiet, Visible, IInv, BusTypeOK
<1>2. k \in Nat /\ VsyncLead - 1 \in Nat /\ VsyncLead - 1 <= k
  BY <1>1, FrameAssumption DEF FrameAssumption, Quiet, Visible, Elapsed, IInv, BusTypeOK
<1>3. (VsyncLead - 1) * StepsPerLine <= k * StepsPerLine
  BY <1>2, MoreLines, FrameAssumption DEF FrameAssumption
<1>4. /\ VsyncLead * StepsPerLine = (VsyncLead - 1) * StepsPerLine + StepsPerLine
      /\ (VsyncLead - 1) * StepsPerLine \in Nat
  <2>1. VsyncLead = (VsyncLead - 1) + 1
    BY <1>1
  <2> QED
    BY <1>2, <2>1, OneMoreLine, FrameAssumption DEF FrameAssumption
<1>5. k * StepsPerLine \in Nat
  BY <1>2, OneMoreLine, FrameAssumption DEF FrameAssumption
<1>6. k * StepsPerLine + ran <= Progress
  BY <1>1 DEF IInv, LeadInv
<1>7. Progress <= MaxBurst + 4 /\ Progress \in Nat
  BY FrameAssumption DEF Progress, IInv, BusTypeOK, ChipInv, HeaderLen, InTransfer, FrameAssumption
<1>8. MaxBurst + 5 <= k * StepsPerLine + ran
  <2>1. ran \in Nat /\ StepsPerLine \in Nat /\ MaxBurst \in Nat
        /\ MaxBurst + 5 <= VsyncLead * StepsPerLine
    BY FrameAssumption, TimingAssumption DEF IInv, BusTypeOK, FrameAssumption, TimingAssumption
  <2> HIDE DEF k
  <2> QED
    BY <2>1, <1>3, <1>4, <1>5
<1> HIDE DEF k
<1> QED
  BY <1>5, <1>6, <1>7, <1>8, FrameAssumption DEF IInv, BusTypeOK, FrameAssumption

-----------------------------------------------------------------------------
\* What selecting and deselecting the chip makes of it.
LEMMA ChipSelection ==
  /\ ChipOff \in ChipStates /\ ~ChipOff.sel
  /\ ChipOn \in ChipStates /\ ChipOn.sel /\ ChipOn.seen = 0
BY DEF ChipOff, ChipOn, ChipStates, HeaderLen

\* video_init leaves the bus free.
LEMMA InitIInv == BusInit => IInv
<1> SUFFICES ASSUME BusInit PROVE IInv
  OBVIOUS
<1>1. BusTypeOK
  <2>1. scanline \in 1..LinesPerFrame /\ ran \in 0..StepsPerLine
    BY FrameAssumption DEF FrameAssumption, BusInit
  <2>2. /\ size \in 0..MaxBurst /\ sent \in 0..(MaxBurst + HeaderLen)
        /\ landed \in 0..MaxBurst
    BY FrameAssumption DEF FrameAssumption, BusInit, HeaderLen
  <2>3. toie \in BOOLEAN /\ stray \in BOOLEAN
    BY Zenon DEF BusInit
  <2> QED
    BY <2>1, <2>2, <2>3, ChipSelection DEF BusInit, BusTypeOK
<1>2. VsyncInv /\ LeadInv /\ ChipInv
  BY ChipSelection DEF BusInit, VsyncInv, LeadInv, ChipInv, InTransfer, HeaderLen
<1> QED
  BY <1>1, <1>2 DEF IInv

\* A step of the main program keeps the invariant.
LEMMA MainKeepsIInv == IInv /\ Main => IInv'
<1> SUFFICES ASSUME IInv, Main PROVE IInv'
  OBVIOUS
<1> USE FrameAssumption DEF FrameAssumption
<1>0. ASSUME Tick PROVE ran' \in 0..StepsPerLine /\ ran' <= ran + 1
  BY <1>0 DEF Tick, IInv, BusTypeOK
<1>1. CASE Compute
  BY <1>1, <1>0 DEF Compute, IInv, BusTypeOK, VsyncInv, LeadInv, ChipInv, video, xfer,
     InTransfer, Progress, Elapsed, Quiet
<1>2. ASSUME NEW o \in {"read", "write"}, NEW n \in Sizes, Request(o, n)
      PROVE  IInv'
  BY <1>2, <1>0 DEF Request, IInv, BusTypeOK, VsyncInv, LeadInv, ChipInv, video,
     InTransfer, Progress, Elapsed, Quiet, HeaderLen
<1>3. CASE VideoWait
  <2>1. BusTypeOK' /\ VsyncInv' /\ ChipInv'
    BY <1>3, <1>0 DEF VideoWait, IInv, BusTypeOK, VsyncInv, ChipInv, video, xfer,
       Quiet, HeaderLen
  <2>2. LeadInv'
    BY <1>3 DEF VideoWait, BusGranted, IInv, VsyncInv, LeadInv, video, xfer,
       InTransfer, Quiet
  <2> QED
    BY <2>1, <2>2 DEF IInv
<1>4. CASE Select
  <2>1. BusTypeOK' /\ VsyncInv' /\ ChipInv'
    BY <1>4, <1>0 DEF Select, IInv, BusTypeOK, VsyncInv, ChipInv, video, xfer,
       Quiet, HeaderLen, ChipOn, ChipStates
  <2>2. LeadInv'
    <3> SUFFICES ASSUME toie', Quiet(scanline)', InTransfer'
                 PROVE  (Elapsed(scanline) * StepsPerLine + ran <= Progress)'
      BY DEF LeadInv
    <3>1. toie /\ Quiet(scanline) /\ scanline' = scanline
      BY <1>4 DEF Select, video, Quiet
    <3>2. Elapsed(scanline) \in Nat /\ ran \in Nat /\ ran' \in Nat /\ ran' <= ran + 1
      BY <3>1, <1>4, <1>0 DEF Select, Elapsed, Quiet, IInv, BusTypeOK
    <3>3. Elapsed(scanline) * StepsPerLine \in Nat
      BY <3>2, OneMoreLine
    <3>4. Progress = 0 /\ Progress' = 1
      BY <1>4 DEF Select, Progress, IInv, ChipInv, xfer
    <3>5. Elapsed(scanline) * StepsPerLine + ran <= 0
      BY <1>4, <3>1, <3>4 DEF IInv, LeadInv, InTransfer, Select
    <3>6. Elapsed(scanline)' = Elapsed(scanline)
      BY <3>1 DEF Elapsed
    <3> HIDE DEF FrameAssumption
    <3> QED
      BY <3>2, <3>3, <3>4, <3>5, <3>6
  <2> QED
    BY <2>1, <2>2 DEF IInv
<1>5. CASE SendByte
  <2>1. BusTypeOK' /\ VsyncInv'
    <3>1. chip' \in ChipStates
      <4>1. CASE ~chip.sel \/ chip.seen = HeaderLen
        BY <1>5, <4>1 DEF SendByte, IInv, BusTypeOK
      <4>2. CASE ~(~chip.sel \/ chip.seen = HeaderLen)
        <5>1. chip' = [chip EXCEPT !.seen = @ + 1,
                                   !.cmd = IF chip.seen = 0 THEN op ELSE @]
          BY <1>5, <4>2 DEF SendByte
        <5>2. chip.seen + 1 \in 0..HeaderLen
          BY <4>2 DEF IInv, BusTypeOK, ChipStates, HeaderLen
        <5>3. (IF chip.seen = 0 THEN op ELSE chip.cmd) \in {"none", "read", "write"}
          BY DEF IInv, BusTypeOK, ChipStates
        <5> QED
          BY <5>1, <5>2, <5>3 DEF IInv, BusTypeOK, ChipStates
      <4> QED
        BY <4>1, <4>2
    <3>2. landed' \in 0..MaxBurst /\ sent' \in 0..(MaxBurst + HeaderLen)
      BY <1>5 DEF SendByte, IInv, BusTypeOK, ChipInv, HeaderLen
    <3> QED
      BY <1>5, <1>0, <3>1, <3>2 DEF SendByte, IInv, BusTypeOK, VsyncInv, video, Quiet
  <2>2. ChipInv'
    BY <1>5 DEF SendByte, IInv, BusTypeOK, ChipInv, HeaderLen, ChipStates
  <2>3. LeadInv'
    <3> SUFFICES ASSUME toie', Quiet(scanline)', InTransfer'
                 PROVE  (Elapsed(scanline) * StepsPerLine + ran <= Progress)'
      BY DEF LeadInv
    <3>1. toie /\ Quiet(scanline) /\ scanline' = scanline
      BY <1>5 DEF SendByte, video, Quiet
    <3>2. Elapsed(scanline) \in Nat /\ ran \in Nat /\ ran' \in Nat /\ ran' <= ran + 1
      BY <3>1, <1>5, <1>0 DEF SendByte, Elapsed, Quiet, IInv, BusTypeOK
    <3>3. Elapsed(scanline) * StepsPerLine \in Nat
      BY <3>2, OneMoreLine
    <3>4. Progress = sent + 1 /\ Progress' = sent + 2 /\ sent \in Nat
      BY <1>5 DEF SendByte, Progress, IInv, BusTypeOK
    <3>5. Elapsed(scanline) * StepsPerLine + ran <= Progress
      BY <1>5, <3>1 DEF IInv, LeadInv, InTransfer, SendByte
    <3>6. Elapsed(scanline)' = Elapsed(scanline)
      BY <3>1 DEF Elapsed
    <3> HIDE DEF FrameAssumption
    <3> QED
      BY <3>2, <3>3, <3>4, <3>5, <3>6
  <2> QED
    BY <2>1, <2>2, <2>3 DEF IInv
<1>6. CASE Deselect
  BY <1>6, <1>0, ChipSelection
     DEF Deselect, IInv, BusTypeOK, VsyncInv, LeadInv, ChipInv, video, xfer, InTransfer,
         Quiet
<1>7. CASE VideoOff
  <2>1. BusTypeOK'
    <3>1. toie' \in BOOLEAN
      BY <1>7, Zenon DEF VideoOff
    <3>2. ran' \in 0..StepsPerLine /\ vsync' \in {0, 1}
      BY <1>7 DEF VideoOff
    <3> QED
      BY <1>7, <3>1, <3>2 DEF VideoOff, IInv, BusTypeOK, xfer
  <2>2. VsyncInv' /\ LeadInv' /\ ChipInv'
    BY <1>7 DEF VideoOff, IInv, VsyncInv, LeadInv, ChipInv, xfer
  <2> QED
    BY <2>1, <2>2 DEF IInv
<1>8. CASE VideoOn
  BY <1>8 DEF VideoOn, IInv, BusTypeOK, VsyncInv, LeadInv, ChipInv, xfer, InTransfer
<1> QED
  BY <1>1, <1>2, <1>3, <1>4, <1>5, <1>6, <1>7, <1>8 DEF Main

\* Where the interrupt goes next: the frame layout keeps the repeated line
\* and the wrap to line 1 away from the quiet lines.
LEMMA NextQuietLine ==
  ASSUME IInv, TimerOverflow
  PROVE  /\ scanline' \in 1..LinesPerFrame
         /\ adj' \in {0, 1}
         /\ Quiet(scanline') =>
              /\ scanline' = scanline + 1
              /\ Quiet(scanline) \/ ClearsVsync(scanline)
              /\ scanline # VsyncLine
<1> USE FrameAssumption DEF FrameAssumption
<1>0. /\ scanline \in 1..LinesPerFrame /\ adj' \in {0, 1}
      /\ scanline' = NextLine(IF scanline = AdjLine THEN scanline - adj' + 1
                                                    ELSE scanline + 1)
  BY DEF IInv, BusTypeOK, TimerOverflow
<1>1. CASE scanline = AdjLine
  <2>1. scanline' \in {AdjLine, AdjLine + 1}
    <3>1. CASE adj' = 0
      BY <1>0, <1>1, <3>1 DEF NextLine
    <3>2. CASE adj' = 1
      BY <1>0, <1>1, <3>2 DEF NextLine
    <3> QED
      BY <1>0, <3>1, <3>2
  <2> QED
    BY <1>0, <2>1 DEF Quiet
<1>2. CASE scanline # AdjLine
  BY <1>0, <1>2 DEF NextLine, Quiet, ClearsVsync
<1> QED
  BY <1>1, <1>2

\* The scanline interrupt keeps the invariant.
LEMMA TimerOverflowKeepsIInv == IInv /\ TimerOverflow => IInv'
<1> SUFFICES ASSUME IInv, TimerOverflow PROVE IInv'
  OBVIOUS
<1> USE FrameAssumption DEF FrameAssumption
<1>1. BusTypeOK'
  <2>1. vsync' \in {0, 1}
    BY DEF TimerOverflow, IInv, BusTypeOK, VsyncAfterLine
  <2>2. chip' \in ChipStates /\ stray' \in BOOLEAN
    BY ChipSelection DEF TimerOverflow, IInv, BusTypeOK, DrawLine
  <2> QED
    BY <2>1, <2>2, NextQuietLine DEF TimerOverflow, IInv, BusTypeOK, xfer
<1>2. VsyncInv'
  BY NextQuietLine
     DEF TimerOverflow, IInv, BusTypeOK, VsyncInv, VsyncAfterLine, Quiet
<1>3. LeadInv'
  <2> SUFFICES ASSUME toie', Quiet(scanline'), InTransfer'
               PROVE  Elapsed(scanline') * StepsPerLine + ran' <= Progress'
    BY DEF LeadInv, Quiet, Elapsed
  <2>1. /\ ran' = 0 /\ InTransfer /\ Progress' = Progress /\ Progress \in Nat
        /\ toie /\ ran \in Nat /\ ran >= StepsPerLine
    BY DEF TimerOverflow, InTransfer, Progress, xfer, IInv, BusTypeOK
  <2>2. CASE ClearsVsync(scanline)
    <3>1. Elapsed(scanline') = 0
      BY <2>2, NextQuietLine DEF ClearsVsync, Elapsed, IInv, BusTypeOK
    <3> QED
      BY <2>1, <3>1
  <2>3. CASE Quiet(scanline)
    <3>1. Elapsed(scanline') = Elapsed(scanline) + 1 /\ Elapsed(scanline) \in Nat
      BY <2>3, NextQuietLine DEF Elapsed, Quiet, IInv, BusTypeOK
    <3>2. Elapsed(scanline) * StepsPerLine + ran <= Progress
      BY <2>1, <2>3 DEF IInv, LeadInv
    <3>3. /\ (Elapsed(scanline) + 1) * StepsPerLine
              = Elapsed(scanline) * StepsPerLine + StepsPerLine
          /\ Elapsed(scanline) * StepsPerLine \in Nat
      BY <3>1, OneMoreLine
    <3> HIDE DEF FrameAssumption
    <3>4. StepsPerLine \in Nat
      BY DEF FrameAssumption
    <3> QED
      BY <2>1, <3>1, <3>2, <3>3, <3>4
  <2> QED
    BY <2>2, <2>3, NextQuietLine
<1>4. ChipInv'
  <2>1. CASE Visible(scanline)
    <3>1. pc # "xfer" /\ ~chip.sel /\ ~stray
      BY <2>1, NoTransferOnVisibleLine DEF TimerOverflow, IInv, ChipInv, InTransfer
    <3>2. chip' = ChipOff /\ ~stray'
      BY <2>1, <3>1 DEF TimerOverflow, DrawLine
    <3> QED
      BY <3>1, <3>2, ChipSelection DEF TimerOverflow, IInv, ChipInv, xfer
  <2>2. CASE ~Visible(scanline)
    BY <2>2 DEF TimerOverflow, IInv, ChipInv, DrawLine, xfer
  <2> QED
    BY <2>1, <2>2
<1> QED
  BY <1>1, <1>2, <1>3, <1>4 DEF IInv

\* Nothing changes in a stuttering step.
LEMMA StutterKeepsIInv == IInv /\ UNCHANGED busVars => IInv'
BY DEF IInv, BusTypeOK, VsyncInv, LeadInv, ChipInv, busVars, video, xfer, InTransfer,
       Progress, Elapsed, Quiet

\* The inductive invariant holds in every reachable state.
THEOREM BusInvariant == BusSpec => []IInv
<1>1. IInv /\ [BusNext]_busVars => IInv'
  BY MainKeepsIInv, TimerOverflowKeepsIInv, StutterKeepsIInv DEF BusNext
<1> QED
  BY InitIInv, <1>1, PTL DEF BusSpec

-----------------------------------------------------------------------------
\* The variables of video.c, mem.c and the chip stay in their ranges.
THEOREM TypeCorrect == BusSpec => []BusTypeOK
<1>1. IInv => BusTypeOK
  BY DEF IInv
<1> QED
  BY BusInvariant, <1>1, PTL

\* The command of the scanline interrupt never lands in memory as data of a
\* write of the main program.
THEOREM NoStrayWriteEver == BusSpec => []NoStrayWrite
<1>1. IInv => NoStrayWrite
  BY DEF IInv, ChipInv, NoStrayWrite
<1> QED
  BY BusInvariant, <1>1, PTL

\* A transfer of the main program is taken whole, under its own command.
THEOREM BurstsIntact == BusSpec => []BurstIntact
<1>1. IInv => BurstIntact
  BY FrameAssumption
     DEF FrameAssumption, IInv, BusTypeOK, ChipInv, BurstIntact, HeaderLen
<1> QED
  BY BusInvariant, <1>1, PTL

\* Every visible line is fetched from a chip the interrupt finds deselected.
THEOREM PicturesIntact == BusSpec => PictureIntact
<1>1. IInv /\ [BusNext]_busVars
        => [TimerOverflow /\ Visible(scanline) => ~chip.sel]_busVars
  BY NoTransferOnVisibleLine DEF TimerOverflow, IInv, ChipInv, InTransfer
<1> QED
  BY BusInvariant, <1>1, PTL DEF BusSpec, PictureIntact

-----------------------------------------------------------------------------
(* The two memories: lemmas on the accesses.                               *)

\* A string is a sequence of at most MaxAccess bytes.
LEMMA StringIsSeq ==
  ASSUME NEW src \in Strings
  PROVE  /\ src \in Seq(Byte) /\ Len(src) \in 0..MaxAccess
         /\ DOMAIN src = 1..Len(src)
         /\ \A i \in 1..Len(src) : src[i] \in Byte
<1>1. PICK n \in 0..MaxAccess : src \in [1..n -> Byte]
  BY DEF Strings
<1>2. n \in Nat
  BY <1>1, MemoryAssumption, SMT DEF MemoryAssumption
<1>3. src \in Seq(Byte) /\ Len(src) = n
  BY <1>1, <1>2, SMT
<1> QED
  BY <1>1, <1>2, <1>3, SMT

\* Where the bytes of a transfer go, and which byte goes where.
LEMMA AddressOfByte ==
  ASSUME NEW a \in Addr, NEW n \in 0..MaxAccess
  PROVE  /\ \A i \in 1..n : SramAddr(a, i) \in Addr
         /\ \A b \in Addr : ByteAt(a, b) \in 1..MemSize
BY MemoryAssumption, SMT DEF MemoryAssumption, Addr, SramAddr, ByteAt

\* A transfer to a memory stores its bytes at its addresses and nothing else.
LEMMA StoredBytes ==
  ASSUME NEW f, NEW start \in Addr, NEW bytes \in Seq(Byte),
         Len(bytes) \in 0..MaxAccess,
         f \in [Addr -> Byte]
  PROVE  /\ Stored(f, start, bytes) \in [Addr -> Byte]
         /\ \A a \in Addr :
              Stored(f, start, bytes)[a] =
                IF ByteAt(start, a) <= Len(bytes) THEN bytes[ByteAt(start, a)] ELSE f[a]
<1>1. DOMAIN f \cup {SramAddr(start, i) : i \in 1..Len(bytes)} = Addr
  BY AddressOfByte
<1>2. \A a \in Addr : ByteAt(start, a) <= Len(bytes) => bytes[ByteAt(start, a)] \in Byte
  BY AddressOfByte, SMT
<1> QED
  BY <1>1, <1>2 DEF Stored

\* A part of a string, as a sequence.
LEMMA PartOfString ==
  ASSUME NEW src \in Strings, NEW m \in 1..(MaxAccess + 1), NEW n \in 0..Len(src)
  PROVE  /\ SubSeq(src, m, n) \in Seq(Byte)
         /\ Len(SubSeq(src, m, n)) = (IF m <= n THEN n - m + 1 ELSE 0)
         /\ \A i \in 1..(n - m + 1) : SubSeq(src, m, n)[i] = src[m + i - 1]
         /\ SubSeq(src, m, n) \in Strings
<1>1. MaxAccess \in Nat /\ Len(src) \in 0..MaxAccess /\ \A i \in 1..Len(src) : src[i] \in Byte
  BY StringIsSeq, MemoryAssumption DEF MemoryAssumption
<1>2. m \in Int /\ n \in Int /\ \A i \in m..n : src[i] \in Byte
  BY <1>1, SMT
<1>3. /\ SubSeq(src, m, n) \in Seq(Byte)
      /\ Len(SubSeq(src, m, n)) = (IF m <= n THEN n - m + 1 ELSE 0)
      /\ \A i \in 1..(n - m + 1) : SubSeq(src, m, n)[i] = src[m + i - 1]
  BY <1>2, SubSeqProperties
<1>4. Len(SubSeq(src, m, n)) \in 0..MaxAccess
  BY <1>1, <1>3, SMT
<1>5. SubSeq(src, m, n) \in [1..Len(SubSeq(src, m, n)) -> Byte]
  BY <1>3, LenProperties
<1> QED
  BY <1>3, <1>4, <1>5 DEF Strings

\* How an access is split.
LEMMA SplitAccess ==
  ASSUME NEW addr \in Addr, NEW count \in 0..MaxAccess
  PROVE  /\ Part(addr, count) \in 0..count
         /\ SramStart(addr, Part(addr, count)) = addr + Part(addr, count)
         /\ addr >= LocalSize => Part(addr, count) = 0
         /\ addr < LocalSize /\ addr + count <= LocalSize => Part(addr, count) = count
         /\ addr < LocalSize /\ addr + count > LocalSize => addr + Part(addr, count) = LocalSize
         /\ addr + Part(addr, count) \in Addr
BY MemoryAssumption, SMT DEF MemoryAssumption, Addr, Part, SramStart

\* The part of a write that falls in local.
LEMMA WrittenLocal ==
  ASSUME NEW addr \in Addr, NEW src \in Strings, local \in [Locals -> Byte]
  PROVE  /\ LocalWritten(local, addr, src) \in [Locals -> Byte]
         /\ \A a \in Locals :
              LocalWritten(local, addr, src)[a] =
                IF addr <= a /\ a < addr + Len(src) THEN src[a - addr + 1] ELSE local[a]
<1> DEFINE part == Part(addr, Len(src))
           head == SubSeq(src, 1, part)
<1>1. /\ Len(src) \in 0..MaxAccess /\ part \in 0..Len(src)
      /\ addr >= LocalSize => part = 0
      /\ addr < LocalSize /\ addr + Len(src) <= LocalSize => part = Len(src)
      /\ addr < LocalSize /\ addr + Len(src) > LocalSize => addr + part = LocalSize
  BY StringIsSeq, SplitAccess
<1>2. CASE part = 0
  <2>1. \A a \in Locals : ~(addr <= a /\ a < addr + Len(src))
    <3> HIDE DEF part
    <3> QED
      BY <1>1, <1>2, MemoryAssumption, SMT DEF MemoryAssumption, Locals, Addr
  <2> QED
    BY <1>2, <2>1 DEF LocalWritten
<1>3. CASE part # 0
  <2>1. MaxAccess \in Nat /\ 1 \in 1..(MaxAccess + 1)
    BY MemoryAssumption, SMT DEF MemoryAssumption
  <2>2. head \in Seq(Byte) /\ Len(head) = part /\ \A i \in 1..part : head[i] = src[i]
    <3> HIDE DEF part
    <3>1. Len(head) = (IF 1 <= part THEN part - 1 + 1 ELSE 0)
          /\ head \in Seq(Byte) /\ \A i \in 1..(part - 1 + 1) : head[i] = src[1 + i - 1]
      BY <1>1, <2>1, PartOfString
    <3> QED
      BY <1>1, <1>3, <3>1, SMT
  <2>3. /\ addr < LocalSize /\ addr + part <= LocalSize
        /\ addr + Len(src) <= LocalSize => part = Len(src)
        /\ addr + Len(src) > LocalSize => addr + part = LocalSize
    <3> HIDE DEF part
    <3> QED
      BY <1>1, <1>3, MemoryAssumption, SMT DEF MemoryAssumption, Addr
  <2>4. \A i \in 1..part : SramAddr(addr, i) \in Locals
    <3> HIDE DEF part
    <3> QED
      BY <1>1, <2>3, MemoryAssumption, SMT DEF MemoryAssumption, Addr, Locals, SramAddr
  <2>5. \A a \in Locals :
          /\ ByteAt(addr, a) <= part <=> addr <= a /\ a < addr + Len(src)
          /\ ByteAt(addr, a) <= part => ByteAt(addr, a) = a - addr + 1 /\ ByteAt(addr, a) \in 1..part
    <3> HIDE DEF part
    <3> QED
      BY <1>1, <2>3, MemoryAssumption, SMT DEF MemoryAssumption, Addr, Locals, ByteAt
  <2>6. LocalWritten(local, addr, src) =
          [a \in Locals |-> IF ByteAt(addr, a) <= part THEN head[ByteAt(addr, a)] ELSE local[a]]
    <3>1. DOMAIN local \cup {SramAddr(addr, i) : i \in 1..Len(head)} = Locals
      BY <2>2, <2>4
    <3> QED
      BY <1>3, <2>2, <3>1 DEF LocalWritten, Stored
  <2>7. \A a \in Locals : ByteAt(addr, a) <= part => head[ByteAt(addr, a)] = src[a - addr + 1]
    BY <2>2, <2>5
  <2>8. \A i \in 1..part : head[i] \in Byte
    BY <2>2, SMT
  <2> HIDE DEF head, part
  <2> QED
    BY <2>5, <2>6, <2>7, <2>8
<1> QED
  BY <1>2, <1>3

\* The part of a write that falls in the chip, and in sight of the programs.
LEMMA WrittenSram ==
  ASSUME NEW addr \in Addr, NEW src \in Strings, sram \in [Addr -> Byte]
  PROVE  /\ SramWritten(sram, addr, src) \in [Addr -> Byte]
         /\ \A a \in Addr \ Locals :
              SramWritten(sram, addr, src)[a] =
                IF addr <= a /\ a < addr + Len(src) THEN src[a - addr + 1] ELSE sram[a]
<1> DEFINE part == Part(addr, Len(src))
           rest == SubSeq(src, part + 1, Len(src))
           first == addr + part
<1>1. /\ Len(src) \in 0..MaxAccess /\ part \in 0..Len(src) /\ first \in Addr
      /\ part + 1 \in 1..(MaxAccess + 1) /\ Len(src) \in 0..Len(src)
  <2>1. Len(src) \in 0..MaxAccess /\ MaxAccess \in Nat
    BY StringIsSeq, MemoryAssumption DEF MemoryAssumption
  <2>2. part \in 0..Len(src) /\ first \in Addr
    BY <2>1, SplitAccess
  <2> HIDE DEF part
  <2> QED
    BY <2>1, <2>2, SMT
<1>2. /\ rest \in Seq(Byte) /\ Len(rest) = Len(src) - part /\ Len(rest) \in 0..MaxAccess
      /\ \A i \in 1..Len(rest) : rest[i] = src[part + i]
  <2> HIDE DEF part
  <2>1. /\ rest \in Seq(Byte)
        /\ Len(rest) = (IF part + 1 <= Len(src) THEN Len(src) - (part + 1) + 1 ELSE 0)
        /\ \A i \in 1..(Len(src) - (part + 1) + 1) : rest[i] = src[part + 1 + i - 1]
    BY <1>1, PartOfString
  <2>2. Len(rest) = Len(src) - part /\ Len(rest) \in 0..MaxAccess
    BY <1>1, <2>1, MemoryAssumption, SMT DEF MemoryAssumption
  <2>3. \A i \in 1..Len(rest) : rest[i] = src[part + i]
    <3> TAKE i \in 1..Len(rest)
    <3>1. i \in 1..(Len(src) - (part + 1) + 1) /\ part + 1 + i - 1 = part + i
      BY <1>1, <2>2, SMT
    <3> QED
      BY <2>1, <3>1
  <2> QED
    BY <2>1, <2>2, <2>3
<1>3. SramWritten(sram, addr, src) = Stored(sram, first, rest)
  BY <1>1, SplitAccess DEF SramWritten
<1>4. /\ Stored(sram, first, rest) \in [Addr -> Byte]
      /\ \A a \in Addr : Stored(sram, first, rest)[a] =
                          IF ByteAt(first, a) <= Len(rest) THEN rest[ByteAt(first, a)] ELSE sram[a]
  <2> HIDE DEF rest, first
  <2> QED
    BY <1>1, <1>2, StoredBytes
<1>5. \A a \in Addr \ Locals :
        /\ ByteAt(first, a) <= Len(rest) <=> addr <= a /\ a < addr + Len(src)
        /\ ByteAt(first, a) <= Len(rest) =>
             ByteAt(first, a) \in 1..Len(rest) /\ part + ByteAt(first, a) = a - addr + 1
  <2>1. /\ addr >= LocalSize => part = 0
        /\ addr < LocalSize /\ addr + Len(src) <= LocalSize => part = Len(src)
        /\ addr < LocalSize /\ addr + Len(src) > LocalSize => first = LocalSize
    BY <1>1, SplitAccess
  <2> HIDE DEF part, rest
  <2> QED
    BY <1>1, <1>2, <2>1, MemoryAssumption, SMT DEF MemoryAssumption, Addr, Locals, ByteAt
<1> HIDE DEF part, rest, first
<1> QED
  BY <1>2, <1>3, <1>4, <1>5

\* What a read returns.
LEMMA ReadBytes ==
  ASSUME NEW addr \in Addr, NEW count \in 0..MaxAccess, TypeOK
  PROVE  /\ VmRead(local, sram, addr, count) \in [1..count -> Byte]
         /\ \A i \in 1..count : addr + i - 1 \in Addr =>
              VmRead(local, sram, addr, count)[i] = Mem[addr + i - 1]
<1> DEFINE part == Part(addr, count)
           at(i) == IF i <= part THEN Holds(local, addr + i - 1)
                    ELSE Holds(sram, SramAddr(SramStart(addr, part), i - part))
<1>1. part \in 0..count /\ addr + part \in Addr /\ SramStart(addr, part) = addr + part
  BY SplitAccess
<1>2. \A i \in 1..count : i <= part => addr + i - 1 \in Locals
  <2> HIDE DEF part
  <2> QED
    BY <1>1, SplitAccess, MemoryAssumption, SMT DEF MemoryAssumption, Addr, Locals, part
<1>3. \A i \in 1..count : ~(i <= part) =>
        /\ SramAddr(addr + part, i - part) \in Addr
        /\ addr + i - 1 \in Addr => /\ SramAddr(addr + part, i - part) = addr + i - 1
                                    /\ addr + i - 1 >= LocalSize
  <2>1. /\ addr >= LocalSize => part = 0
        /\ addr < LocalSize /\ addr + count <= LocalSize => part = count
        /\ addr < LocalSize /\ addr + count > LocalSize => addr + part = LocalSize
    BY SplitAccess
  <2> HIDE DEF part
  <2> QED
    BY <1>1, <2>1, MemoryAssumption, SMT DEF MemoryAssumption, Addr, Locals, SramAddr
<1>4. \A i \in 1..count : at(i) \in Byte /\ (addr + i - 1 \in Addr => at(i) = Mem[addr + i - 1])
  <2> TAKE i \in 1..count
  <2>1. CASE i <= part
    <3>1. addr + i - 1 \in Locals /\ at(i) = local[addr + i - 1]
      BY <1>2, <2>1 DEF TypeOK, Holds
    <3>2. addr + i - 1 < LocalSize
      BY <3>1, MemoryAssumption, SMT DEF MemoryAssumption, Addr, Locals
    <3> HIDE DEF part, at
    <3> QED
      BY <3>1, <3>2 DEF TypeOK, Mem
  <2>2. CASE ~(i <= part)
    <3> DEFINE b == SramAddr(addr + part, i - part)
    <3>1. b \in Addr /\ at(i) = sram[b]
      BY <1>1, <1>3, <2>2 DEF TypeOK, Holds
    <3>2. addr + i - 1 \in Addr => b = addr + i - 1 /\ ~(addr + i - 1 < LocalSize)
      <4>1. addr + i - 1 \in Addr => b = addr + i - 1 /\ addr + i - 1 >= LocalSize
        BY <1>3, <2>2
      <4> HIDE DEF b, part
      <4> QED
        BY <4>1, MemoryAssumption, SMT DEF MemoryAssumption, Addr
    <3> HIDE DEF part, at, b
    <3> QED
      BY <3>1, <3>2 DEF TypeOK, Mem
  <2> QED
    BY <2>1, <2>2
<1>5. VmRead(local, sram, addr, count) = [i \in 1..count |-> at(i)]
  BY DEF VmRead
<1> HIDE DEF at
<1> QED
  BY <1>4, <1>5

\* A transfer to the chip itself, seen by the programs: what is at or above
\* LocalSize.
LEMMA RawWrite ==
  ASSUME NEW addr \in Addr, NEW src \in Strings, sram \in [Addr -> Byte]
  PROVE  /\ Stored(sram, addr, src) \in [Addr -> Byte]
         /\ \A a \in Addr \ Locals :
              Stored(sram, addr, src)[a] =
                IF addr <= a /\ a < addr + Len(src) THEN src[a - addr + 1] ELSE sram[a]
<1>1. src \in Seq(Byte) /\ Len(src) \in 0..MaxAccess
  BY StringIsSeq
<1>2. /\ Stored(sram, addr, src) \in [Addr -> Byte]
      /\ \A a \in Addr : Stored(sram, addr, src)[a] =
                          IF ByteAt(addr, a) <= Len(src) THEN src[ByteAt(addr, a)] ELSE sram[a]
  BY <1>1, StoredBytes
<1>3. \A a \in Addr \ Locals :
        /\ ByteAt(addr, a) <= Len(src) <=> addr <= a /\ a < addr + Len(src)
        /\ ByteAt(addr, a) <= Len(src) => ByteAt(addr, a) = a - addr + 1
  BY <1>1, MemoryAssumption, SMT DEF MemoryAssumption, Addr, Locals, ByteAt
<1> QED
  BY <1>2, <1>3

-----------------------------------------------------------------------------
(* Type correctness.                                                       *)

LEMMA ReadKeepsType ==
  ASSUME TypeOK, NEW addr \in Addr, NEW count \in 0..MaxAccess, Vm_ram_read(addr, count)
  PROVE  TypeOK'
<1>1. dst' \in Strings
  BY ReadBytes DEF Vm_ram_read, Strings
<1> QED
  BY <1>1 DEF TypeOK, Vm_ram_read

LEMMA WriteKeepsType ==
  ASSUME TypeOK, NEW addr \in Addr, NEW src \in Strings, Vm_ram_write(addr, src)
  PROVE  TypeOK'
BY WrittenLocal, WrittenSram DEF TypeOK, Vm_ram_write

LEMMA RawKeepsType ==
  ASSUME TypeOK, NEW addr \in Addr, NEW src \in Strings, Sram_write(addr, src)
  PROVE  TypeOK'
BY RawWrite DEF TypeOK, Sram_write

LEMMA InitTypeOK == Init => TypeOK
<1> SUFFICES ASSUME Init PROVE TypeOK
  OBVIOUS
<1>1. local \in [Locals -> Byte]
  BY MemoryAssumption DEF MemoryAssumption, Init
<1>2. dst \in Strings
  <2>1. 0 \in 0..MaxAccess
    BY MemoryAssumption, SMT DEF MemoryAssumption
  <2>2. <<>> \in [1..0 -> Byte]
    BY SMT
  <2> QED
    BY <2>1, <2>2 DEF Init, Strings
<1> QED
  BY <1>1, <1>2 DEF Init, TypeOK

LEMMA NextKeepsType == TypeOK /\ [Next]_vars => TypeOK'
<1> SUFFICES ASSUME TypeOK, [Next]_vars PROVE TypeOK'
  OBVIOUS
<1>1. CASE UNCHANGED vars
  BY <1>1 DEF vars, TypeOK
<1>2. CASE \E addr \in Addr, count \in 0..MaxAccess : Vm_ram_read(addr, count)
  BY <1>2, ReadKeepsType
<1>3. CASE \E addr \in Addr, src \in Strings : Vm_ram_write(addr, src)
  BY <1>3, WriteKeepsType
<1>4. CASE \E addr \in Addr, src \in Strings : Sram_write(addr, src)
  BY <1>4, RawKeepsType
<1> QED
  BY <1>1, <1>2, <1>3, <1>4 DEF Next

\* The two memories and what a read returned stay what they are: no access
\* of vm_ram_read, vm_ram_write or sram_write leaves them.
THEOREM MemoryTypeCorrect == Spec => []TypeOK
BY InitTypeOK, NextKeepsType, PTL DEF Spec

-----------------------------------------------------------------------------
(* The refinement.                                                         *)

\* vm_ram_read reads the linear memory.
LEMMA ReadIsRead ==
  ASSUME TypeOK, NEW addr \in Addr, NEW count \in 0..MaxAccess, Vm_ram_read(addr, count)
  PROVE  Linear!Read(addr, count)
<1>1. Mem' = Mem
  BY DEF Mem, Vm_ram_read
<1> QED
  BY <1>1, ReadBytes DEF Linear!Read, Linear!Addr, Addr, Vm_ram_read

\* vm_ram_write writes the linear memory.
LEMMA WriteIsWrite ==
  ASSUME TypeOK, NEW addr \in Addr, NEW src \in Strings, Vm_ram_write(addr, src)
  PROVE  Linear!Write(addr, src)
<1>1. \A a \in Addr :
        Mem'[a] = IF addr <= a /\ a < addr + Len(src) THEN src[a - addr + 1] ELSE Mem[a]
  <2> TAKE a \in Addr
  <2>1. CASE a < LocalSize
    <3>1. a \in Locals
      BY <2>1, MemoryAssumption, SMT DEF MemoryAssumption, Addr, Locals
    <3>2. Mem'[a] = LocalWritten(local, addr, src)[a] /\ Mem[a] = local[a]
      BY <2>1 DEF Mem, Vm_ram_write
    <3> QED
      BY <3>1, <3>2, WrittenLocal DEF TypeOK
  <2>2. CASE ~(a < LocalSize)
    <3>1. a \in Addr \ Locals
      BY <2>2, MemoryAssumption, SMT DEF MemoryAssumption, Addr, Locals
    <3>2. Mem'[a] = SramWritten(sram, addr, src)[a] /\ Mem[a] = sram[a]
      BY <2>2 DEF Mem, Vm_ram_write
    <3> QED
      BY <3>1, <3>2, WrittenSram DEF TypeOK
  <2> QED
    BY <2>1, <2>2
<1>2. Mem' = [a \in Addr |->
        IF addr <= a /\ a < addr + Len(src) THEN src[a - addr + 1] ELSE Mem[a]]
  <2>1. Mem' = [a \in Addr |-> Mem'[a]]
    BY DEF Mem
  <2> QED
    BY <1>1, <2>1
<1>3. Linear!Addr = Addr /\ \A a \in Addr :
        a \in Linear!Under(addr, src) <=> addr <= a /\ a < addr + Len(src)
  BY DEF Linear!Under, Linear!Addr, Addr
<1> QED
  BY <1>2, <1>3 DEF Linear!Write, Vm_ram_write

\* What a transfer to the chip is to the programs.
LEMMA RawInMem ==
  ASSUME TypeOK, NEW addr \in Addr, NEW src \in Strings, Sram_write(addr, src)
  PROVE  /\ Mem' = [a \in Addr |->
                IF LocalSize <= a /\ addr <= a /\ a < addr + Len(src)
                THEN src[a - addr + 1] ELSE Mem[a]]
         /\ dst' = dst
<1>1. \A a \in Addr :
        Mem'[a] = IF LocalSize <= a /\ addr <= a /\ a < addr + Len(src)
                  THEN src[a - addr + 1] ELSE Mem[a]
  <2> TAKE a \in Addr
  <2>1. CASE a < LocalSize
    <3>1. Mem'[a] = local[a] /\ Mem[a] = local[a]
      BY <2>1 DEF Mem, Sram_write
    <3>2. ~(LocalSize <= a)
      BY <2>1, MemoryAssumption, SMT DEF MemoryAssumption, Addr
    <3> QED
      BY <3>1, <3>2
  <2>2. CASE ~(a < LocalSize)
    <3>1. a \in Addr \ Locals /\ LocalSize <= a
      BY <2>2, MemoryAssumption, SMT DEF MemoryAssumption, Addr, Locals
    <3>2. Mem'[a] = Stored(sram, addr, src)[a] /\ Mem[a] = sram[a]
      BY <2>2 DEF Mem, Sram_write
    <3> QED
      BY <3>1, <3>2, RawWrite DEF TypeOK
  <2> QED
    BY <2>1, <2>2
<1>2. Mem' = [a \in Addr |-> Mem'[a]]
  BY DEF Mem
<1> QED
  BY <1>1, <1>2 DEF Sram_write

\* A transfer to the chip is a write to the linear memory, or nothing at all.
LEMMA RawIsWrite ==
  ASSUME TypeOK, NEW addr \in Addr, NEW src \in Strings, Sram_write(addr, src)
  PROVE  Linear!Next \/ UNCHANGED <<Mem, dst>>
<1>0. Linear!Addr = Addr /\ Linear!Strings = Strings
  BY DEF Linear!Addr, Addr, Linear!Strings, Strings
<1>1. Len(src) \in 0..MaxAccess
  BY StringIsSeq
<1>2. CASE addr >= LocalSize
  <2>1. \A a \in Addr :
          a \in Linear!Under(addr, src) <=> LocalSize <= a /\ addr <= a /\ a < addr + Len(src)
    BY <1>0, <1>1, <1>2, MemoryAssumption, SMT DEF MemoryAssumption, Linear!Under, Addr
  <2>2. Linear!Write(addr, src)
    BY <1>0, <2>1, RawInMem DEF Linear!Write
  <2> QED
    BY <1>0, <2>2 DEF Linear!Next
<1>3. CASE addr < LocalSize /\ addr + Len(src) <= LocalSize
  <2>1. \A a \in Addr : ~(LocalSize <= a /\ addr <= a /\ a < addr + Len(src))
    BY <1>1, <1>3, MemoryAssumption, SMT DEF MemoryAssumption, Addr
  <2>2. Mem' = [a \in Addr |-> Mem[a]] /\ dst' = dst
    BY <2>1, RawInMem
  <2> QED
    BY <2>2 DEF Mem
<1>4. CASE addr < LocalSize /\ addr + Len(src) > LocalSize
  <2> DEFINE m == LocalSize - addr + 1
             rest == SubSeq(src, m, Len(src))
  <2>1. /\ LocalSize \in Addr /\ m \in 1..(MaxAccess + 1) /\ m <= Len(src)
        /\ Len(src) \in 0..Len(src)
    BY <1>1, <1>4, MemoryAssumption, SMT DEF MemoryAssumption, Addr
  <2>2. /\ rest \in Strings /\ Len(rest) = Len(src) - m + 1
        /\ \A i \in 1..(Len(src) - m + 1) : rest[i] = src[m + i - 1]
    <3> HIDE DEF m
    <3> QED
      BY <2>1, PartOfString
  <2>3. \A a \in Addr :
          /\ a \in Linear!Under(LocalSize, rest) <=>
               LocalSize <= a /\ addr <= a /\ a < addr + Len(src)
          /\ a \in Linear!Under(LocalSize, rest) =>
               a - LocalSize + 1 \in 1..(Len(src) - m + 1) /\ m + (a - LocalSize + 1) - 1 = a - addr + 1
    <3>1. Len(rest) = Len(src) - m + 1
      BY <2>2
    <3> HIDE DEF rest
    <3> QED
      BY <1>0, <1>1, <1>4, <3>1, MemoryAssumption, SMT DEF MemoryAssumption, Linear!Under, Addr
  <2>4. \A a \in Addr : a \in Linear!Under(LocalSize, rest) =>
          rest[a - LocalSize + 1] = src[a - addr + 1]
    <3> HIDE DEF m, rest
    <3> QED
      BY <2>2, <2>3
  <2>5. Linear!Write(LocalSize, rest)
    <3> HIDE DEF m, rest
    <3>1. Mem' = [a \in Addr |-> IF a \in Linear!Under(LocalSize, rest)
                                THEN rest[a - LocalSize + 1] ELSE Mem[a]]
      BY <2>3, <2>4, RawInMem
    <3> QED
      BY <1>0, <3>1, RawInMem DEF Linear!Write
  <2> QED
    BY <1>0, <2>1, <2>2, <2>5 DEF Linear!Next
<1>5. \/ addr >= LocalSize
      \/ addr < LocalSize /\ addr + Len(src) <= LocalSize
      \/ addr < LocalSize /\ addr + Len(src) > LocalSize
  BY <1>1, MemoryAssumption, SMT DEF MemoryAssumption, Addr
<1> QED
  BY <1>2, <1>3, <1>4, <1>5

LEMMA InitIsInit == Init => Linear!Init
<1> SUFFICES ASSUME Init PROVE Linear!Init
  OBVIOUS
<1>1. \A a \in Addr : Mem[a] \in Byte
  <2> TAKE a \in Addr
  <2>1. a < LocalSize => a \in Locals
    BY MemoryAssumption, SMT DEF MemoryAssumption, Addr, Locals
  <2> QED
    BY <2>1, InitTypeOK DEF TypeOK, Mem
<1>2. Mem \in [Addr -> Byte]
  <2>1. Mem = [a \in Addr |-> Mem[a]]
    BY DEF Mem
  <2> QED
    BY <1>1, <2>1
<1> QED
  BY <1>2 DEF Init, Linear!Init, Linear!Addr, Addr

LEMMA NextIsNext == TypeOK /\ [Next]_vars => [Linear!Next]_<<Mem, dst>>
<1> SUFFICES ASSUME TypeOK, [Next]_vars PROVE Linear!Next \/ UNCHANGED <<Mem, dst>>
  OBVIOUS
<1>0. Linear!Addr = Addr /\ Linear!Strings = Strings
  BY DEF Linear!Addr, Addr, Linear!Strings, Strings
<1>1. CASE UNCHANGED vars
  BY <1>1 DEF vars, Mem
<1>2. CASE \E addr \in Addr, count \in 0..MaxAccess : Vm_ram_read(addr, count)
  BY <1>0, <1>2, ReadIsRead DEF Linear!Next
<1>3. CASE \E addr \in Addr, src \in Strings : Vm_ram_write(addr, src)
  BY <1>0, <1>3, WriteIsWrite DEF Linear!Next
<1>4. CASE \E addr \in Addr, src \in Strings : Sram_write(addr, src)
  BY <1>4, RawIsWrite
<1> QED
  BY <1>1, <1>2, <1>3, <1>4 DEF Next

\* The programs have one linear memory: every access of vm_ram_read and
\* vm_ram_write, however it falls over the array and the chip, is one access
\* to it, and what load, the shell and the picture write to the chip never
\* reaches the bytes a program has in the array.
THEOREM MemoryIsLinear == Spec => IsLinear
<1>1. Init => Linear!Init
  BY InitIsInit
<1>2. TypeOK /\ [Next]_vars => [Linear!Next]_<<Mem, dst>>
  BY NextIsNext
<1> QED
  BY <1>1, <1>2, MemoryTypeCorrect, PTL DEF Spec, IsLinear, Linear!Spec
=============================================================================
