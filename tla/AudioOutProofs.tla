--------------------------- MODULE AudioOutProofs ---------------------------
(***************************************************************************)
(* save and the interrupt of timer 2 share the ring buffer without a lock. *)
(* For every size of the buffer, of the stages and of the block, the PWM   *)
(* is given the samples in order and each once, save returns 0 only if all *)
(* of them were played, and the buffer is a queue.                         *)
(*                                                                         *)
(* What carries it: QueueInv, the samples played and those in the buffer   *)
(* together are the samples put; StageInv, which sample a stage ends with; *)
(* and EndInv, an error raised after save has kept its copy was raised on  *)
(* an empty buffer.                                                        *)
(***************************************************************************)
EXTENDS AudioOut, AudioRingProofs

Busy == pc \in {"spin", "put", "loop", "trailer", "err", "drain", "off"}

\* The last sample of the header and k bytes.
Goal(k) == Header + k * PerByte

StageInv ==
  /\ pc \in {"prompt", "start"} => stage = "header" /\ i = 0 /\ next = 1
  /\ pc \in {"spin", "put"} =>
       /\ next <= lim
       /\ stage = "header" => i = 0 /\ lim = Goal(0)
       /\ stage = "byte" => i < len /\ lim = Goal(i + 1)
       /\ stage = "end" => lim = Goal(len) + Trailer
  /\ pc \in {"loop", "trailer"} =>
       stage # "end" /\ next = lim + 1 /\ lim = Goal(i)
  /\ pc = "trailer" /\ ~aerr => i = len
  /\ pc \in {"err", "drain", "off"} =>
       /\ next = lim + 1
       /\ stage = "end" => lim = Goal(len) + Trailer
       /\ stage # "end" => aerr

QueueInv ==
  /\ pc = "put" => ~AinFull(ring)
  /\ Busy => Len(out) + Len(Contents(ring)) = next - 1
  /\ Busy => \A k \in 1..Len(Contents(ring)) :
                Contents(ring)[k] = [run |-> run, n |-> Len(out) + k]

EndInv ==
  /\ pc \in {"drain", "off"} /\ ~err =>
       stage = "end" /\ (aerr => ~AinReady(ring))
  /\ pc = "off" => aerr
  /\ result = "saved" => pc = "idle" /\ Len(out) = SampleCount(len)

IInv ==
  /\ TypeOK /\ (toie <=> Busy)
  /\ StageInv /\ QueueInv /\ EndInv /\ PlaysInOrder

-----------------------------------------------------------------------------
\* The parameters are numbers.
LEMMA Numbers ==
  /\ Header \in Nat /\ Header > 0 /\ PerByte \in Nat /\ PerByte > 0
  /\ Trailer \in Nat /\ Trailer > 0
  /\ MaxLen \in Nat /\ Divider \in Nat /\ Divider > 0
BY AudioOutAssumption, SMT DEF AudioOutAssumption

\* Arithmetic of the samples of a save.
LEMMA Goals ==
  ASSUME NEW k \in Nat
  PROVE  /\ Goal(k) \in Nat /\ Goal(k) >= Header
         /\ Goal(0) = Header /\ Goal(k + 1) = Goal(k) + PerByte
         /\ SampleCount(k) = Goal(k) + Trailer /\ SampleCount(k) \in Nat
<1>1. k * PerByte \in Nat /\ (k + 1) * PerByte = k * PerByte + PerByte /\ 0 * PerByte = 0
  BY Numbers, SMT
<1> QED
  BY <1>1, Numbers, SMT DEF Goal, SampleCount

\* More bytes, no fewer samples.
LEMMA MoreSamples ==
  ASSUME NEW j \in Nat, NEW k \in Nat, j <= k
  PROVE  Goal(j) <= Goal(k) /\ SampleCount(j) <= SampleCount(k)
<1>1. PICK d \in Nat : k = j + d
  BY SMT
<1>2. k * PerByte = j * PerByte + d * PerByte /\ d * PerByte \in Nat /\ j * PerByte \in Nat
  BY Numbers, <1>1, SMT
<1> QED
  BY <1>2, Numbers, SMT DEF Goal, SampleCount

\* A sample that is put is one of the samples of the longest save.
LEMMA NextIsSample ==
  ASSUME TypeOK, next <= lim
  PROVE  [run |-> run, n |-> next] \in Samples
<1>1. /\ run \in {0, 1} /\ len \in 0..MaxLen
      /\ next \in 1..(SampleCount(len) + 1) /\ lim \in 0..SampleCount(len)
  BY DEF TypeOK
<1>2. next \in 0..SampleCount(MaxLen)
  <2>1. len \in Nat /\ len <= MaxLen /\ MaxLen \in Nat
    BY <1>1, Numbers, SMT
  <2>2. SampleCount(len) <= SampleCount(MaxLen) /\ SampleCount(len) \in Nat /\ SampleCount(MaxLen) \in Nat
    BY <2>1, Goals, MoreSamples
  <2> QED
    BY <1>1, <2>2, SMT
<1>3. run \in {0, 1}
  BY <1>1
<1> QED
  BY <1>2, <1>3 DEF Samples

LEMMA InitInv == Init => IInv
<1> SUFFICES ASSUME Init PROVE IInv
  OBVIOUS
<1>1. BufSize \in Nat \ {0, 1}
  BY RingAssumption DEF RingAssumption
<1>2. Blank \in Samples
  BY Goals, Numbers, SMT DEF Blank, Samples
<1>3. ring \in Rings(Samples)
  BY <1>1, <1>2, RingFields, SMT DEF Init, Slots
<1>4. TypeOK
  <2>1. SampleCount(0) \in Nat
    BY Goals
  <2>2. out \in Seq(Samples)
    BY EmptySeq DEF Init
  <2>3. len = 0 /\ i = 0 /\ next = 1 /\ lim = 0 /\ cnt = Divider - 1
    BY DEF Init
  <2>4. /\ len \in 0..MaxLen /\ i \in 0..len
        /\ next \in 1..(SampleCount(len) + 1) /\ lim \in 0..SampleCount(len)
        /\ cnt \in 0..(Divider - 1)
    BY <2>1, <2>3, Numbers, SMT
  <2> QED
    BY <1>3, <2>2, <2>4 DEF Init, TypeOK
<1>5. Contents(ring) \in Seq(Samples)
  BY <1>3, ContentsIsSeq
<1> QED
  BY <1>4, <1>5 DEF Init, IInv, Busy, StageInv, QueueInv, EndInv, PlaysInOrder
-----------------------------------------------------------------------------
(* Each action keeps the invariant.                                        *)

\* What the steps of save that leave the buffer alone share.
LEMMA BufferAlone ==
  ASSUME IInv, UNCHANGED <<ring, out, run, next>>, Busy' => Busy,
         pc' = "put" => ~AinFull(ring)
  PROVE  QueueInv' /\ PlaysInOrder'
<1>1. QueueInv /\ PlaysInOrder
  BY DEF IInv
<1> QED
  BY <1>1 DEF QueueInv, PlaysInOrder

LEMMA CallInv ==
  ASSUME IInv, pc = "idle" \/ pc = "prompt",
         (\E n \in 0..MaxLen, quiet \in BOOLEAN : Save(n, quiet))
           \/ (\E key \in {"enter", "esc"} : Prompt(key))
  PROVE  IInv'
<1> USE DEF IInv
<1>1. CASE \E n \in 0..MaxLen, quiet \in BOOLEAN : Save(n, quiet)
  <2> PICK n \in 0..MaxLen, quiet \in BOOLEAN : Save(n, quiet)
    BY <1>1
  <2>1. n \in Nat /\ SampleCount(n) \in Nat
    BY Numbers, Goals, SMT
  <2>2. /\ len' = n /\ i' = 0 /\ next' = 1 /\ lim' = 0 /\ stage' = "header"
        /\ err' = FALSE /\ result' = "none" /\ pc' \in {"start", "prompt"}
        /\ UNCHANGED <<run, ring, aerr, cnt, toie, out>> /\ pc = "idle"
    BY DEF Save, isr
  <2>3. /\ len' \in 0..MaxLen /\ i' \in 0..len'
        /\ next' \in 1..(SampleCount(len') + 1) /\ lim' \in 0..SampleCount(len')
    BY <2>1, <2>2, SMT
  <2>4. TypeOK'
    BY <2>2, <2>3 DEF TypeOK
  <2>5. ~toie /\ ~Busy /\ ~Busy'
    BY <2>2 DEF Busy
  <2>6. StageInv' /\ EndInv' /\ QueueInv' /\ PlaysInOrder' /\ (toie <=> Busy)'
    BY <2>2, <2>5 DEF StageInv, EndInv, QueueInv, PlaysInOrder, Busy
  <2> QED
    BY <2>4, <2>6
<1>2. CASE \E key \in {"enter", "esc"} : Prompt(key)
  <2>1. /\ pc = "prompt"
        /\ \/ pc' = "start" /\ result' = result
           \/ pc' = "idle" /\ result' = "failed"
        /\ UNCHANGED <<stage, len, i, next, lim, run, err, ring, aerr, cnt, toie, out>>
    BY <1>2 DEF Prompt, saver, isr
  <2>2. TypeOK'
    BY <2>1 DEF TypeOK
  <2>3. (toie <=> Busy)' /\ StageInv' /\ EndInv'
    BY <2>1 DEF Busy, StageInv, EndInv
  <2>4. QueueInv' /\ PlaysInOrder'
    BY <2>1, BufferAlone DEF Busy
  <2> QED
    BY <2>2, <2>3, <2>4
<1> QED
  BY <1>1, <1>2

LEMMA StartInv == IInv /\ Start => IInv'
<1> SUFFICES ASSUME IInv, Start PROVE IInv'
  OBVIOUS
<1> USE DEF IInv
<1>1. /\ pc = "start" /\ pc' = "spin" /\ ring' = Flushed(ring)
      /\ aerr' = FALSE /\ toie' = TRUE /\ lim' = Header /\ run' = 1 - run
      /\ out' = <<>> /\ UNCHANGED <<stage, len, i, next, err, result, cnt>>
  BY DEF Start
<1>2. ring' \in Rings(Samples) /\ Contents(ring') = <<>>
  BY <1>1, FlushedIsEmpty DEF TypeOK
<1>3. len \in Nat
  BY Numbers, SMT DEF TypeOK
<1>4. lim' \in 0..SampleCount(len) /\ lim' = Goal(0)
  <2>1. Goal(0) = Header /\ Goal(len) >= Header /\ Goal(len) \in Nat
        /\ SampleCount(len) = Goal(len) + Trailer
    BY <1>3, Goals
  <2> QED
    BY <1>1, <2>1, Numbers, SMT
<1>5. run' \in {0, 1} /\ out' \in Seq(Samples)
  BY <1>1, EmptySeq, SMT DEF TypeOK
<1>6. stage = "header" /\ i = 0 /\ next = 1 /\ result # "saved"
  BY <1>1 DEF StageInv, EndInv
<1>7. TypeOK'
  BY <1>1, <1>2, <1>4, <1>5 DEF TypeOK
<1>8. (toie <=> Busy)' /\ EndInv' /\ PlaysInOrder'
  BY <1>1, <1>6 DEF Busy, EndInv, PlaysInOrder
<1>9. StageInv'
  BY <1>1, <1>4, <1>6, Numbers, SMT DEF StageInv
<1>10. QueueInv'
  BY <1>1, <1>2, <1>6, SMT DEF QueueInv
<1> QED
  BY <1>7, <1>8, <1>9, <1>10

LEMMA SpinInv == IInv /\ Spin => IInv'
<1> SUFFICES ASSUME IInv, Spin PROVE IInv'
  OBVIOUS
<1>1. /\ pc = "spin" /\ pc' = "put" /\ ~AinFull(ring)
      /\ UNCHANGED <<stage, len, i, next, lim, run, err, result, ring, aerr, cnt, toie, out>>
  BY DEF Spin, saver, isr
<1>2. TypeOK'
  BY <1>1 DEF IInv, TypeOK
<1>3. QueueInv' /\ PlaysInOrder'
  BY <1>1, BufferAlone DEF Busy
<1>4. (toie <=> Busy)' /\ StageInv' /\ EndInv'
  BY <1>1 DEF IInv, Busy, StageInv, EndInv
<1> QED
  BY <1>2, <1>3, <1>4 DEF IInv

\* A sample is put behind those that wait, and its number is the next.
LEMMA AinPutInv == IInv /\ AinPut => IInv'
<1> SUFFICES ASSUME IInv, AinPut PROVE IInv'
  OBVIOUS
<1> USE DEF IInv
<1> DEFINE x == [run |-> run, n |-> next]
<1>1. /\ pc = "put" /\ ring' = Stored(ring, x) /\ next' = next + 1
      /\ \/ next < lim /\ pc' = "spin" /\ i' = i
         \/ /\ ~(next < lim) /\ pc' = (IF stage = "end" THEN "err" ELSE "loop")
            /\ i' = IF stage = "byte" THEN i + 1 ELSE i
      /\ UNCHANGED <<stage, len, lim, err, result, run, aerr, cnt, toie, out>>
  BY DEF AinPut, isr
<1>2. ~AinFull(ring) /\ next <= lim /\ Busy /\ Busy' /\ toie
  BY <1>1 DEF QueueInv, StageInv, Busy
<1>3. /\ len \in Nat /\ len <= MaxLen /\ i \in Nat /\ i <= len /\ next \in Nat /\ next > 0
      /\ SampleCount(len) \in Nat /\ lim \in Nat /\ lim <= SampleCount(len)
  <2>1. len \in Nat /\ len <= MaxLen
    BY Numbers, SMT DEF TypeOK
  <2>2. SampleCount(len) \in Nat
    BY <2>1, Goals
  <2>3. i \in 0..len /\ next \in 1..(SampleCount(len) + 1) /\ lim \in 0..SampleCount(len)
    BY DEF TypeOK
  <2> QED
    BY <2>1, <2>2, <2>3, SMT
<1>4. ring \in Rings(Samples) /\ x \in Samples
  BY <1>2, NextIsSample DEF TypeOK
<1>5. /\ ring' \in Rings(Samples) /\ Contents(ring') = Append(Contents(ring), x)
      /\ Contents(ring) \in Seq(Samples)
  BY <1>1, <1>2, <1>4, StoredIsAppend, ContentsIsSeq
<1>6. StageInv'
  <2>1. CASE next < lim
    BY <1>1, <1>3, <2>1, SMT DEF StageInv
  <2>2. CASE ~(next < lim)
    <3>1. next' = lim + 1 /\ lim' = lim
      BY <1>1, <1>2, <1>3, <2>2, SMT
    <3>2. CASE stage = "end"
      BY <1>1, <2>2, <3>1, <3>2 DEF StageInv
    <3>3. CASE stage = "byte"
      BY <1>1, <2>2, <3>1, <3>3 DEF StageInv
    <3>4. CASE stage = "header"
      BY <1>1, <2>2, <3>1, <3>4 DEF StageInv
    <3> QED
      BY <3>2, <3>3, <3>4 DEF TypeOK
  <2> QED
    BY <2>1, <2>2
<1>7. TypeOK'
  <2>1. next' \in 1..(SampleCount(len') + 1)
    BY <1>1, <1>2, <1>3, SMT
  <2>2. i' \in 0..len'
    BY <1>1, <1>3, SMT DEF StageInv
  <2> QED
    BY <1>1, <1>5, <2>1, <2>2 DEF TypeOK
<1>8. QueueInv'
  <2> DEFINE q == Contents(ring)
  <2>1. /\ Len(out) + Len(q) = next - 1
        /\ \A k \in 1..Len(q) : q[k] = [run |-> run, n |-> Len(out) + k]
    BY <1>2 DEF QueueInv
  <2>2. Len(out) \in Nat /\ Len(q) \in Nat
    BY <1>5, LenProperties DEF TypeOK
  <2>3. /\ Len(Append(q, x)) = Len(q) + 1
        /\ \A k \in 1..Len(q) : Append(q, x)[k] = q[k]
        /\ Append(q, x)[Len(q) + 1] = x
    BY <1>4, <1>5, AppendProperties
  <2>4. Len(out) + Len(Append(q, x)) = next' - 1
    BY <1>1, <1>3, <2>1, <2>2, <2>3, SMT
  <2>5. ASSUME NEW k \in 1..(Len(q) + 1)
        PROVE  Append(q, x)[k] = [run |-> run, n |-> Len(out) + k]
    <3>1. CASE k \in 1..Len(q)
      BY <2>1, <2>3, <3>1
    <3>2. CASE k = Len(q) + 1
      <4>1. Len(out) + k = next
        BY <1>3, <2>1, <2>2, <3>2, SMT
      <4> QED
        BY <2>3, <3>2, <4>1
    <3> QED
      BY <2>2, <3>1, <3>2, SMT
  <2>6. pc' # "put"
    BY <1>1
  <2> QED
    BY <1>1, <1>5, <2>3, <2>4, <2>5, <2>6 DEF QueueInv
<1>9. (toie <=> Busy)' /\ EndInv' /\ PlaysInOrder'
  BY <1>1, <1>2 DEF Busy, EndInv, PlaysInOrder
<1> QED
  BY <1>6, <1>7, <1>8, <1>9

LEMMA LoopInv == IInv /\ Loop => IInv'
<1> SUFFICES ASSUME IInv, Loop PROVE IInv'
  OBVIOUS
<1> USE DEF IInv
<1>1. /\ pc = "loop" /\ UNCHANGED <<len, i, next, run, err, result, ring, aerr, cnt, toie, out>>
      /\ \/ i < len /\ ~aerr /\ pc' = "spin" /\ stage' = "byte" /\ lim' = lim + PerByte
         \/ ~(i < len /\ ~aerr) /\ pc' = "trailer" /\ UNCHANGED <<stage, lim>>
  BY DEF Loop, MoreBytes, isr
<1>2. stage # "end" /\ next = lim + 1 /\ lim = Goal(i)
  BY <1>1 DEF StageInv
<1>3. len \in Nat /\ len <= MaxLen /\ i \in Nat /\ i <= len
  BY Numbers, SMT DEF TypeOK
<1>4. i < len => lim + PerByte = Goal(i + 1) /\ lim + PerByte \in 0..SampleCount(len)
  <2>1. /\ Goal(i) \in Nat /\ Goal(i + 1) = Goal(i) + PerByte
        /\ Goal(len) \in Nat /\ SampleCount(len) = Goal(len) + Trailer
    BY <1>3, Goals
  <2>2. i < len => Goal(i + 1) <= Goal(len)
    <3>1. i + 1 \in Nat /\ (i < len => i + 1 <= len)
      BY <1>3, SMT
    <3> QED
      BY <1>3, <3>1, MoreSamples
  <2> QED
    BY <1>2, <2>1, <2>2, Numbers, SMT
<1>5. TypeOK'
  BY <1>1, <1>4 DEF TypeOK
<1>6. QueueInv' /\ PlaysInOrder'
  BY <1>1, BufferAlone DEF Busy
<1>7. StageInv'
  <2>1. lim \in Nat
    BY <1>2, <1>3, Goals
  <2> QED
    BY <1>1, <1>2, <1>3, <1>4, <2>1, Numbers, SMT DEF StageInv
<1>8. (toie <=> Busy)' /\ EndInv'
  BY <1>1 DEF Busy, EndInv
<1> QED
  BY <1>5, <1>6, <1>7, <1>8

LEMMA EncodeEndInv == IInv /\ EncodeEnd => IInv'
<1> SUFFICES ASSUME IInv, EncodeEnd PROVE IInv'
  OBVIOUS
<1> USE DEF IInv
<1>1. /\ pc = "trailer" /\ UNCHANGED <<len, i, next, run, err, result, ring, aerr, cnt, toie, out>>
      /\ \/ aerr /\ pc' = "err" /\ UNCHANGED <<stage, lim>>
         \/ ~aerr /\ pc' = "spin" /\ stage' = "end" /\ lim' = lim + Trailer
  BY DEF EncodeEnd, isr
<1>2. stage # "end" /\ next = lim + 1 /\ lim = Goal(i) /\ (~aerr => i = len)
  BY <1>1 DEF StageInv
<1>3. len \in Nat /\ SampleCount(len) = Goal(len) + Trailer /\ Goal(len) \in Nat
  <2>1. len \in Nat
    BY Numbers, SMT DEF TypeOK
  <2> QED
    BY <2>1, Goals
<1>4. ~aerr => lim' = SampleCount(len) /\ lim' \in 0..SampleCount(len) /\ next <= lim'
  BY <1>1, <1>2, <1>3, Numbers, SMT
<1>5. TypeOK'
  BY <1>1, <1>4 DEF TypeOK
<1>6. QueueInv' /\ PlaysInOrder'
  BY <1>1, BufferAlone DEF Busy
<1>7. StageInv'
  BY <1>1, <1>2, <1>3, <1>4 DEF StageInv
<1>8. (toie <=> Busy)' /\ EndInv'
  BY <1>1 DEF Busy, EndInv
<1> QED
  BY <1>5, <1>6, <1>7, <1>8

LEMMA KeepErrorInv == IInv /\ KeepError => IInv'
<1> SUFFICES ASSUME IInv, KeepError PROVE IInv'
  OBVIOUS
<1>1. /\ pc = "err" /\ pc' = "drain" /\ err' = aerr
      /\ UNCHANGED <<stage, len, i, next, lim, run, result, ring, aerr, cnt, toie, out>>
  BY DEF KeepError, KeptError, saver, isr
<1>2. TypeOK'
  BY <1>1 DEF IInv, TypeOK
<1>3. QueueInv' /\ PlaysInOrder'
  BY <1>1, BufferAlone DEF Busy
<1>4. StageInv' /\ (toie <=> Busy)'
  BY <1>1 DEF IInv, Busy, StageInv
<1>5. EndInv'
  BY <1>1 DEF IInv, StageInv, EndInv
<1> QED
  BY <1>2, <1>3, <1>4, <1>5 DEF IInv

LEMMA DrainInv == IInv /\ Drain => IInv'
<1> SUFFICES ASSUME IInv, Drain PROVE IInv'
  OBVIOUS
<1>1. /\ pc = "drain" /\ pc' = "off" /\ aerr
      /\ UNCHANGED <<stage, len, i, next, lim, run, err, result, ring, aerr, cnt, toie, out>>
  BY DEF Drain, DrainDone, saver, isr
<1>2. TypeOK'
  BY <1>1 DEF IInv, TypeOK
<1>3. QueueInv' /\ PlaysInOrder'
  BY <1>1, BufferAlone DEF Busy
<1>4. StageInv' /\ EndInv' /\ (toie <=> Busy)'
  BY <1>1 DEF IInv, Busy, StageInv, EndInv
<1> QED
  BY <1>2, <1>3, <1>4 DEF IInv

\* save returns 0: nothing is left in the buffer, so all of it was played.
LEMMA FinishInv == IInv /\ Finish => IInv'
<1> SUFFICES ASSUME IInv, Finish PROVE IInv'
  OBVIOUS
<1> USE DEF IInv
<1>1. /\ pc = "off" /\ pc' = "idle" /\ toie' = FALSE
      /\ result' = IF err THEN "failed" ELSE "saved"
      /\ UNCHANGED <<stage, len, i, next, lim, run, err, ring, aerr, cnt, out>>
  BY DEF Finish, saver
<1>2. TypeOK'
  BY <1>1 DEF TypeOK
<1>3. ~Busy' /\ Busy
  BY <1>1 DEF Busy
<1>4. QueueInv' /\ PlaysInOrder' /\ StageInv'
  BY <1>1, <1>3 DEF QueueInv, PlaysInOrder, StageInv
<1>5. ~err => Len(out) = SampleCount(len)
  <2> SUFFICES ASSUME ~err PROVE Len(out) = SampleCount(len)
    OBVIOUS
  <2>1. stage = "end" /\ ~AinReady(ring)
    BY <1>1 DEF EndInv
  <2>2. ring \in Rings(Samples) /\ len \in Nat /\ out \in Seq(Samples)
    BY Numbers, SMT DEF TypeOK
  <2>3. Len(Contents(ring)) = 0
    <3>1. RingLen(ring) \in 0..(BufSize - 1) /\ ~(RingLen(ring) > 0)
      BY <2>1, <2>2, RingLength
    <3>2. Len(Contents(ring)) = RingLen(ring)
      BY <2>2, ContentsIsSeq
    <3> QED
      BY <3>1, <3>2, RingAssumption, SMT DEF RingAssumption
  <2>4. /\ Len(out) + Len(Contents(ring)) = next - 1
        /\ next = lim + 1 /\ lim = Goal(len) + Trailer
    BY <1>1, <1>3, <2>1 DEF QueueInv, StageInv
  <2>5. Goal(len) \in Nat /\ SampleCount(len) = Goal(len) + Trailer
    BY <2>2, Goals
  <2>6. Len(out) \in Nat
    BY <2>2, LenProperties
  <2> QED
    BY <2>3, <2>4, <2>5, <2>6, Numbers, SMT
<1>6. EndInv'
  BY <1>1, <1>5 DEF EndInv, TypeOK
<1> QED
  BY <1>1, <1>2, <1>3, <1>4, <1>6

\* The interrupt plays the oldest sample, which is the next one to play.
LEMMA TimerInv == IInv /\ TimerOverflow => IInv'
<1> SUFFICES ASSUME IInv, TimerOverflow PROVE IInv'
  OBVIOUS
<1> USE DEF IInv
<1>1. /\ toie /\ cnt' = (IF SampleDue THEN 0 ELSE cnt + 1)
      /\ \/ ~SampleDue /\ UNCHANGED <<aerr, out, ring>>
         \/ SampleDue /\ Underrun /\ aerr' = TRUE /\ UNCHANGED <<out, ring>>
         \/ /\ SampleDue /\ ~Underrun /\ UNCHANGED aerr
            /\ out' = Append(out, Oldest(ring)) /\ ring' = Taken(ring)
      /\ UNCHANGED <<toie, pc, stage, len, i, next, lim, run, err, result>>
  BY DEF TimerOverflow, saver
<1>2. cnt' \in 0..(Divider - 1)
  <2>1. cnt \in 0..(Divider - 1)
    BY DEF TypeOK
  <2> QED
    BY <1>1, <2>1, Numbers, SMT DEF SampleDue
<1>3. Busy /\ Busy' /\ ring \in Rings(Samples) /\ out \in Seq(Samples) /\ next \in Nat
  <2>1. next \in 1..(SampleCount(len) + 1) /\ len \in Nat
    BY Numbers, SMT DEF TypeOK
  <2>2. next \in Nat
    BY <2>1, Goals, SMT
  <2> QED
    BY <1>1, <2>2 DEF Busy, TypeOK
<1>4. CASE UNCHANGED <<aerr, out, ring>>
  BY <1>1, <1>2, <1>4 DEF TypeOK, Busy, StageInv, QueueInv, EndInv, PlaysInOrder
<1>5. CASE Underrun /\ aerr' = TRUE /\ UNCHANGED <<out, ring>>
  <2>1. TypeOK' /\ (toie <=> Busy)' /\ StageInv' /\ QueueInv' /\ PlaysInOrder'
    BY <1>1, <1>2, <1>5 DEF TypeOK, Busy, StageInv, QueueInv, PlaysInOrder
  <2>2. EndInv'
    BY <1>1, <1>5 DEF EndInv, Underrun, Busy
  <2> QED
    BY <2>1, <2>2
<1>6. CASE /\ ~Underrun /\ UNCHANGED aerr
           /\ out' = Append(out, Oldest(ring)) /\ ring' = Taken(ring)
  <2> DEFINE q == Contents(ring)
  <2>1. AinReady(ring) /\ ~aerr
    BY <1>6 DEF Underrun
  <2>2. /\ ring' \in Rings(Samples) /\ q # <<>> /\ q \in Seq(Samples)
        /\ Oldest(ring) = q[1] /\ Oldest(ring) \in Samples /\ Contents(ring') = Tail(q)
        /\ RingLen(ring') = RingLen(ring) - 1 /\ ~AinFull(ring')
    <3>1. /\ ring' \in Rings(Samples) /\ q # <<>> /\ q \in Seq(Samples)
          /\ Oldest(ring) = q[1] /\ Oldest(ring) \in Samples /\ Contents(ring') = Tail(q)
          /\ RingLen(ring') = RingLen(ring) - 1
      BY <1>3, <1>6, <2>1, TakenIsTail, ContentsIsSeq
    <3>2. RingLen(ring) \in 0..(BufSize - 1) /\ BufSize \in Nat
      BY <1>3, RingLength, RingAssumption DEF RingAssumption
    <3>3. AinFull(ring') <=> RingLen(ring') = BufSize - 1
      BY <3>1, RingLength
    <3> QED
      BY <3>1, <3>2, <3>3, SMT
  <2>3. /\ Len(out) + Len(q) = next - 1
        /\ \A k \in 1..Len(q) : q[k] = [run |-> run, n |-> Len(out) + k]
    BY <1>3 DEF QueueInv
  <2>4. Len(out) \in Nat /\ Len(q) \in Nat /\ Len(q) > 0
    BY <1>3, <2>2, LenProperties, EmptySeq, SMT
  <2>5. /\ Len(Tail(q)) = Len(q) - 1
        /\ \A k \in 1..(Len(q) - 1) : Tail(q)[k] = q[k + 1]
    BY <2>2, <2>4, SMT
  <2>6. /\ out' \in Seq(Samples) /\ Len(out') = Len(out) + 1
        /\ \A k \in 1..Len(out) : out'[k] = out[k]
        /\ out'[Len(out) + 1] = Oldest(ring)
    BY <1>3, <1>6, <2>2, AppendProperties
  <2>7. TypeOK' /\ (toie <=> Busy)' /\ StageInv'
    BY <1>1, <1>2, <1>6, <2>2, <2>6 DEF TypeOK, Busy, StageInv
  <2>8. EndInv'
    BY <1>1, <1>3, <1>6, <2>1 DEF EndInv, Busy
  <2>9. PlaysInOrder'
    <3>1. Oldest(ring) = [run |-> run, n |-> Len(out) + 1]
      BY <2>2, <2>3, <2>4, SMT
    <3>2. ASSUME NEW k \in 1..(Len(out) + 1) PROVE out'[k] = [run |-> run, n |-> k]
      <4>1. CASE k \in 1..Len(out)
        BY <1>3, <2>6, <4>1, LenProperties DEF PlaysInOrder
      <4>2. CASE k = Len(out) + 1
        BY <2>6, <3>1, <4>2
      <4> QED
        BY <2>4, <4>1, <4>2, SMT
    <3>3. DOMAIN out' = 1..(Len(out) + 1)
      BY <2>6, LenProperties
    <3> QED
      BY <1>1, <3>2, <3>3 DEF PlaysInOrder
  <2>10. QueueInv'
    <3> HIDE DEF q
    <3>1. Len(out') + Len(Tail(q)) = next - 1
      <4>1. Len(out) + Len(q) = next - 1 /\ Len(out') = Len(out) + 1 /\ Len(Tail(q)) = Len(q) - 1
        BY <2>3, <2>5, <2>6
      <4>2. next \in Nat
        BY <1>3
      <4>3. ASSUME NEW a \in Nat, NEW b \in Nat, a + b = next - 1
            PROVE  (a + 1) + (b - 1) = next - 1
        BY <4>2, <4>3, SMT
      <4> QED
        BY <2>4, <4>1, <4>3, Zenon
    <3>2. ASSUME NEW k \in 1..Len(Tail(q))
          PROVE  Tail(q)[k] = [run |-> run, n |-> Len(out') + k]
      <4>1. k \in 1..(Len(q) - 1) /\ k + 1 \in 1..Len(q) /\ Len(out) + (k + 1) = Len(out') + k
        BY <2>4, <2>5, <2>6, SMT
      <4> QED
        BY <2>3, <2>5, <4>1
    <3> QED
      BY <1>1, <2>2, <3>1, <3>2 DEF QueueInv
  <2> QED
    BY <2>7, <2>8, <2>9, <2>10
<1> QED
  BY <1>1, <1>4, <1>5, <1>6

\* Nothing changes in a stuttering step.
LEMMA StutterInv == IInv /\ UNCHANGED vars => IInv'
BY DEF IInv, TypeOK, StageInv, QueueInv, EndInv, PlaysInOrder, Busy, vars, saver, isr

\* The inductive invariant holds in every reachable state.
THEOREM SaveInvariant == Spec => []IInv
<1>1. IInv /\ [Next]_vars => IInv'
  <2> SUFFICES ASSUME IInv, [Next]_vars PROVE IInv'
    OBVIOUS
  <2>1. CASE (\E n \in 0..MaxLen, quiet \in BOOLEAN : Save(n, quiet))
               \/ (\E key \in {"enter", "esc"} : Prompt(key))
    <3>1. pc = "idle" \/ pc = "prompt"
      BY <2>1 DEF Save, Prompt
    <3> QED
      BY <2>1, <3>1, CallInv
  <2>2. CASE Start
    BY <2>2, StartInv
  <2>3. CASE Spin \/ AinPut
    BY <2>3, SpinInv, AinPutInv
  <2>4. CASE Loop \/ EncodeEnd
    BY <2>4, LoopInv, EncodeEndInv
  <2>5. CASE KeepError \/ Drain \/ Finish
    BY <2>5, KeepErrorInv, DrainInv, FinishInv
  <2>6. CASE TimerOverflow
    BY <2>6, TimerInv
  <2>7. CASE UNCHANGED vars
    BY <2>7, StutterInv
  <2> QED
    BY <2>1, <2>2, <2>3, <2>4, <2>5, <2>6, <2>7 DEF Next, Saver
<1> QED
  BY InitInv, <1>1, PTL DEF Spec

-----------------------------------------------------------------------------
\* The variables of save, of the buffer and of the interrupt stay in their
\* ranges.
THEOREM SaveTypeCorrect == Spec => []TypeOK
<1>1. IInv => TypeOK
  BY DEF IInv
<1> QED
  BY SaveInvariant, <1>1, PTL

\* The interrupt gives the PWM the samples that ain_put stored in this save, in
\* order and each once.
THEOREM PlayedInOrder == Spec => []PlaysInOrder
<1>1. IInv => PlaysInOrder
  BY DEF IInv
<1> QED
  BY SaveInvariant, <1>1, PTL

\* save returns 0 only if every sample up to the last of encode_end was played,
\* wherever an underrun falls between its reads of aout_err.
THEOREM SavedIsPlayed == Spec => []SavedMeansPlayed
<1>1. IInv => SavedMeansPlayed
  BY DEF IInv, EndInv, SavedMeansPlayed
<1> QED
  BY SaveInvariant, <1>1, PTL

\* Each step of save and of the interrupt is a step of a bounded queue whose
\* producer waits for room, or leaves the queue alone.
LEMMA StepIsFifo ==
  IInv /\ [Next]_vars =>
    [(\E x \in Samples : Queue!Put(x)) \/ Queue!Get \/ Queue!Flush]_(Contents(ring))
<1> SUFFICES ASSUME IInv, [Next]_vars
             PROVE  \/ \E x \in Samples : Queue!Put(x)
                    \/ Queue!Get \/ Queue!Flush
                    \/ UNCHANGED Contents(ring)
  OBVIOUS
<1>1. ring \in Rings(Samples)
  BY DEF IInv, TypeOK
<1>2. CASE UNCHANGED ring
  BY <1>2
<1>3. CASE Start
  BY <1>1, <1>3, FlushedIsEmpty DEF Start, Queue!Flush
<1>4. CASE AinPut
  <2> DEFINE x == [run |-> run, n |-> next]
  <2>1. ~AinFull(ring) /\ next <= lim /\ ring' = Stored(ring, x)
    BY <1>4 DEF AinPut, IInv, QueueInv, StageInv
  <2>2. x \in Samples
    BY <2>1, NextIsSample DEF IInv
  <2>3. Contents(ring') = Append(Contents(ring), x)
    BY <1>1, <2>1, <2>2, StoredIsAppend
  <2>4. Len(Contents(ring)) < BufSize - 1
    <3>1. /\ RingLen(ring) \in 0..(BufSize - 1) /\ RingLen(ring) # BufSize - 1
          /\ Len(Contents(ring)) = RingLen(ring)
      BY <1>1, <2>1, RingLength, ContentsIsSeq
    <3> QED
      BY <3>1, RingAssumption, SMT DEF RingAssumption
  <2> QED
    BY <2>2, <2>3, <2>4 DEF Queue!Put
<1>5. CASE TimerOverflow /\ ring' = Taken(ring) /\ ~Underrun
  <2>1. AinReady(ring)
    BY <1>5 DEF Underrun
  <2> QED
    BY <1>1, <1>5, <2>1, TakenIsTail DEF Queue!Get
<1> QED
  BY <1>2, <1>3, <1>4, <1>5
     DEF Next, Saver, Save, Prompt, Spin, Loop, EncodeEnd, KeepError, Drain,
         Finish, TimerOverflow, vars

\* The ring buffer implements a bounded first-in first-out queue whose producer
\* waits: ain_put and the interrupt need no lock.
THEOREM BufferIsFifo == Spec => RingIsFifo
<1>1. Init => Queue!Init
  <2> SUFFICES ASSUME Init PROVE Contents(ring) = <<>>
    BY DEF Queue!Init
  <2>1. ring \in Rings(Samples)
    BY InitInv DEF IInv, TypeOK
  <2>2. ~AinReady(ring)
    BY DEF Init, AinReady
  <2>3. Contents(ring) \in Seq(Samples) /\ Len(Contents(ring)) = 0
    <3>1. RingLen(ring) \in 0..(BufSize - 1) /\ ~(RingLen(ring) > 0)
      BY <2>1, <2>2, RingLength
    <3>2. Contents(ring) \in Seq(Samples) /\ Len(Contents(ring)) = RingLen(ring)
      BY <2>1, ContentsIsSeq
    <3> QED
      BY <3>1, <3>2, RingAssumption, SMT DEF RingAssumption
  <2> QED
    BY <2>3, EmptySeq
<1> QED
  BY <1>1, StepIsFifo, SaveInvariant, PTL DEF Spec, RingIsFifo, Queue!Blocking
=============================================================================
