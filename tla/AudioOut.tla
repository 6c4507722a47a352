------------------------------ MODULE AudioOut ------------------------------
(***************************************************************************)
(* Saving memory to tape: save (init/main.c) encodes a header, the bytes   *)
(* and a trailer into samples and puts them one by one in a ring buffer    *)
(* (ain_put); the overflow interrupt of timer 2 takes one sample out at    *)
(* every fifth overflow and gives it to the PWM.  The two sides share      *)
(* ain_start, ain_end and _aout_err, and nothing bounds how slow save may  *)
(* be: an empty buffer is an error that the interrupt raises and keeps.    *)
(*                                                                         *)
(* A sample is named by the save it belongs to and its place in it; its    *)
(* level, which is a function of the data, is left out.                    *)
(***************************************************************************)
EXTENDS AudioRing, Sequences

CONSTANTS
  Header,     \* samples of encode_header
  PerByte,    \* samples of encode_byte
  Trailer,    \* samples of encode_end
  MaxLen,     \* the longest block saved, in bytes
  Divider     \* overflows per sample, 5

ASSUME AudioOutAssumption ==
  /\ Header \in Nat \ {0} /\ PerByte \in Nat \ {0} /\ Trailer \in Nat \ {0}
  /\ MaxLen \in Nat
  /\ Divider \in Nat \ {0}

VARIABLES
  pc,      \* where save is
  stage,   \* what it encodes: header, byte or end
  len,     \* data_len
  i,       \* bytes encoded
  next,    \* the next sample to put
  lim,     \* the last sample of the stage
  err,     \* the error state save keeps
  result,  \* what the last call returned: none yet, saved (0), failed (1)
  run,     \* tells the samples of a save from those of the one before
  ring,    \* ain_buffer, ain_start and ain_end
  aerr,    \* _aout_err
  cnt,     \* the static counter of the interrupt
  toie,    \* is the interrupt of timer 2 enabled?
  out      \* the samples given to the PWM since aout_on

saver == <<stage, len, i, next, lim, run>>
isr   == <<aerr, cnt, toie, out>>
vars  == <<pc, saver, err, result, ring, isr>>

SampleCount(n) == Header + n * PerByte + Trailer

Samples == [run : {0, 1}, n : 0..SampleCount(MaxLen)]
Blank   == [run |-> 0, n |-> 0]

TypeOK ==
  /\ pc \in {"idle", "prompt", "start", "spin", "put", "loop", "trailer",
             "err", "drain", "off"}
  /\ stage \in {"header", "byte", "end"}
  /\ len \in 0..MaxLen /\ i \in 0..len
  /\ next \in 1..(SampleCount(len) + 1) /\ lim \in 0..SampleCount(len)
  /\ err \in BOOLEAN
  /\ result \in {"none", "saved", "failed"}
  /\ run \in {0, 1}
  /\ ring \in Rings(Samples)
  /\ aerr \in BOOLEAN /\ cnt \in 0..(Divider - 1) /\ toie \in BOOLEAN
  /\ out \in Seq(Samples)

-----------------------------------------------------------------------------
(* save, and SYS 0x02 which calls it with quiet set.                       *)

Save(n, quiet) ==
  /\ pc = "idle"
  /\ pc' = IF quiet THEN "start" ELSE "prompt"
  /\ len' = n /\ i' = 0 /\ next' = 1 /\ lim' = 0
  /\ stage' = "header" /\ err' = FALSE
  /\ result' = "none"
  /\ UNCHANGED <<run, ring, isr>>

\* ENTER goes on, ESC returns 1.
Prompt(key) ==
  /\ pc = "prompt"
  /\ IF key = "enter"
     THEN pc' = "start" /\ UNCHANGED result
     ELSE pc' = "idle" /\ result' = "failed"
  /\ UNCHANGED <<saver, err, ring, isr>>

\* video_off and aout_on, and on to encode_header.
Start ==
  /\ pc = "start"
  /\ ring' = Flushed(ring)
  /\ aerr' = FALSE /\ toie' = TRUE
  /\ pc' = "spin" /\ lim' = Header
  /\ run' = 1 - run
  /\ out' = <<>>
  /\ UNCHANGED <<stage, len, i, next, err, result, cnt>>

\* The loop of ain_put is left when there is room.
Spin ==
  /\ pc = "spin" /\ ~AinFull(ring)
  /\ pc' = "put"
  /\ UNCHANGED <<saver, err, result, ring, isr>>

\* The rest of ain_put; half_pulse comes back to it for every sample.
AinPut ==
  /\ pc = "put"
  /\ ring' = Stored(ring, [run |-> run, n |-> next])
  /\ next' = next + 1
  /\ IF next < lim
     THEN pc' = "spin" /\ UNCHANGED i
     ELSE /\ pc' = IF stage = "end" THEN "err" ELSE "loop"
          /\ i' = IF stage = "byte" THEN i + 1 ELSE i
  /\ UNCHANGED <<stage, len, lim, err, result, run, isr>>

\* The head of the loop of save: sram_read and encode_byte, or go on.
MoreBytes == i < len /\ ~aerr
Loop ==
  /\ pc = "loop"
  /\ IF MoreBytes
     THEN pc' = "spin" /\ stage' = "byte" /\ lim' = lim + PerByte
     ELSE pc' = "trailer" /\ UNCHANGED <<stage, lim>>
  /\ UNCHANGED <<len, i, next, run, err, result, ring, isr>>

\* Do not encode the end if there was an error.
EncodeEnd ==
  /\ pc = "trailer"
  /\ IF aerr
     THEN pc' = "err" /\ UNCHANGED <<stage, lim>>
     ELSE pc' = "spin" /\ stage' = "end" /\ lim' = lim + Trailer
  /\ UNCHANGED <<len, i, next, run, err, result, ring, isr>>

\* Save the error state, before the drain raises it for good.
KeptError_None == FALSE
KeptError == aerr
KeepError ==
  /\ pc = "err"
  /\ err' = KeptError
  /\ pc' = "drain"
  /\ UNCHANGED <<saver, result, ring, isr>>

\* Wait until the buffer is empty: that is when the interrupt raises the error.
DrainDone_Empty == ~AinReady(ring) /\ ~aerr
DrainDone == aerr
Drain ==
  /\ pc = "drain" /\ DrainDone
  /\ pc' = "off"
  /\ UNCHANGED <<saver, err, result, ring, isr>>

\* aout_off and video_on, and the result.
Finish ==
  /\ pc = "off"
  /\ toie' = FALSE
  /\ result' = IF err THEN "failed" ELSE "saved"
  /\ pc' = "idle"
  /\ UNCHANGED <<saver, err, ring, aerr, cnt, out>>

Saver ==
  \/ \E n \in 0..MaxLen, quiet \in BOOLEAN : Save(n, quiet)
  \/ \E key \in {"enter", "esc"} : Prompt(key)
  \/ Start \/ Spin \/ AinPut \/ Loop \/ EncodeEnd
  \/ KeepError \/ Drain \/ Finish

-----------------------------------------------------------------------------
(* TIMER2_OVF_vect.  An overflow left pending by aout_off comes as soon as *)
(* aout_on enables the interrupt, so an overflow may come at any time.     *)

SampleDue == cnt = Divider - 1
Underrun == ~AinReady(ring) \/ aerr

TimerOverflow ==
  /\ toie
  /\ cnt' = IF SampleDue THEN 0 ELSE cnt + 1
  /\ \/ /\ ~SampleDue
        /\ UNCHANGED <<aerr, out, ring>>
     \/ /\ SampleDue /\ Underrun
        /\ aerr' = TRUE
        /\ UNCHANGED <<out, ring>>
     \/ /\ SampleDue /\ ~Underrun
        /\ out' = Append(out, Oldest(ring))
        /\ ring' = Taken(ring)
        /\ UNCHANGED aerr
  /\ UNCHANGED <<toie, pc, saver, err, result>>

-----------------------------------------------------------------------------
\* The counter of the interrupt starts at 4: the first overflow is a sample.
Init ==
  /\ pc = "idle" /\ stage = "header" /\ len = 0 /\ i = 0
  /\ next = 1 /\ lim = 0 /\ err = FALSE /\ result = "none" /\ run = 0
  /\ ring = [buf |-> [k \in Slots |-> Blank], start |-> 0, end |-> 0]
  /\ aerr = FALSE /\ cnt = Divider - 1 /\ toie = FALSE /\ out = <<>>

Next == Saver \/ TimerOverflow

\* Once called, save runs on; the timer does not stop while it is enabled.
Fairness ==
  /\ WF_vars(pc # "idle" /\ Saver)
  /\ WF_vars(TimerOverflow)

Spec == Init /\ [][Next]_vars /\ Fairness

-----------------------------------------------------------------------------
(* Properties.                                                             *)

\* The PWM is given the samples of the save under way, from the first on, in
\* order and each once: no sample of ain_put is overwritten, played twice,
\* skipped, or left over from the save before.
PlaysInOrder == \A k \in DOMAIN out : out[k] = [run |-> run, n |-> k]

\* save returns 0 only if every sample up to the last of encode_end was
\* played: an underrun on the way is never lost between its reads of
\* aout_err, and aout_off never cuts the end off.
SavedMeansPlayed == result = "saved" => Len(out) = SampleCount(len)

\* The ring buffer is a queue whose producer waits for room.
Queue == INSTANCE BoundedFifo WITH
  Item <- Samples, Cap <- BufSize - 1, queue <- Contents(ring)
RingIsFifo == Queue!Blocking

\* A save under way returns, unless the buffer runs empty too soon: the drain
\* after encode_end ends by the error the interrupt raises on the last sample.
SaveEndsOrUnderruns ==
  pc = "start" ~> pc = "idle" \/ (aerr /\ Len(out) < SampleCount(len))

\* A save under way returns, whether or not the buffer runs empty: save tests
\* aout_err to stop after an error and return 1.
SaveReturns == pc = "start" ~> pc = "idle"
=============================================================================
