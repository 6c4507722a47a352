----------------------------- MODULE MCAudioOut -----------------------------
(* AudioOut with stages longer than the buffer, as in the firmware: 32     *)
(* slots for the 40 to 104 samples of a byte.                              *)
EXTENDS AudioOut
=============================================================================
