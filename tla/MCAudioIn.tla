----------------------------- MODULE MCAudioIn -----------------------------
(* AudioIn with bytes of two bits: every payload of up to two bytes, the   *)
(* empty one included.                                                     *)
EXTENDS AudioIn
=============================================================================
