----------------------------- MODULE MCSramBus -----------------------------
(* SramBus with the PAL timing of include/video.h.                         *)
EXTENDS SramBus

\* What the firmware asks for: nothing (the rest of a zero page access), a
\* byte, a pixel row of text, and two of them (scroll_up).
MCSizes == {0, 1, 32, 64}
=============================================================================
