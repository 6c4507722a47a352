------------------------------ MODULE MCInput -------------------------------
(***************************************************************************)
(* The two ends of the console: the keyboard with one letter, one key      *)
(* without a character and a shift key, and the line editor on a screen of *)
(* three rows of three cells.  The one gives keys and the other takes them *)
(* in any order, so that each runs by itself.                              *)
(***************************************************************************)
EXTENDS LineEdit, Keyboard

VARIABLE end  \* which of the two runs

\* Lines of the shell begin in the first column; those of poke, as and of
\* programs anywhere.
MCAnywhere == (0..2) \X (0..2)
MCSizes == {0, 3, 6}

Ends == {"keyboard", "editor"}

EndsInit == Init /\ KeyInit /\ end \in Ends
EndsNext ==
  \/ end = "editor" /\ Next /\ UNCHANGED <<keyVars, end>>
  \/ end = "keyboard" /\ KeyNext /\ UNCHANGED <<vars, end>>

InputSpec == EndsInit /\ [][EndsNext]_<<vars, keyVars, end>>

\* The editor alone.
EditInit == Init /\ KeyInit /\ end = "editor"
EditSpec == EditInit /\ [][Next /\ UNCHANGED <<keyVars, end>>]_<<vars, keyVars, end>>
=============================================================================
