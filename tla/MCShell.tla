------------------------------ MODULE MCShell -------------------------------
(***************************************************************************)
(* Commands with every shape of parameters, over a few addresses: where    *)
(* programs begin, the border of the two memories and the end of memory.   *)
(***************************************************************************)
EXTENDS Shell

Sp   == Tok("sp")
Junk == Tok("junk")

\* What may come after the name of a command.
Rests == {<<>>, <<Junk>>, <<Sp>>, <<Sp, Junk>>, <<Sp, Sp, Num(\H1a01)>>}
Places == {<<Sp, Num(\H1fe)>>, <<Sp, Num(\Hffff)>>}
Ranges == {
  <<Sp, Num(\H1a00), Junk>>, <<Sp, Num(\H1a00), Sp>>, <<Sp, Num(\H1a00), Sp, Junk>>,
  <<Sp, Num(\H1a00), Sp, Num(\H1a02), Junk>>, <<Sp, Junk, Sp, Num(\H1a02)>>,
  <<Sp, Num(\H1a00), Sp, Num(\H1a00)>>, <<Sp, Num(\Hffff)>>, <<Num(\H1a00)>>}

Lines(names, rests) == {[name |-> n, rest |-> r] : n \in names, r \in rests}

MCCommandLines ==
  Lines({"poke", "as", "list"}, {<<>>, <<Sp, Junk>>, <<Sp, Sp, Num(\H1a01)>>} \cup Places) \cup
  Lines({"peek"}, Rests) \cup
  Lines({"save"}, Rests \cup Ranges) \cup
  Lines({"run", "load"}, {<<>>, <<Sp>>}) \cup
  Lines({"cls", "help", "other"}, {<<>>})

MCAsLines == {
  <<>>, <<Tok("NOP")>>, <<Tok("LDA"), Sp, Tok("#"), Num(5)>>, <<Tok("STA"), Sp, Num(\H260)>>,
  <<Tok("LDA"), Sp, Tok("#"), Num(\H100)>>, <<Tok("."), Num(2), Tok(","), Text(<<65, 66, 67>>)>>}

MCPokeLines == {<<>>, <<Num(\Hff)>>, <<Junk>>}

MCBlocks == {<<\H20, 0, 2>>}

MCProgramWrites == {
  [addr |-> \H1a01, src |-> <<\H60>>], [addr |-> \H1ff, src |-> <<1, 2>>]}

AfterTable == [mne |-> "junk", code |-> \H03, mode |-> "abs"]
MCInit == Init /\ after = AfterTable
MCSpec == MCInit /\ [][Next]_vars
=============================================================================
