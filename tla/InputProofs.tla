---------------------------- MODULE InputProofs ----------------------------
(***************************************************************************)
(* What is typed: the line editor, for every size of the screen and of the *)
(* buffer, and the keyboard, for every size of its queues.                 *)
(*                                                                         *)
(* The line editor has two invariants.  IInv is about the text: the cursor *)
(* is where the next character goes in the buffer, and the buffer keeps    *)
(* room for the zero at its end, even after an insertion that went astray. *)
(* SInv is about the screen, until one does: the cursor is on it, no cell  *)
(* is left inverted, and it shows the text.  Cells are counted by rows,    *)
(* which turns wrapping and scrolling into arithmetic.                     *)
(*                                                                         *)
(* KInv, of the keyboard, follows the decoder through all bytes on their   *)
(* way: once they are decoded it agrees with the keys that are down and,   *)
(* if nothing was lost, with what was typed.                               *)
(***************************************************************************)
EXTENDS LineEdit, Keyboard, AudioRingProofs

Positions == (0..(Cols - 1)) \X Int

IInv ==
  /\ text \in Seq(Char) /\ pos \in 0..Len(text)
  /\ at \in Positions /\ home \in Int /\ size \in Nat
  /\ Len(text) + 1 <= BufferSize
  /\ InputLimited
  /\ CursorFollowsText

-----------------------------------------------------------------------------
LEMMA Numbers ==
  /\ Cols \in Nat /\ Cols > 0 /\ Rows \in Nat /\ Rows > 0 /\ BufferSize \in Nat /\ BufferSize > 0
BY LineEditAssumption, SMT DEF LineEditAssumption

LEMMA SizesAreNumbers == \A n \in Sizes : n \in Nat
BY LineEditAssumption, SMT DEF LineEditAssumption

\* The cells are counted by rows, and a row is Cols cells.
LEMMA CountCells ==
  ASSUME NEW a \in Positions
  PROVE  /\ Lin(a) \in Int
         /\ Forward(a) \in Positions /\ Lin(Forward(a)) = Lin(a) + 1
         /\ Back(a) \in Positions /\ Lin(Back(a)) = Lin(a) - 1
         /\ Up(a) \in Positions /\ Lin(Up(a)) = Lin(a) - Cols
<1>1. PICK x \in 0..(Cols - 1), y \in Int : a = <<x, y>>
  BY DEF Positions
<1>2. /\ y * Cols \in Int
      /\ (y + 1) * Cols = y * Cols + Cols /\ (y - 1) * Cols = y * Cols - Cols
  BY Numbers, SMT
<1>3. Lin(a) = y * Cols + x
  BY <1>1 DEF Lin
<1>4. Forward(a) \in Positions /\ Lin(Forward(a)) = Lin(a) + 1
  <2>1. CASE x < Cols - 1
    <3>1. Forward(a) = <<x + 1, y>>
      BY <1>1, <2>1 DEF Forward
    <3> QED
      BY <1>1, <1>2, <1>3, <2>1, <3>1, Numbers, SMT DEF Lin, Positions
  <2>2. CASE ~(x < Cols - 1)
    <3>1. Forward(a) = <<0, y + 1>> /\ x = Cols - 1
      BY <1>1, <2>2, Numbers, SMT DEF Forward
    <3> QED
      BY <1>1, <1>2, <1>3, <3>1, Numbers, SMT DEF Lin, Positions
  <2> QED
    BY <2>1, <2>2
<1>5. Back(a) \in Positions /\ Lin(Back(a)) = Lin(a) - 1
  <2>1. CASE x > 0
    <3>1. Back(a) = <<x - 1, y>>
      BY <1>1, <2>1 DEF Back
    <3> QED
      BY <1>1, <1>2, <1>3, <2>1, <3>1, Numbers, SMT DEF Lin, Positions
  <2>2. CASE ~(x > 0)
    <3>1. Back(a) = <<Cols - 1, y - 1>> /\ x = 0
      BY <1>1, <2>2, Numbers, SMT DEF Back
    <3>2. Lin(Back(a)) = (y - 1) * Cols + (Cols - 1)
      BY <3>1 DEF Lin
    <3>3. Lin(Back(a)) = Lin(a) - 1
      BY <1>2, <1>3, <3>1, <3>2, Numbers, SMT
    <3>4. Cols - 1 \in 0..(Cols - 1) /\ y - 1 \in Int
      BY Numbers, SMT
    <3> QED
      BY <3>1, <3>3, <3>4 DEF Positions
  <2> QED
    BY <2>1, <2>2
<1>6. Up(a) \in Positions /\ Lin(Up(a)) = Lin(a) - Cols
  <2>1. Up(a) = <<x, y - 1>>
    BY <1>1 DEF Up
  <2> QED
    BY <1>1, <1>2, <1>3, <2>1, Numbers, SMT DEF Lin, Positions
<1> QED
  BY <1>1, <1>2, <1>3, <1>4, <1>5, <1>6, Numbers, SMT

\* A character less, or one more inside the line.
LEMMA Lengths ==
  ASSUME NEW s \in Seq(Char), NEW d \in Char
  PROVE  /\ Len(s) \in Nat
         /\ Append(s, d) \in Seq(Char) /\ Len(Append(s, d)) = Len(s) + 1
         /\ \A k \in 1..Len(s) :
              RemoveAt(s, k) \in Seq(Char) /\ Len(RemoveAt(s, k)) = Len(s) - 1
         /\ \A k \in 1..(Len(s) + 1) :
              InsertAt(s, k, d) \in Seq(Char) /\ Len(InsertAt(s, k, d)) = Len(s) + 1
<1>1. Len(s) \in Nat /\ Append(s, d) \in Seq(Char) /\ Len(Append(s, d)) = Len(s) + 1
  BY LenProperties, AppendProperties
<1>2. ASSUME NEW m \in 1..(Len(s) + 1), NEW n \in 0..Len(s), m <= n + 1
      PROVE  SubSeq(s, m, n) \in Seq(Char) /\ Len(SubSeq(s, m, n)) = n - m + 1
  <2>1. m \in Int /\ n \in Int /\ \A i \in m..n : s[i] \in Char
    BY <1>1, ElementOfSeq, SMT
  <2>2. SubSeq(s, m, n) \in Seq(Char) /\ Len(SubSeq(s, m, n)) = IF m <= n THEN n - m + 1 ELSE 0
    BY <2>1, SubSeqProperties
  <2> QED
    BY <1>1, <1>2, <2>2, SMT
<1>3. ASSUME NEW k \in 1..Len(s)
      PROVE  RemoveAt(s, k) \in Seq(Char) /\ Len(RemoveAt(s, k)) = Len(s) - 1
  <2> DEFINE u == SubSeq(s, 1, k - 1)
             v == SubSeq(s, k + 1, Len(s))
  <2>1. u \in Seq(Char) /\ Len(u) = k - 1 /\ v \in Seq(Char) /\ Len(v) = Len(s) - k
    BY <1>1, <1>2, SMT
  <2>2. RemoveAt(s, k) = u \o v
    BY DEF RemoveAt
  <2> HIDE DEF u, v
  <2>3. u \o v \in Seq(Char) /\ Len(u \o v) = Len(u) + Len(v)
    BY <2>1, ConcatProperties
  <2> QED
    BY <1>1, <2>1, <2>2, <2>3, SMT
<1>4. ASSUME NEW k \in 1..(Len(s) + 1)
      PROVE  InsertAt(s, k, d) \in Seq(Char) /\ Len(InsertAt(s, k, d)) = Len(s) + 1
  <2> DEFINE u == SubSeq(s, 1, k - 1)
             v == SubSeq(s, k, Len(s))
             w == <<d>>
  <2>1. u \in Seq(Char) /\ Len(u) = k - 1 /\ v \in Seq(Char) /\ Len(v) = Len(s) - k + 1
    BY <1>1, <1>2, SMT
  <2>2. InsertAt(s, k, d) = (u \o w) \o v
    BY DEF InsertAt
  <2>3. w \in Seq(Char) /\ Len(w) = 1
    OBVIOUS
  <2> HIDE DEF u, v, w
  <2>4. u \o w \in Seq(Char) /\ Len(u \o w) = Len(u) + Len(w)
    BY <2>1, <2>3, ConcatProperties
  <2>5. (u \o w) \o v \in Seq(Char) /\ Len((u \o w) \o v) = Len(u \o w) + Len(v)
    BY <2>1, <2>4, ConcatProperties
  <2> QED
    BY <1>1, <2>1, <2>2, <2>3, <2>4, <2>5, SMT
<1> QED
  BY <1>1, <1>3, <1>4
-----------------------------------------------------------------------------
(* Each key keeps the invariant.                                           *)

LEMMA InitInv == Init => IInv
<1> SUFFICES ASSUME Init PROVE IInv
  OBVIOUS
<1>1. <<>> \in Seq(Char) /\ Len(<<>>) = 0
  BY EmptySeq
<1>2. <<0, 0>> \in Positions
  BY Numbers, SMT DEF Positions
<1> QED
  BY <1>1, <1>2, Numbers, SMT DEF Init, IInv, CursorFollowsText, InputLimited

\* What Draw does to the place the line began at.
LEMMA DrawHome ==
  ASSUME NEW put, NEW scrolls \in BOOLEAN, Draw(put, scrolls)
  PROVE  home' = IF scrolls THEN home - Cols ELSE home
BY DEF Draw

\* A key that changes neither the text nor the place in it.
LEMMA SameText ==
  ASSUME IInv, UNCHANGED <<text, pos, size>>, at' \in Positions, home' \in Int,
         editing' => editing /\ Lin(at') - home' = Lin(at) - home
  PROVE  IInv'
<1>1. at \in Positions /\ home \in Int /\ pos \in 0..Len(text) /\ text \in Seq(Char)
  BY DEF IInv
<1>2. pos \in Int
  BY <1>1, LenProperties, SMT
<1>3. Lin(at) \in Int /\ Lin(at') \in Int
  BY <1>1, CountCells
<1>4. editing' => Lin(at') = home' + pos
  <2>1. editing => Lin(at) = home + pos
    BY DEF IInv, CursorFollowsText
  <2> QED
    BY <1>1, <1>2, <1>3, <2>1, SMT
<1> QED
  BY <1>4 DEF IInv, CursorFollowsText, InputLimited

LEMMA BeginInv ==
  ASSUME IInv, NEW start \in Starts, NEW n \in Sizes, Begin(start, n)
  PROVE  IInv'
<1>1. /\ size' = n /\ text' = <<>> /\ pos' = 0 /\ at' = start /\ home' = Lin(start)
  BY DEF Begin
<1>2. start \in Positions
  BY LineEditAssumption, SMT DEF LineEditAssumption, Positions
<1>3. <<>> \in Seq(Char) /\ Len(<<>>) = 0 /\ Lin(start) \in Int
  BY <1>2, EmptySeq, CountCells
<1> QED
  BY <1>1, <1>2, <1>3, Numbers, SizesAreNumbers, SMT DEF IInv, CursorFollowsText, InputLimited

LEMMA MoveInv == IInv /\ (Left \/ Right) => IInv'
<1> SUFFICES ASSUME IInv, Left \/ Right PROVE IInv'
  OBVIOUS
<1>1. /\ at \in Positions /\ home \in Int /\ pos \in 0..Len(text) /\ Len(text) \in Nat
      /\ Lin(at) \in Int
  BY LenProperties, CountCells DEF IInv
<1>2. editing /\ home' = home /\ UNCHANGED <<editing, text, size>> /\ Lin(at) = home + pos
  BY DrawHome DEF Left, Right, IInv, CursorFollowsText
<1>3. \/ UNCHANGED <<pos, at>>
      \/ pos > 0 /\ pos' = pos - 1 /\ at' = Back(at)
      \/ pos < Len(text) /\ pos' = pos + 1 /\ at' = Forward(at)
  BY DEF Left, Right
<1>4. pos' \in 0..Len(text) /\ at' \in Positions /\ Lin(at') = home' + pos'
  <2>1. CASE UNCHANGED <<pos, at>>
    BY <1>1, <1>2, <2>1
  <2>2. CASE pos > 0 /\ pos' = pos - 1 /\ at' = Back(at)
    <3>1. at' \in Positions /\ Lin(at') = Lin(at) - 1
      BY <1>1, <2>2, CountCells
    <3> QED
      BY <1>1, <1>2, <2>2, <3>1, SMT
  <2>3. CASE pos < Len(text) /\ pos' = pos + 1 /\ at' = Forward(at)
    <3>1. at' \in Positions /\ Lin(at') = Lin(at) + 1
      BY <1>1, <2>3, CountCells
    <3> QED
      BY <1>1, <1>2, <2>3, <3>1, SMT
  <2> QED
    BY <1>3, <2>1, <2>2, <2>3
<1> QED
  BY <1>2, <1>4 DEF IInv, CursorFollowsText, InputLimited

LEMMA BlinkInv == IInv /\ Blink => IInv'
BY DEF Blink, IInv, CursorFollowsText, InputLimited

LEMMA EnterInv == IInv /\ Enter => IInv'
<1> SUFFICES ASSUME IInv, Enter PROVE IInv'
  OBVIOUS
<1>1. UNCHANGED <<text, pos, size>> /\ ~editing'
  BY DEF Enter
<1>2. home \in Int /\ \E x \in 0..(Cols - 1), y \in Int : at = <<x, y>>
  BY DEF IInv, Positions
<1>3. home' \in Int
  <2>1. home' = home - Cols \/ home' = home
    BY DEF Enter, Draw
  <2> QED
    BY <1>2, <2>1, Numbers, SMT
<1>4. at' \in Positions
  <2>1. at[2] \in Int /\ 0 \in 0..(Cols - 1)
    BY <1>2, Numbers, SMT
  <2>2. at' = <<0, at[2]>> \/ at' = <<0, at[2] + 1>>
    BY DEF Enter
  <2> QED
    BY <2>1, <2>2, SMT DEF Positions
<1> QED
  BY <1>1, <1>3, <1>4, SameText

LEMMA BackspaceInv == IInv /\ Backspace => IInv'
<1> SUFFICES ASSUME IInv, Backspace PROVE IInv'
  OBVIOUS
<1>1. /\ at \in Positions /\ home \in Int /\ pos \in 0..Len(text) /\ Len(text) \in Nat
      /\ Lin(at) \in Int /\ text \in Seq(Char)
  BY LenProperties, CountCells DEF IInv
<1>2. editing /\ home' = home /\ UNCHANGED <<editing, size>> /\ Lin(at) = home + pos
  BY DrawHome DEF Backspace, IInv, CursorFollowsText
<1>3. CASE pos > 0
  <2>1. text' = RemoveAt(text, pos) /\ pos' = pos - 1 /\ at' = Back(at)
    BY <1>3 DEF Backspace
  <2>2. pos \in 1..Len(text)
    BY <1>1, <1>3, SMT
  <2>3. text' \in Seq(Char) /\ Len(text') = Len(text) - 1
    BY <1>1, <2>1, <2>2, Lengths
  <2>4. at' \in Positions /\ Lin(at') = Lin(at) - 1
    BY <1>1, <2>1, CountCells
  <2>5. pos' \in 0..Len(text') /\ Lin(at') = home' + pos'
    BY <1>1, <1>2, <2>1, <2>2, <2>3, <2>4, SMT
  <2>6. Len(text') + 1 <= BufferSize /\ (size # 0 => Len(text') + 1 <= size) /\ size \in Nat
    <3>1. Len(text) + 1 <= BufferSize /\ (size # 0 => Len(text) + 1 <= size) /\ size \in Nat
      BY <1>2 DEF IInv, InputLimited
    <3> QED
      BY <1>1, <2>3, <3>1, Numbers, SMT
  <2> QED
    BY <1>1, <1>2, <2>3, <2>4, <2>5, <2>6 DEF IInv, CursorFollowsText, InputLimited
<1>4. CASE ~(pos > 0)
  BY <1>1, <1>2, <1>4, SameText DEF Backspace
<1> QED
  BY <1>3, <1>4

\* A character at the end of the line or inside it.
LEMMA TypeInv ==
  ASSUME IInv, NEW d \in Char, Type(d)
  PROVE  IInv'
<1>1. /\ at \in Positions /\ home \in Int /\ pos \in 0..Len(text) /\ Len(text) \in Nat
      /\ Lin(at) \in Int /\ text \in Seq(Char)
  BY LenProperties, CountCells DEF IInv
<1>2. editing /\ UNCHANGED <<editing, size>> /\ Lin(at) = home + pos
  BY DEF Type, IInv, CursorFollowsText
<1>3. CASE BufferFull /\ Draw(Nothing, FALSE) /\ UNCHANGED <<text, pos, at, astray>>
  <2>1. home' = home
    BY <1>3, DrawHome
  <2> QED
    BY <1>1, <1>2, <1>3, <2>1, SameText
<1>4. CASE ~BufferFull /\ Len(text) + 1 < BufferSize /\ (Append1(d) \/ Insert1(d))
  <2>1. /\ text' \in Seq(Char) /\ Len(text') = Len(text) + 1
    <3>1. CASE Append1(d)
      BY <1>1, <3>1, Lengths DEF Append1
    <3>2. CASE Insert1(d)
      <4>1. text' = InsertAt(text, pos + 1, d)
        BY <3>2 DEF Insert1
      <4>2. pos + 1 \in 1..(Len(text) + 1)
        <5>1. pos \in 0..Len(text) /\ Len(text) \in Nat
          BY <1>1
        <5> QED
          BY <5>1, SMT
      <4> QED
        BY <1>1, <4>1, <4>2, Lengths
    <3> QED
      BY <1>4, <3>1, <3>2
  <2>2. Len(text') + 1 <= BufferSize /\ (size # 0 => Len(text') + 1 <= size) /\ size \in Nat
    <3>1. /\ Len(text) + 1 # size /\ (size # 0 => Len(text) + 1 <= size) /\ size \in Nat
          /\ Len(text) + 1 < BufferSize
      BY <1>2, <1>4 DEF IInv, BufferFull, InputLimited
    <3> QED
      BY <1>1, <2>1, <3>1, Numbers, SMT
  <2>3. /\ at' \in Positions /\ pos' \in 0..Len(text') /\ home' \in Int
        /\ Lin(at') = home' + pos'
    <3>1. CASE Append1(d)
      <4> DEFINE next == Forward(at)
                 scrolls == next[1] = 0 /\ ScrollsAt(next[2])
      <4>1. /\ pos = Len(text) /\ pos' = pos + 1 /\ Draw([c \in {at} |-> d], scrolls)
            /\ at' = IF scrolls THEN Up(next) ELSE next
        BY <3>1 DEF Append1
      <4>2. /\ next \in Positions /\ Lin(next) = Lin(at) + 1
            /\ Up(next) \in Positions /\ Lin(Up(next)) = Lin(next) - Cols
        BY <1>1, CountCells
      <4>3. home' = IF scrolls THEN home - Cols ELSE home
        BY <4>1 DEF Draw
      <4> HIDE DEF next, scrolls
      <4>4. at' \in Positions
        BY <4>1, <4>2
      <4>5. pos' \in 0..Len(text') /\ home' \in Int
        BY <1>1, <2>1, <4>1, <4>3, Numbers, SMT
      <4>6. Lin(at') = home' + pos'
        <5>1. CASE scrolls
          BY <1>1, <1>2, <4>1, <4>2, <4>3, <5>1, Numbers, SMT
        <5>2. CASE ~scrolls
          BY <1>1, <1>2, <4>1, <4>2, <4>3, <5>2, Numbers, SMT
        <5> QED
          BY <5>1, <5>2
      <4> QED
        BY <4>4, <4>5, <4>6
    <3>2. CASE Insert1(d)
      <4>1. /\ pos' = pos /\ Up(at) \in Positions /\ Lin(Up(at)) = Lin(at) - Cols
        BY <1>1, <3>2, CountCells DEF Insert1
      <4>2. \/ at' = at /\ home' = home
            \/ at' = Up(at) /\ home' = home - Cols
        BY <3>2 DEF Insert1
      <4> QED
        BY <1>1, <1>2, <2>1, <4>1, <4>2, Numbers, SMT
    <3> QED
      BY <1>4, <3>1, <3>2
  <2> QED
    BY <1>2, <2>1, <2>2, <2>3 DEF IInv, CursorFollowsText, InputLimited
<1> QED
  BY <1>3, <1>4 DEF Type

-----------------------------------------------------------------------------
\* The inductive invariant holds in every reachable state.
THEOREM EditInvariant == Spec => []IInv
<1>1. IInv /\ [Next]_vars => IInv'
  <2> SUFFICES ASSUME IInv, [Next]_vars PROVE IInv'
    OBVIOUS
  <2>1. CASE \E start \in Starts, n \in Sizes : Begin(start, n)
    BY <2>1, BeginInv
  <2>2. CASE Left \/ Right
    BY <2>2, MoveInv
  <2>3. CASE Blink
    BY <2>3, BlinkInv
  <2>4. CASE Enter
    BY <2>4, EnterInv
  <2>5. CASE Backspace
    BY <2>5, BackspaceInv
  <2>6. CASE \E d \in Char : Type(d)
    BY <2>6, TypeInv
  <2>7. CASE UNCHANGED vars
    BY <2>7 DEF vars, IInv, CursorFollowsText, InputLimited
  <2> QED
    BY <2>1, <2>2, <2>3, <2>4, <2>5, <2>6, <2>7 DEF Next
<1> QED
  BY InitInv, <1>1, PTL DEF Spec

\* The cursor on the screen is where the next character goes in the buffer,
\* on a screen of any size, and also after an insertion that went astray.
THEOREM CursorFollows == Spec => []CursorFollowsText
<1>1. IInv => CursorFollowsText
  BY DEF IInv
<1> QED
  BY EditInvariant, <1>1, PTL

\* The line and its zero fit in the size that was asked for, unless that is 0,
\* for every screen and every size.
THEOREM InputIsLimited == Spec => []InputLimited
<1>1. IInv => InputLimited
  BY DEF IInv, InputLimited
<1> QED
  BY EditInvariant, <1>1, PTL

-----------------------------------------------------------------------------
(* The screen.                                                             *)

LEMMA Size ==
  /\ Cols * Rows \in Nat /\ Cols * (Rows - 1) = Cols * Rows - Cols
  /\ Rows > 1 /\ BufferSize <= Cols * Rows - Cols
<1>1. Cols * Rows \in Nat /\ Cols * (Rows - 1) = Cols * Rows - Cols
  BY Numbers, SMT
<1>2. BufferSize <= Cols * Rows - Cols
  BY <1>1, ScreenAssumption DEF ScreenAssumption
<1>3. Rows # 1
  BY <1>1, <1>2, Numbers, SMT
<1> QED
  BY <1>1, <1>2, <1>3, Numbers, SMT

LEMMA RowsApart ==
  ASSUME NEW y \in Int, NEW z \in Int, y < z
  PROVE  y * Cols + Cols <= z * Cols
<1>1. PICK d \in Nat : z = y + 1 + d
  BY SMT
<1>2. (y + 1 + d) * Cols = y * Cols + Cols + d * Cols /\ d * Cols \in Nat
  BY Numbers, SMT
<1> QED
  BY <1>1, <1>2, Numbers, SMT

\* The cell with n cells before it, counting by rows.
CellAt(n) == <<n % Cols, n \div Cols>>

LEMMA Divided ==
  ASSUME NEW n \in Int
  PROVE  CellAt(n) \in Positions /\ Lin(CellAt(n)) = n
<1> DEFINE q == n \div Cols
           x == n - q * Cols
<1>1. q \in Int
  BY Numbers, SMT
<1>2. q * Cols <= n
  BY Numbers, SMT
<1>3. n < q * Cols + Cols
  BY Numbers, SMT
<1>4. x \in 0..(Cols - 1) /\ n = q * Cols + x
  <2> HIDE DEF q
  <2> QED
    BY <1>1, <1>2, <1>3, Numbers, SMT
<1>5. n % Cols = x
  <2> HIDE DEF x, q
  <2> QED
    BY <1>1, <1>4, Numbers, SMT
<1>6. CellAt(n) = <<x, q>>
  BY <1>5 DEF CellAt
<1> HIDE DEF x, q
<1>7. CellAt(n) \in Positions
  BY <1>1, <1>4, <1>6 DEF Positions
<1>8. Lin(CellAt(n)) = q * Cols + x
  BY <1>6 DEF Lin
<1> QED
  BY <1>4, <1>7, <1>8

LEMMA SameCell ==
  ASSUME NEW a \in Positions, NEW b \in Positions, Lin(a) = Lin(b)
  PROVE  a = b
<1>1. PICK x \in 0..(Cols - 1), y \in Int : a = <<x, y>>
  BY DEF Positions
<1>2. PICK u \in 0..(Cols - 1), v \in Int : b = <<u, v>>
  BY DEF Positions
<1>3. y * Cols + x = v * Cols + u
  BY <1>1, <1>2 DEF Lin
<1>4. x = u /\ y = v
  BY <1>3, Numbers, SMT
<1> QED
  BY <1>1, <1>2, <1>4

LEMMA CountedCell ==
  ASSUME NEW a \in Positions
  PROVE  CellAt(Lin(a)) = a
BY CountCells, Divided, SameCell

\* The screen is the cells with a number below Cols * Rows.
LEMMA OnScreen ==
  ASSUME NEW a \in Positions
  PROVE  a \in Cells <=> 0 <= Lin(a) /\ Lin(a) < Cols * Rows
<1>1. PICK x \in 0..(Cols - 1), y \in Int : a = <<x, y>>
  BY DEF Positions
<1>2. Lin(a) = y * Cols + x /\ y * Cols \in Int
  BY <1>1, Numbers, SMT DEF Lin
<1>3. a \in Cells <=> 0 <= y /\ y < Rows
  BY <1>1, Numbers, SMT DEF Cells
<1>4. Rows * Cols = Cols * Rows /\ 0 * Cols = 0
  BY Numbers, SMT
<1>5. CASE y < 0
  <2>1. y * Cols + Cols <= 0
    BY <1>4, <1>5, RowsApart, Numbers
  <2> QED
    BY <1>2, <1>3, <1>5, <2>1, Numbers, SMT
<1>6. CASE 0 <= y /\ y < Rows
  <2>1. 0 <= y * Cols
    BY <1>6, Numbers, SMT
  <2>2. y * Cols + Cols <= Rows * Cols
    BY <1>6, RowsApart, Numbers
  <2> QED
    BY <1>2, <1>3, <1>4, <1>6, <2>1, <2>2, Numbers, SMT
<1>7. CASE Rows <= y
  <2>1. Rows * Cols <= y * Cols
    <3>1. CASE Rows < y
      <4>1. Rows * Cols + Cols <= y * Cols
        BY <3>1, RowsApart, Numbers
      <4> QED
        BY <1>2, <1>4, <4>1, Size, Numbers, SMT
    <3>2. CASE Rows = y
      BY <1>2, <3>2, SMT
    <3> QED
      BY <1>7, <3>1, <3>2, Numbers, SMT
  <2> QED
    BY <1>2, <1>3, <1>4, <1>7, <2>1, Size, Numbers, SMT
<1> QED
  BY <1>5, <1>6, <1>7, Numbers, SMT

LEMMA CellsArePositions == Cells \subseteq Positions
BY SMT DEF Cells, Positions

LEMMA NumberedCells ==
  ASSUME NEW n \in Int, 0 <= n, n < Cols * Rows
  PROVE  CellAt(n) \in Cells
BY Divided, OnScreen

\* Walking over the screen is counting.
LEMMA Walks ==
  ASSUME NEW a \in Positions, NEW n \in Int
  PROVE  /\ After(a, n) = CellAt(Lin(a) + n)
         /\ n >= 0 => Before(a, n) = CellAt(Lin(a) - n)
<1>1. After(a, n) = CellAt(Lin(a) + n)
  BY DEF After, CellAt
<1>2. ASSUME n >= 0 PROVE Before(a, n) = CellAt(Lin(a) - n)
  <2>1. PICK x \in 0..(Cols - 1), y \in Int : a = <<x, y>>
    BY DEF Positions
  <2>2. CASE n <= x
    <3>1. Before(a, n) = <<x - n, y>>
      BY <2>1, <2>2 DEF Before
    <3>2. x - n \in 0..(Cols - 1)
      BY <1>2, <2>2, Numbers, SMT
    <3>3. Lin(<<x - n, y>>) = Lin(a) - n
      BY <2>1, Numbers, SMT DEF Lin
    <3> QED
      BY <3>1, <3>2, <3>3, CountedCell DEF Positions
  <2>3. CASE ~(n <= x)
    <3>1. Before(a, n) = After(a, -n)
      BY <2>1, <2>3 DEF Before
    <3>2. Lin(a) + (-n) = Lin(a) - n
      BY CountCells, SMT
    <3>3. After(a, -n) = CellAt(Lin(a) + (-n))
      BY DEF After, CellAt
    <3> QED
      BY <3>1, <3>2, <3>3
  <2> QED
    BY <2>2, <2>3
<1> QED
  BY <1>1, <1>2

LEMMA NumberOfStart == Lin(<<0, 0>>) = 0 /\ <<0, 0>> \in Cells
BY Numbers, SMT DEF Lin, Cells

-----------------------------------------------------------------------------
(* What the screen shows.  The cells are named by their numbers.           *)

LitMatches == lit = (IF cursor THEN {at} \cap Cells ELSE {})

LineShown ==
  editing /\ ~astray =>
    /\ home \in Nat /\ home + Len(text) < Cols * Rows
    /\ \A k \in 1..Len(text) : cell[CellAt(home + k - 1)] = text[k]

SInv ==
  /\ LitMatches
  /\ ~editing => ~cursor
  /\ StaysOnScreen
  /\ LineShown

\* Hiding the cursor leaves no cell inverted.
LEMMA NothingLit == LitMatches => LitWithoutCursor = {}
BY DEF LitMatches, LitWithoutCursor, SymDiff

\* Drawing over cells of the screen, with the cursor on it.
LEMMA DrawEffect ==
  ASSUME SInv, NEW put, NEW scrolls \in BOOLEAN, Draw(put, scrolls)
  PROVE  /\ lit' = {} /\ cursor' = FALSE /\ LitMatches'
         /\ ~astray /\ DOMAIN put \subseteq Cells => ~spilt'
<1>1. lit' = {}
  <2>1. LitWithoutCursor = {}
    BY NothingLit DEF SInv
  <2>2. lit' = IF scrolls THEN {Up(c) : c \in LitWithoutCursor \ DOMAIN put} \cap Cells
               ELSE LitWithoutCursor \ DOMAIN put
    BY DEF Draw
  <2> HIDE DEF LitWithoutCursor
  <2> QED
    BY <2>1, <2>2
<1>2. cursor' = FALSE
  BY DEF Draw
<1>3. ASSUME ~astray, DOMAIN put \subseteq Cells PROVE ~spilt'
  <2>1. at \in Cells /\ ~spilt
    BY <1>3 DEF SInv, StaysOnScreen
  <2>2. DOMAIN put \ Cells = {}
    BY <1>3
  <2> QED
    BY <2>1, <2>2 DEF Draw, CursorSpills, Spills
<1> QED
  BY <1>1, <1>2, <1>3 DEF LitMatches

\* A cell of the screen after drawing, and after a scroll.
LEMMA DrawnCell ==
  ASSUME NEW f, NEW put, NEW n \in Int, 0 <= n, n < Cols * Rows
  PROVE  /\ Drawn(f, put)[CellAt(n)] =
              IF CellAt(n) \in DOMAIN put THEN put[CellAt(n)] ELSE f[CellAt(n)]
         /\ Scrolled(f)[CellAt(n)] =
              IF n + Cols < Cols * Rows THEN f[CellAt(n + Cols)] ELSE Blank
<1>1. CellAt(n) \in Cells
  BY NumberedCells
<1>2. Drawn(f, put)[CellAt(n)] =
        IF CellAt(n) \in DOMAIN put THEN put[CellAt(n)] ELSE f[CellAt(n)]
  BY <1>1 DEF Drawn
<1>3. PICK x \in 0..(Cols - 1), y \in Int : CellAt(n) = <<x, y>>
  BY Divided DEF Positions
<1>4. n = y * Cols + x /\ Lin(<<x, y>>) = n
  BY <1>3, Divided DEF Lin
<1>5. Scrolled(f)[CellAt(n)] = IF y = Rows - 1 THEN Blank ELSE f[<<x, y + 1>>]
  BY <1>1, <1>3 DEF Scrolled
<1>6. <<x, y + 1>> \in Positions /\ Lin(<<x, y + 1>>) = n + Cols
  BY <1>4, Numbers, SMT DEF Positions, Lin
<1>7. <<x, y + 1>> = CellAt(n + Cols)
  BY <1>6, CountedCell
<1>8. y = Rows - 1 <=> ~(n + Cols < Cols * Rows)
  <2>1. n + Cols < Cols * Rows <=> <<x, y + 1>> \in Cells
    BY <1>6, OnScreen, Numbers, SMT
  <2>2. <<x, y + 1>> \in Cells <=> y + 1 \in 0..(Rows - 1)
    BY <1>3 DEF Cells
  <2>3. y \in 0..(Rows - 1)
    BY <1>1, <1>3 DEF Cells
  <2> QED
    BY <2>1, <2>2, <2>3, Numbers, SMT
<1> QED
  BY <1>2, <1>5, <1>7, <1>8

LEMMA NothingDrawn ==
  ASSUME Draw(Nothing, FALSE)
  PROVE  /\ home' = home
         /\ \A n \in Int : 0 <= n /\ n < Cols * Rows =>
              cell'[CellAt(n)] = cell[CellAt(n)]
<1>1. DOMAIN Nothing = {}
  BY DEF Nothing
<1> HIDE DEF Nothing
<1>2. cell' = Drawn(cell, Nothing) /\ home' = home
  BY DEF Draw
<1> QED
  BY <1>1, <1>2, DrawnCell

\* What stands in a text after a character is removed or inserted.
LEMMA CellContents ==
  ASSUME NEW s \in Seq(Char), NEW d \in Char
  PROVE  /\ \A i \in 1..(Len(s) + 1) :
              Append(s, d)[i] = IF i <= Len(s) THEN s[i] ELSE d
         /\ \A k \in 1..Len(s), i \in 1..(Len(s) - 1) :
              RemoveAt(s, k)[i] = IF i < k THEN s[i] ELSE s[i + 1]
         /\ \A k \in 1..(Len(s) + 1), i \in 1..(Len(s) + 1) :
              InsertAt(s, k, d)[i] =
                IF i < k THEN s[i] ELSE IF i = k THEN d ELSE s[i - 1]
<1>1. Len(s) \in Nat
  BY LenProperties
<1>2. \A i \in 1..(Len(s) + 1) : Append(s, d)[i] = IF i <= Len(s) THEN s[i] ELSE d
  BY <1>1, AppendProperties, SMT
<1>3. ASSUME NEW m \in 1..(Len(s) + 1), NEW n \in 0..Len(s), m <= n + 1
      PROVE  /\ SubSeq(s, m, n) \in Seq(Char) /\ Len(SubSeq(s, m, n)) = n - m + 1
             /\ \A i \in 1..(n - m + 1) : SubSeq(s, m, n)[i] = s[m + i - 1]
  <2>1. m \in Int /\ n \in Int /\ \A i \in m..n : s[i] \in Char
    BY <1>1, ElementOfSeq, SMT
  <2>2. /\ SubSeq(s, m, n) \in Seq(Char)
        /\ Len(SubSeq(s, m, n)) = IF m <= n THEN n - m + 1 ELSE 0
        /\ \A i \in 1..(n - m + 1) : SubSeq(s, m, n)[i] = s[m + i - 1]
    BY <2>1, SubSeqProperties
  <2> QED
    BY <1>1, <1>3, <2>2, SMT
<1>4. ASSUME NEW k \in 1..Len(s), NEW i \in 1..(Len(s) - 1)
      PROVE  RemoveAt(s, k)[i] = IF i < k THEN s[i] ELSE s[i + 1]
  <2> DEFINE u == SubSeq(s, 1, k - 1)
             v == SubSeq(s, k + 1, Len(s))
  <2>1. u \in Seq(Char) /\ Len(u) = k - 1 /\ \A j \in 1..(k - 1) : u[j] = s[j]
    BY <1>1, <1>3, SMT
  <2>2. /\ v \in Seq(Char) /\ Len(v) = Len(s) - k
        /\ \A j \in 1..(Len(s) - k) : v[j] = s[k + j]
    BY <1>1, <1>3, SMT
  <2>3. RemoveAt(s, k) = u \o v
    BY DEF RemoveAt
  <2> HIDE DEF u, v
  <2>4. \A j \in 1..(Len(u) + Len(v)) :
          (u \o v)[j] = IF j <= Len(u) THEN u[j] ELSE v[j - Len(u)]
    BY <2>1, <2>2, ConcatProperties
  <2>5. (u \o v)[i] = IF i <= k - 1 THEN u[i] ELSE v[i - (k - 1)]
    BY <1>1, <2>1, <2>2, <2>4, SMT
  <2> QED
    BY <1>1, <2>1, <2>2, <2>3, <2>5, SMT
<1>5. ASSUME NEW k \in 1..(Len(s) + 1), NEW i \in 1..(Len(s) + 1)
      PROVE  InsertAt(s, k, d)[i] =
               IF i < k THEN s[i] ELSE IF i = k THEN d ELSE s[i - 1]
  <2> DEFINE u == SubSeq(s, 1, k - 1)
             v == SubSeq(s, k, Len(s))
             w == <<d>>
  <2>1. u \in Seq(Char) /\ Len(u) = k - 1 /\ \A j \in 1..(k - 1) : u[j] = s[j]
    BY <1>1, <1>3, SMT
  <2>2. /\ v \in Seq(Char) /\ Len(v) = Len(s) - k + 1
        /\ \A j \in 1..(Len(s) - k + 1) : v[j] = s[k + j - 1]
    BY <1>1, <1>3, SMT
  <2>3. w \in Seq(Char) /\ Len(w) = 1 /\ w[1] = d
    OBVIOUS
  <2>4. InsertAt(s, k, d) = (u \o w) \o v
    BY DEF InsertAt
  <2> HIDE DEF u, v, w
  <2>5. /\ u \o w \in Seq(Char) /\ Len(u \o w) = k
        /\ \A j \in 1..(Len(u) + Len(w)) :
             (u \o w)[j] = IF j <= Len(u) THEN u[j] ELSE w[j - Len(u)]
    <3>1. /\ u \o w \in Seq(Char) /\ Len(u \o w) = Len(u) + Len(w)
          /\ \A j \in 1..(Len(u) + Len(w)) :
               (u \o w)[j] = IF j <= Len(u) THEN u[j] ELSE w[j - Len(u)]
      BY <2>1, <2>3, ConcatProperties
    <3>2. Len(u) + Len(w) = k
      BY <1>1, <2>1, <2>3, SMT
    <3> QED
      BY <3>1, <3>2
  <2>6. \A j \in 1..(Len(u \o w) + Len(v)) :
          ((u \o w) \o v)[j] =
            IF j <= Len(u \o w) THEN (u \o w)[j] ELSE v[j - Len(u \o w)]
    BY <2>2, <2>5, ConcatProperties
  <2>7. ((u \o w) \o v)[i] = IF i <= k THEN (u \o w)[i] ELSE v[i - k]
    BY <1>1, <2>2, <2>5, <2>6, SMTT(30)
  <2>8. i <= k => (u \o w)[i] = IF i <= k - 1 THEN u[i] ELSE w[i - (k - 1)]
    BY <1>1, <2>1, <2>3, <2>5, SMT
  <2>9. CASE i < k
    BY <1>1, <2>1, <2>4, <2>7, <2>8, <2>9, SMT
  <2>10. CASE i = k
    <3>1. i - (k - 1) = 1 /\ i <= k /\ ~(i <= k - 1) /\ ~(i < k)
      BY <1>1, <2>10, SMT
    <3> QED
      BY <2>3, <2>4, <2>7, <2>8, <2>10, <3>1
  <2>11. CASE i > k
    <3>1. /\ i - k \in 1..(Len(s) - k + 1) /\ k + (i - k) - 1 = i - 1
          /\ ~(i <= k) /\ ~(i < k) /\ ~(i = k)
      BY <1>1, <2>11, SMT
    <3>2. v[i - k] = s[i - 1]
      BY <2>2, <3>1
    <3> QED
      BY <2>4, <2>7, <3>1, <3>2
  <2> QED
    BY <2>9, <2>10, <2>11, SMT
<1> QED
  BY <1>2, <1>4, <1>5

-----------------------------------------------------------------------------
(* What each key draws.                                                    *)

LEMMA Editing ==
  ASSUME IInv, SInv, editing
  PROVE  /\ text \in Seq(Char) /\ Len(text) \in Nat
         /\ pos \in Int /\ 0 <= pos /\ pos <= Len(text)
         /\ at \in Positions /\ Lin(at) \in Int /\ home \in Int /\ Lin(at) = home + pos
         /\ ~astray => /\ at \in Cells /\ ~spilt
                       /\ 0 <= home /\ home + Len(text) < Cols * Rows
                       /\ \A k \in 1..Len(text) : cell[CellAt(home + k - 1)] = text[k]
<1>1. /\ text \in Seq(Char) /\ Len(text) \in Nat /\ pos \in 0..Len(text)
      /\ at \in Positions /\ Lin(at) \in Int /\ home \in Int /\ Lin(at) = home + pos
  BY LenProperties, CountCells DEF IInv, CursorFollowsText
<1>2. pos \in Int /\ 0 <= pos /\ pos <= Len(text)
  BY <1>1, SMT
<1>3. ASSUME ~astray
      PROVE  /\ at \in Cells /\ ~spilt
             /\ home \in Nat /\ home + Len(text) < Cols * Rows
             /\ \A k \in 1..Len(text) : cell[CellAt(home + k - 1)] = text[k]
  BY <1>3 DEF SInv, StaysOnScreen, LineShown
<1>4. ~astray => 0 <= home
  BY <1>3, SMT
<1> QED
  BY <1>1, <1>2, <1>3, <1>4

LEMMA BackspaceCells ==
  ASSUME IInv, SInv, Backspace, ~astray, pos > 0
  PROVE  /\ LitMatches' /\ ~cursor' /\ ~spilt' /\ home' = home
         /\ text' = RemoveAt(text, pos)
         /\ \A n \in Int : 0 <= n /\ n < Cols * Rows =>
              cell'[CellAt(n)] =
                IF home + pos - 1 <= n /\ n <= home + Len(text) - 1
                THEN IF n - home + 1 <= Len(text) - 1 THEN text'[n - home + 1] ELSE Blank
                ELSE cell[CellAt(n)]
<1> DEFINE b    == Back(at)
           left == RemoveAt(text, pos)
           D    == {After(b, k) : k \in 0..(Len(text) - pos)}
           line == [c \in D |-> LET k == Lin(c) - Lin(b) + pos
                                IN  IF k <= Len(left) THEN left[k] ELSE Blank]
<1>1. editing /\ text' = left /\ Draw(line, FALSE)
  BY DEF Backspace
<1>2. /\ text \in Seq(Char) /\ Len(text) \in Nat
      /\ pos \in Int /\ 0 <= pos /\ pos <= Len(text)
      /\ at \in Positions /\ home \in Int /\ Lin(at) = home + pos
      /\ 0 <= home /\ home + Len(text) < Cols * Rows
  BY <1>1, Editing
<1>3. b \in Positions /\ Lin(b) = home + pos - 1 /\ Lin(b) \in Int
  <2>1. Back(at) \in Positions /\ Lin(Back(at)) = Lin(at) - 1
    BY <1>2, CountCells
  <2> QED
    BY <1>2, <2>1, SMT
<1>4. Len(left) = Len(text) - 1
  <2>1. pos \in 1..Len(text)
    BY <1>2, SMT
  <2> QED
    BY <1>2, <2>1, Lengths
<1> HIDE DEF b, left
<1>5. \A n \in Int : CellAt(n) \in D <=> Lin(b) <= n /\ n <= Lin(b) + Len(text) - pos
  <2>1. \A k \in Int : After(b, k) = CellAt(Lin(b) + k)
    BY <1>3, Walks
  <2>2. ASSUME NEW n \in Int, CellAt(n) \in D
        PROVE  Lin(b) <= n /\ n <= Lin(b) + Len(text) - pos
    <3>1. PICK k \in 0..(Len(text) - pos) : CellAt(n) = After(b, k)
      BY <2>2
    <3>2. k \in Int /\ Lin(b) + k \in Int
      BY <1>2, <1>3, SMT
    <3>3. CellAt(n) = CellAt(Lin(b) + k)
      BY <2>1, <3>1, <3>2
    <3>4. n = Lin(b) + k
      BY <3>2, <3>3, Divided
    <3> QED
      BY <1>2, <1>3, <3>4, SMT
  <2>3. ASSUME NEW n \in Int, Lin(b) <= n, n <= Lin(b) + Len(text) - pos
        PROVE  CellAt(n) \in D
    <3>1. n - Lin(b) \in 0..(Len(text) - pos) /\ n - Lin(b) \in Int /\ Lin(b) + (n - Lin(b)) = n
      BY <1>2, <1>3, <2>3, SMT
    <3>2. After(b, n - Lin(b)) = CellAt(n)
      BY <2>1, <3>1
    <3> QED
      BY <3>1, <3>2
  <2> QED
    BY <2>2, <2>3
<1>6. D \subseteq Cells
  <2>1. SUFFICES ASSUME NEW k \in 0..(Len(text) - pos) PROVE After(b, k) \in Cells
    OBVIOUS
  <2>2. /\ Lin(b) + k \in Int /\ 0 <= Lin(b) + k /\ Lin(b) + k < Cols * Rows /\ k \in Int
    BY <1>2, <1>3, Size, SMT
  <2> QED
    BY <1>3, <2>2, Walks, NumberedCells
<1>7. \A n \in Int : CellAt(n) \in D =>
        line[CellAt(n)] = IF n - home + 1 <= Len(left) THEN left[n - home + 1] ELSE Blank
  <2>1. SUFFICES ASSUME NEW n \in Int, CellAt(n) \in D
                 PROVE  line[CellAt(n)] =
                          IF n - home + 1 <= Len(left) THEN left[n - home + 1] ELSE Blank
    OBVIOUS
  <2>2. Lin(CellAt(n)) - Lin(b) + pos = n - home + 1
    BY <1>2, <1>3, Divided, SMT
  <2> HIDE DEF D
  <2>3. line[CellAt(n)] = IF Lin(CellAt(n)) - Lin(b) + pos <= Len(left)
                          THEN left[Lin(CellAt(n)) - Lin(b) + pos] ELSE Blank
    BY <2>1
  <2> QED
    BY <2>2, <2>3
<1>8. DOMAIN line = D
  OBVIOUS
<1> HIDE DEF line, D
<1>9. LitMatches' /\ cursor' = FALSE /\ ~spilt' /\ home' = home
  BY <1>1, <1>6, <1>8, DrawEffect DEF Draw
<1>10. cell' = Drawn(cell, line)
  BY <1>1 DEF Draw
<1>11. ASSUME NEW n \in Int, 0 <= n, n < Cols * Rows
       PROVE  cell'[CellAt(n)] =
                IF home + pos - 1 <= n /\ n <= home + Len(text) - 1
                THEN IF n - home + 1 <= Len(text) - 1 THEN text'[n - home + 1] ELSE Blank
                ELSE cell[CellAt(n)]
  <2>1. CellAt(n) \in D <=> home + pos - 1 <= n /\ n <= home + Len(text) - 1
    BY <1>2, <1>3, <1>5, SMT
  <2>2. cell'[CellAt(n)] = IF CellAt(n) \in D THEN line[CellAt(n)] ELSE cell[CellAt(n)]
    BY <1>8, <1>10, <1>11, DrawnCell
  <2>3. CellAt(n) \in D => line[CellAt(n)] = IF n - home + 1 <= Len(text) - 1
                                            THEN text'[n - home + 1] ELSE Blank
    BY <1>1, <1>4, <1>7
  <2> QED
    BY <2>1, <2>2, <2>3
<1> QED
  BY <1>1, <1>9, <1>11 DEF left

LEMMA AppendCells ==
  ASSUME IInv, SInv, NEW d \in Char, editing, ~BufferFull, Append1(d), ~astray
  PROVE  /\ LitMatches' /\ ~cursor' /\ ~spilt' /\ at' \in Cells
         /\ Lin(at') = home' + Len(text) + 1 /\ 0 <= home' /\ home' \in Int
         /\ pos = Len(text) /\ text' = Append(text, d)
         /\ \/ /\ home' = home
               /\ \A n \in Int : 0 <= n /\ n < Cols * Rows =>
                    cell'[CellAt(n)] = IF n = home + Len(text) THEN d ELSE cell[CellAt(n)]
            \/ /\ home' = home - Cols
               /\ \A n \in Int : 0 <= n /\ n < Cols * Rows =>
                    cell'[CellAt(n)] =
                      IF n + Cols < Cols * Rows
                      THEN IF n + Cols = home + Len(text) THEN d ELSE cell[CellAt(n + Cols)]
                      ELSE Blank
<1> DEFINE next    == Forward(at)
           scrolls == next[1] = 0 /\ ScrollsAt(next[2])
           put     == [c \in {at} |-> d]
<1>1. /\ pos = Len(text) /\ text' = Append(text, d) /\ Draw(put, scrolls)
      /\ at' = IF scrolls THEN Up(next) ELSE next
  BY DEF Append1
<1>2. /\ text \in Seq(Char) /\ Len(text) \in Nat
      /\ at \in Positions /\ home \in Int /\ Lin(at) = home + Len(text) /\ at \in Cells
      /\ 0 <= home /\ home + Len(text) < Cols * Rows
  BY <1>1, Editing
<1>3. next \in Positions /\ Lin(next) = home + Len(text) + 1
  BY <1>2, CountCells
<1>4. DOMAIN put = {at} /\ put[at] = d
  OBVIOUS
<1> HIDE DEF next
<1>5. scrolls => Lin(next) = Cols * Rows
  <2>1. SUFFICES ASSUME scrolls PROVE Lin(next) = Cols * Rows
    OBVIOUS
  <2>2. PICK x \in 0..(Cols - 1), y \in Int : next = <<x, y>>
    BY <1>3 DEF Positions
  <2>3. x = 0 /\ y >= Rows
    BY <2>1, <2>2 DEF ScrollsAt
  <2>4. Lin(next) = y * Cols
    BY <2>2, <2>3, Numbers, SMT DEF Lin
  <2>5. Lin(next) <= Cols * Rows
    BY <1>2, <1>3, Size, SMT
  <2>6. ~(Rows < y)
    <3>1. SUFFICES ASSUME Rows < y PROVE FALSE
      OBVIOUS
    <3>2. Rows * Cols + Cols <= y * Cols /\ Rows * Cols = Cols * Rows
      BY <3>1, RowsApart, Numbers, SMT
    <3> QED
      BY <1>2, <1>3, <2>4, <2>5, <3>2, Size, Numbers, SMT
  <2>7. y = Rows
    BY <2>3, <2>6, Numbers, SMT
  <2> QED
    BY <2>4, <2>7, Numbers, SMT
<1>6. ~scrolls => Lin(next) < Cols * Rows
  <2>1. SUFFICES ASSUME ~scrolls, Lin(next) = Cols * Rows PROVE FALSE
    BY <1>2, <1>3, Size, SMT
  <2>2. PICK x \in 0..(Cols - 1), y \in Int : next = <<x, y>>
    BY <1>3 DEF Positions
  <2>3. Lin(<<0, Rows>>) = Cols * Rows /\ <<0, Rows>> \in Positions
    BY Numbers, SMT DEF Lin, Positions
  <2>4. next = <<0, Rows>>
    BY <1>3, <2>1, <2>3, SameCell
  <2> QED
    BY <2>1, <2>4, Numbers, SMT DEF ScrollsAt
<1>7. scrolls \in BOOLEAN
  OBVIOUS
<1> HIDE DEF scrolls, put
<1>8. LitMatches' /\ cursor' = FALSE /\ ~spilt'
  BY <1>1, <1>2, <1>4, <1>7, DrawEffect
<1>9. home' = (IF scrolls THEN home - Cols ELSE home)
  BY <1>1 DEF Draw
<1>10. at \in Cells /\ \A n \in Int : CellAt(n) = at <=> n = home + Len(text)
  BY <1>2, Divided, CountedCell
<1>11. \A n \in Int : 0 <= n /\ n < Cols * Rows =>
         Drawn(cell, put)[CellAt(n)] = IF n = home + Len(text) THEN d ELSE cell[CellAt(n)]
  <2>1. SUFFICES ASSUME NEW n \in Int, 0 <= n, n < Cols * Rows
                 PROVE  Drawn(cell, put)[CellAt(n)] =
                          IF n = home + Len(text) THEN d ELSE cell[CellAt(n)]
    OBVIOUS
  <2>2. Drawn(cell, put)[CellAt(n)] =
          IF CellAt(n) \in DOMAIN put THEN put[CellAt(n)] ELSE cell[CellAt(n)]
    BY <2>1, DrawnCell
  <2> QED
    BY <1>4, <1>10, <2>2
<1>12. CASE ~scrolls
  <2>1. at' = next /\ home' = home /\ cell' = Drawn(cell, put)
    BY <1>1, <1>9, <1>12 DEF Draw
  <2>2. at' \in Cells
    BY <1>2, <1>3, <1>6, <1>12, <2>1, OnScreen, SMT
  <2> QED
    BY <1>1, <1>2, <1>3, <1>8, <1>11, <2>1, <2>2
<1>13. CASE scrolls
  <2>1. at' = Up(next) /\ home' = home - Cols /\ cell' = Scrolled(Drawn(cell, put))
    BY <1>1, <1>9, <1>13 DEF Draw
  <2>2. Up(next) \in Positions /\ Lin(Up(next)) = Cols * Rows - Cols
    BY <1>3, <1>5, <1>13, CountCells
  <2>3. Lin(at') = home' + Len(text) + 1
    BY <1>2, <1>3, <1>5, <1>13, <2>1, <2>2, Size, Numbers, SMT
  <2>4. at' \in Cells
    BY <2>1, <2>2, OnScreen, Size, Numbers, SMT
  <2>5. 0 <= home' /\ home' \in Int
    <3>1. Len(text) + 1 <= BufferSize
      BY DEF IInv
    <3> QED
      BY <1>2, <1>3, <1>5, <1>13, <2>1, <3>1, Size, Numbers, SMT
  <2>6. ASSUME NEW n \in Int, 0 <= n, n < Cols * Rows
        PROVE  cell'[CellAt(n)] =
                 IF n + Cols < Cols * Rows
                 THEN IF n + Cols = home + Len(text) THEN d ELSE cell[CellAt(n + Cols)]
                 ELSE Blank
    <3>1. n + Cols \in Int /\ 0 <= n + Cols
      BY <2>6, Numbers, SMT
    <3>2. cell'[CellAt(n)] = IF n + Cols < Cols * Rows
                             THEN Drawn(cell, put)[CellAt(n + Cols)] ELSE Blank
      BY <2>1, <2>6, DrawnCell
    <3> QED
      BY <1>11, <3>1, <3>2
  <2> QED
    BY <1>1, <1>8, <2>1, <2>3, <2>4, <2>5, <2>6
<1> QED
  BY <1>12, <1>13

\* An insertion that does not go astray ends before the last cell of the
\* screen, and needs no scroll.
LEMMA InsertCells ==
  ASSUME IInv, SInv, NEW d \in Char, editing, Insert1(d), ~astray'
  PROVE  /\ ~astray /\ LitMatches' /\ ~cursor' /\ ~spilt' /\ at' = at /\ home' = home
         /\ pos < Len(text) /\ text' = InsertAt(text, pos + 1, d)
         /\ home + Len(text) + 1 < Cols * Rows
         /\ \A n \in Int : 0 <= n /\ n < Cols * Rows =>
              cell'[CellAt(n)] =
                IF n = home + pos THEN d
                ELSE IF home + pos < n /\ n <= home + Len(text) THEN text[n - home]
                ELSE cell[CellAt(n)]
<1> DEFINE i       == at[1] + Len(text) - pos
           wrapped == IF WrapsAt(i) THEN <<i - Cols, at[2] + 1>> ELSE <<i, at[2]>>
           scrolls == WrapsAt(i) /\ ScrollsAt(wrapped[2])
           last    == IF scrolls THEN Up(wrapped) ELSE wrapped
           here    == IF scrolls THEN Up(at) ELSE at
           moved   == {Before(last, n) : n \in Moves}
           line    == [c \in moved \cup {here} |->
                         IF c = here THEN d ELSE text[pos + Lin(c) - Lin(here)]]
<1>1. /\ pos < Len(text) /\ text' = InsertAt(text, pos + 1, d)
      /\ cell' = Drawn(IF scrolls THEN Scrolled(cell) ELSE cell, line)
      /\ lit' = (IF scrolls THEN {Up(c) : c \in LitWithoutCursor} \cap Cells
                 ELSE LitWithoutCursor) \ DOMAIN line
      /\ cursor' = FALSE
      /\ spilt' = (spilt \/ CursorSpills \/ Spills(line))
      /\ home' = (IF scrolls THEN home - Cols ELSE home)
      /\ at' = here
      /\ astray' = (astray \/ last = <<Cols - 1, Rows - 1>> \/ last[1] >= Cols)
  BY DEF Insert1
<1>2. ~astray /\ last # <<Cols - 1, Rows - 1>> /\ ~(last[1] >= Cols)
  BY <1>1
<1>3. /\ text \in Seq(Char) /\ Len(text) \in Nat
      /\ pos \in Int /\ 0 <= pos /\ pos <= Len(text)
      /\ at \in Positions /\ home \in Int /\ Lin(at) = home + pos /\ at \in Cells /\ ~spilt
      /\ 0 <= home /\ home + Len(text) < Cols * Rows
  BY <1>2, Editing
<1>4. PICK x \in 0..(Cols - 1), y \in Int : at = <<x, y>>
  BY <1>3 DEF Positions
<1>5. y * Cols + x = home + pos /\ (y + 1) * Cols = y * Cols + Cols /\ y * Cols \in Int
  BY <1>3, <1>4, Numbers, SMT DEF Lin
<1>6. i = x + Len(text) - pos /\ i \in Int /\ i > x
  BY <1>1, <1>3, <1>4, SMT
<1> HIDE DEF i
<1>7. wrapped = IF i >= Cols THEN <<i - Cols, y + 1>> ELSE <<i, y>>
  BY <1>4 DEF WrapsAt
<1>8. last[1] = wrapped[1]
  BY DEF Up
<1>9. wrapped \in Positions /\ Lin(wrapped) = home + Len(text)
  <2>1. CASE i >= Cols
    <3>1. wrapped = <<i - Cols, y + 1>> /\ ~(i - Cols >= Cols)
      BY <1>2, <1>7, <1>8, <2>1
    <3>2. i - Cols \in 0..(Cols - 1) /\ y + 1 \in Int
      BY <1>6, <2>1, <3>1, Numbers, SMT
    <3>3. Lin(wrapped) = (y + 1) * Cols + (i - Cols)
      BY <3>1 DEF Lin
    <3> HIDE DEF wrapped
    <3>4. Lin(wrapped) = home + Len(text)
      BY <1>3, <1>5, <1>6, <3>3, Numbers, SMT
    <3> QED
      BY <3>1, <3>2, <3>4 DEF Positions
  <2>2. CASE ~(i >= Cols)
    <3>1. wrapped = <<i, y>> /\ i \in 0..(Cols - 1)
      BY <1>6, <1>7, <2>2, Numbers, SMT
    <3>2. Lin(wrapped) = y * Cols + i
      BY <3>1 DEF Lin
    <3> HIDE DEF wrapped
    <3>3. Lin(wrapped) = home + Len(text)
      BY <1>3, <1>5, <1>6, <3>2, Numbers, SMT
    <3> QED
      BY <3>1, <3>3 DEF Positions
  <2> QED
    BY <2>1, <2>2
<1>10. wrapped \in Cells
  <2> HIDE DEF wrapped
  <2> QED
    BY <1>3, <1>9, OnScreen, SMT
<1>11. ~scrolls
  <2>1. wrapped[2] < Rows
    <3> HIDE DEF wrapped
    <3> QED
      BY <1>10, Numbers, SMT DEF Cells
  <2>2. wrapped[2] \in Int
    <3> HIDE DEF wrapped
    <3> QED
      BY <1>10, SMT DEF Cells
  <2>3. ~ScrollsAt(wrapped[2])
    <3> HIDE DEF wrapped
    <3> QED
      BY <2>1, <2>2, Numbers, SMT DEF ScrollsAt
  <2> QED
    BY <2>3
<1>12. last = wrapped /\ here = at
  BY <1>11
<1> HIDE DEF scrolls, wrapped
<1>13. home + Len(text) + 1 < Cols * Rows
  <2>1. SUFFICES ASSUME home + Len(text) = Cols * Rows - 1 PROVE FALSE
    BY <1>3, Size, SMT
  <2>2. <<Cols - 1, Rows - 1>> \in Positions /\ Lin(<<Cols - 1, Rows - 1>>) = Cols * Rows - 1
    <3>1. (Rows - 1) * Cols = Cols * Rows - Cols
      BY Numbers, SMT
    <3>2. Cols - 1 \in 0..(Cols - 1) /\ Rows - 1 \in Int
      BY Numbers, SMT
    <3>3. Lin(<<Cols - 1, Rows - 1>>) = (Rows - 1) * Cols + (Cols - 1)
      BY DEF Lin
    <3>4. Lin(<<Cols - 1, Rows - 1>>) = Cols * Rows - 1
      BY <3>1, <3>3, Size, Numbers, SMT
    <3> QED
      BY <3>2, <3>4 DEF Positions
  <2>3. wrapped = <<Cols - 1, Rows - 1>>
    BY <1>9, <2>1, <2>2, SameCell
  <2> QED
    BY <1>2, <1>12, <2>3
<1>14. last \in Positions /\ Lin(last) = home + Len(text)
  BY <1>9, <1>12
<1> HIDE DEF last
<1>15. \A n \in Int : CellAt(n) \in moved <=> home + pos < n /\ n <= home + Len(text)
  <2>1. \A k \in Moves : k \in Int /\ 0 <= k /\ k <= Len(text) - pos - 1
    BY <1>3, SMT DEF Moves
  <2>2. \A k \in Moves : Before(last, k) = CellAt(home + Len(text) - k)
    <3>1. \A k \in Moves : Before(last, k) = CellAt(Lin(last) - k)
      BY <1>14, <2>1, Walks
    <3>2. \A k \in Moves : Lin(last) - k = home + Len(text) - k
      BY <1>3, <1>14, <2>1, SMT
    <3> QED
      BY <3>1, <3>2
  <2>3. ASSUME NEW n \in Int, CellAt(n) \in moved
        PROVE  home + pos < n /\ n <= home + Len(text)
    <3>1. PICK k \in Moves : CellAt(n) = Before(last, k)
      BY <2>3
    <3>2. home + Len(text) - k \in Int
      BY <1>3, <2>1, SMT
    <3>3. CellAt(n) = CellAt(home + Len(text) - k)
      BY <2>2, <3>1
    <3>4. n = home + Len(text) - k
      BY <3>2, <3>3, Divided
    <3> QED
      BY <1>3, <2>1, <3>4, SMT
  <2>4. ASSUME NEW n \in Int, home + pos < n, n <= home + Len(text)
        PROVE  CellAt(n) \in moved
    <3> DEFINE k == home + Len(text) - n
    <3>1. k \in Moves /\ home + Len(text) - k = n
      BY <1>3, <2>4, SMT DEF Moves
    <3> HIDE DEF k
    <3>2. Before(last, k) = CellAt(n)
      BY <2>2, <3>1
    <3> QED
      BY <3>1, <3>2
  <2> QED
    BY <2>3, <2>4
<1>16. \A n \in Int : CellAt(n) = at <=> n = home + pos
  BY <1>3, Divided, CountedCell
<1>17. DOMAIN line = moved \cup {at}
  BY <1>12
<1>18. \A n \in Int : CellAt(n) \in moved \cup {at} =>
         line[CellAt(n)] = IF n = home + pos THEN d ELSE text[n - home]
  <2>1. SUFFICES ASSUME NEW n \in Int, CellAt(n) \in moved \cup {at}
                 PROVE  line[CellAt(n)] = IF n = home + pos THEN d ELSE text[n - home]
    OBVIOUS
  <2>2. pos + Lin(CellAt(n)) - Lin(at) = n - home
    BY <1>3, Divided, SMT
  <2> HIDE DEF moved
  <2>3. line[CellAt(n)] = IF CellAt(n) = at THEN d ELSE text[pos + Lin(CellAt(n)) - Lin(at)]
    BY <1>12, <2>1
  <2> QED
    BY <1>16, <2>2, <2>3
<1>19. moved \subseteq Cells
  <2>1. SUFFICES ASSUME NEW k \in Moves PROVE Before(last, k) \in Cells
    OBVIOUS
  <2>2. k \in Int /\ 0 <= k /\ k <= Len(text) - pos - 1
    BY <1>3, SMT DEF Moves
  <2>3. Before(last, k) = CellAt(home + Len(text) - k)
    <3>1. Before(last, k) = CellAt(Lin(last) - k)
      BY <1>14, <2>2, Walks
    <3>2. Lin(last) - k = home + Len(text) - k
      BY <1>3, <1>14, <2>2, SMT
    <3> QED
      BY <3>1, <3>2
  <2>4. /\ home + Len(text) - k \in Int /\ 0 <= home + Len(text) - k
        /\ home + Len(text) - k < Cols * Rows
    BY <1>3, <2>2, Size, SMT
  <2> QED
    BY <2>3, <2>4, NumberedCells
<1> HIDE DEF line, moved
<1>20. cell' = Drawn(cell, line) /\ home' = home /\ at' = at /\ lit' = LitWithoutCursor \ DOMAIN line
  BY <1>1, <1>11, <1>12
<1>21. lit' = {}
  BY <1>20, NothingLit DEF SInv
<1>22. ~spilt'
  <2>1. ~Spills(line)
    BY <1>3, <1>17, <1>19 DEF Spills
  <2> QED
    BY <1>1, <1>3, <2>1 DEF CursorSpills
<1>23. ASSUME NEW n \in Int, 0 <= n, n < Cols * Rows
       PROVE  cell'[CellAt(n)] =
                IF n = home + pos THEN d
                ELSE IF home + pos < n /\ n <= home + Len(text) THEN text[n - home]
                ELSE cell[CellAt(n)]
  <2>1. cell'[CellAt(n)] = IF CellAt(n) \in moved \cup {at} THEN line[CellAt(n)]
                           ELSE cell[CellAt(n)]
    BY <1>17, <1>20, <1>23, DrawnCell
  <2>2. CellAt(n) \in moved \cup {at} <=>
          n = home + pos \/ (home + pos < n /\ n <= home + Len(text))
    BY <1>15, <1>16
  <2> QED
    BY <1>18, <2>1, <2>2
<1> QED
  BY <1>1, <1>2, <1>13, <1>20, <1>21, <1>22, <1>23 DEF LitMatches

-----------------------------------------------------------------------------
(* Each key keeps what the screen shows.                                   *)

LEMMA InitScreen == Init => SInv
<1> SUFFICES ASSUME Init PROVE SInv
  OBVIOUS
<1>1. at \in Cells
  BY NumberOfStart DEF Init
<1> QED
  BY <1>1 DEF Init, SInv, LitMatches, StaysOnScreen, LineShown

LEMMA BeginScreen ==
  ASSUME SInv, NEW start \in Starts, NEW n \in Sizes, Begin(start, n)
  PROVE  SInv'
<1>1. /\ ~editing /\ text' = <<>> /\ at' = start /\ home' = Lin(start)
      /\ ~spilt' /\ UNCHANGED <<lit, cursor>>
  BY DEF Begin
<1>2. ~cursor /\ lit = {}
  BY <1>1 DEF SInv, LitMatches
<1>3. start \in Cells /\ start \in Positions
  BY LineEditAssumption, CellsArePositions DEF LineEditAssumption, Cells
<1>4. 0 <= Lin(start) /\ Lin(start) < Cols * Rows /\ Lin(start) \in Int
  BY <1>3, OnScreen, CountCells
<1>5. Len(text') = 0
  BY <1>1
<1>6. LineShown'
  <2>1. home' \in Nat /\ home' + Len(text') < Cols * Rows /\ 1..Len(text') = {}
    BY <1>1, <1>4, <1>5, SMT
  <2> QED
    BY <2>1 DEF LineShown
<1> QED
  BY <1>1, <1>2, <1>3, <1>6 DEF SInv, LitMatches, StaysOnScreen

LEMMA BlinkScreen == SInv /\ Blink => SInv'
<1> SUFFICES ASSUME SInv, Blink PROVE SInv'
  OBVIOUS
<1>1. /\ editing /\ UNCHANGED <<editing, text, at, cell, home, astray>>
      /\ lit' = SymDiff(lit, {at} \cap Cells) /\ cursor' = ~cursor
      /\ spilt' = (spilt \/ at \notin Cells)
  BY DEF Blink
<1>2. LitMatches'
  BY <1>1 DEF SInv, LitMatches, SymDiff
<1>3. StaysOnScreen'
  BY <1>1 DEF SInv, StaysOnScreen
<1>4. LineShown'
  BY <1>1 DEF SInv, LineShown
<1> QED
  BY <1>1, <1>2, <1>3, <1>4 DEF SInv

\* A key that draws nothing and leaves the text alone.
LEMMA SameScreen ==
  ASSUME IInv, SInv, editing, Draw(Nothing, FALSE), UNCHANGED <<editing, text, astray>>,
         ~astray => at' \in Cells
  PROVE  SInv'
<1>1. LitMatches' /\ cursor' = FALSE /\ (~astray => ~spilt')
  <2>1. DOMAIN Nothing \subseteq Cells
    BY DEF Nothing
  <2> QED
    BY <2>1, DrawEffect
<1>2. StaysOnScreen'
  BY <1>1 DEF StaysOnScreen
<1>3. ASSUME ~astray PROVE LineShown'
  <2>1. /\ Len(text) \in Nat /\ home \in Int /\ 0 <= home
        /\ home + Len(text) < Cols * Rows
        /\ \A k \in 1..Len(text) : cell[CellAt(home + k - 1)] = text[k]
    BY <1>3, Editing
  <2>2. home' = home /\ text' = text
    BY NothingDrawn
  <2>3. ASSUME NEW k \in 1..Len(text)
        PROVE  cell'[CellAt(home + k - 1)] = text[k]
    <3>1. home + k - 1 \in Int /\ 0 <= home + k - 1 /\ home + k - 1 < Cols * Rows
      BY <2>1, Size, SMT
    <3> QED
      BY <2>1, <3>1, NothingDrawn
  <2>4. home' \in Nat
    BY <2>1, <2>2, SMT
  <2> QED
    BY <2>1, <2>2, <2>3, <2>4 DEF LineShown
<1> QED
  BY <1>1, <1>2, <1>3 DEF SInv, LineShown

LEMMA MoveScreen == IInv /\ SInv /\ (Left \/ Right) => SInv'
<1> SUFFICES ASSUME IInv, SInv, Left \/ Right PROVE SInv'
  OBVIOUS
<1>1. editing /\ Draw(Nothing, FALSE) /\ UNCHANGED <<editing, text, astray>>
  BY DEF Left, Right
<1>2. ASSUME ~astray PROVE at' \in Cells
  <2>1. /\ Len(text) \in Nat /\ pos \in Int /\ 0 <= pos /\ pos <= Len(text)
        /\ at \in Positions /\ home \in Int /\ Lin(at) = home + pos /\ at \in Cells
        /\ 0 <= home /\ home + Len(text) < Cols * Rows
    BY <1>1, <1>2, Editing
  <2>2. \/ at' = at
        \/ pos > 0 /\ at' = Back(at)
        \/ pos < Len(text) /\ at' = Forward(at)
    BY DEF Left, Right
  <2>3. CASE pos > 0 /\ at' = Back(at)
    <3>1. at' \in Positions /\ Lin(at') = Lin(at) - 1
      BY <2>1, <2>3, CountCells
    <3>2. 0 <= Lin(at') /\ Lin(at') < Cols * Rows
      BY <2>1, <2>3, <3>1, Size, SMT
    <3> QED
      BY <3>1, <3>2, OnScreen
  <2>4. CASE pos < Len(text) /\ at' = Forward(at)
    <3>1. at' \in Positions /\ Lin(at') = Lin(at) + 1
      BY <2>1, <2>4, CountCells
    <3>2. 0 <= Lin(at') /\ Lin(at') < Cols * Rows
      BY <2>1, <2>4, <3>1, Size, SMT
    <3> QED
      BY <3>1, <3>2, OnScreen
  <2> QED
    BY <2>1, <2>2, <2>3, <2>4
<1> QED
  BY <1>1, <1>2, SameScreen

LEMMA EnterScreen == IInv /\ SInv /\ Enter => SInv'
<1> SUFFICES ASSUME IInv, SInv, Enter PROVE SInv'
  OBVIOUS
<1>1. /\ editing /\ ~editing' /\ astray' = astray
      /\ Draw(Nothing, ScrollsAt(at[2] + 1))
      /\ at' = <<0, IF ScrollsAt(at[2] + 1) THEN at[2] ELSE at[2] + 1>>
  BY DEF Enter
<1>2. ScrollsAt(at[2] + 1) \in BOOLEAN
  BY DEF ScrollsAt
<1>3. LitMatches' /\ cursor' = FALSE /\ (~astray => ~spilt')
  <2>1. DOMAIN Nothing \subseteq Cells
    BY DEF Nothing
  <2> QED
    BY <1>1, <1>2, <2>1, DrawEffect
<1>4. ASSUME ~astray PROVE at' \in Cells
  <2>1. PICK x \in 0..(Cols - 1), y \in 0..(Rows - 1) : at = <<x, y>>
    BY <1>4 DEF SInv, StaysOnScreen, Cells
  <2>2. at' = <<0, IF y + 1 >= Rows THEN y ELSE y + 1>>
    BY <1>1, <2>1 DEF ScrollsAt
  <2> QED
    BY <2>1, <2>2, Numbers, SMT DEF Cells
<1> QED
  BY <1>1, <1>3, <1>4 DEF SInv, StaysOnScreen, LineShown

LEMMA BackspaceScreen == IInv /\ SInv /\ Backspace => SInv'
<1> SUFFICES ASSUME IInv, SInv, Backspace PROVE SInv'
  OBVIOUS
<1>1. editing /\ UNCHANGED <<editing, astray>>
  BY DEF Backspace
<1>2. /\ text \in Seq(Char) /\ Len(text) \in Nat
      /\ pos \in Int /\ 0 <= pos /\ pos <= Len(text)
      /\ at \in Positions /\ Lin(at) \in Int /\ home \in Int /\ Lin(at) = home + pos
      /\ ~astray => /\ at \in Cells /\ ~spilt
                    /\ 0 <= home /\ home + Len(text) < Cols * Rows
                    /\ \A k \in 1..Len(text) : cell[CellAt(home + k - 1)] = text[k]
  BY <1>1, Editing
<1>3. CASE ~(pos > 0)
  <2>1. Draw(Nothing, FALSE) /\ UNCHANGED <<text, pos, at>>
    BY <1>3 DEF Backspace
  <2> QED
    BY <1>1, <1>2, <2>1, SameScreen
<1>4. CASE pos > 0 /\ astray
  <2>1. LitMatches' /\ ~cursor'
    <3>1. lit' = LitWithoutCursor \ DOMAIN
            [c \in {After(Back(at), k) : k \in 0..(Len(text) - pos)} |->
               LET k == Lin(c) - Lin(Back(at)) + pos
               IN  IF k <= Len(RemoveAt(text, pos)) THEN RemoveAt(text, pos)[k] ELSE Blank]
          /\ cursor' = FALSE
      BY <1>4 DEF Backspace, Draw
    <3> QED
      BY <3>1, NothingLit DEF SInv, LitMatches
  <2> QED
    BY <1>1, <1>4, <2>1 DEF SInv, StaysOnScreen, LineShown
<1>5. CASE pos > 0 /\ ~astray
  <2>1. /\ LitMatches' /\ ~cursor' /\ ~spilt' /\ home' = home
        /\ text' = RemoveAt(text, pos)
        /\ \A n \in Int : 0 <= n /\ n < Cols * Rows =>
             cell'[CellAt(n)] =
               IF home + pos - 1 <= n /\ n <= home + Len(text) - 1
               THEN IF n - home + 1 <= Len(text) - 1 THEN text'[n - home + 1] ELSE Blank
               ELSE cell[CellAt(n)]
    BY <1>5, BackspaceCells
  <2>2. pos \in 1..Len(text) /\ text[pos] \in Char
    <3>1. pos \in 1..Len(text)
      BY <1>2, <1>5, SMT
    <3> QED
      BY <1>2, <3>1, ElementOfSeq
  <2>3. Len(text') = Len(text) - 1
    BY <1>2, <2>1, <2>2, Lengths
  <2>4. at' \in Cells
    <3>1. at' = Back(at)
      BY <1>5 DEF Backspace
    <3>2. at' \in Positions /\ Lin(at') = Lin(at) - 1
      BY <1>2, <3>1, CountCells
    <3>3. 0 <= Lin(at') /\ Lin(at') < Cols * Rows
      BY <1>2, <1>5, <3>2, Size, SMT
    <3> QED
      BY <3>2, <3>3, OnScreen
  <2>5. ASSUME NEW k \in 1..(Len(text) - 1)
        PROVE  cell'[CellAt(home + k - 1)] = text'[k]
    <3> DEFINE n == home + k - 1
    <3>1. /\ n \in Int /\ 0 <= n /\ n < Cols * Rows /\ n - home + 1 = k
          /\ n <= home + Len(text) - 1 /\ n - home + 1 <= Len(text) - 1
          /\ k \in 1..Len(text) /\ (home + pos - 1 <= n <=> ~(k < pos))
      BY <1>2, <1>5, Size, SMT
    <3> HIDE DEF n
    <3>2. CASE k < pos
      <4>1. cell'[CellAt(n)] = cell[CellAt(n)]
        BY <2>1, <3>1, <3>2
      <4>2. cell[CellAt(n)] = text[k]
        BY <1>2, <1>5, <3>1 DEF n
      <4>3. text'[k] = text[k]
        BY <1>2, <2>1, <2>2, <3>2, CellContents
      <4> QED
        BY <4>1, <4>2, <4>3 DEF n
    <3>3. CASE ~(k < pos)
      <4>1. cell'[CellAt(n)] = text'[k]
        BY <2>1, <3>1, <3>3
      <4> QED
        BY <4>1 DEF n
    <3> QED
      BY <3>2, <3>3
  <2>6. home' \in Nat /\ home' + Len(text') < Cols * Rows
    BY <1>2, <1>5, <2>1, <2>3, Size, SMT
  <2> QED
    BY <1>1, <1>5, <2>1, <2>3, <2>4, <2>5, <2>6 DEF SInv, StaysOnScreen, LineShown
<1> QED
  BY <1>3, <1>4, <1>5

\* A character that has gone astray, or is typed when one has.
LEMMA AstrayScreen ==
  ASSUME SInv, NEW d \in Char, Append1(d) \/ Insert1(d), editing, editing', astray'
  PROVE  SInv'
<1>1. lit' = {} /\ cursor' = FALSE
  <2>1. CASE Append1(d)
    <3> DEFINE next    == Forward(at)
               scrolls == next[1] = 0 /\ ScrollsAt(next[2])
    <3>1. Draw([c \in {at} |-> d], scrolls)
      BY <2>1 DEF Append1
    <3>2. scrolls \in BOOLEAN
      OBVIOUS
    <3> HIDE DEF scrolls
    <3> QED
      BY <3>1, <3>2, DrawEffect
  <2>2. CASE Insert1(d)
    <3>1. cursor' = FALSE
      BY <2>2 DEF Insert1
    <3>2. \/ lit' \subseteq LitWithoutCursor
          \/ lit' \subseteq {Up(c) : c \in LitWithoutCursor}
      <4> HIDE DEF LitWithoutCursor
      <4> QED
        BY <2>2 DEF Insert1
    <3>3. LitWithoutCursor = {}
      BY NothingLit DEF SInv
    <3> QED
      BY <3>1, <3>2, <3>3
  <2> QED
    BY <2>1, <2>2
<1> QED
  BY <1>1 DEF SInv, LitMatches, StaysOnScreen, LineShown

LEMMA AppendScreen ==
  ASSUME IInv, SInv, NEW d \in Char, editing, UNCHANGED editing, ~BufferFull, Append1(d),
         ~astray'
  PROVE  SInv'
<1>1. astray' = astray
  BY DEF Append1
<1>2. /\ text \in Seq(Char) /\ Len(text) \in Nat /\ home \in Int
      /\ 0 <= home /\ home + Len(text) < Cols * Rows
      /\ \A k \in 1..Len(text) : cell[CellAt(home + k - 1)] = text[k]
  BY <1>1, Editing
<1>3. /\ LitMatches' /\ ~cursor' /\ ~spilt' /\ at' \in Cells
      /\ Lin(at') = home' + Len(text) + 1 /\ 0 <= home' /\ home' \in Int
      /\ pos = Len(text) /\ text' = Append(text, d)
      /\ \/ /\ home' = home
            /\ \A n \in Int : 0 <= n /\ n < Cols * Rows =>
                 cell'[CellAt(n)] = IF n = home + Len(text) THEN d ELSE cell[CellAt(n)]
         \/ /\ home' = home - Cols
            /\ \A n \in Int : 0 <= n /\ n < Cols * Rows =>
                 cell'[CellAt(n)] =
                   IF n + Cols < Cols * Rows
                   THEN IF n + Cols = home + Len(text) THEN d ELSE cell[CellAt(n + Cols)]
                   ELSE Blank
  BY <1>1, AppendCells
<1>4. Len(text') = Len(text) + 1
  BY <1>2, <1>3, Lengths
<1>5. home' \in Nat /\ home' + Len(text') < Cols * Rows
  <2>1. Lin(at') < Cols * Rows
    BY <1>3, OnScreen, CellsArePositions
  <2> QED
    BY <1>2, <1>3, <1>4, <2>1, SMT
<1>6. ASSUME NEW k \in 1..(Len(text) + 1)
      PROVE  cell'[CellAt(home' + k - 1)] = text'[k]
  <2> DEFINE n == home' + k - 1
  <2>1. n \in Int /\ 0 <= n /\ n < Cols * Rows /\ k \in Int
    BY <1>2, <1>3, <1>4, <1>5, Size, SMT
  <2>2. text'[k] = IF k <= Len(text) THEN text[k] ELSE d
    BY <1>2, <1>3, CellContents
  <2>3. k <= Len(text) => k \in 1..Len(text)
    BY <1>2, SMT
  <2>4. /\ k \in Int /\ 1 <= k /\ k <= Len(text) + 1
        /\ home \in Int /\ Len(text) \in Int /\ Cols \in Int
    BY <1>2, Numbers, SMT
  <2>5. CASE home' = home /\ \A m \in Int : 0 <= m /\ m < Cols * Rows =>
               cell'[CellAt(m)] = IF m = home + Len(text) THEN d ELSE cell[CellAt(m)]
    <3>1. n = home + k - 1 /\ (n = home + Len(text) <=> ~(k <= Len(text)))
      <4>1. home' = home
        BY <2>5
      <4> QED
        BY <2>4, <4>1, SMT
    <3> HIDE DEF n
    <3>2. cell'[CellAt(n)] = IF ~(k <= Len(text)) THEN d ELSE cell[CellAt(n)]
      BY <2>1, <2>5, <3>1
    <3>3. k <= Len(text) => cell[CellAt(n)] = text[k]
      BY <1>2, <2>3, <3>1
    <3> QED
      BY <2>2, <3>2, <3>3 DEF n
  <2>6. CASE home' = home - Cols /\ \A m \in Int : 0 <= m /\ m < Cols * Rows =>
               cell'[CellAt(m)] =
                 IF m + Cols < Cols * Rows
                 THEN IF m + Cols = home + Len(text) THEN d ELSE cell[CellAt(m + Cols)]
                 ELSE Blank
    <3>1. /\ n + Cols = home + k - 1 /\ n + Cols < Cols * Rows
          /\ (n + Cols = home + Len(text) <=> ~(k <= Len(text)))
      <4>1. home' = home - Cols
        BY <2>6
      <4>2. n + Cols = home + k - 1
        BY <2>4, <4>1, SMT
      <4>3. home + k - 1 <= home + Len(text)
        BY <2>4, SMT
      <4>4. n + Cols < Cols * Rows
        <5> DEFINE all == Cols * Rows
        <5>1. all \in Int /\ home + Len(text) < all
          BY <1>2, Size
        <5> HIDE DEF all, n
        <5>2. n + Cols < all
          BY <2>4, <4>2, <4>3, <5>1, SMT
        <5> QED
          BY <5>2 DEF all
      <4> HIDE DEF n
      <4> QED
        BY <2>4, <4>2, <4>4, SMT
    <3> HIDE DEF n
    <3>2. cell'[CellAt(n)] = IF ~(k <= Len(text)) THEN d ELSE cell[CellAt(n + Cols)]
      BY <2>1, <2>6, <3>1
    <3>3. k <= Len(text) => cell[CellAt(n + Cols)] = text[k]
      BY <1>2, <2>3, <3>1
    <3> QED
      BY <2>2, <3>2, <3>3 DEF n
  <2> QED
    BY <1>3, <2>5, <2>6
<1> QED
  BY <1>1, <1>3, <1>4, <1>5, <1>6 DEF SInv, StaysOnScreen, LineShown

LEMMA InsertScreen ==
  ASSUME IInv, SInv, NEW d \in Char, editing, UNCHANGED editing, Insert1(d), ~astray'
  PROVE  SInv'
<1>1. /\ ~astray /\ LitMatches' /\ ~cursor' /\ ~spilt' /\ at' = at /\ home' = home
      /\ pos < Len(text) /\ text' = InsertAt(text, pos + 1, d)
      /\ home + Len(text) + 1 < Cols * Rows
      /\ \A n \in Int : 0 <= n /\ n < Cols * Rows =>
           cell'[CellAt(n)] =
             IF n = home + pos THEN d
             ELSE IF home + pos < n /\ n <= home + Len(text) THEN text[n - home]
             ELSE cell[CellAt(n)]
  BY InsertCells
<1>2. /\ text \in Seq(Char) /\ Len(text) \in Nat /\ home \in Int /\ at \in Cells
      /\ pos \in Int /\ 0 <= pos /\ 0 <= home
      /\ \A k \in 1..Len(text) : cell[CellAt(home + k - 1)] = text[k]
  BY <1>1, Editing
<1>3. pos + 1 \in 1..(Len(text) + 1)
  BY <1>1, <1>2, SMT
<1>4. Len(text') = Len(text) + 1
  BY <1>1, <1>2, <1>3, Lengths
<1>5. home' \in Nat /\ home' + Len(text') < Cols * Rows
  BY <1>1, <1>2, <1>4, SMTT(30)
<1>6. ASSUME NEW k \in 1..(Len(text) + 1)
      PROVE  cell'[CellAt(home + k - 1)] = text'[k]
  <2> DEFINE n == home + k - 1
  <2>1. n \in Int /\ 0 <= n /\ n < Cols * Rows /\ k \in Int /\ n - home = k - 1
    BY <1>1, <1>2, Size, SMT
  <2>2. text'[k] = IF k < pos + 1 THEN text[k] ELSE IF k = pos + 1 THEN d ELSE text[k - 1]
    BY <1>1, <1>2, <1>3, CellContents
  <2>3. /\ n = home + pos <=> k = pos + 1
        /\ home + pos < n /\ n <= home + Len(text) <=> ~(k < pos + 1) /\ k # pos + 1
        /\ k < pos + 1 => k \in 1..Len(text)
    BY <1>1, <1>2, SMT
  <2>4. k < pos + 1 => cell[CellAt(n)] = text[k]
    BY <1>2, <2>3
  <2>5. k < pos + 1 => k # pos + 1
    BY <1>2, <2>1, SMT
  <2> HIDE DEF n
  <2>6. cell'[CellAt(n)] = IF k = pos + 1 THEN d
                           ELSE IF ~(k < pos + 1) THEN text[k - 1] ELSE cell[CellAt(n)]
    BY <1>1, <2>1, <2>3
  <2> QED
    BY <2>2, <2>4, <2>5, <2>6 DEF n
<1> QED
  BY <1>1, <1>2, <1>4, <1>5, <1>6 DEF SInv, StaysOnScreen, LineShown

LEMMA TypeScreen ==
  ASSUME IInv, SInv, NEW d \in Char, Type(d)
  PROVE  SInv'
<1>1. editing /\ UNCHANGED editing
  BY DEF Type
<1>2. CASE BufferFull /\ Draw(Nothing, FALSE) /\ UNCHANGED <<text, pos, at, astray>>
  <2>1. ~astray => at' \in Cells
    BY <1>2 DEF SInv, StaysOnScreen
  <2> QED
    BY <1>1, <1>2, <2>1, SameScreen
<1>3. CASE ~BufferFull /\ (Append1(d) \/ Insert1(d))
  BY <1>1, <1>3, AstrayScreen, AppendScreen, InsertScreen
<1> QED
  BY <1>2, <1>3 DEF Type

THEOREM ScreenInvariant == Spec => []SInv
<1>1. IInv /\ SInv /\ [Next]_vars => SInv'
  <2> SUFFICES ASSUME IInv, SInv, [Next]_vars PROVE SInv'
    OBVIOUS
  <2>1. CASE \E start \in Starts, n \in Sizes : Begin(start, n)
    BY <2>1, BeginScreen
  <2>2. CASE Left \/ Right
    BY <2>2, MoveScreen
  <2>3. CASE Blink
    BY <2>3, BlinkScreen
  <2>4. CASE Enter
    BY <2>4, EnterScreen
  <2>5. CASE Backspace
    BY <2>5, BackspaceScreen
  <2>6. CASE \E d \in Char : Type(d)
    BY <2>6, TypeScreen
  <2>7. CASE UNCHANGED vars
    BY <2>7 DEF vars, screen, SInv, LitMatches, StaysOnScreen, LineShown
  <2> QED
    BY <2>1, <2>2, <2>3, <2>4, <2>5, <2>6, <2>7 DEF Next
<1> QED
  BY EditInvariant, InitScreen, <1>1, PTL DEF Spec

\* Until an insertion goes astray, the cursor is on the screen and nothing is
\* drawn outside it, whatever the size of the screen and of the buffer.
THEOREM StaysOn == Spec => []StaysOnScreen
<1>1. SInv => StaysOnScreen
  BY DEF SInv
<1> QED
  BY ScreenInvariant, <1>1, PTL

\* Hiding, moving and scrolling leave no inverted cell behind.
THEOREM OneCursorOnly == Spec => []OneCursor
<1>1. SInv => OneCursor
  <2> SUFFICES ASSUME SInv, ~astray PROVE lit = (IF cursor THEN {at} ELSE {})
    BY DEF OneCursor
  <2>1. at \in Cells
    BY DEF SInv, StaysOnScreen
  <2> QED
    BY <2>1 DEF SInv, LitMatches
<1> QED
  BY ScreenInvariant, <1>1, PTL

\* The screen shows the text that buffered_input returns, through every
\* wrap and scroll.
THEOREM TextIsShown == Spec => []TextShown
<1>1. SInv => TextShown
  <2> SUFFICES ASSUME SInv, editing, ~astray, NEW k \in 1..Len(text)
               PROVE  cell[After(<<0, 0>>, home + k - 1)] = text[k]
    BY DEF TextShown
  <2>1. home \in Nat /\ cell[CellAt(home + k - 1)] = text[k]
    BY DEF SInv, LineShown
  <2>2. home + k - 1 \in Int /\ 0 + (home + k - 1) = home + k - 1
    BY <2>1, SMT
  <2>3. After(<<0, 0>>, home + k - 1) = CellAt(0 + (home + k - 1))
    BY <2>2, NumberOfStart, CellsArePositions, Walks
  <2> QED
    BY <2>1, <2>2, <2>3
<1> QED
  BY ScreenInvariant, <1>1, PTL

-----------------------------------------------------------------------------
(* What a key leaves alone.                                                *)

\* A key changes the cells of its line and scrolls by at most a row; the
\* cells are named by their numbers.
LineOnly ==
  \E r \in {0, 1} :
    /\ home' = home - r * Cols
    /\ \A n \in Int :
         /\ 0 <= n /\ n < Cols * Rows
         /\ n < home' \/ n >= home' + (IF Len(text') > Len(text) THEN Len(text') ELSE Len(text))
         => cell'[CellAt(n)] = IF n + r * Cols < Cols * Rows
                               THEN cell[CellAt(n + r * Cols)] ELSE Blank

LEMMA KeyLineOnly ==
  ASSUME IInv, SInv, Next, editing, editing', ~astray'
  PROVE  LineOnly
<1>1. /\ text \in Seq(Char) /\ Len(text) \in Nat /\ pos \in Int /\ 0 <= pos /\ pos <= Len(text)
      /\ home \in Int
  BY Editing
<1>2. ASSUME home' = home,
             \A n \in Int :
               /\ 0 <= n /\ n < Cols * Rows
               /\ n < home \/ n >= home + (IF Len(text') > Len(text) THEN Len(text')
                                           ELSE Len(text))
               => cell'[CellAt(n)] = cell[CellAt(n)]
      PROVE  LineOnly
  <2>1. 0 * Cols = 0 /\ home - 0 = home /\ \A n \in Int : n + 0 = n
    BY <1>1, Numbers, SMT
  <2> QED
    BY <1>2, <2>1 DEF LineOnly
<1>3. CASE Blink
  BY <1>2, <1>3 DEF Blink
<1>4. CASE Draw(Nothing, FALSE)
  BY <1>2, <1>4, NothingDrawn
<1>5. CASE Backspace /\ pos > 0
  <2>1. astray' = astray
    BY <1>5 DEF Backspace
  <2>2. /\ home' = home /\ text' = RemoveAt(text, pos)
        /\ \A n \in Int : 0 <= n /\ n < Cols * Rows =>
             cell'[CellAt(n)] =
               IF home + pos - 1 <= n /\ n <= home + Len(text) - 1
               THEN IF n - home + 1 <= Len(text) - 1 THEN text'[n - home + 1] ELSE Blank
               ELSE cell[CellAt(n)]
    BY <1>5, <2>1, BackspaceCells
  <2>3. Len(text') = Len(text) - 1
    <3>1. pos \in 1..Len(text) /\ \A k \in 1..Len(text) : text[k] \in Char
      BY <1>1, <1>5, ElementOfSeq, SMT
    <3> QED
      BY <1>1, <2>2, <3>1, Lengths
  <2>4. ASSUME NEW n \in Int, 0 <= n, n < Cols * Rows,
               n < home \/ n >= home + (IF Len(text') > Len(text) THEN Len(text')
                                        ELSE Len(text))
        PROVE  cell'[CellAt(n)] = cell[CellAt(n)]
    <3>1. ~(home + pos - 1 <= n /\ n <= home + Len(text) - 1)
      BY <1>1, <1>5, <2>3, <2>4, SMT
    <3> QED
      BY <2>2, <2>4, <3>1
  <2> QED
    BY <1>2, <2>2, <2>4
<1>6. CASE \E d \in Char : ~BufferFull /\ Append1(d)
  <2>1. PICK d \in Char : ~BufferFull /\ Append1(d)
    BY <1>6
  <2>2. astray' = astray
    BY <2>1 DEF Append1
  <2>3. /\ home' \in Int /\ text' = Append(text, d)
        /\ \/ /\ home' = home
              /\ \A n \in Int : 0 <= n /\ n < Cols * Rows =>
                   cell'[CellAt(n)] = IF n = home + Len(text) THEN d ELSE cell[CellAt(n)]
           \/ /\ home' = home - Cols
              /\ \A n \in Int : 0 <= n /\ n < Cols * Rows =>
                   cell'[CellAt(n)] =
                     IF n + Cols < Cols * Rows
                     THEN IF n + Cols = home + Len(text) THEN d ELSE cell[CellAt(n + Cols)]
                     ELSE Blank
    BY <2>1, <2>2, AppendCells
  <2>4. Len(text') = Len(text) + 1
    BY <1>1, <2>3, Lengths
  <2>5. (IF Len(text') > Len(text) THEN Len(text') ELSE Len(text)) = Len(text) + 1
    BY <1>1, <2>4, SMT
  <2>6. CASE home' = home /\ \A n \in Int : 0 <= n /\ n < Cols * Rows =>
               cell'[CellAt(n)] = IF n = home + Len(text) THEN d ELSE cell[CellAt(n)]
    <3>1. \A n \in Int : n < home \/ n >= home + (Len(text) + 1) => n # home + Len(text)
      BY <1>1, SMT
    <3> QED
      BY <1>2, <2>5, <2>6, <3>1
  <2>7. CASE home' = home - Cols /\ \A n \in Int : 0 <= n /\ n < Cols * Rows =>
               cell'[CellAt(n)] =
                 IF n + Cols < Cols * Rows
                 THEN IF n + Cols = home + Len(text) THEN d ELSE cell[CellAt(n + Cols)]
                 ELSE Blank
    <3>1. \A n \in Int : n < home' \/ n >= home' + (Len(text) + 1) =>
            n + Cols # home + Len(text)
      BY <1>1, <2>7, Numbers, SMT
    <3>2. 1 * Cols = Cols
      BY Numbers, SMT
    <3> QED
      BY <2>5, <2>7, <3>1, <3>2 DEF LineOnly
  <2> QED
    BY <2>3, <2>6, <2>7
<1>7. CASE \E d \in Char : Insert1(d)
  <2>1. PICK d \in Char : Insert1(d)
    BY <1>7
  <2>2. /\ home' = home /\ pos < Len(text) /\ text' = InsertAt(text, pos + 1, d)
        /\ \A n \in Int : 0 <= n /\ n < Cols * Rows =>
             cell'[CellAt(n)] =
               IF n = home + pos THEN d
               ELSE IF home + pos < n /\ n <= home + Len(text) THEN text[n - home]
               ELSE cell[CellAt(n)]
    BY <2>1, InsertCells
  <2>3. Len(text') = Len(text) + 1
    <3>1. pos + 1 \in 1..(Len(text) + 1)
      BY <1>1, <2>2, SMT
    <3> QED
      BY <1>1, <2>2, <3>1, Lengths
  <2>4. ASSUME NEW n \in Int, 0 <= n, n < Cols * Rows,
               n < home \/ n >= home + (IF Len(text') > Len(text) THEN Len(text')
                                        ELSE Len(text))
        PROVE  cell'[CellAt(n)] = cell[CellAt(n)]
    <3>1. n # home + pos /\ ~(home + pos < n /\ n <= home + Len(text))
      BY <1>1, <2>2, <2>3, <2>4, SMT
    <3> QED
      BY <2>2, <2>4, <3>1
  <2> QED
    BY <1>2, <2>2, <2>4
<1>8. \/ Blink
      \/ Draw(Nothing, FALSE)
      \/ Backspace /\ pos > 0
      \/ \E d \in Char : ~BufferFull /\ Append1(d)
      \/ \E d \in Char : Insert1(d)
  <2>1. ~Enter /\ ~(\E start \in Starts, n \in Sizes : Begin(start, n))
    BY DEF Enter, Begin
  <2>2. Left \/ Right => Draw(Nothing, FALSE)
    BY DEF Left, Right
  <2>3. Backspace => pos > 0 \/ Draw(Nothing, FALSE)
    BY DEF Backspace
  <2>4. ASSUME NEW d \in Char, Type(d)
        PROVE  Draw(Nothing, FALSE) \/ (~BufferFull /\ Append1(d)) \/ Insert1(d)
    BY <2>4 DEF Type
  <2>5. \/ Blink \/ Left \/ Right \/ Backspace
        \/ \E d \in Char : Type(d)
    BY <2>1 DEF Next
  <2>6. CASE Left \/ Right
    BY <2>2, <2>6
  <2>7. CASE Backspace
    BY <2>3, <2>7
  <2>8. CASE \E d \in Char : Type(d)
    <3>1. PICK d \in Char : Type(d)
      BY <2>8
    <3>2. Draw(Nothing, FALSE) \/ (~BufferFull /\ Append1(d)) \/ Insert1(d)
      BY <2>4, <3>1
    <3> QED
      BY <3>2
  <2>9. CASE Blink
    BY <2>9
  <2> QED
    BY <2>5, <2>6, <2>7, <2>8, <2>9
<1> QED
  BY <1>3, <1>4, <1>5, <1>6, <1>7, <1>8

LEMMA RestIsKept ==
  ASSUME IInv, LineOnly, editing
  PROVE  LET rows == (home - home') \div Cols
             last == home' + (IF Len(text') > Len(text) THEN Len(text') ELSE Len(text))
         IN  \A c \in Cells :
               Lin(c) < home' \/ Lin(c) >= last =>
                 cell'[c] = (IF c[2] + rows < Rows THEN cell[<<c[1], c[2] + rows>>]
                                                   ELSE Blank)
<1> DEFINE rows == (home - home') \div Cols
           last == home' + (IF Len(text') > Len(text) THEN Len(text') ELSE Len(text))
<1>1. PICK r \in {0, 1} :
        /\ home' = home - r * Cols
        /\ \A n \in Int :
             /\ 0 <= n /\ n < Cols * Rows
             /\ n < home' \/ n >= last
             => cell'[CellAt(n)] = IF n + r * Cols < Cols * Rows
                                   THEN cell[CellAt(n + r * Cols)] ELSE Blank
  BY DEF LineOnly
<1>2. home \in Int
  BY DEF IInv
<1>3. rows = r
  <2>1. 0 * Cols = 0 /\ 1 * Cols = Cols
    BY Numbers, SMT
  <2>2. home - home' = IF r = 0 THEN 0 ELSE Cols
    BY <1>1, <1>2, <2>1, Numbers, SMT
  <2>3. 0 \div Cols = 0 /\ Cols \div Cols = 1
    BY Numbers, SMT
  <2> QED
    BY <1>1, <2>2, <2>3
<1> HIDE DEF rows, last
<1>4. ASSUME NEW c \in Cells, Lin(c) < home' \/ Lin(c) >= last
      PROVE  cell'[c] = (IF c[2] + r < Rows THEN cell[<<c[1], c[2] + r>>] ELSE Blank)
  <2>1. PICK x \in 0..(Cols - 1), y \in 0..(Rows - 1) : c = <<x, y>>
    BY DEF Cells
  <2>2. /\ c \in Positions /\ Lin(c) \in Int /\ 0 <= Lin(c) /\ Lin(c) < Cols * Rows
        /\ CellAt(Lin(c)) = c
    BY CellsArePositions, OnScreen, CountCells, CountedCell
  <2>3. cell'[c] = IF Lin(c) + r * Cols < Cols * Rows
                   THEN cell[CellAt(Lin(c) + r * Cols)] ELSE Blank
    BY <1>1, <1>4, <2>2
  <2>4. <<x, y + r>> \in Positions /\ Lin(<<x, y + r>>) = Lin(c) + r * Cols
    <3>1. (y + r) * Cols = y * Cols + r * Cols
      BY <1>1, Numbers, SMT
    <3>2. Lin(<<x, y + r>>) = (y + r) * Cols + x /\ Lin(c) = y * Cols + x
      BY <2>1 DEF Lin
    <3>3. y + r \in Int /\ y * Cols \in Int /\ r * Cols \in Int
      BY <1>1, Numbers, SMT
    <3>4. Lin(<<x, y + r>>) = Lin(c) + r * Cols
      BY <3>1, <3>2, <3>3, Numbers, SMT
    <3> QED
      BY <3>3, <3>4 DEF Positions
  <2>5. CellAt(Lin(c) + r * Cols) = <<x, y + r>>
    BY <2>4, CountedCell
  <2>6. Lin(c) + r * Cols < Cols * Rows <=> y + r < Rows
    <3>1. <<x, y + r>> \in Cells <=> y + r < Rows
      BY <1>1, Numbers, SMT DEF Cells
    <3>2. 0 <= Lin(c) + r * Cols
      BY <1>1, <2>2, Numbers, SMT
    <3> QED
      BY <2>4, <3>1, <3>2, OnScreen
  <2> QED
    BY <2>1, <2>3, <2>5, <2>6
<1> QED
  BY <1>3, <1>4 DEF last, rows

\* No key changes what stands outside the line it edits, except that a
\* scroll moves all of it up by a row.
THEOREM RestOfScreen == Spec => RestKept
<1>1. IInv /\ SInv /\ [Next]_vars =>
        [editing /\ editing' /\ ~astray' =>
           LET rows == (home - home') \div Cols
               last == home' + (IF Len(text') > Len(text) THEN Len(text') ELSE Len(text))
           IN  \A c \in Cells :
                 Lin(c) < home' \/ Lin(c) >= last =>
                   cell'[c] = (IF c[2] + rows < Rows THEN cell[<<c[1], c[2] + rows>>]
                                                     ELSE Blank)]_vars
  BY KeyLineOnly, RestIsKept
<1> QED
  BY EditInvariant, ScreenInvariant, <1>1, PTL DEF Spec, RestKept

-----------------------------------------------------------------------------
(* The keyboard.                                                           *)

(* What keyboard_asc makes of scan codes.                                  *)

Decoders == [shift : BOOLEAN, released : BOOLEAN, out : Seq(Key \X BOOLEAN)]

Decoder(s, r, o) == [shift |-> s, released |-> r, out |-> o]

Decoded(d, sc) ==
  IF sc = Released THEN Decoder(d.shift, TRUE, d.out)
  ELSE IF sc \in Shift THEN Decoder(~d.released, FALSE, d.out)
  ELSE Decoder(d.shift, FALSE,
               IF d.released \/ sc \in Mute THEN d.out ELSE Append(d.out, <<sc, d.shift>>))

LEMMA DecoderFields ==
  ASSUME NEW s, NEW r, NEW o
  PROVE  /\ Decoder(s, r, o).shift = s
         /\ Decoder(s, r, o).released = r
         /\ Decoder(s, r, o).out = o
BY DEF Decoder

LEMMA DecoderType ==
  /\ \A d \in Decoders : /\ d.shift \in BOOLEAN /\ d.released \in BOOLEAN
                         /\ d.out \in Seq(Key \X BOOLEAN)
  /\ \A s \in BOOLEAN, r \in BOOLEAN, o \in Seq(Key \X BOOLEAN) : Decoder(s, r, o) \in Decoders
BY DEF Decoders, Decoder

LEMMA DecodedType ==
  ASSUME NEW d \in Decoders, NEW sc \in ScanCode
  PROVE  Decoded(d, sc) \in Decoders
<1>1. d.shift \in BOOLEAN /\ d.released \in BOOLEAN /\ d.out \in Seq(Key \X BOOLEAN)
  BY DecoderType
<1>2. CASE sc = Released
  BY <1>1, <1>2, DecoderType DEF Decoded
<1>3. CASE sc # Released /\ sc \in Shift
  <2>1. (~d.released) \in BOOLEAN
    OBVIOUS
  <2> QED
    BY <1>1, <1>3, <2>1, DecoderType DEF Decoded
<1>4. CASE sc # Released /\ sc \notin Shift
  <2> DEFINE o == IF d.released \/ sc \in Mute THEN d.out ELSE Append(d.out, <<sc, d.shift>>)
  <2>1. o \in Seq(Key \X BOOLEAN)
    <3>1. CASE d.released \/ sc \in Mute
      BY <1>1, <3>1
    <3>2. CASE ~(d.released \/ sc \in Mute)
      <4>1. sc \in Key
        BY <1>4, <3>2 DEF ScanCode
      <4>2. <<sc, d.shift>> \in Key \X BOOLEAN
        BY <1>1, <4>1
      <4> QED
        BY <1>1, <3>2, <4>2, AppendProperties
    <3> QED
      BY <3>1, <3>2
  <2>2. Decoded(d, sc) = Decoder(d.shift, FALSE, o)
    BY <1>4 DEF Decoded
  <2> QED
    BY <1>1, <2>1, <2>2, DecoderType
<1> QED
  BY <1>2, <1>3, <1>4

\* f[i] is the state of the decoder once the first i codes of p are decoded.
Run(f, p, d) ==
  /\ f \in [0..Len(p) -> Decoders] /\ f[0] = d
  /\ \A i \in 1..Len(p) : f[i] = Decoded(f[i - 1], p[i])

LEMMA RunExists ==
  ASSUME NEW p \in Seq(ScanCode), NEW d \in Decoders
  PROVE  \E f : Run(f, p, d)
<1> DEFINE g == [z \in (1..Len(p)) \X Decoders |-> Decoded(z[2], p[z[1]])]
<1>1. Len(p) \in Nat /\ \A i \in 1..Len(p) : p[i] \in ScanCode
  BY LenProperties, ElementOfSeq
<1>2. g \in [(1..Len(p)) \X Decoders -> Decoders]
  BY <1>1, DecodedType
<1>3. \A i \in 1..Len(p), v \in Decoders : g[<<i, v>>] = Decoded(v, p[i])
  OBVIOUS
<1> HIDE DEF g
<1>4. PICK f : f \in [0..Len(p) -> Decoders] /\ Follows(f, Len(p), d, g)
  BY <1>1, <1>2, RecursionExists
<1>5. ASSUME NEW i \in 1..Len(p) PROVE f[i] = Decoded(f[i - 1], p[i])
  <2>1. i - 1 \in 0..Len(p)
    BY <1>1, SMT
  <2>2. f[i - 1] \in Decoders
    BY <1>4, <2>1
  <2> QED
    BY <1>3, <1>4, <2>2 DEF Follows
<1> QED
  BY <1>4, <1>5 DEF Run, Follows

\* One more code.
LEMMA RunExtends ==
  ASSUME NEW p \in Seq(ScanCode), NEW d \in Decoders, NEW f, Run(f, p, d), NEW sc \in ScanCode
  PROVE  \E g : /\ Run(g, Append(p, sc), d)
                /\ \A i \in 0..Len(p) : g[i] = f[i]
                /\ g[Len(p) + 1] = Decoded(f[Len(p)], sc)
<1> DEFINE n == Len(p)
           q == Append(p, sc)
           g == [i \in 0..(n + 1) |-> IF i = n + 1 THEN Decoded(f[n], sc) ELSE f[i]]
<1>1. n \in Nat /\ Len(q) = n + 1 /\ q[n + 1] = sc /\ \A i \in 1..n : q[i] = p[i]
  BY AppendProperties, LenProperties
<1>2. f \in [0..n -> Decoders] /\ f[0] = d /\ \A i \in 1..n : f[i] = Decoded(f[i - 1], p[i])
  BY DEF Run
<1> HIDE DEF n, q
<1>3. /\ 0 \in 0..(n + 1) /\ 0 # n + 1 /\ n \in 0..n /\ n + 1 \in 0..(n + 1)
      /\ \A i \in 0..n : i \in 0..(n + 1) /\ i # n + 1
      /\ \A i \in 0..(n + 1) : i # n + 1 => i \in 0..n
  BY <1>1, SMT
<1>4. Decoded(f[n], sc) \in Decoders
  BY <1>2, <1>3, DecodedType
<1>5. g \in [0..(n + 1) -> Decoders]
  BY <1>2, <1>3, <1>4
<1>6. g[n + 1] = Decoded(f[n], sc) /\ \A i \in 0..n : g[i] = f[i]
  BY <1>3
<1> HIDE DEF g
<1>7. ASSUME NEW i \in 1..(n + 1) PROVE g[i] = Decoded(g[i - 1], q[i])
  <2>1. i - 1 \in 0..n /\ (i # n + 1 => i \in 1..n /\ i \in 0..n)
    BY <1>1, SMT
  <2>2. CASE i = n + 1
    <3>1. i - 1 = n
      BY <1>1, <2>2, SMT
    <3> QED
      BY <1>1, <1>3, <1>6, <2>2, <3>1
  <2>3. CASE i # n + 1
    BY <1>1, <1>2, <1>6, <2>1, <2>3
  <2> QED
    BY <2>2, <2>3
<1>8. Run(g, q, d)
  BY <1>1, <1>2, <1>3, <1>5, <1>6, <1>7 DEF Run
<1> QED
  BY <1>6, <1>8 DEF n, q

\* The first code has been decoded.
LEMMA RunTail ==
  ASSUME NEW p \in Seq(ScanCode), NEW d \in Decoders, NEW f, Run(f, p, d), p # <<>>
  PROVE  \E g : /\ Run(g, Tail(p), Decoded(d, Head(p)))
                /\ \A i \in 0..Len(Tail(p)) : i + 1 \in 0..Len(p) /\ g[i] = f[i + 1]
                /\ Len(Tail(p)) + 1 = Len(p)
<1> DEFINE n == Len(p)
           q == Tail(p)
           g == [i \in 0..(n - 1) |-> f[i + 1]]
<1>1. n \in Nat /\ n > 0 /\ Len(q) = n - 1 /\ Head(p) = p[1] /\ \A i \in 1..(n - 1) : q[i] = p[i + 1]
  <2>1. n \in Nat /\ n > 0
    BY EmptySeq, LenProperties, SMT
  <2> QED
    BY <2>1, HeadTailProperties, SMT
<1>2. f \in [0..n -> Decoders] /\ f[0] = d /\ \A i \in 1..n : f[i] = Decoded(f[i - 1], p[i])
  BY DEF Run
<1> HIDE DEF n, q
<1>3. /\ 0 \in 0..(n - 1) /\ 1 \in 1..n /\ 0 + 1 = 1 /\ 1 - 1 = 0
      /\ \A i \in 0..(n - 1) : i + 1 \in 0..n
      /\ (n - 1) + 1 = n
  BY <1>1, SMT
<1>4. g \in [0..(n - 1) -> Decoders]
  BY <1>2, <1>3
<1>5. \A i \in 0..(n - 1) : g[i] = f[i + 1]
  OBVIOUS
<1> HIDE DEF g
<1>6. g[0] = Decoded(d, Head(p))
  BY <1>1, <1>2, <1>3, <1>5
<1>7. ASSUME NEW i \in 1..(n - 1) PROVE g[i] = Decoded(g[i - 1], q[i])
  <2>1. /\ i \in 0..(n - 1) /\ i - 1 \in 0..(n - 1) /\ i + 1 \in 1..n
        /\ (i - 1) + 1 = i /\ (i + 1) - 1 = i
    BY <1>1, SMT
  <2>2. g[i - 1] = f[i] /\ g[i] = f[i + 1]
    BY <1>5, <2>1
  <2> QED
    BY <1>1, <1>2, <2>1, <2>2
<1>8. Run(g, q, Decoded(d, Head(p)))
  BY <1>1, <1>4, <1>6, <1>7 DEF Run
<1> QED
  BY <1>1, <1>3, <1>5, <1>8 DEF n, q

-----------------------------------------------------------------------------
(* What the codes that are still to be read say.                           *)

\* f decodes n codes: none is half said, and in the end shift is as the
\* keyboard has it and what was meant has been returned.
Sound(f, n, fate, down, said) ==
  /\ fate \in {"ok", "pressed", "healed"} => f[n].released = FALSE
  /\ fate \in {"ok", "healed"} => f[n].shift = (down # {})
  /\ fate = "ok" => f[n].out = said /\ \A i \in 0..n : IsPrefix(f[i].out, said)

Agrees(p, d, fate, down, said) ==
  \E f : Run(f, p, d) /\ Sound(f, Len(p), fate, down, said)

Fates == {"ok", "lost", "pressed", "healed"}

LEMMA PrefixGrows ==
  ASSUME NEW S, NEW a \in Seq(S), NEW b \in Seq(S), NEW x \in S
  PROVE  /\ IsPrefix(a, b) => IsPrefix(a, Append(b, x))
         /\ IsPrefix(a, a)
<1>1. IsPrefix(a, a)
  BY SMT DEF IsPrefix
<1>2. ASSUME IsPrefix(a, b) PROVE IsPrefix(a, Append(b, x))
  <2>1. Len(a) \in Nat /\ Len(b) \in Nat /\ Len(a) <= Len(b)
    BY <1>2, LenProperties DEF IsPrefix
  <2>2. /\ Len(Append(b, x)) = Len(b) + 1
        /\ \A i \in 1..Len(a) : Append(b, x)[i] = b[i]
    BY <2>1, AppendProperties, SMT
  <2>3. SubSeq(Append(b, x), 1, Len(a)) = SubSeq(b, 1, Len(a))
    BY <2>1, <2>2, SMT
  <2> QED
    BY <1>2, <2>1, <2>2, <2>3, SMT DEF IsPrefix
<1> QED
  BY <1>1, <1>2

\* What a loss leaves says nothing, but can be decoded.
LEMMA LossAgrees ==
  ASSUME NEW p \in Seq(ScanCode), NEW d \in Decoders, NEW down, NEW said
  PROVE  Agrees(p, d, "lost", down, said)
<1>1. PICK f : Run(f, p, d)
  BY RunExists
<1>2. Sound(f, Len(p), "lost", down, said)
  BY DEF Sound
<1> QED
  BY <1>1, <1>2 DEF Agrees

LEMMA DecodedAgrees ==
  ASSUME NEW p \in Seq(ScanCode), NEW d \in Decoders, NEW fate, NEW down, NEW said,
         Agrees(p, d, fate, down, said), p # <<>>
  PROVE  Agrees(Tail(p), Decoded(d, Head(p)), fate, down, said)
<1>1. PICK f : Run(f, p, d) /\ Sound(f, Len(p), fate, down, said)
  BY DEF Agrees
<1>2. PICK g : /\ Run(g, Tail(p), Decoded(d, Head(p)))
               /\ \A i \in 0..Len(Tail(p)) : i + 1 \in 0..Len(p) /\ g[i] = f[i + 1]
               /\ Len(Tail(p)) + 1 = Len(p)
  BY <1>1, RunTail
<1>3. Len(Tail(p)) \in 0..Len(Tail(p))
  <2>1. Tail(p) \in Seq(ScanCode)
    BY HeadTailProperties
  <2>2. Len(Tail(p)) \in Nat
    BY <2>1, LenProperties
  <2> QED
    BY <2>2, SMT
<1>4. g[Len(Tail(p))] = f[Len(p)]
  BY <1>2, <1>3
<1>5. Sound(g, Len(Tail(p)), fate, down, said)
  BY <1>1, <1>2, <1>4 DEF Sound
<1> QED
  BY <1>2, <1>5 DEF Agrees

\* The keys are told apart.
LEMMA KeysDiffer ==
  /\ \A k \in Key \cup Mute \cup Shift : k # Released
  /\ \A k \in Key : k \notin Mute
  /\ \A k \in Shift : k \notin Key /\ k \notin Mute
  /\ ScanCode = Key \cup Mute \cup Shift \cup {Released}
BY KeyboardAssumption DEF KeyboardAssumption, Released, ScanCode

\* A key goes down.
LEMMA PressAgrees ==
  ASSUME NEW p \in Seq(ScanCode), NEW d \in Decoders, NEW fate, NEW down,
         NEW said \in Seq(Key \X BOOLEAN), Agrees(p, d, fate, down, said),
         NEW k \in Key \cup Mute \cup Shift,
         NEW fate2, fate2 = fate \/ fate2 = "pressed"
  PROVE  Agrees(Append(p, k), d, fate2, IF k \in Shift THEN {k} ELSE down,
                IF k \in Key THEN Append(said, <<k, down # {}>>) ELSE said)
<1> DEFINE n == Len(p)
           down2 == IF k \in Shift THEN {k} ELSE down
           said2 == IF k \in Key THEN Append(said, <<k, down # {}>>) ELSE said
<1>1. PICK f : Run(f, p, d) /\ Sound(f, n, fate, down, said)
  BY DEF Agrees
<1>2. k \in ScanCode /\ k # Released /\ (k \in Shift => k \notin Key /\ k \notin Mute)
      /\ (k \in Key => k \notin Mute) /\ (k \notin Shift /\ k \notin Key => k \in Mute)
  BY KeysDiffer
<1>3. PICK g : /\ Run(g, Append(p, k), d)
               /\ \A i \in 0..n : g[i] = f[i]
               /\ g[n + 1] = Decoded(f[n], k)
  BY <1>1, <1>2, RunExtends
<1>4. n \in Nat /\ Len(Append(p, k)) = n + 1
  BY LenProperties, AppendProperties
<1> DEFINE z == f[n]
<1> HIDE DEF n, z
<1>5. /\ z \in Decoders
      /\ z.shift \in BOOLEAN /\ z.released \in BOOLEAN /\ z.out \in Seq(Key \X BOOLEAN)
  <2>1. n \in 0..n
    BY <1>4, SMT
  <2>2. z \in Decoders
    BY <1>1, <2>1 DEF Run, z, n
  <2> QED
    BY <2>2, DecoderType
<1>6. /\ g[n + 1] = Decoded(z, k)
      /\ g[n + 1].released = FALSE
      /\ g[n + 1].shift = IF k \in Shift THEN ~z.released ELSE z.shift
      /\ g[n + 1].out = IF k \in Key /\ ~z.released THEN Append(z.out, <<k, z.shift>>) ELSE z.out
  <2>1. g[n + 1] = Decoded(z, k)
    BY <1>3 DEF z
  <2>2. CASE k \in Shift
    <3>1. Decoded(z, k) = Decoder(~z.released, FALSE, z.out)
      BY <1>2, <2>2 DEF Decoded
    <3> QED
      BY <1>2, <2>1, <2>2, <3>1 DEF Decoder
  <2>3. CASE k \notin Shift
    <3>1. Decoded(z, k) = Decoder(z.shift, FALSE,
               IF z.released \/ k \in Mute THEN z.out ELSE Append(z.out, <<k, z.shift>>))
      BY <1>2, <2>3 DEF Decoded
    <3> QED
      BY <1>2, <2>1, <2>3, <3>1 DEF Decoder
  <2> QED
    BY <2>2, <2>3
<1>7. /\ fate \in {"ok", "pressed", "healed"} => z.released = FALSE
      /\ fate \in {"ok", "healed"} => z.shift = (down # {})
      /\ fate = "ok" => z.out = said /\ \A i \in 0..n : IsPrefix(f[i].out, said)
  BY <1>1 DEF Sound, z
<1>8. ASSUME fate2 \in {"ok", "healed"} PROVE g[n + 1].shift = (down2 # {})
  <2>1. fate = fate2
    BY <1>8
  <2>2. CASE k \in Shift
    <3>1. down2 # {}
      BY <2>2
    <3> QED
      BY <1>6, <1>7, <1>8, <2>1, <2>2, <3>1
  <2>3. CASE k \notin Shift
    BY <1>6, <1>7, <1>8, <2>1, <2>3
  <2> QED
    BY <2>2, <2>3
<1>9. ASSUME fate2 = "ok" PROVE g[n + 1].out = said2 /\ \A i \in 0..(n + 1) : IsPrefix(g[i].out, said2)
  <2>1. fate = "ok"
    BY <1>9
  <2>2. g[n + 1].out = said2
    <3>1. z.released = FALSE /\ z.shift = (down # {}) /\ z.out = said
      BY <1>7, <2>1
    <3> QED
      BY <1>6, <3>1
  <2>3. said2 \in Seq(Key \X BOOLEAN) /\ IsPrefix(said2, said2)
        /\ \A a \in Seq(Key \X BOOLEAN) : IsPrefix(a, said) => IsPrefix(a, said2)
    <3>1. CASE k \in Key
      <4>1. <<k, down # {}>> \in Key \X BOOLEAN
        BY <3>1
      <4> DEFINE x == <<k, down # {}>>
      <4>2. x \in Key \X BOOLEAN /\ said2 = Append(said, x)
        BY <3>1, <4>1
      <4> HIDE DEF x, said2
      <4>3. said2 \in Seq(Key \X BOOLEAN)
        BY <4>2, AppendProperties
      <4>4. IsPrefix(said2, said2)
        BY <4>2, <4>3, PrefixGrows
      <4>5. \A a \in Seq(Key \X BOOLEAN) : IsPrefix(a, said) => IsPrefix(a, said2)
        BY <4>2, PrefixGrows
      <4> QED
        BY <4>3, <4>4, <4>5
    <3>2. CASE k \notin Key
      <4>1. said2 = said
        BY <3>2
      <4> HIDE DEF said2
      <4>2. IsPrefix(said, said)
        BY SMT DEF IsPrefix
      <4> QED
        BY <4>1, <4>2
    <3> QED
      BY <3>1, <3>2
  <2>4. ASSUME NEW i \in 0..(n + 1) PROVE IsPrefix(g[i].out, said2)
    <3>1. CASE i = n + 1
      BY <2>2, <2>3, <3>1
    <3>2. CASE i # n + 1
      <4>1. i \in 0..n
        BY <1>4, <3>2, SMT
      <4>2. g[i] = f[i] /\ f[i] \in Decoders
        BY <1>1, <1>3, <4>1 DEF Run, n
      <4>3. f[i].out \in Seq(Key \X BOOLEAN) /\ IsPrefix(f[i].out, said)
        BY <1>7, <2>1, <4>1, <4>2, DecoderType
      <4> QED
        BY <2>3, <4>2, <4>3
    <3> QED
      BY <3>1, <3>2
  <2> QED
    BY <2>2, <2>4
<1> HIDE DEF down2, said2
<1>10. Sound(g, n + 1, fate2, down2, said2)
  BY <1>6, <1>8, <1>9 DEF Sound
<1>11. Agrees(Append(p, k), d, fate2, down2, said2)
  BY <1>3, <1>4, <1>10 DEF Agrees
<1> QED
  BY <1>11 DEF down2, said2

\* A key goes up.
LEMMA ReleaseAgrees ==
  ASSUME NEW p \in Seq(ScanCode), NEW d \in Decoders, NEW fate, NEW down,
         NEW said \in Seq(Key \X BOOLEAN), Agrees(p, d, fate, down, said),
         NEW k \in Key \cup Mute \cup Shift,
         down \subseteq Shift, \A a, b \in down : a = b, k \in Shift => k \in down,
         NEW fate2, fate2 = fate \/ (fate = "pressed" /\ k \in Shift /\ fate2 = "healed")
  PROVE  Agrees(Append(Append(p, Released), k), d, fate2, down \ {k}, said)
<1> DEFINE n == Len(p)
           q == Append(p, Released)
           down2 == down \ {k}
<1>1. PICK f : Run(f, p, d) /\ Sound(f, n, fate, down, said)
  BY DEF Agrees
<1>2. /\ k \in ScanCode /\ Released \in ScanCode /\ k # Released
      /\ (k \in Shift => k \notin Key /\ k \notin Mute)
  BY KeysDiffer
<1>3. /\ q \in Seq(ScanCode) /\ n \in Nat /\ Len(q) = n + 1
      /\ Len(Append(q, k)) = (n + 1) + 1
  <2>1. q \in Seq(ScanCode) /\ n \in Nat /\ Len(q) = n + 1
    BY <1>2, LenProperties, AppendProperties
  <2> HIDE DEF q, n
  <2>2. Len(Append(q, k)) = Len(q) + 1
    BY <1>2, <2>1, AppendProperties
  <2> QED
    BY <2>1, <2>2
<1>4. PICK e : /\ Run(e, q, d)
               /\ \A i \in 0..n : e[i] = f[i]
               /\ e[n + 1] = Decoded(f[n], Released)
  BY <1>1, <1>2, RunExtends
<1> HIDE DEF q
<1>5. PICK g : /\ Run(g, Append(q, k), d)
               /\ \A i \in 0..Len(q) : g[i] = e[i]
               /\ g[Len(q) + 1] = Decoded(e[Len(q)], k)
  BY <1>2, <1>3, <1>4, RunExtends
<1> DEFINE z == f[n]
<1> HIDE DEF n, z
<1>6. /\ z.shift \in BOOLEAN /\ z.released \in BOOLEAN /\ z.out \in Seq(Key \X BOOLEAN)
      /\ \A i \in 0..n : f[i] \in Decoders
  <2>1. n \in 0..n
    BY <1>3, SMT
  <2>2. \A i \in 0..n : f[i] \in Decoders
    BY <1>1 DEF Run, n
  <2> QED
    BY <2>1, <2>2, DecoderType DEF z
<1>7. e[n + 1] = Decoder(z.shift, TRUE, z.out)
  BY <1>4 DEF z, Decoded
<1>8. /\ g[(n + 1) + 1] = Decoded(Decoder(z.shift, TRUE, z.out), k)
      /\ g[n + 1] = Decoder(z.shift, TRUE, z.out)
      /\ \A i \in 0..n : g[i] = f[i]
  <2>1. n + 1 \in 0..(n + 1) /\ \A i \in 0..n : i \in 0..(n + 1)
    BY <1>3, SMT
  <2> QED
    BY <1>3, <1>4, <1>5, <1>7, <2>1
<1>9. /\ g[(n + 1) + 1].released = FALSE
      /\ g[(n + 1) + 1].shift = IF k \in Shift THEN FALSE ELSE z.shift
      /\ g[(n + 1) + 1].out = z.out
      /\ g[n + 1].out = z.out
  <2> DEFINE m == Decoder(z.shift, TRUE, z.out)
  <2>1. m.shift = z.shift /\ m.released = TRUE /\ m.out = z.out
    BY DEF Decoder
  <2> HIDE DEF m
  <2>2. CASE k \in Shift
    <3>1. Decoded(m, k) = Decoder(FALSE, FALSE, z.out)
      BY <1>2, <2>1, <2>2 DEF Decoded
    <3>2. g[(n + 1) + 1] = Decoder(FALSE, FALSE, z.out) /\ g[n + 1].out = z.out
      <4>1. g[(n + 1) + 1] = Decoded(m, k) /\ g[n + 1] = m
        BY <1>8 DEF m
      <4> QED
        BY <2>1, <3>1, <4>1
    <3>3. /\ g[(n + 1) + 1].released = FALSE
          /\ g[(n + 1) + 1].shift = FALSE
          /\ g[(n + 1) + 1].out = z.out
      <4> DEFINE o == z.out
                 v == g[(n + 1) + 1]
      <4>1. v = Decoder(FALSE, FALSE, o)
        BY <3>2
      <4> HIDE DEF o, v
      <4>2. v.released = FALSE /\ v.shift = FALSE /\ v.out = o
        BY <4>1 DEF Decoder
      <4> QED
        BY <4>2 DEF o, v
    <3> QED
      BY <2>2, <3>2, <3>3
  <2>3. CASE k \notin Shift
    <3>1. Decoded(m, k) = Decoder(z.shift, FALSE, z.out)
      BY <1>2, <2>1, <2>3 DEF Decoded
    <3> QED
      BY <1>8, <2>1, <2>3, <3>1 DEF m, Decoder
  <2> QED
    BY <2>2, <2>3
<1>10. /\ fate \in {"ok", "pressed", "healed"} => z.released = FALSE
       /\ fate \in {"ok", "healed"} => z.shift = (down # {})
       /\ fate = "ok" => z.out = said /\ \A i \in 0..n : IsPrefix(f[i].out, said)
  BY <1>1 DEF Sound, z
<1>11. ASSUME fate2 \in {"ok", "healed"} PROVE g[(n + 1) + 1].shift = (down2 # {})
  <2>1. CASE k \in Shift
    <3>1. down2 = {}
      BY <2>1
    <3> QED
      BY <1>9, <2>1, <3>1
  <2>2. CASE k \notin Shift
    <3>1. down2 = down /\ fate = fate2
      BY <2>2
    <3> QED
      BY <1>9, <1>10, <1>11, <2>2, <3>1
  <2> QED
    BY <2>1, <2>2
<1>12. ASSUME fate2 = "ok", fate = fate2 
       PROVE /\ g[(n + 1) + 1].out = said
             /\ \A i \in 0..((n + 1) + 1) : IsPrefix(g[i].out, said)
  <2>1. z.out = said /\ IsPrefix(said, said)
    <3>1. IsPrefix(said, said)
      BY SMT DEF IsPrefix
    <3> QED
      BY <1>10, <1>12, <3>1
  <2>2. ASSUME NEW i \in 0..((n + 1) + 1) PROVE IsPrefix(g[i].out, said)
    <3>1. i \in 0..n \/ i = n + 1 \/ i = (n + 1) + 1
      BY <1>3, SMT
    <3> QED
      BY <1>8, <1>9, <1>10, <1>12, <2>1, <3>1
  <2> QED
    BY <1>9, <2>1, <2>2
<1>13. CASE fate2 = "ok" => fate = fate2
  <2>1. Sound(g, (n + 1) + 1, fate2, down2, said)
    BY <1>9, <1>11, <1>12, <1>13 DEF Sound
  <2>2. Agrees(Append(q, k), d, fate2, down2, said)
    BY <1>3, <1>5, <2>1 DEF Agrees
  <2> QED
    BY <2>2 DEF q
<1>14. fate2 = fate \/ fate2 = "healed"
  OBVIOUS
<1> QED
  BY <1>13, <1>14

-----------------------------------------------------------------------------
(* The bytes on their way, through the USART and the ring.                 *)

\* A byte moves from one queue to the next.
LEMMA MovesOn ==
  ASSUME NEW S, NEW a \in Seq(S), NEW b \in Seq(S), b # <<>>
  PROVE  /\ Head(b) \in S /\ Tail(b) \in Seq(S)
         /\ Append(a, Head(b)) \in Seq(S)
         /\ Append(a, Head(b)) \o Tail(b) = a \o b
<1>1. Len(b) \in Nat /\ Len(b) > 0
  BY EmptySeq, LenProperties, SMT
<1>2. /\ Head(b) = b[1] /\ Tail(b) \in Seq(S) /\ Len(Tail(b)) = Len(b) - 1 /\ b[1] \in S
      /\ \A i \in 1..(Len(b) - 1) : Tail(b)[i] = b[i + 1]
  BY <1>1, HeadTailProperties, ElementOfSeq, SMT
<1>3. /\ Append(a, b[1]) \in Seq(S) /\ Len(Append(a, b[1])) = Len(a) + 1
      /\ Append(a, b[1])[Len(a) + 1] = b[1]
      /\ \A i \in 1..Len(a) : Append(a, b[1])[i] = a[i]
  BY <1>2, AppendProperties
<1> DEFINE x == Append(a, b[1])
           y == Tail(b)
<1>4. Len(a) \in Nat /\ Len(x) = Len(a) + 1 /\ Len(y) = Len(b) - 1
  BY <1>2, <1>3, LenProperties
<1> HIDE DEF x, y
<1>5. /\ x \in Seq(S) /\ y \in Seq(S)
  BY <1>2, <1>3 DEF x, y
<1>6. /\ x \o y \in Seq(S) /\ a \o b \in Seq(S)
      /\ Len(x \o y) = Len(x) + Len(y) /\ Len(a \o b) = Len(a) + Len(b)
      /\ \A i \in 1..(Len(x) + Len(y)) : (x \o y)[i] = IF i <= Len(x) THEN x[i] ELSE y[i - Len(x)]
      /\ \A i \in 1..(Len(a) + Len(b)) : (a \o b)[i] = IF i <= Len(a) THEN a[i] ELSE b[i - Len(a)]
  BY <1>5, ConcatProperties
<1>7. Len(x \o y) = Len(a \o b)
  BY <1>1, <1>4, <1>6, SMT
<1>8. ASSUME NEW i \in 1..Len(a \o b) PROVE (x \o y)[i] = (a \o b)[i]
  <2>1. i \in 1..(Len(a) + Len(b)) /\ i \in 1..(Len(x) + Len(y))
    BY <1>6, <1>7
  <2>2. /\ (x \o y)[i] = IF i <= Len(x) THEN x[i] ELSE y[i - Len(x)]
        /\ (a \o b)[i] = IF i <= Len(a) THEN a[i] ELSE b[i - Len(a)]
    BY <1>6, <2>1
  <2>3. CASE i <= Len(a)
    <3>1. i <= Len(x) /\ i \in 1..Len(a)
      BY <1>4, <2>1, <2>3, SMT
    <3> QED
      BY <1>3, <2>2, <2>3, <3>1 DEF x
  <2>4. CASE i = Len(a) + 1
    <3>1. i <= Len(x) /\ ~(i <= Len(a)) /\ i - Len(a) = 1
      BY <1>4, <2>4, SMT
    <3> QED
      BY <1>3, <2>2, <2>4, <3>1 DEF x
  <2>5. CASE i > Len(a) + 1
    <3>1. /\ ~(i <= Len(x)) /\ ~(i <= Len(a)) /\ i - Len(x) \in 1..(Len(b) - 1)
          /\ (i - Len(x)) + 1 = i - Len(a)
      BY <1>1, <1>4, <2>1, <2>5, SMT
    <3> QED
      BY <1>2, <2>2, <3>1 DEF y
  <2> QED
    BY <1>4, <2>1, <2>3, <2>4, <2>5, SMT
<1>9. x \o y = a \o b
  BY <1>6, <1>7, <1>8, SeqEqual
<1> QED
  BY <1>2, <1>3, <1>9 DEF x, y

\* Which two of three queues are joined first does not matter.
LEMMA Joined ==
  \A a, b, c \in Seq(ScanCode) : (a \o b) \o c = a \o (b \o c)
BY ConcatAssociative

\* keyboard_poll moves a byte from the USART to the ring.
LEMMA PollMoves ==
  ASSUME NEW r \in Rings(ScanCode), NEW q \in Seq(ScanCode), NEW w \in Seq(ScanCode),
         q # <<>>
  PROVE  /\ Stored(r, Head(q)) \in Rings(ScanCode) /\ Tail(q) \in Seq(ScanCode)
         /\ ~AinFull(r) =>
              Contents(Stored(r, Head(q))) \o (Tail(q) \o w) = Contents(r) \o (q \o w)
<1>1. Contents(r) \in Seq(ScanCode)
  BY ContentsIsSeq
<1>2. /\ Head(q) \in ScanCode /\ Tail(q) \in Seq(ScanCode)
      /\ Append(Contents(r), Head(q)) \in Seq(ScanCode)
      /\ Append(Contents(r), Head(q)) \o Tail(q) = Contents(r) \o q
  BY <1>1, MovesOn
<1>3. /\ Stored(r, Head(q)) \in Rings(ScanCode)
      /\ ~AinFull(r) => Contents(Stored(r, Head(q))) = Append(Contents(r), Head(q))
  BY <1>2, StoredIsAppend
<1>4. Append(Contents(r), Head(q)) \o (Tail(q) \o w) = (Append(Contents(r), Head(q)) \o Tail(q)) \o w
  BY <1>2, Joined, Zenon
<1>5. (Contents(r) \o q) \o w = Contents(r) \o (q \o w)
  BY <1>1, Joined, Zenon
<1> QED
  BY <1>2, <1>3, <1>4, <1>5

\* keyboard_scancode takes the first byte that is on its way.
LEMMA TakesFirst ==
  ASSUME NEW r \in Rings(ScanCode), NEW w \in Seq(ScanCode), AinReady(r)
  PROVE  /\ Taken(r) \in Rings(ScanCode) /\ Oldest(r) \in ScanCode
         /\ Contents(r) \o w # <<>>
         /\ Head(Contents(r) \o w) = Oldest(r)
         /\ Tail(Contents(r) \o w) = Contents(Taken(r)) \o w
<1> DEFINE c == Contents(r)
<1>1. /\ Taken(r) \in Rings(ScanCode) /\ c # <<>> /\ Oldest(r) = c[1] /\ Oldest(r) \in ScanCode
      /\ Contents(Taken(r)) = Tail(c)
  BY TakenIsTail
<1>2. c \in Seq(ScanCode)
  BY ContentsIsSeq
<1> HIDE DEF c
<1>3. /\ c \o w # <<>> /\ Head(c \o w) = Head(c) /\ Tail(c \o w) = Tail(c) \o w
  BY <1>1, <1>2, ConcatEmptySeq, ConcatSimplifications, ConcatProperties, SMT
<1>4. Head(c) = c[1]
  BY <1>1, <1>2, HeadTailProperties
<1> QED
  BY <1>1, <1>3, <1>4 DEF c

-----------------------------------------------------------------------------
(* The invariant.                                                          *)

\* What is on its way to keyboard_asc, and the state it is in.
Queued(r, q, w) == Contents(r) \o (q \o w)
Pending == Queued(ring, fifo, wire)
Now == Decoder(keyb_shift, keyb_released, typed)

KeysType ==
  /\ wire \in Seq(ScanCode) /\ fifo \in Seq(ScanCode) /\ ring \in Rings(ScanCode)
  /\ keyb_shift \in BOOLEAN /\ keyb_released \in BOOLEAN
  /\ typed \in Seq(Key \X BOOLEAN) /\ meant \in Seq(Key \X BOOLEAN)
  /\ held \subseteq Shift /\ (\A a, b \in held : a = b)
  /\ health \in Fates

KInv == KeysType /\ Agrees(Pending, Now, health, held, meant)

LEMMA PendingType ==
  ASSUME KeysType
  PROVE  /\ Contents(ring) \in Seq(ScanCode) /\ fifo \o wire \in Seq(ScanCode)
         /\ Pending \in Seq(ScanCode) /\ Now \in Decoders
<1>1. Contents(ring) \in Seq(ScanCode) /\ fifo \o wire \in Seq(ScanCode)
  BY ContentsIsSeq, ConcatProperties DEF KeysType
<1>2. Now \in Decoders
  BY DecoderType DEF KeysType, Now
<1> QED
  BY <1>1, <1>2, ConcatProperties DEF Pending, Queued

\* What is sent comes after all that is on its way.
LEMMA SentLast ==
  ASSUME NEW r \in Rings(ScanCode), NEW q \in Seq(ScanCode), NEW w \in Seq(ScanCode),
         NEW z \in Seq(ScanCode)
  PROVE  Queued(r, q, w \o z) = Queued(r, q, w) \o z
<1>1. Contents(r) \in Seq(ScanCode) /\ q \o w \in Seq(ScanCode)
  BY ContentsIsSeq, ConcatProperties
<1>2. q \o (w \o z) = (q \o w) \o z
  BY Joined, Zenon
<1>3. Contents(r) \o ((q \o w) \o z) = (Contents(r) \o (q \o w)) \o z
  <2> DEFINE c == Contents(r)
             u == q \o w
  <2>1. c \in Seq(ScanCode) /\ u \in Seq(ScanCode)
    BY <1>1
  <2> HIDE DEF c, u
  <2>2. (c \o u) \o z = c \o (u \o z)
    BY <2>1, Joined, SMTT(30)
  <2> QED
    BY <2>2 DEF c, u
<1> QED
  BY <1>2, <1>3 DEF Queued

LEMMA OneOrTwo ==
  ASSUME NEW S, NEW a \in Seq(S), NEW x \in S, NEW y \in S
  PROVE  /\ Append(a, x) = a \o <<x>> /\ Append(Append(a, x), y) = a \o <<x, y>>
         /\ <<x>> \in Seq(S) /\ <<x, y>> \in Seq(S)
BY IsASeq, SMT

LEMMA SendsLast ==
  ASSUME KeysType, NEW x \in ScanCode, NEW y \in ScanCode
  PROVE  /\ Queued(ring, fifo, Append(wire, x)) = Append(Pending, x)
         /\ Queued(ring, fifo, wire \o <<x, y>>) = Append(Append(Pending, x), y)
<1>1. ring \in Rings(ScanCode) /\ fifo \in Seq(ScanCode) /\ wire \in Seq(ScanCode)
  BY DEF KeysType
<1>2. <<x>> \in Seq(ScanCode) /\ <<x, y>> \in Seq(ScanCode)
  BY OneOrTwo
<1>3. \A z \in Seq(ScanCode) : Queued(ring, fifo, wire \o z) = Queued(ring, fifo, wire) \o z
  BY <1>1, SentLast, Zenon
<1>4. Append(wire, x) = wire \o <<x>>
  BY <1>1, OneOrTwo
<1>5. Pending \in Seq(ScanCode) /\ Pending = Queued(ring, fifo, wire)
  BY PendingType DEF Pending
<1> HIDE DEF Pending
<1>6. Append(Pending, x) = Pending \o <<x>> /\ Append(Append(Pending, x), y) = Pending \o <<x, y>>
  BY <1>5, OneOrTwo
<1> QED
  BY <1>2, <1>3, <1>4, <1>5, <1>6

LEMMA KeysStart == KeyInit => KInv
<1> SUFFICES ASSUME KeyInit PROVE KInv
  OBVIOUS
<1>1. KeysType
  <2>1. Released \in ScanCode /\ 0 \in Slots
    BY RingAssumption, SMT DEF RingAssumption, ScanCode, Slots
  <2>2. [k \in Slots |-> Released] \in [Slots -> ScanCode]
    BY <2>1
  <2>3. ring = [buf |-> [k \in Slots |-> Released], start |-> 0, end |-> 0]
    BY DEF KeyInit
  <2>4. ring \in Rings(ScanCode)
    BY <2>1, <2>2, <2>3, RingFields
  <2> QED
    BY <2>4, EmptySeq DEF KeyInit, KeysType, Fates
<1>2. Pending = <<>>
  <2>1. ring.start = 0 /\ ring.end = 0
    BY DEF KeyInit
  <2>2. ~AinReady(ring) /\ RingLen(ring) \in 0..(BufSize - 1)
        /\ (AinReady(ring) <=> RingLen(ring) > 0)
    BY <1>1, <2>1, RingLength DEF KeysType, AinReady
  <2>3. RingLen(ring) = 0
    BY <2>2, RingAssumption, SMT DEF RingAssumption
  <2>4. Contents(ring) = <<>>
    BY <1>1, <2>3, ContentsIsSeq, EmptySeq DEF KeysType
  <2>5. fifo = <<>> /\ wire = <<>>
    BY DEF KeyInit
  <2> QED
    BY <2>4, <2>5, <1>1, ConcatEmptySeq DEF Pending, Queued, KeysType
<1>3. PICK f : Run(f, Pending, Now)
  BY <1>1, PendingType, RunExists
<1>4. f[0] = Now /\ Len(Pending) = 0
  BY <1>2, <1>3, EmptySeq DEF Run
<1>5. keyb_shift = FALSE /\ keyb_released = FALSE /\ typed = <<>> /\ held = {} /\ meant = <<>> /\ health = "ok"
  BY DEF KeyInit
<1>6. Now.shift = keyb_shift /\ Now.released = keyb_released /\ Now.out = typed
  BY DEF Now, Decoder
<1>7. IsPrefix(meant, meant)
  BY <1>1, SMT DEF IsPrefix, KeysType
<1>8. \A i \in 0..Len(Pending) : i = 0
  BY <1>4, SMT
<1>9. Sound(f, Len(Pending), health, held, meant)
  <2>1. held = {} /\ (held # {}) = FALSE
    BY <1>5
  <2> QED
    BY <1>4, <1>5, <1>6, <1>7, <1>8, <2>1 DEF Sound
<1> QED
  BY <1>1, <1>3, <1>9 DEF KInv, Agrees

\* What keyboard_poll leaves.
LEMMA Polling ==
  ASSUME KInv
  PROVE  /\ Polled \in Rings(ScanCode) /\ FifoPolled \in Seq(ScanCode)
         /\ HealthPolled \in Fates
         /\ Agrees(Contents(Polled) \o (FifoPolled \o wire), Now, HealthPolled, held, meant)
<1>1. KeysType /\ Pending \in Seq(ScanCode) /\ Now \in Decoders
  BY PendingType DEF KInv
<1>2. CASE fifo = <<>>
  <2>1. Polled = ring /\ FifoPolled = fifo /\ HealthPolled = health
    BY <1>2 DEF Polled, FifoPolled, HealthPolled
  <2> QED
    BY <1>1, <2>1 DEF KInv, KeysType, Pending, Queued
<1>3. CASE fifo # <<>>
  <2>1. /\ Polled = Stored(ring, Head(fifo)) /\ FifoPolled = Tail(fifo)
        /\ HealthPolled = IF AinFull(ring) THEN "lost" ELSE health
    BY <1>3 DEF Polled, FifoPolled, HealthPolled
  <2>2. /\ Polled \in Rings(ScanCode) /\ FifoPolled \in Seq(ScanCode)
        /\ ~AinFull(ring) => Contents(Polled) \o (FifoPolled \o wire) = Pending
    BY <1>1, <1>3, <2>1, PollMoves DEF KeysType, Pending, Queued
  <2>3. Contents(Polled) \o (FifoPolled \o wire) \in Seq(ScanCode)
    BY <1>1, <2>2, ContentsIsSeq, ConcatProperties DEF KeysType
  <2>4. CASE AinFull(ring)
    BY <1>1, <2>1, <2>2, <2>3, <2>4, LossAgrees DEF Fates
  <2>5. CASE ~AinFull(ring)
    BY <1>1, <2>1, <2>2, <2>5 DEF KInv, KeysType
  <2> QED
    BY <2>2, <2>4, <2>5
<1> QED
  BY <1>2, <1>3

LEMMA PressKeeps ==
  ASSUME KInv, NEW k \in Key \cup Mute \cup Shift, Press(k)
  PROVE  KInv'
<1>1. /\ wire' = Append(wire, k) /\ fifo' = fifo /\ ring' = ring
      /\ meant' = IF k \in Key THEN Append(meant, <<k, held # {}>>) ELSE meant
      /\ held' = IF k \in Shift THEN {k} ELSE held
      /\ health' = health \/ health' = "pressed"
      /\ keyb_shift' = keyb_shift /\ keyb_released' = keyb_released /\ typed' = typed
  BY DEF Press, decoder
<1>2. KeysType /\ k \in ScanCode
  BY DEF KInv, ScanCode
<1>3. KeysType'
  <2>1. wire' \in Seq(ScanCode)
    BY <1>1, <1>2, AppendProperties DEF KeysType
  <2>2. meant' \in Seq(Key \X BOOLEAN)
    <3>1. CASE k \in Key
      <4> DEFINE x == <<k, held # {}>>
      <4>1. x \in Key \X BOOLEAN /\ meant' = Append(meant, x)
        BY <1>1, <3>1
      <4> HIDE DEF x
      <4> QED
        BY <1>2, <4>1, AppendProperties DEF KeysType
    <3>2. CASE k \notin Key
      BY <1>1, <1>2, <3>2 DEF KeysType
    <3> QED
      BY <3>1, <3>2
  <2>3. held' \subseteq Shift /\ \A a, b \in held' : a = b
    BY <1>1, <1>2 DEF KeysType
  <2>4. health' \in Fates
    BY <1>1, <1>2 DEF KeysType, Fates
  <2> QED
    BY <1>1, <1>2, <2>1, <2>2, <2>3, <2>4 DEF KeysType
<1>4. Pending' = Append(Pending, k) /\ Now' = Now
  <2>1. Pending' = Queued(ring, fifo, Append(wire, k))
    BY <1>1 DEF Pending
  <2> QED
    BY <1>1, <1>2, <2>1, SendsLast DEF Now
<1>5. /\ Pending \in Seq(ScanCode) /\ Now \in Decoders /\ meant \in Seq(Key \X BOOLEAN)
      /\ Agrees(Pending, Now, health, held, meant)
  BY <1>2, PendingType DEF KInv, KeysType
<1> HIDE DEF Pending, Now
<1>6. Agrees(Append(Pending, k), Now, health', IF k \in Shift THEN {k} ELSE held,
             IF k \in Key THEN Append(meant, <<k, held # {}>>) ELSE meant)
  BY <1>1, <1>5, PressAgrees
<1>7. Agrees(Pending', Now', health', held', meant')
  BY <1>1, <1>4, <1>6
<1> QED
  BY <1>3, <1>7 DEF KInv

LEMMA ReleaseKeeps ==
  ASSUME KInv, NEW k \in Key \cup Mute \cup Shift, Release(k)
  PROVE  KInv'
<1>1. /\ wire' = wire \o <<Released, k>> /\ fifo' = fifo /\ ring' = ring
      /\ meant' = meant /\ held' = held \ {k} /\ (k \in Shift => k \in held)
      /\ health' = health \/ (health = "pressed" /\ k \in Shift /\ health' = "healed")
      /\ keyb_shift' = keyb_shift /\ keyb_released' = keyb_released /\ typed' = typed
  BY DEF Release, decoder
<1>2. KeysType /\ k \in ScanCode /\ Released \in ScanCode
  BY DEF KInv, ScanCode
<1>3. wire' \in Seq(ScanCode)
  <2>1. <<Released, k>> \in Seq(ScanCode)
    BY <1>2, IsASeq
  <2> QED
    BY <1>1, <1>2, <2>1, ConcatProperties DEF KeysType
<1>4. KeysType'
  <2>1. held' \subseteq Shift /\ \A a, b \in held' : a = b
    BY <1>1, <1>2 DEF KeysType
  <2>2. health' \in Fates
    BY <1>1, <1>2 DEF KeysType, Fates
  <2> QED
    BY <1>1, <1>2, <1>3, <2>1, <2>2 DEF KeysType
<1>5. Pending' = Append(Append(Pending, Released), k) /\ Now' = Now
  <2>1. Pending' = Queued(ring, fifo, wire \o <<Released, k>>)
    BY <1>1 DEF Pending
  <2> QED
    BY <1>1, <1>2, <2>1, SendsLast DEF Now
<1>6. /\ Pending \in Seq(ScanCode) /\ Now \in Decoders /\ meant \in Seq(Key \X BOOLEAN)
      /\ Agrees(Pending, Now, health, held, meant)
      /\ held \subseteq Shift /\ \A a, b \in held : a = b
  BY <1>2, PendingType DEF KInv, KeysType
<1> HIDE DEF Pending, Now
<1>7. Agrees(Append(Append(Pending, Released), k), Now, health', held \ {k}, meant)
  BY <1>1, <1>6, ReleaseAgrees
<1>8. Agrees(Pending', Now', health', held', meant')
  BY <1>1, <1>5, <1>7
<1> QED
  BY <1>4, <1>8 DEF KInv

LEMMA ReceiveKeeps == ASSUME KInv, Receive PROVE KInv'
<1>1. /\ wire # <<>> /\ wire' = Tail(wire) /\ ring' = ring
      /\ \/ fifo' = Append(fifo, Head(wire)) /\ health' = health
         \/ fifo' = fifo /\ health' = "lost"
      /\ keyb_shift' = keyb_shift /\ keyb_released' = keyb_released /\ typed' = typed
      /\ meant' = meant /\ held' = held
  BY DEF Receive, decoder
<1>2. KeysType
  BY DEF KInv
<1>3. /\ Tail(wire) \in Seq(ScanCode) /\ Append(fifo, Head(wire)) \in Seq(ScanCode)
      /\ Append(fifo, Head(wire)) \o Tail(wire) = fifo \o wire
  BY <1>1, <1>2, MovesOn DEF KeysType
<1>4. KeysType'
  BY <1>1, <1>2, <1>3 DEF KeysType, Fates
<1>5. Now' = Now
  BY <1>1 DEF Now
<1>6. CASE fifo' = Append(fifo, Head(wire)) /\ health' = health
  <2>1. Pending' = Pending
    BY <1>1, <1>3, <1>6 DEF Pending, Queued
  <2> QED
    BY <1>1, <1>4, <1>5, <1>6, <2>1 DEF KInv
<1>7. CASE fifo' = fifo /\ health' = "lost"
  <2>1. Pending' \in Seq(ScanCode) /\ Now \in Decoders
    <3>1. Pending' = Contents(ring) \o (fifo \o Tail(wire))
      BY <1>1, <1>7 DEF Pending, Queued
    <3>2. fifo \o Tail(wire) \in Seq(ScanCode)
      BY <1>2, <1>3, ConcatProperties DEF KeysType
    <3> QED
      BY <1>2, <3>1, <3>2, PendingType, ConcatProperties
  <2>2. Agrees(Pending', Now, "lost", held, meant)
    BY <2>1, LossAgrees
  <2> QED
    BY <1>1, <1>4, <1>5, <1>7, <2>2 DEF KInv
<1> QED
  BY <1>1, <1>6, <1>7

LEMMA PollKeeps == ASSUME KInv, Poll PROVE KInv'
<1>1. /\ ring' = Polled /\ fifo' = FifoPolled /\ health' = HealthPolled
      /\ wire' = wire /\ held' = held /\ meant' = meant
      /\ keyb_shift' = keyb_shift /\ keyb_released' = keyb_released /\ typed' = typed
  BY DEF Poll, device, decoder
<1>2. KeysType'
  BY <1>1, Polling DEF KInv, KeysType
<1>3. Pending' = Contents(Polled) \o (FifoPolled \o wire) /\ Now' = Now
  BY <1>1 DEF Pending, Queued, Now
<1> QED
  BY <1>1, <1>2, <1>3, Polling DEF KInv

LEMMA FlushKeeps == ASSUME KInv, Flush PROVE KInv'
<1>1. /\ ring' = Flushed(ring) /\ fifo' = fifo
      /\ health' = IF AinReady(ring) THEN "lost" ELSE health
      /\ wire' = wire /\ held' = held /\ meant' = meant
      /\ keyb_shift' = keyb_shift /\ keyb_released' = keyb_released /\ typed' = typed
  BY DEF Flush, device, decoder
<1>2. KeysType
  BY DEF KInv
<1>3. ring' \in Rings(ScanCode) /\ Contents(ring') = <<>>
  BY <1>1, <1>2, FlushedIsEmpty DEF KeysType
<1>4. KeysType'
  BY <1>1, <1>2, <1>3 DEF KeysType, Fates
<1>5. Pending' = fifo \o wire /\ Now' = Now
  <2>1. Pending' = Contents(ring') \o (fifo \o wire)
    BY <1>1 DEF Pending, Queued
  <2> QED
    BY <1>1, <1>2, <1>3, <2>1, PendingType, ConcatEmptySeq DEF Now
<1>6. CASE AinReady(ring)
  <2>1. Agrees(fifo \o wire, Now, "lost", held, meant)
    BY <1>2, PendingType, LossAgrees
  <2> QED
    BY <1>1, <1>4, <1>5, <1>6, <2>1 DEF KInv
<1>7. CASE ~AinReady(ring)
  <2>1. RingLen(ring) = 0
    BY <1>2, <1>7, RingLength, RingAssumption, SMT DEF KeysType, RingAssumption
  <2>2. Contents(ring) = <<>>
    BY <1>2, <2>1, ContentsIsSeq, EmptySeq DEF KeysType
  <2>3. Pending = fifo \o wire
    BY <1>2, <2>2, PendingType, ConcatEmptySeq DEF Pending, Queued
  <2> QED
    BY <1>1, <1>4, <1>5, <1>7, <2>3 DEF KInv
<1> QED
  BY <1>6, <1>7

LEMMA AscStepKeeps == ASSUME KInv, AscStep PROVE KInv'
<1> DEFINE w == FifoPolled \o wire
<1>1. /\ fifo' = FifoPolled /\ health' = HealthPolled
      /\ wire' = wire /\ held' = held /\ meant' = meant
  BY DEF AscStep, device
<1>2. KeysType /\ Now \in Decoders
  BY PendingType DEF KInv
<1>3. /\ Polled \in Rings(ScanCode) /\ FifoPolled \in Seq(ScanCode)
      /\ HealthPolled \in Fates
      /\ Agrees(Contents(Polled) \o w, Now, HealthPolled, held, meant)
  BY Polling
<1>4. CASE ~AinReady(Polled)
  <2>1. ring' = Polled /\ typed' = typed /\ keyb_shift' = keyb_shift /\ keyb_released' = keyb_released
    BY <1>4 DEF AscStep, Answer
  <2>2. KeysType'
    BY <1>1, <1>2, <1>3, <2>1 DEF KeysType
  <2>3. Pending' = Contents(Polled) \o w /\ Now' = Now
    BY <1>1, <2>1 DEF Pending, Queued, Now
  <2> QED
    BY <1>1, <1>3, <2>2, <2>3 DEF KInv
<1>5. CASE AinReady(Polled)
  <2> DEFINE sc == Oldest(Polled)
  <2>1. /\ ring' = Taken(Polled)
        /\ \/ /\ sc = Released
              /\ keyb_released' = TRUE /\ keyb_shift' = keyb_shift /\ typed' = typed
           \/ /\ sc \in Shift
              /\ keyb_shift' = ~keyb_released /\ keyb_released' = FALSE /\ typed' = typed
           \/ /\ sc \in Key \cup Mute
              /\ keyb_released' = FALSE /\ keyb_shift' = keyb_shift
              /\ typed' = IF keyb_released \/ sc \in Mute THEN typed
                          ELSE Append(typed, <<sc, keyb_shift>>)
    BY <1>5 DEF AscStep, Answer, ShiftAfter, ReleasedAfterShift, ReleasedAfterKey
  <2>2. /\ Taken(Polled) \in Rings(ScanCode) /\ sc \in ScanCode
        /\ w \in Seq(ScanCode)
        /\ Contents(Polled) \o w # <<>> /\ Head(Contents(Polled) \o w) = sc
        /\ Tail(Contents(Polled) \o w) = Contents(Taken(Polled)) \o w
    <3>1. w \in Seq(ScanCode)
      BY <1>2, <1>3, ConcatProperties DEF KeysType
    <3> HIDE DEF w
    <3> QED
      BY <1>3, <1>5, <3>1, TakesFirst
  <2>3. Now' = Decoded(Now, sc)
    <3>1. Now.shift = keyb_shift /\ Now.released = keyb_released /\ Now.out = typed
      BY DEF Now, Decoder
    <3>2. Now' = Decoder(keyb_shift', keyb_released', typed')
      BY DEF Now, Decoder
    <3> HIDE DEF sc
    <3>3. CASE sc = Released
      <4>1. keyb_released' = TRUE /\ keyb_shift' = keyb_shift /\ typed' = typed
        BY <2>1, <3>3, KeysDiffer
      <4>2. Decoded(Now, sc) = Decoder(keyb_shift, TRUE, typed)
        BY <3>1, <3>3 DEF Decoded
      <4> QED
        BY <3>2, <4>1, <4>2 DEF Decoder
    <3>4. CASE sc \in Shift
      <4>1. keyb_released' = FALSE /\ keyb_shift' = ~keyb_released /\ typed' = typed /\ sc # Released
        BY <2>1, <3>4, KeysDiffer
      <4>2. Decoded(Now, sc) = Decoder(~keyb_released, FALSE, typed)
        BY <3>1, <3>4, <4>1 DEF Decoded
      <4> QED
        BY <3>2, <4>1, <4>2 DEF Decoder
    <3>5. CASE sc \in Key \cup Mute
      <4>1. /\ keyb_released' = FALSE /\ keyb_shift' = keyb_shift /\ sc # Released /\ sc \notin Shift
            /\ typed' = IF keyb_released \/ sc \in Mute THEN typed ELSE Append(typed, <<sc, keyb_shift>>)
        BY <2>1, <3>5, KeysDiffer
      <4>2. Decoded(Now, sc) = Decoder(keyb_shift, FALSE,
               IF keyb_released \/ sc \in Mute THEN typed ELSE Append(typed, <<sc, keyb_shift>>))
        BY <3>1, <4>1 DEF Decoded
      <4> QED
        BY <3>2, <4>1, <4>2 DEF Decoder
    <3> QED
      BY <2>1, <3>3, <3>4, <3>5
  <2>4. Pending' = Tail(Contents(Polled) \o w)
    BY <1>1, <2>1, <2>2 DEF Pending, Queued
  <2>5. Decoded(Now, sc) \in Decoders
    BY <1>2, <2>2, DecodedType
  <2>6. KeysType'
    <3>1. Now'.shift = keyb_shift' /\ Now'.released = keyb_released' /\ Now'.out = typed'
      BY DEF Now, Decoder
    <3>2. Now' \in Decoders
      BY <2>3, <2>5
    <3>3. keyb_shift' \in BOOLEAN /\ keyb_released' \in BOOLEAN /\ typed' \in Seq(Key \X BOOLEAN)
      BY <3>1, <3>2, DecoderType
    <3> QED
      BY <1>1, <1>2, <1>3, <2>1, <2>2, <3>3 DEF KeysType
  <2>7. Contents(Polled) \o w \in Seq(ScanCode)
    BY <1>3, <2>2, ContentsIsSeq, ConcatProperties
  <2> DEFINE p == Contents(Polled) \o w
  <2>8. /\ p \in Seq(ScanCode) /\ p # <<>> /\ Head(p) = sc /\ Tail(p) = Pending'
        /\ Agrees(p, Now, HealthPolled, held, meant)
    BY <1>3, <2>2, <2>4, <2>7
  <2> HIDE DEF p, w, sc
  <2>9. Agrees(Tail(p), Decoded(Now, Head(p)), HealthPolled, held, meant)
    BY <1>2, <2>8, DecodedAgrees
  <2> QED
    BY <1>1, <2>3, <2>6, <2>8, <2>9 DEF KInv
<1> QED
  BY <1>4, <1>5

LEMMA KeysStep == KInv /\ [KeyNext]_keyVars => KInv'
<1> SUFFICES ASSUME KInv, [KeyNext]_keyVars PROVE KInv'
  OBVIOUS
<1>1. ASSUME NEW k \in Key \cup Mute \cup Shift, Press(k) \/ Release(k) PROVE KInv'
  BY <1>1, PressKeeps, ReleaseKeeps
<1>2. CASE Ask
  BY <1>2 DEF Ask, device, KInv, KeysType, Pending, Queued, Now
<1>3. CASE UNCHANGED keyVars
  BY <1>3 DEF keyVars, device, decoder, KInv, KeysType, Pending, Queued, Now
<1> QED
  BY <1>1, <1>2, <1>3, ReceiveKeeps, PollKeeps, FlushKeeps, AscStepKeeps
     DEF KeyNext, Keyboard, Program

THEOREM KeyboardInvariant == KeySpec => []KInv
<1> QED
  BY KeysStart, KeysStep, PTL DEF KeySpec

\* As long as nothing is lost, keyboard_asc returns the keys that were
\* pressed, in order and each once, capital if shift was down.
THEOREM TypesWhatIsMeant == KeySpec => []TypedAsMeant
<1>1. KInv => TypedAsMeant
  <2> SUFFICES ASSUME KInv, health = "ok" PROVE IsPrefix(typed, meant)
    BY DEF TypedAsMeant
  <2>1. PICK f : Run(f, Pending, Now) /\ Sound(f, Len(Pending), health, held, meant)
    BY DEF KInv, Agrees
  <2>2. 0 \in 0..Len(Pending)
    <3>1. Len(Pending) \in Nat
      BY PendingType, LenProperties DEF KInv
    <3> QED
      BY <3>1, SMT
  <2>3. IsPrefix(f[0].out, meant) /\ f[0] = Now
    BY <2>1, <2>2 DEF Sound, Run
  <2>4. Now.out = typed
    BY DEF Now, Decoder
  <2> QED
    BY <2>3, <2>4
<1> QED
  BY <1>1, KeyboardInvariant, PTL

\* When everything has been read, the invariant speaks of the decoder itself.
LEMMA NothingPending ==
  ASSUME KInv, Drained
  PROVE  /\ health \in {"ok", "healed"} => keyb_released = FALSE /\ keyb_shift = (held # {})
         /\ health = "ok" => typed = meant
<1>1. PICK f : Run(f, Pending, Now) /\ Sound(f, Len(Pending), health, held, meant)
  BY DEF KInv, Agrees
<1>2. KeysType
  BY DEF KInv
<1>3. Len(Pending) = 0
  <2>1. wire = <<>> /\ fifo = <<>> /\ ~AinReady(ring)
    BY DEF Drained
  <2>2. RingLen(ring) = 0
    BY <1>2, <2>1, RingLength, RingAssumption, SMT DEF KeysType, RingAssumption
  <2>3. Contents(ring) = <<>>
    BY <1>2, <2>2, ContentsIsSeq, EmptySeq DEF KeysType
  <2> QED
    BY <1>2, <2>1, <2>3, ConcatEmptySeq, EmptySeq DEF Pending, Queued, KeysType
<1>4. f[Len(Pending)] = Now
  BY <1>1, <1>3 DEF Run
<1>5. Now.shift = keyb_shift /\ Now.released = keyb_released /\ Now.out = typed
  BY DEF Now, Decoder
<1> QED
  BY <1>1, <1>4, <1>5 DEF Sound

\* When all bytes have been read, every key has been returned.
THEOREM NoKeyStaysBehind == KeySpec => []NothingStaysBehind
<1>1. KInv => NothingStaysBehind
  BY NothingPending DEF NothingStaysBehind
<1> QED
  BY <1>1, KeyboardInvariant, PTL

\* Lost bytes do not leave shift stuck for ever.
THEOREM ShiftIsPutRight == KeySpec => []ShiftRecovers
<1>1. KInv => ShiftRecovers
  BY NothingPending DEF ShiftRecovers
<1> QED
  BY <1>1, KeyboardInvariant, PTL
=============================================================================
