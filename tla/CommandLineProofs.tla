-------------------------- MODULE CommandLineProofs --------------------------
(***************************************************************************)
(* Proofs about CommandLine, for lines and histories of any length and any *)
(* mix of keys: the positions stay inside, the history is the newest lines *)
(* entered, and the screen shows the line that will be executed.           *)
(***************************************************************************)
EXTENDS CommandLine, Integers, TLAPS

Glyph == Typed \cup {">", " "}
Lines == {s \in Seq(Typed) : Len(s) <= MaxLine}
Terminal == [text : Seq(Glyph), col : Nat, saved : Nat]

Shaped ==
  /\ buffer \in Lines /\ position \in Nat
  /\ history \in Seq(Lines) /\ history_position \in Nat
  /\ in_ctrl_char \in BOOLEAN /\ prompted \in BOOLEAN /\ aborted \in BOOLEAN
  /\ control_sequence \in Seq({"[", "3", "5"})
  /\ terminal \in Terminal
  /\ entered \in Seq(Lines)

\* What stands in front of the line, and in how many columns.
Margin == IF prompted THEN 2 ELSE 0
Shown == IF prompted THEN Prompt \o buffer ELSE buffer

\* The line is shown also where no prompt was printed; and from the escape byte
\* to the end of the sequence the terminal has the cursor saved.
ScreenInv ==
  ~aborted =>
    /\ terminal.text = Shown
    /\ terminal.col = Margin + position
    /\ in_ctrl_char => terminal.saved = terminal.col

IInv == Shaped /\ PositionsInRange /\ HistoryIsNewest /\ ScreenInv

-----------------------------------------------------------------------------
(* Sequences *)

LEMMA Larger ==
  ASSUME NEW S, NEW T, S \subseteq T, NEW s \in Seq(S)
  PROVE  s \in Seq(T)
<1>1. \A i \in 1 .. Len(s) : s[i] \in T
  OBVIOUS
<1>2. s \in [1 .. Len(s) -> T] /\ Len(s) \in Nat
  BY <1>1
<1> QED BY <1>2

LEMMA Concatenated ==
  ASSUME NEW S, NEW a \in Seq(S), NEW b \in Seq(S)
  PROVE  /\ a \o b \in Seq(S) /\ Len(a \o b) = Len(a) + Len(b)
         /\ \A i \in 1 .. Len(a) + Len(b) :
              (a \o b)[i] = IF i <= Len(a) THEN a[i] ELSE b[i - Len(a)]
OBVIOUS

LEMMA Same ==
  ASSUME NEW S, NEW a \in Seq(S), NEW b \in Seq(S), Len(a) = Len(b),
         \A i \in 1 .. Len(a) : a[i] = b[i]
  PROVE  a = b
OBVIOUS

LEMMA Piece ==
  ASSUME NEW S, NEW s \in Seq(S), NEW m \in Nat \ {0}, NEW n \in Nat, n <= Len(s), m <= n + 1
  PROVE  /\ SubSeq(s, m, n) \in Seq(S) /\ Len(SubSeq(s, m, n)) = n - m + 1
         /\ \A i \in 1 .. n - m + 1 : SubSeq(s, m, n)[i] = s[m + i - 1]
OBVIOUS

LEMMA TwoOf ==
  ASSUME NEW S, NEW a \in S, NEW b \in S
  PROVE  <<a, b>> \in Seq(S) /\ Len(<<a, b>>) = 2
OBVIOUS

-----------------------------------------------------------------------------
(* The terminal *)

LEMMA TypedIsGlyph ==
  /\ Typed \subseteq Glyph
  /\ \A s \in Seq(Typed) : s \in Seq(Glyph)
<1>1. Typed \subseteq Glyph
  BY Zenon DEF Glyph
<1> QED BY <1>1, Larger

LEMMA PromptIsGlyph == Prompt \in Seq(Glyph) /\ Len(Prompt) = 2
<1>1. ">" \in Glyph /\ " " \in Glyph
  BY Zenon DEF Glyph
<1> QED BY Zenon, <1>1, TwoOf DEF Prompt

LEMMA PromptedLine ==
  ASSUME NEW s \in Seq(Typed)
  PROVE  /\ Prompt \o s \in Seq(Glyph) /\ Len(Prompt \o s) = 2 + Len(s)
         /\ s \in Seq(Glyph)
<1>1. s \in Seq(Glyph)
  BY Zenon, TypedIsGlyph
<1>2. Prompt \o s \in Seq(Glyph) /\ Len(Prompt \o s) = Len(Prompt) + Len(s)
  BY <1>1, PromptIsGlyph, Concatenated
<1> QED BY <1>1, <1>2, PromptIsGlyph

LEMMA TerminalIs ==
  ASSUME NEW t \in Terminal
  PROVE  /\ t = [text |-> t.text, col |-> t.col, saved |-> t.saved]
         /\ t.text \in Seq(Glyph) /\ t.col \in Nat /\ t.saved \in Nat
BY DEF Terminal

LEMMA IsTerminal ==
  ASSUME NEW text \in Seq(Glyph), NEW col \in Nat, NEW saved \in Nat
  PROVE  [text |-> text, col |-> col, saved |-> saved] \in Terminal
BY DEF Terminal

\* Text put over a line that is no longer than it is all there is.
LEMMA PutOver ==
  ASSUME NEW t \in Terminal, NEW s \in Seq(Glyph), t.col = 0, Len(t.text) <= Len(s)
  PROVE  Put(t, s) = [text |-> s, col |-> Len(s), saved |-> t.saved]
<1> DEFINE end == t.col + Len(s)
           width == IF Len(t.text) > end THEN Len(t.text) ELSE end
           put(blank) == [i \in 1 .. width |->
                            IF i \in t.col + 1 .. end THEN s[i - t.col]
                            ELSE IF i <= Len(t.text) THEN t.text[i] ELSE blank]
<1>1. t = [text |-> t.text, col |-> t.col, saved |-> t.saved]
      /\ t.text \in Seq(Glyph) /\ Len(t.text) \in Nat /\ Len(s) \in Nat
  BY TerminalIs
<1>2. end = Len(s) /\ width = Len(s)
  BY <1>1
<1>3. ASSUME NEW blank PROVE put(blank) = s
  <2>1. put(blank) = [i \in 1 .. Len(s) |-> s[i]]
    BY <1>1, <1>2
  <2> QED BY <2>1
<1>4. Put(t, s) = [t EXCEPT !.col = end, !.text = put(" ")]
  BY Zenon DEF Put
<1> HIDE DEF put, end
<1>5. put(" ") = s
  BY Zenon, <1>3
<1>6. Put(t, s) = [t EXCEPT !.col = end, !.text = s]
  BY Zenon, <1>4, <1>5
<1> QED BY <1>1, <1>2, <1>6

\* Text put at the end of the line is appended.
LEMMA PutBehind ==
  ASSUME NEW t \in Terminal, NEW s \in Seq(Glyph), t.col = Len(t.text)
  PROVE  Put(t, s) = [text |-> t.text \o s, col |-> t.col + Len(s), saved |-> t.saved]
<1> DEFINE end == t.col + Len(s)
           width == IF Len(t.text) > end THEN Len(t.text) ELSE end
           put(blank) == [i \in 1 .. width |->
                            IF i \in t.col + 1 .. end THEN s[i - t.col]
                            ELSE IF i <= Len(t.text) THEN t.text[i] ELSE blank]
<1>1. t = [text |-> t.text, col |-> t.col, saved |-> t.saved]
      /\ t.text \in Seq(Glyph) /\ Len(t.text) \in Nat /\ Len(s) \in Nat
  BY TerminalIs
<1>2. end = Len(t.text) + Len(s) /\ width = Len(t.text) + Len(s)
  BY <1>1
<1>3. ASSUME NEW blank PROVE put(blank) = t.text \o s
  <2>1. put(blank) = [i \in 1 .. Len(t.text) + Len(s) |->
                        IF i <= Len(t.text) THEN t.text[i] ELSE s[i - Len(t.text)]]
    BY <1>1, <1>2
  <2> QED BY <2>1, <1>1
<1>4. Put(t, s) = [t EXCEPT !.col = end, !.text = put(" ")]
  BY Zenon DEF Put
<1> HIDE DEF put, end
<1>5. put(" ") = t.text \o s
  BY Zenon, <1>3
<1>6. Put(t, s) = [t EXCEPT !.col = end, !.text = t.text \o s]
  BY Zenon, <1>4, <1>5
<1> QED BY <1>1, <1>2, <1>6

\* A repainted line is the prompt and the text, whatever stood there.
LEMMA RepaintedLine ==
  ASSUME NEW t \in Terminal, NEW s \in Seq(Typed), NEW pos \in Nat
  PROVE  Repainted(t, s, pos) = [text |-> Prompt \o s, col |-> pos + 2, saved |-> t.saved]
<1> DEFINE u == EraseRight(Return(t))
           p == Prompt \o s
<1>1. t = [text |-> t.text, col |-> t.col, saved |-> t.saved]
      /\ t.text \in Seq(Glyph) /\ t.saved \in Nat
  BY TerminalIs
<1>2. Return(t) = [text |-> t.text, col |-> 0, saved |-> t.saved]
  BY <1>1 DEF Return
<1>3. u = [text |-> SubSeq(t.text, 1, 0), col |-> 0, saved |-> t.saved]
  BY <1>2 DEF EraseRight
<1>4. SubSeq(t.text, 1, 0) = <<>> /\ <<>> \in Seq(Glyph) /\ Len(<<>>) = 0
  BY <1>1
<1>5. u = [text |-> <<>>, col |-> 0, saved |-> t.saved]
  BY <1>3, <1>4
<1>6. u \in Terminal
  BY <1>1, <1>4, <1>5, IsTerminal
<1>7. u.col = 0 /\ u.saved = t.saved /\ Len(u.text) = 0
  BY <1>4, <1>5
<1> HIDE DEF u, p
<1>8. p \in Seq(Glyph) /\ Len(p) \in Nat
  BY PromptedLine DEF p
<1>9. Put(u, p) = [text |-> p, col |-> Len(p), saved |-> t.saved]
  BY <1>6, <1>7, <1>8, PutOver
<1>10. Repainted(t, s, pos) = Column(Put(u, p), pos + 3)
  BY Zenon DEF Repainted, u, p
<1>11. Repainted(t, s, pos) = [text |-> p, col |-> pos + 3 - 1, saved |-> t.saved]
  BY <1>9, <1>10 DEF Column
<1> QED BY <1>11 DEF p

-----------------------------------------------------------------------------
(* What most keys do: the line is edited, the screen shows it, and nothing   *)
(* else changes but the place in the history.                                *)

Edits(s, pos) ==
  /\ buffer' = s /\ position' = pos
  /\ terminal' = [text |-> Shown', col |-> Margin' + pos, saved |-> terminal.saved]
  /\ prompted' \in BOOLEAN /\ UNCHANGED <<history, aborted, entered>>
  /\ in_ctrl_char' = FALSE /\ control_sequence' \in Seq({"[", "3", "5"})
  /\ history_position' \in 0 .. Len(history)

LEMMA LineIs == ASSUME NEW s \in Lines PROVE s \in Seq(Typed) /\ Len(s) \in Nat /\ Len(s) <= MaxLine
BY DEF Lines

LEMMA IsLine == ASSUME NEW s \in Seq(Typed), Len(s) <= MaxLine PROVE s \in Lines
BY DEF Lines

LEMMA ShownIs ==
  ASSUME buffer \in Lines
  PROVE  /\ Shown \in Seq(Glyph) /\ Margin \in {0, 2}
         /\ Len(Shown) = Margin + Len(buffer)
<1>1. buffer \in Seq(Typed) /\ Len(buffer) \in Nat
  BY LineIs
<1>2. Prompt \o buffer \in Seq(Glyph) /\ Len(Prompt \o buffer) = 2 + Len(buffer)
      /\ buffer \in Seq(Glyph)
  BY <1>1, PromptedLine
<1> QED BY <1>1, <1>2 DEF Shown, Margin

LEMMA Edited ==
  ASSUME IInv, NEW s \in Lines, NEW pos \in 0 .. Len(s), Edits(s, pos)
  PROVE  IInv'
<1>1. terminal.saved \in Nat /\ history \in Seq(Lines) /\ Len(history) \in Nat /\ Len(s) \in Nat
  BY TerminalIs, LineIs DEF IInv, Shaped
<1>2. terminal'.text = Shown' /\ terminal'.col = Margin' + pos
  BY DEF Edits
<1>3. terminal' \in Terminal
  <2>1. Shown' \in Seq(Glyph) /\ Margin' \in Nat
    <3>1. buffer' \in Lines /\ buffer' \in Seq(Typed)
      BY LineIs DEF Edits
    <3>2. Prompt \o buffer' \in Seq(Glyph) /\ buffer' \in Seq(Glyph)
      BY <3>1, PromptedLine
    <3> QED BY <3>2 DEF Shown, Margin
  <2>2. pos \in Nat
    BY <1>1
  <2>3. Margin' + pos \in Nat
    <3> DEFINE m == Margin'
    <3>1. m \in Nat
      BY <2>1
    <3> HIDE DEF m
    <3>2. m + pos \in Nat
      BY ONLY <2>2, <3>1
    <3> QED BY <3>2 DEF m
  <2> QED BY <2>1, <2>3, <1>1, IsTerminal DEF Edits
<1>4. buffer' \in Lines /\ position' \in Nat /\ position' <= Len(buffer')
      /\ history_position' \in Nat /\ history_position' <= Len(history')
      /\ history' \in Seq(Lines)
  BY <1>1 DEF Edits
<1>5. in_ctrl_char' \in BOOLEAN /\ prompted' \in BOOLEAN /\ aborted' \in BOOLEAN
      /\ entered' \in Seq(Lines) /\ control_sequence' \in Seq({"[", "3", "5"})
  BY Zenon DEF Edits, IInv, Shaped
<1>6. Shaped'
  BY Zenon, <1>3, <1>4, <1>5 DEF Shaped
<1>7. PositionsInRange'
  BY <1>4 DEF PositionsInRange
<1>8. HistoryIsNewest'
  BY DEF IInv, HistoryIsNewest, Edits
<1>9. ScreenInv'
  BY <1>2 DEF ScreenInv, Edits
<1> QED BY <1>6, <1>7, <1>8, <1>9 DEF IInv

\* What a key finds.
LEMMA Found ==
  ASSUME IInv, ~aborted
  PROVE  /\ buffer \in Lines /\ buffer \in Seq(Typed) /\ Len(buffer) \in Nat
         /\ position \in 0 .. Len(buffer)
         /\ history \in Seq(Lines) /\ history_position \in 0 .. Len(history)
         /\ terminal \in Terminal /\ terminal.saved \in Nat
         /\ terminal = [text |-> Shown, col |-> Margin + position, saved |-> terminal.saved]
         /\ Margin \in {0, 2} /\ Shown \in Seq(Glyph) /\ Len(Shown) = Margin + Len(buffer)
<1>1. buffer \in Lines /\ position \in Nat /\ history \in Seq(Lines) /\ history_position \in Nat
      /\ terminal \in Terminal
  BY DEF IInv, Shaped
<1>2. position <= Len(buffer) /\ history_position <= Len(history)
  BY DEF IInv, PositionsInRange
<1>3. terminal.text = Shown /\ terminal.col = Margin + position
  BY DEF IInv, ScreenInv
<1>4. terminal = [text |-> terminal.text, col |-> terminal.col, saved |-> terminal.saved]
      /\ terminal.saved \in Nat
  BY <1>1, TerminalIs
<1>5. buffer \in Seq(Typed) /\ Len(buffer) \in Nat
  BY <1>1, LineIs
<1> QED BY <1>1, <1>2, <1>3, <1>4, <1>5, ShownIs

\* A repainted line is shown, with its prompt.
LEMMA RepaintEdits ==
  ASSUME IInv, ~aborted, NEW s \in Lines, NEW pos \in 0 .. Len(s),
         buffer' = s, position' = pos, terminal' = Repainted(terminal, s, pos),
         prompted' = TRUE, in_ctrl_char' = FALSE,
         control_sequence' \in Seq({"[", "3", "5"}),
         UNCHANGED <<past, aborted, entered>>
  PROVE  IInv'
<1>1. s \in Seq(Typed) /\ pos \in Nat /\ terminal \in Terminal
      /\ history_position \in 0 .. Len(history)
  BY LineIs, Found
<1>2. terminal' = [text |-> Prompt \o s, col |-> pos + 2, saved |-> terminal.saved]
  BY <1>1, RepaintedLine
<1>3. Shown' = Prompt \o s /\ Margin' = 2 /\ pos + 2 = 2 + pos
  BY <1>1 DEF Shown, Margin
<1>4. Edits(s, pos)
  BY <1>1, <1>2, <1>3 DEF Edits, past
<1> QED BY <1>4, Edited

-----------------------------------------------------------------------------
(* The keys *)

With(s, pos, c) == SubSeq(s, 1, pos) \o <<c>> \o SubSeq(s, pos + 1, Len(s))

LEMMA Inserted ==
  ASSUME NEW S, NEW s \in Seq(S), NEW pos \in 0 .. Len(s), NEW c \in S
  PROVE  /\ With(s, pos, c) \in Seq(S) /\ Len(With(s, pos, c)) = Len(s) + 1
         /\ pos = Len(s) => With(s, pos, c) = s \o <<c>>
<1> DEFINE a == SubSeq(s, 1, pos)
           z == SubSeq(s, pos + 1, Len(s))
<1>1. Len(s) \in Nat /\ pos \in Nat /\ pos <= Len(s)
  OBVIOUS
<1>2. /\ a \in Seq(S) /\ Len(a) = pos
      /\ \A i \in 1 .. pos : a[i] = s[i]
  BY <1>1, Piece
<1>3. z \in Seq(S) /\ Len(z) = Len(s) - pos
  BY <1>1, Piece
<1>4. <<c>> \in Seq(S) /\ Len(<<c>>) = 1
  OBVIOUS
<1> HIDE DEF a, z
<1>5. a \o <<c>> \in Seq(S) /\ Len(a \o <<c>>) = pos + 1
  BY <1>2, <1>4, Concatenated
<1>6. (a \o <<c>>) \o z \in Seq(S) /\ Len((a \o <<c>>) \o z) = Len(s) + 1
  BY <1>1, <1>3, <1>5, Concatenated
<1>7. ASSUME pos = Len(s) PROVE (a \o <<c>>) \o z = s \o <<c>>
  <2>1. a = s
    BY <1>1, <1>2, <1>7, Same
  <2>2. z = <<>>
    BY <1>3, <1>7
  <2> QED BY <2>1, <2>2, <1>5
<1> QED BY Zenon, <1>6, <1>7 DEF With, a, z

LEMMA Removed ==
  ASSUME NEW S, NEW s \in Seq(S), NEW i \in 1 .. Len(s)
  PROVE  Without(s, i) \in Seq(S) /\ Len(Without(s, i)) = Len(s) - 1
<1>1. Len(s) \in Nat /\ i \in Nat
  OBVIOUS
<1>2. SubSeq(s, 1, i - 1) \in Seq(S) /\ Len(SubSeq(s, 1, i - 1)) = i - 1
  BY <1>1, Piece
<1>3. SubSeq(s, i + 1, Len(s)) \in Seq(S) /\ Len(SubSeq(s, i + 1, Len(s))) = Len(s) - i
  BY <1>1, Piece
<1> DEFINE a == SubSeq(s, 1, i - 1)
           b == SubSeq(s, i + 1, Len(s))
<1>4. Without(s, i) = a \o b
  BY Zenon DEF Without
<1>5. a \in Seq(S) /\ b \in Seq(S) /\ Len(a) = i - 1 /\ Len(b) = Len(s) - i
  BY <1>2, <1>3
<1> HIDE DEF a, b
<1>6. Len(a) + Len(b) = Len(s) - 1
  BY <1>1, <1>5
<1> QED BY <1>4, <1>5, <1>6, Concatenated

LEMMA Typing == ASSUME IInv, NEW c \in Typed, Type(c) PROVE IInv'
<1>1. ~aborted /\ Len(buffer) < MaxLine /\ in_ctrl_char' = in_ctrl_char /\ ~in_ctrl_char
      /\ position' = position + 1 /\ UNCHANGED <<past, ctrl, aborted, entered>>
  BY DEF Type, Ready, add, ctrl
<1>2. /\ buffer \in Seq(Typed) /\ position \in 0 .. Len(buffer) /\ Len(buffer) \in Nat
      /\ terminal \in Terminal /\ MaxLine \in Nat /\ history_position \in 0 .. Len(history)
      /\ terminal = [text |-> Shown, col |-> Margin + position, saved |-> terminal.saved]
      /\ Margin \in {0, 2} /\ Len(Shown) = Margin + Len(buffer)
  BY <1>1, Found, LineAssumption
<1>3. buffer' = With(buffer, position, c)
  BY Zenon DEF Type, add, With
<1>4. /\ buffer' \in Seq(Typed) /\ Len(buffer') = Len(buffer) + 1
      /\ position = Len(buffer) => buffer' = buffer \o <<c>>
  BY <1>2, <1>3, Inserted
<1>5. buffer' \in Lines /\ position' \in 0 .. Len(buffer')
  BY <1>1, <1>2, <1>4, IsLine
<1>6. /\ terminal' = [text |-> Shown', col |-> Margin' + position', saved |-> terminal.saved]
      /\ prompted' \in BOOLEAN
  <2>1. CASE position' = Len(buffer')
    <3>1. position = Len(buffer) /\ terminal.col = Len(terminal.text) /\ terminal.text = Shown
          /\ terminal.col = Margin + position
      <4>1. position = Len(buffer)
        <5>1. position + 1 = Len(buffer) + 1
          BY Zenon, <2>1, <1>1, <1>4
        <5>2. position \in Int /\ Len(buffer) \in Int
          BY <1>2
        <5> QED BY ONLY <5>1, <5>2
      <4>2. terminal.text = Shown /\ terminal.col = Margin + position
        BY <1>2
      <4>3. Len(terminal.text) = Margin + Len(buffer)
        BY Zenon, <4>2, <1>2
      <4> QED BY Zenon, <4>1, <4>2, <4>3
    <3>2. terminal' = Put(terminal, <<c>>) /\ prompted' = prompted
      BY <2>1 DEF Type
    <3>3. <<c>> \in Seq(Glyph) /\ Len(<<c>>) = 1 /\ buffer \in Seq(Glyph)
      BY <1>2, TypedIsGlyph
    <3>4. terminal' = [text |-> Shown \o <<c>>, col |-> Margin + position + 1,
                       saved |-> terminal.saved]
      BY <3>1, <3>2, <3>3, <1>2, PutBehind
    <3>5. Shown \o <<c>> = Shown'
      <4>1. (Prompt \o buffer) \o <<c>> = Prompt \o (buffer \o <<c>>)
        BY <3>3, PromptIsGlyph
      <4> QED BY <4>1, <3>1, <3>2, <1>4 DEF Shown
    <3>6. prompted' \in BOOLEAN
      BY Zenon, <3>2 DEF IInv, Shaped
    <3>7. Margin' = Margin
      BY <3>2 DEF Margin
    <3>8. Margin + position + 1 = Margin' + position'
      BY <3>7, <1>1, <1>2
    <3> QED BY <3>4, <3>5, <3>6, <3>8
  <2>2. CASE position' # Len(buffer')
    <3> DEFINE u == Return(terminal)
               p == Prompt \o buffer'
    <3>1. terminal' = Column(Put(u, p), position' + 3) /\ prompted' = TRUE
      BY <2>2 DEF Type
    <3>2. Shown \in Seq(Glyph) /\ terminal.saved \in Nat
      BY <1>1, Found
    <3>3. u = [text |-> Shown, col |-> 0, saved |-> terminal.saved]
      BY <1>2 DEF Return
    <3>4. u \in Terminal /\ u.col = 0 /\ u.saved = terminal.saved /\ u.text = Shown
      BY <3>2, <3>3, IsTerminal
    <3>5. p \in Seq(Glyph) /\ Len(p) = 2 + Len(buffer')
      BY <1>4, PromptedLine
    <3>6. Len(u.text) <= Len(p)
      BY <3>4, <3>5, <1>2, <1>4
    <3> HIDE DEF u, p
    <3>7. Put(u, p) = [text |-> p, col |-> Len(p), saved |-> u.saved]
      BY <3>4, <3>5, <3>6, PutOver
    <3>8. terminal' = [text |-> p, col |-> position' + 3 - 1, saved |-> terminal.saved]
      <4>1. terminal' = Column([text |-> p, col |-> Len(p), saved |-> terminal.saved],
                               position' + 3)
        BY Zenon, <3>1, <3>4, <3>7
      <4>2. position' \in Nat
        BY <1>1, <1>2
      <4> QED BY ONLY <4>1, <4>2 DEF Column
    <3>9. Shown' = p /\ Margin' = 2
      BY <3>1 DEF Shown, Margin, p
    <3>10. position' + 3 - 1 = Margin' + position'
      BY <3>9, <1>1, <1>2
    <3> QED BY <3>1, <3>8, <3>9, <3>10
  <2> QED BY <2>1, <2>2
<1>7. control_sequence' \in Seq({"[", "3", "5"})
  BY <1>1 DEF IInv, Shaped, ctrl
<1>8. in_ctrl_char' = FALSE
  BY Zenon, <1>1 DEF IInv, Shaped
<1>9. Edits(buffer', position')
  BY <1>1, <1>2, <1>6, <1>7, <1>8 DEF Edits, past
<1> QED BY <1>5, <1>9, Edited

LEMMA Erasing == ASSUME IInv, Backspace PROVE IInv'
<1>1. /\ ~aborted /\ ~in_ctrl_char /\ position # 0 /\ UNCHANGED <<past, ctrl, aborted, entered>>
      /\ buffer' = Without(buffer, position) /\ position' = position - 1
      /\ terminal' = Repainted(terminal, buffer', position') /\ prompted' = TRUE
  BY DEF Backspace, Ready, do_backspace
<1>2. /\ buffer \in Seq(Typed) /\ Len(buffer) \in Nat /\ position \in 1 .. Len(buffer)
      /\ Len(buffer) <= MaxLine /\ MaxLine \in Nat
  BY <1>1, Found, LineIs, LineAssumption
<1>3. buffer' \in Lines /\ position' \in 0 .. Len(buffer')
  BY <1>1, <1>2, Removed, IsLine
<1>4. in_ctrl_char' = FALSE /\ control_sequence' \in Seq({"[", "3", "5"})
  BY Zenon, <1>1 DEF IInv, Shaped, ctrl
<1> QED BY <1>1, <1>3, <1>4, RepaintEdits

LEMMA SequenceEnd ==
  ASSUME NEW s, Ends(s)
  PROVE  /\ ~aborted /\ in_ctrl_char /\ in_ctrl_char' = FALSE
         /\ control_sequence' \in Seq({"[", "3", "5"})
         /\ UNCHANGED <<aborted, entered>>
BY DEF Ends

LEMMA Deleting == ASSUME IInv, Delete PROVE IInv'
<1>1. /\ ~aborted /\ in_ctrl_char' = FALSE /\ control_sequence' \in Seq({"[", "3", "5"})
      /\ UNCHANGED <<aborted, entered, past>>
  BY SequenceEnd DEF Delete
<1>2. /\ buffer \in Lines /\ buffer \in Seq(Typed) /\ Len(buffer) \in Nat
      /\ position \in 0 .. Len(buffer) /\ history_position \in 0 .. Len(history)
      /\ Len(buffer) <= MaxLine /\ MaxLine \in Nat
      /\ terminal = [text |-> Shown, col |-> Margin + position, saved |-> terminal.saved]
  BY <1>1, Found, LineIs, LineAssumption
<1>3. CASE position = Len(buffer)
  <2>1. UNCHANGED <<line, terminal, prompted>>
    BY <1>3 DEF Delete
  <2>2. prompted' \in BOOLEAN
    BY Zenon, <2>1 DEF IInv, Shaped
  <2>3. Edits(buffer, position)
    BY <2>1, <2>2, <1>1, <1>2 DEF Edits, line, past, Shown, Margin
  <2> QED BY <2>3, <1>2, Edited
<1>4. CASE position # Len(buffer)
  <2>1. /\ buffer' = Without(buffer, position + 1) /\ position' = position
        /\ terminal' = Repainted(terminal, buffer', position') /\ prompted' = TRUE
    BY <1>4 DEF Delete, do_delete
  <2>2. buffer' \in Lines /\ position' \in 0 .. Len(buffer')
    BY <2>1, <1>2, <1>4, Removed, IsLine
  <2> QED BY <2>1, <2>2, <1>1, RepaintEdits
<1> QED BY <1>3, <1>4

LEMMA Jumping == ASSUME IInv, Home \/ End PROVE IInv'
<1>1. /\ ~aborted /\ in_ctrl_char' = FALSE /\ control_sequence' \in Seq({"[", "3", "5"})
      /\ UNCHANGED <<aborted, entered>>
  BY SequenceEnd DEF Home, End
<1>2. buffer \in Lines /\ Len(buffer) \in Nat
  BY <1>1, Found
<1>3. /\ position' \in {0, Len(buffer)} /\ buffer' = buffer /\ prompted' = TRUE
      /\ terminal' = Repainted(terminal, buffer, position') /\ UNCHANGED past
  BY Zenon DEF Home, End
<1>4. position' \in 0 .. Len(buffer)
  BY <1>2, <1>3
<1> QED BY <1>1, <1>2, <1>3, <1>4, RepaintEdits

LEMMA Moving == ASSUME IInv, Left \/ Right PROVE IInv'
<1>1. /\ ~aborted /\ in_ctrl_char /\ in_ctrl_char' = FALSE
      /\ control_sequence' \in Seq({"[", "3", "5"}) /\ UNCHANGED <<aborted, entered>>
  BY SequenceEnd DEF Left, Right
<1>2. /\ buffer \in Lines /\ Len(buffer) \in Nat /\ position \in 0 .. Len(buffer)
      /\ history_position \in 0 .. Len(history) /\ Margin \in {0, 2}
      /\ terminal = [text |-> Shown, col |-> Margin + position, saved |-> terminal.saved]
  BY <1>1, Found
<1>3. terminal.saved = terminal.col /\ terminal.col = Margin + position
  BY <1>1 DEF IInv, ScreenInv
<1>4. UNCHANGED <<buffer, past, prompted>> /\ Shown' = Shown /\ Margin' = Margin
  BY DEF Left, Right, Shown, Margin
<1>5. prompted' \in BOOLEAN
  BY Zenon, <1>4 DEF IInv, Shaped
<1>6. ASSUME NEW pos \in 0 .. Len(buffer), position' = pos,
             terminal' = [text |-> Shown, col |-> Margin + pos, saved |-> terminal.saved]
      PROVE  IInv'
  <2>1. Edits(buffer, pos)
    BY <1>1, <1>2, <1>4, <1>5, <1>6 DEF Edits, past
  <2> QED BY <2>1, <1>2, Edited
<1>7. CASE Restore(terminal) = terminal' /\ UNCHANGED position
  <2>1. terminal' = [text |-> Shown, col |-> Margin + position, saved |-> terminal.saved]
    <3>1. terminal' = [terminal EXCEPT !.col = Margin + position]
      BY <1>3, <1>7 DEF Restore
    <3> QED BY <3>1, <1>2
  <2> QED BY <2>1, <1>2, <1>6, <1>7
<1>8. CASE Left /\ position # 0
  <2>1. position' = position - 1 /\ position - 1 \in 0 .. Len(buffer)
    BY <1>2, <1>8 DEF Left
  <2>2. terminal' = Move(terminal, IF terminal.col = 0 THEN 0 ELSE terminal.col - 1)
    BY <1>8 DEF Left
  <2>3. terminal.col # 0 /\ terminal.col - 1 = Margin + (position - 1)
    BY <1>2, <1>3, <1>8
  <2>4. terminal' = [terminal EXCEPT !.col = Margin + (position - 1)]
    BY <2>2, <2>3 DEF Move
  <2>5. terminal' = [text |-> Shown, col |-> Margin + (position - 1), saved |-> terminal.saved]
    BY <2>4, <1>2
  <2> QED BY <2>1, <2>5, <1>6
<1>9. CASE Right /\ position # Len(buffer)
  <2>1. position' = position + 1 /\ position + 1 \in 0 .. Len(buffer)
    BY <1>2, <1>9 DEF Right
  <2>2. terminal' = Move(terminal, terminal.col + 1)
    BY <1>9 DEF Right
  <2>3. terminal.col + 1 = Margin + (position + 1)
    BY <1>2, <1>3
  <2>4. terminal' = [terminal EXCEPT !.col = Margin + (position + 1)]
    BY <2>2, <2>3 DEF Move
  <2>5. terminal' = [text |-> Shown, col |-> Margin + (position + 1), saved |-> terminal.saved]
    BY <2>4, <1>2
  <2> QED BY <2>1, <2>5, <1>6
<1> QED BY <1>7, <1>8, <1>9 DEF Left, Right

LEMMA Browsing == ASSUME IInv, Up \/ Down PROVE IInv'
<1> DEFINE u == Return(EraseLine(Restore(terminal)))
           p == Prompt \o buffer'
<1>1. /\ ~aborted /\ in_ctrl_char' = FALSE /\ control_sequence' \in Seq({"[", "3", "5"})
      /\ UNCHANGED <<aborted, entered>>
  BY SequenceEnd DEF Up, Down
<1>2. /\ history \in Seq(Lines) /\ Len(history) \in Nat
      /\ history_position \in 0 .. Len(history) /\ MaxLine \in Nat
      /\ terminal.saved \in Nat
      /\ terminal = [text |-> Shown, col |-> Margin + position, saved |-> terminal.saved]
  BY <1>1, Found, LineAssumption
<1>3. history_position' \in 0 .. Len(history)
  BY <1>2 DEF Up, Down, Back, Forward
<1>4. /\ buffer' = Entry(history_position') /\ position' = Len(buffer')
      /\ terminal' = Put(u, p) /\ prompted' = TRUE /\ history' = history
  BY DEF Up, Down, ShowEntry, Replace
<1>5. buffer' \in Lines
  <2>1. <<>> \in Lines
    BY <1>2 DEF Lines
  <2> QED BY <2>1, <1>2, <1>3, <1>4 DEF Entry
<1>6. buffer' \in Seq(Typed) /\ Len(buffer') \in Nat
  BY <1>5, LineIs
<1>7. u = [text |-> <<>>, col |-> 0, saved |-> terminal.saved]
  <2>1. Restore(terminal) = [text |-> Shown, col |-> terminal.saved, saved |-> terminal.saved]
    BY <1>2 DEF Restore
  <2>2. EraseLine(Restore(terminal))
          = [text |-> <<>>, col |-> terminal.saved, saved |-> terminal.saved]
    BY <2>1 DEF EraseLine
  <2> QED BY <2>2 DEF Return
<1>8. u \in Terminal /\ u.col = 0 /\ u.saved = terminal.saved /\ Len(u.text) = 0
  <2>1. <<>> \in Seq(Glyph) /\ Len(<<>>) = 0
    OBVIOUS
  <2>2. u \in Terminal
    BY <2>1, <1>2, <1>7, IsTerminal
  <2>3. u.col = 0 /\ u.saved = terminal.saved /\ u.text = <<>>
    BY <1>7
  <2> QED BY <2>1, <2>2, <2>3
<1>9. p \in Seq(Glyph) /\ Len(p) = 2 + Len(buffer')
  BY <1>6, PromptedLine
<1> HIDE DEF u, p
<1>10. Put(u, p) = [text |-> p, col |-> Len(p), saved |-> u.saved]
  BY <1>6, <1>8, <1>9, PutOver
<1>11. terminal' = [text |-> p, col |-> 2 + Len(buffer'), saved |-> terminal.saved]
  BY Zenon, <1>4, <1>8, <1>9, <1>10
<1>12. Shown' = p /\ Margin' = 2
  BY <1>4 DEF Shown, Margin, p
<1>13. Edits(buffer', Len(buffer'))
  BY <1>1, <1>3, <1>4, <1>11, <1>12 DEF Edits
<1>14. Len(buffer') \in 0 .. Len(buffer')
  BY <1>6
<1> QED BY <1>5, <1>13, <1>14, Edited

LEMMA InSequence ==
  ASSUME IInv, NEW c \in {"[", "3", "5"}, SequenceByte(c) PROVE IInv'
<1>1. /\ control_sequence' = Append(control_sequence, c) /\ in_ctrl_char' = in_ctrl_char
      /\ UNCHANGED <<line, past, terminal, prompted, aborted, entered>>
  BY DEF SequenceByte
<1>2. control_sequence' \in Seq({"[", "3", "5"})
  BY <1>1 DEF IInv, Shaped
<1>3. Shaped'
  BY Zenon, <1>1, <1>2 DEF IInv, Shaped, line, past
<1>4. PositionsInRange' /\ HistoryIsNewest' /\ ScreenInv'
  BY Zenon, <1>1 DEF IInv, PositionsInRange, HistoryIsNewest, ScreenInv, Shown, Margin, line, past
<1> QED BY Zenon, <1>3, <1>4 DEF IInv

LEMMA Escaping == ASSUME IInv, Escape PROVE IInv'
<1>1. /\ ~aborted /\ in_ctrl_char' = TRUE /\ terminal' = Save(terminal)
      /\ UNCHANGED <<line, past, control_sequence, prompted, aborted, entered>>
  BY DEF Escape, Ready
<1>2. /\ position \in Nat /\ Margin \in {0, 2} /\ Shown \in Seq(Glyph)
      /\ terminal = [text |-> Shown, col |-> Margin + position, saved |-> terminal.saved]
  BY <1>1, Found DEF IInv, Shaped
<1>3. terminal' = [text |-> Shown, col |-> Margin + position, saved |-> Margin + position]
  BY <1>1, <1>2 DEF Save
<1>4. terminal' \in Terminal
  BY <1>2, <1>3, IsTerminal
<1>5. Shaped'
  BY Zenon, <1>1, <1>4 DEF IInv, Shaped, line, past
<1>6. PositionsInRange' /\ HistoryIsNewest'
  BY Zenon, <1>1 DEF IInv, PositionsInRange, HistoryIsNewest, line, past
<1>7. ScreenInv'
  BY <1>1, <1>3 DEF ScreenInv, Shown, Margin, line
<1> QED BY Zenon, <1>5, <1>6, <1>7 DEF IInv

LEMMA Ignoring == ASSUME IInv, OtherKey PROVE IInv'
<1>1. /\ ~aborted /\ in_ctrl_char' = FALSE /\ control_sequence' \in Seq({"[", "3", "5"})
      /\ UNCHANGED <<aborted, entered>>
  BY SequenceEnd DEF OtherKey
<1>2. UNCHANGED <<line, past, terminal, prompted>>
  BY DEF OtherKey
<1>3. Shaped'
  BY Zenon, <1>1, <1>2 DEF IInv, Shaped, line, past
<1>4. PositionsInRange' /\ HistoryIsNewest' /\ ScreenInv'
  BY Zenon, <1>1, <1>2 DEF IInv, PositionsInRange, HistoryIsNewest, ScreenInv, Shown, Margin, line, past
<1> QED BY Zenon, <1>3, <1>4 DEF IInv

-----------------------------------------------------------------------------
(* The enter key *)

Newest(n) == IF n > history_max_size THEN history_max_size ELSE n

\* Remembering a line keeps the newest ones.
LEMMA Remembered ==
  ASSUME NEW b \in Lines, entered \in Seq(Lines),
         history = SubSeq(entered, Len(entered) - Newest(Len(entered)) + 1, Len(entered))
  PROVE  LET e == Append(entered, b)
         IN  /\ Remember(b) = SubSeq(e, Len(e) - Newest(Len(e)) + 1, Len(e))
             /\ Remember(b) \in Seq(Lines)
<1> DEFINE n == Len(entered)
           k == Newest(n)
           e == Append(entered, b)
           h == Append(history, b)
           m == Newest(n + 1)
<1>1. n \in Nat /\ history_max_size \in Nat \ {0} /\ k \in 0 .. n /\ k <= history_max_size
      /\ m \in 1 .. n + 1 /\ (k < history_max_size => k = n)
      /\ (IF k + 1 > history_max_size THEN m = k ELSE m = k + 1)
  BY LineAssumption DEF Newest
<1> HIDE DEF k, m
<1>2. /\ history \in Seq(Lines) /\ Len(history) = k
      /\ \A i \in 1 .. k : history[i] = entered[n - k + i]
  <2>1. n - k + 1 \in Nat \ {0} /\ n - k + 1 <= n + 1 /\ n - (n - k + 1) + 1 = k
    BY <1>1
  <2> DEFINE q == SubSeq(entered, n - k + 1, n)
  <2>2. history = q
    BY Zenon DEF k
  <2>3. /\ q \in Seq(Lines) /\ Len(q) = k
        /\ \A i \in 1 .. k : q[i] = entered[(n - k + 1) + i - 1]
    <3>1. /\ q \in Seq(Lines) /\ Len(q) = n - (n - k + 1) + 1
          /\ \A i \in 1 .. n - (n - k + 1) + 1 : q[i] = entered[(n - k + 1) + i - 1]
      BY <2>1, <1>1, Piece
    <3> QED BY ONLY Zenon, <3>1, <2>1
  <2> HIDE DEF q
  <2>4. \A i \in 1 .. k : (n - k + 1) + i - 1 = n - k + i
    BY <1>1
  <2> QED BY Zenon, <2>2, <2>3, <2>4
<1>3. /\ e \in Seq(Lines) /\ Len(e) = n + 1 /\ e[n + 1] = b
      /\ \A i \in 1 .. n : e[i] = entered[i]
  BY <1>1
<1>4. /\ h \in Seq(Lines) /\ Len(h) = k + 1 /\ h[k + 1] = b
      /\ \A i \in 1 .. k : h[i] = history[i]
  BY <1>1, <1>2
<1> DEFINE r == Remember(b)
<1>5. r = IF k + 1 > history_max_size THEN Tail(h) ELSE h
  BY <1>4 DEF Remember
<1> HIDE DEF n, e, h, r
<1>6. \A i \in 1 .. k + 1 : h[i] = e[n - k + i]
  <2> SUFFICES ASSUME NEW i \in 1 .. k + 1 PROVE h[i] = e[n - k + i]
    OBVIOUS
  <2>1. CASE i <= k
    <3>1. i \in 1 .. k /\ n - k + i \in 1 .. n
      BY <2>1, <1>1
    <3> QED BY <3>1, <1>2, <1>3, <1>4
  <2>2. CASE i = k + 1
    <3>1. n - k + i = n + 1
      BY <2>2, <1>1
    <3> QED BY <3>1, <2>2, <1>3, <1>4
  <2> QED BY <2>1, <2>2, <1>1
<1>7. /\ r \in Seq(Lines) /\ Len(r) = m
      /\ \A i \in 1 .. m : r[i] = e[(n + 1) - m + i]
  <2>1. CASE k + 1 > history_max_size
    <3>1. r = Tail(h) /\ m = k
      BY <2>1, <1>1, <1>5
    <3>2. Len(h) = k + 1 /\ h # <<>> /\ h \in Seq(Lines) /\ k \in Nat
      BY <1>1, <1>4
    <3>3. /\ Tail(h) \in Seq(Lines) /\ Len(Tail(h)) = k
          /\ \A i \in 1 .. k : Tail(h)[i] = h[i + 1]
      BY <3>2
    <3>4. ASSUME NEW i \in 1 .. k PROVE h[i + 1] = e[(n + 1) - k + i]
      <4>1. i + 1 \in 1 .. k + 1 /\ n - k + (i + 1) = (n + 1) - k + i
        BY <1>1
      <4>2. h[i + 1] = e[n - k + (i + 1)]
        BY <4>1, <1>6
      <4> QED BY Zenon, <4>1, <4>2
    <3> QED BY <3>1, <3>3, <3>4
  <2>2. CASE ~(k + 1 > history_max_size)
    <3>1. r = h /\ m = k + 1
      BY <2>2, <1>1, <1>5
    <3>2. ASSUME NEW i \in 1 .. k + 1 PROVE h[i] = e[(n + 1) - (k + 1) + i]
      <4>1. (n + 1) - (k + 1) + i = n - k + i
        BY <1>1
      <4>2. h[i] = e[n - k + i]
        BY <1>6
      <4> QED BY Zenon, <4>1, <4>2
    <3> QED BY <3>1, <3>2, <1>4
  <2> QED BY <2>1, <2>2
<1>8. r = SubSeq(e, (n + 1) - m + 1, n + 1)
  <2> DEFINE p == SubSeq(e, (n + 1) - m + 1, n + 1)
  <2>1. (n + 1) - m + 1 \in Nat \ {0} /\ (n + 1) - m + 1 <= (n + 1) + 1
        /\ (n + 1) - ((n + 1) - m + 1) + 1 = m /\ n + 1 \in Nat
    BY <1>1
  <2>2. /\ p \in Seq(Lines) /\ Len(p) = m
        /\ \A i \in 1 .. m : p[i] = e[((n + 1) - m + 1) + i - 1]
    BY <2>1, <1>3, Piece
  <2>3. \A i \in 1 .. m : ((n + 1) - m + 1) + i - 1 = (n + 1) - m + i
    BY <1>1
  <2> HIDE DEF p
  <2>4. \A i \in 1 .. m : r[i] = p[i]
    BY <2>2, <2>3, <1>7
  <2>5. r = p
    BY <2>2, <2>4, <1>7, Same
  <2> QED BY <2>5 DEF p
<1> QED BY Zenon, <1>3, <1>7, <1>8 DEF n, e, r, m

LEMMA EnteredHistory ==
  ASSUME IInv, Enter
  PROVE  /\ history' \in Seq(Lines) /\ entered' \in Seq(Lines)
         /\ history_position' \in Nat /\ history_position' <= Len(history')
         /\ HistoryIsNewest'
<1>1. /\ entered \in Seq(Lines) /\ history \in Seq(Lines) /\ history_position \in Nat
      /\ history_position <= Len(history) /\ buffer \in Lines
      /\ history = SubSeq(entered, Len(entered) - Newest(Len(entered)) + 1, Len(entered))
  BY Zenon DEF IInv, Shaped, PositionsInRange, HistoryIsNewest, Newest
<1>2. CASE buffer = <<>>
  <2>1. UNCHANGED <<past, entered>>
    BY <1>2 DEF Enter
  <2>2. HistoryIsNewest'
    BY Zenon, <2>1 DEF IInv, HistoryIsNewest, past
  <2> QED BY <2>1, <2>2, <1>1 DEF past
<1>3. CASE buffer # <<>>
  <2>1. /\ entered' = Append(entered, buffer) /\ history' = Remember(buffer)
        /\ history_position' = Len(history')
    BY Zenon, <1>3 DEF Enter
  <2>2. /\ history' = SubSeq(entered', Len(entered') - Newest(Len(entered')) + 1, Len(entered'))
        /\ history' \in Seq(Lines)
    BY Zenon, <2>1, <1>1, Remembered
  <2>3. entered' \in Seq(Lines) /\ Len(history') \in Nat
    BY <2>1, <2>2, <1>1
  <2>4. HistoryIsNewest'
    BY Zenon, <2>2 DEF HistoryIsNewest, Newest
  <2>5. history_position' \in Nat /\ history_position' <= Len(history')
    <3>1. history_position' = Len(history')
      BY <2>1
    <3> QED BY ONLY <3>1, <2>3
  <2> QED BY Zenon, <2>2, <2>3, <2>4, <2>5
<1> QED BY <1>2, <1>3

LEMMA Entering == ASSUME IInv, Enter PROVE IInv'
<1> DEFINE f == FreshLine(terminal)
<1>1. /\ ~aborted /\ ~in_ctrl_char /\ in_ctrl_char' = in_ctrl_char
      /\ control_sequence' = control_sequence
  BY DEF Enter, Ready, ctrl
<1>2. /\ history' \in Seq(Lines) /\ entered' \in Seq(Lines)
      /\ history_position' \in Nat /\ history_position' <= Len(history')
      /\ HistoryIsNewest'
  BY EnteredHistory
<1>3. /\ buffer \in Lines /\ position \in Nat /\ position <= Len(buffer) /\ terminal.saved \in Nat
      /\ terminal = [text |-> Shown, col |-> Margin + position, saved |-> terminal.saved]
  BY <1>1, Found
<1>4. f = [text |-> <<>>, col |-> 0, saved |-> terminal.saved]
  <2>1. ASSUME NEW a, NEW b, NEW c, NEW none
        PROVE  [[text |-> a, col |-> b, saved |-> c] EXCEPT !.text = none, !.col = 0]
                 = [text |-> none, col |-> 0, saved |-> c]
    <3>1. [[text |-> a, col |-> b, saved |-> c] EXCEPT !.text = none]
            = [text |-> none, col |-> b, saved |-> c]
      OBVIOUS
    <3>2. [[text |-> none, col |-> b, saved |-> c] EXCEPT !.col = 0]
            = [text |-> none, col |-> 0, saved |-> c]
      OBVIOUS
    <3> QED BY Zenon, <3>1, <3>2
  <2>2. f = [terminal EXCEPT !.text = <<>>, !.col = 0]
    BY Zenon DEF FreshLine
  <2> QED BY Zenon, <2>1, <2>2, <1>3
<1>5. f \in Terminal /\ f.col = 0 /\ f.saved = terminal.saved /\ Len(f.text) = 0
      /\ f.text = <<>>
  <2>1. <<>> \in Seq(Glyph) /\ Len(<<>>) = 0
    OBVIOUS
  <2>2. f \in Terminal
    BY <2>1, <1>3, <1>4, IsTerminal
  <2>3. f.col = 0 /\ f.saved = terminal.saved /\ f.text = <<>>
    BY <1>4
  <2> QED BY <2>1, <2>2, <2>3
<1> HIDE DEF f
<1>6. /\ in_ctrl_char' = FALSE /\ control_sequence' \in Seq({"[", "3", "5"})
  BY Zenon, <1>1 DEF IInv, Shaped
<1>7. CASE OnlyBlanks(buffer)
  <2>1. aborted' = TRUE /\ UNCHANGED <<line, prompted>> /\ terminal' = f
    BY Zenon, <1>7 DEF Enter, f
  <2>2. Shaped'
    BY Zenon, <2>1, <1>2, <1>5, <1>6 DEF IInv, Shaped, line
  <2>3. PositionsInRange'
    BY <2>1, <1>2, <1>3 DEF PositionsInRange, line
  <2>4. ScreenInv'
    BY Zenon, <2>1 DEF ScreenInv
  <2> QED BY Zenon, <2>2, <2>3, <2>4, <1>2 DEF IInv
<1>8. CASE ~OnlyBlanks(buffer)
  <2>1. /\ buffer' = <<>> /\ position' = Len(<<>>) /\ aborted' = aborted
        /\ prompted' \in BOOLEAN
        /\ terminal' = IF prompted' THEN Put(f, Prompt) ELSE f
    <3>1. /\ Replace(<<>>) /\ UNCHANGED aborted
          /\ prompted' \in IF buffer = <<>> THEN {TRUE} ELSE BOOLEAN
          /\ terminal' = IF prompted' THEN Put(f, Prompt) ELSE f
      BY Zenon, <1>8 DEF Enter, f
    <3>2. prompted' \in BOOLEAN
      BY Zenon, <3>1
    <3> QED BY Zenon, <3>1, <3>2 DEF Replace
  <2>2. <<>> \in Lines /\ Len(<<>>) = 0 /\ <<>> \in Seq(Typed)
    BY LineAssumption DEF Lines
  <2>3. Put(f, Prompt) = [text |-> Prompt, col |-> 2, saved |-> terminal.saved]
    <3>1. Len(f.text) <= Len(Prompt)
      BY <1>5, PromptIsGlyph
    <3>2. Put(f, Prompt) = [text |-> Prompt, col |-> Len(Prompt), saved |-> f.saved]
      BY <3>1, <1>5, PromptIsGlyph, PutOver
    <3> QED BY Zenon, <3>2, <1>5, PromptIsGlyph
  <2>4. terminal' \in Terminal
    <3>1. Put(f, Prompt) \in Terminal
      BY <2>3, <1>3, PromptIsGlyph, IsTerminal
    <3> QED BY <3>1, <2>1, <1>5
  <2>5. Prompt \o <<>> = Prompt
    BY PromptIsGlyph
  <2>6. terminal'.text = Shown' /\ terminal'.col = Margin' + position'
    <3>1. CASE prompted'
      <4>1. terminal'.text = Prompt /\ terminal'.col = 2
        BY <3>1, <2>1, <2>3
      <4>2. Shown' = Prompt /\ Margin' = 2 /\ position' = 0
        BY <3>1, <2>1, <2>2, <2>5 DEF Shown, Margin
      <4> QED BY <4>1, <4>2
    <3>2. CASE ~prompted'
      <4>1. terminal'.text = <<>> /\ terminal'.col = 0
        BY <3>2, <2>1, <1>5
      <4>2. Shown' = <<>> /\ Margin' = 0 /\ position' = 0
        BY <3>2, <2>1, <2>2 DEF Shown, Margin
      <4> QED BY <4>1, <4>2
    <3> QED BY <3>1, <3>2
  <2>7. position' = 0 /\ Len(buffer') = 0 /\ buffer' \in Lines
    BY <2>1, <2>2
  <2>8. Shaped'
    <3>1. position' \in Nat /\ in_ctrl_char' \in BOOLEAN
      BY <2>7, <1>6
    <3>2. aborted' \in BOOLEAN
      BY Zenon, <2>1 DEF IInv, Shaped
    <3> QED BY Zenon, <3>1, <3>2, <2>1, <2>4, <2>7, <1>2, <1>6 DEF Shaped
  <2>9. PositionsInRange'
    BY <2>7, <1>2 DEF PositionsInRange
  <2>10. ScreenInv'
    BY Zenon, <2>6, <1>6 DEF ScreenInv
  <2> QED BY Zenon, <2>8, <2>9, <2>10, <1>2 DEF IInv
<1> QED BY <1>7, <1>8

-----------------------------------------------------------------------------

LEMMA Initially == Init => IInv
<1> SUFFICES ASSUME Init PROVE IInv
  OBVIOUS
<1>1. /\ buffer = <<>> /\ position = 0 /\ history = <<>> /\ history_position = 0
      /\ in_ctrl_char = FALSE /\ control_sequence = <<>> /\ entered = <<>>
      /\ terminal = [text |-> Prompt, col |-> Len(Prompt), saved |-> 0]
      /\ prompted = TRUE /\ aborted = FALSE
  BY DEF Init
<1>2. /\ <<>> \in Lines /\ <<>> \in Seq(Lines) /\ <<>> \in Seq({"[", "3", "5"})
      /\ Len(<<>>) = 0 /\ 0 \in Nat
  BY LineAssumption DEF Lines
<1>3. terminal = [text |-> Prompt, col |-> 2, saved |-> 0] /\ terminal \in Terminal
  BY <1>1, PromptIsGlyph, IsTerminal
<1>4. Shaped
  BY Zenon, <1>1, <1>2, <1>3 DEF Shaped
<1>5. PositionsInRange
  BY <1>1, <1>2 DEF PositionsInRange
<1>6. HistoryIsNewest
  BY <1>1, LineAssumption DEF HistoryIsNewest
<1>7. ScreenInv
  <2>1. Shown = Prompt /\ Margin = 2
    BY <1>1, PromptIsGlyph DEF Shown, Margin
  <2> QED BY <2>1, <1>1, <1>3 DEF ScreenInv
<1> QED BY Zenon, <1>4, <1>5, <1>6, <1>7 DEF IInv

LEMMA Step == IInv /\ [Next]_vars => IInv'
<1> SUFFICES ASSUME IInv, [Next]_vars PROVE IInv'
  OBVIOUS
<1>1. ASSUME NEW c \in Typed, Type(c) PROVE IInv'
  BY <1>1, Typing
<1>2. CASE Backspace
  BY <1>2, Erasing
<1>3. CASE Enter
  BY <1>3, Entering
<1>4. CASE Escape
  BY <1>4, Escaping
<1>5. ASSUME NEW c \in {"[", "3", "5"}, SequenceByte(c) PROVE IInv'
  BY <1>5, InSequence
<1>6. CASE Up \/ Down
  BY <1>6, Browsing
<1>7. CASE Left \/ Right
  BY <1>7, Moving
<1>8. CASE Home \/ End
  BY <1>8, Jumping
<1>9. CASE Delete
  BY <1>9, Deleting
<1>10. CASE OtherKey
  BY <1>10, Ignoring
<1>11. CASE UNCHANGED vars
  BY Zenon, <1>11 DEF vars, line, past, ctrl, IInv, Shaped, PositionsInRange,
     HistoryIsNewest, ScreenInv, Shown, Margin
<1> QED BY Zenon, <1>1, <1>2, <1>3, <1>4, <1>5, <1>6, <1>7, <1>8, <1>9, <1>10, <1>11
        DEF Next, handle

LEMMA Invariant == Spec => []IInv
BY Initially, Step, PTL DEF Spec

\* Every variable keeps its type; in particular no line and no history grows
\* beyond its bound (ei_line_buffer.h:38-108, ei_at_history.h:40-108).
THEOREM TypeCorrect == Spec => []TypeOK
<1>1. Lines \subseteq Line
  <2> SUFFICES ASSUME NEW s \in Lines PROVE s \in Line
    OBVIOUS
  <2>1. s \in Seq(Typed) /\ Len(s) \in Nat /\ Len(s) <= MaxLine /\ MaxLine \in Nat
    BY LineIs, LineAssumption
  <2>2. Len(s) \in 0 .. MaxLine /\ s \in [1 .. Len(s) -> Typed]
    BY <2>1
  <2> QED BY Zenon, <2>2 DEF Line
<1>2. ASSUME IInv PROVE TypeOK
  <2>1. Shaped /\ PositionsInRange /\ HistoryIsNewest /\ history_max_size \in Nat \ {0}
        /\ MaxLine \in Nat
    BY <1>2, LineAssumption DEF IInv
  <2>2. buffer \in Line /\ position \in 0 .. MaxLine
    <3>1. buffer \in Lines /\ position \in Nat /\ position <= Len(buffer)
      BY <2>1 DEF Shaped, PositionsInRange
    <3>2. Len(buffer) \in Nat /\ Len(buffer) <= MaxLine
      BY <3>1, LineIs
    <3> QED BY <3>1, <3>2, <2>1, <1>1
  <2>3. history \in Seq(Line) /\ entered \in Seq(Line)
    BY <2>1, <1>1, Larger DEF Shaped
  <2>4. Len(history) \in Nat /\ Len(history) <= history_max_size
    <3> DEFINE n == Len(entered)
               k == Newest(n)
    <3>1. entered \in Seq(Lines) /\ n \in Nat
      BY <2>1 DEF Shaped
    <3>2. k \in 0 .. n /\ k <= history_max_size
      BY <3>1, <2>1 DEF Newest
    <3>3. history = SubSeq(entered, n - k + 1, n)
      BY Zenon, <2>1 DEF HistoryIsNewest, Newest
    <3> HIDE DEF k
    <3>4. n - k + 1 \in Nat \ {0} /\ n - k + 1 <= n + 1 /\ n - (n - k + 1) + 1 = k
      BY <3>1, <3>2
    <3>5. Len(SubSeq(entered, n - k + 1, n)) = n - (n - k + 1) + 1
      BY <3>1, <3>4, Piece
    <3>6. Len(history) = k
      BY Zenon, <3>3, <3>4, <3>5
    <3> QED BY <3>1, <3>2, <3>6, <2>1
  <2>5. history_position \in 0 .. history_max_size
    BY <2>1, <2>4 DEF Shaped, PositionsInRange
  <2>6. terminal \in [text : Seq(Typed \cup {">", " "}), col : Nat, saved : Nat]
    BY Zenon, <2>1 DEF Shaped, Terminal, Glyph
  <2>7. in_ctrl_char \in BOOLEAN /\ prompted \in BOOLEAN /\ aborted \in BOOLEAN
        /\ control_sequence \in Seq({"[", "3", "5"})
    BY Zenon, <2>1 DEF Shaped
  <2> QED BY Zenon, <2>2, <2>3, <2>4, <2>5, <2>6, <2>7 DEF TypeOK
<1> QED BY <1>2, Invariant, PTL

\* No key moves the edit position out of the line or the history position out
\* of the history (ei_line_buffer.h:56-99, ei_at_history.h:51-73).
THEOREM PositionsKept == Spec => []PositionsInRange
<1>1. IInv => PositionsInRange
  BY DEF IInv
<1> QED BY <1>1, Invariant, PTL

\* The history is the newest lines entered, in their order, for every length of
\* the history and wherever the user was in it (ei_at_history.h:85-99).
THEOREM HistoryKept == Spec => []HistoryIsNewest
<1>1. IInv => HistoryIsNewest
  BY DEF IInv
<1> QED BY <1>1, Invariant, PTL

\* Behind the prompt the screen shows the line that will be executed, with the
\* cursor where the next byte goes (ei_at_server.cpp:226-393).
THEOREM ScreenKept == Spec => []ScreenShowsLine
<1>1. ASSUME IInv PROVE ScreenShowsLine
  <2> SUFFICES ASSUME prompted, ~aborted
               PROVE  terminal.text = Prompt \o buffer /\ terminal.col = Len(Prompt) + position
    BY DEF ScreenShowsLine
  <2>1. terminal.text = Shown /\ terminal.col = Margin + position
    BY <1>1 DEF IInv, ScreenInv
  <2>2. Shown = Prompt \o buffer /\ Margin = Len(Prompt)
    BY PromptIsGlyph DEF Shown, Margin
  <2> QED BY Zenon, <2>1, <2>2
<1> QED BY <1>1, Invariant, PTL
==============================================================================
