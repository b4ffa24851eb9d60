----------------------------- MODULE CommandLine -----------------------------
(***************************************************************************)
(* The line editor of the AT server: ATServer::handle takes one byte at a  *)
(* time, edits a LineBuffer, browses an ATHistory, and repaints the user's *)
(* terminal with escape sequences.  The screen line of that terminal is    *)
(* part of the model, for what matters to the user is that the line he     *)
(* sees is the line that is executed.                                      *)
(*                                                                         *)
(* A byte is a one-character string, "ESC", "CR" or "BS" (0x08 and 0x7f);  *)
(* 0x0a and other unprintable bytes are ignored and left out.  Lines are   *)
(* shorter than the terminal is wide, and it answers LF with CR LF.        *)
(***************************************************************************)
EXTENDS Naturals, Sequences

CONSTANTS
  Typed,            \* printable bytes the user types; " " is the blank
  KeySequences,     \* what the terminal's keys send after ESC
  history_max_size, \* ATHistory's default: 10
  MaxLine,          \* bound: length of a line
  MaxEnter          \* bound: non-empty lines entered

ASSUME LineAssumption ==
  /\ history_max_size \in Nat \ {0}
  /\ MaxLine \in Nat /\ MaxEnter \in Nat

VARIABLES
  buffer, position,             \* LineBuffer
  history, history_position,    \* ATHistory
  in_ctrl_char, control_sequence,
  terminal,                     \* [text, col, saved]: the screen's last line
  prompted,                     \* that line began with the prompt
  aborted,                      \* an exception ended the firmware
  entered                       \* history: the non-empty lines entered

line == <<buffer, position>>
past == <<history, history_position>>
ctrl == <<in_ctrl_char, control_sequence>>
vars == <<line, past, ctrl, terminal, prompted, aborted, entered>>

-----------------------------------------------------------------------------
(* The terminal (external): what its control sequences do                  *)

Prompt == <<">", " ">>

Put(t, s) ==
  LET end == t.col + Len(s)
      width == IF Len(t.text) > end THEN Len(t.text) ELSE end
  IN  [t EXCEPT !.col = end,
                !.text = [i \in 1 .. width |->
                            IF i \in t.col + 1 .. end THEN s[i - t.col]
                            ELSE IF i <= Len(t.text) THEN t.text[i] ELSE " "]]
Return(t)      == [t EXCEPT !.col = 0]
EraseRight(t)  == [t EXCEPT !.text = SubSeq(@, 1, t.col)]
EraseLine(t)   == [t EXCEPT !.text = <<>>]
Column(t, n)   == [t EXCEPT !.col = n - 1]
Save(t)        == [t EXCEPT !.saved = t.col]
Restore(t)     == [t EXCEPT !.col = t.saved]
Move(t, n)     == [t EXCEPT !.col = n]
FreshLine(t)   == [t EXCEPT !.text = <<>>, !.col = 0]

\* Mutant: the cursor is put one column short.
RepaintedShort(t, s, pos) ==
  Column(Put(EraseRight(Return(t)), Prompt \o s), pos + 2)

\* "\r\x1b[K> %s\x1b[%uG"
Repainted(t, s, pos) ==
  Column(Put(EraseRight(Return(t)), Prompt \o s), pos + 3)

-----------------------------------------------------------------------------
(* LineBuffer and ATHistory *)

Without(s, i) == SubSeq(s, 1, i - 1) \o SubSeq(s, i + 1, Len(s))

add(c) ==
  /\ buffer' = SubSeq(buffer, 1, position) \o <<c>>
                 \o SubSeq(buffer, position + 1, Len(buffer))
  /\ position' = position + 1

\* Mutant: the position stays.
do_backspaceInPlace == buffer' = Without(buffer, position) /\ UNCHANGED position

do_backspace == buffer' = Without(buffer, position) /\ position' = position - 1

do_delete == buffer' = Without(buffer, position + 1) /\ UNCHANGED position

Replace(s) == buffer' = s /\ position' = Len(s)

\* Mutant: the newest entry makes room for the new one.
RememberOldest(s) ==
  LET h == Append(history, s)
  IN  IF Len(h) > history_max_size
      THEN SubSeq(h, 1, history_max_size - 1) \o <<s>> ELSE h

\* The entries after ATHistory::add of a non-empty line.
Remember(s) ==
  LET h == Append(history, s)
  IN  IF Len(h) > history_max_size THEN Tail(h) ELSE h

\* Where ATHistory::go_back and go_next move, and what they show there.
Back == IF history_position = 0 THEN 0 ELSE history_position - 1

\* Mutant: the position may leave the history.
NextUnbounded == history_position + 1

Forward == IF history_position + 1 >= Len(history)
           THEN Len(history) ELSE history_position + 1
Entry(i) == IF i < Len(history) THEN history[i + 1] ELSE <<>>

-----------------------------------------------------------------------------

Init ==
  /\ buffer = <<>> /\ position = 0
  /\ history = <<>> /\ history_position = 0
  /\ in_ctrl_char = FALSE /\ control_sequence = <<>>
  /\ terminal = [text |-> Prompt, col |-> Len(Prompt), saved |-> 0]
  /\ prompted = TRUE
  /\ aborted = FALSE
  /\ entered = <<>>

(* Plain bytes *)

Ready == ~aborted /\ ~in_ctrl_char

\* At the end of the line the byte is echoed, else the line is repainted.
Type(c) ==
  /\ Ready /\ Len(buffer) < MaxLine
  /\ add(c)
  /\ IF position' = Len(buffer')
     THEN terminal' = Put(terminal, <<c>>) /\ UNCHANGED prompted
     ELSE /\ terminal' = Column(Put(Return(terminal), Prompt \o buffer'),
                                position' + 3)
          /\ prompted' = TRUE
  /\ UNCHANGED <<past, ctrl, aborted, entered>>

Backspace ==
  /\ Ready
  /\ buffer # <<>> /\ position # 0
  /\ do_backspace
  /\ terminal' = Repainted(terminal, buffer', position')
  /\ prompted' = TRUE
  /\ UNCHANGED <<past, ctrl, aborted, entered>>

\* The parser trims leading blanks with substr(find_first_not_of(" \t")).
OnlyBlanks(s) == s # <<>> /\ \A i \in 1 .. Len(s) : s[i] = " "

\* CR: the line is remembered, executed and cleared.  The handler says
\* whether a prompt follows; an empty line is "not a valid AT command".
Enter ==
  /\ Ready
  /\ IF buffer = <<>>
     THEN UNCHANGED <<past, entered>>
     ELSE /\ Len(entered) < MaxEnter
          /\ entered' = Append(entered, buffer)
          /\ history' = Remember(buffer)
          /\ history_position' = Len(history')
  /\ IF OnlyBlanks(buffer)
     THEN /\ aborted' = TRUE
          /\ UNCHANGED <<line, prompted>>
          /\ terminal' = FreshLine(terminal)
     ELSE /\ Replace(<<>>)
          /\ prompted' \in IF buffer = <<>> THEN {TRUE} ELSE BOOLEAN
          /\ terminal' = IF prompted' THEN Put(FreshLine(terminal), Prompt)
                         ELSE FreshLine(terminal)
          /\ UNCHANGED aborted
  /\ UNCHANGED ctrl

Escape ==
  /\ Ready
  /\ in_ctrl_char' = TRUE
  /\ terminal' = Save(terminal)
  /\ UNCHANGED <<line, past, control_sequence, prompted, aborted, entered>>

-----------------------------------------------------------------------------
(* Bytes of a control sequence *)

Sent(c) == \E k \in KeySequences :
             /\ Len(k) > Len(control_sequence)
             /\ SubSeq(k, 1, Len(control_sequence) + 1) = Append(control_sequence, c)

\* A letter or 0x7e ends the sequence.
SequenceByte(c) ==
  /\ ~aborted /\ in_ctrl_char /\ Sent(c)
  /\ c \in {"[", "3", "5"}
  /\ control_sequence' = Append(control_sequence, c)
  /\ UNCHANGED <<line, past, in_ctrl_char, terminal, prompted, aborted, entered>>

\* The byte that completes the sequence s.
Ends(s) ==
  /\ ~aborted /\ in_ctrl_char /\ Sent(s[Len(s)])
  /\ Append(control_sequence, s[Len(s)]) = s
  /\ in_ctrl_char' = FALSE /\ control_sequence' = <<>>
  /\ UNCHANGED <<aborted, entered>>

\* Up and down show another line of the history.
ShowEntry ==
  /\ Replace(Entry(history_position'))
  /\ terminal' = Put(Return(EraseLine(Restore(terminal))), Prompt \o buffer')
  /\ prompted' = TRUE
  /\ UNCHANGED history

Up ==
  /\ Ends(<<"[", "A">>)
  /\ history_position' = Back
  /\ ShowEntry

Down ==
  /\ Ends(<<"[", "B">>)
  /\ history_position' = Forward
  /\ ShowEntry

\* Left and right are sent back to the terminal, which moves its cursor.
Left ==
  /\ Ends(<<"[", "D">>)
  /\ IF position = 0
     THEN terminal' = Restore(terminal) /\ UNCHANGED position
     ELSE /\ position' = position - 1
          /\ terminal' = Move(terminal, IF terminal.col = 0 THEN 0 ELSE terminal.col - 1)
  /\ UNCHANGED <<buffer, past, prompted>>

Right ==
  /\ Ends(<<"[", "C">>)
  /\ IF position = Len(buffer)
     THEN terminal' = Restore(terminal) /\ UNCHANGED position
     ELSE position' = position + 1 /\ terminal' = Move(terminal, terminal.col + 1)
  /\ UNCHANGED <<buffer, past, prompted>>

Home ==
  /\ Ends(<<"[", "H">>)
  /\ position' = 0
  /\ terminal' = Repainted(terminal, buffer, position')
  /\ prompted' = TRUE
  /\ UNCHANGED <<buffer, past>>

End ==
  /\ Ends(<<"[", "F">>)
  /\ position' = Len(buffer)
  /\ terminal' = Repainted(terminal, buffer, position')
  /\ prompted' = TRUE
  /\ UNCHANGED <<buffer, past>>

Delete ==
  /\ Ends(<<"[", "3", "~">>)
  /\ IF position = Len(buffer)
     THEN UNCHANGED <<line, terminal, prompted>>
     ELSE /\ do_delete
          /\ terminal' = Repainted(terminal, buffer', position')
          /\ prompted' = TRUE
  /\ UNCHANGED past

\* Any other key is sent back; those of KeySequences move no cursor.
OtherKey ==
  /\ \E k \in KeySequences \ {<<"[", "A">>, <<"[", "B">>, <<"[", "C">>,
       <<"[", "D">>, <<"[", "F">>, <<"[", "H">>, <<"[", "3", "~">>} : Ends(k)
  /\ UNCHANGED <<line, past, terminal, prompted>>

-----------------------------------------------------------------------------

handle ==
  \/ \E c \in Typed : Type(c)
  \/ Backspace \/ Enter \/ Escape
  \/ \E c \in {"[", "3", "5"} : SequenceByte(c)
  \/ Up \/ Down \/ Left \/ Right \/ Home \/ End \/ Delete \/ OtherKey

Next == handle

Spec == Init /\ [][Next]_vars

-----------------------------------------------------------------------------
(* Properties *)

Line == UNION {[1 .. n -> Typed] : n \in 0 .. MaxLine}

TypeOK ==
  /\ buffer \in Line
  /\ position \in 0 .. MaxLine
  /\ history \in Seq(Line) /\ Len(history) <= history_max_size
  /\ history_position \in 0 .. history_max_size
  /\ in_ctrl_char \in BOOLEAN
  /\ control_sequence \in Seq({"[", "3", "5"})
  /\ terminal \in [text : Seq(Typed \cup {">", " "}), col : Nat, saved : Nat]
  /\ prompted \in BOOLEAN /\ aborted \in BOOLEAN
  /\ entered \in Seq(Line)

\* The edit position and the history position are always places the C++
\* library lets one insert, erase or look at: outside, std::string throws and
\* the vector reads past its end (ei_line_buffer.h:56-99,
\* ei_at_history.h:51-73).
PositionsInRange ==
  /\ position <= Len(buffer)
  /\ history_position <= Len(history)

\* The history is the newest lines entered, in order, however the user moved
\* about in it (ei_at_history.h:85-99).
HistoryIsNewest ==
  LET n == Len(entered)
      kept == IF n > history_max_size THEN history_max_size ELSE n
  IN  history = SubSeq(entered, n - kept + 1, n)

\* What the user sees is what will be executed: behind the prompt the screen
\* shows the line buffer, with the cursor where the next byte goes, whatever
\* mix of echo, repainting and cursor keys led there (ei_at_server.cpp:226-393).
ScreenShowsLine ==
  prompted /\ ~aborted =>
    /\ terminal.text = Prompt \o buffer
    /\ terminal.col = Len(Prompt) + position

\* "trim leading whitespaces" (ei_at_parser.cpp:61): a line of blanks is
\* trimmed like any other, and refused.
BlankLineIsRefused == ~aborted
==============================================================================
