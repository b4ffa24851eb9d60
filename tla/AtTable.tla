------------------------------- MODULE AtTable -------------------------------
(***************************************************************************)
(* What the AT server promises: a table of commands, where the latest      *)
(* registration of a name counts.  A line that asks for something is       *)
(* answered from the table, as it was asked: the handler registered for    *)
(* its form is called with its arguments in order, and it is refused only  *)
(* when nobody registered its name.  A line that asks for nothing is       *)
(* refused.                                                                *)
(***************************************************************************)
EXTENDS Naturals, Sequences

CONSTANTS
  Names,       \* command names that are or may be registered
  HELP, INFO,  \* the built-in ones
  Requests,    \* what users ask for: records with type, command, arguments
  Entries      \* what may be registered: records with kinds and id

VARIABLES
  table,
  asked,     \* what the last line asked for, or NoRequest
  answer     \* what was done about it

tvars == <<table, asked, answer>>

NoRequest == [type |-> "NONE"]

Nothing == [kinds |-> {}, id |-> 0]
BuiltIn == [kinds |-> {"RUN"}, id |-> 0]

Refused   == [kind |-> "refused"]
NoHandler == [kind |-> "unhandled"]
Help      == [kind |-> "help"]
Called(id, r) == [kind |-> "called", id |-> id, type |-> r.type, arguments |-> r.arguments]

TInit ==
  /\ table = [n \in Names |-> IF n \in {HELP, INFO} THEN BuiltIn ELSE Nothing]
  /\ asked = NoRequest /\ answer = Refused

TRegister ==
  /\ \E n \in Names, e \in Entries : table' = [table EXCEPT ![n] = e]
  /\ UNCHANGED <<asked, answer>>

Answer(r) ==
  IF r.command = HELP /\ r.type = "RUN" THEN Help
  ELSE IF r.command \notin Names \/ table[r.command] = Nothing THEN Refused
  ELSE IF r.type \in table[r.command].kinds THEN Called(table[r.command].id, r)
  ELSE NoHandler

TExecute ==
  /\ asked' \in Requests
  /\ answer' = Answer(asked')
  /\ UNCHANGED table

TRefuse ==
  /\ asked' = NoRequest
  /\ answer' = Refused
  /\ UNCHANGED table

TNext == TRegister \/ TExecute \/ TRefuse

TSpec == TInit /\ [][TNext]_tvars
==============================================================================
