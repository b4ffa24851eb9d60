------------------------------- MODULE AtServer -------------------------------
(***************************************************************************)
(* The AT server behind the line editor: the vector of registered commands *)
(* and the execution of a line (at-server/ei_at_server.cpp), and the       *)
(* parser it uses (at-server/ei_at_parser.cpp).  Module AtTable says what  *)
(* the two together are to do.                                             *)
(*                                                                         *)
(* A line is a sequence of pieces: "AT+", a name or a word as a whole, and *)
(* the characters the parser looks for.  Lines of blanks only do not get   *)
(* this far (see CommandLine).                                             *)
(***************************************************************************)
EXTENDS Integers, Sequences, FiniteSets

CONSTANTS
  Words,          \* whatever is in a line and the parser does not look for
  Names,          \* command names that are or may be registered
  HELP, INFO,     \* the built-in ones
  Requests,       \* what users ask for
  Junk,           \* lines that ask for nothing
  Kinds,          \* which handlers a registration brings: sets of types
  MaxRegistered   \* bound: registrations

ASSUME ServerAssumption ==
  /\ HELP \in Names /\ INFO \in Names /\ HELP # INFO
  /\ MaxRegistered \in Nat
  /\ Kinds \subseteq SUBSET {"RUN", "READ", "WRITE"}

Marks  == {"AT+", "SPACE", "TAB", "?", "=", ","}
Pieces == Words \cup Marks

\* An argument is one word, or empty.
Argument == {<<>>} \cup {<<w>> : w \in Pieces \ {"SPACE", ","}}

IsRequest(r) ==
  \/ r \in [type : {"RUN", "READ"}, command : Words, arguments : {<<>>}]
  \/ r \in [type : {"WRITE"}, command : Words, arguments : Seq(Argument) \ {<<>>}]

\* Behind the blanks, line has no AT+; or no name follows it; or the name is
\* neither the last of it nor followed by a mark.
AsksNothing(line) ==
  \E i \in 1 .. Len(line) :
    /\ line[i] \notin {"SPACE", "TAB"}
    /\ \A j \in 1 .. i - 1 : line[j] \in {"SPACE", "TAB"}
    /\ \/ line[i] # "AT+"
       \/ i = Len(line)
       \/ line[i + 1] \notin Names
       \/ /\ \E j \in i + 2 .. Len(line) : line[j] # "SPACE"
          /\ line[i + 2] \notin {"?", "="}

ASSUME LineAssumption ==
  /\ Names \subseteq Words /\ Words \cap Marks = {}
  /\ \A r \in Requests : IsRequest(r)
  /\ \A line \in Junk : line \in Seq(Pieces) /\ AsksNothing(line)

VARIABLES
  registered_commands,
  registrations,        \* how often a command was registered: numbers handlers
  answer,               \* what execute did last
  asked                 \* history: what the user asked for in that line

vars == <<registered_commands, registrations, answer, asked>>

\* A line of junk asks for nothing.
NoRequest == [type |-> "NONE"]

Command(n, kinds, id) == [command |-> n, kinds |-> kinds, id |-> id]

\* get_instance() without commands: register_default_commands.
Init ==
  /\ registered_commands = << Command(HELP, {"RUN"}, 0), Command(INFO, {"RUN"}, 0) >>
  /\ registrations = 0
  /\ answer = [kind |-> "invalid"] /\ asked = NoRequest

-----------------------------------------------------------------------------
(* ATParser::parse *)

Least(S) == CHOOSE i \in S : \A j \in S : i <= j
Most(S)  == CHOOSE i \in S : \A j \in S : i >= j

\* Positions of the pieces of s that are, or are not, one of cs.
At(s, cs)    == {i \in 1 .. Len(s) : s[i] \in cs}
NotAt(s, cs) == 1 .. Len(s) \ At(s, cs)

TrimLeft(s)  == SubSeq(s, Least(NotAt(s, {"SPACE", "TAB"})), Len(s))

\* Mutant: blanks at the end stay.
TrimRightNot(s) == s

TrimRight(s) ==
  SubSeq(s, 1, IF NotAt(s, {"SPACE"}) = {} THEN 0 ELSE Most(NotAt(s, {"SPACE"})))

\* Mutant: the argument behind the last comma is forgotten.
SplitShort(s) ==
  LET commas == At(s, {","})
      Cut(k) == CHOOSE i \in commas : Cardinality({j \in commas : j <= i}) = k
  IN  [k \in 1 .. Cardinality(commas) |->
         SubSeq(s, IF k = 1 THEN 1 ELSE Cut(k - 1) + 1, Cut(k) - 1)]

\* What lies between the commas: always one argument more than commas.
Split(s) ==
  LET commas == At(s, {","})
      Cut(k) == CASE k = 0 -> 0
                  [] k > Cardinality(commas) -> Len(s) + 1
                  [] OTHER -> CHOOSE i \in commas :
                                Cardinality({j \in commas : j <= i}) = k
  IN  [k \in 1 .. Cardinality(commas) + 1 |-> SubSeq(s, Cut(k - 1) + 1, Cut(k) - 1)]

Unknown == [type |-> "UNKNOWN", command |-> <<>>, arguments |-> <<>>]

parse(line) ==
  LET trimmed == TrimLeft(line)
      input == TrimRight(Tail(trimmed))
      marks == At(input, {"?", "="})
      pos   == IF marks = {} THEN Len(input) + 1 ELSE Least(marks)
      type  == IF marks = {} THEN "RUN" ELSE IF input[pos] = "=" THEN "WRITE" ELSE "READ"
  IN  IF Head(trimmed) # "AT+" THEN Unknown
      ELSE [type |-> type,
            command |-> SubSeq(input, 1, pos - 1),
            arguments |-> IF type = "WRITE"
                          THEN Split(SubSeq(input, pos + 1, Len(input))) ELSE <<>>]

-----------------------------------------------------------------------------
(* The vector of commands *)

Registered(n) == {i \in 1 .. Len(registered_commands) : registered_commands[i].command = n}

\* Mutant: the command that exists already is not removed.
EraseNot(cs, n) == cs

\* registered_commands without the first entry for n.
Erase(cs, n) ==
  LET at == {i \in 1 .. Len(cs) : cs[i].command = n}
  IN  IF at = {} THEN cs
      ELSE [k \in 1 .. Len(cs) - 1 |-> IF k < Least(at) THEN cs[k] ELSE cs[k + 1]]

NextHandler == /\ registrations < MaxRegistered
               /\ registrations' = registrations + 1

\* The built-in help cannot be registered.
register_command(n, kinds) ==
  /\ n # HELP
  /\ NextHandler
  /\ registered_commands' =
       Append(Erase(registered_commands, n), Command(n, kinds, registrations'))
  /\ UNCHANGED <<answer, asked>>

\* New handlers for a command that exists.
register_handlers(n, kinds) ==
  /\ Registered(n) # {}
  /\ NextHandler
  /\ registered_commands' =
       [registered_commands EXCEPT ![Least(Registered(n))] = Command(n, kinds, registrations')]
  /\ UNCHANGED <<answer, asked>>

-----------------------------------------------------------------------------
(* ATServer::execute *)

Answer(res) ==
  LET named == {i \in 1 .. Len(registered_commands) :
                  <<registered_commands[i].command>> = res.command}
      hit == registered_commands[Least(named)]
  IN  IF res.type = "UNKNOWN" THEN [kind |-> "invalid"]
      ELSE IF res.command = <<HELP>> /\ res.type = "RUN" THEN [kind |-> "help"]
      ELSE IF named = {} THEN [kind |-> "unknown"]
      ELSE IF res.type \in hit.kinds
      THEN [kind |-> "called", id |-> hit.id, type |-> res.type,
            arguments |-> res.arguments]
      ELSE [kind |-> "unhandled"]

execute(line) ==
  /\ answer' = Answer(parse(line))
  /\ UNCHANGED <<registered_commands, registrations>>

-----------------------------------------------------------------------------
(* How users write a request *)

\* Where argument k begins: behind k - 1 commas and the words before it.
Start(args, k) == k + Cardinality({j \in 1 .. k - 1 : args[j] # <<>>})

Joined(args) ==
  [i \in 1 .. Start(args, Len(args) + 1) - 2 |->
     LET k == Most({j \in 1 .. Len(args) : Start(args, j) <= i})
     IN  IF args[k] # <<>> /\ i = Start(args, k) THEN args[k][1] ELSE ","]

Written(r) ==
  <<"AT+", r.command>> \o
    CASE r.type = "RUN"   -> <<>>
      [] r.type = "READ"  -> <<"?">>
      [] r.type = "WRITE" -> <<"=">> \o Joined(r.arguments)

Blanks == {<<>>, <<"SPACE">>}
Leads  == Blanks \cup {<<"TAB">>}
Typed(r) == {lead \o Written(r) \o trail : lead \in Leads, trail \in Blanks}

Next ==
  \/ \E n \in Names, kinds \in Kinds :
       register_command(n, kinds) \/ register_handlers(n, kinds)
  \/ \E r \in Requests : asked' = r /\ \E line \in Typed(r) : execute(line)
  \/ asked' = NoRequest /\ \E line \in Junk : execute(line)

Spec == Init /\ [][Next]_vars

-----------------------------------------------------------------------------
(* Properties *)

TypeOK ==
  /\ registered_commands \in
       Seq([command : Names, kinds : SUBSET {"RUN", "READ", "WRITE"}, id : 0 .. MaxRegistered])
  /\ registrations \in 0 .. MaxRegistered
  /\ asked \in Requests \cup {NoRequest}
  /\ answer.kind \in {"invalid", "help", "unknown", "unhandled", "called"}
  /\ answer.kind = "called" =>
       /\ answer.type \in {"RUN", "READ", "WRITE"} /\ answer.id \in 0 .. MaxRegistered
       /\ answer.type = "WRITE" <=> Len(answer.arguments) > 0

\* "There shouldn't be another handler for same command"
\* (ei_at_server.cpp:121): no name is in the vector twice, so that the first
\* hit is the only one, and HELP and INFO never get lost.
NamesUnique ==
  /\ \A i, j \in 1 .. Len(registered_commands) :
       registered_commands[i].command = registered_commands[j].command => i = j
  /\ Registered(HELP) # {} /\ Registered(INFO) # {}

Entry(n) ==
  IF Registered(n) = {} THEN [kinds |-> {}, id |-> 0]
  ELSE LET c == registered_commands[Least(Registered(n))]
       IN  [kinds |-> c.kinds, id |-> c.id]

Table == INSTANCE AtTable WITH
  table <- [n \in Names |-> Entry(n)],
  answer <- IF answer.kind \in {"invalid", "unknown"} THEN [kind |-> "refused"] ELSE answer,
  Entries <- [kinds : Kinds, id : 1 .. MaxRegistered]

\* Parser, vector and execute together do what the table promises: whatever the
\* user asked for in a line is what is answered, from the latest registrations,
\* however the line is padded with blanks, and only a line that asks for nothing,
\* or for a name nobody registered, is refused
\* (ei_at_parser.cpp:47-116, ei_at_server.cpp:108-175, 395-453).
ImplementsTable == Table!TSpec
==============================================================================
