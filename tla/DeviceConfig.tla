----------------------------- MODULE DeviceConfig -----------------------------
(***************************************************************************)
(* The device's settings: the members of EiDeviceInfo, their copy in the   *)
(* configuration block, the AT commands that set and clear them, and the   *)
(* one that reads them to start a recording.                               *)
(*                                                                         *)
(* A command with several arguments calls one setter after the other, and  *)
(* each setter saves the whole configuration, which may fail; a reset may  *)
(* come between any two of them.  A text is its length: nothing else of it *)
(* matters here.  Intervals count 1/PerMs milliseconds.                    *)
(***************************************************************************)
EXTENDS Integers, Sequences

CONSTANTS
  Labels, Keys, Hosts, ApiKeys, Urls,   \* texts the user may send
  Intervals, Lengths,                   \* numbers, or Junk
  Junk,                                 \* a word stof and stoi do not accept
  PerMs,                                \* unit of intervals
  Word,                                 \* 2^32
  FrameSamples,                         \* AUIO_SAMPLE_BUFFER_NUMBER: 1600
  HeaderRoom,                           \* room for the CBOR header: 1024 - 64
  available,                            \* get_available_sample_bytes(): 393216
  frequency,                            \* announced: 16 samples in a ms
  MaxCommands                           \* bound: commands in a session

ASSUME ConfigAssumption ==
  /\ Labels \cup Keys \cup Hosts \cup ApiKeys \cup Urls \subseteq Nat
  /\ Junk \notin Int
  /\ Intervals \subseteq Int \cup {Junk} /\ Lengths \subseteq Int \cup {Junk}
  /\ Word \in Nat \ {0} /\ PerMs \in Nat \ {0} /\ FrameSamples \in Nat \ {0}
  /\ MaxCommands \in Nat

Text == {"sample_label", "sample_hmac_key", "upload_host", "upload_api_key", "management_url"}
Field == Text \cup {"sample_interval_ms", "sample_length_ms"}

\* The members as the constructor leaves them: the two numbers have no
\* initialiser, but the device is a static object.
Default ==
  [f \in Field |->
     CASE f = "sample_label" -> 4 [] f = "sample_hmac_key" -> 13
       [] f = "upload_host" -> 4  [] f = "upload_api_key" -> 16
       [] f = "management_url" -> 4 [] OTHER -> 0]

\* clear_config
Cleared == [f \in Field |-> 0]

\* What strncpy leaves of a text in EiConfig.
Cut(f, v) ==
  LET room == IF f = "sample_hmac_key" THEN 33 ELSE 128
  IN  IF f \in Text /\ v > room THEN room ELSE v

VARIABLES
  fields,       \* members of EiDeviceInfo
  stored,       \* configuration block: an EiConfig, or <<>> without the magic
  todo,         \* assignments the running command has still to make
  dead,         \* an exception was thrown
  recording,    \* of the last AT+SAMPLESTART: length, interval, samples_required
  commands,     \* commands so far
  before,       \* history: fields when the running command began
  kept          \* history: the last change of a field was saved

vars == <<fields, stored, todo, dead, recording, commands, before, kept>>

Idle == todo = <<>> /\ ~dead

Init ==
  /\ fields = Default /\ before = Default
  /\ stored = <<>>
  /\ todo = <<>> /\ dead = FALSE
  /\ recording = <<0, 0, 0>>
  /\ commands = 0
  /\ kept = FALSE

-----------------------------------------------------------------------------
(* The commands, each the setters it calls *)

Set(f, v) == <<f, v>>

\* stoi answers an int, the field is an uint32_t.
AsUint(n) == IF n = Junk THEN Junk ELSE n % Word

SampleWords(l, i, n) ==
  <<Set("sample_label", l), Set("sample_interval_ms", i), Set("sample_length_ms", AsUint(n))>>

\* The key may be left out.
at_set_sample_settings ==
  {SampleWords(l, i, n) : l \in Labels, i \in Intervals, n \in Lengths} \cup
  {Append(SampleWords(l, i, n), Set("sample_hmac_key", k)) :
     l \in Labels, i \in Intervals, n \in Lengths, k \in Keys}

at_set_upload_settings ==
  { <<Set("upload_api_key", k), Set("upload_host", h)>> : k \in ApiKeys, h \in Hosts }

at_set_upload_host == { <<Set("upload_host", h)>> : h \in Hosts }

at_set_mgmt_settings == { <<Set("management_url", u)>> : u \in Urls }

Writes ==
  at_set_sample_settings \cup at_set_upload_settings \cup at_set_upload_host
    \cup at_set_mgmt_settings

NextCommand ==
  /\ Idle /\ commands < MaxCommands
  /\ commands' = commands + 1

\* Too few arguments change nothing and are no action.
BeginWrite ==
  /\ NextCommand
  /\ todo' \in Writes
  /\ before' = fields
  /\ UNCHANGED <<fields, stored, dead, recording, kept>>

\* Mutant: a setter saves before it assigns.
SavesOld(f) == /\ stored' = [g \in Field |-> Cut(g, fields[g])]
               /\ kept' = TRUE

\* save_config with the members f.
Saves(f) == /\ stored' = [g \in Field |-> Cut(g, f[g])]
            /\ kept' = TRUE

\* ei_malloc failed, which no setter looks at.
SaveFails == kept' = FALSE /\ UNCHANGED stored

\* One setter.
Assign ==
  /\ todo # <<>> /\ ~dead
  /\ LET a == Head(todo)
     IN  /\ a[2] # Junk
         /\ fields' = [fields EXCEPT ![a[1]] = a[2]]
  /\ Saves(fields') \/ SaveFails
  /\ todo' = Tail(todo)
  /\ UNCHANGED <<dead, recording, commands, before>>

\* Mutant: the exception is caught and the command given up.
GiveUp == todo' = <<>> /\ UNCHANGED dead

Abort == dead' = TRUE /\ UNCHANGED todo

\* stof or stoi throws; nothing catches it.
Throw ==
  /\ todo # <<>> /\ ~dead
  /\ Head(todo)[2] = Junk
  /\ Abort
  /\ UNCHANGED <<fields, stored, recording, commands, before, kept>>

\* AT+CLEARCONFIG: neither saved nor followed by a restart.
at_clear_config ==
  /\ NextCommand
  /\ fields' = Cleared
  /\ kept' = FALSE
  /\ UNCHANGED <<stored, todo, dead, recording, before>>

\* The constructor: load_config without the magic changes nothing.
load_config(block) == IF block = <<>> THEN Default ELSE block

\* A reset at any time.  The memory is initialised from flash with the rest.
Reset ==
  /\ stored' = <<>>
  /\ fields' = load_config(<<>>) /\ before' = Default
  /\ todo' = <<>> /\ dead' = FALSE /\ kept' = FALSE
  /\ recording' = <<0, 0, 0>>
  /\ UNCHANGED commands

-----------------------------------------------------------------------------
(* AT+SAMPLESTART with one of the two microphones *)

\* (uint32_t)(length / interval), a float: the conversion saturates, and
\* makes 0 of 0/0 and of what is negative.
Quotient(length, interval) ==
  CASE interval > 0 -> LET q == (length * PerMs) \div interval
                       IN  IF q < Word THEN q ELSE Word - 1
    [] interval = 0 -> IF length = 0 THEN 0 ELSE Word - 1
    [] interval < 0 -> 0

\* Mutant: the largest count is rounded up to the one behind it.
EvenWide(n) == n + (n % 2)

\* "Round to even number of samples": of the largest count this makes 0.
Even(n) == (n + (n % 2)) % Word

at_sample_start ==
  /\ NextCommand
  /\ LET length == fields["sample_length_ms"]
         interval == fields["sample_interval_ms"]
     IN  recording' = <<length, interval, Even(Quotient(length, interval))>>
  /\ UNCHANGED <<fields, stored, todo, dead, before, kept>>

Next ==
  \/ BeginWrite \/ Assign \/ Throw
  \/ at_clear_config \/ at_sample_start \/ Reset

Spec == Init /\ [][Next]_vars

-----------------------------------------------------------------------------
(* Properties *)

Value == Int \cup {Junk}

TypeOK ==
  /\ fields \in [Field -> Int] /\ before \in [Field -> Int]
  /\ stored = <<>> \/ stored \in [Field -> Int]
  /\ todo \in Seq(Field \X Value)
  /\ dead \in BOOLEAN /\ kept \in BOOLEAN
  /\ recording \in Int \X Int \X (0 .. Word - 1)
  /\ commands \in 0 .. MaxCommands

\* Unless the last save failed or the settings were cleared, the stored block
\* restores every field, texts up to their room: one save that succeeds makes
\* up for all that failed before it, whichever setter made it
\* (ei_device_info_lib.h:145-205).
StoredIsCurrent ==
  kept => \A f \in Field : load_config(stored)[f] = Cut(f, fields[f])

\* Mutant: seven seconds are announced.
max_sample_length_s7 == 7

\* What AT+CONFIG? announces for both microphones.
max_sample_length_s == 5

\* A recording's bytes: header, whole frames of four bytes a sample, end mark.
Needed(samples) ==
  HeaderRoom + 4 * FrameSamples * ((samples + FrameSamples - 1) \div FrameSamples) + 4

\* A recording within the announced length and frequency fits into the
\* memory, whatever was set, cleared or refused before
\* (ei_device_apollo4.cpp:52-60, ei_mic.cpp:201-206, 503-535).
AnnouncedFits ==
  LET length == recording[1]  interval == recording[2]
  IN  length <= 1000 * max_sample_length_s /\ interval * frequency >= PerMs
        => Needed(recording[3]) <= available

\* Seen between two commands, a command has set everything it names or
\* nothing: a reset or an exception in the middle leaves no half of it behind
\* (ei_at_handlers.cpp:354-426, 474-500).
WellFormed == {w \in Writes : \A i \in DOMAIN w : w[i][2] # Junk}
Whole == INSTANCE Settings
  WITH settings <- IF todo = <<>> THEN fields ELSE before,
       Updates <- {{w[i] : i \in DOMAIN w} : w \in WellFormed}
CommandsAreWhole == Whole!SSpec
==============================================================================
