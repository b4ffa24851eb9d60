-------------------------- MODULE DeviceConfigProofs --------------------------
(***************************************************************************)
(* The settings and their stored copy, for every set of texts and numbers  *)
(* a user may send, and every number of commands and resets.               *)
(***************************************************************************)
EXTENDS DeviceConfig, TLAPS

Assignment == Field \X Value

LEMMA ConstantRecords == Default \in [Field -> Int] /\ Cleared \in [Field -> Int]
  BY DEF Default, Cleared

LEMMA CutKeepsType ==
  ASSUME NEW r \in [Field -> Int]
  PROVE  [g \in Field |-> Cut(g, r[g])] \in [Field -> Int]
  BY DEF Cut

LEMMA UintIsValue == ASSUME NEW n \in Lengths PROVE AsUint(n) \in Value
<1>1. CASE n = Junk
  BY <1>1 DEF AsUint, Value
<1>2. CASE n # Junk
  <2>1. n \in Int /\ Word \in Nat \ {0}
    BY <1>2, ConfigAssumption
  <2>2. n % Word \in Int
    BY <2>1
  <2> QED BY <1>2, <2>2 DEF AsUint, Value
<1> QED BY <1>1, <1>2

\* Every write command is a sequence of assignments to fields.
LEMMA WritesTyped == ASSUME NEW w \in Writes PROVE w \in Seq(Assignment)
<1>1. CASE w \in at_set_sample_settings
  <2>1. ASSUME NEW l \in Labels, NEW i \in Intervals, NEW n \in Lengths
        PROVE  SampleWords(l, i, n) \in Seq(Assignment)
    <3>1. /\ Set("sample_label", l) \in Assignment
          /\ Set("sample_interval_ms", i) \in Assignment
          /\ Set("sample_length_ms", AsUint(n)) \in Assignment
      BY UintIsValue, ConfigAssumption DEF Set, Assignment, Value, Field, Text
    <3> QED BY <3>1 DEF SampleWords
  <2>2. ASSUME NEW k \in Keys PROVE Set("sample_hmac_key", k) \in Assignment
    BY ConfigAssumption DEF Set, Assignment, Value, Field, Text
  <2>3. CASE \E l \in Labels, i \in Intervals, n \in Lengths : w = SampleWords(l, i, n)
    BY <2>1, <2>3
  <2>4. CASE \E l \in Labels, i \in Intervals, n \in Lengths, k \in Keys :
               w = Append(SampleWords(l, i, n), Set("sample_hmac_key", k))
    BY <2>1, <2>2, <2>4
  <2> QED BY <1>1, <2>3, <2>4 DEF at_set_sample_settings
<1>2. CASE w \in at_set_upload_settings
  <2>1. PICK k \in ApiKeys, h \in Hosts :
          w = <<Set("upload_api_key", k), Set("upload_host", h)>>
    BY <1>2 DEF at_set_upload_settings
  <2>2. Set("upload_api_key", k) \in Assignment /\ Set("upload_host", h) \in Assignment
    BY ConfigAssumption DEF Set, Assignment, Value, Field, Text
  <2> QED BY <2>1, <2>2
<1>3. CASE w \in at_set_upload_host
  <2>1. PICK h \in Hosts : w = <<Set("upload_host", h)>>
    BY <1>3 DEF at_set_upload_host
  <2>2. Set("upload_host", h) \in Assignment
    BY ConfigAssumption DEF Set, Assignment, Value, Field, Text
  <2> QED BY <2>1, <2>2
<1>4. CASE w \in at_set_mgmt_settings
  <2>1. PICK u \in Urls : w = <<Set("management_url", u)>>
    BY <1>4 DEF at_set_mgmt_settings
  <2>2. Set("management_url", u) \in Assignment
    BY ConfigAssumption DEF Set, Assignment, Value, Field, Text
  <2> QED BY <2>1, <2>2
<1> QED BY <1>1, <1>2, <1>3, <1>4 DEF Writes

-----------------------------------------------------------------------------
(* Types and the stored copy *)

\* What the two invariants need: a block that is current has the magic.
ConfigInv ==
  /\ fields \in [Field -> Int] /\ before \in [Field -> Int]
  /\ stored = <<>> \/ stored \in [Field -> Int]
  /\ todo \in Seq(Assignment)
  /\ recording \in Int \X Int \X (0 .. Word - 1)
  /\ commands \in 0 .. MaxCommands
  /\ kept => stored = [g \in Field |-> Cut(g, fields[g])]

\* A record with the fields is not the empty block.
LEMMA BlockHasMagic == ASSUME NEW r \in [Field -> Int] PROVE r # <<>>
<1>1. DOMAIN r = Field /\ "sample_label" \in Field
  BY DEF Field, Text
<1>2. DOMAIN << >> = 1 .. 0
  OBVIOUS
<1> QED BY <1>1, <1>2

LEMMA InitConfig == Init => ConfigInv
<1> SUFFICES ASSUME Init PROVE ConfigInv
  OBVIOUS
<1>1. Default \in [Field -> Int]
  BY ConstantRecords
<1>2. Word - 1 \in Nat /\ 0 \in 0 .. Word - 1 /\ MaxCommands \in Nat
  BY ConfigAssumption
<1> QED BY <1>1, <1>2 DEF Init, ConfigInv

LEMMA AssignKeeps == ConfigInv /\ Assign => ConfigInv'
<1> SUFFICES ASSUME ConfigInv, Assign PROVE ConfigInv'
  OBVIOUS
<1> DEFINE a == Head(todo)
<1>1. a \in Assignment /\ Tail(todo) \in Seq(Assignment)
  BY DEF Assign, ConfigInv
<1>2. a[1] \in Field /\ a[2] \in Int
  BY <1>1 DEF Assign, Assignment, Value
<1>3. fields' = [fields EXCEPT ![a[1]] = a[2]] /\ todo' = Tail(todo)
  BY DEF Assign
<1>4. fields' \in [Field -> Int]
  BY <1>2, <1>3 DEF ConfigInv
<1>5. [g \in Field |-> Cut(g, fields'[g])] \in [Field -> Int]
  BY <1>4, CutKeepsType
<1>6. CASE Saves(fields')
  BY <1>1, <1>3, <1>4, <1>5, <1>6 DEF Saves, Assign, ConfigInv
<1>7. CASE SaveFails
  BY <1>1, <1>3, <1>4, <1>7 DEF SaveFails, Assign, ConfigInv
<1> QED BY <1>6, <1>7 DEF Assign

LEMMA NextKeeps == ConfigInv /\ [Next]_vars => ConfigInv'
<1> SUFFICES ASSUME ConfigInv, [Next]_vars PROVE ConfigInv'
  OBVIOUS
<1>a. MaxCommands \in Nat /\ Word \in Nat \ {0}
  BY ConfigAssumption
<1>1. CASE BeginWrite
  <2>1. todo' \in Seq(Assignment)
    BY <1>1, WritesTyped DEF BeginWrite
  <2>2. commands' \in 0 .. MaxCommands
    BY <1>1, <1>a DEF BeginWrite, NextCommand, ConfigInv
  <2> QED BY <1>1, <2>1, <2>2 DEF BeginWrite, ConfigInv
<1>2. CASE Assign
  BY <1>2, AssignKeeps
<1>3. CASE Throw
  BY <1>3 DEF Throw, Abort, ConfigInv
<1>4. CASE at_clear_config
  <2>1. commands' \in 0 .. MaxCommands
    BY <1>4, <1>a DEF at_clear_config, NextCommand, ConfigInv
  <2> QED BY <1>4, <2>1, ConstantRecords DEF at_clear_config, ConfigInv
<1>5. CASE at_sample_start
  <2> DEFINE l == fields["sample_length_ms"]
             i == fields["sample_interval_ms"]
  <2>1. commands' \in 0 .. MaxCommands
    BY <1>5, <1>a DEF at_sample_start, NextCommand, ConfigInv
  <2>2. l \in Int /\ i \in Int
    BY DEF ConfigInv, Field, Text
  <2>3. Quotient(l, i) \in Int
    <3>1. l * PerMs \in Int
      BY <2>2, ConfigAssumption
    <3> HIDE DEF l, i
    <3>2. CASE i > 0
      <4>1. (l * PerMs) \div i \in Int
        BY <3>1, <3>2, <2>2
      <4>2. Quotient(l, i) = (l * PerMs) \div i \/ Quotient(l, i) = Word - 1
        BY <3>2, <2>2 DEF Quotient
      <4> QED BY <4>1, <4>2, <1>a
    <3>3. CASE i = 0
      <4>1. Quotient(l, i) = 0 \/ Quotient(l, i) = Word - 1
        BY <3>3, <2>2 DEF Quotient
      <4> QED BY <4>1, <1>a
    <3>4. CASE i < 0
      <4>1. Quotient(l, i) = 0
        BY <3>4, <2>2 DEF Quotient
      <4> QED BY <4>1
    <3> QED BY <3>2, <3>3, <3>4, <2>2
  <2>4. Even(Quotient(l, i)) \in 0 .. Word - 1
    BY <2>3, <1>a DEF Even
  <2>5. recording' = <<l, i, Even(Quotient(l, i))>>
    BY <1>5 DEF at_sample_start
  <2>6. recording' \in Int \X Int \X (0 .. Word - 1)
    BY <2>2, <2>4, <2>5
  <2> QED BY <1>5, <2>1, <2>6 DEF at_sample_start, ConfigInv
<1>6. CASE Reset
  <2>1. fields' = Default /\ before' = Default
    BY <1>6 DEF Reset, load_config
  <2>2. <<0, 0, 0>> \in Int \X Int \X (0 .. Word - 1)
    BY <1>a
  <2> QED BY <1>6, <2>1, <2>2, ConstantRecords DEF Reset, ConfigInv
<1>7. CASE UNCHANGED vars
  BY <1>7 DEF vars, ConfigInv
<1> QED BY <1>1, <1>2, <1>3, <1>4, <1>5, <1>6, <1>7 DEF Next

LEMMA ConfigAlways == Spec => []ConfigInv
<1>1. Init => ConfigInv
  BY InitConfig
<1>2. ConfigInv /\ [Next]_vars => ConfigInv'
  BY NextKeeps
<1> QED BY <1>1, <1>2, PTL DEF Spec

\* Unless the last save failed or the settings were cleared, the stored block
\* restores every field up to its room (ei_device_info_lib.h:145-205).
THEOREM StoredCopyIsCurrent == Spec => []StoredIsCurrent
<1>1. ConfigInv => StoredIsCurrent
  <2> SUFFICES ASSUME ConfigInv, kept, NEW f \in Field
               PROVE  load_config(stored)[f] = Cut(f, fields[f])
    BY DEF StoredIsCurrent
  <2>1. stored = [g \in Field |-> Cut(g, fields[g])]
    BY DEF ConfigInv
  <2>2. stored # <<>>
    BY <2>1, CutKeepsType, BlockHasMagic DEF ConfigInv
  <2> QED BY <2>1, <2>2 DEF load_config
<1> QED BY <1>1, ConfigAlways, PTL

\* Every variable keeps its type.
THEOREM TypeCorrect == Spec => []TypeOK
<1> DEFINE Flags == dead \in BOOLEAN /\ kept \in BOOLEAN
<1>1. Init => Flags
  BY Zenon DEF Init
<1>2. Flags /\ [Next]_vars => Flags'
  <2> SUFFICES ASSUME Flags, [Next]_vars PROVE Flags'
    OBVIOUS
  <2>1. CASE BeginWrite
    BY <2>1, Zenon DEF BeginWrite
  <2>2. CASE Assign
    BY <2>2, Zenon DEF Assign, Saves, SaveFails
  <2>3. CASE Throw
    BY <2>3, Zenon DEF Throw, Abort
  <2>4. CASE at_clear_config
    BY <2>4, Zenon DEF at_clear_config
  <2>5. CASE at_sample_start
    BY <2>5, Zenon DEF at_sample_start
  <2>6. CASE Reset
    BY <2>6, Zenon DEF Reset
  <2>7. CASE UNCHANGED vars
    BY <2>7, Zenon DEF vars
  <2> QED BY <2>1, <2>2, <2>3, <2>4, <2>5, <2>6, <2>7, Zenon DEF Next
<1>3. ConfigInv /\ Flags => TypeOK
  <2> SUFFICES ASSUME ConfigInv, Flags PROVE TypeOK
    OBVIOUS
  <2>1. dead \in BOOLEAN /\ kept \in BOOLEAN
    BY Zenon
  <2>2. fields \in [Field -> Int] /\ before \in [Field -> Int]
    BY DEF ConfigInv
  <2>3. (stored = <<>> \/ stored \in [Field -> Int]) /\ todo \in Seq(Field \X Value)
    BY DEF ConfigInv, Assignment
  <2>4. recording \in Int \X Int \X (0 .. Word - 1) /\ commands \in 0 .. MaxCommands
    BY DEF ConfigInv
  <2> QED BY <2>1, <2>2, <2>3, <2>4, Zenon DEF TypeOK
<1> HIDE DEF Flags
<1> QED BY <1>1, <1>2, <1>3, ConfigAlways, PTL DEF Spec

-----------------------------------------------------------------------------
(* Commands are whole *)

\* A command names a field once, and something.
Separate(w) ==
  /\ w # <<>>
  /\ \A i, j \in 1 .. Len(w) : w[i][1] = w[j][1] => i = j

LEMMA WritesSeparate == ASSUME NEW w \in Writes PROVE Separate(w)
<1>1. CASE w \in at_set_sample_settings
  <2>1. CASE \E l \in Labels, i \in Intervals, n \in Lengths : w = SampleWords(l, i, n)
    BY <2>1 DEF SampleWords, Set, Separate
  <2>2. CASE \E l \in Labels, i \in Intervals, n \in Lengths, k \in Keys :
               w = Append(SampleWords(l, i, n), Set("sample_hmac_key", k))
    <3>1. PICK l \in Labels, i \in Intervals, n \in Lengths, k \in Keys :
            w = Append(SampleWords(l, i, n), Set("sample_hmac_key", k))
      BY <2>2
    <3>2. /\ Len(w) = 4
          /\ w[1][1] = "sample_label" /\ w[2][1] = "sample_interval_ms"
          /\ w[3][1] = "sample_length_ms" /\ w[4][1] = "sample_hmac_key"
      BY <3>1 DEF SampleWords, Set
    <3>3. w # <<>>
      BY <3>2
    <3>4. \A p, q \in 1 .. 4 : w[p][1] = w[q][1] => p = q
      <4> SUFFICES ASSUME NEW p \in 1 .. 4, NEW q \in 1 .. 4, p # q
                   PROVE  w[p][1] # w[q][1]
        OBVIOUS
      <4>1. p \in {1, 2, 3, 4} /\ q \in {1, 2, 3, 4}
        OBVIOUS
      <4> QED BY <4>1, <3>2
    <3> QED BY <3>2, <3>3, <3>4 DEF Separate
  <2> QED BY <1>1, <2>1, <2>2 DEF at_set_sample_settings
<1>2. CASE w \in at_set_upload_settings
  BY <1>2 DEF at_set_upload_settings, Set, Separate
<1>3. CASE w \in at_set_upload_host
  BY <1>3 DEF at_set_upload_host, Set, Separate
<1>4. CASE w \in at_set_mgmt_settings
  BY <1>4 DEF at_set_mgmt_settings, Set, Separate
<1> QED BY <1>1, <1>2, <1>3, <1>4 DEF Writes

\* The first k assignments of w are what tells fields from before.
Done(w, k) ==
  /\ \A i \in 1 .. k : w[i][2] # Junk /\ fields[w[i][1]] = w[i][2]
  /\ \A f \in Field : (\A i \in 1 .. k : w[i][1] # f) => fields[f] = before[f]

Progress ==
  todo # <<>> =>
    \E w \in Writes, k \in Nat :
      k <= Len(w) /\ todo = SubSeq(w, k + 1, Len(w)) /\ Done(w, k)

\* One more assignment of a command.
LEMMA OneMore ==
  ASSUME ConfigInv, Assign, NEW w \in Writes, NEW k \in Nat,
         k <= Len(w), todo = SubSeq(w, k + 1, Len(w)), Done(w, k)
  PROVE  /\ k + 1 <= Len(w)
         /\ Tail(todo) = SubSeq(w, k + 2, Len(w))
         /\ Done(w, k + 1)'
<1>1. w \in Seq(Assignment) /\ Separate(w)
  BY WritesTyped, WritesSeparate
<1>2. Len(todo) = Len(w) - k /\ todo # <<>>
  BY <1>1 DEF Assign
<1>3. k + 1 <= Len(w) /\ k + 1 \in 1 .. Len(w)
  BY <1>1, <1>2 DEF ConfigInv
<1>4. Head(todo) = w[k + 1]
  BY <1>1, <1>3
<1>5. Tail(todo) = SubSeq(w, k + 2, Len(w))
  BY <1>1, <1>3
<1>6. \A i \in 1 .. Len(w) : w[i] \in Assignment /\ w[i][1] \in Field
  BY <1>1 DEF Assignment
<1>7. /\ fields' = [fields EXCEPT ![w[k + 1][1]] = w[k + 1][2]]
      /\ w[k + 1][2] # Junk
      /\ before' = before
  BY <1>4 DEF Assign
<1>8. \A f \in Field : fields'[f] = IF f = w[k + 1][1] THEN w[k + 1][2] ELSE fields[f]
  BY <1>7 DEF ConfigInv
<1>9. ASSUME NEW i \in 1 .. k + 1
      PROVE  w[i][2] # Junk /\ fields'[w[i][1]] = w[i][2]
  <2>1. CASE i = k + 1
    BY <2>1, <1>3, <1>6, <1>7, <1>8
  <2>2. CASE i # k + 1
    <3>1. i \in 1 .. k /\ i \in 1 .. Len(w)
      BY <2>2, <1>3
    <3>2. w[i][1] # w[k + 1][1]
      BY <3>1, <2>2, <1>1, <1>3 DEF Separate
    <3> QED BY <3>1, <3>2, <1>6, <1>8 DEF Done
  <2> QED BY <2>1, <2>2
<1>10. ASSUME NEW f \in Field, \A i \in 1 .. k + 1 : w[i][1] # f
       PROVE  fields'[f] = before'[f]
  <2>1. f # w[k + 1][1] /\ \A i \in 1 .. k : w[i][1] # f
    BY <1>10
  <2> QED BY <2>1, <1>7, <1>8 DEF Done
<1> QED BY <1>3, <1>5, <1>9, <1>10 DEF Done

LEMMA ProgressKept == ConfigInv /\ Progress /\ [Next]_vars => Progress'
<1> SUFFICES ASSUME ConfigInv, Progress, [Next]_vars PROVE Progress'
  OBVIOUS
<1>1. CASE BeginWrite
  <2>1. todo' \in Writes /\ before' = fields' /\ todo' \in Seq(Assignment)
    BY <1>1, WritesTyped DEF BeginWrite
  <2>2. todo' = SubSeq(todo', 1, Len(todo')) /\ 0 <= Len(todo') /\ 0 + 1 = 1
    BY <2>1
  <2>3. Done(todo, 0)'
    BY <2>1 DEF Done
  <2> QED BY <2>1, <2>2, <2>3 DEF Progress
<1>2. CASE Assign
  <2>1. PICK w \in Writes, k \in Nat :
          k <= Len(w) /\ todo = SubSeq(w, k + 1, Len(w)) /\ Done(w, k)
    BY <1>2 DEF Assign, Progress
  <2>2. /\ k + 1 <= Len(w) /\ Tail(todo) = SubSeq(w, k + 2, Len(w))
        /\ Done(w, k + 1)'
    BY <1>2, <2>1, OneMore
  <2>3. todo' = SubSeq(w, (k + 1) + 1, Len(w)) /\ k + 1 \in Nat
    BY <1>2, <2>2 DEF Assign
  <2> QED BY <2>2, <2>3 DEF Progress, Done
<1>3. CASE Throw
  BY <1>3 DEF Throw, Abort, Progress, Done
<1>4. CASE at_clear_config
  BY <1>4 DEF at_clear_config, NextCommand, Idle, Progress
<1>5. CASE at_sample_start
  BY <1>5 DEF at_sample_start, NextCommand, Idle, Progress
<1>6. CASE Reset
  BY <1>6 DEF Reset, Progress
<1>7. CASE UNCHANGED vars
  BY <1>7 DEF vars, Progress, Done
<1> QED BY <1>1, <1>2, <1>3, <1>4, <1>5, <1>6, <1>7 DEF Next

\* The settings as they are seen between two commands.
seen == IF todo = <<>> THEN fields ELSE before

\* A command's last setter makes all of it visible.
LEMMA LastSetter ==
  ASSUME ConfigInv, Progress, Assign, Tail(todo) = <<>>
  PROVE  Whole!Change
<1>1. PICK w \in Writes, k \in Nat :
        k <= Len(w) /\ todo = SubSeq(w, k + 1, Len(w)) /\ Done(w, k)
  BY DEF Assign, Progress
<1>2. /\ k + 1 <= Len(w) /\ Tail(todo) = SubSeq(w, k + 2, Len(w))
      /\ Done(w, k + 1)'
  BY <1>1, OneMore
<1>3. w \in Seq(Assignment) /\ Separate(w)
  BY WritesTyped, WritesSeparate
<1>4. k + 1 = Len(w)
  <2>1. Len(SubSeq(w, k + 2, Len(w))) = Len(w) - (k + 1)
    BY <1>2, <1>3
  <2>2. SubSeq(w, k + 2, Len(w)) = <<>>
    BY <1>2
  <2>3. Len(w) - (k + 1) = 0
    BY <2>1, <2>2
  <2>4. Len(w) \in Nat
    BY <1>3
  <2> QED BY <2>3, <2>4
<1> DEFINE u == {w[i] : i \in DOMAIN w}
<1>5. DOMAIN w = 1 .. k + 1
  BY <1>3, <1>4
<1>6. \A i \in DOMAIN w : w[i][2] # Junk /\ fields'[w[i][1]] = w[i][2]
  BY <1>2, <1>5 DEF Done
<1>7. w \in WellFormed
  BY <1>6 DEF WellFormed
<1>8. fields' \in [Field -> Int] /\ todo' = <<>> /\ dead' = dead /\ ~dead /\ before' = before
  BY AssignKeeps DEF Assign, ConfigInv
<1>9. seen = before /\ seen' = fields'
  BY <1>8 DEF seen, Assign
<1>10. ASSUME NEW f \in Field
       PROVE  fields'[f] = IF \E a \in u : a[1] = f
                           THEN (CHOOSE a \in u : a[1] = f)[2] ELSE before[f]
  <2>1. CASE \E a \in u : a[1] = f
    <3> DEFINE c == CHOOSE a \in u : a[1] = f
    <3>1. c \in u /\ c[1] = f
      BY <2>1
    <3>2. PICK i \in DOMAIN w : c = w[i]
      BY <3>1
    <3> HIDE DEF c
    <3>3. fields'[f] = c[2]
      BY <3>1, <3>2, <1>6
    <3> QED BY <3>3, <2>1 DEF c
  <2>2. CASE ~ \E a \in u : a[1] = f
    <3>1. \A i \in 1 .. k + 1 : w[i][1] # f
      BY <2>2, <1>5
    <3> QED BY <3>1, <2>2, <1>2, <1>8 DEF Done
  <2> QED BY <2>1, <2>2
<1>11. fields' = [f \in Field |-> IF \E a \in u : a[1] = f
                                  THEN (CHOOSE a \in u : a[1] = f)[2] ELSE seen[f]]
  <2> HIDE DEF u
  <2> QED BY <1>8, <1>9, <1>10
<1>12. u \in {{v[i] : i \in DOMAIN v} : v \in WellFormed}
  BY <1>7
<1> HIDE DEF u
<1> QED BY <1>8, <1>9, <1>11, <1>12 DEF Whole!Change, seen

LEMMA StepIsWhole ==
  ConfigInv /\ Progress /\ [Next]_vars => [Whole!SNext]_<<seen, dead>>
<1> SUFFICES ASSUME ConfigInv, Progress, [Next]_vars
             PROVE  [Whole!SNext]_<<seen, dead>>
  OBVIOUS
<1>1. CASE BeginWrite
  <2>1. todo = <<>> /\ todo' # <<>> /\ before' = fields /\ dead' = dead
    BY <1>1, WritesSeparate DEF BeginWrite, NextCommand, Idle, Separate
  <2> QED BY <2>1 DEF seen
<1>2. CASE Assign
  <2>1. CASE Tail(todo) = <<>>
    BY <1>2, <2>1, LastSetter DEF Whole!SNext
  <2>2. CASE Tail(todo) # <<>>
    <3>1. todo # <<>> /\ todo' # <<>> /\ before' = before /\ dead' = dead
      BY <1>2, <2>2 DEF Assign
    <3> QED BY <3>1 DEF seen
  <2> QED BY <2>1, <2>2
<1>3. CASE Throw
  <2>1. ~dead /\ dead' = TRUE /\ seen' = seen
    BY <1>3 DEF Throw, Abort, seen
  <2> QED BY <2>1 DEF Whole!SNext, Whole!Die, seen
<1>4. CASE at_clear_config
  <2>1. ~dead /\ dead' = dead /\ seen' = Cleared
    BY <1>4 DEF at_clear_config, NextCommand, Idle, seen
  <2> QED BY <2>1 DEF Whole!SNext, Whole!Clear, seen
<1>5. CASE at_sample_start
  BY <1>5 DEF at_sample_start, seen
<1>6. CASE Reset
  <2>1. dead' = FALSE /\ seen' = Default
    BY <1>6 DEF Reset, load_config, seen
  <2> QED BY <2>1 DEF Whole!SNext, Whole!Restart, seen
<1>7. CASE UNCHANGED vars
  BY <1>7 DEF vars, seen
<1> QED BY <1>1, <1>2, <1>3, <1>4, <1>5, <1>6, <1>7 DEF Next

\* Seen between two commands, a command has set everything it names or
\* nothing, whatever fails or is reset in its middle
\* (ei_at_handlers.cpp:363-521).
THEOREM ImplementsSettings == Spec => CommandsAreWhole
<1>1. Init => Whole!SInit
  BY DEF Init, Whole!SInit
<1>2. Init => Progress
  BY DEF Init, Progress
<1>3. ConfigInv /\ Progress /\ [Next]_vars => Progress'
  BY ProgressKept
<1>4. ConfigInv /\ Progress /\ [Next]_vars => [Whole!SNext]_<<seen, dead>>
  BY StepIsWhole
<1>5. <<seen, dead>> = <<IF todo = <<>> THEN fields ELSE before, dead>>
  BY DEF seen
<1> QED BY <1>1, <1>2, <1>3, <1>4, ConfigAlways, PTL DEF Spec, CommandsAreWhole, Whole!SSpec, seen

-----------------------------------------------------------------------------
(* Recordings within the announced limits *)

\* The length is a number of milliseconds, and so is every one that a command
\* has still to set; the last recording's size follows from what it was given.
LengthInv ==
  /\ fields["sample_length_ms"] \in Nat
  /\ \A j \in 1 .. Len(todo) :
       todo[j][1] = "sample_length_ms" => todo[j][2] \in Nat \cup {Junk}
  /\ recording[1] \in Nat /\ recording[2] \in Int
  /\ recording[3] = Even(Quotient(recording[1], recording[2]))

LEMMA UintIsNat == ASSUME NEW n \in Lengths PROVE AsUint(n) \in Nat \cup {Junk}
<1>1. CASE n # Junk
  <2>1. n \in Int /\ Word \in Nat \ {0}
    BY <1>1, ConfigAssumption
  <2> QED BY <1>1, <2>1 DEF AsUint
<1> QED BY <1>1 DEF AsUint

LEMMA WritesLengths ==
  ASSUME NEW w \in Writes, NEW j \in 1 .. Len(w), w[j][1] = "sample_length_ms"
  PROVE  w[j][2] \in Nat \cup {Junk}
<1>1. CASE w \in at_set_sample_settings
  <2>1. ASSUME NEW l \in Labels, NEW i \in Intervals, NEW n \in Lengths,
               w = SampleWords(l, i, n)
        PROVE  w[j][2] \in Nat \cup {Junk}
    <3>1. Len(w) = 3 /\ w[1][1] = "sample_label" /\ w[2][1] = "sample_interval_ms"
          /\ w[3] = <<"sample_length_ms", AsUint(n)>>
      BY <2>1 DEF SampleWords, Set
    <3>2. j \in 1 .. 3 /\ j # 1 /\ j # 2
      BY <3>1
    <3>3. j = 3
      BY <3>2
    <3> QED BY <3>1, <3>3, UintIsNat
  <2>2. ASSUME NEW l \in Labels, NEW i \in Intervals, NEW n \in Lengths, NEW k \in Keys,
               w = Append(SampleWords(l, i, n), Set("sample_hmac_key", k))
        PROVE  w[j][2] \in Nat \cup {Junk}
    <3>1. Len(w) = 4 /\ w[1][1] = "sample_label" /\ w[2][1] = "sample_interval_ms"
          /\ w[3] = <<"sample_length_ms", AsUint(n)>> /\ w[4][1] = "sample_hmac_key"
      BY <2>2 DEF SampleWords, Set
    <3>2. j \in 1 .. 4 /\ j # 1 /\ j # 2 /\ j # 4
      BY <3>1
    <3>3. j = 3
      BY <3>2
    <3> QED BY <3>1, <3>3, UintIsNat
  <2> QED BY <1>1, <2>1, <2>2 DEF at_set_sample_settings
<1>2. CASE w \in at_set_upload_settings \cup at_set_upload_host \cup at_set_mgmt_settings
  BY <1>2 DEF at_set_upload_settings, at_set_upload_host, at_set_mgmt_settings, Set
<1> QED BY <1>1, <1>2 DEF Writes

LEMMA LengthStep == ASSUME ConfigInv, LengthInv, [Next]_vars PROVE LengthInv'
<1>1. CASE BeginWrite
  <2>1. todo' \in Writes /\ UNCHANGED <<fields, recording>>
    BY <1>1 DEF BeginWrite
  <2> QED BY <2>1, WritesLengths DEF LengthInv
<1>2. CASE Assign
  <2> DEFINE a == Head(todo)
  <2>1. /\ todo # <<>> /\ todo \in Seq(Assignment) /\ todo' = Tail(todo)
        /\ fields' = [fields EXCEPT ![a[1]] = a[2]] /\ a[2] # Junk /\ UNCHANGED recording
    BY <1>2 DEF Assign, ConfigInv
  <2>2. /\ Len(todo) \in Nat \ {0} /\ a = todo[1] /\ 1 \in 1 .. Len(todo)
        /\ Len(todo') = Len(todo) - 1
        /\ \A j \in 1 .. Len(todo') : todo'[j] = todo[j + 1] /\ j + 1 \in 1 .. Len(todo)
    BY <2>1
  <2> HIDE DEF a
  <2>3. a[1] = "sample_length_ms" => a[2] \in Nat
    BY <2>1, <2>2 DEF LengthInv
  <2>4. fields'["sample_length_ms"] \in Nat
    <3>1. fields \in [Field -> Int] /\ "sample_length_ms" \in Field
      BY DEF ConfigInv, Field
    <3> QED BY <2>1, <2>3, <3>1 DEF LengthInv
  <2>5. \A j \in 1 .. Len(todo') :
          todo'[j][1] = "sample_length_ms" => todo'[j][2] \in Nat \cup {Junk}
    BY <2>2 DEF LengthInv
  <2> QED BY <2>1, <2>4, <2>5 DEF LengthInv
<1>3. CASE Throw
  BY <1>3 DEF Throw, Abort, LengthInv
<1>4. CASE at_clear_config
  BY <1>4 DEF at_clear_config, Cleared, Field, NextCommand, LengthInv
<1>5. CASE at_sample_start
  <2> DEFINE length == fields["sample_length_ms"]
             interval == fields["sample_interval_ms"]
  <2>1. recording' = <<length, interval, Even(Quotient(length, interval))>>
        /\ UNCHANGED <<fields, todo>>
    BY <1>5 DEF at_sample_start
  <2>2. length \in Nat /\ interval \in Int
    BY DEF LengthInv, ConfigInv, Field
  <2> HIDE DEF length, interval
  <2>3. recording'[1] \in Nat /\ recording'[2] \in Int
        /\ recording'[3] = Even(Quotient(recording'[1], recording'[2]))
    BY <2>1, <2>2
  <2> QED BY <2>1, <2>3 DEF LengthInv
<1>6. CASE Reset
  <2>1. fields'["sample_length_ms"] = 0 /\ todo' = <<>> /\ recording' = <<0, 0, 0>>
    BY <1>6 DEF Reset, load_config, Default, Field, Text
  <2>2. Even(Quotient(0, 0)) = 0
    BY ConfigAssumption DEF Even, Quotient
  <2> QED BY <2>1, <2>2 DEF LengthInv
<1>7. CASE UNCHANGED vars
  BY <1>7 DEF vars, LengthInv
<1> QED BY <1>1, <1>2, <1>3, <1>4, <1>5, <1>6, <1>7 DEF Next

\* The memory has room for what is announced, rounded up to an even number.
Announced == 1000 * max_sample_length_s * frequency
Roomy ==
  /\ frequency \in Nat /\ HeaderRoom \in Nat /\ available \in Nat
  /\ Announced + 1 < Word /\ Needed(Announced + 1) <= available

LEMMA Division ==
  ASSUME NEW x \in Nat, NEW s \in Nat \ {0}
  PROVE  /\ x \div s \in Nat
         /\ (x \div s) * s <= x
         /\ x < (x \div s) * s + s
  OBVIOUS

\* Fewer samples need no more bytes.
LEMMA NeededGrows ==
  ASSUME HeaderRoom \in Nat, NEW n \in Nat, NEW m \in Nat, n <= m
  PROVE  Needed(n) \in Nat /\ Needed(m) \in Nat /\ Needed(n) <= Needed(m)
<1> DEFINE S == FrameSamples
           a == (n + S - 1) \div S
           b == (m + S - 1) \div S
<1>1. S \in Nat \ {0} /\ n + S - 1 \in Nat /\ m + S - 1 \in Nat
  BY ConfigAssumption
<1>2. a \in Nat /\ b \in Nat /\ a * S <= n + S - 1 /\ m + S - 1 < b * S + S
  BY <1>1, Division
<1> HIDE DEF a, b
<1>3. a <= b
  <2> SUFFICES ASSUME a > b PROVE FALSE
    BY <1>2
  <2>1. a - b - 1 \in Nat /\ a * S = b * S + S + (a - b - 1) * S
    BY <1>1, <1>2
  <2>2. (a - b - 1) * S \in Nat /\ b * S \in Nat
    BY <2>1, <1>1, <1>2
  <2> QED BY <2>1, <2>2, <1>1, <1>2
<1>4. S * a \in Nat /\ S * b \in Nat /\ S * a <= S * b
  <2>1. b - a \in Nat /\ S * b = S * a + S * (b - a)
    BY <1>1, <1>2, <1>3
  <2>2. S * (b - a) \in Nat /\ S * a \in Nat
    BY <2>1, <1>1, <1>2
  <2>3. S * b \in Nat
    BY <1>1, <1>2
  <2> QED BY <2>1, <2>2, <2>3
<1>5. (4 * S) * a = 4 * (S * a) /\ (4 * S) * b = 4 * (S * b)
  BY <1>1, <1>2
<1>6. Needed(n) = HeaderRoom + (4 * S) * a + 4 /\ Needed(m) = HeaderRoom + (4 * S) * b + 4
  BY DEF Needed, a, b
<1> DEFINE x == S * a
           y == S * b
<1>7. x \in Nat /\ y \in Nat /\ x <= y
      /\ Needed(n) = HeaderRoom + 4 * x + 4 /\ Needed(m) = HeaderRoom + 4 * y + 4
  BY <1>4, <1>5, <1>6
<1> HIDE DEF x, y
<1> QED BY <1>7

\* At an interval no shorter than announced there are no more samples.
LEMMA QuotientBounded ==
  ASSUME Roomy, NEW length \in Nat, NEW interval \in Int,
         length <= 1000 * max_sample_length_s, interval * frequency >= PerMs
  PROVE  Quotient(length, interval) \in 0 .. Announced
<1> DEFINE max == 1000 * max_sample_length_s
           q == (length * PerMs) \div interval
<1>1. PerMs \in Nat \ {0} /\ frequency \in Nat /\ max \in Nat /\ Announced = max * frequency
      /\ length <= max /\ Announced + 1 < Word /\ Word \in Nat
  BY ConfigAssumption DEF Roomy, Announced, max_sample_length_s
<1> HIDE DEF max
<1>2. interval \in Nat \ {0}
  <2> SUFFICES ASSUME interval <= 0 PROVE FALSE
    OBVIOUS
  <2>1. 0 - interval \in Nat /\ (0 - interval) * frequency = 0 - (interval * frequency)
    BY <1>1
  <2>2. (0 - interval) * frequency \in Nat
    BY <2>1, <1>1
  <2> QED BY <2>1, <2>2, <1>1
<1>3. length * PerMs \in Nat
  BY <1>1
<1>4. q \in Nat /\ q * interval <= length * PerMs
  BY <1>2, <1>3, Division
<1> HIDE DEF q
<1>5. length * PerMs <= Announced * interval
  <2>1. length * PerMs <= max * PerMs
    <3>1. max - length \in Nat /\ max * PerMs = length * PerMs + (max - length) * PerMs
      BY <1>1
    <3>2. (max - length) * PerMs \in Nat
      BY <3>1, <1>1
    <3> QED BY <3>1, <3>2, <1>3
  <2>2. max * PerMs <= max * (interval * frequency)
    <3> DEFINE y == interval * frequency
    <3>1. y \in Int /\ y - PerMs \in Nat
      BY <1>1, <1>2
    <3> HIDE DEF y
    <3>2. max * y = max * PerMs + max * (y - PerMs)
      BY <3>1, <1>1
    <3>3. max * (y - PerMs) \in Nat /\ max * PerMs \in Nat
      BY <3>1, <1>1
    <3>4. max * PerMs <= max * y
      BY <3>2, <3>3
    <3> QED BY <3>4 DEF y
  <2>3. max * (interval * frequency) = Announced * interval
    BY <1>1, <1>2
  <2>4. max * PerMs \in Int /\ Announced * interval \in Int
    BY <1>1, <1>2
  <2> QED BY <2>1, <2>2, <2>3, <2>4, <1>3
<1>6. q <= Announced
  <2> SUFFICES ASSUME q > Announced PROVE FALSE
    BY <1>1, <1>4
  <2>1. Announced \in Nat /\ q - Announced - 1 \in Nat
    BY <1>1, <1>4
  <2>2. q * interval = Announced * interval + interval + (q - Announced - 1) * interval
    BY <2>1, <1>2, <1>4
  <2>3. (q - Announced - 1) * interval \in Nat /\ Announced * interval \in Nat
    BY <2>1, <1>2
  <2> QED BY <2>2, <2>3, <1>2, <1>3, <1>4, <1>5
<1>7. Quotient(length, interval) = q
  BY <1>1, <1>2, <1>4, <1>6 DEF Quotient, q
<1> QED BY <1>1, <1>4, <1>6, <1>7

\* Whatever was set, cleared or refused before, a recording within the
\* announced length and frequency fits into the memory, if the memory has room
\* for the longest (ei_device_apollo4.cpp:52-60, ei_mic.cpp:201-206).
THEOREM AnnouncementsFit == ASSUME Roomy PROVE Spec => []AnnouncedFits
<1>1. Init => LengthInv
  <2> SUFFICES ASSUME Init PROVE LengthInv
    OBVIOUS
  <2>1. fields["sample_length_ms"] = 0 /\ todo = <<>> /\ recording = <<0, 0, 0>>
    BY DEF Init, Default, Field, Text
  <2>2. Even(Quotient(0, 0)) = 0
    BY ConfigAssumption DEF Even, Quotient
  <2> QED BY <2>1, <2>2 DEF LengthInv
<1>2. ASSUME LengthInv PROVE AnnouncedFits
  <2> DEFINE length == recording[1]
             interval == recording[2]
             q == Quotient(length, interval)
  <2> SUFFICES ASSUME length <= 1000 * max_sample_length_s, interval * frequency >= PerMs
               PROVE  Needed(recording[3]) <= available
    BY DEF AnnouncedFits
  <2>1. length \in Nat /\ interval \in Int /\ recording[3] = Even(q)
    BY <1>2 DEF LengthInv
  <2>2. q \in 0 .. Announced
    BY <2>1, QuotientBounded
  <2> HIDE DEF q
  <2>3. Announced \in Nat /\ Announced + 1 < Word /\ Word \in Nat \ {0}
    BY ConfigAssumption DEF Roomy, Announced, max_sample_length_s
  <2>4. recording[3] \in 0 .. Announced + 1
    <3>1. q % 2 \in 0 .. 1 /\ q + (q % 2) \in 0 .. Word - 1
      BY <2>2, <2>3
    <3>2. (q + (q % 2)) % Word = q + (q % 2)
      BY <3>1, <2>3
    <3> QED BY <2>1, <2>2, <2>3, <3>1, <3>2 DEF Even
  <2>5. /\ Needed(recording[3]) \in Nat /\ Needed(Announced + 1) \in Nat
        /\ Needed(recording[3]) <= Needed(Announced + 1)
    BY <2>3, <2>4, NeededGrows DEF Roomy
  <2>6. Needed(Announced + 1) <= available /\ available \in Nat
    BY DEF Roomy
  <2> QED BY <2>5, <2>6
<1> QED BY <1>1, <1>2, LengthStep, ConfigAlways, PTL DEF Spec
==============================================================================
