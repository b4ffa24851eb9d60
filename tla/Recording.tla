------------------------------ MODULE Recording -------------------------------
(***************************************************************************)
(* The device memory with the bytes that are written to it: the header and *)
(* the samples of SensorAq in the places SampleMemory gives them, and what *)
(* a CBOR decoder makes of what AT+READBUFFER sends.                       *)
(***************************************************************************)
EXTENDS SampleMemory, SensorAq

CONSTANT
  Samples   \* what the microphone hears, over and over

ASSUME RecordingAssumption ==
  /\ HeaderSize = Len(header)
  /\ Samples \in Seq(Int) /\ Len(Samples) > 0
  /\ \A i \in 1 .. Len(Samples) : -32768 <= Samples[i] /\ Samples[i] <= 32767

\* Sample i, from 0, of frame n.
Heard(n, i) == Samples[((n * FrameSamples + i) % Len(Samples)) + 1]

\* The cell that SampleMemory's byte <<kind, n, i>> stands for.
Content(b) ==
  CASE b[1] = "header" -> header[b[3]]
    [] b[1] = "frame"  -> SampleCells(Heard(b[2], (b[3] - 1) \div 4))[((b[3] - 1) % 4) + 1]
    [] b[1] = "FF"     -> Break
    [] OTHER           -> Zero

\* What a reader of base64 text makes of the quads: a padded one ends it.
Received ==
  LET padded == {k \in 1 .. Len(sent) : Len(sent[k]) < 3}
      ends == IF padded = {} THEN Len(sent) ELSE CHOOSE k \in padded : \A j \in padded : k <= j
      size == IF sent = <<>> THEN 0 ELSE 3 * (ends - 1) + Len(sent[ends])
  IN  [i \in 1 .. size |-> Content(sent[((i - 1) \div 3) + 1][((i - 1) % 3) + 1])]

-----------------------------------------------------------------------------
(* A CBOR decoder (RFC 8949) of the kinds of item there are *)

\* What the item that begins with a cell consists of besides: so many items or
\* bytes, or a list up to its break.
Begun(c) ==
  CASE c[1] \in {"text", "double"}  -> <<"items", 0>>
    [] c[1] \in {"uint16", "neg16"} -> <<"bytes", 2>>
    [] c[1] = "map"    -> <<"items", 2 * c[2]>>
    [] c[1] = "array"  -> <<"items", c[2]>>
    [] c[1] = "array_" -> <<"list", 1>>

Heads == {"text", "double", "uint16", "neg16", "map", "array", "array_"}

\* The last of the open items got one more, and with it each that waited for
\* nothing else is complete.  A list is not, before its break.
Complete(open) ==
  LET waiting == {j \in 1 .. Len(open) : open[j][1] = "list" \/ open[j][2] > 1}
      k == CHOOSE j \in waiting : \A i \in waiting : j >= i
  IN  IF waiting = {} THEN <<>>
      ELSE SubSeq(open, 1, k - 1)
             \o << IF open[k][1] = "list" THEN open[k] ELSE <<open[k][1], open[k][2] - 1>> >>

Wrong == << <<"wrong", 0>> >>

\* The items that are open behind one more cell.
Decode(open, c) ==
  LET top == IF open = <<>> THEN "none" ELSE open[Len(open)][1]
  IN  CASE top = "bytes" /\ c[1] = "byte" -> Complete(open)
        [] top = "list" /\ c[1] = "break" -> Complete(SubSeq(open, 1, Len(open) - 1))
        [] top \in {"items", "list"} /\ c[1] \in Heads ->
             IF Begun(c)[2] = 0 THEN Complete(open) ELSE Append(open, Begun(c))
        [] OTHER -> Wrong

\* What is open behind each cell of s, if start is in front of them.
Opened(start, s) ==
  LET open[p \in 0 .. Len(s)] == IF p = 0 THEN start ELSE Decode(open[p - 1], s[p])
  IN  open

OneItem == << <<"items", 1>> >>

\* One item is wanted, and s is that item.
IsDocument(s) == Opened(OneItem, s)[Len(s)] = <<>>

\* A negative integer is encoded as -1 minus its number.
Number(s, p) ==
  LET n == 256 * s[p + 1][2] + s[p + 2][2]
  IN  IF s[p][1] = "neg16" THEN -1 - n ELSE n

\* The values of a document: one to an array, in the list behind their key.
Values(s) ==
  LET open == Opened(OneItem, s)
      head == CHOOSE p \in 2 .. Len(s) : s[p][1] = "array_" /\ s[p - 1] = <<"text", "values">>
      begin == {p \in head + 1 .. Len(s) : open[p - 1] = open[head] /\ s[p][1] # "break"}
  IN  [k \in 1 .. Cardinality(begin) |-> Number(s, Nth(begin, k) + 1)]

-----------------------------------------------------------------------------
(* Properties *)

\* The samples of the recording in the memory: the first byte of each.
Recorded ==
  LET first == {i \in 1 .. Len(stream) : stream[i][1] = "frame" /\ stream[i][3] % 4 = 1}
  IN  [k \in 1 .. Cardinality(first) |->
         LET b == stream[Nth(first, k)] IN Heard(b[2], (b[3] - 1) \div 4)]

\* The host has asked for the announced range and was sent it.
HasRecording == result = "ok" /\ announced # 0 /\ asked = <<0, announced>>

\* Whoever asks for the announced range is sent one complete CBOR document,
\* with nothing behind it, which has a value for each sample of that recording,
\* in their order: of the same sign, and the same number when it is not negative
\* -- also when frames were dropped, the configuration is saved in between, a
\* later start fails, or the recording before was longer (ei_mic.cpp:240-262,
\* 435-456, 503-557; sensor_aq.cpp:278-290; ei_device_lib.cpp:77-109).
AnnouncedIsDocument ==
  HasRecording =>
    /\ IsDocument(Received)
    /\ LET values == Values(Received)
       IN  /\ Len(values) = Len(Recorded)
           /\ \A k \in DOMAIN values :
                IF Recorded[k] < 0 THEN values[k] < 0 ELSE values[k] = Recorded[k]

\* "Convert to CBOR int16 format", "Convert from 2's complement"
\* (ei_mic.cpp:539, 548): the values a decoder reads are the samples.
ValuesAreSamples ==
  HasRecording /\ IsDocument(Received) => Values(Received) = Recorded
===============================================================================
