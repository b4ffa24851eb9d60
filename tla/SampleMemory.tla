----------------------------- MODULE SampleMemory -----------------------------
(***************************************************************************)
(* The device memory and who uses it: EiDeviceRAM keeps the configuration  *)
(* in its first blocks and recordings behind them; AT+SAMPLESTART with the *)
(* microphone streams a CBOR header and frames of samples into it, and     *)
(* AT+READBUFFER sends a range of it as base64.  All of it is called from  *)
(* the main task, one command after the other; the steps of a recording    *)
(* and of a read-out are actions of their own because each of them may     *)
(* fail alone.                                                             *)
(*                                                                         *)
(* A byte is <<kind, n, i>>: byte i of the n-th configuration, header or   *)
(* frame.  Addresses are unsigned: arithmetic on them is modulo Word.      *)
(***************************************************************************)
EXTENDS Integers, Sequences

CONSTANTS
  block_size, memory_blocks,   \* EiDeviceRAM: 131072 and 4
  config_size,                 \* sizeof(EiConfig)
  Word,                        \* 2^32
  HeaderSize,                  \* of the CBOR header (end_of_header_ix)
  FrameSamples,                \* AUIO_SAMPLE_BUFFER_NUMBER
  buffer_size,                 \* chunk that is read and encoded at once: 513
  Requested,                   \* sample_length_ms / sample_interval_ms
  Requests,                    \* ranges asked for besides the announced one
  MaxFrames                    \* bound: frames captured

memory_size == block_size * memory_blocks

\* Mutant: a partly used block is not counted.
used_blocksDown == config_size \div block_size

\* A configuration of at least one block (no blocks: config_size = 0).
used_blocks ==
  IF config_size < block_size THEN 1
  ELSE (config_size \div block_size)
         + (IF config_size % block_size = 0 THEN 0 ELSE 1)

Offset == used_blocks * block_size
get_available_sample_bytes == (memory_blocks - used_blocks) * block_size

ASSUME MemoryAssumption ==
  /\ block_size \in Nat \ {0} /\ memory_blocks \in Nat \ {0}
  /\ config_size \in Nat \ {0}
  /\ used_blocks <= memory_blocks
  /\ Word \in Nat /\ Word > 2 * memory_size
  /\ HeaderSize \in Nat \ {0} /\ FrameSamples \in Nat \ {0}
  /\ HeaderSize <= get_available_sample_bytes  \* at most 1024, of 393216
  /\ buffer_size \in Nat \ {0}
  /\ Requested \subseteq Nat /\ Requests \subseteq Nat \X Nat
  /\ MaxFrames \in Nat

VARIABLES
  ram,                  \* ram_memory
  outside,              \* an access left ram_memory: the model ends there
  pc,                   \* "idle", "sampling" or "reading"
  samples_required, current_sample, cbor_current_sample, headerOffset,
  captured,             \* frames the microphone has delivered
  address, length,      \* read_encode_send_sample_buffer
  sent,                 \* base64 quads sent, each the bytes it encodes
  result,               \* how the last read-out ended
  asked,                \* history: the range it was asked for
  announced,            \* "Used buffer, from=0, to=announced"; 0 is none
  saved,                \* history: the configuration saved last; 0 is none
  stream                \* history: what the recording consists of

recording == <<samples_required, current_sample, cbor_current_sample, headerOffset>>
reader == <<address, length, sent, result, asked>>
vars == <<ram, outside, pc, recording, captured, reader, announced, saved, stream>>

-----------------------------------------------------------------------------
(* EiDeviceRAM *)

\* Mutant: a request is not cut to the memory that is left.
FitUncut(a, n) == n

\* How many of n bytes are copied at address a.
Fit(a, n) == LET room == (memory_size - a) % Word IN IF n > room THEN room ELSE n

Inside(a, n) == Fit(a, n) = 0 \/ a + Fit(a, n) <= memory_size

\* ram_memory m after write_data(s, a, Len(s)), as far as it is inside.
Written(m, a, s) ==
  [x \in DOMAIN m |-> IF x \in a .. a + Fit(a, Len(s)) - 1 THEN s[x - a + 1] ELSE m[x]]

write_data(a, s) ==
  /\ ram' = Written(ram, a, s)
  /\ outside' = ~Inside(a, Len(s))

SampleAddress(a) == (Offset + a) % Word

write_sample_data(s, a) == write_data(SampleAddress(a), s)

-----------------------------------------------------------------------------
(* What is stored *)

Zeros(n) == [i \in 1 .. n |-> <<"zero", 0, 0>>]
Config(n) == IF n = 0 THEN Zeros(config_size)
             ELSE [i \in 1 .. config_size |-> <<"config", n, i>>]
Header(n) == [i \in 1 .. HeaderSize |-> <<"header", n, i>>]
FF == <<"FF", 0, 0>>
end_of_cbor == <<FF, FF, FF, FF>>

\* One channel: an array tag and three bytes of value per sample.
CborLength == FrameSamples + (FrameSamples + 2 * FrameSamples)
Frame(n) == [i \in 1 .. CborLength |-> <<"frame", n, i>>]

-----------------------------------------------------------------------------

Init ==
  /\ ram = [x \in 0 .. memory_size - 1 |-> <<"zero", 0, 0>>]
  /\ outside = FALSE
  /\ pc = "idle"
  /\ samples_required = 0 /\ current_sample = 0
  /\ cbor_current_sample = 0 /\ headerOffset = 0
  /\ captured = 0
  /\ address = 0 /\ length = 0
  /\ sent = <<>> /\ result = "none" /\ asked = <<0, 0>>
  /\ announced = 0 /\ saved = 0
  /\ stream = <<>>

\* A setter with save = true, or save_config itself: erase, then write.
save_config ==
  /\ ~outside /\ pc = "idle"
  /\ \E n \in 1 .. 2 :
       /\ saved' = n
       /\ ram' = Written(Written(ram, 0, Zeros(Offset)), 0, Config(n))
  /\ UNCHANGED <<outside, pc, recording, captured, reader, announced, stream>>

(* AT+SAMPLESTART *)

\* Mutant: an odd number stays odd.
EvenNot(n) == n

\* "Round to even number of samples for word align flash write"
Even(n) == n + (n % 2)

Begin(n) ==
  /\ ~outside /\ pc = "idle"
  /\ samples_required' = Even(n)
  /\ current_sample' = 0 /\ cbor_current_sample' = 0

\* create_header succeeds: there is room for every header.  An earlier
\* recording's range is out of date.
SampleStart ==
  /\ \E n \in Requested : Begin(n)
  /\ write_sample_data(Header(captured), 0)
  /\ headerOffset' = HeaderSize
  /\ pc' = "sampling"
  /\ announced' = 0
  /\ stream' = Header(captured)
  /\ result' = "none"
  /\ UNCHANGED <<captured, address, length, sent, asked, saved>>

\* sensor_aq_init fails: nothing was written.
HeaderFails ==
  /\ \E n \in Requested : Begin(n)
  /\ UNCHANGED <<ram, outside, pc, headerOffset, captured, reader, announced, saved, stream>>

\* Mutant: the header is not counted.
NextAddressBare == cbor_current_sample

NextAddress == headerOffset + cbor_current_sample

NextFrame ==
  /\ ~outside /\ pc = "sampling" /\ current_sample < samples_required
  /\ captured < MaxFrames
  /\ captured' = captured + 1
  /\ UNCHANGED <<pc, samples_required, headerOffset, reader, announced, saved>>

\* The result of write_sample_data is not looked at.
ingestion_callback ==
  /\ NextFrame
  /\ write_sample_data(Frame(captured), NextAddress)
  /\ cbor_current_sample' = cbor_current_sample + CborLength
  /\ current_sample' = current_sample + FrameSamples
  /\ stream' = stream \o Frame(captured)

\* ei_malloc fails: this frame is not stored and not counted.
FrameDropped ==
  /\ NextFrame
  /\ UNCHANGED <<ram, outside, cbor_current_sample, current_sample, stream>>

\* The range is printed unless the signature cannot be finished.
SampleEnd ==
  /\ ~outside /\ pc = "sampling" /\ current_sample >= samples_required
  /\ write_sample_data(end_of_cbor, NextAddress)
  /\ pc' = "idle"
  /\ announced' \in {0, NextAddress + 1}
  /\ stream' = stream \o <<FF>>
  /\ UNCHANGED <<recording, captured, reader, saved>>

(* AT+READBUFFER *)

at_read_buffer ==
  /\ ~outside /\ pc = "idle"
  /\ \E r \in Requests \cup {<<0, announced>>} :
       asked' = r /\ address' = r[1] /\ length' = r[2]
  /\ pc' = "reading"
  /\ sent' = <<>> /\ result' = "none"
  /\ UNCHANGED <<ram, outside, recording, captured, announced, saved, stream>>

\* Mutant: a chunk that is not "divisible by 3".
bytes_to_readPlus ==
  IF buffer_size + 1 > length THEN length ELSE buffer_size + 1

bytes_to_read == IF buffer_size > length THEN length ELSE buffer_size

\* base64_encode: three bytes to a quad; a last quad of fewer is padded.
Quads(s) ==
  [k \in 1 .. (Len(s) + 2) \div 3 |->
     SubSeq(s, 3 * k - 2, IF 3 * k < Len(s) THEN 3 * k ELSE Len(s))]

SendChunk ==
  LET n == bytes_to_read
      a == SampleAddress(address)
  IN  /\ ~outside /\ pc = "reading" /\ n # 0
      /\ IF ~Inside(a, n)
         THEN outside' = TRUE /\ UNCHANGED <<pc, reader>>
         ELSE IF Fit(a, n) # n
         THEN pc' = "idle" /\ result' = "failed" /\ UNCHANGED <<outside, address, length, sent, asked>>
         ELSE /\ sent' = sent \o Quads([i \in 1 .. n |-> ram[a + i - 1]])
              /\ address' = address + n /\ length' = length - n
              /\ UNCHANGED <<outside, pc, result, asked>>
      /\ UNCHANGED <<ram, recording, captured, announced, saved, stream>>

ReadDone ==
  /\ ~outside /\ pc = "reading" /\ bytes_to_read = 0
  /\ pc' = "idle" /\ result' = "ok"
  /\ UNCHANGED <<ram, outside, recording, captured, address, length, sent, asked,
                 announced, saved, stream>>

Next ==
  \/ save_config
  \/ SampleStart \/ HeaderFails
  \/ ingestion_callback \/ FrameDropped \/ SampleEnd
  \/ at_read_buffer \/ SendChunk \/ ReadDone

Spec == Init /\ [][Next]_vars

-----------------------------------------------------------------------------
(* Properties *)

Byte == {"zero", "config", "header", "frame", "FF"} \X Nat \X Nat

TypeOK ==
  /\ ram \in [0 .. memory_size - 1 -> Byte]
  /\ outside \in BOOLEAN
  /\ pc \in {"idle", "sampling", "reading"}
  /\ samples_required \in Nat /\ samples_required % 2 = 0
  /\ current_sample \in Nat /\ cbor_current_sample \in Nat
  /\ headerOffset \in {0, HeaderSize}
  /\ captured \in 0 .. MaxFrames
  /\ address \in Nat /\ length \in Nat
  /\ sent \in Seq(Seq(Byte))
  /\ result \in {"none", "ok", "failed"}
  /\ asked \in Nat \X Nat
  /\ announced \in Nat
  /\ saved \in 0 .. 2
  /\ stream \in Seq(Byte)

\* No access leaves ram_memory: write_data and read_data answer a smaller
\* number for what does not fit (ei_device_memory.h:240-260).
StaysInside == ~outside

\* The configuration that was saved last is there, whole, whatever was
\* recorded since (ei_device_memory.h:131-140, 154-196).
ConfigSurvives ==
  \A i \in 1 .. config_size : ram[i - 1] = Config(saved)[i]

\* The memory behind the configuration holds the recording byte for byte: the
\* header, then the frames that were encoded, with no gap where one was
\* dropped and untouched by saving the configuration (ei_mic.cpp:451, 503-535).
StreamStored ==
  \A i \in 1 .. Len(stream) : ram[Offset + i - 1] = stream[i]
==============================================================================
