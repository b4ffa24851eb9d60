------------------------------- MODULE SensorAq -------------------------------
(***************************************************************************)
(* What a recording is written as: sensor_aq_init encodes a CBOR document  *)
(* whose list of values is empty, create_header takes off the break that   *)
(* closes that list, and every sample is appended in the form of           *)
(* write_value_to_cbor_buffer until a break closes the list for good.      *)
(*                                                                         *)
(* A cell <<kind, argument>> is the head of an item together with the text *)
(* or number behind it; only a sample's three bytes are cells of their     *)
(* own.  The signature is the run of '0's it is initialised to: the        *)
(* signing functions of this firmware do nothing and return 0.             *)
(***************************************************************************)
EXTENDS Integers, SequencesExt

CONSTANTS
  NULL,          \* no name
  device_name,   \* of the payload, or NULL
  sensors,       \* names of the payload's sensors, NULL where none is set
  CborBuffer     \* cells of cbor_buffer

-----------------------------------------------------------------------------
(* QCBOR *)

Text(w)   == << <<"text", w>> >>
Double(x) == << <<"double", x>> >>
Entry(key, value) == Text(key) \o value

\* A head with the number of entries, which is known when the map is closed.
Map(entries)  == << <<"map", Len(entries)>> >> \o FlattenSeq(entries)
Array(items)  == << <<"array", Len(items)>> >> \o FlattenSeq(items)
Break == <<"break", 0>>
IndefiniteArray == << <<"array_", 0>>, Break >>

-----------------------------------------------------------------------------
(* sensor_aq_init *)

\* The k-th of a set of places.
Nth(S, k) == CHOOSE i \in S : Cardinality({j \in S : j <= i}) = k

\* A sensor without a name is left out.
Axes ==
  LET named == {i \in 1 .. Len(sensors) : sensors[i] # NULL}
  IN  [k \in 1 .. Cardinality(named) |-> sensors[Nth(named, k)]]

Sensor(name) == Map(<<Entry("name", Text(name)), Entry("units", Text("wav"))>>)

Protected == Map(<<Entry("ver", Text("v1")), Entry("alg", Text("HS256"))>>)

Payload ==
  Map((IF device_name = NULL THEN <<>> ELSE <<Entry("device_name", Text(device_name))>>)
      \o <<Entry("device_type", Text("type")), Entry("interval_ms", Double("interval")),
           Entry("sensors", Array([i \in 1 .. Len(Axes) |-> Sensor(Axes[i])])),
           Entry("values", IndefiniteArray)>>)

encoded ==
  Map(<<Entry("protected", Protected), Entry("signature", Text("0")),
        Entry("payload", Payload)>>)

ASSUME DocumentFits ==
  /\ sensors \in Seq(Range(sensors))
  /\ CborBuffer \in Nat /\ Len(encoded) <= CborBuffer

\* The buffer is zeroed before it is written to.
Zero == <<"zero", 0>>
cbor_buffer == [i \in 1 .. CborBuffer |-> IF i <= Len(encoded) THEN encoded[i] ELSE Zero]

-----------------------------------------------------------------------------
(* create_header *)

\* Mutant: the place of the last byte, from 1, is the length.
WholeDocument == SelectLastInSeq(cbor_buffer, LAMBDA c : c # Zero)

\* The index, from 0, of the last byte that is not zero: as a length, it stops
\* short of that byte.
end_of_header_ix == SelectLastInSeq(cbor_buffer, LAMBDA c : c # Zero) - 1

header == SubSeq(cbor_buffer, 1, end_of_header_ix)

-----------------------------------------------------------------------------
(* ingestion_callback *)

\* (uint16_t)~value + 1, or the value.
Magnitude(value) ==
  IF value < 0 THEN ((((0 - value) - 1) % 65536) + 1) % 65536 ELSE value

\* 0x39 is CBOR's negative integer of 16 bits, 0x19 its unsigned one.
write_value_to_cbor_buffer(value) ==
  << <<IF value < 0 THEN "neg16" ELSE "uint16", 0>>,
     <<"byte", Magnitude(value) \div 256>>, <<"byte", Magnitude(value) % 256>> >>

\* One channel: an array of one value.
SampleCells(value) == << <<"array", 1>> >> \o write_value_to_cbor_buffer(value)
===============================================================================
