-------------------------------- MODULE Base64 --------------------------------
(***************************************************************************)
(* at_base64_lib: the base64 of recordings and pictures.  base64_encode    *)
(* writes the text of a whole input, base64_encode_chunk and its finish    *)
(* write that of an input that comes in pieces, and base64_decode reads a  *)
(* text back.                                                              *)
(*                                                                         *)
(* A character is its index in base64_chars, or Pad for '='.               *)
(***************************************************************************)
EXTENDS Integers, Sequences

CONSTANTS
  Bytes,       \* byte values in the input, of 0 .. 255
  MaxPiece,    \* bound: bytes in one call
  MaxInput     \* bound: bytes between two calls of finish

VARIABLES
  leftover,    \* the static leftover, its first leftover_size bytes
  text,        \* what putc_f was given since the text began
  input,       \* history: the bytes of that text
  finished     \* base64_encode_finish was the last call

encoder == <<leftover, text, input, finished>>

Pad == 64

-----------------------------------------------------------------------------
(* base64_encode *)

\* Character q of the three bytes b.
Sextet(b, q) ==
  CASE q = 0 -> b[1] \div 4
    [] q = 1 -> (b[1] % 4) * 16 + (b[2] \div 16)
    [] q = 2 -> (b[2] % 16) * 4 + (b[3] \div 64)
    [] q = 3 -> b[3] % 64

\* The bytes of group g of s, the last one filled up with '\0'.
Group(s, g) == [i \in 1 .. 3 |-> IF 3 * g + i <= Len(s) THEN s[3 * g + i] ELSE 0]

base64_encode(s) ==
  [k \in 1 .. 4 * ((Len(s) + 2) \div 3) |->
     LET g == (k - 1) \div 4
         q == (k - 1) % 4
     IN  IF q <= Len(s) - 3 * g THEN Sextet(Group(s, g), q) ELSE Pad]

-----------------------------------------------------------------------------
(* base64_decode *)

Min2(a, b) == IF a < b THEN a ELSE b

\* Characters up to the first that is not one of base64_chars.
Clean(t) ==
  LET stops == {k \in 1 .. Len(t) : t[k] = Pad}
  IN  IF stops = {} THEN Len(t) ELSE (CHOOSE k \in stops : \A j \in stops : k <= j) - 1

\* Character i of group g; what find gives for '\0' where there is none.
Value(t, n, g, i) == IF 4 * g + i <= n THEN t[4 * g + i] ELSE 255

\* Byte q of a group of characters c.
Octet(c, q) ==
  CASE q = 0 -> (c[1] * 4 + ((c[2] \div 16) % 4)) % 256
    [] q = 1 -> ((c[2] % 16) * 16 + ((c[3] \div 4) % 16)) % 256
    [] q = 2 -> ((c[3] % 4) * 64 + c[4]) % 256

base64_decode(t) ==
  LET n == Clean(t)
      tail == n % 4
  IN  [k \in 1 .. 3 * (n \div 4) + (IF tail = 0 THEN 0 ELSE tail - 1) |->
         LET g == (k - 1) \div 3
         IN  Octet([i \in 1 .. 4 |-> Value(t, n, g, i)], (k - 1) % 3)]

-----------------------------------------------------------------------------
(* base64_encode_chunk *)

EncoderInit ==
  /\ leftover = <<>>
  /\ text = <<>> /\ input = <<>>
  /\ finished = FALSE

\* The bytes of a piece that are neither used to fill up the leftover nor
\* kept as the next one.
Whole(s) == SubSeq(s, 1, Len(s) - (Len(s) % 3))
Rest(s)  == SubSeq(s, Len(s) - (Len(s) % 3) + 1, Len(s))
From(s, n) == SubSeq(s, n + 1, Len(s))

\* The first piece after a finish begins a new text.
Feed(s) ==
  /\ Len(s) + (IF finished THEN 0 ELSE Len(input)) <= MaxInput
  /\ input' = (IF finished THEN <<>> ELSE input) \o s
  /\ finished' = FALSE

base64_encode_chunk(s) ==
  LET before == IF finished THEN <<>> ELSE text
      to_copy == Min2(3 - Len(leftover), Len(s))
      filled == leftover \o SubSeq(s, 1, to_copy)
      rest == From(s, to_copy)
  IN  /\ Feed(s)
      /\ IF leftover = <<>>
         THEN /\ text' = before \o base64_encode(Whole(s))
              /\ leftover' = Rest(s)
         ELSE IF Len(filled) < 3
         THEN leftover' = filled /\ text' = before
         ELSE /\ text' = before \o base64_encode(filled) \o base64_encode(Whole(rest))
              /\ leftover' = Rest(rest)

base64_encode_finish ==
  /\ ~finished
  /\ text' = text \o base64_encode(leftover)
  /\ leftover' = <<>>
  /\ finished' = TRUE
  /\ UNCHANGED input

EncoderNext ==
  \/ \E n \in 0 .. MaxPiece : \E s \in [1 .. n -> Bytes] : base64_encode_chunk(s)
  \/ base64_encode_finish

EncoderSpec == EncoderInit /\ [][EncoderNext]_encoder

-----------------------------------------------------------------------------
(* Properties *)

\* However an input is cut into pieces, what was written and what is left over
\* are together the text of the whole; padding comes at its end only
\* (at_base64_lib.cpp:126-167).
PiecesMakeTheWhole ==
  text \o base64_encode(leftover) = base64_encode(input)

\* A finished text is read back as the input it was made of, also when the
\* last characters are padding, although base64_decode then looks up '\0'
\* (at_base64_lib.cpp:231-270).
RoundTrip == finished => base64_decode(text) = input
==============================================================================
