---------------------------- MODULE SerialChannel ----------------------------
(***************************************************************************)
(* What the serial link promises its two ends: the host sends bytes, the   *)
(* command interpreter is handed them one at a time, each position of the  *)
(* stream at most once and in the order it was sent.  A lossy channel may  *)
(* blank a byte (hand over Blank in its place) but never skips, repeats or *)
(* reorders positions; a lossless one hands over the byte that was sent.   *)
(* Whether it is lossy is up to the host: once it has sent out of turn,    *)
(* the channel may blank what was not handed over yet.                     *)
(***************************************************************************)
EXTENDS Naturals, Sequences

CONSTANTS
  Chars,      \* the byte values the host sends
  Blank,      \* what the reader sees of a byte that was wiped
  MaxBytes    \* bound: how many bytes the host sends in one session

VARIABLES
  sent,       \* every byte the host sent, in order
  got,        \* every byte the interpreter was handed, in order
  lossy       \* the host has sent out of turn

cvars == <<sent, got, lossy>>

CInit == sent = <<>> /\ got = <<>> /\ lossy = FALSE

CSend ==
  /\ Len(sent) < MaxBytes
  /\ \E b \in Chars : sent' = Append(sent, b)
  /\ lossy' \in {lossy, TRUE}
  /\ UNCHANGED got

\* What may be handed over for position i of the stream.
MayBeSeen(i) == {sent[i]} \cup (IF lossy THEN {Blank} ELSE {})

CDeliver ==
  /\ Len(got) < Len(sent)
  /\ \E b \in MayBeSeen(Len(got) + 1) : got' = Append(got, b)
  /\ UNCHANGED <<sent, lossy>>

CNext == CSend \/ CDeliver

CSpec == CInit /\ [][CNext]_cvars

\* A channel that moreover hands over everything that was sent in turn.
CFairSpec == CSpec /\ WF_cvars(~lossy /\ CDeliver)
==============================================================================
