-------------------------- MODULE AudioImpulseProofs --------------------------
(***************************************************************************)
(* Proofs about AudioImpulse, for every size of frame and buffer, any      *)
(* number of starts and every failure: as long as the user is not rude,    *)
(* the audio buffers are neither leaked nor misused, only a full one is    *)
(* classified, and what is printed was computed on a whole window.         *)
(***************************************************************************)
EXTENDS AudioImpulse, TLAPS

-----------------------------------------------------------------------------
(* Continuous classification: the window of features is whole after enough *)
(* slices, for every length of slice, frame and stride and every number of *)
(* slices per window, also from a failure on.  Cutting a slice into frames *)
(* divides by the stride, so everything rests on where the frame begins    *)
(* whose beginning is kept for the next slice.                             *)

Kept == Len(current_frame)

\* What holds whatever failed and whatever was classified twice.
Shaped ==
  /\ current_frame \in Seq(Int) /\ Kept < FrameLength
  /\ features \in [1 .. Rows -> Seq(Int)]

\* The kept samples are the last of the recording, which ends before edge; and
\* the rows that n slices are enough for are whole frames, a stride apart, up
\* to the one that is kept.
Window(edge, n) ==
  /\ current_frame = Signal(edge - Kept, Kept)
  /\ \A r \in 1 .. Rows :
       (Rows - r) * FrameStride < n * SliceSize - Kept =>
         features[r] = Signal(edge - Kept - (Rows + 1 - r) * FrameStride, FrameLength)

\* What integer division promises.
LEMMA Division ==
  ASSUME NEW x \in Nat, NEW s \in Nat \ {0}
  PROVE  /\ x \div s \in Nat
         /\ (x \div s) * s <= x
         /\ x < (x \div s) * s + s
  OBVIOUS

LEMMA RowsNat == Rows \in Nat
<1>1. Slices * SliceSize \in Nat /\ Slices * SliceSize >= SliceSize
  BY ClassifierAssumption
<1>2. Slices * SliceSize - Overlap \in Nat
  BY <1>1, ClassifierAssumption DEF Overlap
<1> QED BY <1>2, Division, ClassifierAssumption DEF Rows, calculate_no_of_stack_frames

LEMMA SignalIsSeq ==
  ASSUME NEW from \in Int, NEW n \in Nat
  PROVE  Signal(from, n) \in Seq(Int) /\ Len(Signal(from, n)) = n
  BY DEF Signal

\* Samples that follow each other still do when they are n older.
LEMMA EarlierSignal ==
  ASSUME NEW from \in Int, NEW n \in Nat, NEW m \in Nat
  PROVE  Earlier(Signal(from, n), m) = Signal(from - m, n)
<1>1. Len(Signal(from, n)) = n
  BY SignalIsSeq
<1> QED BY <1>1 DEF Earlier, Signal

LEMMA EarlierIsSeq ==
  ASSUME NEW samples \in Seq(Int), NEW m \in Nat
  PROVE  Earlier(samples, m) \in Seq(Int) /\ Len(Earlier(samples, m)) = Len(samples)
  BY DEF Earlier

LEMMA Concatenated ==
  ASSUME NEW a \in Seq(Int), NEW b \in Seq(Int)
  PROVE  /\ a \o b \in Seq(Int) /\ Len(a \o b) = Len(a) + Len(b)
         /\ \A i \in 1 .. Len(a) + Len(b) :
              (a \o b)[i] = IF i <= Len(a) THEN a[i] ELSE b[i - Len(a)]
  OBVIOUS

LEMMA SameSamples ==
  ASSUME NEW a \in Seq(Int), NEW b \in Seq(Int), Len(a) = Len(b),
         \A i \in 1 .. Len(a) : a[i] = b[i]
  PROVE  a = b
  OBVIOUS

\* The kept beginning of a frame, d samples on, completed from the new slice
\* is a whole frame.
LEMMA CompletedFrame ==
  ASSUME NEW len \in Nat, NEW d \in Nat, d <= len, len < FrameLength
  PROVE  LET kept == SubSeq(Signal(0 - len, len), d + 1, len)
         IN  kept \o Signal(0, FrameLength - Len(kept)) = Signal(d - len, FrameLength)
<1> DEFINE all  == Signal(0 - len, len)
           kept == SubSeq(all, d + 1, len)
           rest == Signal(0, FrameLength - Len(kept))
<1>1. FrameLength \in Nat
  BY ClassifierAssumption
<1>2. all \in Seq(Int) /\ Len(all) = len /\ \A i \in 1 .. len : all[i] = i - 1 - len
  BY SignalIsSeq DEF Signal
<1>3. /\ kept \in Seq(Int) /\ Len(kept) = len - d
      /\ \A i \in 1 .. len - d : kept[i] = all[i + d]
  BY <1>2
<1>4. /\ rest \in Seq(Int) /\ Len(rest) = FrameLength - (len - d)
      /\ \A i \in 1 .. FrameLength - (len - d) : rest[i] = i - 1
  <2>1. FrameLength - Len(kept) \in Nat
    BY <1>1, <1>3
  <2> QED BY <2>1, <1>3, SignalIsSeq DEF Signal
<1> HIDE DEF kept, rest, all
<1>5. /\ kept \o rest \in Seq(Int) /\ Len(kept \o rest) = FrameLength
      /\ \A i \in 1 .. FrameLength :
           (kept \o rest)[i] = IF i <= len - d THEN kept[i] ELSE rest[i - (len - d)]
  <2>1. Len(kept) + Len(rest) = FrameLength
    BY <1>1, <1>3, <1>4
  <2>2. /\ kept \o rest \in Seq(Int) /\ Len(kept \o rest) = Len(kept) + Len(rest)
        /\ \A i \in 1 .. Len(kept) + Len(rest) :
             (kept \o rest)[i] = IF i <= Len(kept) THEN kept[i] ELSE rest[i - Len(kept)]
    <3>1. kept \in Seq(Int) /\ rest \in Seq(Int)
      BY <1>3, <1>4
    <3> QED BY <3>1, Concatenated
  <2>3. Len(kept) = len - d
    BY <1>3
  <2> QED BY ONLY <2>1, <2>2, <2>3
<1>6. \A i \in 1 .. FrameLength : (kept \o rest)[i] = d - len + i - 1
  <2> SUFFICES ASSUME NEW i \in 1 .. FrameLength
               PROVE  (kept \o rest)[i] = d - len + i - 1
    OBVIOUS
  <2>1. CASE i <= len - d
    <3>1. (kept \o rest)[i] = kept[i]
      BY <2>1, <1>5
    <3>2. i \in 1 .. len - d /\ i + d \in 1 .. len
      BY <2>1, <1>1
    <3>3. kept[i] = all[i + d] /\ all[i + d] = i + d - 1 - len
      BY <3>2, <1>2, <1>3
    <3> QED BY <3>1, <3>3, <1>1
  <2>2. CASE i > len - d
    <3>1. (kept \o rest)[i] = rest[i - (len - d)]
      BY <2>2, <1>5
    <3>2. i - (len - d) \in 1 .. FrameLength - (len - d)
      BY <2>2, <1>1
    <3>3. rest[i - (len - d)] = i - (len - d) - 1
      BY <3>2, <1>4
    <3> QED BY <3>1, <3>3, <1>1
  <2>3. i <= len - d \/ i > len - d
    BY <1>1
  <2> QED BY ONLY <2>1, <2>2, <2>3
<1>7. /\ Signal(d - len, FrameLength) \in Seq(Int) /\ Len(Signal(d - len, FrameLength)) = FrameLength
      /\ \A i \in 1 .. FrameLength : Signal(d - len, FrameLength)[i] = d - len + i - 1
  BY <1>1, SignalIsSeq DEF Signal
<1>8. kept \o rest = Signal(d - len, FrameLength)
  <2>1. \A i \in 1 .. FrameLength : (kept \o rest)[i] = Signal(d - len, FrameLength)[i]
    BY <1>6, <1>7
  <2> DEFINE whole == Signal(d - len, FrameLength)
             both  == kept \o rest
  <2>2. /\ both \in Seq(Int) /\ whole \in Seq(Int)
        /\ Len(both) = FrameLength /\ Len(whole) = FrameLength
    BY <1>5, <1>7
  <2>3. \A i \in 1 .. Len(both) : both[i] = whole[i]
    BY <2>1, <2>2
  <2> HIDE DEF both, whole
  <2>4. both = whole
    BY <2>2, <2>3, SameSamples
  <2> QED BY <2>4 DEF both, whole
<1> QED BY <1>8 DEF kept, rest, all

-----------------------------------------------------------------------------
(* What cutting a slice into frames does, L samples of the next frame kept. *)

LEMMA Cut ==
  ASSUME Shaped
  PROVE  LET len  == Len(current_frame)
             left == bytes_left_end_of_frame(offset_in_signal + calculate_signal_used)
         IN  /\ Carries \in Nat /\ OwnFrames \in Nat
             /\ len \in Nat /\ offset_in_signal \in Nat
             /\ (Carries > 0 => (Carries - 1) * FrameStride < len)
             /\ left = SliceSize + len - (Carries + OwnFrames) * FrameStride
             /\ left \in 0 .. FrameLength - 1
<1> DEFINE len == Len(current_frame)
           C == Carries
           x == SliceSize - offset_in_signal - Overlap
<1>1. /\ SliceSize \in Nat /\ FrameLength \in Nat /\ FrameStride \in Nat \ {0}
      /\ FrameStride <= FrameLength /\ FrameLength <= SliceSize
  BY ClassifierAssumption
<1>2. len \in Nat /\ len < FrameLength
  BY DEF Shaped, Kept
<1>3. C \in Nat /\ C * FrameStride <= len + FrameStride - 1
      /\ len + FrameStride - 1 < C * FrameStride + FrameStride
  <2>1. len + FrameStride - 1 \in Nat
    BY <1>1, <1>2
  <2> QED BY <2>1, <1>1, Division DEF Carries
<1>4. offset_in_signal = C * FrameStride - len /\ offset_in_signal \in 0 .. FrameStride - 1
  BY <1>1, <1>2, <1>3 DEF offset_in_signal
<1>5. x \in Nat /\ x = SliceSize - offset_in_signal - FrameLength + FrameStride
  BY <1>1, <1>4 DEF Overlap
<1>6. OwnFrames = x \div FrameStride
  BY DEF OwnFrames, calculate_no_of_stack_frames
<1>7. /\ OwnFrames \in Nat /\ OwnFrames * FrameStride <= x
      /\ x < OwnFrames * FrameStride + FrameStride
  BY <1>1, <1>5, <1>6, Division
<1>8. calculate_signal_used = OwnFrames * FrameStride - FrameStride + FrameLength
  BY <1>1, <1>7 DEF calculate_signal_used
<1>9. bytes_left_end_of_frame(offset_in_signal + calculate_signal_used)
        = SliceSize - offset_in_signal - OwnFrames * FrameStride
  BY <1>1, <1>4, <1>7, <1>8 DEF bytes_left_end_of_frame, Overlap
<1>10. (C + OwnFrames) * FrameStride = C * FrameStride + OwnFrames * FrameStride
  BY <1>1, <1>3, <1>7
<1>11. C > 0 => (C - 1) * FrameStride = C * FrameStride - FrameStride
  BY <1>1, <1>3
<1> QED BY <1>1, <1>2, <1>3, <1>4, <1>5, <1>7, <1>9, <1>10, <1>11

\* Every new frame is whole, and they are a stride apart from the kept one on.
LEMMA NewFramesWhole ==
  ASSUME Shaped, current_frame = Signal(0 - Kept, Kept)
  PROVE  /\ NewFrames \in Seq(Seq(Int)) /\ Len(NewFrames) = Carries + OwnFrames
         /\ \A k \in 1 .. Carries + OwnFrames :
              NewFrames[k] = Signal((k - 1) * FrameStride - Len(current_frame), FrameLength)
<1> DEFINE len == Len(current_frame)
           K == Carries + OwnFrames
<1>1. SliceSize \in Nat /\ FrameLength \in Nat /\ FrameStride \in Nat \ {0}
  BY ClassifierAssumption
<1>2. /\ Carries \in Nat /\ OwnFrames \in Nat /\ len \in Nat
      /\ (Carries > 0 => (Carries - 1) * FrameStride < len)
      /\ offset_in_signal = Carries * FrameStride - len
  BY Cut DEF offset_in_signal
<1>3. len < FrameLength /\ current_frame = Signal(0 - len, len)
  BY DEF Shaped, Kept
<1>4. ASSUME NEW k \in 1 .. K, k <= Carries
      PROVE  CarriedFrame(k) = Signal((k - 1) * FrameStride - len, FrameLength)
  <2>1. (k - 1) * FrameStride \in Nat /\ (k - 1) * FrameStride <= (Carries - 1) * FrameStride
    <3>1. k - 1 \in Nat /\ Carries - 1 - (k - 1) \in Nat
      BY <1>2, <1>4
    <3>2. (Carries - 1) * FrameStride
            = (k - 1) * FrameStride + (Carries - 1 - (k - 1)) * FrameStride
      BY <3>1, <1>1, <1>2
    <3>3. (k - 1) * FrameStride \in Nat /\ (Carries - 1 - (k - 1)) * FrameStride \in Nat
      BY <3>1, <1>1
    <3> QED BY <3>2, <3>3
  <2>2. (k - 1) * FrameStride <= len
    BY <2>1, <1>1, <1>2, <1>4
  <2> DEFINE d == (k - 1) * FrameStride
  <2>3. d \in Nat /\ d <= len
    BY <2>1, <2>2
  <2> HIDE DEF d
  <2>4. LET kept == SubSeq(Signal(0 - len, len), d + 1, len)
        IN  kept \o Signal(0, FrameLength - Len(kept)) = Signal(d - len, FrameLength)
    BY <2>3, <1>2, <1>3, CompletedFrame
  <2> QED BY <2>4, <1>3 DEF CarriedFrame, d
<1>5. ASSUME NEW k \in 1 .. K
      PROVE  /\ NewFrames[k] = Signal((k - 1) * FrameStride - len, FrameLength)
             /\ (k - 1) * FrameStride - len \in Int
  <2>1. CASE k <= Carries
    BY <2>1, <1>1, <1>2, <1>4 DEF NewFrames
  <2>2. CASE k > Carries
    <3>1. NewFrames[k] = Signal(offset_in_signal + (k - Carries - 1) * FrameStride, FrameLength)
      BY <2>2, <1>2 DEF NewFrames
    <3>2. (k - 1) * FrameStride = Carries * FrameStride + (k - Carries - 1) * FrameStride
      BY <1>1, <1>2
    <3>3. Carries * FrameStride \in Int /\ (k - Carries - 1) * FrameStride \in Int
      BY <1>1, <1>2
    <3>4. offset_in_signal + (k - Carries - 1) * FrameStride = (k - 1) * FrameStride - len
      BY <3>2, <3>3, <1>2
    <3> QED BY <3>1, <3>2, <3>3, <3>4, <1>2
  <2> QED BY <2>1, <2>2, <1>2
<1>6. \A k \in 1 .. K : NewFrames[k] \in Seq(Int)
  BY <1>1, <1>5, SignalIsSeq
<1>7. K \in Nat /\ NewFrames = [k \in 1 .. K |-> NewFrames[k]]
  BY <1>2 DEF NewFrames
<1> HIDE DEF K
<1>8. NewFrames \in Seq(Seq(Int)) /\ Len(NewFrames) = K
  BY <1>6, <1>7
<1> QED BY <1>5, <1>8 DEF K

\* Also of samples that do not follow each other, frames of samples are made.
LEMMA NewFramesAreSeqs ==
  ASSUME Shaped
  PROVE  NewFrames \in Seq(Seq(Int)) /\ Len(NewFrames) = Carries + OwnFrames
<1> DEFINE K == Carries + OwnFrames
<1>1. SliceSize \in Nat /\ FrameLength \in Nat /\ FrameStride \in Nat \ {0}
  BY ClassifierAssumption
<1>2. /\ Carries \in Nat /\ OwnFrames \in Nat /\ Kept \in Nat /\ offset_in_signal \in Nat
  BY Cut DEF Kept
<1>3. current_frame \in Seq(Int) /\ Kept < FrameLength
  BY DEF Shaped
<1>4. ASSUME NEW k \in 1 .. K PROVE CarriedFrame(k) \in Seq(Int)
  <2> DEFINE d == (k - 1) * FrameStride
             kept == SubSeq(current_frame, d + 1, Kept)
  <2>1. d \in Nat
    BY <1>1, <1>2
  <2> HIDE DEF d
  <2>2. kept \in Seq(Int) /\ Len(kept) <= Kept /\ Len(kept) \in Nat
    BY <2>1, <1>2, <1>3 DEF Kept
  <2> HIDE DEF kept
  <2>3. Signal(0, FrameLength - Len(kept)) \in Seq(Int)
    <3>1. FrameLength - Len(kept) \in Nat
      BY <2>2, <1>1, <1>2, <1>3
    <3> QED BY <3>1, SignalIsSeq
  <2>4. kept \o Signal(0, FrameLength - Len(kept)) \in Seq(Int)
    BY <2>2, <2>3, Concatenated
  <2> QED BY <2>4 DEF CarriedFrame, kept, d, Kept
<1>5. ASSUME NEW k \in 1 .. K PROVE NewFrames[k] \in Seq(Int)
  <2>1. CASE k <= Carries
    BY <2>1, <1>4 DEF NewFrames
  <2>2. CASE ~(k <= Carries)
    <3>1. NewFrames[k] = Signal(offset_in_signal + (k - Carries - 1) * FrameStride, FrameLength)
      BY <2>2 DEF NewFrames
    <3>2. offset_in_signal + (k - Carries - 1) * FrameStride \in Int
      BY <1>1, <1>2
    <3> QED BY <3>1, <3>2, <1>1, SignalIsSeq
  <2> QED BY <2>1, <2>2
<1>6. K \in Nat /\ NewFrames = [k \in 1 .. K |-> NewFrames[k]]
  BY <1>2 DEF NewFrames
<1> HIDE DEF K
<1>7. NewFrames \in Seq(Seq(Int)) /\ Len(NewFrames) = K
  BY <1>5, <1>6
<1> QED BY <1>7 DEF K

LEMMA RolledShape ==
  ASSUME features \in [1 .. Rows -> Seq(Int)], NEW new \in Seq(Seq(Int))
  PROVE  /\ Rolled(new) \in [1 .. Rows -> Seq(Int)]
         /\ \A r \in 1 .. Rows :
              Rolled(new)[r] = IF r + Len(new) <= Rows THEN features[r + Len(new)]
                                                       ELSE new[r + Len(new) - Rows]
<1> DEFINE n == Len(new)
<1>1. Rows \in Nat /\ n \in Nat
  BY RowsNat
<1>2. ASSUME NEW r \in 1 .. Rows
      PROVE  (IF r + n <= Rows THEN features[r + n] ELSE new[r + n - Rows]) \in Seq(Int)
  <2>1. CASE r + n <= Rows
    <3>1. r + n \in 1 .. Rows
      BY <2>1, <1>1
    <3> QED BY <3>1, <2>1
  <2>2. CASE ~(r + n <= Rows)
    <3>1. r + n - Rows \in 1 .. n
      BY <2>2, <1>1
    <3> QED BY <3>1, <2>2
  <2> QED BY <2>1, <2>2
<1> QED BY <1>2 DEF Rolled

-----------------------------------------------------------------------------
(* The steps *)

LEMMA InitShaped == ASSUME CInit PROVE Shaped
<1>1. FrameLength \in Nat /\ FrameLength > 0 /\ <<>> \in Seq(Int) /\ Rows \in Nat
  BY ClassifierAssumption, RowsNat
<1> QED BY <1>1 DEF CInit, Shaped, Stale, Kept

LEMMA RestartWindow ==
  ASSUME run_classifier_init PROVE Shaped' /\ Window(SliceSize, 0)'
<1>1. FrameLength \in Nat /\ FrameLength > 0 /\ <<>> \in Seq(Int) /\ Rows \in Nat
      /\ FrameStride \in Nat /\ SliceSize \in Nat
  BY ClassifierAssumption, RowsNat
<1>2. current_frame' = <<>> /\ features' = [r \in 1 .. Rows |-> <<>>] /\ Kept' = 0
  BY DEF run_classifier_init, Stale, Kept
<1>3. Signal(SliceSize - 0, 0) = <<>>
  BY DEF Signal
<1>4. \A r \in 1 .. Rows : ~((Rows - r) * FrameStride < 0)
  <2> SUFFICES ASSUME NEW r \in 1 .. Rows PROVE ~((Rows - r) * FrameStride < 0)
    OBVIOUS
  <2>1. Rows - r \in Nat
    BY <1>1
  <2>2. (Rows - r) * FrameStride \in Nat
    BY <2>1, <1>1
  <2> QED BY <2>2
<1>5. 0 * SliceSize - Kept' = 0
  BY <1>1, <1>2
<1> QED BY <1>1, <1>2, <1>3, <1>4, <1>5 DEF Shaped, Window

LEMMA RecordedShaped ==
  ASSUME Shaped, SliceRecorded PROVE Shaped' /\ Kept' = Kept
<1>1. SliceSize \in Nat
  BY ClassifierAssumption
<1>2. current_frame' \in Seq(Int) /\ Len(current_frame') = Len(current_frame)
  BY <1>1, EarlierIsSeq DEF Shaped, SliceRecorded
<1>3. \A r \in 1 .. Rows : Earlier(features[r], SliceSize) \in Seq(Int)
  BY <1>1, EarlierIsSeq DEF Shaped
<1>4. features' \in [1 .. Rows -> Seq(Int)]
  BY <1>3 DEF SliceRecorded
<1> QED BY <1>2, <1>4 DEF Shaped, Kept

\* Recording a slice makes everything a slice older, the kept frame with it.
LEMMA RecordedWindow ==
  ASSUME Shaped, NEW n \in Nat, Window(SliceSize, n), SliceRecorded
  PROVE  Window(0, n)'
<1>1. /\ SliceSize \in Nat /\ FrameLength \in Nat /\ FrameStride \in Nat \ {0}
      /\ Rows \in Nat /\ Kept \in Nat /\ Kept' = Kept
  BY ClassifierAssumption, RowsNat, RecordedShaped DEF Shaped, Kept
<1>2. current_frame' = Signal(0 - Kept, Kept)
  <2>1. current_frame' = Earlier(Signal(SliceSize - Kept, Kept), SliceSize)
    BY DEF SliceRecorded, Window
  <2>2. SliceSize - Kept \in Int /\ (SliceSize - Kept) - SliceSize = 0 - Kept
    BY <1>1
  <2> QED BY <2>1, <2>2, <1>1, EarlierSignal
<1>3. ASSUME NEW r \in 1 .. Rows, (Rows - r) * FrameStride < n * SliceSize - Kept
      PROVE  features'[r] = Signal(0 - Kept - (Rows + 1 - r) * FrameStride, FrameLength)
  <2> DEFINE from == SliceSize - Kept - (Rows + 1 - r) * FrameStride
  <2>1. features[r] = Signal(from, FrameLength)
    BY <1>3 DEF Window
  <2>2. from \in Int /\ from - SliceSize = 0 - Kept - (Rows + 1 - r) * FrameStride
    <3>1. (Rows + 1 - r) * FrameStride \in Int
      BY <1>1
    <3> QED BY <3>1, <1>1
  <2>3. features'[r] = Earlier(Signal(from, FrameLength), SliceSize)
    BY <2>1 DEF SliceRecorded
  <2> HIDE DEF from
  <2>4. features'[r] = Signal(from - SliceSize, FrameLength)
    BY <2>2, <2>3, <1>1, EarlierSignal
  <2> QED BY <2>2, <2>4
<1>4. Kept' = Kept
  BY <1>1
<1> QED BY <1>2, <1>3, <1>4 DEF Window

\* Whatever was kept, what is kept of a slice is its last samples.
LEMMA ClassifiedShaped ==
  ASSUME Shaped, run_classifier_continuous
  PROVE  /\ Shaped'
         /\ Kept' = SliceSize + Kept - (Carries + OwnFrames) * FrameStride
         /\ current_frame' = Signal(SliceSize - Kept', Kept')
         /\ features' = Rolled(NewFrames)
<1> DEFINE left == bytes_left_end_of_frame(offset_in_signal + calculate_signal_used)
<1>1. SliceSize \in Nat /\ FrameLength \in Nat
  BY ClassifierAssumption
<1>2. /\ left = SliceSize + Kept - (Carries + OwnFrames) * FrameStride
      /\ left \in 0 .. FrameLength - 1
  BY Cut DEF Kept
<1>3. features' = Rolled(NewFrames) /\ current_frame' = Signal(SliceSize - left, left)
  BY Zenon DEF run_classifier_continuous, extract_per_slice_features
<1> HIDE DEF left
<1>4. current_frame' \in Seq(Int) /\ Kept' = left
  <2>1. left \in Nat /\ SliceSize - left \in Int
    BY <1>1, <1>2
  <2>2. Signal(SliceSize - left, left) \in Seq(Int) /\ Len(Signal(SliceSize - left, left)) = left
    BY <2>1, SignalIsSeq
  <2> QED BY <2>2, <1>3 DEF Kept
<1>5. features' \in [1 .. Rows -> Seq(Int)]
  BY <1>3, NewFramesAreSeqs, RolledShape DEF Shaped
<1>6. left < FrameLength
  BY <1>1, <1>2
<1> QED BY <1>2, <1>3, <1>4, <1>5, <1>6 DEF Shaped

\* Classifying a slice over again puts the kept samples right at least.
LEMMA AnyClassifiedWindow ==
  ASSUME Shaped, run_classifier_continuous
  PROVE  Window(SliceSize, 0)'
<1>1. FrameStride \in Nat /\ SliceSize \in Nat /\ Rows \in Nat
  BY ClassifierAssumption, RowsNat
<1>2. current_frame' = Signal(SliceSize - Kept', Kept') /\ Kept' \in Nat
  BY ClassifiedShaped DEF Shaped, Kept
<1>3. \A r \in 1 .. Rows : ~((Rows - r) * FrameStride < 0 * SliceSize - Kept')
  <2> SUFFICES ASSUME NEW r \in 1 .. Rows
               PROVE  ~((Rows - r) * FrameStride < 0 * SliceSize - Kept')
    OBVIOUS
  <2>1. Rows - r \in Nat /\ 0 * SliceSize = 0
    BY <1>1
  <2>2. (Rows - r) * FrameStride \in Nat
    BY <2>1, <1>1
  <2> QED BY <2>1, <2>2, <1>2
<1> QED BY <1>2, <1>3 DEF Window

LEMMA FewerSlices ==
  ASSUME NEW n \in Nat, NEW m \in Nat, m <= n
  PROVE  m * SliceSize <= n * SliceSize /\ m * SliceSize \in Nat /\ n * SliceSize \in Nat
<1>1. SliceSize \in Nat
  BY ClassifierAssumption
<1>2. n - m \in Nat /\ n * SliceSize = m * SliceSize + (n - m) * SliceSize
  BY <1>1
<1>3. (n - m) * SliceSize \in Nat /\ m * SliceSize \in Nat /\ n * SliceSize \in Nat
  BY <1>1, <1>2
<1> QED BY <1>2, <1>3

\* Classifying a slice: the window keeps what followed the first frames out of
\* it, and the new frames join on where the kept one began.
LEMMA ClassifiedWindow ==
  ASSUME Shaped, NEW n \in Nat, Window(0, n), run_classifier_continuous,
         NEW m \in Nat, m <= n + 1
  PROVE  Window(SliceSize, m)'
<1> DEFINE K == Carries + OwnFrames
<1>1. /\ SliceSize \in Nat /\ FrameLength \in Nat /\ FrameStride \in Nat \ {0}
      /\ Rows \in Nat /\ Kept \in Nat /\ K \in Nat
  <2>1. Carries \in Nat /\ OwnFrames \in Nat
    BY Cut
  <2>2. Kept \in Nat
    BY DEF Shaped, Kept
  <2> QED BY <2>1, <2>2, ClassifierAssumption, RowsNat
<1>2. /\ Kept' \in Nat /\ Kept' = SliceSize + Kept - K * FrameStride
      /\ current_frame' = Signal(SliceSize - Kept', Kept')
      /\ features' = Rolled(NewFrames)
  BY ClassifiedShaped DEF Shaped, Kept
<1>3. /\ NewFrames \in Seq(Seq(Int)) /\ Len(NewFrames) = K
      /\ \A k \in 1 .. K : NewFrames[k] = Signal((k - 1) * FrameStride - Kept, FrameLength)
  BY NewFramesWhole DEF Window, Kept
<1> HIDE DEF K
<1>4. ASSUME NEW r \in 1 .. Rows
      PROVE  features'[r] = IF r + K <= Rows THEN features[r + K] ELSE NewFrames[r + K - Rows]
  BY <1>2, <1>3, RolledShape DEF Shaped
<1>5. ASSUME NEW r \in 1 .. Rows, (Rows - r) * FrameStride < m * SliceSize - Kept'
      PROVE  features'[r] = Signal(SliceSize - Kept' - (Rows + 1 - r) * FrameStride, FrameLength)
  <2>0. m * SliceSize <= (n + 1) * SliceSize /\ m * SliceSize \in Nat
    BY FewerSlices
  <2>1. SliceSize - Kept' = K * FrameStride - Kept /\ K * FrameStride \in Nat
    BY <1>1, <1>2
  <2>2. CASE r + K <= Rows
    <3>1. r + K \in 1 .. Rows
      BY <2>2, <1>1
    <3>2. (Rows - (r + K)) * FrameStride < n * SliceSize - Kept
      <4>1. (Rows - (r + K)) * FrameStride = (Rows - r) * FrameStride - K * FrameStride
        BY <1>1
      <4>2. (n + 1) * SliceSize = n * SliceSize + SliceSize
        BY <1>1
      <4>3. (Rows - r) * FrameStride \in Int /\ n * SliceSize \in Int
        BY <1>1
      <4> QED BY <4>1, <4>2, <4>3, <2>0, <2>1, <1>1, <1>2, <1>5
    <3>3. features[r + K] = Signal(0 - Kept - (Rows + 1 - (r + K)) * FrameStride, FrameLength)
      BY <3>1, <3>2 DEF Window
    <3>4. 0 - Kept - (Rows + 1 - (r + K)) * FrameStride
            = SliceSize - Kept' - (Rows + 1 - r) * FrameStride
      <4>1. (Rows + 1 - (r + K)) * FrameStride = (Rows + 1 - r) * FrameStride - K * FrameStride
        BY <1>1
      <4>2. (Rows + 1 - r) * FrameStride \in Int
        BY <1>1
      <4> QED BY <4>1, <4>2, <2>1, <1>1
    <3> QED BY <3>3, <3>4, <2>2, <1>4
  <2>3. CASE ~(r + K <= Rows)
    <3>1. r + K - Rows \in 1 .. K
      BY <2>3, <1>1
    <3>2. NewFrames[r + K - Rows] = Signal(((r + K - Rows) - 1) * FrameStride - Kept, FrameLength)
      <4> DEFINE k == r + K - Rows
      <4> HIDE DEF k
      <4>1. k \in 1 .. K => NewFrames[k] = Signal((k - 1) * FrameStride - Kept, FrameLength)
        BY <1>3
      <4> QED BY <3>1, <4>1, Zenon DEF k
    <3>3. ((r + K - Rows) - 1) * FrameStride - Kept
            = SliceSize - Kept' - (Rows + 1 - r) * FrameStride
      <4>1. ((r + K - Rows) - 1) * FrameStride = K * FrameStride - (Rows + 1 - r) * FrameStride
        BY <1>1
      <4>2. (Rows + 1 - r) * FrameStride \in Int
        BY <1>1
      <4> QED BY <4>1, <4>2, <2>1, <1>1
    <3> QED BY <3>2, <3>3, <2>3, <1>4
  <2> QED BY <2>2, <2>3
<1> QED BY <1>2, <1>5 DEF Window

LEMMA FailedShaped == ASSUME Shaped, extract_fails PROVE Shaped'
<1>1. PICK k \in 0 .. Carries :
        LET missing == [i \in 1 .. IF k < Carries THEN 1 ELSE OwnFrames |-> Stale]
        IN  /\ \E rolled \in {<<>>, missing} :
                 features' = Rolled(SubSeq(NewFrames, 1, k) \o rolled)
            /\ current_frame' = SubSeq(current_frame, k * FrameStride + 1, Len(current_frame))
  BY Zenon DEF extract_fails
<1> DEFINE m == IF k < Carries THEN 1 ELSE OwnFrames
           missing == [i \in 1 .. m |-> Stale]
<1>2. PICK rolled \in {<<>>, missing} : features' = Rolled(SubSeq(NewFrames, 1, k) \o rolled)
  BY <1>1
<1>3. /\ FrameStride \in Nat /\ FrameLength \in Nat /\ Carries \in Nat /\ OwnFrames \in Nat
      /\ Kept \in Nat
  BY ClassifierAssumption, Cut DEF Kept
<1>4. rolled \in Seq(Seq(Int))
  <2>1. Stale \in Seq(Int) /\ m \in Nat
    BY <1>3 DEF Stale
  <2> HIDE DEF m
  <2>2. missing \in Seq(Seq(Int)) /\ <<>> \in Seq(Seq(Int))
    BY <2>1
  <2> QED BY <2>2, <1>2
<1>5. SubSeq(NewFrames, 1, k) \in Seq(Seq(Int))
  BY <1>3, NewFramesAreSeqs
<1>6. SubSeq(NewFrames, 1, k) \o rolled \in Seq(Seq(Int))
  BY <1>4, <1>5
<1>7. features' \in [1 .. Rows -> Seq(Int)]
  BY <1>2, <1>6, RolledShape DEF Shaped
<1>8. current_frame' \in Seq(Int) /\ Len(current_frame') <= Kept
  <2> DEFINE d == k * FrameStride
  <2>1. d \in Nat /\ current_frame' = SubSeq(current_frame, d + 1, Kept)
    BY <1>1, <1>3 DEF Kept
  <2> HIDE DEF d
  <2> QED BY <2>1, <1>3 DEF Shaped, Kept
<1> QED BY <1>3, <1>7, <1>8 DEF Shaped, Kept

\* A window's slices are enough for all of its rows.
LEMMA WholeAfterWindow ==
  ASSUME Shaped, Window(SliceSize, Slices) PROVE WholeWindow
<1>1. /\ SliceSize \in Nat /\ FrameLength \in Nat /\ FrameStride \in Nat \ {0}
      /\ Slices \in Nat /\ Rows \in Nat /\ Kept \in Nat /\ Kept < FrameLength
      /\ FrameStride <= FrameLength
  BY ClassifierAssumption, RowsNat DEF Shaped, Kept
<1>2. Rows * FrameStride <= Slices * SliceSize - FrameLength + FrameStride
  <2>1. Slices * SliceSize - Overlap \in Nat
    <3>1. Slices * SliceSize >= SliceSize /\ Slices * SliceSize \in Nat
      BY ClassifierAssumption
    <3> QED BY <3>1, ClassifierAssumption DEF Overlap
  <2>2. Rows * FrameStride <= Slices * SliceSize - Overlap
    BY <2>1, <1>1, Division DEF Rows, calculate_no_of_stack_frames
  <2>3. Slices * SliceSize \in Nat /\ Rows * FrameStride \in Nat
    BY <1>1
  <2> QED BY <2>2, <2>3, <1>1 DEF Overlap
<1>3. ASSUME NEW r \in 1 .. Rows PROVE (Rows - r) * FrameStride < Slices * SliceSize - Kept
  <2>1. (Rows - r) * FrameStride = Rows * FrameStride - (r - 1) * FrameStride - FrameStride
    BY <1>1
  <2>2. r - 1 \in Nat
    OBVIOUS
  <2>3. (r - 1) * FrameStride \in Nat /\ Rows * FrameStride \in Nat /\ Slices * SliceSize \in Nat
    BY <2>2, <1>1
  <2> QED BY <2>1, <2>3, <1>1, <1>2
<1> QED BY <1>1, <1>3 DEF Window, WholeWindow, Kept

-----------------------------------------------------------------------------
(* The inference *)

\* The inference task is inside ei_run_impulse, or has just found it running.
Inside == pc \in {"switch", "reset", "record", "poll", "copy", "leave",
                  "classify", "report"}

\* The heap holds the two buffers while an inference runs and nothing
\* otherwise; the task leaves ei_run_impulse before it is stopped.
HeapInv ==
  /\ faults = {}
  /\ is_inference_running => buffers[0] # NULL /\ buffers[1] # NULL
  /\ live = IF is_inference_running THEN {buffers[0], buffers[1]} ELSE {}
  /\ Inside => is_inference_running

\* Data is ready only where a buffer is full or its classification failed.
ReadyInv ==
  /\ pc \in {"leave", "classify"} => buf_ready = 1 \/ failed
  /\ pc \in {"none", "loop", "switch"} /\ state = "DATA_READY" => failed
  /\ pc = "leave" => buf_ready = 1

\* A buffer stays full only until it is classified; and a result that is going
\* to be printed, with nothing failed, has a window's slices behind it.
CountInv ==
  /\ buf_ready = 1 => pc \in {"leave", "classify"}
  /\ (failed <=> slices = -1) /\ (failed => spoilt)
  /\ continuous_mode /\ is_inference_running /\ ~spoilt =>
       \/ slices = Slices
       \/ print_results + Slices + (IF pc = "report" THEN 1 ELSE 0) <= slices

\* The window holds what so many slices are enough for; a recorded slice is in
\* it when it was classified.
Edge == IF pc \in {"leave", "classify"} THEN 0 ELSE SliceSize
WindowInv ==
  continuous_mode /\ is_inference_running =>
    Shaped /\ (slices >= 0 => Window(Edge, slices))

IInv == TypeOK /\ (rude \/ (HeapInv /\ ReadyInv /\ CountInv /\ WindowInv))

-----------------------------------------------------------------------------
(* Types *)

LEMMA Sizes ==
  /\ SliceSize \in Nat \ {0} /\ Slices \in Nat \ {0} /\ FrameSize \in Nat \ {0}
  /\ MaxStarts \in Nat
  BY ClassifierAssumption, AudioAssumption

\* What Copy computes from a count inside a buffer.
LEMMA Counts ==
  ASSUME NEW x \in Nat
  PROVE  /\ (x + FrameSize) \div SliceSize \in Nat
         /\ (x + FrameSize) % SliceSize \in 0 .. SliceSize - 1
  BY Sizes

\* What an inference's variables can do in a step; whether the main task is
\* in a snapshot's handler only keeps some of it from happening.
Actions == AudioFrame \/ TwoSeconds \/ Command \/ InferenceTask

LEMMA StepIs == [Next]_vars => [Actions]_inference
<1>1. Environment => Actions
  BY DEF Environment, Actions
<1>2. Snapshot => UNCHANGED inference
  BY DEF Snapshot
<1>3. MainTask => Actions
  BY DEF MainTask, Actions
<1>4. Inferring => Actions
  BY DEF Inferring, Actions
<1>5. UNCHANGED vars => UNCHANGED inference
  BY DEF vars
<1> QED BY <1>1, <1>2, <1>3, <1>4, <1>5 DEF Next

LEMMA SnappingStep == snapping \in BOOLEAN /\ [Next]_vars => snapping' \in BOOLEAN
  BY Zenon DEF Next, Environment, Snapshot, MainTask, Inferring, vars

\* TypeOK in parts: the Boolean variables, the faults, and the others.
Booleans ==
  /\ continuous_mode \in BOOLEAN /\ due \in BOOLEAN
  /\ audio_on \in BOOLEAN /\ g_audioRecording \in BOOLEAN /\ g_audioReady \in BOOLEAN
  /\ failed \in BOOLEAN /\ spoilt \in BOOLEAN /\ rude \in BOOLEAN

Others ==
  /\ state \in {"STOPPED", "WAITING", "SAMPLING", "DATA_READY"}
  /\ print_results \in -Slices .. Slices
  /\ buffers \in [{0, 1} -> Block \cup {NULL}]
  /\ buf_select \in {0, 1}
  /\ buf_count \in 0 .. SliceSize - 1
  /\ buf_ready \in {0, 1}
  /\ pc \in {"none", "loop", "switch", "reset", "record", "poll", "copy",
             "leave", "classify", "report"}
  /\ line \in {"empty", "b"}
  /\ live \subseteq Block
  /\ starts \in 0 .. MaxStarts
  /\ slices \in -1 .. Slices
  /\ reports \in {0, 1}

Faults == faults \subseteq {"double_free", "write_after_free",
                           "read_after_free"}

LEMMA Parts == TypeOK <=> Booleans /\ Others /\ Faults /\ snapping \in BOOLEAN
  BY Zenon DEF TypeOK, Booleans, Others, Faults

LEMMA InitType == Init => TypeOK
<1> SUFFICES ASSUME Init PROVE Booleans /\ Others /\ Faults /\ snapping \in BOOLEAN
  BY Parts
<1>1. Booleans
  BY Zenon DEF Init, Booleans
<1>2. Others
  BY Sizes DEF Init, Others, NULL
<1>3. Faults
  BY Zenon DEF Init, Faults
<1>4. snapping \in BOOLEAN
  BY Zenon DEF Init
<1> QED BY <1>1, <1>2, <1>3, <1>4

LEMMA BooleansStep == ASSUME Booleans, [Actions]_inference PROVE Booleans'
<1> USE DEF Booleans
<1>1. CASE AudioFrame
  BY <1>1, Zenon DEF AudioFrame, hist
<1>2. CASE TwoSeconds
  BY <1>2, Zenon DEF TwoSeconds, rec, hist
<1>3. CASE \E continuous \in BOOLEAN : StartFails(continuous)
  BY <1>3, Zenon DEF StartFails, StartIsRude, rec
<1>4. CASE \E continuous \in BOOLEAN : ei_start_impulse(continuous)
  <2> PICK c \in BOOLEAN : ei_start_impulse(c)
    BY <1>4
  <2>1. due' \in {due, FALSE} /\ audio_on' \in {TRUE, audio_on}
    BY DEF ei_start_impulse
  <2> QED BY <2>1, Zenon DEF ei_start_impulse, StartIsRude
<1>5. CASE ei_stop_impulse
  BY <1>5, Zenon DEF ei_stop_impulse, StopIsRude
<1>6. CASE Enter
  BY <1>6, Zenon DEF Enter, rec, hist
<1>7. CASE SampleToMemory
  BY <1>7, Zenon DEF SampleToMemory, StartIsRude
<1>8. CASE TestRunning \/ Switch
  BY <1>8, Zenon DEF TestRunning, Switch, rec, hist
<1>9. CASE Reset
  BY <1>9, Zenon DEF Reset, rec, hist
<1>10. CASE Record
  BY <1>10, Zenon DEF Record, hist
<1>11. CASE PollFrame
  BY <1>11, Zenon DEF PollFrame, rec, hist
<1>12. CASE Copy
  BY <1>12, Zenon DEF Copy, hist
<1>13. CASE Leave
  BY <1>13, Zenon DEF Leave, hist
<1>14. CASE Classify
  BY <1>14, Zenon DEF Classify, rec
<1>15. CASE Report
  <2>1. due' \in {due, FALSE}
    BY <1>15 DEF Report
  <2> QED BY <2>1, <1>15, Zenon DEF Report, rec
<1>16. CASE UNCHANGED inference
  BY <1>16, Zenon DEF inference, rec, hist
<1> QED BY <1>1, <1>2, <1>3, <1>4, <1>5, <1>6, <1>7, <1>8, <1>9, <1>10, <1>11,
           <1>12, <1>13, <1>14, <1>15, <1>16 DEF Actions, Command, InferenceTask

LEMMA OthersStep == ASSUME Others, [Actions]_inference PROVE Others'
<1>1. CASE AudioFrame
  BY <1>1 DEF AudioFrame, Others, mic, heap, hist
<1>2. CASE TwoSeconds
  BY <1>2 DEF TwoSeconds, Others, mic, heap, hist
<1>3. CASE Enter
  BY <1>3 DEF Enter, Others, mic, heap, hist
<1>4. CASE \E continuous \in BOOLEAN : StartFails(continuous)
  <2> PICK c \in BOOLEAN : StartFails(c)
    BY <1>4
  <2>1. /\ UNCHANGED <<state, print_results, buf_select, buf_count, buf_ready, pc,
                       line, live, slices, reports>>
        /\ starts < MaxStarts /\ starts' = starts + 1
    BY DEF StartFails
  <2>2. starts' \in 1 .. MaxStarts /\ 2 * starts' - 1 \in Block
    BY <2>1, Sizes DEF Others, Block
  <2>3. buffers' \in [{0, 1} -> Block \cup {NULL}]
    BY <2>2 DEF StartFails, Others
  <2> QED BY <2>1, <2>2, <2>3 DEF Others
<1>5. CASE \E continuous \in BOOLEAN : ei_start_impulse(continuous)
  <2> PICK c \in BOOLEAN : ei_start_impulse(c)
    BY <1>5
  <2>1. /\ state' \in {"SAMPLING", "WAITING"} /\ print_results' \in {-Slices, print_results}
        /\ UNCHANGED line /\ pc' \in {"loop", pc}
    BY DEF ei_start_impulse, FirstCount, inference_task_start
  <2>2. /\ slices' = 0 /\ reports' = 0 /\ buf_select' = 0 /\ buf_count' = 0 /\ buf_ready' = 0
        /\ starts < MaxStarts /\ starts' = starts + 1
    BY DEF ei_start_impulse
  <2>3. starts' \in 1 .. MaxStarts /\ 2 * starts' - 1 \in Block /\ 2 * starts' \in Block
    BY <2>2, Sizes DEF Others, Block
  <2>4. buffers' \in [{0, 1} -> Block \cup {NULL}]
    <3>1. buffers' = [i \in {0, 1} |-> 2 * starts' - 1 + i]
      BY DEF ei_start_impulse
    <3>2. 2 * starts' - 1 + 0 = 2 * starts' - 1 /\ 2 * starts' - 1 + 1 = 2 * starts'
      BY <2>3, Sizes
    <3> QED BY <3>1, <3>2, <2>3
  <2>5. live' \subseteq Block
    BY <2>3 DEF ei_start_impulse, Others
  <2>6. print_results' \in -Slices .. Slices
    BY <2>1, Sizes DEF Others
  <2> QED BY <2>1, <2>2, <2>3, <2>4, <2>5, <2>6, Sizes DEF Others
<1>6. CASE ei_stop_impulse
  <2>1. /\ UNCHANGED <<print_results, buffers, buf_select, buf_count, buf_ready, pc, starts>>
        /\ state' = "STOPPED" /\ line' = "b" /\ slices' = 0 /\ reports' = 0
        /\ live' \subseteq live
    BY <1>6 DEF ei_stop_impulse, FreeBuffers, mic
  <2> QED BY <2>1, Sizes DEF Others
<1>7. CASE SampleToMemory
  BY <1>7 DEF SampleToMemory, Others, mic, heap
<1>8. CASE TestRunning \/ PollFrame \/ Record
  BY <1>8 DEF TestRunning, PollFrame, Record, Goto, Others, mic, heap, hist
<1>9. CASE Leave
  BY <1>9 DEF Leave, Goto, Others, mic, heap, hist
<1>10. CASE Switch
  <2>1. pc' \in {"loop", "reset", "record", "classify"}
    BY <1>10 DEF Switch, Goto, Others
  <2> QED BY <2>1, <1>10 DEF Switch, Others, mic, heap, hist
<1>11. CASE Reset
  BY <1>11, Sizes DEF Reset, Goto, Others, heap, hist
<1>12. CASE Copy
  <2> DEFINE filled == (buf_count + FrameSize) \div SliceSize
  <2>1. filled \in Nat /\ (buf_count + FrameSize) % SliceSize \in 0 .. SliceSize - 1
    BY Counts DEF Others
  <2>2. /\ buf_select' = (buf_select + filled) % 2 /\ buf_ready' \in {1, buf_ready}
        /\ buf_count' = (buf_count + FrameSize) % SliceSize /\ pc' \in {"leave", "poll"}
    BY <1>12 DEF Copy, Select, Ready
  <2> HIDE DEF filled
  <2>3. buf_select' \in {0, 1}
    BY <2>1, <2>2 DEF Others
  <2>4. /\ UNCHANGED <<state, print_results, buffers, line, live, starts, slices, reports>>
    BY <1>12 DEF Copy, hist
  <2> QED BY <2>1, <2>2, <2>3, <2>4 DEF Others
<1>13. CASE Classify
  <2>1. /\ slices' \in {-1, CappedAt(slices + 1, Slices)} /\ pc' \in {"report", "loop"}
        /\ UNCHANGED <<state, print_results, buffers, buf_select, buf_count, line,
                       live, starts, reports>>
        /\ buf_ready' = 0
    BY <1>13 DEF Classify
  <2>2. slices' \in -1 .. Slices
    BY <2>1, Sizes DEF CappedAt, Others
  <2> QED BY <2>1, <2>2 DEF Others
<1>14. CASE Report
  <2>1. /\ print_results' \in {print_results, 0, print_results + 1}
        /\ print_results' = print_results + 1 => print_results + 1 < Slices \div 2 \/ print_results + 1 = 0
    BY <1>14, Sizes DEF Report, Prints, Others
  <2>2. Slices \div 2 <= Slices
    BY Sizes
  <2>3. print_results' \in -Slices .. Slices
    BY <2>1, <2>2, Sizes DEF Others
  <2>4. /\ UNCHANGED <<buffers, buf_select, buf_count, buf_ready, line, live, starts, slices>>
        /\ pc' = "loop" /\ state' \in {"SAMPLING", "WAITING"} /\ reports' \in {1, reports}
    BY <1>14 DEF Report, Goto, mic, heap
  <2> QED BY <2>3, <2>4 DEF Others
<1>15. CASE UNCHANGED inference
  BY <1>15 DEF inference, Others, mic, heap, hist
<1> QED BY <1>1, <1>2, <1>3, <1>4, <1>5, <1>6, <1>7, <1>8, <1>9, <1>10, <1>11,
           <1>12, <1>13, <1>14, <1>15 DEF Actions, Command, InferenceTask

LEMMA FaultsStep == ASSUME Faults, [Actions]_inference PROVE Faults'
<1>1. CASE Copy
  BY <1>1 DEF Copy, Faults
<1>2. CASE Classify
  BY <1>2 DEF Classify, Faults
<1>3. CASE ei_stop_impulse
  BY <1>3 DEF ei_stop_impulse, FreeBuffers, Faults
<1>4. CASE UNCHANGED faults
  BY <1>4 DEF Faults
<1>5. \/ AudioFrame \/ TwoSeconds \/ Enter \/ SampleToMemory \/ TestRunning \/ Switch
      \/ Reset \/ Record \/ PollFrame \/ Leave \/ Report \/ UNCHANGED inference
      \/ (\E c \in BOOLEAN : StartFails(c) \/ ei_start_impulse(c))
      => UNCHANGED faults
  BY Zenon DEF AudioFrame, TwoSeconds, Enter, SampleToMemory, TestRunning, Switch, Reset,
     Record, PollFrame, Leave, Report, inference, StartFails, ei_start_impulse, heap
<1> QED BY <1>1, <1>2, <1>3, <1>4, <1>5 DEF Actions, Command, InferenceTask

LEMMA TypeStep == TypeOK /\ [Next]_vars => TypeOK'
<1>1. Booleans' /\ Others' /\ Faults' /\ snapping' \in BOOLEAN => TypeOK'
  BY Zenon DEF TypeOK, Booleans, Others, Faults
<1> QED BY <1>1, Parts, StepIs, SnappingStep, BooleansStep, OthersStep, FaultsStep

\* Every variable keeps its type, whatever the user does: no count passes the
\* end of its buffer and no buffer number leaves {0, 1} (ei_mic.cpp:397-411).
THEOREM TypeCorrect == Spec => []TypeOK
  BY InitType, TypeStep, PTL DEF Spec

-----------------------------------------------------------------------------
(* The audio buffers *)

\* Nobody was rude after a step that nobody was rude before.
LEMMA StillPolite == ASSUME [Actions]_inference, ~rude' PROVE ~rude
  BY DEF Actions, AudioFrame, TwoSeconds, Command, StartFails, ei_start_impulse,
     ei_stop_impulse, Enter, SampleToMemory, StartIsRude, StopIsRude, InferenceTask,
     TestRunning, Switch, Reset, Record, PollFrame, Copy, Leave, Classify, Report,
     inference, hist

LEMMA HeapStep == ASSUME TypeOK, HeapInv, [Actions]_inference, ~rude' PROVE HeapInv'
<1>0. ~rude
  BY StillPolite
<1>1. CASE \/ AudioFrame \/ TwoSeconds \/ Enter \/ SampleToMemory \/ UNCHANGED inference
  <2>1. UNCHANGED <<state, buffers, pc, live, faults>>
    BY <1>1 DEF AudioFrame, TwoSeconds, Enter, SampleToMemory, inference, mic, heap
  <2> QED BY <2>1 DEF HeapInv, is_inference_running, Inside
<1>2. CASE \E continuous \in BOOLEAN : StartFails(continuous)
  <2>1. ~is_inference_running /\ UNCHANGED <<state, pc, live, faults>>
    BY <1>2, <1>0 DEF StartFails, StartIsRude
  <2> QED BY <2>1 DEF HeapInv, is_inference_running, Inside
<1>3. CASE \E continuous \in BOOLEAN : ei_start_impulse(continuous)
  <2> PICK c \in BOOLEAN : ei_start_impulse(c)
    BY <1>3
  <2>1. /\ ~is_inference_running /\ UNCHANGED faults
        /\ live' = live \cup {2 * starts' - 1, 2 * starts'} /\ starts' = starts + 1
        /\ buffers' = [i \in {0, 1} |-> 2 * starts' - 1 + i]
        /\ state' \in {"SAMPLING", "WAITING"}
    BY <1>0 DEF ei_start_impulse, StartIsRude
  <2>2. starts' \in Nat \ {0}
    BY <2>1 DEF TypeOK
  <2>3. /\ buffers'[0] = 2 * starts' - 1 /\ buffers'[1] = 2 * starts'
        /\ buffers'[0] # 0 /\ buffers'[1] # 0
    BY <2>1, <2>2
  <2> QED BY <2>1, <2>3 DEF HeapInv, is_inference_running, NULL
<1>4. CASE ei_stop_impulse
  <2>1. /\ is_inference_running /\ UNCHANGED <<buffers, pc>> /\ pc \in {"none", "loop"}
        /\ state' = "STOPPED"
    BY <1>4, <1>0 DEF ei_stop_impulse, StopIsRude, BetweenRuns, mic
  <2>2. live' = {} /\ faults' = {}
    BY <2>1, <1>4 DEF ei_stop_impulse, FreeBuffers, HeapInv
  <2> QED BY <2>1, <2>2 DEF HeapInv, is_inference_running, Inside
<1>5. CASE TestRunning \/ Switch \/ Record \/ PollFrame
  <2>1. UNCHANGED <<state, buffers, live, faults>> /\ is_inference_running
    BY <1>5 DEF TestRunning, Switch, Record, PollFrame, Goto, mic, heap, HeapInv, Inside
  <2> QED BY <2>1 DEF HeapInv, is_inference_running
<1>6. CASE Reset \/ Leave \/ Report
  <2>1. UNCHANGED <<buffers, live, faults>> /\ is_inference_running
        /\ state' \in {"SAMPLING", "DATA_READY", "WAITING"}
    BY <1>6 DEF Reset, Leave, Report, Goto, mic, heap, HeapInv, Inside
  <2> QED BY <2>1 DEF HeapInv, is_inference_running
<1>7. CASE Copy
  <2>1. /\ UNCHANGED <<state, buffers, live>> /\ is_inference_running
        /\ {buffers[buf_select]} \subseteq live /\ {buffers[1 - buf_select]} \subseteq live
    BY <1>7 DEF Copy, HeapInv, Inside, TypeOK
  <2>2. faults' = faults
    BY <1>7, <2>1 DEF Copy, HeapInv
  <2> QED BY <2>1, <2>2 DEF HeapInv, is_inference_running
<1>8. CASE Classify
  <2>1. /\ UNCHANGED <<state, buffers, live>> /\ is_inference_running
        /\ buffers[1 - buf_select] \in live
    BY <1>8 DEF Classify, HeapInv, Inside, TypeOK
  <2>2. faults' = faults
    BY <1>8, <2>1 DEF Classify, HeapInv
  <2> QED BY <2>1, <2>2 DEF HeapInv, is_inference_running
<1> QED BY <1>1, <1>2, <1>3, <1>4, <1>5, <1>6, <1>7, <1>8
        DEF Actions, Command, InferenceTask

-----------------------------------------------------------------------------
(* Full buffers *)

LEMMA ReadyStep == ASSUME TypeOK, HeapInv, ReadyInv, [Actions]_inference, ~rude' PROVE ReadyInv'
<1>0. ~rude
  BY StillPolite
<1>1. CASE \/ AudioFrame \/ TwoSeconds \/ Enter \/ SampleToMemory \/ UNCHANGED inference
  <2>1. UNCHANGED <<state, buf_ready, pc, failed>>
    BY <1>1 DEF AudioFrame, TwoSeconds, Enter, SampleToMemory, inference, mic, hist
  <2> QED BY <2>1 DEF ReadyInv
<1>2. CASE \E continuous \in BOOLEAN : StartFails(continuous)
  <2>1. UNCHANGED <<state, buf_ready, pc, failed>>
    BY <1>2 DEF StartFails
  <2> QED BY <2>1 DEF ReadyInv
<1>3. CASE \E continuous \in BOOLEAN : ei_start_impulse(continuous)
  <2>1. pc' \in {"none", "loop"} /\ state' \in {"SAMPLING", "WAITING"}
    BY <1>0, <1>3 DEF ei_start_impulse, StartIsRude, BetweenRuns, inference_task_start
  <2> QED BY <2>1 DEF ReadyInv
<1>4. CASE ei_stop_impulse
  <2>1. pc' \in {"none", "loop"} /\ state' = "STOPPED"
    BY <1>0, <1>4 DEF ei_stop_impulse, StopIsRude, BetweenRuns
  <2> QED BY <2>1 DEF ReadyInv
<1>5. CASE TestRunning
  BY <1>5 DEF TestRunning, Goto, ReadyInv, mic, hist
<1>6. CASE Switch
  <2>1. UNCHANGED <<state, buf_ready, failed>>
    BY <1>6 DEF Switch, mic, hist
  <2>2. pc = "switch" /\ state \in {"STOPPED", "WAITING", "SAMPLING", "DATA_READY"}
    BY <1>6 DEF Switch, Goto, HeapInv, TypeOK
  <2>3. \/ pc' \in {"loop", "reset", "record"} /\ state # "DATA_READY"
        \/ pc' = "classify" /\ state = "DATA_READY"
    BY <1>6, <2>2 DEF Switch, Goto
  <2> QED BY <2>1, <2>2, <2>3 DEF ReadyInv
<1>7. CASE Reset \/ Record \/ PollFrame
  BY <1>7 DEF Reset, Record, PollFrame, Goto, ReadyInv
<1>8. CASE Copy
  BY <1>8 DEF Copy, RecordingDone, ReadyInv
<1>9. CASE Leave
  BY <1>9 DEF Leave, Goto, ReadyInv, mic
<1>10. CASE Classify
  BY <1>10 DEF Classify, ReadyInv
<1>11. CASE Report
  BY <1>11 DEF Report, Goto, ReadyInv
<1> QED BY <1>1, <1>2, <1>3, <1>4, <1>5, <1>6, <1>7, <1>8, <1>9, <1>10, <1>11
        DEF Actions, Command, InferenceTask

-----------------------------------------------------------------------------
(* Whole windows *)

LEMMA SwitchGoes ==
  ASSUME TypeOK, Switch
  PROVE  pc' \in {"loop", "reset", "record"} \/ (pc' = "classify" /\ state = "DATA_READY")
<1>1. state \in {"STOPPED", "WAITING", "SAMPLING", "DATA_READY"}
  BY DEF TypeOK
<1> QED BY <1>1 DEF Switch, Goto

LEMMA CountStep ==
  ASSUME TypeOK, HeapInv, ReadyInv, CountInv, [Actions]_inference, ~rude'
  PROVE  CountInv'
<1>0. ~rude
  BY StillPolite
<1>t. /\ Slices \in Nat \ {0} /\ slices \in -1 .. Slices /\ print_results \in Int
      /\ buf_ready \in {0, 1}
  BY Sizes DEF TypeOK
<1>1. CASE \/ AudioFrame \/ TwoSeconds \/ Enter \/ SampleToMemory \/ UNCHANGED inference
  <2>1. UNCHANGED <<state, continuous_mode, print_results, buf_ready, pc, failed,
                    spoilt, slices>>
    BY <1>1 DEF AudioFrame, TwoSeconds, Enter, SampleToMemory, inference, mic, hist
  <2> QED BY <2>1 DEF CountInv, is_inference_running
<1>2. CASE \E continuous \in BOOLEAN : StartFails(continuous)
  <2>1. /\ ~is_inference_running /\ UNCHANGED <<state, buf_ready, pc, failed, spoilt, slices>>
    BY <1>0, <1>2 DEF StartFails, StartIsRude
  <2> QED BY <2>1 DEF CountInv, is_inference_running
<1>3. CASE \E continuous \in BOOLEAN : ei_start_impulse(continuous)
  <2> PICK c \in BOOLEAN : ei_start_impulse(c)
    BY <1>3
  <2>1. /\ buf_ready' = 0 /\ ~failed' /\ slices' = 0
        /\ pc' \in {"none", "loop"}
    BY <1>0 DEF ei_start_impulse, StartIsRude, BetweenRuns, inference_task_start
  <2>2. continuous_mode' => print_results' = -Slices
    BY DEF ei_start_impulse, FirstCount
  <2> QED BY <2>1, <2>2, <1>t DEF CountInv
<1>4. CASE ei_stop_impulse
  <2>1. /\ UNCHANGED <<buf_ready, pc>> /\ state' = "STOPPED" /\ ~failed' /\ slices' = 0
    BY <1>4 DEF ei_stop_impulse, mic
  <2> QED BY <2>1 DEF CountInv, is_inference_running
<1>5. CASE TestRunning \/ Switch \/ Reset \/ Record \/ PollFrame
  <2>1. /\ UNCHANGED <<continuous_mode, print_results, failed, spoilt, slices>>
        /\ buf_ready' \in {0, buf_ready} /\ is_inference_running
    BY <1>5 DEF TestRunning, Switch, Reset, Record, PollFrame, Goto, mic, hist, HeapInv, Inside
  <2>2. pc \notin {"leave", "classify", "report"}
    BY <1>5 DEF TestRunning, Switch, Reset, Record, PollFrame, Goto
  <2>3. pc' # "report"
    BY <1>5, SwitchGoes DEF TestRunning, Reset, Record, PollFrame, Goto
  <2> QED BY <2>1, <2>2, <2>3, <1>t DEF CountInv
<1>6. CASE Copy
  <2>1. /\ UNCHANGED <<state, continuous_mode, print_results, failed, spoilt, slices>>
        /\ pc = "copy" /\ pc' = IF buf_ready' = 1 THEN "leave" ELSE "poll"
    BY <1>6 DEF Copy, RecordingDone, hist
  <2> QED BY <2>1 DEF CountInv, is_inference_running
<1>7. CASE Leave
  <2>1. /\ UNCHANGED <<continuous_mode, print_results, buf_ready, failed, spoilt, slices>>
        /\ pc = "leave" /\ pc' = "classify" /\ is_inference_running
    BY <1>7 DEF Leave, Goto, mic, hist, HeapInv, Inside
  <2> QED BY <2>1 DEF CountInv
<1>8. CASE Classify
  <2>1. /\ UNCHANGED <<state, continuous_mode, print_results>> /\ buf_ready' = 0
        /\ pc = "classify"
        /\ \/ /\ pc' = "report" /\ ~failed' /\ UNCHANGED spoilt
              /\ slices' = CappedAt(slices + 1, Slices)
           \/ pc' = "loop" /\ failed' /\ spoilt' /\ slices' = -1
    BY <1>8 DEF Classify
  <2>2. CASE pc' = "report"
    <3>1. slices' = IF slices + 1 < Slices THEN slices + 1 ELSE Slices
      BY <2>1, <2>2 DEF CappedAt
    <3>2. slices' \in Nat /\ ~failed' /\ UNCHANGED spoilt
      BY <3>1, <2>1, <2>2, <1>t
    <3> QED BY <3>1, <3>2, <2>1, <2>2, <1>t DEF CountInv, is_inference_running
  <2>3. CASE pc' = "loop"
    BY <2>1, <2>3 DEF CountInv
  <2> QED BY <2>1, <2>2, <2>3
<1>9. CASE Report
  <2>1. /\ UNCHANGED <<continuous_mode, buf_ready, failed, spoilt, slices>>
        /\ pc = "report" /\ pc' = "loop" /\ is_inference_running
        /\ continuous_mode => print_results' = IF Prints THEN 0 ELSE print_results + 1
    BY <1>9 DEF Report, Goto, mic, HeapInv, Inside
  <2>2. Slices \div 2 >= 0
    BY <1>t
  <2>3. continuous_mode /\ ~Prints => print_results' = print_results + 1
    BY <2>1
  <2>4. continuous_mode /\ Prints => print_results + 1 >= 0
    BY <2>2, <1>t DEF Prints
  <2>5. continuous_mode /\ ~spoilt /\ Prints => slices = Slices
    BY <2>1, <2>4, <1>t DEF CountInv
  <2> QED BY <2>1, <2>3, <2>5, <1>t DEF CountInv
<1> QED BY <1>1, <1>2, <1>3, <1>4, <1>5, <1>6, <1>7, <1>8, <1>9
        DEF Actions, Command, InferenceTask

\* A step that leaves the features alone, and the newest slice as classified
\* or unclassified as it was.
LEMMA SameWindow ==
  ASSUME WindowInv, UNCHANGED cvars, UNCHANGED <<continuous_mode, slices>>,
         is_inference_running, slices >= 0 => Edge' = Edge
  PROVE  WindowInv'
<1>1. UNCHANGED <<current_frame, features>>
  BY DEF cvars
<1>2. Shaped => Shaped'
  BY <1>1 DEF Shaped, Kept
<1>3. slices >= 0 /\ Window(Edge, slices) => Window(Edge, slices)'
  <2> HAVE slices >= 0 /\ Window(Edge, slices)
  <2>1. Edge' = Edge /\ slices' = slices /\ Kept' = Kept
    BY <1>1 DEF Kept
  <2> HIDE DEF Edge
  <2> QED BY <2>1, <1>1 DEF Window
<1> QED BY <1>2, <1>3 DEF WindowInv

LEMMA WindowStep ==
  ASSUME TypeOK, HeapInv, ReadyInv, CountInv, WindowInv, [Actions]_inference, ~rude'
  PROVE  WindowInv'
<1>0. ~rude
  BY StillPolite
<1>1. CASE ~is_inference_running'
  BY <1>1 DEF WindowInv
<1>2. CASE ~continuous_mode'
  BY <1>2 DEF WindowInv
<1>3. CASE \/ AudioFrame \/ TwoSeconds \/ Enter \/ SampleToMemory \/ UNCHANGED inference
  <2>1. UNCHANGED <<state, continuous_mode, slices, pc>> /\ UNCHANGED cvars
    BY <1>3 DEF AudioFrame, TwoSeconds, Enter, SampleToMemory, inference, hist
  <2>2. CASE is_inference_running
    BY <2>1, <2>2, SameWindow DEF Edge
  <2> QED BY <2>1, <2>2 DEF WindowInv, is_inference_running
<1>4. CASE \E continuous \in BOOLEAN : StartFails(continuous)
  <2>1. ~is_inference_running /\ UNCHANGED state
    BY <1>0, <1>4 DEF StartFails, StartIsRude
  <2> QED BY <2>1 DEF WindowInv, is_inference_running
<1>5. CASE continuous_mode' /\ \E continuous \in BOOLEAN : ei_start_impulse(continuous)
  <2> PICK c \in BOOLEAN : ei_start_impulse(c)
    BY <1>5
  <2>1. run_classifier_init /\ slices' = 0 /\ pc' \in {"none", "loop"}
    BY <1>0, <1>5 DEF ei_start_impulse, StartIsRude, BetweenRuns, inference_task_start
  <2>2. Shaped' /\ Window(SliceSize, 0)'
    BY <2>1, RestartWindow
  <2>3. Edge' = SliceSize
    BY <2>1 DEF Edge
  <2>4. Window(Edge, slices)'
    <3> HIDE DEF Edge
    <3> QED BY <2>1, <2>2, <2>3 DEF Window
  <2> QED BY <2>2, <2>4 DEF WindowInv
<1>6. CASE ei_stop_impulse
  <2>1. state' = "STOPPED"
    BY <1>6 DEF ei_stop_impulse
  <2> QED BY <2>1 DEF WindowInv, is_inference_running
<1>7. CASE TestRunning \/ Switch \/ Reset \/ Record \/ PollFrame
  <2>1. UNCHANGED <<continuous_mode, slices>> /\ UNCHANGED cvars /\ is_inference_running
    BY <1>7 DEF TestRunning, Switch, Reset, Record, PollFrame, Goto, hist, HeapInv, Inside
  <2>2. pc \notin {"leave", "classify"}
    BY <1>7 DEF TestRunning, Switch, Reset, Record, PollFrame, Goto
  \* A buffer is classified without having been filled only after a failure.
  <2>3. pc' = "classify" => slices = -1
    <3>1. pc' = "classify" => pc = "switch" /\ state = "DATA_READY"
      BY <1>7, SwitchGoes DEF TestRunning, Switch, Reset, Record, PollFrame, Goto
    <3> QED BY <3>1 DEF ReadyInv, CountInv
  <2>4. pc' # "leave"
    BY <1>7, SwitchGoes DEF TestRunning, Reset, Record, PollFrame, Goto
  <2> QED BY <2>1, <2>2, <2>3, <2>4, SameWindow DEF Edge
<1>8. CASE continuous_mode' /\ Copy
  <2> DEFINE filled == (buf_count + FrameSize) \div SliceSize
  <2>1. /\ continuous_mode /\ is_inference_running /\ UNCHANGED slices
        /\ pc = "copy" /\ buf_ready' = Ready(filled)
        /\ pc' = IF buf_ready' = 1 THEN "leave" ELSE "poll"
        /\ IF filled > 0 THEN SliceRecorded ELSE UNCHANGED cvars
    BY <1>8 DEF Copy, RecordingDone, hist, HeapInv, Inside
  <2>2. buf_ready = 0
    BY <2>1 DEF CountInv, TypeOK
  <2>3. CASE filled > 0
    <3>1. SliceRecorded /\ pc' = "leave"
      BY <2>1, <2>3 DEF Ready
    <3>2. Shaped'
      BY <3>1, <2>1, RecordedShaped DEF WindowInv
    <3>3. slices >= 0 => Window(0, slices)'
      <4> SUFFICES ASSUME slices >= 0 PROVE Window(0, slices)'
        OBVIOUS
      <4> PICK n : n = slices
        OBVIOUS
      <4>1. n \in Nat /\ Shaped /\ Window(SliceSize, n)
        BY <2>1 DEF WindowInv, Edge, TypeOK
      <4>2. Window(0, n)'
        BY <4>1, <3>1, RecordedWindow
      <4> QED BY <4>2, <2>1
    <3>4. Edge' = 0
      BY <3>1 DEF Edge
    <3>5. slices' >= 0 => Window(Edge, slices)'
      <4> HIDE DEF Edge
      <4> QED BY <3>3, <3>4, <2>1 DEF Window
    <3> QED BY <3>2, <3>5 DEF WindowInv
  <2>4. CASE ~(filled > 0)
    <3>1. UNCHANGED cvars /\ pc' = "poll"
      BY <2>1, <2>2, <2>4 DEF Ready
    <3> QED BY <3>1, <2>1, <1>8, SameWindow DEF Edge
  <2> QED BY <2>3, <2>4
<1>9. CASE Leave
  <2>1. UNCHANGED <<continuous_mode, slices>> /\ UNCHANGED cvars /\ is_inference_running
        /\ pc = "leave" /\ pc' = "classify"
    BY <1>9 DEF Leave, Goto, hist, HeapInv, Inside
  <2> QED BY <2>1, SameWindow DEF Edge
<1>10. CASE continuous_mode' /\ Classify
  <2>1. /\ continuous_mode /\ is_inference_running /\ pc = "classify" /\ Shaped
    BY <1>10 DEF Classify, HeapInv, Inside, WindowInv
  <2>2. CASE pc' = "report"
    <3>1. run_classifier_continuous /\ slices' = CappedAt(slices + 1, Slices)
      BY <1>10, <2>1, <2>2 DEF Classify
    <3>2. Shaped' /\ Edge' = SliceSize
      BY <3>1, <2>1, <2>2, ClassifiedShaped DEF Edge
    <3>3. PICK n : n = slices'
      OBVIOUS
    <3>4. n \in 0 .. Slices /\ Slices \in Nat /\ slices \in -1 .. Slices
      BY <3>1, <3>3, Sizes DEF TypeOK, CappedAt
    <3>5. Window(SliceSize, n)'
      <4>1. CASE n = 0
        BY <4>1, <3>1, <2>1, AnyClassifiedWindow
      \* n - 1 slices were in the window before, or all that it has room for.
      <4>2. CASE n > 0
        <5> PICK m : m = slices
          OBVIOUS
        <5>1. m \in Nat /\ n <= m + 1
          BY <4>2, <3>1, <3>3, <3>4 DEF CappedAt
        <5>2. Window(0, m)
          BY <5>1, <2>1 DEF WindowInv, Edge
        <5> QED BY <5>1, <5>2, <3>1, <3>4, <2>1, ClassifiedWindow
      <4> QED BY <3>4, <4>1, <4>2
    <3>6. Window(Edge, slices)'
      <4> HIDE DEF Edge
      <4> QED BY <3>2, <3>3, <3>5 DEF Window
    <3> QED BY <3>2, <3>6 DEF WindowInv
  <2>3. CASE pc' = "loop"
    <3>1. slices' = -1 /\ (extract_fails \/ run_classifier_continuous)
      BY <1>10, <2>1, <2>3 DEF Classify, ClassifierFails
    <3>2. Shaped'
      BY <3>1, <2>1, ClassifiedShaped, FailedShaped
    <3> QED BY <3>1, <3>2 DEF WindowInv
  <2> QED BY <1>10, <2>2, <2>3 DEF Classify
<1>11. CASE Report
  <2>1. UNCHANGED <<continuous_mode, slices>> /\ UNCHANGED cvars /\ is_inference_running
        /\ pc = "report" /\ pc' = "loop"
    BY <1>11 DEF Report, Goto, HeapInv, Inside
  <2> QED BY <2>1, SameWindow DEF Edge
<1> QED BY <1>1, <1>2, <1>3, <1>4, <1>5, <1>6, <1>7, <1>8, <1>9, <1>10, <1>11
        DEF Actions, Command, InferenceTask

LEMMA Invariant == Spec => []IInv
<1>1. Init => IInv
  BY InitType, Sizes DEF Init, IInv, HeapInv, ReadyInv, CountInv, WindowInv,
     is_inference_running, Inside
<1>2. IInv /\ [Next]_vars => IInv'
  BY StepIs, StillPolite, HeapStep, ReadyStep, CountStep, WindowStep, TypeStep DEF IInv
<1> QED BY <1>1, <1>2, PTL DEF Spec

\* The buffers are used only while they are allocated, and each is freed once
\* (ei_mic.cpp:305-377, 397-411).
THEOREM BuffersSafe == Spec => []MemorySafe
<1>1. IInv => MemorySafe
  BY DEF IInv, HeapInv, MemorySafe
<1> QED BY <1>1, Invariant, PTL

\* What is allocated is what inference.buffers point to, and nothing once the
\* inference is stopped (ei_mic.cpp:305-377).
THEOREM BuffersKept == Spec => []NoLeak
<1>1. IInv => NoLeak
  BY DEF IInv, HeapInv, NoLeak
<1> QED BY <1>1, Invariant, PTL

\* Unless its classification failed, a buffer that is classified is full
\* (ei_run_audio_impulse.cpp:85-125).
THEOREM OnlyFullBuffers == Spec => []ClassifiesFullWindow
<1>1. IInv => ClassifiesFullWindow
  BY DEF IInv, ReadyInv, ClassifiesFullWindow
<1> QED BY <1>1, Invariant, PTL

\* "Continuous inference has to run over the complete model window": whatever is
\* printed, with nothing failed before or with a window's slices behind it since
\* something did, was computed on whole frames that follow each other up to the
\* end of the recording (ei_run_audio_impulse.cpp:105-132, 178-183).
THEOREM WindowsWhole == Spec => []PrintsWholeWindow
<1>1. ASSUME IInv PROVE PrintsWholeWindow
  <2> SUFFICES ASSUME pc = "report", continuous_mode, ~rude,
                      (Prints /\ ~spoilt) \/ slices = Slices
               PROVE  WholeWindow
    BY DEF PrintsWholeWindow
  <2>1. TypeOK /\ HeapInv /\ CountInv /\ WindowInv
    BY <1>1 DEF IInv
  <2>2. is_inference_running
    BY <2>1 DEF HeapInv, Inside
  <2>3. Slices \in Nat \ {0} /\ print_results \in Int /\ slices \in -1 .. Slices
    BY <2>1, Sizes DEF TypeOK
  <2>4. slices = Slices
    <3>1. Prints => print_results + 1 >= 0
      BY <2>3 DEF Prints
    <3> QED BY <3>1, <2>1, <2>2, <2>3 DEF CountInv
  <2>5. Shaped /\ Window(SliceSize, Slices)
    BY <2>1, <2>2, <2>3, <2>4 DEF WindowInv, Edge
  <2> QED BY <2>5, WholeAfterWindow
<1> QED BY <1>1, Invariant, PTL
=============================================================================
