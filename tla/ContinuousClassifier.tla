------------------------- MODULE ContinuousClassifier -------------------------
(***************************************************************************)
(* The SDK's continuous classification, as this firmware drives it:        *)
(* run_classifier_init and process_impulse_continuous                      *)
(* (classifier/ei_run_classifier.h) around the slice-wise features of      *)
(* classifier/ei_run_dsp.h.                                                *)
(*                                                                         *)
(* Audio comes in slices of SliceSize samples.  Features are computed on   *)
(* frames of FrameLength samples, one every FrameStride; a frame that      *)
(* straddles two slices is kept in ei_dsp_cont_current_frame.  The         *)
(* features of the last Rows frames are the model's window.                *)
(*                                                                         *)
(* A sample is its place in the recording, counted from the first sample   *)
(* of the newest slice, and the features of a frame are the samples they   *)
(* were computed from.  Features from before the last init, and features    *)
(* that a failure kept from being computed, are Stale.                     *)
(* Lengths are whole samples and the feature block is of version 2 to 4    *)
(* (version 1 counts frames differently); extract_mfe_per_slice_features   *)
(* stands for its two siblings.                                            *)
(***************************************************************************)
EXTENDS Integers, Sequences

CONSTANTS
  SliceSize,      \* EI_CLASSIFIER_SLICE_SIZE
  Slices,         \* EI_CLASSIFIER_SLICES_PER_MODEL_WINDOW
  FrameLength,    \* frequency * config.frame_length
  FrameStride     \* frequency * config.frame_stride

ASSUME ClassifierAssumption ==
  /\ SliceSize \in Nat /\ Slices \in Nat \ {0}
  /\ FrameLength \in Nat /\ FrameStride \in Nat \ {0}
  /\ FrameStride <= FrameLength /\ FrameLength <= SliceSize

Overlap == FrameLength - FrameStride      \* frame_overlap_values

\* calculate_no_of_stack_frames, without zero padding.
calculate_no_of_stack_frames(size) == (size - Overlap) \div FrameStride

\* Frames in the model's window: nn_input_frame_size over the features of one.
Rows == calculate_no_of_stack_frames(Slices * SliceSize)

VARIABLES
  current_frame,     \* ei_dsp_cont_current_frame, its first _ix samples
  features,          \* static_features_matrix, by rows
  features_written   \* classifier_continuous_features_written in rows, to Rows

cvars == <<current_frame, features, features_written>>

Stale == <<>>

CInit ==
  /\ current_frame = <<>>
  /\ features = [r \in 1 .. Rows |-> Stale]
  /\ features_written = 0

\* run_classifier_init: the matrix keeps the features of earlier runs.
run_classifier_init ==
  /\ current_frame' = <<>>
  /\ features' = [r \in 1 .. Rows |-> Stale]
  /\ features_written' = 0

\* The same samples, once n more have been recorded.
Earlier(samples, n) == [i \in 1 .. Len(samples) |-> samples[i] - n]

\* A new slice is recorded: all that is kept is one slice older.
SliceRecorded ==
  /\ current_frame' = Earlier(current_frame, SliceSize)
  /\ features' = [r \in 1 .. Rows |-> Earlier(features[r], SliceSize)]
  /\ UNCHANGED features_written

\* numpy::roll makes room at the end of the matrix for the rows of new.
Rolled(new) ==
  [r \in 1 .. Rows |-> IF r + Len(new) <= Rows THEN features[r + Len(new)]
                                               ELSE new[r + Len(new) - Rows]]

\* Samples from to from + n - 1 of the newest slice.
Signal(from, n) == [i \in 1 .. n |-> from + i - 1]

-----------------------------------------------------------------------------
(* extract_mfe_per_slice_features *)

\* The frame that began in earlier slices is completed from the beginning of
\* this one, then moved on by a stride, while it still begins there.
Carries == (Len(current_frame) + FrameStride - 1) \div FrameStride
CarriedFrame(k) ==
  LET kept == SubSeq(current_frame, (k - 1) * FrameStride + 1, Len(current_frame))
  IN  kept \o Signal(0, FrameLength - Len(kept))

\* Mutant: the samples kept for the next slice leave out the overlap.
LeftNoOverlap(used) == SliceSize - used

\* Where the first frame begins that lies in this slice entirely.
offset_in_signal == Carries * FrameStride - Len(current_frame)

\* Samples kept for the next slice, if the frames of this one end at used.
bytes_left_end_of_frame(used) == SliceSize - used + Overlap

\* The frames of this slice: the carried ones and those inside it.
OwnFrames == calculate_no_of_stack_frames(SliceSize - offset_in_signal)
NewFrames ==
  [k \in 1 .. Carries + OwnFrames |->
     IF k <= Carries THEN CarriedFrame(k)
     ELSE Signal(offset_in_signal + (k - Carries - 1) * FrameStride, FrameLength)]

calculate_signal_used == (OwnFrames - 1) * FrameStride + FrameLength

CappedAt(n, max) == IF n < max THEN n ELSE max

extract_per_slice_features ==
  LET left == bytes_left_end_of_frame(offset_in_signal + calculate_signal_used)
  IN  /\ features' = Rolled(NewFrames)
      /\ current_frame' = Signal(SliceSize - left, left)
      /\ features_written' = CappedAt(features_written + Len(NewFrames), Rows)

\* It runs out of memory at the frame after the first k carried ones or, when
\* these are done, at the frames inside the slice: before or after the matrix
\* was rolled to make room for what then was never computed.
extract_fails ==
  /\ UNCHANGED features_written
  /\ \E k \in 0 .. Carries :
       LET missing == [i \in 1 .. IF k < Carries THEN 1 ELSE OwnFrames |-> Stale]
       IN  /\ \E rolled \in {<<>>, missing} :
                features' = Rolled(SubSeq(NewFrames, 1, k) \o rolled)
           /\ current_frame' = SubSeq(current_frame, k * FrameStride + 1,
                                      Len(current_frame))

-----------------------------------------------------------------------------
(* process_impulse_continuous; neural network and post-processing keep nothing *)

\* The network runs once there were enough features for its window.
RunsNetwork == features_written' >= Rows

run_classifier_continuous == extract_per_slice_features

\* What the matrix should hold once Rows frames have gone by: the last Rows
\* whole frames of the recording, a stride apart, each of FrameLength
\* samples that follow each other; and what is kept for the next slice is
\* the beginning of the very next frame.
WholeWindow ==
  /\ Len(current_frame) < FrameLength
  /\ current_frame = Signal(SliceSize - Len(current_frame), Len(current_frame))
  /\ \A r \in 1 .. Rows :
       features[r] = Signal(SliceSize - Len(current_frame) - (Rows + 1 - r) * FrameStride,
                            FrameLength)
==============================================================================
