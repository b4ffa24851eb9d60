------------------------------ MODULE MicFrames ------------------------------
(***************************************************************************)
(* How audio frames get from the AUDADC interrupt to their consumer in     *)
(* sensor/ei_mic.cpp: audio_frame_callback fills one of the two halves of  *)
(* g_in16AudioDataBuffer and raises g_audioReady; the consuming thread     *)
(* polls ei_mic_thread, which flips g_bufsel, hands a half to its callback *)
(* and then lowers g_audioReady.                                           *)
(*                                                                         *)
(* The interrupt may come between any two steps of the thread, also inside *)
(* "g_bufsel ^= 1", which is a load and a store of a plain uint8_t, and    *)
(* inside the callback, which reads its half from front to back.           *)
(* Frames are numbered in the order the interrupt delivers them.           *)
(***************************************************************************)
EXTENDS Integers, Sequences

CONSTANTS
  MaxFrames,  \* bound: frames the converter delivers
  Skip,       \* frames a session discards first: 8 when sampling to memory
              \* (ei_mic.cpp:224-229), 0 for inference
  Needed      \* frames a session consumes

ASSUME MicAssumption ==
  /\ MaxFrames \in Nat
  /\ Skip \in Nat
  /\ Needed \in Nat \ {0}

None == 0   \* the contents of a half that holds no frame yet

VARIABLES
  g_in16AudioDataBuffer,  \* the frame each half holds
  g_bufsel,               \* the half the interrupt fills next
  g_audioRecording,
  g_audioReady,
  frame,      \* frames delivered by the converter so far
  pc,         \* where the consuming thread is
  loaded,     \* g_bufsel as the thread loaded it
  half,       \* the half handed to the callback
  front,      \* the frame whose samples the callback saw at its start
  skipped,    \* frames discarded in this session
  consumed,   \* frames consumed in this session
  last,       \* history: the newest frame any callback has seen
  late,       \* history: in this session a frame came before the consumer was
              \* done with the one before
  handed      \* history: <<frame at the front, frame at the back>> of the
              \* halves handed over in this session

shared == <<g_in16AudioDataBuffer, g_bufsel, g_audioRecording, g_audioReady>>
thread == <<pc, loaded, half, front, skipped, consumed, last, handed>>
vars == <<shared, frame, late, thread>>

Init ==
  /\ g_in16AudioDataBuffer = [h \in {0, 1} |-> None]
  /\ g_bufsel = 0
  /\ g_audioRecording = FALSE /\ g_audioReady = FALSE
  /\ frame = 0
  /\ pc = "idle"
  /\ loaded = 0 /\ half = 0 /\ front = None
  /\ skipped = 0 /\ consumed = 0
  /\ last = None /\ late = FALSE
  /\ handed = <<>>

-----------------------------------------------------------------------------

\* The consumer has a frame to consume and is not done with it.
Busy == \/ pc \in {"load", "store", "begin", "end", "ack"}
        \/ pc = "poll" /\ g_audioReady /\ consumed < Needed

\* Mutants: no flip; g_bufsel is counted up.
FlipNot(h) == h
FlipUp(h)  == h + 1

\* g_bufsel ^= 1
Flip(h) == 1 - h

\* The interrupt.  Frames that come while nobody records are dropped.
audio_frame_callback ==
  /\ frame < MaxFrames
  /\ frame' = frame + 1
  /\ late' = (late \/ Busy)
  /\ IF g_audioRecording
     THEN /\ g_in16AudioDataBuffer' =
               [g_in16AudioDataBuffer EXCEPT ![g_bufsel] = frame']
          /\ g_bufsel' = Flip(g_bufsel)
          /\ g_audioReady' = TRUE
     ELSE UNCHANGED <<g_in16AudioDataBuffer, g_bufsel, g_audioReady>>
  /\ UNCHANGED <<g_audioRecording, thread>>

-----------------------------------------------------------------------------
(* A session: ei_microphone_sample_start from line 221 on, or (Skip = 0)   *)
(* ei_mic_run_inference.                                                   *)

StartRecording ==
  /\ pc = "idle"
  /\ g_audioReady' = FALSE
  /\ pc' = "record"
  /\ UNCHANGED <<g_in16AudioDataBuffer, g_bufsel, g_audioRecording, frame, late,
                 loaded, half, front, skipped, consumed, last, handed>>

SetRecording ==
  /\ pc = "record"
  /\ g_audioRecording' = TRUE
  /\ skipped' = 0 /\ consumed' = 0 /\ handed' = <<>> /\ late' = FALSE
  /\ pc' = IF Skip > 0 THEN "skip" ELSE "poll"
  /\ UNCHANGED <<g_in16AudioDataBuffer, g_bufsel, g_audioReady, frame, loaded,
                 half, front, last>>

\* do { __WFI(); } while (g_audioReady == false); g_audioReady = false;
SkipFrame ==
  /\ pc = "skip"
  /\ g_audioReady
  /\ g_audioReady' = FALSE
  /\ skipped' = skipped + 1
  /\ pc' = IF skipped' = Skip THEN "poll" ELSE "skip"
  /\ UNCHANGED <<g_in16AudioDataBuffer, g_bufsel, g_audioRecording, frame, late,
                 loaded, half, front, consumed, last, handed>>

\* ei_mic_thread finds a frame.
NoticeFrame ==
  /\ pc = "poll"
  /\ consumed < Needed
  /\ g_audioRecording /\ g_audioReady
  /\ pc' = "load"
  /\ UNCHANGED <<shared, frame, late, loaded, half, front, skipped, consumed, last,
                 handed>>

LoadBufsel ==
  /\ pc = "load"
  /\ loaded' = g_bufsel
  /\ pc' = "store"
  /\ UNCHANGED <<shared, frame, late, half, front, skipped, consumed, last, handed>>

\* Mutant: the half as loaded, before the flip.
HandedUnflipped == loaded

\* The half handed to the callback.
Handed == Flip(loaded)

\* The thread too stores g_bufsel, so the half it is about to read is the
\* one the interrupt fills next.
StoreBufsel ==
  /\ pc = "store"
  /\ g_bufsel' = Flip(loaded)
  /\ half' = Handed
  /\ pc' = "begin"
  /\ UNCHANGED <<g_in16AudioDataBuffer, g_audioRecording, g_audioReady, frame, late,
                 loaded, front, skipped, consumed, last, handed>>

\* The callback reads its half from the front ...
BeginCallback ==
  /\ pc = "begin"
  /\ front' = g_in16AudioDataBuffer[half]
  /\ pc' = "end"
  /\ UNCHANGED <<shared, frame, late, loaded, half, skipped, consumed, last, handed>>

\* ... to the back.
EndCallback ==
  /\ pc = "end"
  /\ handed' = Append(handed, <<front, g_in16AudioDataBuffer[half]>>)
  /\ last' = g_in16AudioDataBuffer[half]
  /\ consumed' = consumed + 1
  /\ pc' = "ack"
  /\ UNCHANGED <<shared, frame, late, loaded, half, front, skipped>>

LowerReady ==
  /\ pc = "ack"
  /\ g_audioReady' = FALSE
  /\ pc' = "poll"
  /\ UNCHANGED <<g_in16AudioDataBuffer, g_bufsel, g_audioRecording, frame, late,
                 loaded, half, front, skipped, consumed, last, handed>>

StopRecording ==
  /\ pc = "poll"
  /\ consumed = Needed
  /\ g_audioRecording' = FALSE
  /\ pc' = "idle"
  /\ UNCHANGED <<g_in16AudioDataBuffer, g_bufsel, g_audioReady, frame, late, loaded,
                 half, front, skipped, consumed, last, handed>>

Consumer ==
  \/ StartRecording \/ SetRecording \/ SkipFrame \/ NoticeFrame
  \/ LoadBufsel \/ StoreBufsel \/ BeginCallback \/ EndCallback
  \/ LowerReady \/ StopRecording

Next == audio_frame_callback \/ Consumer

Spec == Init /\ [][Next]_vars

-----------------------------------------------------------------------------
(* Properties *)

TypeOK ==
  /\ g_in16AudioDataBuffer \in [{0, 1} -> 0 .. MaxFrames]
  /\ g_bufsel \in {0, 1}
  /\ g_audioRecording \in BOOLEAN
  /\ g_audioReady \in BOOLEAN
  /\ frame \in 0 .. MaxFrames
  /\ pc \in {"idle", "record", "skip", "poll", "load", "store", "begin",
             "end", "ack"}
  /\ loaded \in {0, 1}
  /\ half \in {0, 1}
  /\ front \in 0 .. MaxFrames
  /\ skipped \in Nat
  /\ consumed \in Nat
  /\ last \in 0 .. MaxFrames
  /\ late \in BOOLEAN
  /\ handed \in Seq((0 .. MaxFrames) \X (0 .. MaxFrames))

\* However the interrupt falls, no sample goes backwards in time: a half that
\* is handed over starts with a frame newer than anything handed over before
\* (also in earlier sessions), and never with an empty half.
NeverOldFrame == pc = "end" => front > last

\* Where "newer than anything before" comes from: when a frame is announced,
\* the half the interrupt has just left is newer than anything handed over.
AnnouncedIsNew ==
  g_audioReady /\ pc \in {"skip", "poll", "load"}
     => g_in16AudioDataBuffer[1 - g_bufsel] = frame /\ frame > last

\* Why NeverOldFrame holds, step by step of the consumer.
FramesInv ==
  /\ \A h \in {0, 1} : g_in16AudioDataBuffer[h] <= frame
  /\ last <= frame
  /\ g_audioRecording <=> pc \notin {"idle", "record"}
  /\ pc = "record" => ~g_audioReady
  /\ pc = "load" => g_audioReady
  /\ pc = "store" => g_in16AudioDataBuffer[1 - loaded] > last
  /\ pc = "begin" => g_in16AudioDataBuffer[half] > last
  /\ pc = "end" => front > last

\* A consumer that is always done before the next frame comes sees every
\* frame that comes while it records, each one whole: the halves handed over
\* in a session are consecutive frames.
EveryFrameWhole ==
  ~late => \A i \in 1 .. Len(handed) :
    /\ handed[i][1] = handed[i][2]
    /\ i > 1 => handed[i][1] = handed[i - 1][1] + 1
==============================================================================
