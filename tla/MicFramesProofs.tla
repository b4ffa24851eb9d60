--------------------------- MODULE MicFramesProofs ---------------------------
(***************************************************************************)
(* Proofs about MicFrames, for every number of frames, skipped frames and  *)
(* consumed frames, and for interrupts that fall anywhere.                 *)
(***************************************************************************)
EXTENDS MicFrames, TLAPS

USE DEF shared, thread, Flip, Handed

LEMMA TypeInit == Init => TypeOK
<1> SUFFICES ASSUME Init PROVE TypeOK
  OBVIOUS
<1>1. g_audioRecording \in BOOLEAN /\ g_audioReady \in BOOLEAN /\ late \in BOOLEAN
  BY Zenon DEF Init
<1>2. handed \in Seq((0 .. MaxFrames) \X (0 .. MaxFrames))
  BY DEF Init
<1> QED BY <1>1, <1>2, MicAssumption DEF Init, TypeOK, None

LEMMA TypeStep == TypeOK /\ [Next]_vars => TypeOK'
<1> USE MicAssumption DEF TypeOK, None
<1> SUFFICES ASSUME TypeOK, [Next]_vars PROVE TypeOK'
  OBVIOUS
<1>0. g_audioRecording' \in BOOLEAN /\ g_audioReady' \in BOOLEAN /\ late' \in BOOLEAN
  <2>1. g_audioRecording \in BOOLEAN /\ g_audioReady \in BOOLEAN /\ late \in BOOLEAN
    BY Zenon
  <2> QED
    BY <2>1, Zenon DEF Next, audio_frame_callback, Consumer, StartRecording,
       SetRecording, SkipFrame, NoticeFrame, LoadBufsel, StoreBufsel,
       BeginCallback, EndCallback, LowerReady, StopRecording, vars
<1>1. CASE audio_frame_callback
  BY <1>0, <1>1 DEF audio_frame_callback
<1>2. CASE StartRecording
  BY <1>0, <1>2 DEF StartRecording
<1>2b. CASE SetRecording
  <2>1. handed' \in Seq((0 .. MaxFrames) \X (0 .. MaxFrames))
    BY <1>2b DEF SetRecording
  <2>2. pc' \in {"skip", "poll"}
    BY <1>2b DEF SetRecording
  <2> QED BY <1>0, <1>2b, <2>1, <2>2 DEF SetRecording
<1>3. CASE SkipFrame
  <2>1. pc' \in {"skip", "poll"}
    BY <1>3 DEF SkipFrame
  <2> QED BY <1>0, <1>3, <2>1 DEF SkipFrame
<1>3a. CASE NoticeFrame \/ LoadBufsel
  BY <1>0, <1>3a DEF NoticeFrame, LoadBufsel
<1>3b. CASE StoreBufsel
  <2>1. g_bufsel' \in {0, 1} /\ half' \in {0, 1}
    BY <1>3b DEF StoreBufsel
  <2> QED BY <1>0, <1>3b, <2>1 DEF StoreBufsel
<1>4. CASE BeginCallback \/ LowerReady \/ StopRecording
  BY <1>0, <1>4 DEF BeginCallback, LowerReady, StopRecording
<1>5. CASE EndCallback
  BY <1>0, <1>5 DEF EndCallback
<1>6. CASE UNCHANGED vars
  BY <1>0, <1>6 DEF vars
<1> QED BY <1>1, <1>2, <1>2b, <1>3, <1>3a, <1>3b,
       <1>4, <1>5, <1>6 DEF Next, Consumer

-----------------------------------------------------------------------------

LEMMA FramesInit == Init => FramesInv /\ AnnouncedIsNew
  BY MicAssumption DEF Init, FramesInv, AnnouncedIsNew, None

LEMMA FramesStep ==
  ASSUME TypeOK, FramesInv, AnnouncedIsNew, [Next]_vars
  PROVE  FramesInv' /\ AnnouncedIsNew'
<1> USE MicAssumption DEF TypeOK, None, FramesInv, AnnouncedIsNew
<1>1. CASE audio_frame_callback
  \* A recorded frame is newer than all that was handed over, whatever the
  \* consumer has loaded by then.
  <2>1. CASE g_audioRecording
    BY <1>1, <2>1 DEF audio_frame_callback
  <2>2. CASE ~g_audioRecording
    BY <1>1, <2>2 DEF audio_frame_callback
  <2> QED BY <2>1, <2>2
<1>2. CASE StartRecording
  BY <1>2 DEF StartRecording
<1>2b. CASE SetRecording
  <2>1. pc' \in {"skip", "poll"} /\ g_audioRecording'
    BY <1>2b DEF SetRecording
  <2> QED BY <1>2b, <2>1 DEF SetRecording
<1>2c. CASE StopRecording
  BY <1>2c DEF StopRecording
<1>3. CASE SkipFrame \/ LowerReady
  BY <1>3 DEF SkipFrame, LowerReady
<1>4. CASE NoticeFrame
  BY <1>4 DEF NoticeFrame
<1>5. CASE LoadBufsel \/ StoreBufsel
  BY <1>5 DEF LoadBufsel, StoreBufsel
<1>6. CASE BeginCallback
  BY <1>6 DEF BeginCallback
<1>7. CASE EndCallback
  BY <1>7 DEF EndCallback
<1>8. CASE UNCHANGED vars
  BY <1>8 DEF vars
<1> QED BY <1>1, <1>2, <1>2b, <1>2c, <1>3, <1>4, <1>5, <1>6, <1>7, <1>8 DEF Next, Consumer

-----------------------------------------------------------------------------

\* As long as the consumer keeps up: the frame it works on is the newest, and
\* the one before it was the last to be handed over.
LastIs(n) == handed = <<>> \/ handed[Len(handed)][1] = n

KeepsUp ==
  /\ EveryFrameWhole
  /\ ~late =>
       /\ pc = "skip" => handed = <<>>
       /\ pc = "store" => g_in16AudioDataBuffer[1 - loaded] = frame
       /\ pc = "begin" => g_in16AudioDataBuffer[half] = frame
       /\ pc = "end" => front = frame /\ g_in16AudioDataBuffer[half] = frame
       /\ pc \in {"load", "store", "begin", "end"} => LastIs(frame - 1)
       /\ pc = "ack" => LastIs(frame)
       /\ pc = "poll" /\ consumed < Needed =>
            LastIs(IF g_audioReady THEN frame - 1 ELSE frame)

LEMMA KeepsUpStep ==
  ASSUME TypeOK, FramesInv, AnnouncedIsNew, KeepsUp, [Next]_vars
  PROVE  KeepsUp'
<1> USE DEF KeepsUp, EveryFrameWhole, LastIs
<1>1. CASE audio_frame_callback
  \* One that the consumer has to take: it was polling, with nothing to do.
  <2>1. ~late' => ~Busy /\ ~late
    BY <1>1, Zenon DEF audio_frame_callback
  <2>2. UNCHANGED <<handed, pc, consumed>> /\ frame' = frame + 1 /\ frame \in Nat
    BY <1>1 DEF audio_frame_callback, TypeOK
  <2>3. CASE ~late' /\ pc = "poll" /\ consumed < Needed
    <3>1. ~g_audioReady /\ g_audioReady' /\ ~late
      BY <1>1, <2>1, <2>3 DEF audio_frame_callback, Busy, FramesInv
    <3> QED BY <2>2, <2>3, <3>1
  <2>4. CASE late' \/ pc # "poll" \/ ~(consumed < Needed)
    BY <2>1, <2>2, <2>4 DEF Busy
  <2> QED BY <2>3, <2>4
<1>2. CASE StartRecording
  BY <1>2 DEF StartRecording
<1>3. CASE SetRecording
  <2>1. pc' \in {"skip", "poll"} /\ handed' = <<>>
    BY <1>3 DEF SetRecording
  <2> QED BY <2>1
<1>4. CASE SkipFrame
  BY <1>4 DEF SkipFrame
<1>5. CASE NoticeFrame
  BY <1>5 DEF NoticeFrame
<1>6. CASE LoadBufsel
  <2>1. g_in16AudioDataBuffer[1 - g_bufsel] = frame
    BY <1>6 DEF LoadBufsel, FramesInv, AnnouncedIsNew
  <2> QED BY <1>6, <2>1 DEF LoadBufsel
<1>7. CASE StoreBufsel
  BY <1>7 DEF StoreBufsel
<1>8. CASE BeginCallback
  BY <1>8 DEF BeginCallback
<1>9. CASE EndCallback
  <2> DEFINE pair == <<front, g_in16AudioDataBuffer[half]>>
  <2>1. /\ handed' = Append(handed, pair) /\ handed \in Seq((0 .. MaxFrames) \X (0 .. MaxFrames))
        /\ UNCHANGED <<late, frame>> /\ pc = "end" /\ pc' = "ack"
    BY <1>9 DEF EndCallback, TypeOK
  <2>2. ~late => pair = <<frame, frame>> /\ LastIs(frame - 1)
    BY <2>1
  <2> HIDE DEF pair
  <2>3. /\ Len(handed') = Len(handed) + 1 /\ Len(handed) \in Nat
        /\ handed'[Len(handed) + 1] = pair
        /\ \A i \in 1 .. Len(handed) : handed'[i] = handed[i]
    BY <2>1
  <2>4. ASSUME ~late, NEW i \in 1 .. Len(handed')
        PROVE  /\ handed'[i][1] = handed'[i][2]
               /\ i > 1 => handed'[i][1] = handed'[i - 1][1] + 1
    <3>1. CASE i <= Len(handed)
      <4>1. i \in 1 .. Len(handed) /\ (i > 1 => i - 1 \in 1 .. Len(handed))
        BY <2>3, <3>1
      <4> QED BY <2>3, <2>4, <4>1
    <3>2. CASE i = Len(handed) + 1
      <4>1. pair[1] = frame /\ pair[2] = frame
        BY <2>2, <2>4
      <4>2. i > 1 => handed # <<>> /\ Len(handed) \in 1 .. Len(handed) /\ i - 1 = Len(handed)
        BY <2>3, <3>2
      <4>3. frame \in Nat
        BY DEF TypeOK
      <4> QED BY <2>2, <2>3, <2>4, <3>2, <4>1, <4>2, <4>3
    <3> QED BY <2>3, <3>1, <3>2
  <2>5. ~late => LastIs(frame)'
    BY <2>1, <2>2, <2>3
  <2> QED BY <2>1, <2>4, <2>5
<1>10. CASE LowerReady
  BY <1>10 DEF LowerReady
<1>11. CASE StopRecording
  BY <1>11 DEF StopRecording
<1>12. CASE UNCHANGED vars
  BY <1>12 DEF vars
<1> QED BY <1>1, <1>2, <1>3, <1>4, <1>5, <1>6, <1>7, <1>8, <1>9, <1>10, <1>11, <1>12
        DEF Next, Consumer

-----------------------------------------------------------------------------

\* Every variable keeps its type; in particular g_bufsel, which interrupt and
\* thread both store, never leaves {0, 1} (ei_mic.cpp:274-295).
THEOREM TypeCorrect == Spec => []TypeOK
  BY TypeInit, TypeStep, PTL DEF Spec

\* The half the interrupt has just left holds the newest frame whenever that
\* frame is announced (ei_mic.cpp:274-282).
THEOREM AnnouncementsAreNew == Spec => []AnnouncedIsNew
  BY TypeCorrect, FramesInit, FramesStep, PTL DEF Spec

\* No interrupt timing makes the consumer see samples it has already seen, or
\* an empty half (ei_mic.cpp:289-295).
THEOREM NoOldFrame == Spec => []NeverOldFrame
<1>1. FramesInv => NeverOldFrame
  BY DEF FramesInv, NeverOldFrame
<1> QED BY TypeCorrect, FramesInit, FramesStep, <1>1, PTL DEF Spec

\* A consumer that is done with each frame before the next one comes is handed
\* consecutive frames, each of them whole (ei_mic.cpp:274-295).
THEOREM FramesWhole == Spec => []EveryFrameWhole
<1>1. Init => KeepsUp
  BY DEF Init, KeepsUp, EveryFrameWhole, LastIs
<1>2. KeepsUp => EveryFrameWhole
  BY DEF KeepsUp
<1> QED BY TypeCorrect, FramesInit, FramesStep, KeepsUpStep, <1>1, <1>2, PTL DEF Spec
==============================================================================
