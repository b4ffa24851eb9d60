---------------------------- MODULE AudioImpulse ----------------------------
(***************************************************************************)
(* The life of an audio inference: inference/ei_run_audio_impulse.cpp, the *)
(* inference half of sensor/ei_mic.cpp, inference_task.cpp and the part of *)
(* ei_main.cpp that tells the break key from a command line.               *)
(*                                                                         *)
(* Three threads share the variables below: the audio interrupt, the main  *)
(* task (priority 2), which executes the user's commands, and the          *)
(* inference task (priority 1).  The main task never blocks inside a       *)
(* command, so to the inference task a command is one step -- but it may   *)
(* come between any two steps of the inference task.  One command need not *)
(* end: while AT+SNAPSHOTSTREAM takes pictures, or any snapshot waits for  *)
(* a camera that does not answer, the inference task does not run and the  *)
(* user's keys are not looked at as commands.  The interrupt's side        *)
(* of the frame buffers is module MicFrames; here a frame is only          *)
(* announced, and a recorded frame is FrameSize samples.  What continuous  *)
(* classification does with the slices it is given is ContinuousClassifier. *)
(***************************************************************************)
EXTENDS FiniteSets, ContinuousClassifier

CONSTANTS
  FrameSize,        \* AUIO_SAMPLE_BUFFER_NUMBER; an inference buffer holds
                    \* SliceSize samples, in both modes
  MaxStarts,        \* bound: inferences started
  Failures          \* which calls may fail: subset of FailureKinds

FailureKinds == {"first_malloc", "second_malloc", "audio", "task", "classifier"}

ASSUME AudioAssumption ==
  /\ FrameSize \in 1 .. SliceSize
  /\ MaxStarts \in Nat
  /\ Failures \subseteq FailureKinds

NULL == 0
Block == 1 .. 2 * MaxStarts     \* heap blocks, numbered as they are allocated

VARIABLES
  state,              \* inference_state_t
  continuous_mode,
  print_results,
  due,                \* two seconds have passed since last_inference_ts
  buffers,            \* inference.buffers
  buf_select,         \* inference.buf_select
  buf_count,          \* inference.buf_count
  buf_ready,          \* inference.buf_ready
  audio_on,           \* between ns_start_audio and ns_end_audio
  g_audioRecording,
  g_audioReady,
  pc,                 \* where the inference task is; "none": not created
  snapping,           \* the main task is in the handler of a snapshot command
  line,               \* what the AT server's line buffer holds: "empty" or "b"
  live,               \* allocated heap blocks
  starts,             \* starts attempted
  faults,             \* history: misuses of heap memory
  failed,             \* history: the last classification failed
  spoilt,             \* history: one of this run failed
  slices,             \* history: slices classified since it started or since
                      \* one failed (to Slices)
  reports,            \* history: results printed in this run (to 1)
  rude                \* history: a stop came inside a call of ei_run_impulse,
                      \* or a start or a sampling while an inference ran

mic  == <<buffers, buf_select, buf_count, buf_ready>>
rec  == <<audio_on, g_audioRecording, g_audioReady>>
heap == <<live, starts, faults>>
hist == <<failed, spoilt, slices, reports, rude>>
inference == <<state, continuous_mode, print_results, due, mic, rec, pc, line,
               heap, hist, cvars>>
vars == <<inference, snapping>>

Init ==
  /\ CInit
  /\ state = "STOPPED" /\ continuous_mode = FALSE /\ print_results = 0
  /\ due = TRUE
  /\ buffers = [i \in {0, 1} |-> NULL]
  /\ buf_select = 0 /\ buf_count = 0 /\ buf_ready = 0
  /\ audio_on = FALSE /\ g_audioRecording = FALSE /\ g_audioReady = FALSE
  /\ pc = "none" /\ line = "empty"
  /\ live = {} /\ starts = 0 /\ faults = {}
  /\ failed = FALSE /\ spoilt = FALSE /\ slices = 0 /\ reports = 0
  /\ rude = FALSE /\ snapping = FALSE

is_inference_running == state # "STOPPED"

-----------------------------------------------------------------------------
(* Interrupt and clock *)

AudioFrame ==
  /\ audio_on /\ g_audioRecording /\ ~g_audioReady
  /\ g_audioReady' = TRUE
  /\ UNCHANGED <<state, continuous_mode, print_results, due, mic, audio_on,
                 g_audioRecording, pc, line, heap, hist, cvars>>

TwoSeconds ==
  /\ ~due
  /\ due' = TRUE
  /\ UNCHANGED <<state, continuous_mode, print_results, mic, rec, pc, line,
                 heap, hist, cvars>>

-----------------------------------------------------------------------------
(* The main task: one key or one command line *)

BetweenRuns == pc \in {"none", "loop"}
StopIsRude  == rude' = (rude \/ ~BetweenRuns)
StartIsRude == rude' = (rude \/ ~BetweenRuns \/ is_inference_running)

\* Mutants: the first buffer is freed twice; the second is forgotten.
FreeFirstTwice ==
  /\ live' = live \ {buffers[0]}
  /\ faults' = faults \cup {"double_free"}
FreeFirstOnly == live' = live \ {buffers[0]} /\ UNCHANGED faults

\* What ei_free of both buffers does to the heap.
FreeBuffers ==
  LET freed == {buffers[0], buffers[1]} \ {NULL}
  IN  /\ live' = live \ freed
      /\ faults' = faults \cup (IF freed \subseteq live THEN {} ELSE {"double_free"})

\* A well-formed command line arrives: on an empty line buffer it is
\* executed, behind a stray character it is not a valid AT command.
Understood == line = "empty"

\* ei_microphone_inference_start runs out of memory; the mode is changed by
\* then.  A failed second allocation frees the first block again.
StartFails(continuous) ==
  /\ Understood /\ StartIsRude /\ starts < MaxStarts
  /\ starts' = starts + 1
  /\ continuous_mode' = continuous
  /\ \/ "first_malloc" \in Failures /\ buffers' = [buffers EXCEPT ![0] = NULL]
     \/ /\ "second_malloc" \in Failures
        /\ buffers' = [i \in {0, 1} |-> IF i = 0 THEN 2 * starts' - 1 ELSE NULL]
  /\ UNCHANGED <<state, print_results, due, buf_select, buf_count, buf_ready,
                 rec, pc, line, live, faults, failed, spoilt, slices, reports,
                 cvars>>

\* print_results when a continuous inference starts.
FirstCount == -Slices

\* inference_task_start: the task is created once.  When that fails it is only
\* printed, and tried again at the next start.
inference_task_start ==
  IF pc # "none" THEN UNCHANGED pc
  ELSE pc' \in {"loop"} \cup (IF "task" \in Failures THEN {"none"} ELSE {})

\* ei_start_impulse; that the converter did not start is only printed, and so
\* is that there is no task to run the inference.
ei_start_impulse(continuous) ==
  /\ Understood /\ StartIsRude /\ starts < MaxStarts
  /\ starts' = starts + 1
  /\ continuous_mode' = continuous
  /\ buffers' = [i \in {0, 1} |-> 2 * starts' - 1 + i]
  /\ live' = live \cup {2 * starts' - 1, 2 * starts'}
  /\ buf_select' = 0 /\ buf_count' = 0 /\ buf_ready' = 0
  /\ audio_on' \in {TRUE} \cup (IF "audio" \in Failures THEN {audio_on} ELSE {})
  /\ IF continuous
     THEN /\ state' = "SAMPLING" /\ print_results' = FirstCount
          /\ run_classifier_init /\ UNCHANGED due
     ELSE state' = "WAITING" /\ due' = FALSE /\ UNCHANGED <<print_results, cvars>>
  /\ inference_task_start
  /\ failed' = FALSE /\ spoilt' = FALSE /\ slices' = 0 /\ reports' = 0
  /\ UNCHANGED <<g_audioRecording, g_audioReady, line, faults>>

\* The key 'b' while an inference runs: it is stopped, and ei_main_task then
\* looks at the same byte again, finds no inference running and hands it to
\* the AT server.
ei_stop_impulse ==
  /\ StopIsRude /\ is_inference_running
  /\ audio_on' = FALSE
  /\ FreeBuffers
  /\ state' = "STOPPED"
  /\ line' = "b"
  /\ failed' = FALSE /\ spoilt' = FALSE /\ slices' = 0 /\ reports' = 0
  /\ UNCHANGED <<continuous_mode, print_results, due, mic, g_audioRecording,
                 g_audioReady, pc, starts, cvars>>

\* The enter key: a line that begins with a stray character is rejected,
\* whatever command was typed behind it.
Enter ==
  /\ line # "empty"
  /\ line' = "empty"
  /\ UNCHANGED <<state, continuous_mode, print_results, due, mic, rec, pc,
                 heap, hist, cvars>>

\* AT+SAMPLESTART (ei_microphone_sample_start): the main task records for
\* itself and, when it is done, ends recording and converter -- whoever else
\* was recording.  A last frame may still be announced.
SampleToMemory ==
  /\ Understood /\ StartIsRude
  /\ audio_on' = FALSE
  /\ g_audioRecording' = FALSE
  /\ g_audioReady' \in BOOLEAN
  /\ UNCHANGED <<state, continuous_mode, print_results, due, mic, pc, line,
                 heap, failed, spoilt, slices, reports, cvars>>

Command ==
  \/ \E continuous \in BOOLEAN :
       StartFails(continuous) \/ ei_start_impulse(continuous)
  \/ ei_stop_impulse \/ Enter \/ SampleToMemory

-----------------------------------------------------------------------------
(* The inference task: while (is_inference_running()) ei_run_impulse();    *)

Goto(from, to) == pc = from /\ pc' = to

\* The test in inference_task.
TestRunning ==
  /\ is_inference_running
  /\ Goto("loop", "switch")
  /\ UNCHANGED <<state, continuous_mode, print_results, due, mic, rec, line,
                 heap, hist, cvars>>

\* The switch in ei_run_impulse, which reads the state once more.
Switch ==
  /\ Goto("switch",
          CASE state = "STOPPED"    -> "loop"
            [] state = "WAITING"    -> IF due THEN "reset" ELSE "loop"
            [] state = "SAMPLING"   -> "record"
            [] state = "DATA_READY" -> "classify")
  /\ UNCHANGED <<state, continuous_mode, print_results, due, mic, rec, line,
                 heap, hist, cvars>>

\* ei_microphone_inference_reset_buffers; state = INFERENCE_SAMPLING.
Reset ==
  /\ Goto("reset", "record")
  /\ buf_ready' = 0 /\ buf_count' = 0
  /\ state' = "SAMPLING"
  /\ UNCHANGED <<continuous_mode, print_results, due, buffers, buf_select, rec,
                 line, heap, hist, cvars>>

\* ei_mic_run_inference begins.
Record ==
  /\ Goto("record", "poll")
  /\ g_audioReady' = FALSE
  /\ g_audioRecording' = TRUE
  /\ UNCHANGED <<state, continuous_mode, print_results, due, mic, audio_on,
                 line, heap, hist, cvars>>

\* ei_mic_thread finds a frame announced.
PollFrame ==
  /\ Goto("poll", "copy")
  /\ g_audioRecording /\ g_audioReady
  /\ UNCHANGED <<state, continuous_mode, print_results, due, mic, rec, line,
                 heap, hist, cvars>>

\* Mutants: the buffer number is counted up; buf_ready is not set; recording
\* ends after one frame.
SelectUp(n) == buf_select + n
ReadyNever(n) == buf_ready
DoneAtOnce == TRUE

\* Where the samples go, and whether a buffer was filled, when n buffers have
\* become full; and ei_mic_run_inference's condition to end.
Select(n) == (buf_select + n) % 2
Ready(n) == IF n > 0 THEN 1 ELSE buf_ready
RecordingDone == buf_ready' = 1

\* ei_mic_inference_samples_callback copies the frame; each time a buffer is
\* full the other one is filled.
Copy ==
  /\ pc = "copy"
  /\ LET filled == (buf_count + FrameSize) \div SliceSize
         touched == {buffers[buf_select]} \cup
                      (IF buf_count + FrameSize > SliceSize
                       THEN {buffers[1 - buf_select]} ELSE {})
     IN  /\ buf_count' = (buf_count + FrameSize) % SliceSize
         /\ buf_select' = Select(filled)
         /\ buf_ready' = Ready(filled)
         /\ faults' = faults \cup
              (IF touched \subseteq live THEN {} ELSE {"write_after_free"})
         /\ IF filled > 0 /\ continuous_mode THEN SliceRecorded ELSE UNCHANGED cvars
  /\ g_audioReady' = FALSE
  /\ pc' = IF RecordingDone THEN "leave" ELSE "poll"
  /\ UNCHANGED <<state, continuous_mode, print_results, due, buffers, audio_on,
                 g_audioRecording, line, live, starts, hist>>

\* ei_mic_run_inference returns; state = INFERENCE_DATA_READY.
Leave ==
  /\ Goto("leave", "classify")
  /\ g_audioRecording' = FALSE
  /\ state' = "DATA_READY"
  /\ UNCHANGED <<continuous_mode, print_results, due, mic, audio_on,
                 g_audioReady, line, heap, hist, cvars>>

\* run_classifier fails, or one of the two halves of run_classifier_continuous:
\* the slice's features may have been added to the window by then.
ClassifierFails ==
  /\ "classifier" \in Failures
  /\ \/ ~continuous_mode /\ UNCHANGED cvars
     \/ continuous_mode /\ extract_fails
     \/ continuous_mode /\ run_classifier_continuous /\ RunsNetwork

\* run_classifier or run_classifier_continuous, which fetches the full buffer
\* through ei_microphone_audio_signal_get_data.
Classify ==
  /\ pc = "classify"
  /\ buf_ready' = 0
  /\ faults' = faults \cup (IF buffers[1 - buf_select] \in live
                            THEN {} ELSE {"read_after_free"})
  /\ \/ /\ IF continuous_mode THEN run_classifier_continuous ELSE UNCHANGED cvars
        /\ pc' = "report" /\ failed' = FALSE
        /\ slices' = CappedAt(slices + 1, Slices)
        /\ UNCHANGED spoilt
     \/ /\ ClassifierFails
        /\ pc' = "loop" /\ failed' = TRUE /\ spoilt' = TRUE
        /\ slices' = -1
  /\ UNCHANGED <<state, continuous_mode, print_results, due, buffers,
                 buf_select, buf_count, rec, line, live, starts, reports, rude>>

\* In continuous mode a result is printed only once in half a window's slices.
Prints == ~continuous_mode \/ print_results + 1 >= Slices \div 2

\* The result is printed or not, and the next round is set up.
Report ==
  /\ Goto("report", "loop")
  /\ print_results' = CASE ~continuous_mode -> print_results
                        [] Prints           -> 0
                        [] OTHER            -> print_results + 1
  /\ reports' = IF Prints THEN 1 ELSE reports
  /\ IF continuous_mode
     THEN state' = "SAMPLING" /\ UNCHANGED due
     ELSE state' = "WAITING" /\ due' = FALSE
  /\ UNCHANGED <<continuous_mode, mic, rec, line, heap, failed, spoilt, slices,
                 rude, cvars>>

InferenceTask ==
  \/ TestRunning \/ Switch \/ Reset \/ Record \/ PollFrame \/ Copy \/ Leave
  \/ Classify \/ Report

-----------------------------------------------------------------------------

\* A snapshot command begins during an inference (at other times it meets nothing
\* of this module); its handler returns when the picture was sent, or when the
\* user ends the stream, or never.  Bound: snapshots behind a rude command are
\* not followed.
Snapshot ==
  /\ \/ /\ ~snapping /\ Understood /\ is_inference_running /\ ~rude
        /\ snapping' = TRUE
     \/ snapping /\ snapping' = FALSE
  /\ UNCHANGED inference

Environment == (AudioFrame \/ TwoSeconds) /\ UNCHANGED snapping

\* The main task is of higher priority, so while it is in a handler neither
\* another command nor the inference task runs.
MainTask == ~snapping /\ Command /\ UNCHANGED snapping
Inferring == ~snapping /\ InferenceTask /\ UNCHANGED snapping

Next == Environment \/ Snapshot \/ MainTask \/ Inferring

Spec == Init /\ [][Next]_vars

\* The converter delivers while it is on, time passes, and the inference task
\* runs whenever the main task sleeps; nothing is assumed of the handlers of
\* the snapshot commands, nor of the user.
FairSpec ==
  /\ Spec
  /\ WF_vars(AudioFrame /\ UNCHANGED snapping)
  /\ WF_vars(TwoSeconds /\ UNCHANGED snapping)
  /\ WF_vars(Inferring)

-----------------------------------------------------------------------------
(* Properties *)

TypeOK ==
  /\ state \in {"STOPPED", "WAITING", "SAMPLING", "DATA_READY"}
  /\ continuous_mode \in BOOLEAN
  /\ print_results \in -Slices .. Slices
  /\ due \in BOOLEAN
  /\ buffers \in [{0, 1} -> Block \cup {NULL}]
  /\ buf_select \in {0, 1}
  /\ buf_count \in 0 .. SliceSize - 1
  /\ buf_ready \in {0, 1}
  /\ audio_on \in BOOLEAN /\ g_audioRecording \in BOOLEAN
  /\ g_audioReady \in BOOLEAN
  /\ pc \in {"none", "loop", "switch", "reset", "record", "poll", "copy",
             "leave", "classify", "report"}
  /\ line \in {"empty", "b"}
  /\ live \subseteq Block
  /\ starts \in 0 .. MaxStarts
  /\ faults \subseteq {"double_free", "write_after_free",
                       "read_after_free"}
  /\ failed \in BOOLEAN /\ spoilt \in BOOLEAN
  /\ rude \in BOOLEAN /\ snapping \in BOOLEAN
  /\ slices \in -1 .. Slices
  /\ reports \in {0, 1}

\* The inference task and the commands use the audio buffers only while they
\* are allocated, and free each of them once (ei_mic.cpp:305-377, 397-411), as
\* long as the user is not rude.
MemorySafe == rude \/ faults = {}

\* No audio buffer is lost: what is allocated is what inference.buffers point
\* to, and after a stop nothing is allocated (ei_mic.cpp:305-377).
NoLeak ==
  rude \/ live = IF is_inference_running THEN {buffers[0], buffers[1]} ELSE {}

\* The classifier is given a buffer that was filled to its end since the
\* last time one was classified -- unless that classification failed, after
\* which the same buffer is classified over again
\* (ei_run_audio_impulse.cpp:85-125, ei_mic.cpp:123-129).
ClassifiesFullWindow == pc = "classify" => buf_ready = 1 \/ failed \/ rude

\* "Continuous inference has to run over the complete model window"
\* (ei_run_audio_impulse.cpp:178-183): what is printed was computed on a whole
\* window of frames that follow each other in the recording, up to its end,
\* although each slice was cut into frames by itself; and a window spoilt by a
\* classification that failed has healed once it has gone by.
PrintsWholeWindow ==
  /\ pc = "report" /\ continuous_mode /\ ~rude
  /\ (Prints /\ ~spoilt) \/ slices = Slices
  => WholeWindow

\* An inference whose converter and whose task were started reports, unless the
\* user stops it, the classifier fails, or the main task goes into the handler of a
\* snapshot command; once that handler has returned, the same holds again
\* (ei_run_audio_impulse.cpp:60-145).
ReportsOrStops ==
  is_inference_running /\ audio_on /\ pc # "none" /\ ~snapping
     ~> reports > 0 \/ failed \/ rude \/ ~is_inference_running \/ snapping

\* "Inferencing stopped by user" (ei_run_audio_impulse.cpp:208): a stopped
\* inference stays stopped until the user starts one.
StopIsFinal ==
  [][state = "STOPPED" /\ state' # "STOPPED" => starts' = starts + 1]_vars
==============================================================================
