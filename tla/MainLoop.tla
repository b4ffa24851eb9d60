------------------------------- MODULE MainLoop -------------------------------
(***************************************************************************)
(* ei_main_task's loop: UsbSerial hands over the bytes, here is what they  *)
(* do.  While an inference runs, the key 'b' stops it -- but only as the   *)
(* first byte after the task woke, so that text with a b in it that is     *)
(* pasted does not.  Everything else, and that key once more, goes to the  *)
(* AT server, where the enter key may complete AT+RUNIMPULSE, which        *)
(* returns with the inference running, or AT+SNAPSHOTSTREAM, which does    *)
(* not return: its handler reads the serial port itself, after every       *)
(* picture, until it finds a 'b' (ei_device_lib.cpp:58-66).  Every other   *)
(* command ends, given that the camera answers (module Camera).            *)
(***************************************************************************)
EXTENDS UsbSerial

CONSTANTS
  Break,    \* the key 'b'
  Enter     \* the key that ends a command line

ASSUME LoopAssumption == Break \notin {NUL, FF, Enter}

VARIABLES
  in_rx_loop,
  running,      \* is_inference_running()
  streaming,    \* the main task is in the handler of AT+SNAPSHOTSTREAM
  break_due,    \* history: which byte of the stream ought to be a break; 0 is none
  stop_due      \* history: which one ought to end the snapshots; 0 is none

modes == <<in_rx_loop, running, streaming>>
loop  == <<modes, break_due, stop_due>>
lvars == <<vars, loop>>

LInit ==
  /\ Init
  /\ in_rx_loop = FALSE /\ running = FALSE /\ streaming = FALSE
  /\ break_due = 0 /\ stop_due = 0

\* The user presses 'b' at an interpreter that has read all there was and is
\* asleep, while an inference runs.
BreakPressed(b) ==
  b = Break /\ running /\ InterpreterAsleep /\ Len(got) = Len(sent)

\* The user presses 'b' at a stream that has read and wiped all there was.
StopPressed(b) == b = Break /\ streaming /\ Settled /\ Len(got) = Len(sent)

LInterrupt ==
  \E b \in Chars :
    /\ UsbInterrupt(b)
    /\ break_due' = IF BreakPressed(b) THEN Len(sent') ELSE break_due
    /\ stop_due' = IF StopPressed(b) THEN Len(sent') ELSE stop_due
    /\ UNCHANGED modes

\* Mutant: the flag of the last loop is kept.
LeaveRxLoop == UNCHANGED in_rx_loop

\* in_rx_loop = false, when the task woke.
NewRxLoop == in_rx_loop' = FALSE

LMainWake ==
  MainWake /\ NewRxLoop /\ UNCHANGED <<running, streaming, break_due, stop_due>>

IsBreak(c) == running /\ c = Break /\ ~in_rx_loop

\* Whether an inference runs and whether the handler has returned after byte
\* c: ei_stop_impulse stops an inference, and a command line that is complete
\* may start one, or a stream.
Handled(c) ==
  IF IsBreak(c) THEN running' = FALSE /\ streaming' = FALSE
  ELSE \/ running' = running /\ streaming' = FALSE
       \/ c = Enter /\ running' = TRUE /\ streaming' = FALSE
       \/ c = Enter /\ running' = running /\ streaming' = TRUE

\* ei_main_task: after a break the loop looks at the same byte again
\* ("continue"), finds no inference running and hands it to at->handle like
\* any other.
LoopReadsByte ==
  /\ ~streaming /\ ReadByte
  /\ LET c == got'[Len(got')]
     IN  IF c = FF THEN main_pc' = "wait" /\ UNCHANGED loop
         ELSE /\ in_rx_loop' = TRUE
              /\ Handled(c)
              /\ break_due' = IF IsBreak(c) THEN 0 ELSE break_due
              /\ UNCHANGED stop_due

\* ei_user_invoke_stop_lib: a 'b' ends the stream and the handler returns; any
\* other byte does not, 0xFF and NUL only end this look at the keys.
StreamReadsByte ==
  /\ streaming /\ ReadByte
  /\ main_pc' = "read"
  /\ LET stop == got'[Len(got')] = Break
     IN  streaming' = ~stop /\ stop_due' = IF stop THEN 0 ELSE stop_due
  /\ UNCHANGED <<in_rx_loop, running, break_due>>

\* Nothing to read: the loop sleeps, the stream takes its next picture.
LReadsNothing ==
  /\ ReadNothing \/ EndClear
  /\ main_pc' = IF streaming THEN "read" ELSE "wait"
  /\ UNCHANGED loop

LMainTask ==
  \/ LMainWake \/ LoopReadsByte \/ StreamReadsByte \/ LReadsNothing
  \/ (BeginClear \/ ClearCell) /\ UNCHANGED loop

LDaemon == TimerDaemon /\ UNCHANGED loop
LUsbTask == UsbTask /\ UNCHANGED loop

LNext == LInterrupt \/ LDaemon \/ LUsbTask \/ LMainTask

LSpec == LInit /\ [][LNext]_lvars

\* The commands that return do so, and so does each picture of a stream: the
\* main task stays ready as long as it is in one.
LFairSpec ==
  LSpec /\ WF_lvars(LDaemon) /\ WF_lvars(LUsbTask) /\ WF_lvars(LMainTask)

\* "Starting inferencing, press 'b' to break" (ei_run_audio_impulse.cpp:171):
\* a 'b' that is pressed when the interpreter is asleep does stop the
\* inference, whatever the host sends behind it and however the wake-ups of
\* earlier bytes fall (ei_main.cpp:123-136).
BreakStops == break_due # 0 ~> ~running

\* A stream of snapshots can be ended: a 'b' pressed when the handler has read
\* and wiped all that came before it reaches the handler, whatever the host
\* sends behind it and although the wipe runs over the buffer it lies in
\* (ei_device_lib.cpp:58-66, ei_usb.c:242-256).
StopIsHeard == stop_due # 0 ~> ~streaming

\* The main task gets back to sleep, which is what lets the inference task of
\* lower priority run at all, unless it is kept in the handler of a stream
\* (ei_main.cpp:112-139, ei_image_lib.cpp:246-249).
MainSleepsAgain == []<>(InterpreterAsleep \/ streaming)
==============================================================================
