-------------------------------- MODULE Camera --------------------------------
(***************************************************************************)
(* Snapshots: the driver sensor/ei_camera.cpp, the command side of it in   *)
(* firmware-sdk/ei_image_lib.cpp, and the initialisation at boot.          *)
(*                                                                         *)
(* The main task presses the shutter, sleeps until the interrupt handler   *)
(* has set pictureTaken, starts the transfer, and sleeps until dmaComplete.*)
(* Any interrupt wakes it, the system tick too; one that came before it    *)
(* fell asleep does not.  Nothing else runs on its behalf meanwhile.       *)
(*                                                                         *)
(* A resolution is square, so one number; a picture is the number of its   *)
(* shutter press.  The baud rate is left out: changing it does nothing on  *)
(* this device (ei_device_info_lib.h:468-480).                             *)
(***************************************************************************)
EXTENDS Integers, Sequences

CONSTANTS
  Sizes,      \* the resolutions users ask for
  Numbers,    \* bound: pictures are numbered 1 .. Numbers, over and over
  MaxKeys     \* bound: keys waiting while a stream runs

ASSUME CameraAssumption ==
  Sizes \subseteq Nat /\ Numbers \in Nat \ {0} /\ MaxKeys \in Nat

VARIABLES
  tried_init, camera_found,
  size,             \* width = height
  img_mode_index,
  pictureTaken, dmaComplete,    \* set by the interrupt handlers
  jpgBuffer,        \* the picture in it; 0: cleared
  snapshot_buffer,  \* the image: its picture, size and scale, and the size it
                    \* was cut to size from
  shots,            \* the camera: number of the last shutter press
  camera,           \* "off", "on", "exposing", "done", "sending"
  pc,               \* where the main task is
  stream,           \* AT+SNAPSHOTSTREAM, not AT+SNAPSHOT
  keys,             \* bytes waiting in the receive buffer
  inits             \* history: successful initialisations, to 2

driver == <<tried_init, camera_found, size, img_mode_index, inits>>
buffers == <<jpgBuffer, snapshot_buffer>>
vars == <<driver, pictureTaken, dmaComplete, buffers, shots, camera, pc,
          stream, keys>>

Resolutions == <<96, 128, 160>>
Listed == {Resolutions[i] : i \in 1 .. Len(Resolutions)}

scaling_factor == <<3, 2, 2>>

NoImage == [picture |-> 0, size |-> 0, scale |-> 0, source |-> 0]

Init ==
  /\ tried_init = FALSE /\ camera_found = FALSE
  /\ size = 96 /\ img_mode_index = 0 /\ inits = 0
  /\ pictureTaken = FALSE /\ dmaComplete = FALSE
  /\ jpgBuffer = 0 /\ snapshot_buffer = NoImage
  /\ shots = 0 /\ camera = "off"
  /\ pc = "boot" /\ stream = FALSE /\ keys = <<>>

-----------------------------------------------------------------------------
(* EiAmbiqCamera::init *)

\* Mutant: an unknown resolution keeps the mode and is accepted.
AcceptsAll(s) == TRUE

Accepts(s) == s \in Listed

\* Mutant: modes counted from one.
ModeFromOne(s) == CHOOSE i \in 1 .. Len(Resolutions) : Resolutions[i] = s

ModeOf(s) == CHOOSE i \in 0 .. Len(Resolutions) - 1 : Resolutions[i + 1] = s

\* The camera is known: the size is stored whether or not it is accepted, the
\* mode only if it is.
InitAgain(s) ==
  /\ tried_init /\ camera_found
  /\ size' = s
  /\ img_mode_index' = IF s \in Listed THEN ModeOf(s) ELSE img_mode_index
  /\ inits' = IF Accepts(s) THEN 2 ELSE inits
  /\ UNCHANGED <<tried_init, camera_found, camera>>

\* The first time, any size is taken and the mode is not set.
InitFirst(s) ==
  /\ ~camera_found
  /\ tried_init' = TRUE /\ camera_found' = TRUE
  /\ size' = s
  /\ camera' = "on"
  /\ inits' = 1
  /\ UNCHANGED img_mode_index

InitFails ==
  /\ ~camera_found
  /\ tried_init' = TRUE
  /\ UNCHANGED <<camera_found, size, img_mode_index, inits, camera>>

\* What EiAmbiqCamera takes to be the size to decode at.
search_resolution(s) == IF s <= 160 THEN s ELSE 160

\* What init returns is whether the command goes on.
InitAndGo(s, next) ==
  \/ InitAgain(s) /\ pc' = (IF Accepts(s) THEN next ELSE "idle")
  \/ InitFirst(s) /\ pc' = next
  \/ InitFails /\ pc' = "idle"

Boot ==
  /\ pc = "boot"
  /\ InitAndGo(160, "idle")
  /\ UNCHANGED <<pictureTaken, dmaComplete, buffers, shots, stream, keys>>

-----------------------------------------------------------------------------
(* The commands *)

\* AT+SNAPSHOT=s,s
ei_camera_take_snapshot_output_on_serial(s) ==
  /\ pc = "idle" /\ keys = <<>>
  /\ stream' = FALSE
  /\ InitAndGo(s, "clear")
  /\ UNCHANGED <<pictureTaken, dmaComplete, buffers, shots, keys>>

\* AT+SNAPSHOTSTREAM=s,s
ei_camera_start_snapshot_stream(s) ==
  /\ pc = "idle" /\ keys = <<>>
  /\ stream' = TRUE
  /\ InitAndGo(s, "user")
  /\ UNCHANGED <<pictureTaken, dmaComplete, buffers, shots, keys>>

\* ei_user_invoke_stop_lib reads keys until there is none or one is 'b'.  A key
\* that arrived while the receive buffer was being cleared may be read as '\0'
\* (module UsbSerial), which ends this look at the keys too.
ei_user_invoke_stop_lib ==
  /\ pc = "user"
  /\ \/ keys = <<>> /\ pc' = "clear" /\ UNCHANGED keys
     \/ /\ keys # <<>> /\ keys' = Tail(keys)
        /\ pc' \in {IF Head(keys) = "b" THEN "idle" ELSE "user", "clear"}
  /\ UNCHANGED <<driver, pictureTaken, dmaComplete, buffers, shots, camera, stream>>

\* base64_encode of the whole image to the serial port.
SendImage ==
  /\ pc = "send"
  /\ pc' = IF stream THEN "user" ELSE "idle"
  /\ UNCHANGED <<driver, pictureTaken, dmaComplete, buffers, shots, camera,
                 stream, keys>>

-----------------------------------------------------------------------------
(* ei_camera_capture_rgb888_packed_big_endian *)

\* Mutants: the flags keep what the last picture left in them; the flag of
\* the picture is lowered once the shutter has been pressed.
KeepFlags  == UNCHANGED <<pictureTaken, dmaComplete>>
LowerFlags == pictureTaken' = FALSE /\ dmaComplete' = FALSE

ClearedFlags == pictureTaken' = FALSE /\ dmaComplete' = FALSE

ClearFlags ==
  /\ pc = "clear"
  /\ ClearedFlags
  /\ jpgBuffer' = 0 /\ snapshot_buffer' = NoImage
  /\ pc' = "shutter"
  /\ UNCHANGED <<driver, shots, camera, stream, keys>>

press_jpg_shutter_button ==
  /\ pc = "shutter"
  /\ shots' = (shots % Numbers) + 1
  /\ camera' = "exposing"
  /\ pc' = "wait_picture"
  /\ UNCHANGED <<driver, pictureTaken, dmaComplete, buffers, stream, keys>>

\* __WFI() falls asleep; an interrupt lets it return.
Asleep == pc \in {"asleep_picture", "asleep_dma"}
Woken == CASE pc = "asleep_picture" -> "test_picture"
           [] pc = "asleep_dma"     -> "test_dma"
           [] OTHER                 -> pc

SleepFlags == UNCHANGED <<pictureTaken, dmaComplete>>
WFI ==
  /\ \/ pc = "wait_picture" /\ pc' = "asleep_picture"
     \/ pc = "wait_dma" /\ pc' = "asleep_dma"
  /\ SleepFlags
  /\ UNCHANGED <<driver, buffers, shots, camera, stream, keys>>

\* while (!pictureTaken); and then the transfer is started.
TestPicture ==
  /\ pc = "test_picture"
  /\ IF pictureTaken
     THEN camera' = "sending" /\ pc' = "wait_dma"
     ELSE UNCHANGED camera /\ pc' = "wait_picture"
  /\ UNCHANGED <<driver, pictureTaken, dmaComplete, buffers, shots, stream,
                 keys>>

\* while (!dmaComplete); and then the picture is decoded at the size asked for,
\* which is what init left in size, and interpolated in place when the size to
\* decode at is supposed to be another.
TestDma ==
  /\ pc = "test_dma"
  /\ IF dmaComplete
     THEN /\ snapshot_buffer' = [picture |-> jpgBuffer, size |-> size,
                                 scale |-> scaling_factor[img_mode_index + 1],
                                 source |-> search_resolution(size)]
          /\ pc' = "send"
     ELSE UNCHANGED snapshot_buffer /\ pc' = "wait_dma"
  /\ UNCHANGED <<driver, pictureTaken, dmaComplete, jpgBuffer, shots, camera,
                 stream, keys>>

-----------------------------------------------------------------------------
(* Interrupts and the user *)

picture_taken_complete ==
  /\ camera = "exposing"
  /\ camera' = "done"
  /\ pictureTaken' = TRUE
  /\ pc' = Woken
  /\ UNCHANGED <<driver, dmaComplete, buffers, shots, stream, keys>>

picture_dma_complete ==
  /\ camera = "sending"
  /\ camera' = "on"
  /\ jpgBuffer' = shots
  /\ dmaComplete' = TRUE
  /\ pc' = Woken
  /\ UNCHANGED <<driver, pictureTaken, snapshot_buffer, shots, stream, keys>>

SysTick ==
  /\ Asleep
  /\ pc' = Woken
  /\ UNCHANGED <<driver, pictureTaken, dmaComplete, buffers, shots, camera,
                 stream, keys>>

\* While a stream runs the user types; what is left is the interpreter's.
Type(k) ==
  /\ stream /\ pc \notin {"boot", "idle"} /\ Len(keys) < MaxKeys
  /\ keys' = Append(keys, k)
  /\ UNCHANGED <<driver, pictureTaken, dmaComplete, buffers, shots, camera, pc,
                 stream>>

Interpreter ==
  /\ pc = "idle" /\ keys # <<>>
  /\ keys' = <<>>
  /\ UNCHANGED <<driver, pictureTaken, dmaComplete, buffers, shots, camera, pc,
                 stream>>

-----------------------------------------------------------------------------
Command ==
  \E s \in Sizes : \/ ei_camera_take_snapshot_output_on_serial(s)
                   \/ ei_camera_start_snapshot_stream(s)

MainTask ==
  \/ Boot \/ ei_user_invoke_stop_lib \/ SendImage \/ ClearFlags
  \/ press_jpg_shutter_button \/ WFI \/ TestPicture \/ TestDma

Interrupt == picture_taken_complete \/ picture_dma_complete \/ SysTick

User == Command \/ Interpreter \/ \E k \in {"b", "x"} : Type(k)

Next == MainTask \/ Interrupt \/ User

Spec == Init /\ [][Next]_vars

\* The main task is the highest that is ready, the camera answers, and the
\* system tick never stops.
FairSpec ==
  /\ Spec
  /\ WF_vars(MainTask) /\ WF_vars(SysTick)
  /\ WF_vars(picture_taken_complete) /\ WF_vars(picture_dma_complete)

-----------------------------------------------------------------------------
(* Properties *)

TypeOK ==
  /\ tried_init \in BOOLEAN /\ camera_found \in BOOLEAN
  /\ size \in Sizes \cup {96, 160}
  /\ img_mode_index \in 0 .. 2
  /\ pictureTaken \in BOOLEAN /\ dmaComplete \in BOOLEAN
  /\ jpgBuffer \in 0 .. Numbers
  /\ snapshot_buffer \in
       [picture : 0 .. Numbers, size : Nat, scale : 0 .. 3, source : Nat]
  /\ shots \in 0 .. Numbers
  /\ camera \in {"off", "on", "exposing", "done", "sending"}
  /\ pc \in {"boot", "idle", "user", "clear", "shutter", "wait_picture",
             "asleep_picture", "test_picture", "wait_dma", "asleep_dma",
             "test_dma", "send"}
  /\ stream \in BOOLEAN
  /\ keys \in Seq({"b", "x"}) /\ Len(keys) <= MaxKeys
  /\ inits \in 0 .. 2

\* The image that is sent is that of this capture's own shutter press: no flag
\* of an earlier picture is taken for this one's, no transfer is decoded
\* before it is complete (ei_camera.cpp:194-219).
FreshPicture == pc = "send" => snapshot_buffer.picture = shots

\* Once the camera was initialised a second time -- at boot, and for the
\* command -- images are only sent at listed resolutions, decoded with the
\* scale of that resolution and not resized (ei_camera.cpp:106-126, 221-223,
\* 270-290).
OnlyListed ==
  pc = "send" /\ inits = 2
     => \E i \in 1 .. Len(Resolutions) :
          /\ snapshot_buffer.size = Resolutions[i]
          /\ snapshot_buffer.scale = scaling_factor[i]
          /\ snapshot_buffer.source = Resolutions[i]

\* Why FreshPicture holds: where the main task is, how far the camera has got
\* and what the two flags say always fit together.
Handshake ==
  /\ pc = "shutter" => ~pictureTaken /\ ~dmaComplete
  /\ pc \in {"wait_picture", "asleep_picture", "test_picture"} =>
       /\ camera = IF pictureTaken THEN "done" ELSE "exposing"
       /\ ~dmaComplete
  /\ pc \in {"wait_dma", "asleep_dma", "test_dma"} =>
       \/ camera = "sending" /\ ~dmaComplete
       \/ camera = "on" /\ jpgBuffer = shots
  /\ pc \in {"boot", "idle", "user", "clear", "shutter", "send"} =>
       camera \in {"off", "on"}
  /\ FreshPicture

\* A snapshot ends, and a stream comes back to look for its 'b' after every
\* picture: an interrupt that comes before the task sleeps is noticed at the
\* next tick (ei_camera.cpp:206-216, ei_image_lib.cpp:246-249).
CommandEnds == []<>(pc \in {"idle", "user"})
==============================================================================
