----------------------------- MODULE CameraProofs -----------------------------
(***************************************************************************)
(* The handshake between the main task and the camera's interrupts, for    *)
(* every set of resolutions and for interrupts that fall anywhere; and the *)
(* text a picture or a recording is sent as, for every byte and length.    *)
(***************************************************************************)
EXTENDS Camera, Base64, SequenceTheorems, TLAPS

USE DEF driver, buffers

LEMMA HandshakeInit == Init => Handshake
  BY DEF Init, Handshake, FreshPicture

\* Whatever init does, the command goes on with the camera on, or is over.
LEMMA InitKeepsCamera ==
  ASSUME NEW s, NEW next, InitAndGo(s, next), camera \in {"off", "on"}
  PROVE  camera' \in {"off", "on"} /\ pc' \in {next, "idle"}
  BY DEF InitAndGo, InitAgain, InitFirst, InitFails

LEMMA HandshakeStep == ASSUME Handshake, [Next]_vars PROVE Handshake'
<1> USE DEF Handshake, FreshPicture
<1>1. CASE Boot
  BY <1>1, InitKeepsCamera DEF Boot
<1>2. ASSUME NEW s \in Sizes, ei_camera_take_snapshot_output_on_serial(s)
      PROVE  Handshake'
  BY <1>2, InitKeepsCamera DEF ei_camera_take_snapshot_output_on_serial
<1>3. ASSUME NEW s \in Sizes, ei_camera_start_snapshot_stream(s)
      PROVE  Handshake'
  BY <1>3, InitKeepsCamera DEF ei_camera_start_snapshot_stream
<1>4. CASE ei_user_invoke_stop_lib \/ SendImage
  BY <1>4 DEF ei_user_invoke_stop_lib, SendImage
<1>5. CASE ClearFlags
  BY <1>5 DEF ClearFlags, ClearedFlags
<1>6. CASE press_jpg_shutter_button
  BY <1>6 DEF press_jpg_shutter_button
<1>7. CASE WFI
  BY <1>7 DEF WFI, SleepFlags
<1>8. CASE TestPicture
  BY <1>8 DEF TestPicture
<1>9. CASE TestDma
  \* The picture is decoded only when the buffer holds the last one taken.
  <2>1. CASE dmaComplete
    BY <1>9, <2>1 DEF TestDma
  <2>2. CASE ~dmaComplete
    BY <1>9, <2>2 DEF TestDma
  <2> QED BY <2>1, <2>2
<1>10. CASE picture_taken_complete
  BY <1>10 DEF picture_taken_complete, Woken
<1>11. CASE picture_dma_complete
  BY <1>11 DEF picture_dma_complete, Woken
<1>12. CASE SysTick
  BY <1>12 DEF SysTick, Woken
<1>13. CASE Interpreter \/ \E k \in {"b", "x"} : Type(k)
  BY <1>13 DEF Interpreter, Type
<1>14. CASE UNCHANGED vars
  BY <1>14 DEF vars
<1> QED
  BY <1>1, <1>2, <1>3, <1>4, <1>5, <1>6, <1>7, <1>8, <1>9, <1>10, <1>11,
     <1>12, <1>13, <1>14 DEF Next, MainTask, Interrupt, User, Command

\* Every image that is sent is the picture of its own shutter press, however
\* the two interrupts and the tick fall between the steps of the main task
\* (ei_camera.cpp:190-237).
THEOREM PicturesFresh == Spec => []FreshPicture
<1>1. Handshake => FreshPicture
  BY DEF Handshake
<1> QED BY HandshakeInit, HandshakeStep, <1>1, PTL DEF Spec

-----------------------------------------------------------------------------

\* While a command runs on a camera that was initialised before it, size and
\* mode are those of one listed resolution, and the image is decoded with them.
ListedInv ==
  /\ inits = 2 => camera_found
  /\ inits = 2 /\ pc \notin {"boot", "idle"} =>
       size \in Listed /\ img_mode_index = ModeOf(size)
  /\ inits = 2 /\ pc = "send" =>
       /\ snapshot_buffer.size = size
       /\ snapshot_buffer.scale = scaling_factor[img_mode_index + 1]
       /\ snapshot_buffer.source = search_resolution(size)

LEMMA InitListed ==
  ASSUME NEW s, NEW next, next \notin {"boot", "send"}, InitAndGo(s, next), ListedInv
  PROVE  ListedInv'
<1>1. CASE InitAgain(s) /\ pc' = IF Accepts(s) THEN next ELSE "idle"
  BY <1>1 DEF InitAgain, Accepts, ListedInv
<1>2. CASE InitFirst(s) /\ pc' = next
  BY <1>2 DEF InitFirst, ListedInv
<1>3. CASE InitFails /\ pc' = "idle"
  BY <1>3 DEF InitFails, ListedInv
<1> QED BY <1>1, <1>2, <1>3 DEF InitAndGo

LEMMA ListedStep == ASSUME ListedInv, [Next]_vars PROVE ListedInv'
<1>1. CASE Boot
  BY <1>1, InitListed DEF Boot
<1>2. ASSUME NEW s \in Sizes, ei_camera_take_snapshot_output_on_serial(s)
      PROVE  ListedInv'
  BY <1>2, InitListed DEF ei_camera_take_snapshot_output_on_serial
<1>3. ASSUME NEW s \in Sizes, ei_camera_start_snapshot_stream(s)
      PROVE  ListedInv'
  BY <1>3, InitListed DEF ei_camera_start_snapshot_stream
<1>4. CASE TestDma
  <2>1. /\ UNCHANGED driver /\ pc = "test_dma"
        /\ pc' = "send" =>
             snapshot_buffer' = [picture |-> jpgBuffer, size |-> size,
                                 scale |-> scaling_factor[img_mode_index + 1],
                                 source |-> search_resolution(size)]
    BY <1>4 DEF TestDma
  <2> QED BY <2>1 DEF ListedInv
<1>5. CASE \/ ei_user_invoke_stop_lib \/ SendImage \/ ClearFlags
           \/ press_jpg_shutter_button \/ WFI \/ TestPicture
  <2>1. UNCHANGED driver /\ pc \notin {"boot", "idle"} /\ pc' # "send"
    BY <1>5 DEF ei_user_invoke_stop_lib, SendImage, ClearFlags,
       press_jpg_shutter_button, WFI, TestPicture
  <2> QED BY <2>1 DEF ListedInv
<1>6. CASE Interrupt
  <2>1. UNCHANGED driver /\ UNCHANGED snapshot_buffer
        /\ (pc' = pc \/ (pc \in {"asleep_picture", "asleep_dma"} /\ pc' # "send"))
    BY <1>6 DEF Interrupt, picture_taken_complete, picture_dma_complete, SysTick, Woken
  <2> QED BY <2>1 DEF ListedInv
<1>7. CASE Interpreter \/ (\E k \in {"b", "x"} : Type(k)) \/ UNCHANGED vars
  <2>1. UNCHANGED driver /\ UNCHANGED snapshot_buffer /\ UNCHANGED pc
    BY <1>7 DEF Interpreter, Type, vars
  <2> QED BY <2>1 DEF ListedInv
<1> QED
  BY <1>1, <1>2, <1>3, <1>4, <1>5, <1>6, <1>7
  DEF Next, MainTask, User, Command

\* On a camera that was found at boot, images are only sent at listed
\* resolutions and decoded with the scale of that resolution, whatever was
\* refused in between (ei_camera.cpp:106-126, 221-223).
THEOREM ListedSizes == Spec => []OnlyListed
<1>1. Init => ListedInv
  BY DEF Init, ListedInv
<1>2. ASSUME ListedInv PROVE OnlyListed
  <2> SUFFICES ASSUME pc = "send", inits = 2
               PROVE  \E i \in 1 .. Len(Resolutions) :
                        /\ snapshot_buffer.size = Resolutions[i]
                        /\ snapshot_buffer.scale = scaling_factor[i]
                        /\ snapshot_buffer.source = Resolutions[i]
    BY DEF OnlyListed
  <2>1. /\ size \in Listed /\ img_mode_index = ModeOf(size)
        /\ snapshot_buffer.size = size
        /\ snapshot_buffer.scale = scaling_factor[img_mode_index + 1]
        /\ snapshot_buffer.source = search_resolution(size)
    BY <1>2 DEF ListedInv
  <2>2. Len(Resolutions) = 3
    BY DEF Resolutions
  <2>3. \E i \in 0 .. 2 : Resolutions[i + 1] = size
    <3>1. PICK i \in 1 .. 3 : Resolutions[i] = size
      BY <2>1, <2>2 DEF Listed
    <3>2. i - 1 \in 0 .. 2 /\ (i - 1) + 1 = i
      OBVIOUS
    <3> QED BY <3>1, <3>2
  <2>4. img_mode_index \in 0 .. 2 /\ Resolutions[img_mode_index + 1] = size
    <3>1. 0 .. Len(Resolutions) - 1 = 0 .. 2
      BY <2>2
    <3>2. img_mode_index = CHOOSE i \in 0 .. 2 : Resolutions[i + 1] = size
      BY <2>1, <3>1, Zenon DEF ModeOf
    <3> QED BY <2>3, <3>2, Zenon
  <2>5. img_mode_index + 1 \in 1 .. 3
    BY <2>4
  <2>6. search_resolution(size) = size
    <3>1. size \in {96, 128, 160}
      BY <2>4 DEF Resolutions
    <3> QED BY <3>1 DEF search_resolution
  <2> QED BY <2>1, <2>2, <2>4, <2>5, <2>6
<1> QED BY <1>1, ListedStep, <1>2, PTL DEF Spec

-----------------------------------------------------------------------------

LEMMA ModeInRange == ASSUME NEW s, s \in Listed PROVE ModeOf(s) \in 0 .. 2
<1>1. Len(Resolutions) = 3
  BY DEF Resolutions
<1>2. PICK i \in 1 .. 3 : Resolutions[i] = s
  BY <1>1 DEF Listed
<1>3. i - 1 \in 0 .. 2 /\ (i - 1) + 1 = i
  OBVIOUS
<1>4. 0 .. Len(Resolutions) - 1 = 0 .. 2
  BY <1>1
<1> QED BY Zenon, <1>2, <1>3, <1>4 DEF ModeOf

Flags == /\ tried_init \in BOOLEAN /\ camera_found \in BOOLEAN
         /\ pictureTaken \in BOOLEAN /\ dmaComplete \in BOOLEAN
         /\ stream \in BOOLEAN

DriverOK ==
  /\ size \in Sizes \cup {96, 160}
  /\ img_mode_index \in 0 .. 2 /\ inits \in 0 .. 2
  /\ camera \in {"off", "on", "exposing", "done", "sending"}

RestOK ==
  /\ jpgBuffer \in 0 .. Numbers
  /\ snapshot_buffer \in
       [picture : 0 .. Numbers, size : Nat, scale : 0 .. 3, source : Nat]
  /\ shots \in 0 .. Numbers
  /\ keys \in Seq({"b", "x"}) /\ Len(keys) <= MaxKeys

PcOK ==
  pc \in {"boot", "idle", "user", "clear", "shutter", "wait_picture",
          "asleep_picture", "test_picture", "wait_dma", "asleep_dma",
          "test_dma", "send"}

LEMMA TypeParts == TypeOK <=> Flags /\ DriverOK /\ RestOK /\ PcOK
BY Zenon DEF TypeOK, Flags, DriverOK, RestOK, PcOK

LEMMA DriverStep ==
  ASSUME DriverOK, NEW s \in Sizes \cup {160}, NEW next, InitAndGo(s, next)
  PROVE  DriverOK' /\ pc' \in {next, "idle"}
<1>1. ASSUME InitAgain(s) PROVE DriverOK'
  BY <1>1, ModeInRange DEF DriverOK, InitAgain
<1>2. ASSUME InitFirst(s) PROVE DriverOK'
  BY <1>2 DEF DriverOK, InitFirst
<1>3. ASSUME InitFails PROVE DriverOK'
  BY <1>3 DEF DriverOK, InitFails
<1>4. pc' \in {next, "idle"}
  BY DEF InitAndGo
<1> QED BY <1>1, <1>2, <1>3, <1>4 DEF InitAndGo

LEMMA FlagsStep == ASSUME Flags, [Next]_vars PROVE Flags'
<1> USE DEF Flags
<1>1. ASSUME NEW s, NEW next, InitAndGo(s, next)
      PROVE  tried_init' \in BOOLEAN /\ camera_found' \in BOOLEAN
  BY Zenon, <1>1 DEF InitAndGo, InitAgain, InitFirst, InitFails
<1>2. CASE Boot
  BY Zenon, <1>1, <1>2 DEF Boot
<1>3. CASE Command
  BY Zenon, <1>1, <1>3 DEF Command, ei_camera_take_snapshot_output_on_serial,
     ei_camera_start_snapshot_stream
<1>4. CASE ei_user_invoke_stop_lib \/ SendImage \/ press_jpg_shutter_button
  BY Zenon, <1>4 DEF ei_user_invoke_stop_lib, SendImage, press_jpg_shutter_button
<1>5. CASE ClearFlags \/ WFI
  BY Zenon, <1>5 DEF ClearFlags, ClearedFlags, WFI, SleepFlags
<1>6. CASE TestPicture \/ TestDma
  BY Zenon, <1>6 DEF TestPicture, TestDma
<1>7. CASE Interrupt
  BY Zenon, <1>7 DEF Interrupt, picture_taken_complete, picture_dma_complete, SysTick
<1>8. CASE Interpreter \/ (\E k \in {"b", "x"} : Type(k)) \/ UNCHANGED vars
  BY Zenon, <1>8 DEF Interpreter, Type, vars
<1> QED BY Zenon, <1>2, <1>3, <1>4, <1>5, <1>6, <1>7, <1>8 DEF Next, MainTask, User

LEMMA RestStep ==
  ASSUME DriverOK, RestOK, PcOK, [Next]_vars PROVE DriverOK' /\ RestOK' /\ PcOK'
<1> USE CameraAssumption DEF RestOK, PcOK
<1>1. CASE Boot
  BY <1>1, DriverStep DEF Boot
<1>2. ASSUME NEW s \in Sizes, ei_camera_take_snapshot_output_on_serial(s)
      PROVE  DriverOK' /\ RestOK' /\ PcOK'
  BY <1>2, DriverStep DEF ei_camera_take_snapshot_output_on_serial
<1>3. ASSUME NEW s \in Sizes, ei_camera_start_snapshot_stream(s)
      PROVE  DriverOK' /\ RestOK' /\ PcOK'
  BY <1>3, DriverStep DEF ei_camera_start_snapshot_stream
<1> USE DEF DriverOK
<1>4. CASE ei_user_invoke_stop_lib
  <2>1. keys' = keys \/ (keys # <<>> /\ keys' = Tail(keys))
    BY <1>4 DEF ei_user_invoke_stop_lib
  <2>2. keys' \in Seq({"b", "x"}) /\ Len(keys') <= Len(keys)
    <3>1. keys # <<>> => Tail(keys) \in Seq({"b", "x"}) /\ Len(Tail(keys)) = Len(keys) - 1
      OBVIOUS
    <3>2. keys \in Seq({"b", "x"}) /\ Len(keys) \in Nat
      OBVIOUS
    <3>3. CASE keys' = keys
      BY <3>2, <3>3
    <3>4. CASE keys # <<>> /\ keys' = Tail(keys)
      BY <3>1, <3>2, <3>4
    <3> QED BY <2>1, <3>3, <3>4
  <2> QED BY <1>4, <2>2 DEF ei_user_invoke_stop_lib
<1>5. CASE SendImage
  BY <1>5 DEF SendImage
<1>6. CASE ClearFlags
  BY <1>6 DEF ClearFlags, NoImage
<1>7. CASE press_jpg_shutter_button
  BY <1>7 DEF press_jpg_shutter_button
<1>8. CASE WFI \/ TestPicture
  BY <1>8 DEF WFI, TestPicture
<1>9. CASE TestDma
  <2>1. /\ scaling_factor[img_mode_index + 1] \in 0 .. 3 /\ size \in Nat
        /\ search_resolution(size) \in Nat
    BY DEF scaling_factor, search_resolution
  <2> QED BY <1>9, <2>1 DEF TestDma
<1>10. CASE Interrupt
  <2>1. Woken \in {pc, "test_picture", "test_dma"}
    BY DEF Woken
  <2> QED BY <1>10, <2>1 DEF Interrupt, picture_taken_complete, picture_dma_complete, SysTick
<1>11. ASSUME NEW k \in {"b", "x"}, Type(k) PROVE DriverOK' /\ RestOK' /\ PcOK'
  <2>1. keys' = Append(keys, k) /\ Len(keys) < MaxKeys
    BY <1>11 DEF Type
  <2>2. keys' \in Seq({"b", "x"}) /\ Len(keys') = Len(keys) + 1
    BY <2>1
  <2> QED BY <1>11, <2>1, <2>2 DEF Type
<1>12. CASE Interpreter
  BY <1>12 DEF Interpreter
<1>13. CASE UNCHANGED vars
  BY <1>13 DEF vars
<1> QED
  BY <1>1, <1>2, <1>3, <1>4, <1>5, <1>6, <1>7, <1>8, <1>9, <1>10, <1>11, <1>12, <1>13
  DEF Next, MainTask, User, Command

\* Every variable keeps its type: no mode behind the table of resolutions, no
\* picture number and no key beyond its bound (ei_camera.cpp:106-237).
THEOREM TypeCorrect == Spec => []TypeOK
<1>1. Init => Flags
  BY Zenon DEF Init, Flags
<1>2. Init => DriverOK /\ RestOK /\ PcOK
  BY CameraAssumption DEF Init, DriverOK, RestOK, PcOK, NoImage
<1> QED BY <1>1, <1>2, FlagsStep, RestStep, TypeParts, PTL DEF Spec

-----------------------------------------------------------------------------
(* The text a picture is sent as *)

Octets == 0 .. 255

Blocks(n) == (n + 2) \div 3

LEMMA BlocksOf ==
  ASSUME NEW n \in Nat
  PROVE  /\ Blocks(n) \in Nat /\ 3 * Blocks(n) >= n /\ 3 * Blocks(n) < n + 3
  BY DEF Blocks

\* Where character k of a text comes from: character Digit(k) of group Quad(k).
Quad(k) == (k - 1) \div 4
Digit(k) == (k - 1) % 4

LEMMA QuadOf ==
  ASSUME NEW k \in Nat \ {0}
  PROVE  /\ Quad(k) \in Nat /\ Digit(k) \in 0 .. 3
         /\ k = 4 * Quad(k) + Digit(k) + 1
  BY DEF Quad, Digit

LEMMA QuadLater ==
  ASSUME NEW m \in Nat, NEW k \in Nat \ {0}
  PROVE  Quad(4 * m + k) = m + Quad(k) /\ Digit(4 * m + k) = Digit(k)
<1>1. (4 * m + k) - 1 = 4 * m + (k - 1)
  OBVIOUS
<1> QED BY <1>1 DEF Quad, Digit

Char(s, g, q) == IF q <= Len(s) - 3 * g THEN Sextet(Group(s, g), q) ELSE Pad

LEMMA EncodeIs ==
  ASSUME NEW s \in Seq(Octets)
  PROVE  base64_encode(s) = [k \in 1 .. 4 * Blocks(Len(s)) |-> Char(s, Quad(k), Digit(k))]
  BY Zenon DEF base64_encode, Char, Quad, Digit, Blocks

LEMMA SextetIs ==
  ASSUME NEW b \in [1 .. 3 -> Octets], NEW q \in 0 .. 3
  PROVE  Sextet(b, q) \in 0 .. 63
<1>1. b[1] \in 0 .. 255 /\ b[2] \in 0 .. 255 /\ b[3] \in 0 .. 255
  BY DEF Octets
<1>2. b[1] \div 4 \in 0 .. 63 /\ b[1] % 4 \in 0 .. 3
  BY <1>1
<1>3. b[2] \div 16 \in 0 .. 15 /\ b[2] % 16 \in 0 .. 15
  BY <1>1
<1>4. b[3] \div 64 \in 0 .. 3 /\ b[3] % 64 \in 0 .. 63
  BY <1>1
<1>5. CASE q = 0
  BY <1>5, <1>2 DEF Sextet
<1>6. CASE q = 1
  BY <1>6, <1>2, <1>3 DEF Sextet
<1>7. CASE q = 2
  BY <1>7, <1>3, <1>4 DEF Sextet
<1>8. CASE q = 3
  BY <1>8, <1>4 DEF Sextet
<1> QED BY <1>5, <1>6, <1>7, <1>8

LEMMA GroupIs ==
  ASSUME NEW s \in Seq(Octets), NEW g \in Nat
  PROVE  Group(s, g) \in [1 .. 3 -> Octets]
<1>1. \A i \in 1 .. 3 : (IF 3 * g + i <= Len(s) THEN s[3 * g + i] ELSE 0) \in Octets
  <2>1. 0 \in Octets
    BY DEF Octets
  <2>2. ASSUME NEW i \in 1 .. 3, 3 * g + i <= Len(s) PROVE s[3 * g + i] \in Octets
    BY <2>2
  <2> QED BY <2>1, <2>2
<1> QED BY <1>1 DEF Group

LEMMA CharIs ==
  ASSUME NEW s \in Seq(Octets), NEW g \in Nat, NEW q \in 0 .. 3
  PROVE  Char(s, g, q) \in 0 .. 64
<1>1. Sextet(Group(s, g), q) \in 0 .. 63
  BY Zenon, SextetIs, GroupIs
<1> QED BY <1>1 DEF Char, Pad

LEMMA EncodeType ==
  ASSUME NEW s \in Seq(Octets)
  PROVE  /\ base64_encode(s) \in Seq(0 .. 64)
         /\ Len(base64_encode(s)) = 4 * Blocks(Len(s))
<1> DEFINE n == 4 * Blocks(Len(s))
<1>1. n \in Nat
  <2>1. Blocks(Len(s)) \in Nat
    BY BlocksOf
  <2> QED BY <2>1
<1>2. base64_encode(s) = [k \in 1 .. n |-> Char(s, Quad(k), Digit(k))]
  BY Zenon, EncodeIs
<1> HIDE DEF n
<1>3. ASSUME NEW k \in 1 .. n PROVE Char(s, Quad(k), Digit(k)) \in 0 .. 64
  <2>1. k \in Nat \ {0}
    BY <1>1
  <2> QED BY Zenon, <2>1, QuadOf, CharIs
<1>4. base64_encode(s) \in [1 .. n -> 0 .. 64]
  BY Zenon, <1>2, <1>3
<1>5. base64_encode(s) \in Seq(0 .. 64) /\ Len(base64_encode(s)) = n
  BY <1>1, <1>4
<1> QED BY Zenon, <1>5 DEF n

\* A group that lies in s is the same with more bytes behind it.
LEMMA CharBefore ==
  ASSUME NEW s \in Seq(Octets), NEW t \in Seq(Octets), NEW g \in Nat, NEW q \in 0 .. 3,
         3 * g + 3 <= Len(s)
  PROVE  Char(s \o t, g, q) = Char(s, g, q)
<1>1. Len(s \o t) = Len(s) + Len(t)
  OBVIOUS
<1>2. Group(s \o t, g) = Group(s, g)
  BY <1>1 DEF Group
<1>3. q <= Len(s) - 3 * g /\ q <= Len(s \o t) - 3 * g
  BY <1>1
<1> QED BY <1>2, <1>3 DEF Char

\* And a group behind it is the one of what is behind it.
LEMMA CharBehind ==
  ASSUME NEW s \in Seq(Octets), NEW t \in Seq(Octets), NEW m \in Nat, Len(s) = 3 * m,
         NEW g \in Nat, NEW q \in 0 .. 3
  PROVE  Char(s \o t, m + g, q) = Char(t, g, q)
<1>1. Len(s \o t) = 3 * m + Len(t) /\ 3 * (m + g) = 3 * m + 3 * g
  OBVIOUS
<1>2. ASSUME NEW i \in 1 .. 3
      PROVE  (IF 3 * (m + g) + i <= Len(s \o t) THEN (s \o t)[3 * (m + g) + i] ELSE 0)
               = (IF 3 * g + i <= Len(t) THEN t[3 * g + i] ELSE 0)
  BY <1>1
<1>3. Group(s \o t, m + g) = Group(t, g)
  BY Zenon, <1>2 DEF Group
<1>4. q <= Len(s \o t) - 3 * (m + g) <=> q <= Len(t) - 3 * g
  BY <1>1
<1> QED BY <1>3, <1>4 DEF Char

\* The text of whole groups and what follows is their text and the text of what
\* follows.
LEMMA EncodeParts ==
  ASSUME NEW s \in Seq(Octets), NEW t \in Seq(Octets), Len(s) % 3 = 0
  PROVE  base64_encode(s \o t) = base64_encode(s) \o base64_encode(t)
<1> DEFINE m == Len(s) \div 3
           b == Blocks(Len(t))
<1>1. m \in Nat /\ Len(s) = 3 * m
  OBVIOUS
<1>2. b \in Nat
  BY BlocksOf
<1>3. s \o t \in Seq(Octets) /\ Len(s \o t) = 3 * m + Len(t)
  BY <1>1
<1> HIDE DEF m
<1>4. Blocks(Len(s \o t)) = m + b /\ Blocks(Len(s)) = m
  BY <1>1, <1>3 DEF Blocks
<1> HIDE DEF b
<1>5. base64_encode(s \o t) = [k \in 1 .. 4 * (m + b) |-> Char(s \o t, Quad(k), Digit(k))]
  BY Zenon, <1>3, <1>4, EncodeIs
<1>6. base64_encode(s) = [k \in 1 .. 4 * m |-> Char(s, Quad(k), Digit(k))]
  BY Zenon, <1>4, EncodeIs
<1>7. base64_encode(t) = [k \in 1 .. 4 * b |-> Char(t, Quad(k), Digit(k))]
  BY Zenon, EncodeIs DEF b
<1>8. /\ base64_encode(s) \o base64_encode(t)
           = [k \in 1 .. 4 * m + 4 * b |->
                IF k <= 4 * m THEN base64_encode(s)[k] ELSE base64_encode(t)[k - 4 * m]]
  <2> DEFINE x == base64_encode(s)
             y == base64_encode(t)
             p == 4 * m
             r == 4 * b
             T == 0 .. 64
  <2>1. p \in Nat /\ r \in Nat
    BY <1>1, <1>2
  <2>2. x \in Seq(T) /\ y \in Seq(T)
    BY Zenon, EncodeType
  <2>3. Len(x) = p /\ Len(y) = r
    BY Zenon, <1>4, EncodeType DEF b
  <2> HIDE DEF x, y, p, r, T
  <2> DEFINE z == x \o y
  <2>4. z \in Seq(T) /\ Len(z) = p + r
    BY <2>1, <2>2, <2>3
  <2>5. ASSUME NEW k \in 1 .. p + r PROVE z[k] = IF k <= p THEN x[k] ELSE y[k - p]
    <3>1. \A i \in 1 .. Len(x) + Len(y) : z[i] = IF i <= Len(x) THEN x[i] ELSE y[i - Len(x)]
      BY <2>2, ConcatProperties
    <3> HIDE DEF z
    <3> QED BY Zenon, <2>3, <3>1
  <2>6. z = [k \in 1 .. p + r |-> z[k]]
    <3> HIDE DEF z
    <3> DEFINE n == p + r
    <3>0. n \in Nat /\ Len(z) = n
      BY <2>1, <2>4
    <3> HIDE DEF n
    <3>1. z \in [1 .. n -> T]
      BY <2>4, <3>0
    <3>2. z = [k \in 1 .. n |-> z[k]]
      BY Zenon, <3>1
    <3> QED BY Zenon, <3>2 DEF n
  <2>7. z = [k \in 1 .. p + r |-> IF k <= p THEN x[k] ELSE y[k - p]]
    BY Zenon, <2>5, <2>6
  <2> QED BY <2>7 DEF x, y, p, r
<1>9. ASSUME NEW k \in 1 .. 4 * m
      PROVE  Char(s \o t, Quad(k), Digit(k)) = base64_encode(s)[k]
  <2>0. k \in Nat \ {0} /\ k <= 4 * m
    BY <1>1
  <2>1. Quad(k) \in Nat /\ Digit(k) \in 0 .. 3 /\ 4 * Quad(k) < 4 * m
    <3>1. Quad(k) \in Nat /\ Digit(k) \in 0 .. 3 /\ k = 4 * Quad(k) + Digit(k) + 1
      BY Zenon, <2>0, QuadOf
    <3> QED BY <2>0, <3>1, <1>1
  <2>2. 3 * Quad(k) + 3 <= Len(s)
    BY <2>1, <1>1
  <2>3. Char(s \o t, Quad(k), Digit(k)) = Char(s, Quad(k), Digit(k))
    BY Zenon, <2>1, <2>2, CharBefore
  <2> QED BY <2>3, <1>6
<1>10. ASSUME NEW k \in 4 * m + 1 .. 4 * m + 4 * b
       PROVE  Char(s \o t, Quad(k), Digit(k)) = base64_encode(t)[k - 4 * m]
  <2> DEFINE j == k - 4 * m
  <2>1. j \in Nat \ {0} /\ j \in 1 .. 4 * b /\ k = 4 * m + j
    BY <1>1, <1>2
  <2> HIDE DEF j
  <2>2. Quad(k) = m + Quad(j) /\ Digit(k) = Digit(j)
    BY Zenon, <2>1, <1>1, QuadLater
  <2>3. Char(s \o t, m + Quad(j), Digit(j)) = Char(t, Quad(j), Digit(j))
    <3>1. Quad(j) \in Nat /\ Digit(j) \in 0 .. 3
      BY Zenon, <2>1, QuadOf
    <3> QED BY Zenon, <3>1, <1>1, CharBehind
  <2>4. base64_encode(t)[j] = Char(t, Quad(j), Digit(j))
    BY <2>1, <1>7
  <2>5. base64_encode(t)[j] = base64_encode(t)[k - 4 * m]
    BY DEF j
  <2> QED BY Zenon, <2>2, <2>3, <2>4, <2>5
<1>11. 4 * (m + b) = 4 * m + 4 * b
  BY <1>1, <1>2
<1>12. ASSUME NEW k \in 1 .. 4 * m + 4 * b
       PROVE  Char(s \o t, Quad(k), Digit(k))
                = IF k <= 4 * m THEN base64_encode(s)[k] ELSE base64_encode(t)[k - 4 * m]
  <2>1. CASE k <= 4 * m
    BY <2>1, <1>1, <1>9
  <2>2. CASE ~(k <= 4 * m)
    <3>1. k \in 4 * m + 1 .. 4 * m + 4 * b
      BY <2>2, <1>1, <1>2
    <3> QED BY Zenon, <3>1, <2>2, <1>10
  <2> QED BY <2>1, <2>2
<1> QED BY Zenon, <1>5, <1>8, <1>11, <1>12

-----------------------------------------------------------------------------
(* In pieces *)

LEMMA EncodeNothing == base64_encode(<<>>) = <<>>
<1>1. <<>> \in Seq(Octets) /\ Len(<<>>) = 0
  OBVIOUS
<1>2. Blocks(0) = 0
  BY DEF Blocks
<1>3. base64_encode(<<>>) \in Seq(0 .. 64) /\ Len(base64_encode(<<>>)) = 4 * Blocks(0)
  BY Zenon, <1>1, EncodeType
<1>4. Len(base64_encode(<<>>)) = 0
  BY <1>2, <1>3
<1> QED BY <1>3, <1>4

LEMMA CutAt ==
  ASSUME NEW s \in Seq(Octets), NEW n \in 0 .. Len(s)
  PROVE  s = SubSeq(s, 1, n) \o SubSeq(s, n + 1, Len(s))
<1>1. 1 \in 1 .. Len(s) + 1 /\ n \in 1 - 1 .. Len(s) /\ Len(s) \in n .. Len(s)
  OBVIOUS
<1>2. SubSeq(s, 1, n) \o SubSeq(s, n + 1, Len(s)) = SubSeq(s, 1, Len(s))
  BY Zenon, <1>1, ConcatAdjacentSubSeq
<1> QED BY Zenon, <1>2, SubSeqFull

LEMMA Associative ==
  ASSUME NEW x \in Seq(Octets), NEW y \in Seq(Octets), NEW z \in Seq(Octets)
  PROVE  (x \o y) \o z = x \o (y \o z)
  BY ConcatAssociative

LEMMA AssociativeText ==
  ASSUME NEW x \in Seq(0 .. 64), NEW y \in Seq(0 .. 64), NEW z \in Seq(0 .. 64)
  PROVE  (x \o y) \o z = x \o (y \o z)
  BY ConcatAssociative

LEMMA Groups ==
  ASSUME NEW x \in Seq(Octets), NEW y \in Seq(Octets), Len(x) % 3 = 0, Len(y) % 3 = 0
  PROVE  x \o y \in Seq(Octets) /\ Len(x \o y) % 3 = 0
<1>1. x \o y \in Seq(Octets) /\ Len(x \o y) = Len(x) + Len(y)
  OBVIOUS
<1>2. \A i, j \in Nat : i % 3 = 0 /\ j % 3 = 0 => (i + j) % 3 = 0
  OBVIOUS
<1> QED BY <1>1, <1>2

\* What a piece is cut into.
LEMMA WholeAndRest ==
  ASSUME NEW s \in Seq(Octets)
  PROVE  /\ Whole(s) \in Seq(Octets) /\ Rest(s) \in Seq(Octets)
         /\ s = Whole(s) \o Rest(s)
         /\ Len(Whole(s)) % 3 = 0 /\ Len(Rest(s)) < 3
<1> DEFINE r == Len(s) % 3
           n == Len(s) - r
<1>1. r \in 0 .. 2 /\ n \in 0 .. Len(s) /\ n % 3 = 0
  OBVIOUS
<1> HIDE DEF r
<1>2. Whole(s) = SubSeq(s, 1, n) /\ Rest(s) = SubSeq(s, n + 1, Len(s))
  BY DEF Whole, Rest, r
<1>3. Len(s) - n = r
  BY <1>1
<1> HIDE DEF n
<1>4. /\ SubSeq(s, 1, n) \in Seq(Octets) /\ SubSeq(s, n + 1, Len(s)) \in Seq(Octets)
      /\ Len(SubSeq(s, 1, n)) = n /\ Len(SubSeq(s, n + 1, Len(s))) = Len(s) - n
  BY <1>1
<1>5. s = SubSeq(s, 1, n) \o SubSeq(s, n + 1, Len(s))
  BY <1>1, CutAt
<1>6. Len(Rest(s)) = r
  BY Zenon, <1>2, <1>3, <1>4
<1>7. Len(Rest(s)) < 3
  BY <1>1, <1>6
<1>8. Len(Whole(s)) % 3 = 0
  BY Zenon, <1>1, <1>2, <1>4
<1> QED BY Zenon, <1>2, <1>4, <1>5, <1>7, <1>8

\* What was written is the text of the whole groups of the input; the rest of it
\* waits in leftover.  A finish writes the rest.
Prefix(p) ==
  /\ p \in Seq(Octets) /\ Len(p) % 3 = 0
  /\ input = p \o leftover /\ text = base64_encode(p)

PiecesInv ==
  /\ leftover \in Seq(Octets) /\ Len(leftover) < 3
  /\ input \in Seq(Octets)
  /\ finished => leftover = <<>> /\ text = base64_encode(input)
  /\ ~finished => \E p : Prefix(p)

LEMMA PiecesStart == EncoderInit => PiecesInv
<1> SUFFICES ASSUME EncoderInit PROVE PiecesInv
  OBVIOUS
<1>1. <<>> \in Seq(Octets) /\ Len(<<>>) % 3 = 0 /\ <<>> \o <<>> = <<>>
  OBVIOUS
<1>2. Prefix(<<>>)
  BY Zenon, <1>1, EncodeNothing DEF Prefix, EncoderInit
<1> QED BY <1>1, <1>2 DEF PiecesInv, EncoderInit

LEMMA PiecesChunk ==
  ASSUME PiecesInv, NEW s \in Seq(Octets), base64_encode_chunk(s)
  PROVE  PiecesInv'
<1> DEFINE before == IF finished THEN <<>> ELSE text
           old == IF finished THEN <<>> ELSE input
<1>1. /\ leftover \in Seq(Octets) /\ Len(leftover) < 3 /\ Len(leftover) \in Nat
      /\ old \in Seq(Octets)
  BY DEF PiecesInv
<1>2. PICK p \in Seq(Octets) : /\ Len(p) % 3 = 0 /\ old = p \o leftover
                               /\ before = base64_encode(p)
  <2>1. CASE finished
    <3>1. <<>> \in Seq(Octets) /\ Len(<<>>) % 3 = 0 /\ <<>> \o <<>> = <<>>
      OBVIOUS
    <3>2. leftover = <<>> /\ old = <<>> /\ before = <<>>
      BY <2>1 DEF PiecesInv
    <3> QED BY Zenon, <3>1, <3>2, EncodeNothing
  <2>2. CASE ~finished
    BY Zenon, <2>2 DEF PiecesInv, Prefix
  <2> QED BY <2>1, <2>2
<1>3. input' = old \o s /\ finished' = FALSE
  BY DEF base64_encode_chunk, Feed
<1> HIDE DEF before, old
<1>4. input' = p \o (leftover \o s)
  BY Zenon, <1>1, <1>2, <1>3, Associative
<1>5. input' \in Seq(Octets)
  BY <1>1, <1>3
<1>6. ASSUME NEW q \in Seq(Octets), NEW r \in Seq(Octets), Len(q) % 3 = 0, Len(r) < 3,
             leftover \o s = q \o r, leftover' = r, text' = before \o base64_encode(q)
      PROVE  PiecesInv'
  <2>1. p \o q \in Seq(Octets) /\ Len(p \o q) % 3 = 0
    BY Zenon, <1>2, <1>6, Groups
  <2>2. input' = (p \o q) \o r
    <3>1. (p \o q) \o r = p \o (q \o r)
      BY Zenon, <1>2, <1>6, Associative
    <3> QED BY Zenon, <1>4, <1>6, <3>1
  <2>3. text' = base64_encode(p \o q)
    BY Zenon, <1>2, <1>6, EncodeParts
  <2>4. Prefix(p \o q)'
    BY Zenon, <2>1, <2>2, <2>3, <1>6 DEF Prefix
  <2> QED BY Zenon, <2>4, <1>3, <1>5, <1>6 DEF PiecesInv
<1>7. CASE leftover = <<>>
  <2>1. leftover' = Rest(s) /\ text' = before \o base64_encode(Whole(s))
    BY <1>7 DEF base64_encode_chunk, before
  <2>2. leftover \o s = s
    BY <1>7
  <2> QED BY Zenon, <2>1, <2>2, WholeAndRest, <1>6
<1> DEFINE to_copy == Min2(3 - Len(leftover), Len(s))
           filled == leftover \o SubSeq(s, 1, to_copy)
           rest == From(s, to_copy)
<1>8. /\ to_copy \in 0 .. Len(s) /\ to_copy <= 3 - Len(leftover)
      /\ to_copy = Len(s) \/ to_copy = 3 - Len(leftover)
  BY <1>1 DEF Min2
<1>9. /\ leftover # <<>> /\ Len(filled) < 3 => leftover' = filled /\ text' = before
      /\ leftover # <<>> /\ ~(Len(filled) < 3) =>
           /\ text' = before \o base64_encode(filled) \o base64_encode(Whole(rest))
           /\ leftover' = Rest(rest)
  BY DEF base64_encode_chunk, before
<1> HIDE DEF to_copy
<1> HIDE DEF rest
<1>10. filled \in Seq(Octets) /\ Len(filled) = Len(leftover) + to_copy
  BY <1>1, <1>8
<1> HIDE DEF filled
<1>11. /\ SubSeq(s, 1, to_copy) \in Seq(Octets) /\ rest \in Seq(Octets)
       /\ s = SubSeq(s, 1, to_copy) \o rest
  <2>1. s = SubSeq(s, 1, to_copy) \o SubSeq(s, to_copy + 1, Len(s))
    BY <1>8, CutAt
  <2>2. SubSeq(s, 1, to_copy) \in Seq(Octets) /\ SubSeq(s, to_copy + 1, Len(s)) \in Seq(Octets)
    BY <1>8
  <2> QED BY <2>1, <2>2 DEF From, rest
<1>12. leftover \o s = filled \o rest
  <2> DEFINE a == SubSeq(s, 1, to_copy)
  <2>1. a \in Seq(Octets) /\ rest \in Seq(Octets) /\ a \o rest = s
    BY Zenon, <1>11
  <2> HIDE DEF a
  <2>2. (leftover \o a) \o rest = leftover \o s
    <3>1. (leftover \o a) \o rest = leftover \o (a \o rest)
      <4>1. leftover \in Seq(Octets) /\ a \in Seq(Octets) /\ rest \in Seq(Octets)
        BY <1>1, <2>1
      <4> QED BY <4>1, Associative
    <3> QED BY Zenon, <2>1, <3>1
  <2> QED BY Zenon, <2>2 DEF filled, a
<1>13. ~(Len(filled) < 3) => Len(filled) = 3
  BY <1>1, <1>8, <1>10
<1>14. Len(filled) < 3 => filled = leftover \o s
  <2> SUFFICES ASSUME Len(filled) < 3 PROVE filled = leftover \o s
    OBVIOUS
  <2>1. to_copy = Len(s)
    BY <1>1, <1>8, <1>10
  <2>2. SubSeq(s, 1, to_copy) = s
    BY <2>1
  <2> QED BY <2>2 DEF filled
<1>15. CASE leftover # <<>> /\ Len(filled) < 3
  <2>1. <<>> \in Seq(Octets) /\ Len(<<>>) % 3 = 0 /\ leftover \o s = <<>> \o filled
    BY <1>10, <1>14, <1>15
  <2>2. base64_encode(p) \in Seq(0 .. 64)
    BY Zenon, <1>2, EncodeType
  <2>3. before \o base64_encode(<<>>) = before
    BY <2>2, <1>2, EncodeNothing
  <2> QED BY Zenon, <2>1, <2>3, <1>6, <1>9, <1>10, <1>15
<1>16. CASE leftover # <<>> /\ ~(Len(filled) < 3)
  <2>1. /\ Whole(rest) \in Seq(Octets) /\ Rest(rest) \in Seq(Octets)
        /\ rest = Whole(rest) \o Rest(rest)
        /\ Len(Whole(rest)) % 3 = 0 /\ Len(Rest(rest)) < 3
    BY Zenon, <1>11, WholeAndRest
  <2>2. Len(filled) % 3 = 0
    <3>1. Len(filled) = 3
      BY Zenon, <1>13, <1>16
    <3> QED BY <3>1
  <2>3. filled \o Whole(rest) \in Seq(Octets) /\ Len(filled \o Whole(rest)) % 3 = 0
    BY Zenon, <1>10, <2>1, <2>2, Groups
  <2>4. leftover \o s = (filled \o Whole(rest)) \o Rest(rest)
    <3>1. filled \o (Whole(rest) \o Rest(rest)) = (filled \o Whole(rest)) \o Rest(rest)
      BY Zenon, <1>10, <2>1, Associative
    <3> QED BY Zenon, <3>1, <2>1, <1>12
  <2>5. text' = before \o base64_encode(filled \o Whole(rest))
    <3>1. base64_encode(filled \o Whole(rest)) = base64_encode(filled) \o base64_encode(Whole(rest))
      BY Zenon, <1>10, <2>1, <2>2, EncodeParts
    <3>2. /\ base64_encode(p) \in Seq(0 .. 64)
          /\ base64_encode(filled) \in Seq(0 .. 64)
          /\ base64_encode(Whole(rest)) \in Seq(0 .. 64)
      BY Zenon, <1>2, <1>10, <2>1, EncodeType
    <3>3. before \o (base64_encode(filled) \o base64_encode(Whole(rest)))
            = before \o base64_encode(filled) \o base64_encode(Whole(rest))
      BY Zenon, <3>2, <1>2, AssociativeText
    <3> QED BY Zenon, <3>1, <3>3, <1>9, <1>16
  <2>6. leftover' = Rest(rest)
    BY <1>9, <1>16
  <2> QED BY Zenon, <1>6, <2>1, <2>3, <2>4, <2>5, <2>6
<1> QED BY <1>7, <1>15, <1>16

LEMMA PiecesFinish == ASSUME PiecesInv, base64_encode_finish PROVE PiecesInv'
<1>1. PICK p : Prefix(p)
  BY Zenon DEF PiecesInv, base64_encode_finish
<1>2. base64_encode(input) = base64_encode(p) \o base64_encode(leftover)
  BY Zenon, <1>1, EncodeParts DEF Prefix, PiecesInv
<1>3. text' = base64_encode(input)
  BY Zenon, <1>1, <1>2 DEF Prefix, base64_encode_finish
<1> QED BY <1>3 DEF PiecesInv, base64_encode_finish

LEMMA PiecesInvariant ==
  ASSUME Bytes \subseteq 0 .. 255, MaxPiece \in Nat
  PROVE  EncoderSpec => []PiecesInv
<1>1. ASSUME PiecesInv, [EncoderNext]_encoder PROVE PiecesInv'
  <2>1. ASSUME NEW n \in 0 .. MaxPiece, NEW s \in [1 .. n -> Bytes], base64_encode_chunk(s)
        PROVE  PiecesInv'
    <3>1. s \in Seq(Octets)
      <4>1. n \in Nat
        OBVIOUS
      <4>2. s \in Seq(Bytes)
        BY <4>1
      <4>3. Bytes \subseteq Octets
        BY DEF Octets
      <4> QED BY Zenon, <4>2, <4>3, SeqMonotonic
    <3> QED BY Zenon, <1>1, <2>1, <3>1, PiecesChunk
  <2>2. CASE UNCHANGED encoder
    <3>1. /\ leftover' = leftover /\ text' = text /\ input' = input
          /\ finished' = finished
      BY <2>2 DEF encoder
    <3> QED BY Zenon, <1>1, <3>1 DEF PiecesInv, Prefix
  <2> QED BY Zenon, <1>1, <2>1, <2>2, PiecesFinish DEF EncoderNext
<1> QED BY PiecesStart, <1>1, PTL DEF EncoderSpec

\* However an input is cut into pieces, of whatever length, what was written and
\* what is left over are together the text of the whole
\* (at_base64_lib.cpp:126-167).
THEOREM PiecesWhole ==
  ASSUME Bytes \subseteq 0 .. 255, MaxPiece \in Nat
  PROVE  EncoderSpec => []PiecesMakeTheWhole
<1>1. ASSUME PiecesInv PROVE PiecesMakeTheWhole
  <2>1. CASE ~finished
    <3>1. PICK p : Prefix(p)
      BY Zenon, <1>1, <2>1 DEF PiecesInv
    <3> QED BY Zenon, <1>1, <3>1, EncodeParts DEF Prefix, PiecesInv, PiecesMakeTheWhole
  <2>2. CASE finished
    <3>1. leftover = <<>> /\ text = base64_encode(input) /\ input \in Seq(Octets)
      BY <1>1, <2>2 DEF PiecesInv
    <3>2. base64_encode(input) \in Seq(0 .. 64)
      BY Zenon, <3>1, EncodeType
    <3>3. base64_encode(input) \o <<>> = base64_encode(input)
      BY <3>2
    <3> QED BY Zenon, <3>1, <3>3, EncodeNothing DEF PiecesMakeTheWhole
  <2> QED BY <2>1, <2>2
<1> QED BY PiecesInvariant, <1>1, PTL

-----------------------------------------------------------------------------
(* And back *)

\* The characters of a text that are not padding.
Length(n) == 4 * (n \div 3) + (IF n % 3 = 0 THEN 0 ELSE (n % 3) + 1)

LEMMA LengthIs ==
  ASSUME NEW n \in Nat
  PROVE  /\ Length(n) \in 0 .. 4 * Blocks(n)
         /\ \A g \in Nat, q \in 0 .. 3 :
              g < Blocks(n) => (q <= n - 3 * g <=> 4 * g + q + 1 <= Length(n))
<1> DEFINE m == n \div 3
           r == n % 3
<1>1. m \in Nat /\ r \in 0 .. 2 /\ n = 3 * m + r
  OBVIOUS
<1>2. Length(n) = 4 * m + (IF r = 0 THEN 0 ELSE r + 1)
  BY DEF Length
<1> HIDE DEF m, r
<1>3. Blocks(n) = m + (IF r = 0 THEN 0 ELSE 1)
  BY <1>1 DEF Blocks
<1>4. Length(n) \in 0 .. 4 * Blocks(n)
  BY <1>1, <1>2, <1>3
<1>5. ASSUME NEW g \in Nat, NEW q \in 0 .. 3, g < Blocks(n)
      PROVE  q <= n - 3 * g <=> 4 * g + q + 1 <= Length(n)
  BY <1>1, <1>2, <1>3, <1>5
<1> QED BY <1>4, <1>5

\* base64_decode stops where the padding begins.
LEMMA CleanIs ==
  ASSUME NEW s \in Seq(Octets)
  PROVE  Clean(base64_encode(s)) = Length(Len(s))
<1> DEFINE t == base64_encode(s)
           n == Length(Len(s))
           b == Blocks(Len(s))
           stops == {k \in 1 .. Len(t) : t[k] = Pad}
<1>1. Len(s) \in Nat /\ b \in Nat /\ n \in 0 .. 4 * b
  <2>1. Len(s) \in Nat
    OBVIOUS
  <2> QED BY Zenon, <2>1, BlocksOf, LengthIs
<1>2. Len(t) = 4 * b
  BY Zenon, EncodeType
<1>3. ASSUME NEW k \in 1 .. 4 * b PROVE t[k] = Pad <=> k > n
  <2>1. k \in Nat \ {0} /\ k <= 4 * b
    BY <1>1
  <2>2. Quad(k) \in Nat /\ Digit(k) \in 0 .. 3 /\ k = 4 * Quad(k) + Digit(k) + 1
    BY Zenon, <2>1, QuadOf
  <2>3. t[k] = Char(s, Quad(k), Digit(k))
    <3> HIDE DEF b
    <3>1. t = [j \in 1 .. 4 * b |-> Char(s, Quad(j), Digit(j))]
      BY Zenon, EncodeIs DEF b
    <3> HIDE DEF t
    <3> QED BY <3>1
  <2>4. Quad(k) < b
    BY <2>1, <2>2, <1>1
  <2>5. Digit(k) <= Len(s) - 3 * Quad(k) <=> 4 * Quad(k) + Digit(k) + 1 <= n
    BY Zenon, <1>1, <2>2, <2>4, LengthIs
  <2>6. Digit(k) <= Len(s) - 3 * Quad(k) <=> k <= n
    BY Zenon, <2>5, <2>2
  <2>7. Sextet(Group(s, Quad(k)), Digit(k)) \in 0 .. 63
    BY Zenon, <2>2, GroupIs, SextetIs
  <2> HIDE DEF t, n
  <2>8. CASE k <= n
    <3>1. t[k] = Sextet(Group(s, Quad(k)), Digit(k))
      BY Zenon, <2>3, <2>6, <2>8 DEF Char
    <3>2. t[k] \in 0 .. 63
      BY Zenon, <2>7, <3>1
    <3> DEFINE v == t[k]
    <3>3. v \in 0 .. 63
      BY <3>2
    <3> HIDE DEF v
    <3>4. v # 64
      BY <3>3
    <3>5. ~(k > n)
      BY <1>1, <2>1, <2>8
    <3> QED BY Zenon, <3>4, <3>5 DEF Pad, v
  <2>9. CASE ~(k <= n)
    BY <2>3, <2>6, <2>9, <1>1 DEF Char
  <2> QED BY <2>8, <2>9, <1>1
<1> HIDE DEF t, n, b
<1>4. stops = n + 1 .. 4 * b
  BY <1>1, <1>2, <1>3
<1>5. Clean(t) = IF stops = {} THEN Len(t) ELSE (CHOOSE k \in stops : \A j \in stops : k <= j) - 1
  BY DEF Clean
<1>6. CASE n = 4 * b
  BY <1>1, <1>2, <1>4, <1>5, <1>6 DEF t, n
<1>7. CASE n < 4 * b
  <2>1. n + 1 \in stops /\ \A j \in stops : n + 1 <= j
    BY <1>1, <1>4, <1>7
  <2>2. \A k \in stops : (\A j \in stops : k <= j) => k = n + 1
    BY <1>1, <1>4, <2>1
  <2> HIDE DEF stops
  <2> DEFINE first == CHOOSE k \in stops : \A j \in stops : k <= j
  <2>3. first = n + 1
    BY Zenon, <2>1, <2>2
  <2>4. stops # {}
    BY <2>1
  <2>5. Clean(t) = first - 1
    BY Zenon, <1>5, <2>4
  <2> HIDE DEF first
  <2>6. Clean(t) = n
    BY <1>1, <2>3, <2>5
  <2> QED BY Zenon, <2>6 DEF t, n
<1> QED BY <1>1, <1>6, <1>7

\* A byte is the same after its bits were spread over two characters.
LEMMA BitsKept ==
  ASSUME NEW x \in Octets, NEW y \in Octets, NEW z \in Octets
  PROVE  /\ ((x \div 4) * 4 + ((((x % 4) * 16 + (y \div 16)) \div 16) % 4)) % 256 = x
         /\ ((((x % 4) * 16 + (y \div 16)) % 16) * 16
               + ((((y % 16) * 4 + (z \div 64)) \div 4) % 16)) % 256 = y
         /\ ((((y % 16) * 4 + (z \div 64)) % 4) * 64 + (z % 64)) % 256 = z
<1>0. x \in 0 .. 255 /\ y \in 0 .. 255 /\ z \in 0 .. 255
  BY Zenon DEF Octets
<1> DEFINE a == x % 4
           b == y \div 16
           c == y % 16
           d == z \div 64
           e == z % 64
           f == x \div 4
<1>1. a \in 0 .. 3 /\ f \in 0 .. 63 /\ f * 4 + a = x
  BY <1>0
<1>2. b \in 0 .. 15 /\ c \in 0 .. 15 /\ b * 16 + c = y
  BY <1>0
<1>3. d \in 0 .. 3 /\ e \in 0 .. 63 /\ d * 64 + e = z
  BY <1>0
<1> HIDE DEF a, b, c, d, e, f
<1>4. ((a * 16 + b) \div 16) % 4 = a
  BY <1>1, <1>2
<1>5. (a * 16 + b) % 16 = b
  BY <1>1, <1>2
<1>6. ((c * 4 + d) \div 4) % 16 = c
  BY <1>2, <1>3
<1>7. (c * 4 + d) % 4 = d
  BY <1>2, <1>3
<1>8. x % 256 = x /\ y % 256 = y /\ z % 256 = z
  BY <1>0
<1>9. (f * 4 + (((a * 16 + b) \div 16) % 4)) % 256 = x
  BY <1>1, <1>4, <1>8
<1>10. (((a * 16 + b) % 16) * 16 + (((c * 4 + d) \div 4) % 16)) % 256 = y
  BY <1>2, <1>5, <1>6, <1>8
<1>11. (((c * 4 + d) % 4) * 64 + e) % 256 = z
  BY Zenon, <1>3, <1>7, <1>8
<1> QED BY Zenon, <1>9, <1>10, <1>11 DEF a, b, c, d, e, f

\* Byte q of group g, from the characters of that group.
LEMMA OctetIs ==
  ASSUME NEW s \in Seq(Octets), NEW g \in Nat, NEW q \in 0 .. 2, 3 * g + q + 1 <= Len(s)
  PROVE  Octet([i \in 1 .. 4 |-> Value(base64_encode(s), Length(Len(s)), g, i)], q)
           = s[3 * g + q + 1]
<1> DEFINE t == base64_encode(s)
           n == Length(Len(s))
           b == Blocks(Len(s))
           c == [i \in 1 .. 4 |-> Value(t, n, g, i)]
           u == Group(s, g)
<1>1. Len(s) \in Nat /\ b \in Nat /\ 3 * b >= Len(s) /\ n \in 0 .. 4 * b
  <2>1. Len(s) \in Nat
    OBVIOUS
  <2> QED BY Zenon, <2>1, BlocksOf, LengthIs
<1>2. g < b
  <2> HIDE DEF b
  <2> QED BY <1>1
<1>3. ASSUME NEW i \in 1 .. 4, i <= q + 2 PROVE c[i] = Sextet(u, i - 1)
  <2> DEFINE k == 4 * g + i
             d == i - 1
  <2>1. d \in 0 .. 3 /\ k = 4 * g + d + 1 /\ d <= Len(s) - 3 * g
    BY <1>1, <1>3
  <2>2. k <= n
    <3> HIDE DEF d, k, n, b
    <3>1. d <= Len(s) - 3 * g <=> 4 * g + d + 1 <= Length(Len(s))
      BY Zenon, <1>1, <1>2, <2>1, LengthIs DEF b
    <3> QED BY Zenon, <2>1, <3>1 DEF n
  <2>3. k \in 1 .. 4 * b
    <3> HIDE DEF n, b
    <3> QED BY <1>1, <2>2
  <2>4. Quad(k) = g /\ Digit(k) = d
    <3>1. Quad(4 * g + i) = g + Quad(i) /\ Digit(4 * g + i) = Digit(i)
      <4>1. i \in Nat \ {0}
        OBVIOUS
      <4> QED BY Zenon, <4>1, QuadLater
    <3>2. Quad(i) = 0 /\ Digit(i) = i - 1
      BY DEF Quad, Digit
    <3> QED BY <3>1, <3>2
  <2>5. t[k] = Char(s, g, d)
    <3> HIDE DEF b, k, d
    <3>1. t = [j \in 1 .. 4 * b |-> Char(s, Quad(j), Digit(j))]
      BY Zenon, EncodeIs DEF b
    <3> HIDE DEF t
    <3> QED BY <3>1, <2>3, <2>4
  <2>6. Char(s, g, d) = Sextet(u, d)
    BY <2>1 DEF Char
  <2>7. c[i] = t[k]
    <3> HIDE DEF t, n
    <3> QED BY <2>2 DEF Value
  <2> QED BY Zenon, <2>5, <2>6, <2>7
<1>4. u \in [1 .. 3 -> Octets]
  BY Zenon, GroupIs
<1>5. u[q + 1] = s[3 * g + q + 1]
  BY DEF Group
<1> HIDE DEF c, u
<1> DEFINE x == u[1]
           y == u[2]
           z == u[3]
<1>6. x \in Octets /\ y \in Octets /\ z \in Octets
  BY <1>4
<1>7. /\ Sextet(u, 0) = x \div 4
      /\ Sextet(u, 1) = (x % 4) * 16 + (y \div 16)
      /\ Sextet(u, 2) = (y % 16) * 4 + (z \div 64)
      /\ Sextet(u, 3) = z % 64
  BY DEF Sextet
<1>8. /\ c[1] = Sextet(u, 0) /\ c[2] = Sextet(u, 1)
      /\ q >= 1 => c[3] = Sextet(u, 2)
      /\ q >= 2 => c[4] = Sextet(u, 3)
  BY <1>3
<1> HIDE DEF x, y, z
<1>9. /\ ((x \div 4) * 4 + ((((x % 4) * 16 + (y \div 16)) \div 16) % 4)) % 256 = x
      /\ ((((x % 4) * 16 + (y \div 16)) % 16) * 16
               + ((((y % 16) * 4 + (z \div 64)) \div 4) % 16)) % 256 = y
      /\ ((((y % 16) * 4 + (z \div 64)) % 4) * 64 + (z % 64)) % 256 = z
  BY <1>6, BitsKept
<1>10. CASE q = 0
  <2>1. Octet(c, q) = (c[1] * 4 + ((c[2] \div 16) % 4)) % 256
    BY <1>10 DEF Octet
  <2>2. c[1] = x \div 4 /\ c[2] = (x % 4) * 16 + (y \div 16)
    BY Zenon, <1>7, <1>8
  <2>3. Octet(c, q) = x
    BY <2>1, <2>2, <1>9
  <2> QED BY <2>3, <1>5, <1>10 DEF x, c, t, n
<1>11. CASE q = 1
  <2>1. Octet(c, q) = ((c[2] % 16) * 16 + ((c[3] \div 4) % 16)) % 256
    BY <1>11 DEF Octet
  <2>2. c[3] = Sextet(u, 2)
    BY <1>8, <1>11
  <2>3. c[2] = (x % 4) * 16 + (y \div 16) /\ c[3] = (y % 16) * 4 + (z \div 64)
    BY Zenon, <1>7, <1>8, <2>2
  <2>4. Octet(c, q) = y
    BY Zenon, <2>1, <2>3, <1>9
  <2> QED BY <2>4, <1>5, <1>11 DEF y, c, t, n
<1>12. CASE q = 2
  <2>1. Octet(c, q) = ((c[3] % 4) * 64 + c[4]) % 256
    BY <1>12 DEF Octet
  <2>2. c[3] = Sextet(u, 2) /\ c[4] = Sextet(u, 3)
    BY <1>8, <1>12
  <2>3. c[3] = (y % 16) * 4 + (z \div 64) /\ c[4] = z % 64
    BY Zenon, <1>7, <2>2
  <2>4. Octet(c, q) = z
    BY Zenon, <2>1, <2>3, <1>9
  <2> QED BY <2>4, <1>5, <1>12 DEF z, c, t, n
<1> QED BY <1>10, <1>11, <1>12

LEMMA DecodeEncode ==
  ASSUME NEW s \in Seq(Octets)
  PROVE  base64_decode(base64_encode(s)) = s
<1> DEFINE t == base64_encode(s)
           n == Length(Len(s))
           tail == n % 4
           f == [k \in 1 .. Len(s) |->
                   Octet([i \in 1 .. 4 |-> Value(t, n, (k - 1) \div 3, i)], (k - 1) % 3)]
<1>1. Len(s) \in Nat
  OBVIOUS
<1>2. 3 * (n \div 4) + (IF tail = 0 THEN 0 ELSE tail - 1) = Len(s)
  <2> DEFINE m == Len(s) \div 3
             r == Len(s) % 3
  <2>1. m \in Nat /\ r \in 0 .. 2 /\ Len(s) = 3 * m + r
    BY <1>1
  <2>2. n = 4 * m + (IF r = 0 THEN 0 ELSE r + 1)
    BY DEF Length
  <2> HIDE DEF m, r, n
  <2>3. n \div 4 = m /\ n % 4 = IF r = 0 THEN 0 ELSE r + 1
    BY <2>1, <2>2
  <2> QED BY <2>1, <2>3
<1>3. base64_decode(t) = f
  <2>1. Clean(t) = n
    BY Zenon, CleanIs
  <2> HIDE DEF t, n
  <2>2. base64_decode(t)
          = [k \in 1 .. 3 * (n \div 4) + (IF tail = 0 THEN 0 ELSE tail - 1) |->
               Octet([i \in 1 .. 4 |-> Value(t, n, (k - 1) \div 3, i)], (k - 1) % 3)]
    BY <2>1 DEF base64_decode
  <2> QED BY Zenon, <2>2, <1>2
<1>4. ASSUME NEW k \in 1 .. Len(s) PROVE f[k] = s[k]
  <2> DEFINE g == (k - 1) \div 3
             q == (k - 1) % 3
  <2>1. g \in Nat /\ q \in 0 .. 2 /\ 3 * g + q + 1 = k /\ 3 * g + q + 1 <= Len(s)
    BY <1>1
  <2>2. f[k] = Octet([i \in 1 .. 4 |-> Value(t, n, g, i)], q)
    <3> HIDE DEF t, n
    <3> QED OBVIOUS
  <2> HIDE DEF g, q
  <2>3. Octet([i \in 1 .. 4 |-> Value(t, n, g, i)], q) = s[3 * g + q + 1]
    BY Zenon, <2>1, OctetIs
  <2> QED BY Zenon, <2>1, <2>2, <2>3
<1>5. s = [k \in 1 .. Len(s) |-> s[k]]
  OBVIOUS
<1>6. f = [k \in 1 .. Len(s) |-> f[k]]
  OBVIOUS
<1> HIDE DEF f
<1>7. f = s
  BY Zenon, <1>4, <1>5, <1>6
<1> QED BY Zenon, <1>3, <1>7

\* A finished text is read back as the input it was made of, whatever the input
\* and however it was cut into pieces (at_base64_lib.cpp:126-167, 231-270).
THEOREM ReadBack ==
  ASSUME Bytes \subseteq 0 .. 255, MaxPiece \in Nat
  PROVE  EncoderSpec => []RoundTrip
<1>1. ASSUME PiecesInv PROVE RoundTrip
  BY Zenon, <1>1, DecodeEncode DEF PiecesInv, RoundTrip
<1> QED BY PiecesInvariant, <1>1, PTL
=============================================================================
