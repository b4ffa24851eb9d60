# Verification of the Edge Impulse firmware for Ambiq Apollo4

TLA+ models of the firmware in `src/src/`, model-checked with TLC on small
instances, and theorems about them that TLAPS checks for every value of the
constants. `PROJECT.json` maps each definition to the lines it models, and
lists the runs, the mutants that show each property can fail, the hazards and
the theorems. Paths below are relative to `src/src/`.

## The system

The firmware records audio and pictures for the Edge Impulse studio and runs a
classifier on the audio. It is driven over USB with AT commands. Three threads
of different priority, two sets of interrupts and one command interpreter:

| Thread | Priority | What it does |
| --- | --- | --- |
| FreeRTOS timer daemon | 3 | sets the event bits that interrupt handlers ask for |
| `usb_task` (`peripheral/usb/ei_usb.c`) | 3 | finds out how far the receive buffer is filled, wakes the main task |
| main task (`ei_main.cpp`) | 2 | takes bytes out, feeds the AT server, executes commands to their end (a stream of snapshots has none until a 'b' is found on the port) |
| inference task (`inference_task.cpp`) | 1 | `ei_run_impulse` for ever, while the others sleep |

Scheduling is preemptive with fixed priorities and without time slicing
(`FreeRTOSConfig.h`); a delay inside a command (`ei_sleep`) is a busy wait.

### Components

| Component | State | Operations | What makes it correct |
| --- | --- | --- | --- |
| USB receive path (`ei_usb.c`, loop of `ei_main.cpp`) | buffer, two indices, `_is_clear`, event bits | interrupt, `usb_local_read`, `ei_get_serial_byte` | bytes arrive once, in order, unaltered; no wake-up lost; the main task sleeps again, and the keys that break an inference or a stream get through |
| Line editor (`at-server/ei_at_server.cpp`, `ei_line_buffer.h`, `ei_at_history.h`) | line, position, history, escape sequence | `handle(byte)` | the screen shows the line that will be executed; positions legal; history newest |
| AT server (`ei_at_server.cpp`, `ei_at_parser.cpp`) | vector of commands | register, replace handlers, parse, execute | the right handler, with its arguments, for every form of request |
| Audio frames (`sensor/ei_mic.cpp`) | double buffer, `g_bufsel`, two flags | interrupt, `ei_mic_thread` | frames in order, whole, none twice |
| Audio inference (`inference/`, `ei_mic.cpp`) | `state`, sample buffers, converter | start, stop, `ei_run_impulse` | buffers neither leaked nor misused; full buffers; a stop is final; results come |
| Continuous classification (SDK, `ei_run_classifier.h`, `ei_run_dsp.h`) | frame begun in the last slice, window of features, how much of it was written | init, one slice, a failure on the way | what is printed was computed on a whole window of consecutive frames |
| Sample memory (`ei_device_memory.h`, `ei_mic.cpp`, `ei_device_lib.cpp`) | RAM disk: configuration, then one recording | save, record, AT+READBUFFER | nothing outside; recording and configuration intact; what is announced is sent |
| Recorded document (`sensor_aq.cpp`, `ei_mic.cpp`) | CBOR header, samples, end mark | create header, write a sample, finish | what is announced is one document that holds the recording's samples |
| Base64 (`at_base64_lib.cpp`) | left-over bytes between pieces | encode, chunk, finish | pieces make the text of the whole |
| Camera (`sensor/ei_camera.cpp`, `ei_image_lib.cpp`) | mode, two flags, buffers | init, capture, snapshot, stream | the picture sent is the one just taken, at a listed size; commands end |
| Configuration (`ei_device_info_lib.h`) | fields and their stored copy | setters, save, load, clear | stored copy = fields |
| Handlers (`ei_at_handlers.cpp`) | none | one per AT command | the above, driven together |

Interaction is by calls from the main task into everything else, by event
groups from interrupt to `usb_task` to main task, by plain shared variables
between main and inference task (`state`, `inference`, `g_audioRecording`) and
between audio or camera interrupt and its thread.

Hard behaviour, and where it is modelled: preemption at any step (`UsbSerial`,
`AudioImpulse`), interrupts inside a non-atomic read-modify-write
(`MicFrames`), wake-ups that come before the sleep (`Camera`, `UsbSerial`),
failing allocations and devices (`AudioImpulse`, `SampleMemory`, `Camera`),
unsigned arithmetic (`SampleMemory`), and long sequences of keys and commands
(`CommandLine`, `AtServer`), and counters that meet at boundaries nobody tested
(`ContinuousClassifier`, `Base64`, `Recording`). Nothing outlives a reset: the
"flash" is RAM.

## Modules

- **SerialChannel** - what the serial link promises: each position of the
  stream at most once, in order; lossy channels may blank a byte.
- **UsbSerial** - `my_rx_ff_buf`, `g_rx_index`, `g_uart_rx_read_index`,
  `is_clear` and the chain of events. `UsbInterrupt` is the library's store and
  `ei_usb_rx_cb`; `UsbWake`, `UsbScan`, `UsbScanEnd`, `UsbSignal`,
  `UsbDelayOver` are `usb_task`; `MainWake`, `ReadByte`, `BeginClear`,
  `ClearCell`, `EndClear`, `ReadNothing` are the loop around
  `ei_get_serial_byte`, its `memset` one cell at a time. A step of the main
  task needs `~HigherReady`. The host sends at any moment; `unruly` records that
  it once sent while the firmware was busy with earlier bytes, or sent something
  that is not text. `ei_get_serial_byte` has two callers, the loop, which sleeps
  when it is given nothing (`GotNothing`), and a command that looks for a key,
  which does not; which one is reading is left open here. It implements
  `SerialChannel`, lossy from the first unruly byte.
- **MainLoop** (extends `UsbSerial`) - what `ei_main_task` does with each byte it
  is handed: `in_rx_loop`, the break key, which counts only as the first byte
  after a wake-up, and the enter key (`Handled`), which may start an inference or
  a stream of snapshots. In a stream (`streaming`) the main task stays in the
  handler: `StreamReadsByte` is its own look at the keys, through the same buffer
  and the same wipe, and nothing else is read. `break_due` and `stop_due`
  remember which byte was pressed as a break of an inference and as the end of a
  stream. Every other command is taken to end; for a single snapshot that rests on
  a camera that answers.
- **MicFrames** - `audio_frame_callback` against `ei_mic_thread`, whose
  `g_bufsel ^= 1` is a load and a store and whose callback reads a half from
  front to back. `late` records that a frame came before the thread was done
  with the one before.
- **AudioImpulse** - `ei_run_impulse` cut at its assignments to shared state
  (`Switch`, `Reset`, `Record`, `PollFrame`, `Copy`, `Leave`, `Classify`,
  `Report`); a command of the main task is one step between any two of them,
  because the main task has the higher priority and does not block in one.
  Creating the task may fail (`inference_task_start`). Snapshot commands are
  the ones that take time, perhaps for ever: while `snapping` is true neither the
  inference task (`Inferring`) nor another command (`MainTask`) takes a step.
  `rude` records a stop in the middle of a call, or a start or a sampling
  during an inference. `Classify` hands the slice to `ContinuousClassifier`.
- **ContinuousClassifier** - `run_classifier_continuous` as it streams: a slice is
  cut into frames, each a stride behind the last; the frame that straddles two
  slices is kept; the window of features is rolled and its newest rows are
  rewritten; the count of what was written decides whether there is a
  result. A sample is its place in the recording and the features of a frame are
  the samples they came from, so that a frame lost, repeated or out of place
  where two slices meet shows in the window. A failure may come before the
  features or half-way through.
- **SampleMemory** - `EiDeviceRAM` with addresses modulo `Word`, the layout of
  `EiDeviceMemory`, `ei_microphone_sample_start` frame by frame and
  `read_encode_send_sample_buffer` chunk by chunk. A byte is named by what it
  belongs to, so that a misplaced one is noticed.
- **SensorAq** - the CBOR document of `sensor_aq_init`, how `create_header` opens
  its list of values, and the three bytes and a head of each sample, with the
  arithmetic of `write_value_to_cbor_buffer` on 16-bit numbers.
- **Recording** (extends `SampleMemory` and `SensorAq`) - puts the bytes of the
  document in the places of the memory, and decodes what AT+READBUFFER sends
  as a reader of CBOR would.
- **Base64** - sextets, padding, and the bytes kept between pieces; its
  specification is `EncoderSpec`. It is proved about and not run: nothing on this
  board encodes in pieces or decodes.
- **Camera** - `init`, the two waits around `__WFI`, both interrupt handlers,
  the snapshot and stream commands and the boot's `init(160, 160)`. A stream
  looks at the keys one at a time between two pictures, and a key may be read as
  NUL, as when the wipe of `ei_get_serial_byte` met it. `source` of the picture is
  the resolution it was taken at: a size that is not listed gets through if the
  boot's `init` failed, and the picture is resized to it.
- **CommandLine** - `ATServer::handle` key by key, the line buffer and the
  history, and a VT100 line as its counterpart (external).
- **AtTable / AtServer** - a plain table of commands, and the vector and parser
  that implement it. The table remembers what the last line `asked` for and answers
  just that; it refuses a line only if that asks for nothing, or names no
  registered command. A line is made of pieces ("AT+", a word such as a
  name, a blank, "?", "=", a comma), not of letters: a word is whatever the parser
  does not look for. `IsRequest` and `AsksNothing` say what a request and a line
  without one are; `Typed` are the ways to type a request.
- **Settings / DeviceConfig** - commands on the settings as the host sees them,
  and the setters that implement them one by one: each saves the whole
  configuration, a save may fail, a word that is no number throws, a reset may
  come in between. A text is its length. `AT+SAMPLESTART`'s number of samples is
  computed with the float conversion's corner cases.

`MC_*` give the constants of the runs; `*Proofs` hold the theorems. Every module
writes recursion as a recursive function or a fold. `Recording`'s decoder goes
from one cell to the next with a stack of the items that are open (`Decode`,
`Opened`), which needs no recursion over nested items.

## Runs

| Run | What it shows | Bounds, and why they are enough |
| --- | --- | --- |
| `usb_link` | indices in order, no lost wake-up, nothing unread wiped unless the host was unruly, `SerialChannel`, the main task sleeps again unless it is in a stream, a break stops the inference, a 'b' ends the stream | 3 bytes ('b', enter, NUL, 0xFF) into 4 cells: several events, wipes with bytes before and after, an overflowing daemon queue (2), and an enter, its 'b' and one byte more |
| `mic_any` | no old frame, announced frames are new; whole consecutive frames when the thread keeps up | 12 frames, sessions of 2 skipped + 3 used: two sessions and frames between them |
| `audio_commands` | buffers safe and not leaked, full buffers, whole windows in what is printed, reports | slices of 3, converter frames of 2, feature frames of 3 with a stride of 2, 2 slices a window: a converter frame ends inside, at the end of and across a slice, a feature frame inside and across one; 2 starts, all five failures, a snapshot anywhere in an inference |
| `audio_stop` (violation) | a stop is undone by the inference task | the same |
| `cli_keys` | positions, history, screen | lines of 2, history of 2, 4 entered: the history overflows |
| `cli_blank` (violation) | a blank line aborts the firmware | the same, lines of 3 |
| `memory_fits` | inside, configuration and recording intact, what is announced is one complete document with a number of the right sign for each sample, and the sample itself where it is not negative | 72 bytes: configuration of 2 blocks of 12, the header's real items, chunks of 6 that leave a shorter last piece, samples from both ends of the range and both signs, recordings that fill the memory exactly |
| `memory_over` (violation) | a longer recording leaves the memory | one frame more |
| `memory_values` (violation) | a negative sample is read back one less than it was recorded | the same as `memory_fits` |
| `camera_shots` | fresh pictures, listed sizes; a snapshot ends, a stream looks at the keys after every picture | 4 sizes, one unlisted; 3 picture numbers, reused |
| `settings` | commands on settings are whole, the stored copy catches up, recordings within the announced limits fit | the firmware's sizes (5 s, 16 kHz, 393216 bytes; words of 2^20, beyond all of them), 3 commands per run with resets anywhere; numbers 0, negative, too long and malformed |
| `at_server` | no hidden command; implements `AtTable`: each line gets the answer to what it asks | 3 names, 3 registrations: replace, re-register, replace again |

Deadlock is not checked where the bounded host, user or converter runs out of
input; it is in `camera_shots`, `at_server` and `settings`, which have no last step.

### Fairness

- `UsbSerial`: weak fairness of daemon, `usb_task` and main task. A thread that
  stays the highest ready one runs; nothing is assumed of the host. The main task
  stays ready all through a stream, which never ends by itself; that a picture in
  it, or a snapshot, comes to an end is the fairness of `Camera`.
- `AudioImpulse`: weak fairness of the converter (while it is on), of time, and
  of the inference task whenever the main task is not in a snapshot command.
  `MainSleepsAgain` of `usb_link` is what that rests on: the main task of higher
  priority gets back to sleep unless it is in a stream. Of the handlers of
  snapshots nothing is assumed, not even that they return: `ReportsOrStops`
  promises a result only of an inference that none of them interrupts, and again
  once it has returned. Nothing is assumed of the user.
- `Camera`: weak fairness of the main task, of the system tick and of the
  camera's two interrupts: the code has no time-out either.

## Findings

- `audio_stop`: a break during `ei_run_impulse` is overwritten by that
  function's own assignment to `state`; the inference runs on over freed buffers.
- `memory_over`: `memory_size - address` wraps once the address is behind the end.
- `memory_values`: a negative sample is written with its magnitude where CBOR
  stores the magnitude less one (`ei_mic.cpp:547-549`), so that it comes out one
  less than it was recorded, and the smallest one further outside the 16 bits.
- `cli_blank`: `substr(npos)` throws for a line of blanks.

Seen while modelling, described here and under the hazards, without a run:

- `g_uart_rx_read_index` wraps at 4096 and `g_rx_index` does not
  (`ei_usb.c:249`, `177`): after 4096 bytes of a session the scan leaves the
  buffer and the wipe never happens again.
- A byte 0xFF ends the drain loop with bytes unread (`ei_main.cpp:125`).
- The key that breaks an inference is fed to the AT server as well
  (`ei_main.cpp:129`); the command behind it is not understood. `line` in
  `AudioImpulse` carries the stray key.
- A frame that arrives during a slow callback is torn or forgotten
  (`ei_mic.cpp:292-293`). `late` in `MicFrames` marks it.
- AT+SAMPLESTART during an inference leaves the inference task polling for
  ever (`ei_mic.cpp:240`, `384-387`).
- AT+CLEARCONFIG prints "Clearing config and restarting system..." and neither
  saves the cleared settings nor restarts (`ei_at_handlers.cpp:201-215`). Since the
  "flash" is RAM that the start-up code initialises, `load_config` never finds a
  configuration.
- With an interval of 0 (the default), or a quotient beyond 32 bits, the number
  of samples saturates at the largest count, which rounding to an even number
  turns into 0: the recording is empty (`ei_mic.cpp:201-206`).
- AT+SNAPSHOTSTREAM returns true below "we do not print a new prompt!", and
  true is what makes `ATServer` print one (`ei_at_handlers.cpp:662-665`).
- If the camera is missing at boot, the first later `init` accepts any
  resolution (`ei_camera.cpp:127-149`).
- `base64_encode_buffer`, which nothing calls, checks for too little room.
- A 'b' that is typed while `ei_get_serial_byte` wipes its buffer between two
  pictures of a stream may be read as NUL, and then the stream goes on
  (`ei_usb.c:251-253`). One typed when the wipe is over is heard (`StopIsHeard`).
- A stop that falls inside `ei_run_impulse`, or a second start during an
  inference, frees buffers in use or leaks them (`ei_mic.cpp:367-377`,
  `305-330`). `rude` in `AudioImpulse` marks both.
- When the converter or the inference task could not be started, that is only
  printed, and the inference never reports (`ei_mic.cpp:386`,
  `inference_task.cpp:53-60`).
- The break key is one only as the first byte after a wake-up (`ei_main.cpp:125-130`);
  behind any other byte of the same wake-up, a line end among them, it is text.

## Theorems

TLAPS proves, for all values of the constants that satisfy the named
assumptions of the modules:

- `UsbSerialProofs`: if a session is shorter than the buffer
  (`MaxBytes < BufSize`), `TypeCorrect`, which includes that both indices name a
  cell of the buffer (`InsideBuffer`), `IndicesInOrder`, `ImplementsChannel`,
  `WaitingBytesIntact` (host never unruly so far) and `WakeupsKept`. `IInv` adds
  to the properties that the cells behind the last stored byte are NUL (so the
  scan stops there), that an unread cell holds its byte or NUL, and that the
  bytes of a host that was never unruly are all scanned before the interpreter
  wakes. `WakeupInv` extends `NoLostWakeup` to the time between scan and signal.
  `LoopKeepsSerial`: the main task with its loop and its streams implements the
  receive path, so all of this holds of it. `BreakIsHeard`, the safety half of
  `BreakStops` and `StopIsHeard`: the next byte that is read after a break was
  pressed is that break, and it stops the inference or ends the stream;
  `BreakInv` says where that byte is on its way.
- `MicFramesProofs`: `TypeCorrect`, `AnnouncementsAreNew`, `NoOldFrame`,
  `FramesWhole`. `FramesInv` follows the half that will be handed over through
  the load, the store and the callback, while the interrupt flips `g_bufsel`.
  For `FramesWhole`, `KeepsUp` says which frame was handed over last and that
  the half in hand holds the next one, as long as none was late.
- `AudioImpulseProofs`: `TypeCorrect`, `BuffersSafe`, `BuffersKept`,
  `OnlyFullBuffers` and `WindowsWhole`, for every size of slice, frame and
  stride, any number of starts and every failure. `HeapInv` ties the allocated
  blocks to the inference running, `ReadyInv` the state to a full buffer,
  `CountInv` the count of results to come to the slices classified so far. For `WindowsWhole`, cutting
  a slice into frames divides by the stride, so the argument is about where the
  frame begins whose beginning is kept for the next slice (`Kept`): after each
  slice the window is `Window(edge, n)`: the rows that n slices are enough for are
  whole frames a stride apart, up to the one that is kept. n grows with each
  slice and a failure sets it back, until a whole window's slices have gone by.
- `SampleMemoryProofs`: under `Fits` (recordings end inside the memory and
  requests begin in it): `TypeCorrect`, `AccessesInside`, `ConfigKept`,
  `RecordingKept`. The invariant ties the two counters of a recording to the
  number of frames, and the memory to the stream of bytes produced so far.
  `memory_over` shows that `Fits` cannot be dropped. Under `Thirds` as well (the
  reader's chunk is divisible by 3, as its 513 bytes are), `ReadOutExact` and
  `RecordingSent`: a read-out sent the quads of exactly the range it was asked
  for, and the range that was announced is the recording. `ReadSoFar` says that
  what was sent and what is left make the range, and that only the last chunk may
  end inside a quad; `QuadsOfParts` is what makes chunks add up. On top of these,
  `RecordingIsDocument` proves `AnnouncedIsDocument`, for every device name, list
  of sensors, sequence of samples and number of frames: `LaidInv` says how the
  stream is made of a header and four bytes a sample, `ReceivedIs` that the base64
  text yields its cells, `Items` that a map or an array of items takes the decoder
  from where an item may begin to where it is complete (`ManyItems`, `MapItem`),
  `FrontIs` that the header leaves exactly the list of values open (`Base`),
  `BodyDecoded` that each sample leads from `Base` to `Base` and the break to the
  end of the document, and `NumberIs` what a
  decoder makes of a sample's three bytes (`AsSent`).
- `CameraProofs`: `PicturesFresh`; `Handshake` says what the camera has done and
  what the flags show at each place of the capture. `ListedSizes`: once a camera
  was found, a command goes on only with a listed size and the mode of that size.
  `TypeCorrect` is inductive as it stands. The module also holds the theorems of
  `Base64`, the camera's encoder. `PiecesWhole`: by `Prefix`, what was written is the
  text of the input's whole groups and the rest waits in `leftover`; `EncodeParts`
  (whole groups are encoded the same whatever follows) carries it from one call to
  the next. `ReadBack`: `LengthIs` says how long a text is, `CleanIs` what the
  decoder keeps of it, and `BitsKept` that three bytes come back from the four
  sextets they were cut into.
- `CommandLineProofs`: `TypeCorrect`, `PositionsKept`, `HistoryKept`,
  `ScreenKept`, for lines and histories of any length. The invariant says of the
  screen more than `ScreenShowsLine`: the line is shown also where no prompt was
  printed, and the column the terminal was told to save is the cursor's wherever
  it will be restored.
- `AtServerProofs`: `NoHiddenCommand`. The invariant adds the types of the
  vector and that its two built-in names stay in it. `RegistrationsImplementTable`
  is the registration half of `ImplementsTable`: erasing the old entry and
  appending the new one is setting one entry of the table. `ImplementsAtTable` is
  all of `ImplementsTable`, that each line is answered as what it asks for, and
  `TypeCorrect` rests on the same lemmas. They need
  `LineAssumption`: requests are requests (`IsRequest`), and the lines called
  junk ask for nothing (`AsksNothing`). `ParseIs` says what `parse` makes of a line of
  a given shape, however it is padded; `StartIs`, `JoinedIs` and `CommasIs` say where
  the arguments and the commas of a request with any number of them lie, so that
  `SplitJoined` gives the arguments back; `JunkParsed` that every other line is
  unknown or names no command. `Numbered` (only built-in commands have the
  number 0) is what tells a registered command from an empty entry of the table.
- `DeviceConfigProofs`: `TypeCorrect`, `StoredCopyIsCurrent`,
  `ImplementsSettings`. `Progress` says which assignments of the running command
  are done, so that the last one completes exactly that command. And
  `AnnouncementsFit` under `Roomy`: if the memory has room for what is announced
  at the announced frequency (here 80001 samples need 327364 of 393216 bytes),
  every recording within the limits fits. Each number of samples is bounded by
  the announced one, through the quotient and the rounding to an even number.

Model-checked only: liveness (`MainSleepsAgain`, `ChannelDelivers`, `BreakStops`,
`StopIsHeard`, `ReportsOrStops`, `CommandEnds`), which is out of this prover's reach, as is
ENABLED. Every safety invariant of the runs that hold is proved. Where a
definition counts, searches or goes on cell by cell (`Split`, `Joined`, the
encoder's groups, the decoder), a proof that would go by induction goes by a least
counterexample instead (`NatMin` in `AtServerProofs` and
`SampleMemoryProofs`, from `WellFoundedInduction`).

## Not modelled

- By far most of `src/` is vendored: CMSIS tables, TensorFlow Lite, the NPU
  drivers' register headers, AmbiqSuite, neuralSPOT, FreeRTOS, QCBOR, a JPEG
  encoder. The firmware's own code is less than one line in fifty of the tree, so
  a map of the modelled lines stays a small share of it. Vendored code appears as external steps where
  the firmware calls it, except continuous classification, whose state is
  shared with the firmware's own counters and is modelled from its source.
- Of that: feature blocks of version 1 (they count frames differently), the
  arithmetic on features and the network. The model's own parameters are not in
  the repository.
- Compiled and without a caller on this board: `run_impulse_static_data`,
  `base64_encode_buffer`, `base64_encode_chunk` and `base64_decode` (the last two
  are proved about all the same),
  `ei_fusion.cpp`'s sampling (no sensor registers with it), `remote-mgmt.cpp`,
  `sensor_aq_add_data`. Not compiled: `ei_run_camera_impulse.cpp` and the JPEG
  path.
- `ei_sampler.cpp` is a stub, and so are the signing functions, which return 0:
  the signature stays the run of zeros it begins as.
- The pixel loops of resizing, cropping and colour conversion: data. That a
  picture is resized at all, which takes an unlisted size and so a camera that was
  missing at boot, is modelled as its `source`.
- Start-up code: straight line. Transmission over USB: a closed library.
- Sessions longer than the 4096-byte buffer (`ei_usb.c:249`), described above
  and left as a hazard without a property: reads behind the end of the buffer
  are whatever the linker put there.
- A camera that never answers: `CommandEnds` assumes that it does, because
  the code has no time-out. `AudioImpulse` does not assume it.
- A header that is written in part (`ei_mic.cpp:445-455`): the header is assumed
  to fit (`MemoryAssumption`), as it does by far on this board. A read-out whose
  buffer cannot be allocated (`ei_device_lib.cpp:83`), which is not checked.
- The trailing NULs that `load_config` restores with a text (`std::string` of the
  whole field, `ei_device_info_lib.h:188-199`): no stored block is ever loaded on
  this board, whose "flash" a reset clears.

## What is left

1. The `UsbSerial` session that reaches the end of the buffer
   (`MaxBytes >= BufSize`), with the cells behind it as arbitrary bytes.
2. The choice of sensors of `ei_fusion`, once a sensor registers with it.
