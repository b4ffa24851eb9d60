------------------------------ MODULE UsbSerial ------------------------------
(***************************************************************************)
(* The receive path of peripheral/usb/ei_usb.c: the USB library stores     *)
(* bytes in my_rx_ff_buf and calls ei_usb_rx_cb; usb_task scans the buffer *)
(* to find how far it was filled and wakes the main task; the main task    *)
(* takes bytes out with ei_get_serial_byte, which wipes the whole buffer   *)
(* when it runs dry and never moves the indices back.  It is called by the *)
(* loop of the main task, which sleeps when there is nothing to read, and  *)
(* by a command that looks for a key and does not sleep.  Which of the two *)
(* is reading is left open here; module MainLoop says.                     *)
(*                                                                         *)
(* Threads: the USB interrupt, FreeRTOS's timer daemon (it performs the    *)
(* xEventGroupSetBitsFromISR that the callback pends), usb_task and the    *)
(* main task.  Scheduling is preemptive with fixed priorities (4 levels):  *)
(* daemon and usb_task at 3, the main task at 2, so the main task takes a  *)
(* step only when neither of the others can.                               *)
(***************************************************************************)
EXTENDS Naturals, Sequences

CONSTANTS
  BufSize,      \* MY_RX_BUFSIZE
  MaxBytes,     \* bound: bytes the host sends in one session
  MaxIndex,     \* bound: how far past the buffer the scan is followed
  TimerQueue,   \* configTIMER_QUEUE_LENGTH, the daemon's queue of pended calls
  NUL,          \* the byte 0x00, which the scan takes for "not written yet"
  FF,           \* the byte 0xFF, which is also "nothing to read"
  Chars         \* the bytes the host sends

ASSUME UsbAssumption ==
  /\ BufSize \in Nat \ {0}
  /\ MaxBytes \in 0 .. BufSize
  /\ MaxIndex \in Nat /\ BufSize <= MaxIndex
  /\ TimerQueue \in Nat \ {0}
  /\ NUL # FF

Byte == Chars \cup {NUL, FF}

VARIABLES
  my_rx_ff_buf,           \* the buffer shared with the USB library
  g_rx_index,             \* first cell usb_task has not seen filled
  g_uart_rx_read_index,   \* next cell the main task reads
  is_clear,               \* the buffer was wiped and nothing scanned since
  pended,                 \* set-bits calls waiting in the daemon's queue
  usb_event,              \* bit USB_EVENT_RX_READY of usb_event_group
  rx_event,               \* bit EVENT_RX_READY of common_event_group
  usb_pc,                 \* where usb_task is
  main_pc,                \* where the main task is
  cleared,                \* cells the running memset has already zeroed
  sent,                   \* history: bytes the USB library stored
  got,                    \* history: bytes ei_get_serial_byte took out
  unruly                  \* history: the host did not wait until its bytes were
                          \* read, or sent something that is not text

indices == <<g_rx_index, g_uart_rx_read_index>>
events  == <<pended, usb_event, rx_event>>
history == <<sent, got, unruly>>
vars == <<my_rx_ff_buf, indices, is_clear, events, usb_pc, main_pc, cleared,
          history>>

Init ==
  /\ my_rx_ff_buf = [i \in 0 .. BufSize - 1 |-> IF i = 0 THEN FF ELSE NUL]
  /\ g_rx_index = 0 /\ g_uart_rx_read_index = 0
  /\ is_clear = FALSE
  /\ pended = 0 /\ usb_event = 0 /\ rx_event = 0
  /\ usb_pc = "wait" /\ main_pc = "wait"
  /\ cleared = 0
  /\ sent = <<>> /\ got = <<>> /\ unruly = FALSE

-----------------------------------------------------------------------------
(* Interrupt and timer daemon *)

\* Nobody is reading, and nobody is about to be woken to read.
InterpreterAsleep == main_pc = "wait" /\ rx_event = 0 /\ usb_pc # "signal"

\* All that was stored has been read, and the wipe that follows is over.
Settled ==
  is_clear /\ main_pc # "clear" /\ g_uart_rx_read_index = Len(sent)

\* A host that is not unruly sends text, and only to an interpreter that is
\* asleep or to a command that reads and is done with what was sent before.
HostIsUnruly(b) ==
  unruly' = (unruly \/ ~(InterpreterAsleep \/ Settled) \/ b \in {NUL, FF})

\* Mutant: a full queue is not noticed.
RxCbQueueUnbounded == pended' = pended + 1

\* ei_usb_rx_cb: the event is not set here but by the daemon, which is asked
\* to through a queue that may be full.
ei_usb_rx_cb == pended' = IF pended < TimerQueue THEN pended + 1 ELSE pended

\* The USB interrupt: the library puts the byte behind the ones it stored
\* before (the firmware never takes any out through the library, so its
\* position only grows), then calls back.
UsbInterrupt(b) ==
  /\ HostIsUnruly(b)
  /\ Len(sent) < MaxBytes
  /\ my_rx_ff_buf' = [my_rx_ff_buf EXCEPT ![Len(sent)] = b]
  /\ sent' = Append(sent, b)
  /\ ei_usb_rx_cb
  /\ UNCHANGED <<indices, is_clear, usb_event, rx_event, usb_pc, main_pc,
                 cleared, got>>

TimerDaemon ==
  /\ pended > 0
  /\ pended' = pended - 1
  /\ usb_event' = 1
  /\ UNCHANGED <<my_rx_ff_buf, indices, is_clear, rx_event, usb_pc, main_pc,
                 cleared, history>>

-----------------------------------------------------------------------------
(* usb_task: usb_local_read and vTaskDelay(1), for ever *)

\* Mutant: xClearOnExit is pdFALSE.
WaitBitsKeeps(bit) == bit = 1 /\ bit' = 1

\* xEventGroupWaitBits returns: the bit was set, and is cleared on exit.
WaitBits(bit) == bit = 1 /\ bit' = 0

UsbWake ==
  /\ usb_pc = "wait"
  /\ WaitBits(usb_event)
  /\ usb_pc' = "scan"
  /\ UNCHANGED <<my_rx_ff_buf, indices, is_clear, pended, rx_event, main_pc,
                 cleared, history>>

\* Values that reading cell i may give: past the end of the buffer the scan
\* reads whatever the linker placed there.
CellMayBe(i) == IF i < BufSize THEN {my_rx_ff_buf[i]} ELSE Byte

UsbScan ==
  /\ usb_pc = "scan"
  /\ g_rx_index < MaxIndex
  /\ \E c \in CellMayBe(g_rx_index) : c # NUL
  /\ g_rx_index' = g_rx_index + 1
  /\ UNCHANGED <<my_rx_ff_buf, g_uart_rx_read_index, is_clear, events, usb_pc,
                 main_pc, cleared, history>>

UsbScanEnd ==
  /\ usb_pc = "scan"
  /\ NUL \in CellMayBe(g_rx_index)
  /\ is_clear' = FALSE
  /\ usb_pc' = "signal"
  /\ UNCHANGED <<my_rx_ff_buf, indices, events, main_pc, cleared, history>>

\* Mutant: the main task is not told.
TellNobody == UNCHANGED rx_event

\* xEventGroupSetBits on the common event group.
TellMain == rx_event' = 1

UsbSignal ==
  /\ usb_pc = "signal"
  /\ TellMain
  /\ usb_pc' = "delay"
  /\ UNCHANGED <<my_rx_ff_buf, indices, is_clear, pended, usb_event, main_pc,
                 cleared, history>>

UsbDelayOver ==
  /\ usb_pc = "delay"
  /\ usb_pc' = "wait"
  /\ UNCHANGED <<my_rx_ff_buf, indices, is_clear, events, main_pc, cleared,
                 history>>

-----------------------------------------------------------------------------
(* The main task: the calls of ei_get_serial_byte *)

\* A thread of higher priority than the main task can run.
HigherReady ==
  \/ pended > 0
  \/ usb_pc \in {"scan", "signal"}
  \/ usb_pc = "wait" /\ usb_event = 1

MainWake ==
  /\ main_pc = "wait" /\ ~HigherReady
  /\ WaitBits(rx_event)
  /\ main_pc' = "read"
  /\ UNCHANGED <<my_rx_ff_buf, indices, is_clear, pended, usb_event, usb_pc,
                 cleared, history>>

\* Mutants: <= for <; the wipe does not wait for the reader; the reader
\* starts over at cell 0 at once.
ReadableTooFar == g_uart_rx_read_index <= g_rx_index
MustClearAnytime == ~is_clear
NextReadRestarts == 0

\* The two conditions of ei_get_serial_byte, and where it reads next.
Readable  == g_uart_rx_read_index < g_rx_index
MustClear == g_uart_rx_read_index = g_rx_index /\ ~is_clear
NextRead  == (g_uart_rx_read_index + 1) % BufSize

\* A reader that was given nothing: the loop of the main task goes to sleep, a
\* command that looks for a key does its work and asks again.
GotNothing == main_pc' \in {"wait", "read"}

\* A byte is there: it is taken and handled, and the reader asks for the next
\* one -- unless it is 0xFF, which it takes for "nothing to read".
ReadByte ==
  /\ main_pc = "read" /\ ~HigherReady
  /\ Readable
  /\ \E c \in CellMayBe(g_uart_rx_read_index) :
       /\ got' = Append(got, c)
       /\ IF c = FF THEN GotNothing ELSE main_pc' = "read"
  /\ g_uart_rx_read_index' = NextRead
  /\ UNCHANGED <<my_rx_ff_buf, g_rx_index, is_clear, events, usb_pc, cleared,
                 sent, unruly>>

\* Nothing to read and the buffer not wiped yet: the memset begins.
BeginClear ==
  /\ main_pc = "read" /\ ~HigherReady
  /\ MustClear
  /\ main_pc' = "clear"
  /\ cleared' = 0
  /\ UNCHANGED <<my_rx_ff_buf, indices, is_clear, events, usb_pc, history>>

\* Nothing to read.
ReadNothing ==
  /\ main_pc = "read" /\ ~HigherReady
  /\ ~Readable /\ ~MustClear
  /\ GotNothing
  /\ UNCHANGED <<my_rx_ff_buf, indices, is_clear, events, usb_pc, cleared,
                 history>>

\* memset goes through the buffer from its start; it can be interrupted
\* between any two cells.
ClearCell ==
  /\ main_pc = "clear" /\ ~HigherReady
  /\ cleared < BufSize
  /\ my_rx_ff_buf' = [my_rx_ff_buf EXCEPT ![cleared] = NUL]
  /\ cleared' = cleared + 1
  /\ UNCHANGED <<indices, is_clear, events, usb_pc, main_pc, history>>

EndClear ==
  /\ main_pc = "clear" /\ ~HigherReady
  /\ cleared = BufSize
  /\ is_clear' = TRUE
  /\ GotNothing
  /\ cleared' = 0
  /\ UNCHANGED <<my_rx_ff_buf, indices, events, usb_pc, history>>

-----------------------------------------------------------------------------

Interrupt == \E b \in Chars : UsbInterrupt(b)
UsbTask == UsbWake \/ UsbScan \/ UsbScanEnd \/ UsbSignal \/ UsbDelayOver
MainTask == MainWake \/ ReadByte \/ BeginClear \/ ReadNothing \/ ClearCell
            \/ EndClear

Next == Interrupt \/ TimerDaemon \/ UsbTask \/ MainTask

Spec == Init /\ [][Next]_vars

\* The scheduler runs a ready thread of the highest priority, and the tick
\* ends a delay; the host is not obliged to send anything.
Fairness == WF_vars(TimerDaemon) /\ WF_vars(UsbTask) /\ WF_vars(MainTask)

FairSpec == Spec /\ Fairness

-----------------------------------------------------------------------------
(* Properties *)

TypeOK ==
  /\ my_rx_ff_buf \in [0 .. BufSize - 1 -> Byte]
  /\ g_rx_index \in 0 .. MaxIndex
  /\ g_uart_rx_read_index \in 0 .. MaxIndex
  /\ is_clear \in BOOLEAN
  /\ pended \in 0 .. TimerQueue
  /\ usb_event \in {0, 1}
  /\ rx_event \in {0, 1}
  /\ usb_pc \in {"wait", "scan", "signal", "delay"}
  /\ main_pc \in {"wait", "read", "clear"}
  /\ cleared \in 0 .. BufSize
  /\ sent \in Seq(Byte)
  /\ got \in Seq(Byte)
  /\ unruly \in BOOLEAN

\* The reader is never ahead of what the scan has found, and the scan never
\* ahead of what the library has stored: a reader past either would hand the
\* interpreter cells nobody wrote (ei_usb.c:171-173, 244-248).
IndexOrder ==
  /\ g_uart_rx_read_index <= g_rx_index
  /\ g_rx_index <= Len(sent)

\* The byte that was read last was 0xFF.
EndedByFF == got # <<>> /\ got[Len(got)] = FF

\* No wake-up is lost between the three event hand-overs, although the flag
\* bits coalesce and the daemon's queue can overflow: bytes the scan could
\* find have an event on its way to usb_task, and bytes it has found have one
\* on its way to the main task or the main task is awake -- unless the host
\* sent the byte 0xFF, at which the main task stops reading until the next
\* event (ei_usb.c:165-182, ei_main.cpp:113-137).
NoLostWakeup ==
  /\ /\ usb_pc \in {"wait", "delay"}
     /\ g_rx_index < Len(sent)
     /\ my_rx_ff_buf[g_rx_index] # NUL
     => pended > 0 \/ usb_event = 1
  /\ g_uart_rx_read_index < g_rx_index
     => ~InterpreterAsleep \/ usb_pc = "scan" \/ EndedByFF

\* What was stored and not read yet is still in the buffer: neither the wipe
\* that follows the last read nor the library's next store has touched it --
\* as long as the host waits until its bytes were read (ei_usb.c:242-256).
UnreadIntact ==
  ~unruly => \A i \in g_uart_rx_read_index .. Len(sent) - 1 : my_rx_ff_buf[i] = sent[i + 1]

\* The abstract channel: lossless for a host that waits until its bytes were
\* read, lossy from when it does not.
Channel == INSTANCE SerialChannel WITH Blank <- NUL, lossy <- unruly

\* Each position of the stream is handed over at most once, in order, and a
\* byte is altered only by being wiped to NUL -- and, for a host that waits,
\* never (ei_usb.c:164-186, 242-256).
ChannelSafe == Channel!CSpec

\* What is sent by a host that waits is moreover handed over in the end
\* (ei_usb.c:164-256, ei_main.cpp:112-137).
ChannelDelivers == Channel!CFairSpec

\* Why the above hold: IInv is inductive as long as the buffer is never full.

\* The cells behind the last stored byte stop the scan.  (Cell 0 starts as
\* 0xFF, but nothing wakes usb_task before the first byte replaced it.)
TailIsNul ==
  /\ \A i \in Len(sent) .. BufSize - 1 :
       my_rx_ff_buf[i] = NUL \/ (i = 0 /\ Len(sent) = 0)
  /\ pended > 0 \/ usb_event = 1 \/ usb_pc # "wait" => Len(sent) > 0

ReadSoFar == Len(got) = g_uart_rx_read_index

\* An unread cell holds its byte or was wiped; for a host that waits, its byte.
UnreadSeen ==
  \A i \in g_uart_rx_read_index .. Len(sent) - 1 :
    my_rx_ff_buf[i] \in Channel!MayBeSeen(i + 1)

\* The bytes of a host that waits are text, all scanned before the interpreter
\* wakes or while nothing is left to wipe, and all read before a wipe begins.
PacedInv ==
  ~unruly =>
    /\ \A i \in 1 .. Len(sent) : sent[i] # NUL
    /\ \/ InterpreterAsleep
       \/ is_clear /\ main_pc # "clear"
       \/ g_rx_index = Len(sent)
    /\ main_pc = "clear" => g_uart_rx_read_index = g_rx_index

IInv ==
  /\ TypeOK
  /\ sent \in Seq(Chars) /\ Len(sent) <= MaxBytes
  /\ IndexOrder
  /\ TailIsNul
  /\ ReadSoFar
  /\ UnreadSeen
  /\ PacedInv

\* NoLostWakeup made inductive: it also has to hold while usb_task is between
\* its scan and its signal, and while a wipe runs.
WakeupInv ==
  /\ /\ usb_pc # "scan"
     /\ g_rx_index < Len(sent)
     /\ my_rx_ff_buf[g_rx_index] # NUL
     => pended > 0 \/ usb_event = 1
  /\ g_uart_rx_read_index < g_rx_index
     => \/ main_pc = "read"
        \/ rx_event = 1
        \/ usb_pc \in {"scan", "signal"}
        \/ EndedByFF
==============================================================================
