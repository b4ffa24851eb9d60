--------------------------- MODULE UsbSerialProofs ---------------------------
(***************************************************************************)
(* Proofs about UsbSerial and MainLoop, for every buffer size, byte set,   *)
(* queue length and length of the session.                                 *)
(***************************************************************************)
EXTENDS MainLoop, TLAPS

\* Every variable that a thread's step may leave alone, listed flat, and the
\* one-line helpers of the actions.
USE DEF indices, events, history, WaitBits, TellMain, Readable, MustClear,
        NextRead, GotNothing

LEMMA ByteValues == NUL \in Byte /\ FF \in Byte /\ Chars \subseteq Byte
  BY DEF Byte

LEMMA TypeInit == Init => TypeOK
<1> USE UsbAssumption, ByteValues DEF TypeOK
<1> SUFFICES ASSUME Init PROVE TypeOK
  OBVIOUS
<1>1. my_rx_ff_buf \in [0 .. BufSize - 1 -> Byte]
  BY DEF Init
<1>2. sent \in Seq(Byte) /\ got \in Seq(Byte)
  BY DEF Init
<1>3. is_clear \in BOOLEAN /\ unruly \in BOOLEAN
  BY Zenon DEF Init
<1> QED BY <1>1, <1>2, <1>3 DEF Init

LEMMA TypeStep == TypeOK /\ [Next]_vars => TypeOK'
<1> USE UsbAssumption, ByteValues DEF TypeOK
<1> SUFFICES ASSUME TypeOK, [Next]_vars PROVE TypeOK'
  OBVIOUS
<1>0. is_clear' \in BOOLEAN
  BY Zenon DEF Next, Interrupt, UsbInterrupt, TimerDaemon, UsbTask, UsbWake,
     UsbScan, UsbScanEnd, UsbSignal, UsbDelayOver, MainTask, MainWake,
     ReadByte, BeginClear, ReadNothing, ClearCell, EndClear, vars
<1>u. unruly' \in BOOLEAN
  BY Zenon DEF Next, Interrupt, UsbInterrupt, HostIsUnruly, TimerDaemon, UsbTask,
     UsbWake, UsbScan, UsbScanEnd, UsbSignal, UsbDelayOver, MainTask, MainWake,
     ReadByte, BeginClear, ReadNothing, ClearCell, EndClear, vars
<1> USE <1>0, <1>u
<1>1. CASE Interrupt
  BY <1>0, <1>1 DEF Interrupt, UsbInterrupt, ei_usb_rx_cb
<1>2. CASE TimerDaemon
  BY <1>0, <1>2 DEF TimerDaemon
<1>3. CASE UsbTask
  <2>1. CASE UsbWake
    BY <2>1 DEF UsbWake
  <2>2. CASE UsbScan
    BY <2>2 DEF UsbScan
  <2>3. CASE UsbScanEnd
    BY <2>3 DEF UsbScanEnd
  <2>4. CASE UsbSignal
    BY <2>4 DEF UsbSignal
  <2>5. CASE UsbDelayOver
    BY <2>5 DEF UsbDelayOver
  <2> QED BY <1>3, <2>1, <2>2, <2>3, <2>4, <2>5 DEF UsbTask
<1>4. CASE MainWake \/ BeginClear \/ ReadNothing \/ EndClear
  <2>1. CASE MainWake
    BY <2>1 DEF MainWake
  <2>2. CASE BeginClear
    BY <2>2 DEF BeginClear
  <2>3. CASE ReadNothing
    BY <2>3 DEF ReadNothing
  <2>4. CASE EndClear
    BY <2>4 DEF EndClear
  <2> QED BY <1>4, <2>1, <2>2, <2>3, <2>4
<1>5. CASE ReadByte
  <2>1. g_uart_rx_read_index' \in 0 .. MaxIndex
    BY <1>0, <1>5 DEF ReadByte
  <2>2. CellMayBe(g_uart_rx_read_index) \subseteq Byte
    BY DEF CellMayBe
  <2> QED BY <1>0, <1>5, <2>1, <2>2 DEF ReadByte
<1>6. CASE ClearCell
  BY <1>0, <1>6 DEF ClearCell
<1>7. CASE UNCHANGED vars
  BY <1>0, <1>7 DEF vars
<1> QED BY <1>1, <1>2, <1>3, <1>4, <1>5, <1>6, <1>7 DEF Next, MainTask

-----------------------------------------------------------------------------
(* The inductive invariant.  Actions are grouped by what they disturb.     *)

\* Steps that move neither a byte nor an index.
Quiet == \/ TimerDaemon \/ UsbWake \/ UsbSignal \/ UsbDelayOver
         \/ MainWake \/ ReadNothing
         \/ UNCHANGED vars

LEMMA InitIInv == Init => IInv
<1> SUFFICES ASSUME Init PROVE IInv
  OBVIOUS
<1>1. TypeOK
  BY TypeInit
<1>2. Len(sent) = 0 /\ Len(got) = 0 /\ sent \in Seq(Chars) /\ Len(sent) <= MaxBytes
  BY UsbAssumption DEF Init
<1>3. IndexOrder /\ ReadSoFar
  BY <1>2 DEF Init, IndexOrder, ReadSoFar
<1>4. TailIsNul
  BY <1>2, UsbAssumption DEF Init, TailIsNul
<1>5. UnreadSeen
  BY <1>2 DEF Init, UnreadSeen
<1>6. PacedInv
  BY <1>2 DEF Init, PacedInv, InterpreterAsleep
<1> QED BY <1>1, <1>2, <1>3, <1>4, <1>5, <1>6 DEF IInv

LEMMA QuietStep == ASSUME MaxBytes < BufSize, IInv, Quiet PROVE IInv'
<1> USE UsbAssumption
<1>1. TypeOK'
  BY TypeStep DEF IInv, Quiet, Next, UsbTask, MainTask
<1>2. UNCHANGED <<my_rx_ff_buf, g_rx_index, g_uart_rx_read_index, sent, got, unruly>>
  BY DEF Quiet, TimerDaemon, UsbWake, UsbSignal, UsbDelayOver, MainWake,
         ReadNothing, vars
<1>3. (sent \in Seq(Chars) /\ Len(sent) <= MaxBytes)' /\ IndexOrder' /\ ReadSoFar'
  BY <1>2 DEF IInv, IndexOrder, ReadSoFar
<1>4. TailIsNul'
  <2>1. (pended > 0 \/ usb_event = 1 \/ usb_pc # "wait" => Len(sent) > 0)'
    BY DEF IInv, TypeOK, TailIsNul, Quiet, TimerDaemon, UsbWake, UsbSignal,
           UsbDelayOver, MainWake, ReadNothing, vars
  <2> QED BY <1>2, <2>1 DEF IInv, TailIsNul
<1>5. UnreadSeen'
  BY <1>2 DEF IInv, UnreadSeen, Channel!MayBeSeen
<1>6. PacedInv'
  BY <1>2 DEF IInv, TypeOK, PacedInv, InterpreterAsleep, Quiet, TimerDaemon,
              UsbWake, UsbSignal, UsbDelayOver, MainWake, ReadNothing, vars
<1> QED BY <1>1, <1>3, <1>4, <1>5, <1>6 DEF IInv

LEMMA InterruptStep ==
  ASSUME MaxBytes < BufSize, IInv, NEW b \in Chars, UsbInterrupt(b) PROVE IInv'
<1> USE UsbAssumption
<1>1. TypeOK'
  BY TypeStep DEF IInv, Next, Interrupt
<1>2. /\ sent' \in Seq(Chars) /\ Len(sent') = Len(sent) + 1
      /\ sent'[Len(sent) + 1] = b
      /\ \A i \in 1 .. Len(sent) : sent'[i] = sent[i]
  BY DEF UsbInterrupt, IInv
<1>3. Len(sent) \in Nat /\ Len(sent') <= MaxBytes
  BY <1>2 DEF UsbInterrupt, IInv
<1>4. IndexOrder' /\ ReadSoFar'
  BY <1>2, <1>3 DEF UsbInterrupt, IInv, TypeOK, IndexOrder, ReadSoFar
<1>5. /\ my_rx_ff_buf'[Len(sent)] = b
      /\ \A i \in 0 .. BufSize - 1 : i # Len(sent) => my_rx_ff_buf'[i] = my_rx_ff_buf[i]
  BY <1>2, <1>3 DEF UsbInterrupt, IInv, TypeOK
<1>6. TailIsNul'
  <2>1. ASSUME NEW i \in Len(sent') .. BufSize - 1 PROVE my_rx_ff_buf'[i] = NUL
    <3>1. i \in Len(sent) .. BufSize - 1 /\ i # 0 /\ i # Len(sent) /\ i \in 0 .. BufSize - 1
      BY <1>2, <1>3
    <3>2. my_rx_ff_buf[i] = NUL
      BY <3>1 DEF IInv, TailIsNul
    <3> QED BY <3>1, <3>2, <1>5
  <2> QED BY <1>2, <1>3, <2>1 DEF TailIsNul
<1>7. UnreadSeen'
  <2> SUFFICES ASSUME NEW i \in g_uart_rx_read_index .. Len(sent') - 1
               PROVE  my_rx_ff_buf'[i] \in (Channel!MayBeSeen(i + 1))'
    BY DEF UsbInterrupt, UnreadSeen
  <2>1. CASE i = Len(sent)
    BY <2>1, <1>2, <1>5 DEF Channel!MayBeSeen
  <2>2. CASE i < Len(sent)
    <3>1. i \in g_uart_rx_read_index .. Len(sent) - 1 /\ i \in 0 .. BufSize - 1
      BY <2>2, <1>3 DEF IInv, TypeOK
    <3>2. my_rx_ff_buf[i] \in Channel!MayBeSeen(i + 1)
      BY <3>1 DEF IInv, UnreadSeen
    <3>3. my_rx_ff_buf'[i] = my_rx_ff_buf[i] /\ sent'[i + 1] = sent[i + 1]
      BY <3>1, <2>2, <1>2, <1>3, <1>5 DEF IInv, TypeOK
    <3>4. unruly => unruly'
      BY Zenon DEF UsbInterrupt, HostIsUnruly
    <3> QED BY <3>2, <3>3, <3>4 DEF Channel!MayBeSeen
  <2> QED BY <1>2, <1>3, <2>1, <2>2 DEF IInv, TypeOK
<1>8. PacedInv'
  <2> SUFFICES ASSUME ~unruly' PROVE PacedInv'
    BY DEF PacedInv
  <2>1. ~unruly /\ (InterpreterAsleep \/ Settled) /\ b # NUL
    BY Zenon DEF UsbInterrupt, HostIsUnruly
  <2>2. \A i \in 1 .. Len(sent') : sent'[i] # NUL
    BY <1>2, <1>3, <2>1 DEF IInv, PacedInv
  <2>3. (InterpreterAsleep' \/ is_clear') /\ main_pc' # "clear"
    BY <2>1 DEF UsbInterrupt, InterpreterAsleep, Settled
  <2> QED BY <2>2, <2>3 DEF PacedInv
<1> QED BY <1>1, <1>2, <1>3, <1>4, <1>6, <1>7, <1>8 DEF IInv

\* The scan stops at the first cell nobody wrote: it cannot run past what the
\* library stored.
LEMMA ScanBehind == ASSUME MaxBytes < BufSize, IInv, UsbScan
                    PROVE  g_rx_index < Len(sent)
<1> USE UsbAssumption
<1>1. g_rx_index <= Len(sent) /\ Len(sent) < BufSize /\ Len(sent) > 0
  BY DEF UsbScan, IInv, TypeOK, IndexOrder, TailIsNul
<1>2. ASSUME g_rx_index = Len(sent) PROVE FALSE
  <2>1. my_rx_ff_buf[g_rx_index] = NUL
    BY <1>1, <1>2 DEF IInv, TypeOK, TailIsNul
  <2>2. CellMayBe(g_rx_index) = {NUL}
    BY <1>1, <1>2, <2>1 DEF CellMayBe, IInv, TypeOK
  <2> QED BY <2>2 DEF UsbScan
<1> QED BY <1>1, <1>2 DEF IInv, TypeOK

LEMMA ScanStep == ASSUME MaxBytes < BufSize, IInv, UsbScan PROVE IInv'
<1> USE UsbAssumption DEF UsbScan
<1>1. TypeOK'
  BY TypeStep DEF IInv, Next, UsbTask
<1>2. IndexOrder' /\ ReadSoFar'
  BY ScanBehind DEF IInv, TypeOK, IndexOrder, ReadSoFar
<1>3. TailIsNul' /\ UnreadSeen'
  BY DEF IInv, TailIsNul, UnreadSeen, Channel!MayBeSeen
<1>4. PacedInv'
  BY ScanBehind DEF IInv, TypeOK, PacedInv, InterpreterAsleep
<1> QED BY <1>1, <1>2, <1>3, <1>4 DEF IInv

\* For a host that waits nothing between the indices is NUL, so the scan ends only
\* when it has found everything.
LEMMA ScanEndStep == ASSUME MaxBytes < BufSize, IInv, UsbScanEnd PROVE IInv'
<1> USE UsbAssumption DEF UsbScanEnd
<1>1. TypeOK'
  BY TypeStep DEF IInv, Next, UsbTask
<1>2. IndexOrder' /\ ReadSoFar'
  BY DEF IInv, IndexOrder, ReadSoFar
<1>3. TailIsNul' /\ UnreadSeen'
  BY DEF IInv, TypeOK, TailIsNul, UnreadSeen, Channel!MayBeSeen
<1>4. PacedInv'
  <2> SUFFICES ASSUME ~unruly PROVE g_rx_index = Len(sent)
    BY DEF IInv, TypeOK, PacedInv
  <2> SUFFICES ASSUME g_rx_index # Len(sent) PROVE FALSE
    OBVIOUS
  <2>1. g_rx_index \in g_uart_rx_read_index .. Len(sent) - 1 /\ g_rx_index < BufSize
    BY DEF IInv, TypeOK, IndexOrder
  <2>2. my_rx_ff_buf[g_rx_index] = sent[g_rx_index + 1]
    BY <2>1 DEF IInv, UnreadSeen, Channel!MayBeSeen
  <2>3. sent[g_rx_index + 1] # NUL
    BY <2>1 DEF IInv, TypeOK, IndexOrder, PacedInv
  <2> QED BY <2>1, <2>2, <2>3 DEF CellMayBe
<1> QED BY <1>1, <1>2, <1>3, <1>4 DEF IInv

LEMMA ReadByteStep ==
  ASSUME MaxBytes < BufSize, IInv, ReadByte
  PROVE  IInv' /\ Channel!CDeliver
<1> USE UsbAssumption DEF ReadByte
<1>1. TypeOK'
  BY TypeStep DEF IInv, Next, MainTask
<1>2. /\ g_uart_rx_read_index \in 0 .. BufSize - 1
      /\ g_uart_rx_read_index < Len(sent)
      /\ g_uart_rx_read_index + 1 < BufSize
      /\ Len(got) = g_uart_rx_read_index
  BY DEF IInv, TypeOK, IndexOrder, ReadSoFar
<1>3. g_uart_rx_read_index' = g_uart_rx_read_index + 1
  BY <1>2
<1>4. CellMayBe(g_uart_rx_read_index) = {my_rx_ff_buf[g_uart_rx_read_index]}
  BY <1>2 DEF CellMayBe
<1>5. got' = Append(got, my_rx_ff_buf[g_uart_rx_read_index])
  BY <1>4
<1>6. Len(got') = Len(got) + 1
  BY <1>5 DEF IInv, TypeOK
<1>7. IndexOrder' /\ ReadSoFar'
  BY <1>2, <1>3, <1>6 DEF IInv, TypeOK, IndexOrder, ReadSoFar
<1>8. TailIsNul' /\ UnreadSeen'
  BY <1>3 DEF IInv, TypeOK, TailIsNul, UnreadSeen, Channel!MayBeSeen
<1>9. PacedInv'
  BY DEF IInv, PacedInv, InterpreterAsleep
<1>10. my_rx_ff_buf[g_uart_rx_read_index]
          \in Channel!MayBeSeen(g_uart_rx_read_index + 1)
  BY <1>2 DEF IInv, TypeOK, UnreadSeen
<1>11. Channel!CDeliver
  BY <1>2, <1>5, <1>10 DEF Channel!CDeliver
<1> QED BY <1>1, <1>7, <1>8, <1>9, <1>11 DEF IInv

LEMMA ClearStep ==
  ASSUME MaxBytes < BufSize, IInv, BeginClear \/ ClearCell \/ EndClear
  PROVE  IInv'
<1> USE UsbAssumption DEF BeginClear, ClearCell, EndClear
<1>1. TypeOK'
  BY TypeStep DEF IInv, Next, MainTask
<1>2. /\ UNCHANGED <<g_rx_index, g_uart_rx_read_index, pended, usb_event,
                     rx_event, usb_pc, sent, got, unruly>>
      /\ \A i \in 0 .. BufSize - 1 :
           my_rx_ff_buf'[i] = my_rx_ff_buf[i] \/ (ClearCell /\ my_rx_ff_buf'[i] = NUL)
  BY DEF IInv, TypeOK
<1>3. IndexOrder' /\ ReadSoFar'
  BY <1>2 DEF IInv, IndexOrder, ReadSoFar
<1>4. TailIsNul'
  BY <1>2 DEF IInv, TypeOK, TailIsNul
<1>5. PacedInv'
  BY <1>2 DEF IInv, TypeOK, PacedInv, InterpreterAsleep
<1>6. UnreadSeen'
  <2> SUFFICES ASSUME NEW i \in g_uart_rx_read_index .. Len(sent) - 1
               PROVE  my_rx_ff_buf'[i] \in Channel!MayBeSeen(i + 1)
    BY <1>2 DEF UnreadSeen, Channel!MayBeSeen
  <2>1. i \in 0 .. BufSize - 1 /\ my_rx_ff_buf[i] \in Channel!MayBeSeen(i + 1)
    BY DEF IInv, TypeOK, UnreadSeen
  <2>2. CASE ClearCell
    <3>1. unruly
      \* A host that waits is owed nothing any more when a wipe runs.
      BY <2>2 DEF IInv, TypeOK, PacedInv, InterpreterAsleep
    <3> QED BY <1>2, <2>1, <3>1 DEF Channel!MayBeSeen
  <2>3. CASE ~ClearCell
    BY <1>2, <2>1, <2>3
  <2> QED BY <2>2, <2>3
<1> QED BY <1>1, <1>2, <1>3, <1>4, <1>5, <1>6 DEF IInv

LEMMA IInvStep == ASSUME MaxBytes < BufSize, IInv, [Next]_vars PROVE IInv'
<1>1. CASE Interrupt
  BY <1>1, InterruptStep DEF Interrupt
<1>2. CASE Quiet
  BY <1>2, QuietStep
<1>3. CASE UsbScan \/ UsbScanEnd
  BY <1>3, ScanStep, ScanEndStep
<1>4. CASE ReadByte
  BY <1>4, ReadByteStep
<1>5. CASE BeginClear \/ ClearCell \/ EndClear
  BY <1>5, ClearStep
<1> QED BY <1>1, <1>2, <1>3, <1>4, <1>5 DEF Next, UsbTask, MainTask, Quiet

-----------------------------------------------------------------------------

THEOREM Inductive == ASSUME MaxBytes < BufSize PROVE Spec => []IInv
  BY InitIInv, IInvStep, PTL DEF Spec

\* Both indices name a cell of the buffer, so that neither the scan nor the
\* reader looks behind its end (ei_usb.c:176, 247).
InsideBuffer ==
  g_rx_index \in DOMAIN my_rx_ff_buf /\ g_uart_rx_read_index \in DOMAIN my_rx_ff_buf

\* Type correctness: every variable keeps its type, and as long as the session
\* is shorter than the buffer no index leaves the buffer: the scan stops at a
\* cell nobody wrote, although nothing but a NUL stops it, and the
\* read index never gets so far that it wraps (ei_usb.c:176-178, 242-256).
THEOREM TypeCorrect ==
  ASSUME MaxBytes < BufSize PROVE Spec => [](TypeOK /\ InsideBuffer)
<1>1. ASSUME IInv PROVE TypeOK /\ InsideBuffer
  BY <1>1, UsbAssumption DEF IInv, TypeOK, IndexOrder, InsideBuffer
<1> QED BY Inductive, <1>1, PTL

\* While the session is shorter than the buffer, the reader never passes the
\* scan and the scan never passes the library (ei_usb.c:171-173, 244-248).
THEOREM IndicesInOrder == ASSUME MaxBytes < BufSize PROVE Spec => []IndexOrder
<1>1. IInv => IndexOrder
  BY DEF IInv
<1> QED BY Inductive, <1>1, PTL

\* While the host waits for its answers, its bytes stay in the buffer until
\* they are read (ei_usb.c:240-256).
THEOREM WaitingBytesIntact ==
  ASSUME MaxBytes < BufSize PROVE Spec => []UnreadIntact
<1>1. IInv => UnreadIntact
  BY DEF IInv, UnreadSeen, UnreadIntact, Channel!MayBeSeen
<1> QED BY Inductive, <1>1, PTL

\* The receive path implements the abstract channel: lossless while the
\* host waits for its answers, positional and at worst blanking bytes after that.
THEOREM ImplementsChannel ==
  ASSUME MaxBytes < BufSize PROVE Spec => ChannelSafe
<1>1. Init => Channel!CInit
  BY DEF Init, Channel!CInit
<1>2. ASSUME IInv, [Next]_vars PROVE [Channel!CNext]_(Channel!cvars)
  <2>1. CASE Interrupt
    <3> PICK b \in Chars : UsbInterrupt(b)
      BY <2>1 DEF Interrupt
    <3>0. unruly \in BOOLEAN
      BY <1>2 DEF IInv, TypeOK
    <3>1. unruly' \in {unruly, TRUE}
      BY <3>0, Zenon DEF UsbInterrupt, HostIsUnruly
    <3>2. Len(sent) < MaxBytes /\ sent' = Append(sent, b) /\ UNCHANGED got
      BY DEF UsbInterrupt
    <3> QED BY <3>1, <3>2 DEF Channel!CSend, Channel!CNext
  <2>2. CASE ReadByte
    BY <1>2, <2>2, ReadByteStep DEF Channel!CNext
  <2>3. CASE Quiet \/ UsbScan \/ UsbScanEnd \/ BeginClear \/ ClearCell \/ EndClear
    BY <2>3 DEF Quiet, TimerDaemon, UsbWake, UsbSignal, UsbDelayOver, MainWake,
       ReadNothing, UsbScan, UsbScanEnd, BeginClear, ClearCell, EndClear, vars,
       Channel!cvars
  <2> QED BY <1>2, <2>1, <2>2, <2>3 DEF Next, UsbTask, MainTask, Quiet
<1> QED BY Inductive, <1>1, <1>2, PTL DEF Spec, ChannelSafe, Channel!CSpec

-----------------------------------------------------------------------------
(* No lost wake-up. *)

LEMMA WakeupInit == Init => WakeupInv
  BY DEF Init, WakeupInv

\* The loop goes on reading unless what it was handed is 0xFF.
LEMMA ReadsOn == ASSUME TypeOK, ReadByte PROVE main_pc' = "read" \/ EndedByFF'
<1>1. PICK c \in CellMayBe(g_uart_rx_read_index) :
        got' = Append(got, c) /\ (c # FF => main_pc' = "read")
  BY DEF ReadByte
<1>2. got' # <<>> /\ got'[Len(got')] = c
  BY <1>1 DEF TypeOK
<1> QED BY <1>1, <1>2 DEF EndedByFF

LEMMA WakeupStep ==
  ASSUME IInv, WakeupInv, [Next]_vars
  PROVE  WakeupInv'
<1> USE UsbAssumption DEF WakeupInv, IInv, TypeOK, EndedByFF
<1>1. CASE Interrupt
  <2> PICK b \in Chars : UsbInterrupt(b)
    BY <1>1 DEF Interrupt
  <2>1. pended' > 0
    BY DEF UsbInterrupt, ei_usb_rx_cb
  <2>2. UNCHANGED <<indices, rx_event, usb_pc, main_pc, got>>
    BY DEF UsbInterrupt
  <2> QED BY <2>1, <2>2
<1>2. CASE TimerDaemon
  BY <1>2 DEF TimerDaemon
<1>3. CASE UsbWake \/ UsbScan \/ UsbSignal \/ UsbDelayOver
  BY <1>3 DEF UsbWake, UsbScan, UsbSignal, UsbDelayOver
<1>4. CASE UsbScanEnd
  <2>1. g_rx_index < Len(sent) => my_rx_ff_buf[g_rx_index] = NUL
    BY <1>4 DEF UsbScanEnd, CellMayBe
  <2> QED BY <1>4, <2>1 DEF UsbScanEnd
<1>5. CASE ReadByte
  BY <1>5, ReadsOn DEF ReadByte
<1>6. CASE MainWake \/ BeginClear \/ ReadNothing \/ EndClear
  BY <1>6 DEF MainWake, BeginClear, ReadNothing, EndClear
<1>7. CASE ClearCell
  <2>1. g_rx_index < Len(sent) => \/ my_rx_ff_buf'[g_rx_index] = NUL
                                  \/ my_rx_ff_buf'[g_rx_index] = my_rx_ff_buf[g_rx_index]
    BY <1>7 DEF ClearCell
  <2> QED BY <1>7, <2>1 DEF ClearCell
<1>8. CASE UNCHANGED vars
  BY <1>8 DEF vars
<1> QED BY <1>1, <1>2, <1>3, <1>4, <1>5, <1>6, <1>7, <1>8
        DEF Next, UsbTask, MainTask

\* Coalescing event bits and a bounded daemon queue lose no wake-up, and bytes
\* are left unread by a sleeping reader only behind a 0xFF
\* (ei_usb.c:165-182, 191-202; ei_main.cpp:113-137).
THEOREM WakeupsKept ==
  ASSUME MaxBytes < BufSize PROVE Spec => []NoLostWakeup
<1>1. ASSUME IInv, WakeupInv PROVE NoLostWakeup
  BY <1>1 DEF WakeupInv, NoLostWakeup, InterpreterAsleep, IInv, TypeOK
<1> QED BY Inductive, WakeupInit, WakeupStep, <1>1, PTL DEF Spec

-----------------------------------------------------------------------------
(* The loop of the main task around it *)

LEMMA LoopStep == [LNext]_lvars => [Next]_vars
  BY DEF LNext, LInterrupt, Interrupt, LDaemon, LUsbTask, LMainTask, LMainWake,
     LoopReadsByte, StreamReadsByte, LReadsNothing, Next, MainTask, lvars

\* What ei_main_task does with the bytes leaves the receive path alone, so all
\* that is proved of UsbSerial holds of the loop (ei_main.cpp:110-139).
THEOREM LoopKeepsSerial == LSpec => Spec
<1>1. LInit => Init
  BY DEF LInit
<1> QED BY <1>1, LoopStep, PTL DEF LSpec, Spec

\* The main task sleeps only outside the handler of a stream.
StreamAwake == streaming => main_pc # "wait"

LEMMA StreamAwakeStep ==
  ASSUME TypeOK, StreamAwake, [LNext]_lvars PROVE StreamAwake'
<1> USE DEF StreamAwake, loop, modes
<1>1. CASE LInterrupt \/ LDaemon \/ LUsbTask \/ UNCHANGED lvars
  BY <1>1 DEF LInterrupt, UsbInterrupt, LDaemon, TimerDaemon, LUsbTask, UsbTask, UsbWake,
     UsbScan, UsbScanEnd, UsbSignal, UsbDelayOver, lvars, vars
<1>2. CASE LMainWake
  BY <1>2 DEF LMainWake, MainWake
<1>3. CASE LoopReadsByte
  <2>1. got'[Len(got')] # FF => main_pc' = "read"
    BY <1>3, ReadsOn DEF LoopReadsByte, EndedByFF
  <2> QED BY <1>3, <2>1 DEF LoopReadsByte
<1>4. CASE StreamReadsByte
  BY <1>4 DEF StreamReadsByte
<1>5. CASE LReadsNothing
  BY <1>5 DEF LReadsNothing
<1>6. CASE (BeginClear \/ ClearCell) /\ UNCHANGED loop
  BY <1>6 DEF BeginClear, ClearCell
<1> QED BY <1>1, <1>2, <1>3, <1>4, <1>5, <1>6 DEF LNext, LMainTask

\* A key d that was pressed when everything before it had been read is the very
\* next byte to be read, it is in the buffer, and no wipe begins before the scan
\* has found it.
KeyWaits(d) ==
  /\ d = Len(got) + 1 /\ d <= Len(sent)
  /\ my_rx_ff_buf[d - 1] = Break
  /\ main_pc # "clear"
  /\ InterpreterAsleep \/ is_clear \/ d <= g_rx_index

LEMMA KeyStored ==
  ASSUME MaxBytes < BufSize, IInv, UsbInterrupt(Break),
         InterpreterAsleep \/ Settled, Len(got) = Len(sent)
  PROVE  KeyWaits(Len(sent))'
<1>1. /\ sent \in Seq(Byte) /\ Len(sent) \in 0 .. BufSize - 1
      /\ Len(sent') = Len(sent) + 1 /\ Len(sent') - 1 = Len(sent)
      /\ my_rx_ff_buf'[Len(sent)] = Break
      /\ UNCHANGED <<g_rx_index, rx_event, usb_pc, main_pc, is_clear, got>>
  BY UsbAssumption DEF UsbInterrupt, IInv, TypeOK
<1> QED BY <1>1 DEF KeyWaits, InterpreterAsleep, Settled

\* A key stays where it is until it is read, and is then handed over as it is.
LEMMA KeyStep ==
  ASSUME MaxBytes < BufSize, IInv, [Next]_vars, NEW CONSTANT d, KeyWaits(d)
  PROVE  IF ReadByte THEN got' = Append(got, Break) ELSE KeyWaits(d)'
<1> USE UsbAssumption
<1>0. /\ d \in Nat \ {0} /\ d - 1 = g_uart_rx_read_index /\ d - 1 \in 0 .. BufSize - 1
      /\ g_rx_index \in Nat /\ d - 1 <= g_rx_index
      /\ sent \in Seq(Byte) /\ Len(sent) \in Nat /\ Len(sent) < BufSize
      /\ my_rx_ff_buf \in [0 .. BufSize - 1 -> Byte]
  BY DEF KeyWaits, IInv, TypeOK, IndexOrder, ReadSoFar
<1>1. CASE Interrupt
  <2> PICK b \in Chars : UsbInterrupt(b)
    BY <1>1 DEF Interrupt
  <2>1. /\ Len(sent') = Len(sent) + 1
        /\ my_rx_ff_buf' = [my_rx_ff_buf EXCEPT ![Len(sent)] = b]
        /\ UNCHANGED <<g_rx_index, rx_event, usb_pc, main_pc, is_clear, got>>
    BY <1>0 DEF UsbInterrupt
  <2>2. ~ReadByte
    BY <1>0, <2>1 DEF ReadByte
  <2> QED BY <1>0, <2>1, <2>2 DEF KeyWaits, InterpreterAsleep
<1>2. CASE ReadByte
  BY <1>0, <1>2 DEF ReadByte, CellMayBe, KeyWaits
<1>3. CASE Quiet /\ ~ReadByte
  BY <1>3 DEF Quiet, TimerDaemon, UsbWake, UsbSignal, UsbDelayOver, MainWake,
     ReadNothing, vars, KeyWaits, InterpreterAsleep
<1>4. CASE UsbScan /\ ~ReadByte
  BY <1>0, <1>4 DEF UsbScan, KeyWaits, InterpreterAsleep
<1>5. CASE UsbScanEnd /\ ~ReadByte
  <2>1. g_rx_index < BufSize
    BY <1>0 DEF IInv, IndexOrder
  <2>2. my_rx_ff_buf[g_rx_index] = NUL
    BY <1>0, <1>5, <2>1 DEF UsbScanEnd, CellMayBe
  <2>3. my_rx_ff_buf[d - 1] # NUL
    BY LoopAssumption DEF KeyWaits
  <2>4. d <= g_rx_index
    BY <1>0, <2>2, <2>3
  <2> QED BY <1>0, <1>5, <2>4 DEF UsbScanEnd, KeyWaits
<1>6. CASE BeginClear \/ ClearCell \/ EndClear
  BY <1>0, <1>6 DEF BeginClear, ClearCell, EndClear, KeyWaits, InterpreterAsleep
<1> QED BY <1>1, <1>2, <1>3, <1>4, <1>5, <1>6 DEF Next, UsbTask, MainTask, Quiet

\* Where the key that ought to be a break is, and where the one that ought to end
\* a stream.
KeysInv ==
  /\ StreamAwake
  /\ break_due # 0 =>
       /\ running /\ ~streaming
       /\ KeyWaits(break_due)
       /\ main_pc = "read" => in_rx_loop = FALSE
  /\ stop_due # 0 => streaming /\ KeyWaits(stop_due)

\* What a key that is due brings about when the loop, or the stream, is handed
\* the next byte.
KeysHeard ==
  got' # got => /\ break_due # 0 => running' = FALSE
                /\ stop_due # 0 => streaming' = FALSE

LEMMA KeysInterrupt ==
  ASSUME MaxBytes < BufSize, IInv, KeysInv, LInterrupt PROVE KeysInv' /\ KeysHeard
<1> PICK b \in Chars :
      /\ UsbInterrupt(b)
      /\ break_due' = IF BreakPressed(b) THEN Len(sent') ELSE break_due
      /\ stop_due' = IF StopPressed(b) THEN Len(sent') ELSE stop_due
      /\ UNCHANGED modes
  BY DEF LInterrupt
<1>0. UNCHANGED <<got, main_pc, in_rx_loop, running, streaming>>
  BY DEF UsbInterrupt, modes
<1>n. [Next]_vars /\ ~ReadByte
  <2>1. Len(sent') = Len(sent) + 1 /\ Len(sent) \in Nat
    BY DEF UsbInterrupt, IInv, TypeOK
  <2>2. ReadByte => sent' = sent
    BY DEF ReadByte
  <2> QED BY <2>1, <2>2 DEF Next, Interrupt
<1>1. break_due' # 0 =>
        /\ running /\ ~streaming
        /\ KeyWaits(break_due)'
        /\ main_pc = "read" => in_rx_loop = FALSE
  <2>1. CASE BreakPressed(b)
    <3>1. KeyWaits(Len(sent))'
      BY <2>1, KeyStored DEF BreakPressed
    <3>2. running /\ ~streaming /\ main_pc = "wait" /\ break_due' = Len(sent')
      BY <2>1 DEF BreakPressed, KeysInv, StreamAwake, InterpreterAsleep
    <3> QED BY <3>1, <3>2
  <2>2. CASE ~BreakPressed(b) /\ break_due # 0
    <3>1. PICK d : d = break_due
      OBVIOUS
    <3>2. KeyWaits(d)'
      BY <1>n, <2>2, <3>1, KeyStep DEF KeysInv
    <3> QED BY <2>2, <3>1, <3>2 DEF KeysInv
  <2> QED BY <2>1, <2>2
<1>2. stop_due' # 0 => streaming /\ KeyWaits(stop_due)'
  <2>1. CASE StopPressed(b)
    <3>1. KeyWaits(Len(sent))'
      BY <2>1, KeyStored DEF StopPressed
    <3> QED BY <2>1, <3>1 DEF StopPressed
  <2>2. CASE ~StopPressed(b) /\ stop_due # 0
    <3>1. PICK d : d = stop_due
      OBVIOUS
    <3>2. KeyWaits(d)'
      BY <1>n, <2>2, <3>1, KeyStep DEF KeysInv
    <3> QED BY <2>2, <3>1, <3>2 DEF KeysInv
  <2> QED BY <2>1, <2>2
<1> QED BY <1>0, <1>1, <1>2, Zenon DEF KeysInv, KeysHeard, StreamAwake

\* The key that is due is what is read next.
LEMMA KeysRead ==
  ASSUME MaxBytes < BufSize, IInv, KeysInv, LoopReadsByte \/ StreamReadsByte
  PROVE  KeysInv' /\ KeysHeard
<1>n. [Next]_vars /\ ReadByte
  BY DEF LoopReadsByte, StreamReadsByte, Next, MainTask
<1>t. StreamAwake'
  BY StreamAwakeStep DEF KeysInv, LNext, LMainTask, IInv
<1>1. break_due # 0 \/ stop_due # 0 => got'[Len(got')] = Break
  <2>1. ASSUME NEW CONSTANT d, KeyWaits(d) PROVE got' = Append(got, Break)
    BY <1>n, <2>1, KeyStep
  <2>2. break_due # 0 \/ stop_due # 0 => got' = Append(got, Break)
    BY <2>1 DEF KeysInv
  <2> QED BY <2>2 DEF IInv, TypeOK
<1>2. CASE LoopReadsByte
  <2>1. stop_due = 0 /\ stop_due' = 0
    BY <1>2 DEF LoopReadsByte, KeysInv, loop
  <2>2. CASE break_due = 0
    <3>1. break_due' = 0
      BY <1>2, <2>2 DEF LoopReadsByte, loop
    <3> QED BY <1>t, <2>1, <2>2, <3>1 DEF KeysInv, KeysHeard
  <2>3. CASE break_due # 0
    <3>1. IsBreak(Break) /\ Break # FF
      BY <1>n, <2>3, LoopAssumption DEF KeysInv, IsBreak, ReadByte
    <3>2. break_due' = 0 /\ running' = FALSE
      BY <1>1, <1>2, <2>3, <3>1 DEF LoopReadsByte, Handled
    <3> QED BY <1>t, <2>1, <3>2 DEF KeysInv, KeysHeard
  <2> QED BY <2>2, <2>3
<1>3. CASE StreamReadsByte
  <2>1. break_due = 0 /\ break_due' = 0
    BY <1>3 DEF StreamReadsByte, KeysInv
  <2>2. CASE got'[Len(got')] = Break
    <3>1. stop_due' = 0 /\ streaming' = FALSE
      BY <1>3, <2>2 DEF StreamReadsByte
    <3> QED BY <1>t, <2>1, <3>1 DEF KeysInv, KeysHeard
  <2>3. CASE got'[Len(got')] # Break
    <3>1. stop_due = 0 /\ stop_due' = 0
      BY <1>1, <1>3, <2>3 DEF StreamReadsByte
    <3> QED BY <1>t, <2>1, <3>1 DEF KeysInv, KeysHeard
  <2> QED BY <2>2, <2>3
<1> QED BY <1>2, <1>3

LEMMA KeysElse ==
  ASSUME MaxBytes < BufSize, IInv, KeysInv, [LNext]_lvars,
         ~LInterrupt, ~LoopReadsByte, ~StreamReadsByte
  PROVE  KeysInv' /\ KeysHeard
<1>1. [Next]_vars /\ StreamAwake'
  BY LoopStep, StreamAwakeStep DEF KeysInv, IInv
<1>2. /\ ~ReadByte
      /\ UNCHANGED <<got, running, streaming, break_due, stop_due>>
      /\ main_pc' = "read" => in_rx_loop' = FALSE \/ (main_pc = "read" /\ in_rx_loop' = in_rx_loop)
                              \/ main_pc = "clear"
  <2> USE DEF loop, modes
  <2>1. CASE LDaemon \/ LUsbTask
    BY <2>1, UsbAssumption DEF LDaemon, TimerDaemon, LUsbTask, UsbTask, UsbWake, UsbScan,
       UsbScanEnd, UsbSignal, UsbDelayOver, ReadByte, IInv, TypeOK
  <2>2. CASE LMainWake
    BY <2>2 DEF LMainWake, MainWake, NewRxLoop, ReadByte
  <2>3. CASE LReadsNothing
    BY <2>3, UsbAssumption DEF LReadsNothing, ReadNothing, EndClear, ReadByte
  <2>4. CASE (BeginClear \/ ClearCell) /\ UNCHANGED loop
    BY <2>4 DEF BeginClear, ClearCell, ReadByte
  <2>5. CASE UNCHANGED lvars
    BY <2>5, UsbAssumption DEF lvars, vars, ReadByte, IInv, TypeOK
  <2> QED BY <2>1, <2>2, <2>3, <2>4, <2>5 DEF LNext, LMainTask
<1>3. ASSUME NEW CONSTANT d, KeyWaits(d) PROVE KeyWaits(d)'
  BY <1>1, <1>2, <1>3, KeyStep
<1>4. break_due # 0 => KeyWaits(break_due)' /\ main_pc # "clear"
  <2>1. PICK d : d = break_due
    OBVIOUS
  <2>2. d # 0 => KeyWaits(d)' /\ main_pc # "clear"
    BY <1>3, <2>1 DEF KeysInv, KeyWaits
  <2> QED BY <1>2, <2>1, <2>2
<1>5. stop_due # 0 => KeyWaits(stop_due)'
  <2>1. PICK d : d = stop_due
    OBVIOUS
  <2>2. d # 0 => KeyWaits(d)'
    BY <1>3, <2>1 DEF KeysInv
  <2> QED BY <1>2, <2>1, <2>2
<1> QED BY <1>1, <1>2, <1>4, <1>5 DEF KeysInv, KeysHeard

\* The safety halves of BreakStops and StopIsHeard: the next byte the loop, or a
\* stream, is handed after its 'b' was pressed is that 'b', and it stops the
\* inference, or the stream (ei_main.cpp:123-136, ei_device_lib.cpp:58-66).
THEOREM BreakIsHeard ==
  ASSUME MaxBytes < BufSize
  PROVE  LSpec => [][got' # got => /\ break_due # 0 => running' = FALSE
                                   /\ stop_due # 0 => streaming' = FALSE]_lvars
<1>1. LInit => IInv /\ KeysInv
  BY InitIInv DEF LInit, KeysInv, StreamAwake
<1>2. IInv /\ KeysInv /\ [LNext]_lvars => IInv' /\ KeysInv' /\ KeysHeard
  BY LoopStep, IInvStep, KeysInterrupt, KeysRead, KeysElse
<1> QED BY <1>1, <1>2, PTL DEF LSpec, KeysHeard
=============================================================================
