-------------------------- MODULE SampleMemoryProofs --------------------------
(***************************************************************************)
(* Proofs about SampleMemory and Recording, for every size of the memory,  *)
(* the configuration and the frames, every header and every sample: as     *)
(* long as the recordings asked for fit, and read-outs begin inside the    *)
(* memory, no access leaves it, neither the configuration nor the          *)
(* recording is ever damaged, and the range that is announced is read as   *)
(* one CBOR document of the samples.                                       *)
(***************************************************************************)
EXTENDS Recording, SequenceTheorems, FiniteSetTheorems, WellFoundedInduction, TLAPS

Available == memory_size - Offset

\* What the device needs and does not enforce: the recording with its last
\* frame and end mark fits, and a range begins in the memory.
Fits ==
  /\ \A n \in Requested :
       HeaderSize + 4 * (Even(n) + FrameSamples - 1) + 4 <= Available
  /\ \A r \in Requests : r[1] <= Available

\* The recording's place in the memory.
Placed ==
  /\ Len(stream) <= Available
  /\ pc = "sampling" =>
       /\ headerOffset = HeaderSize
       /\ cbor_current_sample = 4 * current_sample
       /\ Len(stream) = headerOffset + cbor_current_sample
       /\ \E n \in Requested : samples_required = Even(n)
       /\ current_sample < samples_required + FrameSamples

ReadsInside == address <= Available

IInv ==
  /\ TypeOK /\ StaysInside /\ ConfigSurvives /\ StreamStored
  /\ Placed /\ ReadsInside

-----------------------------------------------------------------------------
(* Arithmetic of the layout and of the memory's two operations *)

\* The configuration fits below Offset, and Offset is in the memory.
LEMMA Layout ==
  /\ memory_size \in Nat \ {0}
  /\ Offset \in Nat /\ Available \in Nat
  /\ config_size <= Offset /\ Offset + Available = memory_size
<1> DEFINE q == config_size \div block_size
           r == config_size % block_size
<1>0. /\ block_size \in Nat \ {0} /\ memory_blocks \in Nat \ {0} /\ config_size \in Nat \ {0}
      /\ used_blocks <= memory_blocks
  BY MemoryAssumption
<1>1. q \in Nat /\ r \in 0 .. block_size - 1 /\ config_size = block_size * q + r
  BY <1>0
<1>2. used_blocks \in Nat /\ config_size <= block_size * used_blocks
  <2>1. CASE config_size < block_size
    BY <1>0, <2>1 DEF used_blocks
  <2>2. CASE ~(config_size < block_size) /\ r = 0
    <3>1. used_blocks = q
      BY <1>0, <1>1, <2>2 DEF used_blocks
    <3> QED  BY <3>1, <1>0, <1>1, <2>2
  <2>3. CASE ~(config_size < block_size) /\ r # 0
    <3>1. used_blocks = q + 1
      BY <1>0, <1>1, <2>3 DEF used_blocks
    <3> HIDE DEF q, r
    <3>2. block_size * (q + 1) = block_size * q + block_size
      BY <1>0, <1>1
    <3> QED  BY <3>1, <3>2, <1>0, <1>1
  <2> QED  BY <2>1, <2>2, <2>3
<1> HIDE DEF q, r
<1>3. \E d \in Nat : memory_blocks = used_blocks + d
  <2>1. memory_blocks - used_blocks \in Nat
    BY <1>0, <1>2
  <2>2. memory_blocks = used_blocks + (memory_blocks - used_blocks)
    BY <1>0, <1>2
  <2> QED  BY <2>1, <2>2
<1>4. PICK d \in Nat : memory_blocks = used_blocks + d
  BY <1>3
<1>5. block_size * memory_blocks = block_size * used_blocks + block_size * d
  BY <1>0, <1>2, <1>4
<1>6. /\ block_size * d \in Nat /\ block_size * used_blocks \in Nat
      /\ block_size * memory_blocks \in Nat \ {0}
      /\ used_blocks * block_size = block_size * used_blocks
  BY <1>0, <1>2, <1>4
<1> QED  BY <1>0, <1>2, <1>5, <1>6 DEF memory_size, Offset, Available

\* From an address inside the memory, a copy is cut to what is left.
LEMMA FitInside ==
  ASSUME NEW a \in 0 .. memory_size, NEW n \in Nat
  PROVE  /\ Inside(a, n) /\ Fit(a, n) \in 0 .. n
         /\ a + n <= memory_size => Fit(a, n) = n
<1>1. memory_size \in Nat /\ Word \in Nat /\ Word > 2 * memory_size
  BY Layout, MemoryAssumption
<1>2. (memory_size - a) % Word = memory_size - a
  BY <1>1
<1> QED  BY <1>1, <1>2 DEF Inside, Fit

\* A sample address inside the memory does not wrap.
LEMMA AddressInside ==
  ASSUME NEW x \in 0 .. Available
  PROVE  SampleAddress(x) = Offset + x /\ SampleAddress(x) \in 0 .. memory_size
<1>1. /\ Offset \in Nat /\ Available \in Nat /\ Offset + Available = memory_size
      /\ Word \in Nat /\ Word > 2 * memory_size
  BY Layout, MemoryAssumption
<1> QED  BY <1>1 DEF SampleAddress

\* What a write leaves and what it changes.
LEMMA WriteEffect ==
  ASSUME NEW m \in [0 .. memory_size - 1 -> Byte], NEW s \in Seq(Byte),
         NEW a \in 0 .. memory_size
  PROVE  /\ Written(m, a, s) \in [0 .. memory_size - 1 -> Byte]
         /\ \A x \in 0 .. memory_size - 1 :
              (x < a \/ x >= a + Len(s)) => Written(m, a, s)[x] = m[x]
         /\ a + Len(s) <= memory_size =>
              \A i \in 1 .. Len(s) : Written(m, a, s)[a + i - 1] = s[i]
<1>1. memory_size \in Nat /\ Len(s) \in Nat
  BY Layout
<1>2. Fit(a, Len(s)) \in 0 .. Len(s) /\ (a + Len(s) <= memory_size => Fit(a, Len(s)) = Len(s))
  BY <1>1, FitInside
<1>3. \A i \in 1 .. Len(s) : s[i] \in Byte
  OBVIOUS
<1>4. \A x \in 0 .. memory_size - 1 : Written(m, a, s)[x] \in Byte
  <2> TAKE x \in 0 .. memory_size - 1
  <2>1. CASE x \in a .. a + Fit(a, Len(s)) - 1
    <3>1. x - a + 1 \in 1 .. Len(s)
      BY <1>1, <1>2, <2>1
    <3> QED  BY <3>1, <1>3, <2>1 DEF Written
  <2>2. CASE x \notin a .. a + Fit(a, Len(s)) - 1
    BY <2>2 DEF Written
  <2> QED  BY <2>1, <2>2
<1>5. Written(m, a, s) \in [0 .. memory_size - 1 -> Byte]
  <2>1. Written(m, a, s) = [x \in 0 .. memory_size - 1 |-> Written(m, a, s)[x]]
    BY DEF Written
  <2> QED  BY <2>1, <1>4
<1>6. \A x \in 0 .. memory_size - 1 :
        (x < a \/ x >= a + Len(s)) => Written(m, a, s)[x] = m[x]
  BY <1>1, <1>2 DEF Written
<1>7. ASSUME a + Len(s) <= memory_size, NEW i \in 1 .. Len(s)
      PROVE  Written(m, a, s)[a + i - 1] = s[i]
  <2>1. /\ a + i - 1 \in 0 .. memory_size - 1
        /\ a + i - 1 \in a .. a + Fit(a, Len(s)) - 1
        /\ (a + i - 1) - a + 1 = i
    BY <1>1, <1>2, <1>7
  <2> QED  BY <2>1 DEF Written
<1> QED  BY <1>5, <1>6, <1>7

\* A function on 1 .. k is a sequence of length k.
LEMMA FunctionIsSeq ==
  ASSUME NEW S, NEW k \in Nat, NEW f \in [1 .. k -> S]
  PROVE  f \in Seq(S) /\ Len(f) = k
OBVIOUS

\* The bytes of configurations, headers, frames and end marks.
LEMMA Contents ==
  ASSUME NEW n \in Nat
  PROVE  /\ Config(n) \in Seq(Byte) /\ Len(Config(n)) = config_size
         /\ Header(n) \in Seq(Byte) /\ Len(Header(n)) = HeaderSize
         /\ Frame(n) \in Seq(Byte) /\ Len(Frame(n)) = 4 * FrameSamples
         /\ end_of_cbor \in Seq(Byte) /\ Len(end_of_cbor) = 4
         /\ end_of_cbor[1] = FF /\ FF \in Byte
<1>1. /\ config_size \in Nat \ {0} /\ HeaderSize \in Nat \ {0} /\ FrameSamples \in Nat \ {0}
  BY MemoryAssumption
<1>2. CborLength = 4 * FrameSamples
  BY <1>1 DEF CborLength
<1>3. Config(n) \in Seq(Byte) /\ Len(Config(n)) = config_size
  <2>1. [i \in 1 .. config_size |-> <<"config", n, i>>] \in [1 .. config_size -> Byte]
    BY <1>1 DEF Byte
  <2>2. [i \in 1 .. config_size |-> <<"zero", 0, 0>>] \in [1 .. config_size -> Byte]
    BY <1>1 DEF Byte
  <2>3. Config(n) \in [1 .. config_size -> Byte]
    BY <2>1, <2>2 DEF Config, Zeros
  <2> QED  BY <1>1, <2>3, FunctionIsSeq
<1>4. Header(n) \in Seq(Byte) /\ Len(Header(n)) = HeaderSize
  <2>1. Header(n) \in [1 .. HeaderSize -> Byte]
    BY <1>1 DEF Header, Byte
  <2> QED  BY <1>1, <2>1, FunctionIsSeq
<1>5. Frame(n) \in Seq(Byte) /\ Len(Frame(n)) = 4 * FrameSamples
  <2>1. Frame(n) \in [1 .. 4 * FrameSamples -> Byte]
    BY <1>1, <1>2 DEF Frame, Byte
  <2>2. 4 * FrameSamples \in Nat
    BY <1>1
  <2> QED  BY <2>1, <2>2, FunctionIsSeq
<1>6. FF \in Byte
  BY DEF Byte, FF
<1>7. end_of_cbor \in Seq(Byte) /\ Len(end_of_cbor) = 4 /\ end_of_cbor[1] = FF
  BY <1>6 DEF end_of_cbor
<1> QED  BY <1>3, <1>4, <1>5, <1>6, <1>7

\* A write behind what is stored leaves the configuration alone and makes the
\* bytes written the recording's next ones.
LEMMA StreamGrows ==
  ASSUME IInv, NEW s \in Seq(Byte), NEW p \in Seq(Byte),
         NEW old \in Seq(Byte),
         \A i \in 1 .. Len(old) : ram[Offset + i - 1] = old[i],
         Len(old) + Len(s) <= Available,
         ram' = Written(ram, SampleAddress(Len(old)), s),
         Len(p) <= Len(s),
         \A i \in 1 .. Len(p) : p[i] = s[i]
  PROVE  /\ ram' \in [0 .. memory_size - 1 -> Byte]
         /\ Inside(SampleAddress(Len(old)), Len(s))
         /\ \A i \in 1 .. config_size : ram'[i - 1] = ram[i - 1]
         /\ old \o p \in Seq(Byte)
         /\ \A i \in 1 .. Len(old \o p) : ram'[Offset + i - 1] = (old \o p)[i]
<1> DEFINE a == SampleAddress(Len(old))
<1>1. /\ Offset \in Nat /\ Available \in Nat /\ Offset + Available = memory_size
      /\ config_size <= Offset /\ config_size \in Nat /\ memory_size \in Nat
  BY Layout, MemoryAssumption
<1>2. Len(old) \in Nat /\ Len(s) \in Nat /\ Len(p) \in Nat
  OBVIOUS
<1>3. a = Offset + Len(old) /\ a \in 0 .. memory_size /\ a + Len(s) <= memory_size
  BY <1>1, <1>2, AddressInside
<1>4. Inside(a, Len(s))
  BY <1>2, <1>3, FitInside
<1>5. ram \in [0 .. memory_size - 1 -> Byte]
  BY DEF IInv, TypeOK
<1> HIDE DEF a
<1>6. /\ ram' \in [0 .. memory_size - 1 -> Byte]
      /\ \A x \in 0 .. memory_size - 1 : x < a => ram'[x] = ram[x]
      /\ \A i \in 1 .. Len(s) : ram'[a + i - 1] = s[i]
  BY <1>3, <1>5, WriteEffect DEF a
<1>7. ASSUME NEW i \in 1 .. config_size
      PROVE  ram'[i - 1] = ram[i - 1]
  <2>1. i - 1 \in 0 .. memory_size - 1 /\ i - 1 < a
    BY <1>1, <1>2, <1>3
  <2> QED  BY <2>1, <1>6
<1>8. /\ old \o p \in Seq(Byte) /\ Len(old \o p) = Len(old) + Len(p)
      /\ \A i \in 1 .. Len(old) + Len(p) :
           (old \o p)[i] = IF i <= Len(old) THEN old[i] ELSE p[i - Len(old)]
  OBVIOUS
<1>9. ASSUME NEW i \in 1 .. Len(old) + Len(p)
      PROVE  ram'[Offset + i - 1] = (old \o p)[i]
  <2>1. CASE i <= Len(old)
    <3>1. Offset + i - 1 \in 0 .. memory_size - 1 /\ Offset + i - 1 < a
      BY <1>1, <1>2, <1>3, <2>1
    <3>2. ram'[Offset + i - 1] = ram[Offset + i - 1]
      BY <3>1, <1>6
    <3>3. ram[Offset + i - 1] = old[i]
      BY <2>1
    <3> QED  BY <3>2, <3>3, <2>1, <1>8
  <2>2. CASE i > Len(old)
    <3>1. i - Len(old) \in 1 .. Len(p) /\ i - Len(old) \in 1 .. Len(s)
      BY <1>2, <2>2
    <3>2. a + (i - Len(old)) - 1 = Offset + i - 1
      BY <1>1, <1>2, <1>3
    <3>3. ram'[Offset + i - 1] = s[i - Len(old)]
      BY <3>1, <3>2, <1>6
    <3>4. p[i - Len(old)] = s[i - Len(old)]
      BY <3>1
    <3> QED  BY <3>3, <3>4, <2>2, <1>2, <1>8
  <2> QED  BY <2>1, <2>2, <1>2
<1> QED  BY <1>4, <1>6, <1>7, <1>8, <1>9 DEF a

-----------------------------------------------------------------------------
(* The inductive invariant *)

LEMMA InitInv == Init => IInv
<1> SUFFICES ASSUME Init PROVE IInv
  OBVIOUS
<1> USE MemoryAssumption
<1>1. memory_size \in Nat \ {0} /\ Available \in Nat /\ Offset \in Nat
      /\ config_size <= Offset /\ Offset + Available = memory_size
  BY Layout
<1>2. ram \in [0 .. memory_size - 1 -> Byte]
  <2>1. <<"zero", 0, 0>> \in Byte
    BY DEF Byte
  <2> QED  BY <2>1 DEF Init
<1>3. TypeOK
  <2>1. outside \in BOOLEAN
    BY Zenon DEF Init
  <2>2. samples_required \in Nat /\ samples_required % 2 = 0
    BY DEF Init
  <2> QED  BY <1>2, <2>1, <2>2 DEF Init, TypeOK
<1>4. StaysInside
  BY DEF Init, StaysInside
<1>5. ConfigSurvives
  <2> SUFFICES ASSUME NEW i \in 1 .. config_size
               PROVE  ram[i - 1] = Config(saved)[i]
    BY DEF ConfigSurvives
  <2>1. i - 1 \in 0 .. memory_size - 1
    BY <1>1
  <2> QED  BY <2>1 DEF Init, Config, Zeros
<1>6. StreamStored /\ Placed /\ ReadsInside
  BY <1>1 DEF Init, StreamStored, Placed, ReadsInside
<1> QED  BY <1>3, <1>4, <1>5, <1>6 DEF IInv

\* Rounding to an even number.
LEMMA EvenFacts ==
  ASSUME NEW n \in Nat
  PROVE  Even(n) \in Nat /\ Even(n) % 2 = 0
<1>1. n % 2 \in {0, 1}
  OBVIOUS
<1>2. CASE n % 2 = 0
  BY <1>2 DEF Even
<1>3. CASE n % 2 = 1
  BY <1>3 DEF Even
<1> QED  BY <1>1, <1>2, <1>3

\* A recording that has not got enough samples has room for a frame, and a
\* finished one for its end mark.
LEMMA Room ==
  ASSUME Fits, IInv, pc = "sampling"
  PROVE  /\ current_sample < samples_required =>
              Len(stream) + 4 * FrameSamples <= Available
         /\ Len(stream) + 4 <= Available
<1>1. PICK n \in Requested : samples_required = Even(n)
  BY DEF IInv, Placed
<1>2. n \in Nat /\ Even(n) \in Nat
  BY EvenFacts, MemoryAssumption
<1>3. HeaderSize + 4 * (Even(n) + FrameSamples - 1) + 4 <= Available
  BY DEF Fits
<1>4. /\ HeaderSize \in Nat /\ FrameSamples \in Nat \ {0} /\ Available \in Nat
  BY MemoryAssumption, Layout
<1>5. /\ Len(stream) = HeaderSize + 4 * current_sample /\ current_sample \in Nat
      /\ current_sample < samples_required + FrameSamples
  BY DEF IInv, Placed, TypeOK
<1> QED  BY <1>1, <1>2, <1>3, <1>4, <1>5

\* Saving the configuration changes the memory below Offset only.
LEMMA SaveStep == IInv /\ save_config => IInv'
<1> SUFFICES ASSUME IInv, save_config PROVE IInv'
  OBVIOUS
<1>1. PICK n \in 1 .. 2 :
        /\ saved' = n
        /\ ram' = Written(Written(ram, 0, Zeros(Offset)), 0, Config(n))
  BY DEF save_config
<1>2. /\ Offset \in Nat /\ Available \in Nat /\ Offset + Available = memory_size
      /\ config_size <= Offset /\ config_size \in Nat /\ memory_size \in Nat \ {0}
  BY Layout, MemoryAssumption
<1>3. Config(n) \in Seq(Byte) /\ Len(Config(n)) = config_size
  BY Contents
<1>4. Zeros(Offset) \in Seq(Byte) /\ Len(Zeros(Offset)) = Offset
  <2>1. Zeros(Offset) \in [1 .. Offset -> Byte]
    BY <1>2 DEF Zeros, Byte
  <2> QED  BY <1>2, <2>1, FunctionIsSeq
<1> DEFINE erased == Written(ram, 0, Zeros(Offset))
<1>5. /\ erased \in [0 .. memory_size - 1 -> Byte]
      /\ \A x \in 0 .. memory_size - 1 : x >= Offset => erased[x] = ram[x]
  <2>1. ram \in [0 .. memory_size - 1 -> Byte] /\ 0 \in 0 .. memory_size
    BY <1>2 DEF IInv, TypeOK
  <2>2. /\ erased \in [0 .. memory_size - 1 -> Byte]
        /\ \A x \in 0 .. memory_size - 1 :
             (x < 0 \/ x >= 0 + Len(Zeros(Offset))) => erased[x] = ram[x]
    BY <2>1, <1>4, WriteEffect
  <2> QED  BY <2>2, <1>2, <1>4
<1> HIDE DEF erased
<1>6. /\ ram' \in [0 .. memory_size - 1 -> Byte]
      /\ \A x \in 0 .. memory_size - 1 : x >= config_size => ram'[x] = erased[x]
      /\ \A i \in 1 .. config_size : ram'[0 + i - 1] = Config(n)[i]
  <2>1. ram' = Written(erased, 0, Config(n)) /\ 0 \in 0 .. memory_size
    BY <1>1, <1>2 DEF erased
  <2>2. 0 + Len(Config(n)) <= memory_size
    BY <1>2, <1>3
  <2>3. /\ ram' \in [0 .. memory_size - 1 -> Byte]
        /\ \A x \in 0 .. memory_size - 1 :
             (x < 0 \/ x >= 0 + Len(Config(n))) => ram'[x] = erased[x]
        /\ \A i \in 1 .. Len(Config(n)) : ram'[0 + i - 1] = Config(n)[i]
    BY <2>1, <2>2, <1>3, <1>5, WriteEffect
  <2> QED  BY <2>3, <1>2, <1>3
<1>7. TypeOK'
  BY <1>1, <1>6 DEF IInv, TypeOK, save_config, recording, reader
<1>8. StaysInside' /\ Placed' /\ ReadsInside'
  BY DEF IInv, StaysInside, Placed, ReadsInside, save_config, recording, reader
<1>9. ConfigSurvives'
  <2> SUFFICES ASSUME NEW i \in 1 .. config_size
               PROVE  ram'[i - 1] = Config(saved')[i]
    BY DEF ConfigSurvives
  <2>1. 0 + i - 1 = i - 1
    BY <1>2
  <2> QED  BY <2>1, <1>1, <1>6
<1>10. StreamStored'
  <2> SUFFICES ASSUME NEW i \in 1 .. Len(stream)
               PROVE  ram'[Offset + i - 1] = stream[i]
    BY DEF StreamStored, save_config
  <2>1. Len(stream) \in Nat /\ Len(stream) <= Available
    BY DEF IInv, TypeOK, Placed
  <2>2. Offset + i - 1 \in 0 .. memory_size - 1 /\ Offset + i - 1 >= Offset
    BY <2>1, <1>2
  <2>3. ram'[Offset + i - 1] = ram[Offset + i - 1]
    BY <2>2, <1>2, <1>5, <1>6
  <2> QED  BY <2>3 DEF IInv, StreamStored
<1> QED  BY <1>7, <1>8, <1>9, <1>10 DEF IInv

\* A recording starts with its header at the front of the sample memory.
LEMMA StartStep == Fits /\ IInv /\ SampleStart => IInv'
<1> SUFFICES ASSUME Fits, IInv, SampleStart PROVE IInv'
  OBVIOUS
<1> DEFINE h == Header(captured)
<1>1. PICK n \in Requested : Begin(n)
  BY DEF SampleStart
<1>2. n \in Nat /\ Even(n) \in Nat /\ Even(n) % 2 = 0
  BY EvenFacts, MemoryAssumption
<1>3. captured \in Nat /\ h \in Seq(Byte) /\ Len(h) = HeaderSize
  BY Contents, MemoryAssumption DEF IInv, TypeOK
<1>4. HeaderSize \in Nat /\ FrameSamples \in Nat \ {0} /\ HeaderSize <= Available
  <2>1. Available \in Nat
    BY Layout
  <2> QED  BY <1>2, <2>1, MemoryAssumption DEF Fits
<1>5. /\ ram' = Written(ram, SampleAddress(0), h)
      /\ outside' = ~Inside(SampleAddress(0), Len(h))
      /\ stream' = h
  BY DEF SampleStart, write_sample_data, write_data
<1> HIDE DEF h
<1>6. /\ ram' \in [0 .. memory_size - 1 -> Byte]
      /\ Inside(SampleAddress(0), Len(h))
      /\ \A i \in 1 .. config_size : ram'[i - 1] = ram[i - 1]
      /\ <<>> \o h \in Seq(Byte)
      /\ \A i \in 1 .. Len(<<>> \o h) : ram'[Offset + i - 1] = (<<>> \o h)[i]
  <2>1. /\ <<>> \in Seq(Byte) /\ Len(<<>>) = 0
        /\ \A i \in 1 .. Len(<<>>) : ram[Offset + i - 1] = (<<>>)[i]
        /\ Len(<<>>) + Len(h) <= Available
    BY <1>3, <1>4
  <2>2. ram' = Written(ram, SampleAddress(Len(<<>>)), h)
    BY <2>1, <1>5
  <2>3. Len(h) <= Len(h) /\ \A i \in 1 .. Len(h) : h[i] = h[i]
    BY <1>3, <1>4
  <2>4. /\ ram' \in [0 .. memory_size - 1 -> Byte]
        /\ Inside(SampleAddress(Len(<<>>)), Len(h))
        /\ \A i \in 1 .. config_size : ram'[i - 1] = ram[i - 1]
        /\ <<>> \o h \in Seq(Byte)
        /\ \A i \in 1 .. Len(<<>> \o h) : ram'[Offset + i - 1] = (<<>> \o h)[i]
    BY <2>1, <2>2, <2>3, <1>3, StreamGrows
  <2> QED  BY <2>1, <2>4
<1>7. <<>> \o h = h
  BY <1>3
<1>8. TypeOK'
  <2>1. outside' \in BOOLEAN
    BY <1>5, <1>6, Zenon
  <2>2. samples_required' = Even(n) /\ current_sample' = 0 /\ cbor_current_sample' = 0
    BY <1>1 DEF Begin
  <2> QED  BY <1>2, <1>3, <1>5, <1>6, <2>1, <2>2 DEF IInv, TypeOK, SampleStart
<1>9. StaysInside'
  BY <1>5, <1>6 DEF StaysInside
<1>10. ConfigSurvives'
  BY <1>6 DEF IInv, ConfigSurvives, SampleStart
<1>11. StreamStored'
  BY <1>5, <1>6, <1>7 DEF StreamStored
<1>12. Placed'
  <2>1. samples_required' = Even(n) /\ current_sample' = 0 /\ cbor_current_sample' = 0
    BY <1>1 DEF Begin
  <2> QED  BY <2>1, <1>2, <1>3, <1>4, <1>5 DEF Placed, SampleStart
<1>13. ReadsInside'
  BY DEF IInv, ReadsInside, SampleStart
<1> QED  BY <1>8, <1>9, <1>10, <1>11, <1>12, <1>13 DEF IInv

\* A frame follows what is stored.
LEMMA FrameStep == Fits /\ IInv /\ ingestion_callback => IInv'
<1> SUFFICES ASSUME Fits, IInv, ingestion_callback PROVE IInv'
  OBVIOUS
<1> DEFINE f == Frame(captured)
<1>1. captured \in Nat /\ f \in Seq(Byte) /\ Len(f) = 4 * FrameSamples
  BY Contents, MemoryAssumption DEF IInv, TypeOK
<1>2. /\ pc = "sampling" /\ current_sample < samples_required
      /\ NextAddress = Len(stream)
      /\ stream \in Seq(Byte)
      /\ HeaderSize \in Nat /\ FrameSamples \in Nat \ {0}
  BY MemoryAssumption DEF ingestion_callback, NextFrame, NextAddress, IInv, Placed, TypeOK
<1>3. Len(stream) + Len(f) <= Available
  BY <1>1, <1>2, Room
<1>4. /\ ram' = Written(ram, SampleAddress(Len(stream)), f)
      /\ outside' = ~Inside(SampleAddress(Len(stream)), Len(f))
      /\ stream' = stream \o f
  BY <1>2 DEF ingestion_callback, write_sample_data, write_data
<1> HIDE DEF f
<1>5. /\ ram' \in [0 .. memory_size - 1 -> Byte]
      /\ Inside(SampleAddress(Len(stream)), Len(f))
      /\ \A i \in 1 .. config_size : ram'[i - 1] = ram[i - 1]
      /\ stream \o f \in Seq(Byte)
      /\ \A i \in 1 .. Len(stream \o f) : ram'[Offset + i - 1] = (stream \o f)[i]
  <2>1. \A i \in 1 .. Len(stream) : ram[Offset + i - 1] = stream[i]
    BY DEF IInv, StreamStored
  <2>2. Len(f) <= Len(f) /\ \A i \in 1 .. Len(f) : f[i] = f[i]
    BY <1>1, <1>2
  <2> QED  BY <2>1, <2>2, <1>1, <1>2, <1>3, <1>4, StreamGrows
<1>6. /\ cbor_current_sample' = cbor_current_sample + 4 * FrameSamples
      /\ current_sample' = current_sample + FrameSamples
  BY <1>2 DEF ingestion_callback, CborLength
<1>7. TypeOK'
  <2>1. outside' \in BOOLEAN
    BY <1>4, <1>5, Zenon
  <2>2. captured' \in 0 .. MaxFrames
    BY MemoryAssumption DEF IInv, TypeOK, ingestion_callback, NextFrame
  <2>3. cbor_current_sample' \in Nat /\ current_sample' \in Nat
    BY <1>2, <1>6 DEF IInv, TypeOK
  <2> QED  BY <1>4, <1>5, <2>1, <2>2, <2>3
            DEF IInv, TypeOK, ingestion_callback, NextFrame, reader
<1>8. StaysInside'
  BY <1>4, <1>5 DEF StaysInside
<1>9. ConfigSurvives'
  BY <1>5 DEF IInv, ConfigSurvives, ingestion_callback, NextFrame
<1>10. StreamStored'
  BY <1>4, <1>5 DEF StreamStored
<1>11. Placed'
  <2>1. Len(stream') = Len(stream) + 4 * FrameSamples
    <3>1. Len(stream \o f) = Len(stream) + Len(f)
      BY <1>1, <1>2
    <3> QED  BY <3>1, <1>1, <1>4
  <2>2. samples_required' = samples_required /\ headerOffset' = headerOffset /\ pc' = pc
    BY DEF ingestion_callback, NextFrame
  <2>3. /\ headerOffset = HeaderSize
        /\ cbor_current_sample = 4 * current_sample
        /\ Len(stream) = headerOffset + cbor_current_sample
        /\ \E n \in Requested : samples_required = Even(n)
        /\ current_sample \in Nat /\ samples_required \in Nat
    BY <1>2 DEF IInv, Placed, TypeOK
  <2>4. Len(stream') <= Available
    BY <2>1, <1>1, <1>3
  <2>5. current_sample' < samples_required' + FrameSamples
    BY <2>2, <2>3, <1>2, <1>6
  <2> QED  BY <2>1, <2>2, <2>3, <2>4, <2>5, <1>2, <1>6 DEF Placed
<1>12. ReadsInside'
  BY DEF IInv, ReadsInside, ingestion_callback, NextFrame, reader
<1> QED  BY <1>7, <1>8, <1>9, <1>10, <1>11, <1>12 DEF IInv

\* The end mark follows the last frame.
LEMMA EndStep == Fits /\ IInv /\ SampleEnd => IInv'
<1> SUFFICES ASSUME Fits, IInv, SampleEnd PROVE IInv'
  OBVIOUS
<1>1. /\ end_of_cbor \in Seq(Byte) /\ Len(end_of_cbor) = 4 /\ end_of_cbor[1] = FF
      /\ FF \in Byte
  BY Contents
<1>2. /\ pc = "sampling" /\ NextAddress = Len(stream) /\ NextAddress \in Nat
      /\ stream \in Seq(Byte) /\ Available \in Nat
  BY Layout, MemoryAssumption DEF SampleEnd, NextAddress, IInv, Placed, TypeOK
<1>3. Len(stream) + Len(end_of_cbor) <= Available
  BY <1>1, <1>2, Room
<1>4. /\ ram' = Written(ram, SampleAddress(Len(stream)), end_of_cbor)
      /\ outside' = ~Inside(SampleAddress(Len(stream)), Len(end_of_cbor))
      /\ stream' = stream \o <<FF>>
  BY <1>2 DEF SampleEnd, write_sample_data, write_data
<1>5. /\ <<FF>> \in Seq(Byte) /\ Len(<<FF>>) = 1
      /\ \A i \in 1 .. Len(<<FF>>) : <<FF>>[i] = end_of_cbor[i]
  BY <1>1
<1>6. /\ ram' \in [0 .. memory_size - 1 -> Byte]
      /\ Inside(SampleAddress(Len(stream)), Len(end_of_cbor))
      /\ \A i \in 1 .. config_size : ram'[i - 1] = ram[i - 1]
      /\ stream \o <<FF>> \in Seq(Byte)
      /\ \A i \in 1 .. Len(stream \o <<FF>>) :
           ram'[Offset + i - 1] = (stream \o <<FF>>)[i]
  <2>1. \A i \in 1 .. Len(stream) : ram[Offset + i - 1] = stream[i]
    BY DEF IInv, StreamStored
  <2>2. Len(<<FF>>) <= Len(end_of_cbor)
    BY <1>1, <1>5
  <2> QED  BY <2>1, <2>2, <1>1, <1>2, <1>3, <1>4, <1>5, StreamGrows
<1>7. TypeOK'
  <2>1. outside' \in BOOLEAN
    BY <1>4, <1>6, Zenon
  <2>2. announced' \in Nat
    BY <1>2 DEF SampleEnd
  <2> QED  BY <1>4, <1>6, <2>1, <2>2 DEF IInv, TypeOK, SampleEnd, recording, reader
<1>8. StaysInside'
  BY <1>4, <1>6 DEF StaysInside
<1>9. ConfigSurvives'
  BY <1>6 DEF IInv, ConfigSurvives, SampleEnd
<1>10. StreamStored'
  BY <1>4, <1>6 DEF StreamStored
<1>11. Placed'
  <2>1. Len(stream') = Len(stream) + 1
    BY <1>2, <1>4, <1>5
  <2> QED  BY <2>1, <1>1, <1>2, <1>3 DEF Placed, SampleEnd
<1>12. ReadsInside'
  BY DEF IInv, ReadsInside, SampleEnd, reader
<1> QED  BY <1>7, <1>8, <1>9, <1>10, <1>11, <1>12 DEF IInv

\* A chunk is read from inside the memory and moves no further than its end.
LEMMA ChunkStep == IInv /\ SendChunk => IInv'
<1> SUFFICES ASSUME IInv, SendChunk PROVE IInv'
  OBVIOUS
<1> DEFINE n == bytes_to_read
           a == SampleAddress(address)
           chunk == [i \in 1 .. n |-> ram[a + i - 1]]
<1>1. /\ address \in 0 .. Available /\ n \in Nat /\ length - n \in Nat
  BY MemoryAssumption, Layout DEF IInv, TypeOK, ReadsInside, bytes_to_read
<1>2. /\ a = Offset + address /\ a \in 0 .. memory_size
      /\ Offset \in Nat /\ Available \in Nat /\ Offset + Available = memory_size
  BY <1>1, AddressInside, Layout
<1>3. Inside(a, n)
  BY <1>1, <1>2, FitInside
<1>4. /\ outside' = outside /\ ram' = ram /\ stream' = stream /\ saved' = saved
      /\ UNCHANGED <<samples_required, current_sample, cbor_current_sample, headerOffset,
                     captured, announced, asked>>
      /\ pc = "reading" /\ pc' \in {"idle", "reading"}
      /\ result' \in {result, "failed"}
      /\ \/ UNCHANGED <<address, length, sent>>
         \/ /\ Fit(a, n) = n
            /\ sent' = sent \o Quads(chunk)
            /\ address' = address + n /\ length' = length - n
  BY <1>3 DEF SendChunk, recording, reader
<1>5. address' \in Nat /\ address' <= Available /\ length' \in Nat /\ sent' \in Seq(Seq(Byte))
  <2>1. CASE UNCHANGED <<address, length, sent>>
    BY <2>1 DEF IInv, TypeOK, ReadsInside
  <2>2. CASE /\ Fit(a, n) = n
             /\ sent' = sent \o Quads(chunk)
             /\ address' = address + n /\ length' = length - n
    <3>1. n = 0 \/ a + n <= memory_size
      BY <2>2, <1>3 DEF Inside
    <3>2. chunk \in Seq(Byte)
      <4>1. ASSUME NEW i \in 1 .. n PROVE ram[a + i - 1] \in Byte
        <5>1. a + i - 1 \in 0 .. memory_size - 1
          BY <3>1, <1>1, <1>2
        <5> QED  BY <5>1 DEF IInv, TypeOK
      <4> QED  BY <4>1, <1>1, FunctionIsSeq
    <3> HIDE DEF chunk
    <3>3. Quads(chunk) \in Seq(Seq(Byte))
      <4> DEFINE L == Len(chunk)
                 quad(k) == SubSeq(chunk, 3 * k - 2, IF 3 * k < L THEN 3 * k ELSE L)
      <4>1. L \in Nat /\ (L + 2) \div 3 \in Nat
        BY <3>2
      <4>2. ASSUME NEW k \in 1 .. (L + 2) \div 3 PROVE quad(k) \in Seq(Byte)
        <5>1. /\ 3 * k - 2 \in 1 .. L
              /\ (IF 3 * k < L THEN 3 * k ELSE L) \in 0 .. L
          BY <4>1
        <5> QED  BY <5>1, <3>2, SubSeqProperties
      <4>3. Quads(chunk) = [k \in 1 .. (L + 2) \div 3 |-> quad(k)]
        BY DEF Quads
      <4> HIDE DEF quad, L
      <4> QED  BY <4>1, <4>2, <4>3, FunctionIsSeq
    <3>4. sent' \in Seq(Seq(Byte))
      BY <2>2, <3>3 DEF IInv, TypeOK
    <3> QED  BY <2>2, <3>1, <3>4, <1>1, <1>2
  <2> QED  BY <1>4, <2>1, <2>2
<1> HIDE DEF a, n, chunk
<1>6. TypeOK'
  <2>1. outside' \in BOOLEAN
    BY <1>4, Zenon DEF IInv, TypeOK
  <2> QED  BY <1>4, <1>5, <2>1 DEF IInv, TypeOK
<1>7. StaysInside' /\ ConfigSurvives' /\ StreamStored' /\ Placed' /\ ReadsInside'
  BY <1>4, <1>5 DEF IInv, StaysInside, ConfigSurvives, StreamStored, Placed, ReadsInside
<1> QED  BY <1>6, <1>7 DEF IInv

LEMMA NextInv == Fits /\ IInv /\ [Next]_vars => IInv'
<1> SUFFICES ASSUME Fits, IInv, [Next]_vars PROVE IInv'
  OBVIOUS
<1>1. CASE save_config
  BY <1>1, SaveStep
<1>2. CASE SampleStart
  BY <1>2, StartStep
<1>3. CASE HeaderFails
  <2>1. PICK n \in Requested : Begin(n)
    BY <1>3 DEF HeaderFails
  <2>2. Even(n) \in Nat /\ Even(n) % 2 = 0
    BY EvenFacts, MemoryAssumption
  <2>3. TypeOK'
    BY <1>3, <2>1, <2>2 DEF IInv, TypeOK, HeaderFails, Begin, reader
  <2>4. StaysInside' /\ ConfigSurvives' /\ StreamStored' /\ Placed' /\ ReadsInside'
    BY <1>3, <2>1
       DEF IInv, StaysInside, ConfigSurvives, StreamStored, Placed, ReadsInside,
           HeaderFails, Begin, reader
  <2> QED  BY <2>3, <2>4 DEF IInv
<1>4. CASE ingestion_callback
  BY <1>4, FrameStep
<1>5. CASE FrameDropped
  <2>1. TypeOK'
    BY <1>5, MemoryAssumption DEF IInv, TypeOK, FrameDropped, NextFrame, reader
  <2>2. StaysInside' /\ ConfigSurvives' /\ StreamStored' /\ Placed' /\ ReadsInside'
    BY <1>5
       DEF IInv, StaysInside, ConfigSurvives, StreamStored, Placed, ReadsInside,
           FrameDropped, NextFrame, reader
  <2> QED  BY <2>1, <2>2 DEF IInv
<1>6. CASE SampleEnd
  BY <1>6, EndStep
<1>7. CASE at_read_buffer
  <2>1. PICK r \in Requests \cup {<<0, announced>>} :
          asked' = r /\ address' = r[1] /\ length' = r[2]
    BY <1>7 DEF at_read_buffer
  <2>2. r \in Nat \X Nat /\ r[1] <= Available
    BY MemoryAssumption, Layout DEF IInv, TypeOK, Fits
  <2>3. TypeOK'
    BY <1>7, <2>1, <2>2 DEF IInv, TypeOK, at_read_buffer, recording
  <2>4. ReadsInside'
    BY <2>1, <2>2, Layout DEF ReadsInside
  <2>5. StaysInside' /\ ConfigSurvives' /\ StreamStored' /\ Placed'
    BY <1>7
       DEF IInv, StaysInside, ConfigSurvives, StreamStored, Placed, at_read_buffer, recording
  <2> QED  BY <2>3, <2>4, <2>5 DEF IInv
<1>8. CASE SendChunk
  BY <1>8, ChunkStep
<1>9. CASE ReadDone
  <2>1. TypeOK'
    BY <1>9 DEF IInv, TypeOK, ReadDone, recording
  <2>2. StaysInside' /\ ConfigSurvives' /\ StreamStored' /\ Placed' /\ ReadsInside'
    BY <1>9
       DEF IInv, StaysInside, ConfigSurvives, StreamStored, Placed, ReadsInside,
           ReadDone, recording
  <2> QED  BY <2>1, <2>2 DEF IInv
<1>10. CASE UNCHANGED vars
  BY <1>10 DEF IInv, TypeOK, StaysInside, ConfigSurvives, StreamStored, Placed,
               ReadsInside, vars, recording, reader
<1> QED  BY <1>1, <1>2, <1>3, <1>4, <1>5, <1>6, <1>7, <1>8, <1>9, <1>10 DEF Next

\* The inductive invariant holds of every behaviour with requests that fit.
LEMMA Invariant == ASSUME Fits PROVE Spec => []IInv
<1>1. Fits
  OBVIOUS
<1>2. IInv /\ [Next]_vars => IInv'
  BY <1>1, NextInv
<1> QED  BY <1>2, InitInv, PTL DEF Spec

-----------------------------------------------------------------------------

\* Every variable keeps its type; the number of samples is even.
THEOREM TypeCorrect == ASSUME Fits PROVE Spec => []TypeOK
<1>1. IInv => TypeOK
  BY DEF IInv
<1> QED  BY <1>1, Invariant, PTL

\* Requests that fit, and ranges that begin inside the memory even if they
\* reach over its end, make no access outside ram_memory.
THEOREM AccessesInside == ASSUME Fits PROVE Spec => []StaysInside
<1>1. IInv => StaysInside
  BY DEF IInv
<1> QED  BY <1>1, Invariant, PTL

\* No recording damages the configuration that was saved last.
THEOREM ConfigKept == ASSUME Fits PROVE Spec => []ConfigSurvives
<1>1. IInv => ConfigSurvives
  BY DEF IInv
<1> QED  BY <1>1, Invariant, PTL

\* The sample memory always holds the recording, whatever frames were dropped
\* and whenever the configuration is saved.
THEOREM RecordingKept == ASSUME Fits PROVE Spec => []StreamStored
<1>1. IInv => StreamStored
  BY DEF IInv
<1> QED  BY <1>1, Invariant, PTL

-----------------------------------------------------------------------------
(* What a read-out sends *)

\* "divisible by 3": the reader's chunk is a whole number of quads, 513 bytes.
Thirds == buffer_size % 3 = 0

\* The n bytes of sample memory from x.
Stored(x, n) == [i \in 1 .. n |-> ram[Offset + x + i - 1]]

\* How far a read-out has come: what is left and what was sent make the range
\* that was asked for, and only the last chunk may end inside a quad.
ReadSoFar ==
  /\ asked[1] <= address /\ address + length = asked[1] + asked[2]
  /\ length = 0 \/ (address - asked[1]) % 3 = 0
  /\ sent = Quads(Stored(asked[1], address - asked[1]))

ReadInv ==
  /\ pc \in {"sampling", "reading"} => result = "none"
  /\ pc = "reading" \/ result = "ok" => ReadSoFar
  /\ result = "ok" => length = 0

\* The range that is announced is that of the recording.
AnnouncedInv ==
  /\ pc = "sampling" => announced = 0
  /\ announced # 0 => announced = Len(stream)

\* What is stored is a sequence of bytes.
LEMMA StoredBytes ==
  ASSUME IInv, NEW x \in Nat, NEW n \in Nat, x + n <= Available
  PROVE  Stored(x, n) \in Seq(Byte) /\ Len(Stored(x, n)) = n
<1>1. Offset \in Nat /\ Available \in Nat /\ Offset + Available = memory_size
  BY Layout
<1>2. ASSUME NEW i \in 1 .. n PROVE ram[Offset + x + i - 1] \in Byte
  <2>1. Offset + x + i - 1 \in 0 .. memory_size - 1
    BY <1>1
  <2> QED BY <2>1 DEF IInv, TypeOK
<1>3. Stored(x, n) \in [1 .. n -> Byte]
  BY <1>2 DEF Stored
<1> QED BY <1>3, FunctionIsSeq

\* Quad k of s.
Quad(s, k) == SubSeq(s, 3 * k - 2, IF 3 * k < Len(s) THEN 3 * k ELSE Len(s))

LEMMA QuadsAre ==
  ASSUME NEW s \in Seq(Byte)
  PROVE  /\ Quads(s) \in Seq(Seq(Byte)) /\ Len(Quads(s)) = (Len(s) + 2) \div 3
         /\ \A k \in 1 .. (Len(s) + 2) \div 3 : Quads(s)[k] = Quad(s, k)
<1> DEFINE L == (Len(s) + 2) \div 3
<1>1. Len(s) \in Nat /\ L \in Nat
  OBVIOUS
<1>2. ASSUME NEW k \in 1 .. L PROVE Quad(s, k) \in Seq(Byte)
  <2>1. 3 * k - 2 \in 1 .. Len(s) /\ (IF 3 * k < Len(s) THEN 3 * k ELSE Len(s)) \in 1 .. Len(s)
    BY <1>1
  <2> QED BY <2>1 DEF Quad
<1>3. Quads(s) = [k \in 1 .. L |-> Quad(s, k)]
  BY Zenon DEF Quads, Quad
<1> HIDE DEF L
<1>4. Quads(s) \in [1 .. L -> Seq(Byte)]
  BY <1>2, <1>3
<1>5. Quads(s) \in Seq(Seq(Byte)) /\ Len(Quads(s)) = L
  BY <1>1, <1>4, FunctionIsSeq
<1> QED BY <1>3, <1>5 DEF L

\* A sub-sequence, element by element.
LEMMA SubBytes ==
  ASSUME NEW s \in Seq(Byte), NEW a \in Nat \ {0}, NEW b \in 0 .. Len(s), a <= b + 1
  PROVE  /\ SubSeq(s, a, b) \in Seq(Byte) /\ Len(SubSeq(s, a, b)) = b - a + 1
         /\ \A i \in 1 .. b - a + 1 : SubSeq(s, a, b)[i] = s[a + i - 1]
  OBVIOUS

\* Sequences of the same bytes.
LEMMA SameBytes ==
  ASSUME NEW s \in Seq(Byte), NEW t \in Seq(Byte), NEW n \in Nat, Len(s) = n, Len(t) = n,
         \A i \in 1 .. n : s[i] = t[i]
  PROVE  s = t
  OBVIOUS

\* u is s, and t behind it.
Joins(u, s, t) ==
  /\ Len(u) = Len(s) + Len(t)
  /\ \A i \in 1 .. Len(s) : u[i] = s[i]
  /\ \A i \in 1 .. Len(t) : u[Len(s) + i] = t[i]

LEMMA TwoParts ==
  ASSUME NEW S, NEW s \in Seq(S), NEW t \in Seq(S), NEW u \in Seq(S), Joins(u, s, t)
  PROVE  u = s \o t
<1> DEFINE v == s \o t
           m == Len(s)
           n == Len(t)
<1>0. m \in Nat /\ n \in Nat
  OBVIOUS
<1>1. /\ v \in Seq(S) /\ Len(v) = m + n
      /\ \A i \in 1 .. m : v[i] = s[i]
      /\ \A i \in m + 1 .. m + n : v[i] = t[i - m]
  OBVIOUS
<1>2. /\ Len(u) = m + n
      /\ \A i \in 1 .. m : u[i] = s[i]
      /\ \A i \in 1 .. n : u[m + i] = t[i]
  BY DEF Joins
<1> HIDE DEF v, m, n
<1>3. ASSUME NEW i \in 1 .. m + n PROVE u[i] = v[i]
  <2>1. CASE i <= m
    BY <1>0, <1>1, <1>2, <2>1
  <2>2. CASE i > m
    <3>1. i - m \in 1 .. n /\ m + (i - m) = i /\ i \in m + 1 .. m + n
      BY <1>0, <2>2
    <3>2. v[i] = t[i - m]
      BY <1>1, <3>1
    <3>3. u[m + (i - m)] = t[i - m]
      BY <1>2, <3>1
    <3> QED BY <3>1, <3>2, <3>3
  <2> QED BY <1>0, <2>1, <2>2
<1>4. u = v
  BY <1>0, <1>1, <1>2, <1>3
<1> QED BY <1>4 DEF v

\* Whole quads are encoded the same whether more follows them or not.
LEMMA QuadsOfParts ==
  ASSUME NEW s \in Seq(Byte), NEW t \in Seq(Byte), Len(s) % 3 = 0
  PROVE  Quads(s \o t) = Quads(s) \o Quads(t)
<1> DEFINE u == s \o t
           m == Len(s) \div 3
           p == (Len(t) + 2) \div 3
<1>1. /\ u \in Seq(Byte) /\ Len(u) = Len(s) + Len(t)
      /\ \A i \in 1 .. Len(s) : u[i] = s[i]
      /\ \A i \in 1 .. Len(t) : u[Len(s) + i] = t[i]
  OBVIOUS
<1>2. Len(s) \in Nat /\ Len(t) \in Nat /\ m \in Nat /\ p \in Nat /\ Len(s) = 3 * m
  OBVIOUS
<1>3. (Len(s) + 2) \div 3 = m /\ (Len(u) + 2) \div 3 = m + p
  <2> HIDE DEF m, u
  <2>1. (3 * m + 2) \div 3 = m /\ (3 * m + Len(t) + 2) \div 3 = m + (Len(t) + 2) \div 3
    BY <1>2
  <2> QED BY <2>1, <1>1, <1>2
<1> HIDE DEF u, m, p
<1>4. /\ Quads(u) \in Seq(Seq(Byte)) /\ Len(Quads(u)) = m + p
      /\ \A k \in 1 .. m + p : Quads(u)[k] = Quad(u, k)
  BY Zenon, <1>1, <1>3, QuadsAre
<1>5. /\ Quads(s) \in Seq(Seq(Byte)) /\ Len(Quads(s)) = m
      /\ \A k \in 1 .. m : Quads(s)[k] = Quad(s, k)
  BY Zenon, <1>3, QuadsAre
<1>6. /\ Quads(t) \in Seq(Seq(Byte)) /\ Len(Quads(t)) = p
      /\ \A k \in 1 .. p : Quads(t)[k] = Quad(t, k)
  BY Zenon, QuadsAre DEF p
<1>7. ASSUME NEW k \in 1 .. m PROVE Quad(u, k) = Quad(s, k)
  <2>1. /\ Quad(u, k) = SubSeq(u, 3 * k - 2, 3 * k) /\ Quad(s, k) = SubSeq(s, 3 * k - 2, 3 * k)
    <3>1. (IF 3 * k < Len(u) THEN 3 * k ELSE Len(u)) = 3 * k
          /\ (IF 3 * k < Len(s) THEN 3 * k ELSE Len(s)) = 3 * k
      BY <1>1, <1>2
    <3> QED BY Zenon, <3>1 DEF Quad
  <2>2. /\ 3 * k - 2 \in Nat \ {0} /\ 3 * k \in 0 .. Len(u) /\ 3 * k \in 0 .. Len(s)
        /\ 3 * k - 2 <= 3 * k + 1
    BY <1>1, <1>2
  <2>3. \A i \in 1 .. 3 * k - (3 * k - 2) + 1 : u[3 * k - 2 + i - 1] = s[3 * k - 2 + i - 1]
    <3> TAKE i \in 1 .. 3 * k - (3 * k - 2) + 1
    <3>1. 3 * k - 2 + i - 1 \in 1 .. Len(s)
      BY <1>2
    <3> QED BY <1>1, <3>1
  <2> DEFINE a == 3 * k - 2
             b == 3 * k
  <2>4. a \in Nat \ {0} /\ b \in 0 .. Len(u) /\ b \in 0 .. Len(s) /\ a <= b + 1
        /\ \A i \in 1 .. b - a + 1 : u[a + i - 1] = s[a + i - 1]
    BY <2>2, <2>3
  <2> HIDE DEF a, b
  <2>5. SubSeq(u, a, b) = SubSeq(s, a, b)
    <3>1. /\ SubSeq(u, a, b) \in Seq(Byte) /\ Len(SubSeq(u, a, b)) = b - a + 1
          /\ \A i \in 1 .. b - a + 1 : SubSeq(u, a, b)[i] = u[a + i - 1]
      BY <1>1, <2>4, SubBytes
    <3>2. /\ SubSeq(s, a, b) \in Seq(Byte) /\ Len(SubSeq(s, a, b)) = b - a + 1
          /\ \A i \in 1 .. b - a + 1 : SubSeq(s, a, b)[i] = s[a + i - 1]
      BY <1>1, <2>4, SubBytes
    <3>3. b - a + 1 \in Nat
      BY <1>1, <2>4
    <3> DEFINE f == SubSeq(u, a, b)
               g == SubSeq(s, a, b)
               l == b - a + 1
    <3>4. f \in Seq(Byte) /\ g \in Seq(Byte) /\ l \in Nat /\ Len(f) = l /\ Len(g) = l
          /\ \A i \in 1 .. l : f[i] = g[i]
      BY Zenon, <2>4, <3>1, <3>2, <3>3
    <3> HIDE DEF f, g, l
    <3>5. f = g
      BY Zenon, <3>4, SameBytes
    <3> QED BY <3>5 DEF f, g
  <2> QED BY <2>1, <2>5 DEF a, b
<1>8. ASSUME NEW k \in 1 .. p PROVE Quad(u, m + k) = Quad(t, k)
  <2> DEFINE a == 3 * k - 2
             b == IF 3 * k < Len(t) THEN 3 * k ELSE Len(t)
  <2>1. a \in Nat \ {0} /\ b \in 0 .. Len(t) /\ a <= b + 1
    <3>1. k \in Nat \ {0} /\ 3 * k <= Len(t) + 2
      BY <1>2 DEF p
    <3> QED BY <1>2, <3>1
  <2>2. 3 * (m + k) - 2 = Len(s) + a
        /\ (IF 3 * (m + k) < Len(u) THEN 3 * (m + k) ELSE Len(u)) = Len(s) + b
    <3>1. k \in Nat /\ 3 * (m + k) = 3 * m + 3 * k
      BY <1>2
    <3>2. Len(u) = 3 * m + Len(t) /\ Len(s) = 3 * m
      BY <1>1, <1>2
    <3>3. 3 * (m + k) < Len(u) <=> 3 * k < Len(t)
      BY <1>2, <3>1, <3>2
    <3>4. 3 * (m + k) - 2 = Len(s) + a
      BY <1>2, <3>1, <3>2
    <3>5. 3 * (m + k) = Len(s) + 3 * k /\ Len(u) = Len(s) + Len(t)
      BY <1>2, <3>1, <3>2
    <3> QED BY Zenon, <3>3, <3>4, <3>5
  <2>3. Quad(t, k) = SubSeq(t, a, b) /\ Quad(u, m + k) = SubSeq(u, Len(s) + a, Len(s) + b)
    BY Zenon, <2>2 DEF Quad
  <2> HIDE DEF a, b
  <2>4. /\ SubSeq(t, a, b) \in Seq(Byte) /\ Len(SubSeq(t, a, b)) = b - a + 1
        /\ \A i \in 1 .. b - a + 1 : SubSeq(t, a, b)[i] = t[a + i - 1]
    BY <2>1, SubBytes
  <2> DEFINE c == Len(s) + a
             d == Len(s) + b
  <2>5. c \in Nat \ {0} /\ d \in 0 .. Len(u) /\ c <= d + 1 /\ d - c + 1 = b - a + 1
    BY <1>1, <1>2, <2>1
  <2>6. \A i \in 1 .. b - a + 1 : u[c + i - 1] = t[a + i - 1]
    <3> TAKE i \in 1 .. b - a + 1
    <3>1. a + i - 1 \in 1 .. Len(t) /\ c + i - 1 = Len(s) + (a + i - 1)
      BY <1>2, <2>1
    <3> QED BY <1>1, <3>1
  <2> HIDE DEF c, d
  <2>7. /\ SubSeq(u, c, d) \in Seq(Byte) /\ Len(SubSeq(u, c, d)) = d - c + 1
        /\ \A i \in 1 .. d - c + 1 : SubSeq(u, c, d)[i] = u[c + i - 1]
    BY <1>1, <2>5, SubBytes
  <2>8. SubSeq(u, c, d) = SubSeq(t, a, b)
    <3>1. b - a + 1 \in Nat
      BY <1>2, <2>1
    <3> DEFINE f == SubSeq(u, c, d)
               g == SubSeq(t, a, b)
               l == b - a + 1
    <3>2. f \in Seq(Byte) /\ g \in Seq(Byte) /\ l \in Nat /\ Len(f) = l /\ Len(g) = l
          /\ \A i \in 1 .. l : f[i] = g[i]
      BY Zenon, <2>4, <2>5, <2>6, <2>7, <3>1
    <3> HIDE DEF f, g, l
    <3>3. f = g
      BY Zenon, <3>2, SameBytes
    <3> QED BY <3>3 DEF f, g
  <2> QED BY <2>3, <2>8 DEF c, d
<1> DEFINE S == Seq(Byte)
           whole == Quads(u)
           first == Quads(s)
           second == Quads(t)
<1>9. /\ whole \in Seq(S) /\ first \in Seq(S) /\ second \in Seq(S)
      /\ Len(whole) = m + p /\ Len(first) = m /\ Len(second) = p
      /\ \A k \in 1 .. m : whole[k] = first[k]
      /\ \A k \in 1 .. p : whole[m + k] = second[k]
  <2>1. \A k \in 1 .. m : k \in 1 .. m + p
    BY <1>2
  <2>2. \A k \in 1 .. p : m + k \in 1 .. m + p
    BY <1>2
  <2> QED BY Zenon, <1>4, <1>5, <1>6, <1>7, <1>8, <2>1, <2>2
<1> HIDE DEF S, whole, first, second
<1>10. whole = first \o second
  <2>1. Joins(whole, first, second)
    BY <1>9 DEF Joins
  <2> QED BY Zenon, <1>9, <2>1, TwoParts
<1> QED BY <1>10 DEF whole, first, second, u

\* Saving the configuration leaves the memory behind it.
LEMMA SaveKeepsSamples ==
  ASSUME IInv, save_config
  PROVE  \A x \in 0 .. memory_size - 1 : x >= Offset => ram'[x] = ram[x]
<1>1. PICK n \in 1 .. 2 : ram' = Written(Written(ram, 0, Zeros(Offset)), 0, Config(n))
  BY DEF save_config
<1>2. Offset \in Nat /\ config_size <= Offset /\ config_size \in Nat /\ 0 \in 0 .. memory_size
  BY Layout, MemoryAssumption
<1>3. Config(n) \in Seq(Byte) /\ Len(Config(n)) = config_size
  BY Contents
<1>4. Zeros(Offset) \in Seq(Byte) /\ Len(Zeros(Offset)) = Offset
  <2>1. Zeros(Offset) \in [1 .. Offset -> Byte]
    BY <1>2 DEF Zeros, Byte
  <2> QED  BY <1>2, <2>1, FunctionIsSeq
<1> DEFINE erased == Written(ram, 0, Zeros(Offset))
<1>5. /\ erased \in [0 .. memory_size - 1 -> Byte]
      /\ \A x \in 0 .. memory_size - 1 :
           (x < 0 \/ x >= 0 + Len(Zeros(Offset))) => erased[x] = ram[x]
  BY <1>2, <1>4, WriteEffect DEF IInv, TypeOK
<1> HIDE DEF erased
<1>6. \A x \in 0 .. memory_size - 1 :
        (x < 0 \/ x >= 0 + Len(Config(n))) => Written(erased, 0, Config(n))[x] = erased[x]
  BY <1>2, <1>3, <1>5, WriteEffect
<1> QED BY <1>1, <1>2, <1>3, <1>4, <1>5, <1>6 DEF erased

\* A read-out that is under way or done stays what it is while the memory
\* behind the configuration does.
LEMMA SameStored ==
  ASSUME IInv, IInv', \A x \in 0 .. memory_size - 1 : x >= Offset => ram'[x] = ram[x],
         UNCHANGED reader, ReadSoFar
  PROVE  ReadSoFar'
<1> DEFINE n == address - asked[1]
<1>1. /\ address' = address /\ length' = length /\ sent' = sent /\ asked' = asked
  BY DEF reader
<1>2. Offset \in Nat /\ Available \in Nat /\ Offset + Available = memory_size
  BY Layout
<1>3. asked[1] \in Nat /\ address \in Nat /\ address <= Available /\ asked[1] <= address
  BY DEF IInv, TypeOK, ReadsInside, ReadSoFar
<1>4. ASSUME NEW i \in 1 .. n PROVE ram'[Offset + asked[1] + i - 1] = ram[Offset + asked[1] + i - 1]
  <2>1. Offset + asked[1] + i - 1 \in 0 .. memory_size - 1 /\ Offset + asked[1] + i - 1 >= Offset
    BY <1>2, <1>3
  <2> QED BY <2>1
<1> HIDE DEF n
<1>5. [i \in 1 .. n |-> ram'[Offset + asked[1] + i - 1]]
        = [i \in 1 .. n |-> ram[Offset + asked[1] + i - 1]]
  BY <1>4
<1>6. sent = Quads([i \in 1 .. n |-> ram[Offset + asked[1] + i - 1]])
  BY Zenon DEF ReadSoFar, Stored, n
<1>7. sent' = Quads([i \in 1 .. address' - asked'[1] |-> ram'[Offset + asked'[1] + i - 1]])
  BY Zenon, <1>1, <1>5, <1>6 DEF n
<1>8. /\ asked'[1] <= address' /\ address' + length' = asked'[1] + asked'[2]
      /\ length' = 0 \/ (address' - asked'[1]) % 3 = 0
  BY <1>1 DEF ReadSoFar
<1> QED BY Zenon, <1>7, <1>8 DEF ReadSoFar, Stored

\* A chunk that is sent continues what was sent before it.
LEMMA ChunkSent ==
  ASSUME IInv, IInv', ReadInv, SendChunk, Thirds
  PROVE  ReadInv'
<1> DEFINE n == bytes_to_read
           a == SampleAddress(address)
           x == asked[1]
           d == address - asked[1]
           chunk == [i \in 1 .. n |-> ram[a + i - 1]]
<1>0. pc = "reading" /\ result = "none" /\ ReadSoFar /\ n # 0
  BY DEF SendChunk, ReadInv
<1>1. /\ address \in 0 .. Available /\ length \in Nat /\ n \in Nat /\ n <= length
      /\ n = length \/ n = buffer_size
  BY MemoryAssumption, Layout DEF IInv, TypeOK, ReadsInside, bytes_to_read
<1>2. /\ a = Offset + address /\ a \in 0 .. memory_size
      /\ Offset \in Nat /\ Available \in Nat /\ Offset + Available = memory_size
  BY <1>1, AddressInside, Layout
<1>3. Inside(a, n)
  BY <1>1, <1>2, FitInside
<1>4. CASE Fit(a, n) # n
  <2>1. pc' = "idle" /\ result' = "failed"
    BY <1>3, <1>4 DEF SendChunk
  <2> QED BY <2>1 DEF ReadInv
<1>5. CASE Fit(a, n) = n
  <2>1. /\ sent' = sent \o Quads(chunk)
        /\ address' = address + n /\ length' = length - n
        /\ pc' = pc /\ result' = result /\ asked' = asked /\ ram' = ram
    BY <1>3, <1>5 DEF SendChunk
  <2>2. /\ x \in Nat /\ d \in Nat /\ x <= address /\ address + length = x + asked[2]
        /\ asked[2] \in Nat
        /\ sent = Quads(Stored(x, d)) /\ d % 3 = 0
    <3>1. x \in Nat /\ asked[2] \in Nat /\ address \in Nat
      BY DEF IInv, TypeOK
    <3>2. x <= address /\ address + length = x + asked[2] /\ sent = Quads(Stored(x, d))
          /\ (length = 0 \/ d % 3 = 0)
      BY <1>0 DEF ReadSoFar
    <3>3. length # 0
      BY <1>0, <1>1
    <3> QED BY <3>1, <3>2, <3>3
  <2>3. address + n <= Available /\ x + d = address /\ x + (d + n) <= Available
    <3>1. address' <= Available
      BY DEF IInv, ReadsInside
    <3>2. address' = address + n /\ address \in Nat /\ n \in Nat
      BY <1>1, <2>1
    <3>3. x \in Nat /\ x + d = address
      <4> HIDE DEF x
      <4> QED BY <2>2, <3>2 DEF x
    <3> HIDE DEF n, x, d, a, chunk
    <3>4. d \in Nat
      BY <2>2
    <3> QED BY <1>2, <3>1, <3>2, <3>3, <3>4
  <2>4. chunk = Stored(address, n)
    BY <1>2 DEF Stored
  <2>5. /\ Stored(x, d) \in Seq(Byte) /\ Len(Stored(x, d)) = d
        /\ Stored(address, n) \in Seq(Byte) /\ Len(Stored(address, n)) = n
        /\ Stored(x, d + n) \in Seq(Byte) /\ Len(Stored(x, d + n)) = d + n
    <3> HIDE DEF n, d, x, a, chunk
    <3>1. d + n \in Nat /\ x + d <= Available
      BY <1>1, <2>2, <2>3
    <3>2. n \in Nat /\ address \in Nat
      BY <1>1
    <3>3. Stored(x, d) \in Seq(Byte) /\ Len(Stored(x, d)) = d
      BY Zenon, <2>2, <3>1, StoredBytes
    <3>4. Stored(address, n) \in Seq(Byte) /\ Len(Stored(address, n)) = n
      BY Zenon, <2>3, <3>2, StoredBytes
    <3>5. Stored(x, d + n) \in Seq(Byte) /\ Len(Stored(x, d + n)) = d + n
      BY Zenon, <2>2, <2>3, <3>1, StoredBytes
    <3> QED BY Zenon, <3>3, <3>4, <3>5
  <2>6. Stored(x, d + n) = Stored(x, d) \o Stored(address, n)
    <3> DEFINE f == Stored(x, d)
               g == Stored(address, n)
               h == Stored(x, d + n)
    <3>1. \A i \in 1 .. d : h[i] = f[i]
      BY <1>1, <2>2 DEF Stored
    <3>2. \A i \in 1 .. n : h[d + i] = g[i]
      <4> TAKE i \in 1 .. n
      <4>1. d + i \in 1 .. d + n /\ Offset + x + (d + i) - 1 = Offset + address + i - 1
        BY <1>1, <1>2, <2>2, <2>3
      <4> QED BY <4>1 DEF Stored
    <3>3. /\ f \in Seq(Byte) /\ g \in Seq(Byte) /\ h \in Seq(Byte)
          /\ Len(f) = d /\ Len(g) = n /\ Len(h) = d + n
      BY <2>5
    <3> HIDE DEF f, g, h
    <3>4. h = f \o g
      <4>1. Joins(h, f, g)
        BY <3>1, <3>2, <3>3 DEF Joins
      <4> QED BY Zenon, <3>3, <4>1, TwoParts
    <3> QED BY <3>4 DEF f, g, h
  <2> HIDE DEF n, a, x, d, chunk
  <2>7. sent' = Quads(Stored(x, d + n))
    BY <2>1, <2>2, <2>4, <2>5, <2>6, QuadsOfParts
  <2>8. address' - asked'[1] = d + n /\ asked'[1] = x
    BY <1>1, <2>1, <2>2 DEF d, x
  <2>9. Stored(asked[1], address - asked[1])' = Stored(x, d + n)
    BY Zenon, <2>1, <2>8 DEF Stored
  <2>10. length' = 0 \/ (d + n) % 3 = 0
    <3>1. CASE n = length
      BY <1>1, <2>1, <3>1
    <3>2. CASE n = buffer_size
      BY <1>1, <2>2, <3>2 DEF Thirds
    <3> QED BY <1>1, <3>1, <3>2
  <2>11. asked'[1] <= address' /\ address' + length' = asked'[1] + asked'[2]
    BY <1>1, <2>1, <2>2 DEF x
  <2>12. length' = 0 \/ (address' - asked'[1]) % 3 = 0
    BY <2>8, <2>10
  <2>13. ReadSoFar'
    BY Zenon, <2>7, <2>9, <2>11, <2>12 DEF ReadSoFar
  <2> QED BY <1>0, <2>1, <2>13 DEF ReadInv
<1> QED BY <1>4, <1>5

LEMMA ReadInit == Init => ReadInv /\ AnnouncedInv
  BY DEF Init, ReadInv, AnnouncedInv

LEMMA ReadStep ==
  ASSUME Thirds, IInv, IInv', ReadInv, [Next]_vars
  PROVE  ReadInv'
<1>1. CASE save_config
  <2>1. pc' = pc /\ pc = "idle" /\ UNCHANGED reader
    BY <1>1 DEF save_config
  <2>2. ReadSoFar => ReadSoFar'
    BY Zenon, <1>1, <2>1, SaveKeepsSamples, SameStored
  <2> QED BY <2>1, <2>2 DEF ReadInv, reader
<1>2. CASE SampleStart
  BY <1>2 DEF SampleStart, ReadInv
<1>3. CASE HeaderFails
  <2>1. pc' = pc /\ UNCHANGED reader /\ ram' = ram
    BY <1>3 DEF HeaderFails
  <2>2. ReadSoFar => ReadSoFar'
    BY <2>1, SameStored
  <2> QED BY <2>1, <2>2 DEF ReadInv, reader
<1>4. CASE ingestion_callback \/ FrameDropped
  BY <1>4 DEF ingestion_callback, FrameDropped, NextFrame, ReadInv, reader
<1>5. CASE SampleEnd
  BY <1>5 DEF SampleEnd, ReadInv, reader
<1>6. CASE at_read_buffer
  <2>1. /\ pc' = "reading" /\ result' = "none" /\ sent' = <<>>
        /\ address' = asked'[1] /\ length' = asked'[2]
    BY <1>6 DEF at_read_buffer
  <2>2. asked'[1] \in Nat /\ asked'[2] \in Nat
    BY DEF IInv, TypeOK
  <2>3. Quads(Stored(asked[1], address - asked[1]))' = <<>>
    <3>1. address' - asked'[1] = 0
      BY <2>1, <2>2
    <3>2. Stored(asked[1], address - asked[1])' = <<>>
      BY <3>1 DEF Stored
    <3>3. Quads(<<>>) = <<>>
      BY DEF Quads
    <3> QED BY <3>2, <3>3
  <2>4. sent' = Quads(Stored(asked[1], address - asked[1]))'
    BY Zenon, <2>1, <2>3
  <2>5. /\ asked'[1] <= address' /\ address' + length' = asked'[1] + asked'[2]
        /\ length' = 0 \/ (address' - asked'[1]) % 3 = 0
    BY <2>1, <2>2
  <2>6. ReadSoFar'
    BY Zenon, <2>4, <2>5 DEF ReadSoFar
  <2> QED BY <2>1, <2>6 DEF ReadInv
<1>7. CASE SendChunk
  BY <1>7, ChunkSent
<1>8. CASE ReadDone
  <2>1. /\ pc = "reading" /\ pc' = "idle" /\ result' = "ok"
        /\ UNCHANGED <<ram, address, length, sent, asked>>
    BY <1>8 DEF ReadDone
  <2>2. length = 0
    BY <1>8, MemoryAssumption DEF ReadDone, bytes_to_read
  <2>3. ReadSoFar
    BY <2>1 DEF ReadInv
  <2>4. ReadSoFar'
    BY Zenon, <2>1, <2>3 DEF ReadSoFar, Stored
  <2> QED BY <2>1, <2>2, <2>4 DEF ReadInv
<1>9. CASE UNCHANGED vars
  <2>1. UNCHANGED reader /\ ram' = ram /\ pc' = pc
    BY <1>9 DEF vars
  <2>2. ReadSoFar => ReadSoFar'
    BY <2>1, SameStored
  <2> QED BY <2>1, <2>2 DEF ReadInv, reader
<1> QED BY <1>1, <1>2, <1>3, <1>4, <1>5, <1>6, <1>7, <1>8, <1>9 DEF Next

LEMMA AnnouncedStep ==
  ASSUME IInv, IInv', AnnouncedInv, [Next]_vars
  PROVE  AnnouncedInv'
<1>1. CASE save_config \/ HeaderFails \/ at_read_buffer \/ SendChunk \/ ReadDone
  <2>1. announced' = announced /\ stream' = stream /\ (pc' = "sampling" => pc = "sampling")
    BY <1>1 DEF save_config, HeaderFails, at_read_buffer, SendChunk, ReadDone
  <2> QED BY <2>1 DEF AnnouncedInv
<1>2. CASE SampleStart
  BY <1>2 DEF SampleStart, AnnouncedInv
<1>3. CASE ingestion_callback \/ FrameDropped
  BY <1>3 DEF ingestion_callback, FrameDropped, NextFrame, AnnouncedInv
<1>4. CASE SampleEnd
  <2>1. NextAddress = Len(stream) /\ stream \in Seq(Byte)
    BY <1>4 DEF SampleEnd, NextAddress, IInv, Placed, TypeOK
  <2>2. pc' = "idle" /\ announced' \in {0, Len(stream) + 1} /\ stream' = stream \o <<FF>>
    BY <1>4, <2>1 DEF SampleEnd
  <2>3. FF \in Byte
    BY Contents
  <2>4. Len(stream \o <<FF>>) = Len(stream) + 1
    BY <2>1, <2>3
  <2> QED BY <2>2, <2>4 DEF AnnouncedInv
<1>5. CASE UNCHANGED vars
  BY <1>5 DEF vars, AnnouncedInv
<1> QED BY <1>1, <1>2, <1>3, <1>4, <1>5 DEF Next

LEMMA ReadInvariant == ASSUME Fits, Thirds PROVE Spec => [](IInv /\ ReadInv /\ AnnouncedInv)
<1>1. Fits /\ Thirds
  OBVIOUS
<1>2. IInv /\ IInv' /\ ReadInv /\ AnnouncedInv /\ [Next]_vars => (ReadInv /\ AnnouncedInv)'
  BY Zenon, <1>1, ReadStep, AnnouncedStep
<1>3. Spec => []IInv
  BY <1>1, Invariant
<1> QED BY <1>2, <1>3, ReadInit, PTL DEF Spec

\* What AT+READBUFFER answered when it succeeded.
ReadOut == result = "ok" => sent = Quads(Stored(asked[1], asked[2]))

\* A read-out that succeeds sent the base64 text of exactly the range it was
\* asked for: every chunk ends with a whole quad but the last, and neither a
\* save of the configuration nor a start that fails changes what was answered
\* (ei_device_lib.cpp:77-109).
THEOREM ReadOutExact == ASSUME Fits, Thirds PROVE Spec => []ReadOut
<1>1. IInv /\ ReadInv => ReadOut
  <2> SUFFICES ASSUME IInv, ReadInv, result = "ok"
               PROVE  sent = Quads(Stored(asked[1], asked[2]))
    BY DEF ReadOut
  <2>1. ReadSoFar /\ length = 0
    BY DEF ReadInv
  <2>2. address - asked[1] = asked[2]
    BY <2>1 DEF ReadSoFar, IInv, TypeOK
  <2> QED BY Zenon, <2>1, <2>2 DEF ReadSoFar
<1>2. Fits /\ Thirds
  OBVIOUS
<1> QED BY <1>1, <1>2, ReadInvariant, PTL

\* Whoever asks for the announced range is sent the recording.
AnnouncedIsSent ==
  result = "ok" /\ announced # 0 /\ asked = <<0, announced>> => sent = Quads(stream)

\* The range that AT+SAMPLESTART announces is that of the recording, and who
\* asks for it is sent the recording, whole and with nothing behind it, also when
\* frames were dropped, the configuration was saved in between, a later start
\* failed or the recording before was longer (ei_mic.cpp:503-557,
\* ei_device_lib.cpp:77-109).
THEOREM RecordingSent == ASSUME Fits, Thirds PROVE Spec => []AnnouncedIsSent
<1>1. IInv /\ AnnouncedInv /\ ReadOut => AnnouncedIsSent
  <2> SUFFICES ASSUME IInv, AnnouncedInv, ReadOut,
                      result = "ok", announced # 0, asked = <<0, announced>>
               PROVE  sent = Quads(stream)
    BY DEF AnnouncedIsSent
  <2>1. announced = Len(stream) /\ asked[1] = 0 /\ asked[2] = announced
    BY DEF AnnouncedInv
  <2>2. stream \in Seq(Byte) /\ Offset \in Nat
    BY Layout DEF IInv, TypeOK
  <2>3. \A i \in 1 .. Len(stream) : ram[Offset + 0 + i - 1] = stream[i]
    BY <2>2 DEF IInv, StreamStored
  <2>4. Stored(0, Len(stream)) = stream
    BY <2>2, <2>3 DEF Stored
  <2>5. sent = Quads(Stored(0, Len(stream)))
    BY Zenon, <2>1 DEF ReadOut
  <2> QED BY Zenon, <2>4, <2>5
<1>2. Fits /\ Thirds
  OBVIOUS
<1> QED BY <1>1, <1>2, ReadOutExact, ReadInvariant, PTL

-----------------------------------------------------------------------------
(* The decoder *)

\* Every set of numbers has a least one.
LEMMA NatMin ==
  ASSUME NEW T, T \subseteq Nat, T # {}
  PROVE  \E x \in T : \A y \in T : x <= y
<1> DEFINE Below == {ss \in Nat \X Nat : ss[1] < ss[2]}
<1>1. IsWellFoundedOn(Below, Nat)
  BY NatLessThanWellFounded DEF OpToRel
<1>2. PICK x \in T : \A y \in T : ~ (<<y, x>> \in Below)
  <2> HIDE DEF Below
  <2> QED BY Zenon, <1>1, WFMin
<1>3. ASSUME NEW y \in T PROVE x <= y
  <2>1. <<y, x>> \in Nat \X Nat
    OBVIOUS
  <2>2. ~ (<<y, x>> \in Below)
    BY Zenon, <1>2
  <2>3. ~ (y < x)
    BY <2>1, <2>2
  <2> QED BY <2>3
<1> QED BY <1>3

\* g follows the decoder over the first n cells of s.
Follows(g, start, s, n) ==
  g = [p \in 0 .. n |-> IF p = 0 THEN start ELSE Decode(g[p - 1], s[p])]

\* The decoder can go on behind every cell.
LEMMA CanFollow ==
  ASSUME NEW start, NEW s, NEW n \in Nat
  PROVE  \E g : Follows(g, start, s, n)
<1> DEFINE T == {m \in Nat : ~ \E g : Follows(g, start, s, m)}
<1> SUFFICES ASSUME n \in T PROVE FALSE
  OBVIOUS
<1>1. PICK m \in T : \A y \in T : m <= y
  BY Zenon, NatMin
<1>2. m \in Nat /\ ~ \E g : Follows(g, start, s, m)
  OBVIOUS
<1>3. m # 0
  <2> DEFINE g == [p \in 0 .. 0 |-> start]
  <2>1. Follows(g, start, s, 0)
    BY DEF Follows
  <2> QED BY Zenon, <1>2, <2>1
<1>4. m - 1 \in Nat /\ m - 1 \notin T
  BY <1>1, <1>2, <1>3
<1>5. PICK g : Follows(g, start, s, m - 1)
  BY Zenon, <1>4
<1> DEFINE h == [p \in 0 .. m |-> IF p = m THEN Decode(g[m - 1], s[m]) ELSE g[p]]
           k == [p \in 0 .. m |-> IF p = 0 THEN start ELSE Decode(h[p - 1], s[p])]
<1>6. ASSUME NEW p \in 0 .. m PROVE h[p] = IF p = 0 THEN start ELSE Decode(h[p - 1], s[p])
  <2>1. CASE p = m
    <3>1. h[p] = Decode(g[m - 1], s[m]) /\ h[m - 1] = g[m - 1]
      BY <1>3, <1>4, <2>1
    <3> HIDE DEF h
    <3> QED BY <1>3, <2>1, <3>1
  <2>2. CASE p # m /\ p # 0
    <3>1. p \in 0 .. m - 1 /\ p - 1 \in 0 .. m /\ p - 1 # m
      BY <2>2
    <3>2. h[p] = g[p] /\ h[p - 1] = g[p - 1]
      BY <2>2, <3>1
    <3>3. g[p] = Decode(g[p - 1], s[p])
      BY <1>5, <2>2, <3>1 DEF Follows
    <3> HIDE DEF h
    <3> QED BY <2>2, <3>2, <3>3
  <2>3. CASE p = 0
    <3>1. 0 \in 0 .. m - 1 /\ h[0] = g[0]
      BY <1>3, <1>4
    <3>2. g[0] = start
      BY <1>5, <3>1 DEF Follows
    <3> HIDE DEF h
    <3> QED BY <2>3, <3>1, <3>2
  <2> QED BY <2>1, <2>2, <2>3
<1>7. h = k
  <2> DEFINE e(p) == IF p = 0 THEN start ELSE Decode(h[p - 1], s[p])
  <2>1. \A p \in 0 .. m : h[p] = e(p)
    BY <1>6
  <2>2. h = [p \in 0 .. m |-> h[p]]
    OBVIOUS
  <2> HIDE DEF h, e
  <2>3. h = [p \in 0 .. m |-> e(p)]
    BY <2>1, <2>2
  <2> QED BY <2>3 DEF e
<1>8. Follows(h, start, s, m)
  <2> HIDE DEF h
  <2> QED BY Zenon, <1>7 DEF Follows
<1> QED BY Zenon, <1>2, <1>8

\* The same, value by value.
Goes(g, start, s, n) ==
  g[0] = start /\ \A p \in 1 .. n : g[p] = Decode(g[p - 1], s[p])

\* What the decoder has open, from one cell to the next.
LEMMA OpenedIs ==
  ASSUME NEW start, NEW s, Len(s) \in Nat
  PROVE  Goes(Opened(start, s), start, s, Len(s))
<1> DEFINE o == Opened(start, s)
           n == Len(s)
<1>1. \E g : g = [p \in 0 .. n |-> IF p = 0 THEN start ELSE Decode(g[p - 1], s[p])]
  <2>1. \E g : Follows(g, start, s, n)
    BY CanFollow
  <2> QED BY Zenon, <2>1 DEF Follows
<1>2. o = CHOOSE g : g = [p \in 0 .. n |-> IF p = 0 THEN start ELSE Decode(g[p - 1], s[p])]
  BY Zenon DEF Opened
<1> HIDE DEF o
<1>3. o = [p \in 0 .. n |-> IF p = 0 THEN start ELSE Decode(o[p - 1], s[p])]
  BY Zenon, <1>1, <1>2
<1> DEFINE e(p) == IF p = 0 THEN start ELSE Decode(o[p - 1], s[p])
<1>4. o = [p \in 0 .. n |-> e(p)]
  BY <1>3
<1>5. \A p \in 0 .. n : o[p] = e(p)
  <2> HIDE DEF e
  <2> QED BY <1>4
<1>6. o[0] = start
  BY <1>5
<1>7. \A p \in 1 .. n : o[p] = Decode(o[p - 1], s[p])
  BY <1>5
<1> QED BY <1>6, <1>7 DEF o, Goes

\* What goes on as the decoder does is what the decoder has open.
LEMMA OnlyOpened ==
  ASSUME NEW start, NEW s, Len(s) \in Nat, NEW g, NEW n \in 0 .. Len(s), Goes(g, start, s, n)
  PROVE  \A p \in 0 .. n : Opened(start, s)[p] = g[p]
<1> DEFINE o == Opened(start, s)
           T == {p \in 0 .. n : o[p] # g[p]}
<1>0. /\ o[0] = start
      /\ \A p \in 1 .. Len(s) : o[p] = Decode(o[p - 1], s[p])
  <2>1. Goes(o, start, s, Len(s))
    BY OpenedIs
  <2> QED BY Zenon, <2>1 DEF Goes
<1> HIDE DEF o
<1> SUFFICES ASSUME T # {} PROVE FALSE
  BY DEF o
<1>1. PICK m \in T : \A y \in T : m <= y
  <2>1. T \subseteq Nat
    OBVIOUS
  <2> QED BY Zenon, <2>1, NatMin
<1>2. m \in 0 .. n /\ o[m] # g[m]
  OBVIOUS
<1>3. m # 0
  BY <1>0, <1>2 DEF Goes
<1>4. m - 1 \in 0 .. n /\ m - 1 \notin T /\ m \in 1 .. n /\ m \in 1 .. Len(s)
  BY <1>1, <1>2, <1>3
<1>5. o[m - 1] = g[m - 1]
  BY <1>4
<1>6. o[m] = Decode(o[m - 1], s[m]) /\ g[m] = Decode(g[m - 1], s[m])
  BY <1>0, <1>4 DEF Goes
<1> QED BY <1>2, <1>5, <1>6

\* What is open behind the whole of s.
After(start, s) == Opened(start, s)[Len(s)]

\* Of a sequence in two parts, the second is decoded with what the first left
\* open.
LEMMA OpenedParts ==
  ASSUME NEW S, NEW s \in Seq(S), NEW t \in Seq(S), NEW start
  PROVE  /\ \A p \in 0 .. Len(s) : Opened(start, s \o t)[p] = Opened(start, s)[p]
         /\ \A p \in 0 .. Len(t) :
              Opened(start, s \o t)[Len(s) + p] = Opened(After(start, s), t)[p]
         /\ After(start, s \o t) = After(After(start, s), t)
<1> DEFINE u == s \o t
           o == Opened(start, u)
           m == Len(s)
           n == Len(t)
<1>1. /\ m \in Nat /\ n \in Nat /\ Len(u) = m + n
      /\ \A p \in 1 .. m : u[p] = s[p]
      /\ \A p \in 1 .. n : u[m + p] = t[p]
  OBVIOUS
<1> HIDE DEF u
<1>2. /\ o[0] = start
      /\ \A p \in 1 .. m + n : o[p] = Decode(o[p - 1], u[p])
  <2>1. Len(u) \in Nat
    BY <1>1
  <2>2. Goes(o, start, u, Len(u))
    BY Zenon, <2>1, OpenedIs
  <2> QED BY Zenon, <1>1, <2>2 DEF Goes
<1> HIDE DEF o, m, n
<1>3. \A p \in 1 .. m : o[p] = Decode(o[p - 1], s[p])
  BY <1>1, <1>2
<1>4. \A p \in 0 .. m : o[p] = Opened(start, s)[p]
  <2>1. Len(s) \in Nat /\ m \in 0 .. Len(s)
    BY <1>1 DEF m
  <2>2. Goes(o, start, s, m)
    BY Zenon, <1>2, <1>3 DEF Goes
  <2>3. \A p \in 0 .. m : Opened(start, s)[p] = o[p]
    BY <2>1, <2>2, OnlyOpened
  <2> QED BY Zenon, <2>3
<1>5. o[m] = After(start, s)
  <2>1. m \in 0 .. m
    BY <1>1
  <2> QED BY Zenon, <1>4, <2>1 DEF After, m
<1> DEFINE g == [p \in 0 .. n |-> o[m + p]]
<1>6. g[0] = After(start, s)
  BY <1>1, <1>5
<1>7. ASSUME NEW p \in 1 .. n PROVE g[p] = Decode(g[p - 1], t[p])
  <2>1. p \in 0 .. n /\ p - 1 \in 0 .. n /\ m + p \in 1 .. m + n /\ (m + p) - 1 = m + (p - 1)
    BY <1>1
  <2>2. o[m + p] = Decode(o[m + (p - 1)], t[p])
    BY <1>1, <1>2, <2>1
  <2> QED BY <2>1, <2>2
<1>8. \A p \in 0 .. n : Opened(After(start, s), t)[p] = g[p]
  <2>1. Len(t) \in Nat /\ n \in 0 .. Len(t)
    BY <1>1 DEF n
  <2> HIDE DEF g
  <2>2. Goes(g, After(start, s), t, n)
    BY Zenon, <1>6, <1>7 DEF Goes
  <2> QED BY <2>1, <2>2, OnlyOpened
<1>9. \A p \in 0 .. n : o[m + p] = Opened(After(start, s), t)[p]
  BY <1>8
<1>10. o[m + n] = After(After(start, s), t)
  <2>1. n \in 0 .. n
    BY <1>1
  <2> QED BY Zenon, <1>9, <2>1 DEF After, n
<1>11. After(start, u) = o[m + n]
  BY Zenon, <1>1 DEF After, o
<1> QED BY Zenon, <1>4, <1>9, <1>10, <1>11 DEF o, u, m, n

-----------------------------------------------------------------------------
(* Items *)

Waits == {"items", "bytes", "list"} \X (Nat \ {0})

\* One more for the innermost open item, w.
LEMMA CompleteIs ==
  ASSUME NEW b \in Seq(Waits), NEW w \in Waits
  PROVE  /\ w[1] = "list" => Complete(Append(b, w)) = Append(b, w)
         /\ w[1] # "list" /\ w[2] > 1 => Complete(Append(b, w)) = Append(b, <<w[1], w[2] - 1>>)
         /\ w[1] # "list" /\ w[2] = 1 => Complete(Append(b, w)) = Complete(b)
<1> DEFINE o == Append(b, w)
           n == Len(b)
           waiting(x) == {j \in 1 .. Len(x) : x[j][1] = "list" \/ x[j][2] > 1}
           last(x) == CHOOSE j \in waiting(x) : \A i \in waiting(x) : j >= i
           rest(x, k) == SubSeq(x, 1, k - 1)
                           \o << IF x[k][1] = "list" THEN x[k] ELSE <<x[k][1], x[k][2] - 1>> >>
<1>1. /\ n \in Nat /\ Len(o) = n + 1 /\ o[n + 1] = w /\ o \in Seq(Waits)
      /\ \A j \in 1 .. n : o[j] = b[j]
      /\ SubSeq(o, 1, n) = b
  OBVIOUS
<1>2. \A x : Complete(x) = IF waiting(x) = {} THEN <<>> ELSE rest(x, last(x))
  BY Zenon DEF Complete
<1> HIDE DEF o
<1>3. ASSUME w[1] = "list" \/ w[2] > 1
      PROVE  Complete(o) = b \o << IF w[1] = "list" THEN w ELSE <<w[1], w[2] - 1>> >>
  <2>1. n + 1 \in waiting(o) /\ \A i \in waiting(o) : n + 1 >= i
    BY <1>1, <1>3
  <2>2. \A j \in waiting(o) : (\A i \in waiting(o) : j >= i) => j = n + 1
    <3> TAKE j \in waiting(o)
    <3> HAVE \A i \in waiting(o) : j >= i
    <3>1. j \in 1 .. n + 1
      BY <1>1
    <3>2. j >= n + 1
      BY <2>1
    <3> QED BY <1>1, <3>1, <3>2
  <2> HIDE DEF waiting
  <2>3. last(o) = n + 1
    BY Zenon, <2>1, <2>2
  <2>4. rest(o, n + 1) = b \o << IF w[1] = "list" THEN w ELSE <<w[1], w[2] - 1>> >>
    <3>1. SubSeq(o, 1, (n + 1) - 1) = b
      <4>1. (n + 1) - 1 = n
        BY <1>1
      <4> QED BY Zenon, <1>1, <4>1
    <3>2. o[n + 1] = w
      BY <1>1
    <3> QED BY Zenon, <3>1, <3>2
  <2> HIDE DEF rest, last
  <2> QED BY Zenon, <1>2, <2>1, <2>3, <2>4
<1>4. ASSUME w[1] = "list" PROVE Complete(o) = o
  <2>1. Complete(o) = b \o << w >>
    BY <1>3, <1>4
  <2> QED BY <2>1 DEF o
<1>5. ASSUME w[1] # "list", w[2] > 1 PROVE Complete(o) = Append(b, <<w[1], w[2] - 1>>)
  <2>1. Complete(o) = b \o << <<w[1], w[2] - 1>> >>
    BY <1>3, <1>5
  <2>2. <<w[1], w[2] - 1>> \in Waits
    BY <1>5 DEF Waits
  <2> QED BY <2>1, <2>2
<1>6. ASSUME w[1] # "list", w[2] = 1 PROVE Complete(o) = Complete(b)
  <2>1. waiting(o) = waiting(b)
    BY <1>1, <1>6
  <2>2. ASSUME NEW k \in waiting(b) PROVE rest(o, k) = rest(b, k)
    <3>1. k \in 1 .. n
      OBVIOUS
    <3>2. SubSeq(o, 1, k - 1) = SubSeq(b, 1, k - 1) /\ o[k] = b[k]
      BY <1>1, <3>1
    <3> QED BY Zenon, <3>2
  <2> HIDE DEF waiting
  <2>3. last(o) = last(b)
    BY Zenon, <2>1
  <2>4. waiting(b) # {} => last(b) \in waiting(b)
    <3> SUFFICES ASSUME waiting(b) # {} PROVE last(b) \in waiting(b)
      OBVIOUS
    <3>1. \E j \in waiting(b) : \A i \in waiting(b) : j >= i
      <4> DEFINE T == {n - j : j \in waiting(b)}
      <4>1. T \subseteq Nat /\ T # {} /\ waiting(b) \subseteq 1 .. n
        BY <1>1 DEF waiting
      <4>2. PICK x \in T : \A y \in T : x <= y
        BY Zenon, <4>1, NatMin
      <4>3. PICK j \in waiting(b) : x = n - j
        OBVIOUS
      <4>4. \A i \in waiting(b) : j >= i
        <5> TAKE i \in waiting(b)
        <5>1. n - j <= n - i
          BY <4>2, <4>3
        <5>2. i \in Nat /\ j \in Nat
          BY <4>1
        <5> QED BY <1>1, <5>1, <5>2
      <4> QED BY <4>4
    <3> QED BY Zenon, <3>1
  <2> HIDE DEF last, rest
  <2> QED BY Zenon, <1>2, <2>1, <2>2, <2>3, <2>4
<1> QED BY Zenon, <1>4, <1>5, <1>6 DEF o

Data == Nat \cup {device_name} \cup Range(sensors)
          \cup {"protected", "ver", "v1", "alg", "HS256", "signature", "0", "payload",
                "device_name", "device_type", "type", "interval_ms", "interval",
                "sensors", "name", "units", "wav", "values"}

\* The cells of an item without a list.
Cell == ((Heads \ {"array_"}) \cup {"byte"}) \X Data

\* An item can begin.
Ready(st) == \E b \in Seq(Waits), w \in Waits : st = Append(b, w) /\ w[1] \in {"items", "list"}

\* x is one item, or n of them in a row.
Item(x) == x \in Seq(Cell) /\ \A st : Ready(st) => After(st, x) = Complete(st)

Left(b, n) == IF n = 0 THEN Complete(b) ELSE Append(b, <<"items", n>>)

Items(x, n) ==
  /\ x \in Seq(Cell)
  /\ \A b \in Seq(Waits), m \in Nat :
       m >= n => After(Append(b, <<"items", m>>), x) = Left(b, m - n)

LEMMA OneCell ==
  ASSUME NEW st, NEW c
  PROVE  After(st, <<c>>) = Decode(st, c)
<1> DEFINE s == <<c>>
<1>1. Len(s) = 1 /\ s[1] = c
  OBVIOUS
<1> HIDE DEF s
<1> DEFINE o == Opened(st, s)
<1>2. Goes(o, st, s, Len(s))
  <2>1. Len(s) \in Nat
    BY <1>1
  <2> QED BY Zenon, <2>1, OpenedIs
<1> HIDE DEF o
<1>3. o[0] = st /\ o[1] = Decode(o[1 - 1], s[1])
  BY <1>1, <1>2 DEF Goes
<1>4. 1 - 1 = 0
  OBVIOUS
<1>5. o[1] = Decode(st, c)
  BY Zenon, <1>1, <1>3, <1>4
<1>6. After(st, s) = o[1]
  BY Zenon, <1>1 DEF After, o
<1> QED BY Zenon, <1>5, <1>6 DEF s

\* What a cell does where an item can begin.
LEMMA DecodeHead ==
  ASSUME NEW b \in Seq(Waits), NEW w \in Waits, w[1] \in {"items", "list"},
         NEW c, c[1] \in Heads
  PROVE  Decode(Append(b, w), c)
           = IF Begun(c)[2] = 0 THEN Complete(Append(b, w)) ELSE Append(Append(b, w), Begun(c))
<1> DEFINE o == Append(b, w)
<1>1. o # <<>> /\ o[Len(o)] = w
  OBVIOUS
<1> HIDE DEF o
<1>2. Decode(o, c) = CASE w[1] = "bytes" /\ c[1] = "byte" -> Complete(o)
        [] w[1] = "list" /\ c[1] = "break" -> Complete(SubSeq(o, 1, Len(o) - 1))
        [] w[1] \in {"items", "list"} /\ c[1] \in Heads ->
             IF Begun(c)[2] = 0 THEN Complete(o) ELSE Append(o, Begun(c))
        [] OTHER -> Wrong
  BY Zenon, <1>1 DEF Decode
<1>3. ~ (w[1] = "bytes" /\ c[1] = "byte") /\ ~ (w[1] = "list" /\ c[1] = "break")
  BY DEF Heads
<1>4. Decode(o, c) = IF Begun(c)[2] = 0 THEN Complete(o) ELSE Append(o, Begun(c))
  BY Zenon, <1>2, <1>3
<1> QED BY <1>4 DEF o

LEMMA ItemOfOne ==
  ASSUME NEW c \in Cell, Begun(c)[2] = 0, c[1] \in Heads
  PROVE  Item(<<c>>)
<1>1. <<c>> \in Seq(Cell)
  OBVIOUS
<1>2. ASSUME NEW st, Ready(st) PROVE After(st, <<c>>) = Complete(st)
  <2>1. PICK b \in Seq(Waits), w \in Waits : st = Append(b, w) /\ w[1] \in {"items", "list"}
    BY Zenon, <1>2 DEF Ready
  <2>2. Decode(st, c) = Complete(st)
    BY Zenon, <2>1, DecodeHead
  <2> QED BY Zenon, <2>2, OneCell
<1> QED BY Zenon, <1>1, <1>2 DEF Item

LEMMA ItemIsItems == ASSUME NEW x, Item(x) PROVE Items(x, 1)
<1>1. ASSUME NEW b \in Seq(Waits), NEW m \in Nat, m >= 1
      PROVE  After(Append(b, <<"items", m>>), x) = Left(b, m - 1)
  <2> DEFINE w == <<"items", m>>
  <2>1. w \in Waits /\ w[1] = "items" /\ w[2] = m
    BY <1>1 DEF Waits
  <2> HIDE DEF w
  <2>2. Ready(Append(b, w))
    BY <2>1 DEF Ready
  <2>3. After(Append(b, w), x) = Complete(Append(b, w))
    BY Zenon, <2>2 DEF Item
  <2>4. m = 1 => Complete(Append(b, w)) = Complete(b)
    BY <2>1, CompleteIs
  <2>5. m > 1 => Complete(Append(b, w)) = Append(b, <<"items", m - 1>>)
    BY <2>1, CompleteIs
  <2>6. m = 1 \/ (m > 1 /\ m - 1 # 0)
    BY <1>1
  <2>7. m = 1 => m - 1 = 0
    OBVIOUS
  <2> QED BY Zenon, <2>3, <2>4, <2>5, <2>6, <2>7 DEF Left, w
<1> QED BY Zenon, <1>1 DEF Items, Item

LEMMA ItemsTogether ==
  ASSUME NEW x, NEW y, NEW m \in Nat, NEW n \in Nat, Items(x, m), Items(y, n), n # 0
  PROVE  Items(x \o y, m + n)
<1>1. x \in Seq(Cell) /\ y \in Seq(Cell)
  BY DEF Items
<1>2. x \o y \in Seq(Cell)
  BY <1>1
<1>3. ASSUME NEW b \in Seq(Waits), NEW k \in Nat, k >= m + n
      PROVE  After(Append(b, <<"items", k>>), x \o y) = Left(b, k - (m + n))
  <2> DEFINE st == Append(b, <<"items", k>>)
  <2>1. After(st, x) = Left(b, k - m)
    <3>1. k >= m
      BY <1>3
    <3> QED BY Zenon, <3>1 DEF Items
  <2>2. k - m \in Nat /\ k - m # 0 /\ k - m >= n /\ (k - m) - n = k - (m + n)
    BY <1>3
  <2>3. After(st, x) = Append(b, <<"items", k - m>>)
    BY Zenon, <2>1, <2>2 DEF Left
  <2>4. After(Append(b, <<"items", k - m>>), y) = Left(b, (k - m) - n)
    BY Zenon, <2>2 DEF Items
  <2>5. After(st, x \o y) = After(After(st, x), y)
    BY <1>1, OpenedParts
  <2> QED BY Zenon, <2>2, <2>3, <2>4, <2>5
<1> QED BY Zenon, <1>2, <1>3 DEF Items

\* A map or an array is one item.
LEMMA ItemOfMany ==
  ASSUME NEW c \in Cell, c[1] \in Heads, NEW n \in Nat \ {0}, Begun(c) = <<"items", n>>,
         NEW x, Items(x, n)
  PROVE  Item(<<c>> \o x)
<1>1. <<c>> \in Seq(Cell) /\ x \in Seq(Cell) /\ <<c>> \o x \in Seq(Cell)
  BY DEF Items
<1>2. ASSUME NEW st, Ready(st) PROVE After(st, <<c>> \o x) = Complete(st)
  <2>1. PICK b \in Seq(Waits), w \in Waits : st = Append(b, w) /\ w[1] \in {"items", "list"}
    BY Zenon, <1>2 DEF Ready
  <2>2. st \in Seq(Waits)
    BY <2>1
  <2>3. Begun(c)[2] # 0
    OBVIOUS
  <2>4. Decode(st, c) = Append(st, <<"items", n>>)
    <3>1. Decode(st, c) = IF Begun(c)[2] = 0 THEN Complete(st) ELSE Append(st, Begun(c))
      BY Zenon, <2>1, DecodeHead
    <3> QED BY Zenon, <2>3, <3>1
  <2>5. After(st, <<c>>) = Append(st, <<"items", n>>)
    BY Zenon, <2>4, OneCell
  <2>6. After(Append(st, <<"items", n>>), x) = Left(st, n - n)
    <3>1. n \in Nat /\ n >= n
      OBVIOUS
    <3> QED BY Zenon, <2>2, <3>1 DEF Items
  <2>7. n - n = 0
    OBVIOUS
  <2>8. After(st, <<c>> \o x) = After(After(st, <<c>>), x)
    BY <1>1, OpenedParts
  <2> QED BY Zenon, <2>5, <2>6, <2>7, <2>8 DEF Left
<1> QED BY Zenon, <1>1, <1>2 DEF Item

-----------------------------------------------------------------------------
(* Sequences one behind the other *)

\* g[i] is the first i of es, one behind the other.
Flattens(g, es, n) == g[1] = es[1] /\ \A i \in 2 .. n : g[i] = g[i - 1] \o es[i]

FlatOf(g, es, n) == g = [i \in 1 .. n |-> IF i = 1 THEN es[i] ELSE g[i - 1] \o es[i]]

\* Behind each of them there can be one more.
LEMMA CanFlatten ==
  ASSUME NEW es, NEW n \in Nat \ {0}
  PROVE  \E g : FlatOf(g, es, n)
<1> DEFINE T == {m \in Nat \ {0} : ~ \E g : FlatOf(g, es, m)}
<1> SUFFICES ASSUME n \in T PROVE FALSE
  OBVIOUS
<1>1. PICK m \in T : \A y \in T : m <= y
  <2>1. T \subseteq Nat
    OBVIOUS
  <2> QED BY Zenon, <2>1, NatMin
<1>2. m \in Nat \ {0} /\ ~ \E g : FlatOf(g, es, m)
  OBVIOUS
<1>3. m # 1
  <2> DEFINE g == [i \in 1 .. 1 |-> es[1]]
  <2>1. FlatOf(g, es, 1)
    BY DEF FlatOf
  <2> QED BY Zenon, <1>2, <2>1
<1>4. m - 1 \in Nat \ {0} /\ m - 1 \notin T
  BY <1>1, <1>2, <1>3
<1>5. PICK g : FlatOf(g, es, m - 1)
  BY Zenon, <1>4
<1> DEFINE h == [i \in 1 .. m |-> IF i = m THEN g[m - 1] \o es[m] ELSE g[i]]
           e(i) == IF i = 1 THEN es[i] ELSE h[i - 1] \o es[i]
<1>6. ASSUME NEW i \in 1 .. m PROVE h[i] = e(i)
  <2>1. CASE i = m
    <3>0. m \in 1 .. m /\ m - 1 \in 1 .. m /\ m - 1 # m
      BY <1>4
    <3>a. h[m] = g[m - 1] \o es[m]
      BY <3>0
    <3>b. h[m - 1] = g[m - 1]
      BY <3>0
    <3> HIDE DEF h
    <3>1. h[i] = g[m - 1] \o es[m] /\ h[m - 1] = g[m - 1]
      BY Zenon, <2>1, <3>a, <3>b
    <3> HIDE DEF h
    <3> QED BY <1>3, <2>1, <3>1
  <2>2. CASE i # m /\ i # 1
    <3>1. i \in 1 .. m - 1 /\ i - 1 \in 1 .. m /\ i - 1 # m
      BY <2>2
    <3>2. h[i] = g[i] /\ h[i - 1] = g[i - 1]
      BY <2>2, <3>1
    <3>3. g[i] = g[i - 1] \o es[i]
      BY <1>5, <2>2, <3>1 DEF FlatOf
    <3> HIDE DEF h
    <3> QED BY <2>2, <3>2, <3>3
  <2>3. CASE i = 1
    <3>1. 1 \in 1 .. m - 1 /\ h[1] = g[1]
      BY <1>3, <1>4
    <3>2. g[1] = es[1]
      BY <1>5, <3>1 DEF FlatOf
    <3> HIDE DEF h
    <3> QED BY <2>3, <3>1, <3>2
  <2> QED BY <2>1, <2>2, <2>3
<1>7. h = [i \in 1 .. m |-> h[i]]
  OBVIOUS
<1> HIDE DEF h
<1>8. h = [i \in 1 .. m |-> e(i)]
  <2> HIDE DEF e
  <2> QED BY <1>6, <1>7
<1>9. FlatOf(h, es, m)
  BY Zenon, <1>8 DEF FlatOf
<1> QED BY Zenon, <1>2, <1>9

\* What FlattenSeq comes to, one sequence after the other.
LEMMA FlattenIs ==
  ASSUME NEW es, Len(es) \in Nat \ {0}
  PROVE  \E g : Flattens(g, es, Len(es)) /\ FlattenSeq(es) = g[Len(es)]
<1> DEFINE n == Len(es)
           f == CHOOSE g : g = [i \in 1 .. n |-> IF i = 1 THEN es[i] ELSE g[i - 1] \o es[i]]
<1>1. \E g : g = [i \in 1 .. n |-> IF i = 1 THEN es[i] ELSE g[i - 1] \o es[i]]
  <2>1. \E g : FlatOf(g, es, n)
    BY CanFlatten
  <2> QED BY Zenon, <2>1 DEF FlatOf
<1>2. FlattenSeq(es) = f[n]
  BY Zenon DEF FlattenSeq
<1> HIDE DEF f
<1>3. f = [i \in 1 .. n |-> IF i = 1 THEN es[i] ELSE f[i - 1] \o es[i]]
  BY Zenon, <1>1 DEF f
<1> DEFINE e(i) == IF i = 1 THEN es[i] ELSE f[i - 1] \o es[i]
<1>4. \A i \in 1 .. n : f[i] = e(i)
  <2>1. f = [i \in 1 .. n |-> e(i)]
    BY <1>3
  <2> HIDE DEF e
  <2> QED BY <2>1
<1>5. f[1] = es[1]
  <2>1. 1 \in 1 .. n
    OBVIOUS
  <2> QED BY <1>4, <2>1
<1>6. \A i \in 2 .. n : f[i] = f[i - 1] \o es[i]
  <2> TAKE i \in 2 .. n
  <2>1. i \in 1 .. n /\ i # 1
    OBVIOUS
  <2> QED BY Zenon, <1>4, <2>1
<1> QED BY Zenon, <1>2, <1>5, <1>6 DEF Flattens

\* One more sequence comes behind the others.
LEMMA FlattenMore ==
  ASSUME NEW S, NEW es \in Seq(Seq(S)), Len(es) # 0, NEW x \in Seq(S)
  PROVE  FlattenSeq(Append(es, x)) = FlattenSeq(es) \o x
<1> DEFINE fs == Append(es, x)
           n == Len(es)
<1>1. /\ n \in Nat \ {0} /\ Len(fs) = n + 1 /\ fs[n + 1] = x
      /\ \A i \in 1 .. n : fs[i] = es[i]
  OBVIOUS
<1> HIDE DEF fs
<1>2. PICK g : Flattens(g, es, n) /\ FlattenSeq(es) = g[n]
  BY Zenon, <1>1, FlattenIs
<1>3. PICK h : Flattens(h, fs, n + 1) /\ FlattenSeq(fs) = h[n + 1]
  <2>1. Len(fs) \in Nat \ {0}
    BY <1>1
  <2> QED BY Zenon, <1>1, <2>1, FlattenIs
<1> HIDE DEF n
<1>4. h[n] = g[n]
  <2> DEFINE T == {i \in 1 .. n : h[i] # g[i]}
  <2> SUFFICES ASSUME T # {} PROVE FALSE
    BY <1>1
  <2>1. PICK m \in T : \A y \in T : m <= y
    <3>1. T \subseteq Nat
      OBVIOUS
    <3> QED BY Zenon, <3>1, NatMin
  <2>2. m \in 1 .. n /\ h[m] # g[m]
    OBVIOUS
  <2>3. m # 1
    <3>1. h[1] = fs[1] /\ g[1] = es[1]
      BY <1>2, <1>3 DEF Flattens
    <3>2. fs[1] = es[1]
      BY <1>1
    <3> QED BY <2>2, <3>1, <3>2
  <2>a. m - 1 \notin T
    <3>1. ~ (m <= m - 1)
      BY <2>2
    <3> HIDE DEF T
    <3> QED BY Zenon, <2>1, <3>1
  <2>b. m \in 2 .. n /\ m \in 2 .. n + 1 /\ m - 1 \in 1 .. n
    BY <1>1, <2>2, <2>3
  <2>4. m \in 2 .. n /\ m \in 2 .. n + 1 /\ m - 1 \in 1 .. n /\ m - 1 \notin T
    BY Zenon, <2>a, <2>b
  <2>5. h[m] = h[m - 1] \o fs[m] /\ g[m] = g[m - 1] \o es[m]
    BY <1>2, <1>3, <2>4 DEF Flattens
  <2>6. h[m - 1] = g[m - 1] /\ fs[m] = es[m]
    BY <1>1, <2>2, <2>4
  <2> HIDE DEF T
  <2> QED BY Zenon, <2>2, <2>5, <2>6
<1>5. h[n + 1] = h[n] \o x
  <2>1. n + 1 \in 2 .. n + 1 /\ (n + 1) - 1 = n
    BY <1>1
  <2>2. h[n + 1] = h[(n + 1) - 1] \o fs[n + 1]
    BY Zenon, <1>3, <2>1 DEF Flattens
  <2> QED BY Zenon, <1>1, <2>1, <2>2
<1> QED BY Zenon, <1>2, <1>3, <1>4, <1>5 DEF fs

\* As many items as the sequences have together.
LEMMA ManyItems ==
  ASSUME NEW es, Len(es) \in Nat \ {0}, NEW r \in {1, 2},
         \A i \in 1 .. Len(es) : Items(es[i], r)
  PROVE  Items(FlattenSeq(es), r * Len(es))
<1> DEFINE n == Len(es)
<1>1. PICK g : Flattens(g, es, n) /\ FlattenSeq(es) = g[n]
  BY Zenon, FlattenIs
<1> DEFINE T == {i \in 1 .. n : ~ Items(g[i], r * i)}
<1> SUFFICES ASSUME T # {} PROVE FALSE
  BY <1>1
<1>2. PICK m \in T : \A y \in T : m <= y
  <2>1. T \subseteq Nat
    OBVIOUS
  <2> QED BY Zenon, <2>1, NatMin
<1>3. m \in 1 .. n /\ ~ Items(g[m], r * m)
  OBVIOUS
<1>4. m # 1
  <2>1. g[1] = es[1] /\ r * 1 = r /\ 1 \in 1 .. n
    BY <1>1 DEF Flattens
  <2> QED BY Zenon, <1>3, <2>1
<1>5. m \in 2 .. n /\ m - 1 \in 1 .. n /\ m - 1 \notin T
  BY <1>2, <1>3, <1>4
<1>6. Items(g[m - 1], r * (m - 1))
  BY <1>5
<1>7. Items(es[m], r)
  BY <1>3
<1>8. g[m] = g[m - 1] \o es[m]
  BY <1>1, <1>5 DEF Flattens
<1> HIDE DEF T
<1>9. r * (m - 1) \in Nat /\ r \in Nat /\ r # 0 /\ r * (m - 1) + r = r * m
  BY <1>5
<1>10. Items(g[m - 1] \o es[m], r * (m - 1) + r)
  BY Zenon, <1>6, <1>7, <1>9, ItemsTogether
<1> QED BY Zenon, <1>3, <1>8, <1>9, <1>10

-----------------------------------------------------------------------------
(* The header *)

\* The k-th of a set of places is one of them.
LEMMA NthIn ==
  ASSUME NEW n \in Nat, NEW S \in SUBSET (1 .. n), NEW k \in 1 .. Cardinality(S)
  PROVE  Nth(S, k) \in S
<1> DEFINE C(i) == {j \in S : j <= i}
<1>a. \A j \in S : j \in Nat /\ j > 0 /\ j <= n
  OBVIOUS
<1>0. IsFiniteSet(S) /\ Cardinality(S) \in Nat
  <2>1. IsFiniteSet(1 .. n)
    BY FS_Interval
  <2>2. IsFiniteSet(S)
    BY <2>1, FS_Subset
  <2> QED BY <2>2, FS_CardinalityType
<1>1. ASSUME NEW i \in Nat PROVE IsFiniteSet(C(i)) /\ Cardinality(C(i)) \in Nat
  <2>1. C(i) \subseteq S
    OBVIOUS
  <2> HIDE DEF C
  <2>2. IsFiniteSet(C(i))
    BY <1>0, <2>1, FS_Subset
  <2> QED BY <2>2, FS_CardinalityType
<1> DEFINE T == {i \in Nat : Cardinality(C(i)) >= k}
<1>2. n \in T
  <2>1. C(n) = S
    BY Zenon, <1>a
  <2> HIDE DEF C
  <2> QED BY <1>0, <2>1
<1>3. PICK i \in T : \A y \in T : i <= y
  <2>1. T \subseteq Nat /\ T # {}
    BY <1>2
  <2> HIDE DEF T
  <2> QED BY Zenon, <2>1, NatMin
<1>4. i \in Nat /\ Cardinality(C(i)) >= k
  <2> HIDE DEF C
  <2> QED BY <1>3
<1>5. i # 0
  <2>1. C(0) = {}
    <3>1. \A j \in S : ~ (j <= 0)
      BY <1>a
    <3> QED BY Zenon, <3>1
  <2>2. Cardinality({}) = 0
    BY FS_EmptySet
  <2> HIDE DEF C
  <2> QED BY <1>0, <1>4, <2>1, <2>2
<1>6. i - 1 \in Nat /\ ~ (Cardinality(C(i - 1)) >= k)
  <2>1. i - 1 \in Nat /\ ~ (i <= i - 1)
    BY <1>4, <1>5
  <2>2. i - 1 \notin T
    <3> HIDE DEF T
    <3> QED BY Zenon, <1>3, <2>1
  <2> HIDE DEF C
  <2> QED BY <2>1, <2>2
<1>7. i \in S
  <2> SUFFICES ASSUME i \notin S PROVE FALSE
    OBVIOUS
  <2>1. C(i) = C(i - 1)
    <3>1. \A j \in S : j <= i <=> j <= i - 1
      <4> TAKE j \in S
      <4>1. j \in Nat /\ j # i
        BY <1>a
      <4> QED BY <1>4, <4>1
    <3> QED BY Zenon, <3>1
  <2> HIDE DEF C
  <2> QED BY <1>4, <1>6, <2>1
<1>8. Cardinality(C(i)) = Cardinality(C(i - 1)) + 1
  <2>1. C(i) = C(i - 1) \cup {i}
    <3>1. \A j \in S : j <= i <=> j <= i - 1 \/ j = i
      <4> TAKE j \in S
      <4>1. j \in Nat
        BY <1>a
      <4> QED BY <1>4, <4>1
    <3> QED BY Zenon, <1>7, <3>1
  <2>2. i \notin C(i - 1)
    <3>1. ~ (i <= i - 1)
      BY <1>4
    <3> QED BY Zenon, <3>1
  <2> HIDE DEF C
  <2> QED BY <1>1, <1>6, <2>1, <2>2, FS_AddElement
<1>9. Cardinality(C(i)) = k
  <2> HIDE DEF C
  <2>1. Cardinality(C(i)) \in Nat /\ Cardinality(C(i - 1)) \in Nat
    BY <1>1, <1>4, <1>6
  <2> QED BY <1>0, <1>4, <1>6, <1>8, <2>1
<1>10. \E x \in S : Cardinality({j \in S : j <= x}) = k
  BY <1>7, <1>9
<1> QED BY Zenon, <1>10 DEF Nth

LEMMA TextItem == ASSUME NEW w \in Data PROVE Item(Text(w))
<1> DEFINE c == <<"text", w>>
<1>1. c \in Cell /\ c[1] \in Heads
  BY DEF Cell, Heads
<1>2. Begun(c)[2] = 0
  BY DEF Begun
<1> HIDE DEF c
<1>3. Item(<<c>>)
  BY Zenon, <1>1, <1>2, ItemOfOne
<1> QED BY <1>3 DEF Text, c

LEMMA DoubleItem == ASSUME NEW x \in Data PROVE Item(Double(x))
<1> DEFINE c == <<"double", x>>
<1>1. c \in Cell /\ c[1] \in Heads
  BY DEF Cell, Heads
<1>2. Begun(c)[2] = 0
  BY DEF Begun
<1> HIDE DEF c
<1>3. Item(<<c>>)
  BY Zenon, <1>1, <1>2, ItemOfOne
<1> QED BY <1>3 DEF Double, c

LEMMA EntryItems ==
  ASSUME NEW w \in Data, NEW v, Item(v)
  PROVE  Items(Entry(w, v), 2)
<1>1. Items(Text(w), 1) /\ Items(v, 1)
  BY Zenon, TextItem, ItemIsItems
<1>2. Items(Text(w) \o v, 1 + 1)
  BY <1>1, ItemsTogether
<1>3. 1 + 1 = 2
  OBVIOUS
<1> QED BY Zenon, <1>2, <1>3 DEF Entry

LEMMA MapItem ==
  ASSUME NEW es, Len(es) \in Nat \ {0}, \A i \in 1 .. Len(es) : Items(es[i], 2)
  PROVE  Item(Map(es))
<1> DEFINE n == Len(es)
           c == <<"map", n>>
<1>1. c \in Cell /\ c[1] \in Heads
  BY DEF Cell, Heads, Data
<1>2. Begun(c) = <<"items", 2 * n>> /\ 2 * n \in Nat \ {0}
  BY DEF Begun
<1>3. Items(FlattenSeq(es), 2 * n)
  <2>1. 2 \in {1, 2}
    OBVIOUS
  <2> QED BY Zenon, <2>1, ManyItems
<1> HIDE DEF c, n
<1>4. Item(<<c>> \o FlattenSeq(es))
  BY Zenon, <1>1, <1>2, <1>3, ItemOfMany
<1> QED BY Zenon, <1>4 DEF Map, c, n

LEMMA ArrayItem ==
  ASSUME NEW es \in Seq(Seq(Cell)), \A i \in 1 .. Len(es) : Item(es[i])
  PROVE  Item(Array(es))
<1> DEFINE n == Len(es)
           c == <<"array", n>>
<1>0. n \in Nat
  OBVIOUS
<1>1. c \in Cell /\ c[1] \in Heads
  BY <1>0 DEF Cell, Heads, Data
<1>2. Begun(c) = <<"items", n>>
  BY DEF Begun
<1>3. CASE n # 0
  <2>1. n \in Nat \ {0} /\ 1 * n = n
    BY <1>0, <1>3
  <2>2. Items(FlattenSeq(es), 1 * n)
    <3>1. 1 \in {1, 2}
      OBVIOUS
    <3>2. \A i \in 1 .. Len(es) : Items(es[i], 1)
      BY Zenon, ItemIsItems
    <3> QED BY Zenon, <2>1, <3>1, <3>2, ManyItems
  <2> HIDE DEF c, n
  <2>3. Items(FlattenSeq(es), n)
    BY Zenon, <2>1, <2>2
  <2>4. Item(<<c>> \o FlattenSeq(es))
    BY Zenon, <1>1, <1>2, <2>1, <2>3, ItemOfMany
  <2> QED BY Zenon, <2>4 DEF Array, c, n
<1>4. CASE n = 0
  <2>1. es = <<>>
    BY <1>4
  <2>2. FlattenSeq(es) = <<>>
    BY <1>4, <2>1 DEF FlattenSeq
  <2>3. Begun(c)[2] = 0
    BY <1>2, <1>4
  <2> HIDE DEF c
  <2>4. Item(<<c>>)
    BY Zenon, <1>1, <2>3, ItemOfOne
  <2>5. <<c>> \o <<>> = <<c>>
    OBVIOUS
  <2> QED BY Zenon, <2>2, <2>4, <2>5 DEF Array, c
<1> QED BY <1>3, <1>4

LEMMA AxisIs == ASSUME NEW k \in 1 .. Len(Axes) PROVE Axes[k] \in Data
<1> DEFINE named == {i \in 1 .. Len(sensors) : sensors[i] # NULL}
<1>1. Len(sensors) \in Nat /\ \A i \in 1 .. Len(sensors) : sensors[i] \in Range(sensors)
  <2>1. sensors \in Seq(Range(sensors))
    BY DocumentFits
  <2> HIDE DEF Range
  <2> QED BY <2>1
<1>2. named \in SUBSET (1 .. Len(sensors))
  OBVIOUS
<1>3. Axes = [i \in 1 .. Cardinality(named) |-> sensors[Nth(named, i)]]
  BY Zenon DEF Axes
<1>4. Cardinality(named) \in Nat
  <2>1. IsFiniteSet(1 .. Len(sensors))
    BY <1>1, FS_Interval
  <2>2. IsFiniteSet(named)
    BY <1>2, <2>1, FS_Subset
  <2> HIDE DEF named
  <2> QED BY <2>2, FS_CardinalityType
<1> HIDE DEF named
<1>5. k \in 1 .. Cardinality(named) /\ Axes[k] = sensors[Nth(named, k)]
  BY <1>3, <1>4
<1>6. Nth(named, k) \in 1 .. Len(sensors)
  BY <1>1, <1>2, <1>5, NthIn
<1> QED BY Zenon, <1>1, <1>5, <1>6 DEF Data

LEMMA AxesLen == Len(Axes) \in Nat
<1> DEFINE named == {i \in 1 .. Len(sensors) : sensors[i] # NULL}
<1>1. Len(sensors) \in Nat
  <2>1. sensors \in Seq(Range(sensors))
    BY DocumentFits
  <2> HIDE DEF Range
  <2> QED BY <2>1
<1>2. named \in SUBSET (1 .. Len(sensors))
  OBVIOUS
<1>3. Axes = [i \in 1 .. Cardinality(named) |-> sensors[Nth(named, i)]]
  BY Zenon DEF Axes
<1>4. Cardinality(named) \in Nat
  <2>1. IsFiniteSet(1 .. Len(sensors))
    BY <1>1, FS_Interval
  <2>2. IsFiniteSet(named)
    BY <1>2, <2>1, FS_Subset
  <2> HIDE DEF named
  <2> QED BY <2>2, FS_CardinalityType
<1> HIDE DEF named
<1> QED BY <1>3, <1>4

LEMMA PairOfEntries ==
  ASSUME NEW x, NEW y, Items(x, 2), Items(y, 2)
  PROVE  Item(Map(<<x, y>>))
<1> DEFINE es == <<x, y>>
<1>1. Len(es) = 2 /\ es[1] = x /\ es[2] = y
  OBVIOUS
<1> HIDE DEF es
<1>2. \A i \in 1 .. Len(es) : Items(es[i], 2)
  <2> TAKE i \in 1 .. Len(es)
  <2>1. i = 1 \/ i = 2
    BY <1>1
  <2> QED BY Zenon, <1>1, <2>1
<1>3. Len(es) \in Nat \ {0}
  BY <1>1
<1> QED BY Zenon, <1>2, <1>3, MapItem DEF es

LEMMA SensorItem == ASSUME NEW name \in Data PROVE Item(Sensor(name))
<1>1. "name" \in Data /\ "units" \in Data /\ "wav" \in Data
  BY DEF Data
<1>2. Items(Entry("name", Text(name)), 2) /\ Items(Entry("units", Text("wav")), 2)
  BY Zenon, <1>1, TextItem, EntryItems
<1> QED BY Zenon, <1>2, PairOfEntries DEF Sensor

LEMMA ProtectedItem == Item(Protected)
<1>1. "ver" \in Data /\ "v1" \in Data /\ "alg" \in Data /\ "HS256" \in Data
  BY DEF Data
<1>2. Items(Entry("ver", Text("v1")), 2) /\ Items(Entry("alg", Text("HS256")), 2)
  BY Zenon, <1>1, TextItem, EntryItems
<1> QED BY Zenon, <1>2, PairOfEntries DEF Protected

LEMMA SensorsItem == Item(Array([i \in 1 .. Len(Axes) |-> Sensor(Axes[i])]))
<1> DEFINE n == Len(Axes)
           es == [i \in 1 .. n |-> Sensor(Axes[i])]
<1>1. n \in Nat
  BY AxesLen
<1>2. \A i \in 1 .. n : Item(Sensor(Axes[i]))
  BY Zenon, AxisIs, SensorItem
<1>3. \A i \in 1 .. n : Sensor(Axes[i]) \in Seq(Cell)
  BY Zenon, <1>2 DEF Item
<1> HIDE DEF n
<1>4. es \in Seq(Seq(Cell)) /\ Len(es) = n
  BY <1>1, <1>3
<1>5. \A i \in 1 .. Len(es) : Item(es[i])
  <2> TAKE i \in 1 .. Len(es)
  <2>1. i \in 1 .. n
    BY <1>4
  <2>2. es[i] = Sensor(Axes[i])
    BY <2>1
  <2> HIDE DEF es
  <2> QED BY Zenon, <1>2, <2>1, <2>2
<1> HIDE DEF es
<1>6. Item(Array(es))
  BY Zenon, <1>4, <1>5, ArrayItem
<1> QED BY Zenon, <1>6 DEF es, n

AllCell == (Heads \cup {"byte", "break"}) \X Data

LEMMA CellsAre == ASSUME NEW x \in Seq(Cell) PROVE x \in Seq(AllCell)
<1>1. Cell \subseteq AllCell
  BY DEF Cell, AllCell
<1> HIDE DEF Cell, AllCell
<1> QED BY <1>1

\* The payload's entries in front of its values.
Before ==
  (IF device_name = NULL THEN <<>> ELSE <<Entry("device_name", Text(device_name))>>)
    \o <<Entry("device_type", Text("type")), Entry("interval_ms", Double("interval")),
         Entry("sensors", Array([i \in 1 .. Len(Axes) |-> Sensor(Axes[i])]))>>

LEMMA PayloadIs == Payload = Map(Append(Before, Entry("values", IndefiniteArray)))
<1> DEFINE a == Entry("device_name", Text(device_name))
           b == Entry("device_type", Text("type"))
           c == Entry("interval_ms", Double("interval"))
           d == Entry("sensors", Array([i \in 1 .. Len(Axes) |-> Sensor(Axes[i])]))
           e == Entry("values", IndefiniteArray)
<1>1. /\ Payload = Map((IF device_name = NULL THEN <<>> ELSE <<a>>) \o <<b, c, d, e>>)
      /\ Before = (IF device_name = NULL THEN <<>> ELSE <<a>>) \o <<b, c, d>>
  BY DEF Payload, Before
<1> HIDE DEF a, b, c, d, e
<1>2. <<>> \o <<b, c, d, e>> = Append(<<>> \o <<b, c, d>>, e)
  OBVIOUS
<1>3. <<a>> \o <<b, c, d, e>> = Append(<<a>> \o <<b, c, d>>, e)
  OBVIOUS
<1>4. Payload = Map(Append(Before, e))
  BY Zenon, <1>1, <1>2, <1>3
<1> QED BY <1>4 DEF e

LEMMA BeforeItems ==
  /\ Len(Before) \in Nat \ {0}
  /\ \A i \in 1 .. Len(Before) : Items(Before[i], 2)
<1> DEFINE a == Entry("device_name", Text(device_name))
           b == Entry("device_type", Text("type"))
           c == Entry("interval_ms", Double("interval"))
           d == Entry("sensors", Array([i \in 1 .. Len(Axes) |-> Sensor(Axes[i])]))
<1>1. Items(a, 2)
  <2>1. "device_name" \in Data /\ device_name \in Data
    BY DEF Data
  <2> QED BY Zenon, <2>1, TextItem, EntryItems
<1>2. Items(b, 2)
  <2>1. "device_type" \in Data /\ "type" \in Data
    BY DEF Data
  <2> QED BY Zenon, <2>1, TextItem, EntryItems
<1>3. Items(c, 2)
  <2>1. "interval_ms" \in Data /\ "interval" \in Data
    BY DEF Data
  <2> QED BY Zenon, <2>1, DoubleItem, EntryItems
<1>4. Items(d, 2)
  <2>1. "sensors" \in Data
    BY DEF Data
  <2> QED BY Zenon, <2>1, SensorsItem, EntryItems
<1>5. Before = (IF device_name = NULL THEN <<>> ELSE <<a>>) \o <<b, c, d>>
  BY DEF Before
<1> HIDE DEF a, b, c, d
<1>6. CASE device_name = NULL
  <2>1. Before = <<b, c, d>>
    BY <1>5, <1>6
  <2>2. Len(Before) = 3 /\ Before[1] = b /\ Before[2] = c /\ Before[3] = d
    BY <2>1
  <2>3. ASSUME NEW i \in 1 .. Len(Before) PROVE Items(Before[i], 2)
    <3>1. i = 1 \/ i = 2 \/ i = 3
      BY <2>2
    <3> QED BY Zenon, <1>2, <1>3, <1>4, <2>2, <3>1
  <2>4. Len(Before) \in Nat \ {0}
    BY <2>2
  <2> QED BY Zenon, <2>3, <2>4
<1>7. CASE device_name # NULL
  <2>1. Before = <<a>> \o <<b, c, d>>
    BY Zenon, <1>5, <1>7
  <2>2. Len(Before) = 4 /\ Before[1] = a /\ Before[2] = b /\ Before[3] = c /\ Before[4] = d
    BY <2>1
  <2>3. ASSUME NEW i \in 1 .. Len(Before) PROVE Items(Before[i], 2)
    <3>1. i = 1 \/ i = 2 \/ i = 3 \/ i = 4
      BY <2>2
    <3> QED BY Zenon, <1>1, <1>2, <1>3, <1>4, <2>2, <3>1
  <2>4. Len(Before) \in Nat \ {0}
    BY <2>2
  <2> QED BY Zenon, <2>3, <2>4
<1> QED BY <1>6, <1>7

\* Sequences can be put together in either order.
Regroups(x, y, z) == x \o (y \o z) = (x \o y) \o z /\ y \o z \in Seq(AllCell)

LEMMA Regroup ==
  ASSUME NEW x \in Seq(AllCell), NEW y \in Seq(AllCell), NEW z \in Seq(AllCell)
  PROVE  Regroups(x, y, z)
<1> HIDE DEF AllCell
<1>1. x \o (y \o z) = (x \o y) \o z
  OBVIOUS
<1>2. y \o z \in Seq(AllCell)
  OBVIOUS
<1> QED BY <1>1, <1>2 DEF Regroups

OneWait == <<"items", 1>>
ListWait == <<"list", 1>>

\* What is open where the samples go: the document, its payload, the entry
\* "values" and the list.
Three == Append(<<OneWait, OneWait>>, OneWait)
Base == Append(Three, ListWait)

LEMMA OpensMap ==
  ASSUME NEW b \in Seq(Waits), NEW n \in Nat \ {0}
  PROVE  /\ <<"map", n>> \in Cell
         /\ After(Append(b, OneWait), << <<"map", n>> >>)
              = Append(Append(b, OneWait), <<"items", 2 * n>>)
<1> DEFINE c == <<"map", n>>
<1>1. c \in Cell /\ c[1] \in Heads
  BY DEF Cell, Heads, Data
<1>2. Begun(c) = <<"items", 2 * n>> /\ Begun(c)[2] # 0
  BY DEF Begun
<1>3. OneWait \in Waits /\ OneWait[1] \in {"items", "list"}
  BY DEF OneWait, Waits
<1> HIDE DEF c
<1>4. Decode(Append(b, OneWait), c)
        = IF Begun(c)[2] = 0 THEN Complete(Append(b, OneWait))
          ELSE Append(Append(b, OneWait), Begun(c))
  BY Zenon, <1>1, <1>3, DecodeHead
<1> QED BY Zenon, <1>1, <1>2, <1>4, OneCell DEF c

\* The part of the document in front of its list.
Opening(x) ==
  /\ x \in Seq(Cell) /\ Len(x) > 0
  /\ x[Len(x)] = <<"text", "values">>
  /\ encoded = (x \o << <<"array_", 0>> >>) \o << Break >>
  /\ After(OneItem, x) = Append(<<OneWait, OneWait>>, OneWait)

LEMMA FrontIs == \E x : Opening(x)
<1> DEFINE one == <<OneWait>>
           two == <<OneWait, OneWait>>
           es == <<Entry("protected", Protected), Entry("signature", Text("0"))>>
           D == FlattenSeq(es)
           F == FlattenSeq(Before)
           n == Len(Before)
           m == << <<"map", 3>> >>
           k == << <<"map", n + 1>> >>
           p == Text("payload")
           v == Text("values")
           l == << <<"array_", 0>> >>
           x1 == m \o D
           x2 == x1 \o p
           x3 == x2 \o k
           x4 == x3 \o F
           x5 == x4 \o v
<1>1. Items(D, 4) /\ es \in Seq(Seq(AllCell)) /\ Len(es) = 2
  <2>1. "protected" \in Data /\ "signature" \in Data /\ "0" \in Data
    BY DEF Data
  <2>2. Items(Entry("protected", Protected), 2) /\ Items(Entry("signature", Text("0")), 2)
    BY Zenon, <2>1, ProtectedItem, TextItem, EntryItems
  <2>3. Len(es) = 2 /\ es[1] = Entry("protected", Protected)
        /\ es[2] = Entry("signature", Text("0"))
    OBVIOUS
  <2> HIDE DEF es
  <2>4. ASSUME NEW i \in 1 .. Len(es) PROVE Items(es[i], 2)
    <3>1. i = 1 \/ i = 2
      BY <2>3
    <3> QED BY Zenon, <2>2, <2>3, <3>1
  <2>5. Items(D, 2 * Len(es))
    <3>1. 2 \in {1, 2} /\ Len(es) \in Nat \ {0}
      BY <2>3
    <3> QED BY Zenon, <2>4, <3>1, ManyItems
  <2>6. 2 * Len(es) = 4
    BY <2>3
  <2>7. es \in Seq(Seq(AllCell))
    <3>1. Entry("protected", Protected) \in Seq(AllCell)
          /\ Entry("signature", Text("0")) \in Seq(AllCell)
      BY Zenon, <2>2, CellsAre DEF Items
    <3> HIDE DEF AllCell
    <3> QED BY <3>1 DEF es
  <2> QED BY Zenon, <2>3, <2>5, <2>6, <2>7
<1>2. Items(F, 2 * n) /\ Before \in Seq(Seq(AllCell)) /\ n \in Nat \ {0}
  <2>1. n \in Nat \ {0} /\ \A i \in 1 .. Len(Before) : Items(Before[i], 2)
    BY Zenon, BeforeItems
  <2>2. Items(F, 2 * n)
    <3>1. 2 \in {1, 2}
      OBVIOUS
    <3> QED BY Zenon, <2>1, <3>1, ManyItems
  <2>3. \A i \in 1 .. n : Before[i] \in Seq(AllCell)
    BY Zenon, <2>1, CellsAre DEF Items
  <2>4. Before = [i \in 1 .. n |-> Before[i]]
    BY DEF Before
  <2> HIDE DEF n, AllCell
  <2>5. Before \in Seq(Seq(AllCell))
    BY <2>1, <2>3, <2>4
  <2> QED BY Zenon, <2>1, <2>2, <2>5
<1>3. Items(p, 1) /\ Items(v, 1) /\ v = << <<"text", "values">> >>
  <2>1. "payload" \in Data /\ "values" \in Data
    BY DEF Data
  <2> QED BY Zenon, <2>1, TextItem, ItemIsItems DEF Text
<1>4. /\ m \in Seq(Cell) /\ D \in Seq(Cell) /\ p \in Seq(Cell)
      /\ k \in Seq(Cell) /\ F \in Seq(Cell) /\ v \in Seq(Cell)
  <2>1. D \in Seq(Cell) /\ p \in Seq(Cell) /\ F \in Seq(Cell) /\ v \in Seq(Cell)
    BY Zenon, <1>1, <1>2, <1>3 DEF Items
  <2>2. <<"map", 3>> \in Cell /\ <<"map", n + 1>> \in Cell
    BY <1>2 DEF Cell, Heads, Data
  <2> HIDE DEF Cell
  <2> QED BY <2>1, <2>2
<1>5. l \in Seq(AllCell) /\ << Break >> \in Seq(AllCell)
  BY DEF AllCell, Heads, Data, Break
<1>6. encoded = m \o (D \o (p \o (k \o (F \o (v \o (l \o << Break >>))))))
  <2>1. IndefiniteArray = l \o << Break >>
    BY DEF IndefiniteArray, Break
  <2>2. l \o << Break >> \in Seq(AllCell)
    <3> HIDE DEF l, AllCell, Break
    <3> QED BY <1>5
  <2>3. v \in Seq(AllCell) /\ p \in Seq(AllCell) /\ F \in Seq(AllCell) /\ k \in Seq(AllCell)
    BY Zenon, <1>4, CellsAre
  <2> DEFINE e == v \o (l \o << Break >>)
             q == k \o (F \o e)
  <2>4. Entry("values", IndefiniteArray) = e
    BY Zenon, <2>1 DEF Entry
  <2> HIDE DEF l, v, p, k, F, D, n
  <2>5. e \in Seq(AllCell)
    <3> HIDE DEF AllCell
    <3> QED BY <2>2, <2>3
  <2>6. FlattenSeq(Append(Before, e)) = F \o e
    <3>1. Len(Before) # 0
      BY <1>2 DEF n
    <3> QED BY Zenon, <1>2, <2>5, <3>1, FlattenMore DEF F
  <2>7. Len(Append(Before, e)) = n + 1
    <3> HIDE DEF e, AllCell
    <3> QED BY <1>2, <2>5 DEF n
  <2>8. Payload = q
    <3> HIDE DEF e
    <3> QED BY Zenon, PayloadIs, <2>4, <2>6, <2>7 DEF Map, k
  <2>9. q \in Seq(AllCell)
    <3> HIDE DEF e, AllCell
    <3> QED BY <2>3, <2>5
  <2> DEFINE w == p \o q
  <2>10. Entry("payload", Payload) = w
    BY Zenon, <2>8 DEF Entry, p
  <2>11. w \in Seq(AllCell)
    <3> HIDE DEF q, AllCell
    <3> QED BY <2>3, <2>9
  <2> HIDE DEF w
  <2>12. FlattenSeq(Append(es, w)) = D \o w
    <3> HIDE DEF es
    <3>1. Len(es) # 0
      BY <1>1
    <3> QED BY Zenon, <1>1, <2>11, <3>1, FlattenMore DEF D
  <2>13. <<Entry("protected", Protected), Entry("signature", Text("0")), w>> = Append(es, w)
    OBVIOUS
  <2>14. Len(Append(es, w)) = 3
    OBVIOUS
  <2>15. encoded = Map(Append(es, w))
    BY Zenon, <2>10, <2>13 DEF encoded
  <2>16. encoded = m \o (D \o w)
    <3> HIDE DEF es
    <3> QED BY Zenon, <2>12, <2>14, <2>15 DEF Map
  <2> QED BY Zenon, <2>16 DEF w
<1> HIDE DEF l, v, p, k, F, D, n, m, es
<1>7. /\ x1 \in Seq(Cell) /\ x2 \in Seq(Cell) /\ x3 \in Seq(Cell)
      /\ x4 \in Seq(Cell) /\ x5 \in Seq(Cell)
  <2> HIDE DEF Cell
  <2>1. x1 \in Seq(Cell)
    BY <1>4
  <2> HIDE DEF x1
  <2>2. x2 \in Seq(Cell)
    BY <1>4, <2>1
  <2> HIDE DEF x2
  <2>3. x3 \in Seq(Cell)
    BY <1>4, <2>2
  <2> HIDE DEF x3
  <2>4. x4 \in Seq(Cell)
    BY <1>4, <2>3
  <2> HIDE DEF x4
  <2> QED BY <1>4, <2>1, <2>2, <2>3, <2>4
<1>8. encoded = (x5 \o l) \o << Break >>
  <2> DEFINE b == << Break >>
             t == l \o b
  <2>1. /\ m \in Seq(AllCell) /\ D \in Seq(AllCell) /\ p \in Seq(AllCell)
        /\ k \in Seq(AllCell) /\ F \in Seq(AllCell) /\ v \in Seq(AllCell)
        /\ x1 \in Seq(AllCell) /\ x2 \in Seq(AllCell) /\ x3 \in Seq(AllCell)
        /\ x4 \in Seq(AllCell) /\ x5 \in Seq(AllCell) /\ b \in Seq(AllCell)
    BY Zenon, <1>4, <1>5, <1>7, CellsAre
  <2> HIDE DEF b, AllCell
  <2> DEFINE z1 == v \o t
             z2 == F \o z1
             z3 == k \o z2
             z4 == p \o z3
  <2>3. encoded = m \o (D \o z4)
    BY Zenon, <1>6 DEF b
  <2>t. t \in Seq(AllCell)
    <3>1. l \in Seq(AllCell) /\ b \in Seq(AllCell)
      BY Zenon, <1>5, <2>1
    <3>2. Regroups(l, l, b)
      BY Zenon, <3>1, Regroup
    <3> QED BY Zenon, <3>2 DEF Regroups
  <2>9. x5 \o t = (x5 \o l) \o b
    <3> HIDE DEF x5
    <3>1. x5 \in Seq(AllCell) /\ l \in Seq(AllCell) /\ b \in Seq(AllCell)
      BY Zenon, <1>5, <2>1
    <3>2. Regroups(x5, l, b)
      BY Zenon, <3>1, Regroup
    <3> QED BY Zenon, <3>2 DEF Regroups
  <2> HIDE DEF t
  <2>8. x4 \o z1 = x5 \o t /\ z1 \in Seq(AllCell)
    <3> HIDE DEF x4
    <3>1. x4 \in Seq(AllCell) /\ v \in Seq(AllCell)
      BY Zenon, <2>1
    <3>2. Regroups(x4, v, t)
      BY Zenon, <2>t, <3>1, Regroup
    <3> QED BY Zenon, <3>2 DEF Regroups
  <2> HIDE DEF z1
  <2>7. x3 \o z2 = x4 \o z1 /\ z2 \in Seq(AllCell)
    <3> HIDE DEF x3
    <3>1. x3 \in Seq(AllCell) /\ F \in Seq(AllCell)
      BY Zenon, <2>1
    <3>2. Regroups(x3, F, z1)
      BY Zenon, <2>8, <3>1, Regroup
    <3> QED BY Zenon, <3>2 DEF Regroups
  <2> HIDE DEF z2
  <2>6. x2 \o z3 = x3 \o z2 /\ z3 \in Seq(AllCell)
    <3> HIDE DEF x2
    <3>1. x2 \in Seq(AllCell) /\ k \in Seq(AllCell)
      BY Zenon, <2>1
    <3>2. Regroups(x2, k, z2)
      BY Zenon, <2>7, <3>1, Regroup
    <3> QED BY Zenon, <3>2 DEF Regroups
  <2> HIDE DEF z3
  <2>5. x1 \o z4 = x2 \o z3 /\ z4 \in Seq(AllCell)
    <3> HIDE DEF x1
    <3>1. x1 \in Seq(AllCell) /\ p \in Seq(AllCell)
      BY Zenon, <2>1
    <3>2. Regroups(x1, p, z3)
      BY Zenon, <2>6, <3>1, Regroup
    <3> QED BY Zenon, <3>2 DEF Regroups
  <2> HIDE DEF z4
  <2>4. m \o (D \o z4) = x1 \o z4
    <3>1. m \in Seq(AllCell) /\ D \in Seq(AllCell)
      BY Zenon, <2>1
    <3>2. Regroups(m, D, z4)
      BY Zenon, <2>5, <3>1, Regroup
    <3> QED BY Zenon, <3>2 DEF Regroups
  <2> HIDE DEF x5
  <2> QED BY Zenon, <2>3, <2>4, <2>5, <2>6, <2>7, <2>8, <2>9 DEF b
<1>9. After(OneItem, x5) = Append(two, OneWait)
  <2>1. <<>> \in Seq(Waits) /\ one \in Seq(Waits) /\ two \in Seq(Waits)
    BY DEF OneWait, Waits
  <2>2. OneItem = Append(<<>>, OneWait) /\ one = Append(<<>>, OneWait) /\ two = Append(one, OneWait)
    BY DEF OneItem, OneWait
  <2>a. one \in Seq(Waits) /\ two \in Seq(Waits)
    BY Zenon, <2>1
  <2> HIDE DEF one, two
  <2>3. After(OneItem, m) = Append(one, <<"items", 6>>)
    <3>1. 3 \in Nat \ {0} /\ 2 * 3 = 6
      OBVIOUS
    <3>2. After(Append(<<>>, OneWait), << <<"map", 3>> >>)
            = Append(Append(<<>>, OneWait), <<"items", 2 * 3>>)
      BY <2>1, <3>1, OpensMap
    <3> QED BY Zenon, <2>2, <3>1, <3>2 DEF m
  <2>4. After(OneItem, x1) = Append(one, <<"items", 2>>)
    <3>1. After(OneItem, x1) = After(After(OneItem, m), D)
      BY <1>4, OpenedParts
    <3>2. 6 \in Nat /\ 6 >= 4 /\ 6 - 4 = 2 /\ 2 # 0
      OBVIOUS
    <3>3. After(Append(one, <<"items", 6>>), D) = Left(one, 6 - 4)
      BY Zenon, <1>1, <2>a, <3>2 DEF Items
    <3> QED BY Zenon, <2>3, <3>1, <3>2, <3>3 DEF Left
  <2> HIDE DEF x1
  <2>5. After(OneItem, x2) = two
    <3>1. After(OneItem, x2) = After(After(OneItem, x1), p)
      BY <1>4, <1>7, OpenedParts
    <3>2. 2 \in Nat /\ 2 >= 1 /\ 2 - 1 = 1 /\ 1 # 0
      OBVIOUS
    <3>3. After(Append(one, <<"items", 2>>), p) = Left(one, 2 - 1)
      BY Zenon, <1>3, <2>a, <3>2 DEF Items
    <3> QED BY Zenon, <2>2, <2>4, <3>1, <3>2, <3>3 DEF Left, OneWait
  <2> HIDE DEF x2
  <2>6. After(OneItem, x3) = Append(two, <<"items", 2 * (n + 1)>>)
    <3>1. After(OneItem, x3) = After(After(OneItem, x2), k)
      BY <1>4, <1>7, OpenedParts
    <3>2. n + 1 \in Nat \ {0}
      BY <1>2
    <3>3. After(Append(one, OneWait), << <<"map", n + 1>> >>)
            = Append(Append(one, OneWait), <<"items", 2 * (n + 1)>>)
      BY Zenon, <2>a, <3>2, OpensMap
    <3> QED BY Zenon, <2>2, <2>5, <3>1, <3>3 DEF k
  <2> HIDE DEF x3
  <2>7. After(OneItem, x4) = Append(two, <<"items", 2>>)
    <3>1. After(OneItem, x4) = After(After(OneItem, x3), F)
      BY <1>4, <1>7, OpenedParts
    <3>2. 2 * (n + 1) \in Nat /\ 2 * (n + 1) >= 2 * n /\ 2 * (n + 1) - 2 * n = 2 /\ 2 # 0
      BY <1>2
    <3>3. After(Append(two, <<"items", 2 * (n + 1)>>), F) = Left(two, 2 * (n + 1) - 2 * n)
      BY Zenon, <1>2, <2>a, <3>2 DEF Items
    <3> QED BY Zenon, <2>6, <3>1, <3>2, <3>3 DEF Left
  <2> HIDE DEF x4
  <2>8. After(OneItem, x5) = After(After(OneItem, x4), v)
    BY <1>4, <1>7, OpenedParts
  <2>9. 2 \in Nat /\ 2 >= 1 /\ 2 - 1 = 1 /\ 1 # 0
    OBVIOUS
  <2>10. After(Append(two, <<"items", 2>>), v) = Left(two, 2 - 1)
    BY Zenon, <1>3, <2>a, <2>9 DEF Items
  <2> QED BY Zenon, <2>7, <2>8, <2>9, <2>10 DEF Left, OneWait
<1>10. Len(x5) > 0 /\ x5[Len(x5)] = <<"text", "values">>
  <2> HIDE DEF x4, Cell
  <2>1. x5 = x4 \o << <<"text", "values">> >> /\ x4 \in Seq(Cell)
    BY Zenon, <1>3, <1>7
  <2> HIDE DEF x5
  <2> QED BY <2>1
<1>11. Opening(x5)
  <2> HIDE DEF x5
  <2> QED BY Zenon, <1>7, <1>8, <1>9, <1>10 DEF Opening, l
<1> QED BY Zenon, <1>11

LEMMA HeaderIs == \E x : Opening(x) /\ header = x \o << <<"array_", 0>> >>
<1>1. PICK x : Opening(x)
  BY Zenon, FrontIs
<1> DEFINE a == << <<"array_", 0>> >>
           h == x \o a
           n == Len(h)
<1>2. x \in Seq(AllCell) /\ a \in Seq(AllCell) /\ << Break >> \in Seq(AllCell)
  <2>1. x \in Seq(AllCell)
    BY Zenon, <1>1, CellsAre DEF Opening
  <2>2. <<"array_", 0>> \in AllCell /\ Break \in AllCell
    BY DEF AllCell, Heads, Data, Break
  <2> HIDE DEF AllCell
  <2> QED BY <2>1, <2>2
<1>3. encoded = h \o << Break >>
  BY Zenon, <1>1 DEF Opening
<1>4. h \in Seq(AllCell) /\ n \in Nat
  <2> HIDE DEF a, AllCell
  <2> QED BY <1>2
<1> HIDE DEF h, n
<1>5. /\ Len(encoded) = n + 1 /\ encoded[n + 1] = Break
      /\ \A i \in 1 .. n : encoded[i] = h[i]
      /\ Len(h) = n
  <2> HIDE DEF AllCell, Break
  <2> QED BY <1>2, <1>3, <1>4 DEF n
<1>6. CborBuffer \in Nat /\ n + 1 <= CborBuffer
  BY <1>5, DocumentFits
<1>7. /\ Len(cbor_buffer) = CborBuffer
      /\ \A i \in 1 .. CborBuffer : cbor_buffer[i] = IF i <= n + 1 THEN encoded[i] ELSE Zero
  <2> HIDE DEF Break
  <2> QED BY <1>5, <1>6 DEF cbor_buffer
<1> DEFINE I == {i \in 1 .. Len(cbor_buffer) : cbor_buffer[i] # Zero}
<1>8. n + 1 \in I /\ \A i \in I : i \in Nat /\ n + 1 >= i
  <2>1. Break # Zero
    BY DEF Break, Zero
  <2>2. n + 1 \in 1 .. CborBuffer /\ n + 1 <= n + 1
    BY <1>4, <1>6
  <2>3. cbor_buffer[n + 1] = Break
    BY Zenon, <1>5, <1>7, <2>2
  <2>4. n + 1 \in I
    BY Zenon, <1>7, <2>1, <2>2, <2>3
  <2>5. ASSUME NEW i \in I PROVE i \in Nat /\ n + 1 >= i
    <3>1. i \in 1 .. CborBuffer /\ cbor_buffer[i] # Zero
      BY Zenon, <1>7
    <3>2. i <= n + 1
      BY Zenon, <1>7, <3>1
    <3> QED BY <1>4, <1>6, <3>1, <3>2
  <2> QED BY Zenon, <2>4, <2>5
<1>9. end_of_header_ix = n
  <2>1. end_of_header_ix = (IF I # {} THEN Max(I) ELSE 0) - 1
    BY DEF end_of_header_ix, SelectLastInSeq
  <2> HIDE DEF I
  <2>2. Max(I) = CHOOSE i \in I : \A y \in I : i >= y
    BY Zenon DEF Max
  <2>3. \A i \in I : (\A y \in I : i >= y) => i = n + 1
    BY <1>4, <1>8
  <2>4. Max(I) = n + 1
    BY Zenon, <1>8, <2>2, <2>3
  <2>5. end_of_header_ix = (n + 1) - 1
    BY Zenon, <1>8, <2>1, <2>4
  <2> QED BY <1>4, <2>5
<1>10. header = h
  <2>1. header = SubSeq(cbor_buffer, 1, n)
    BY Zenon, <1>9 DEF header
  <2>2. header = [i \in 1 .. n |-> cbor_buffer[i]]
    BY <1>4, <1>6, <1>7, <2>1
  <2>3. ASSUME NEW i \in 1 .. n PROVE cbor_buffer[i] = h[i]
    <3>1. i \in 1 .. CborBuffer /\ i <= n + 1
      BY <1>4, <1>6
    <3> QED BY Zenon, <1>5, <1>7, <3>1
  <2>4. h = [i \in 1 .. n |-> h[i]]
    <3> HIDE DEF AllCell
    <3> QED BY <1>4, <1>5
  <2> QED BY <2>2, <2>3, <2>4
<1> QED BY Zenon, <1>1, <1>10 DEF h

LEMMA HeaderFacts ==
  /\ header \in Seq(AllCell) /\ HeaderSize = Len(header) /\ HeaderSize \in Nat /\ HeaderSize >= 2
  /\ header[HeaderSize] = <<"array_", 0>> /\ header[HeaderSize - 1] = <<"text", "values">>
  /\ \A i \in 1 .. HeaderSize - 1 : header[i] \in Cell
  /\ After(OneItem, header) = Base
<1>1. PICK x : Opening(x) /\ header = x \o << <<"array_", 0>> >>
  BY Zenon, HeaderIs
<1> DEFINE c == <<"array_", 0>>
           n == Len(x)
<1>2. /\ x \in Seq(Cell) /\ x[n] = <<"text", "values">> /\ n > 0
      /\ After(OneItem, x) = Append(<<OneWait, OneWait>>, OneWait)
  BY Zenon, <1>1 DEF Opening
<1>3. c \in AllCell /\ c[1] \in Heads
  BY DEF AllCell, Heads, Data
<1>4. Begun(c) = ListWait /\ Begun(c)[2] # 0
  BY DEF Begun, ListWait
<1>5. HeaderSize = Len(header)
  BY RecordingAssumption
<1> HIDE DEF c
<1>6. /\ Len(header) = n + 1 /\ n \in Nat /\ header[n + 1] = c
      /\ \A i \in 1 .. n : header[i] = x[i] /\ x[i] \in Cell
  <2> HIDE DEF Cell
  <2>1. header = x \o <<c>>
    BY Zenon, <1>1 DEF c
  <2> QED BY <1>2, <2>1
<1>7. x \in Seq(AllCell) /\ <<c>> \in Seq(AllCell)
  <2>1. x \in Seq(AllCell)
    BY Zenon, <1>2, CellsAre
  <2> HIDE DEF AllCell
  <2> QED BY <1>3, <2>1
<1>8. header \in Seq(AllCell)
  <2> HIDE DEF AllCell
  <2>1. header = x \o <<c>>
    BY Zenon, <1>1 DEF c
  <2> QED BY <1>7, <2>1
<1>9. After(OneItem, header) = Base
  <2>1. After(OneItem, x \o <<c>>) = After(After(OneItem, x), <<c>>)
    BY <1>7, OpenedParts
  <2>2. <<OneWait, OneWait>> \in Seq(Waits) /\ OneWait \in Waits /\ OneWait[1] \in {"items", "list"}
    BY DEF OneWait, Waits
  <2>3. Decode(Append(<<OneWait, OneWait>>, OneWait), c)
          = IF Begun(c)[2] = 0 THEN Complete(Append(<<OneWait, OneWait>>, OneWait))
            ELSE Append(Append(<<OneWait, OneWait>>, OneWait), Begun(c))
    BY Zenon, <1>3, <2>2, DecodeHead
  <2>4. Append(<<OneWait, OneWait>>, OneWait) = Three
    BY DEF Three
  <2> QED BY Zenon, <1>1, <1>2, <1>4, <2>1, <2>3, <2>4, OneCell DEF Base, c
<1>10. HeaderSize = n + 1
  BY Zenon, <1>5, <1>6
<1>11. HeaderSize - 1 = n /\ HeaderSize \in Nat /\ HeaderSize >= 2 /\ n \in 1 .. n
  BY <1>2, <1>6, <1>10
<1> QED BY Zenon, <1>2, <1>5, <1>6, <1>8, <1>9, <1>10, <1>11 DEF c

-----------------------------------------------------------------------------
(* The samples *)

Sample == {v \in Int : -32768 <= v /\ v <= 32767}

\* What is open behind one, two and three cells of a sample.
Tagged == Append(Base, OneWait)
Typed == Append(Tagged, <<"bytes", 2>>)
Halved == Append(Tagged, <<"bytes", 1>>)

\* The samples vs of a recording, each in its array of one, and the break.
Body(s, vs, m) ==
  /\ m \in Nat /\ vs \in [0 .. m - 1 -> Sample]
  /\ s \in Seq(AllCell) /\ Len(s) = 4 * m + 1
  /\ \A j \in 0 .. m - 1, k \in 1 .. 4 : s[4 * j + k] = SampleCells(vs[j])[k]
  /\ s[4 * m + 1] = Break

LEMMA WaitsAre ==
  /\ OneWait \in Waits /\ ListWait \in Waits
  /\ <<"bytes", 2>> \in Waits /\ <<"bytes", 1>> \in Waits
  /\ <<OneWait>> \in Seq(Waits) /\ <<OneWait, OneWait>> \in Seq(Waits)
  /\ Three \in Seq(Waits) /\ Base \in Seq(Waits) /\ Tagged \in Seq(Waits)
  /\ Typed \in Seq(Waits) /\ Halved \in Seq(Waits)
<1>1. /\ OneWait \in Waits /\ ListWait \in Waits
      /\ <<"bytes", 2>> \in Waits /\ <<"bytes", 1>> \in Waits
  BY DEF OneWait, ListWait, Waits
<1> HIDE DEF Waits, OneWait, ListWait
<1>2. <<OneWait>> \in Seq(Waits) /\ <<OneWait, OneWait>> \in Seq(Waits)
  BY <1>1
<1>3. Three \in Seq(Waits)
  BY <1>1, <1>2 DEF Three
<1>4. Base \in Seq(Waits)
  BY <1>1, <1>3 DEF Base
<1>5. Tagged \in Seq(Waits)
  BY <1>1, <1>4 DEF Tagged
<1>6. Typed \in Seq(Waits)
  BY <1>1, <1>5 DEF Typed
<1>7. Halved \in Seq(Waits)
  BY <1>1, <1>5 DEF Halved
<1> QED BY Zenon, <1>1, <1>2, <1>3, <1>4, <1>5, <1>6, <1>7

LEMMA OneMore ==
  ASSUME NEW b \in Seq(Waits), NEW w \in Waits
  PROVE  /\ Len(b) \in Nat /\ Len(Append(b, w)) = Len(b) + 1
         /\ Append(b, w) # <<>> /\ Append(b, w)[Len(Append(b, w))] = w
         /\ SubSeq(Append(b, w), 1, Len(Append(b, w)) - 1) = b
<1> DEFINE o == Append(b, w)
           n == Len(b)
<1>1. n \in Nat /\ Len(o) = n + 1 /\ o[n + 1] = w /\ SubSeq(o, 1, n) = b
  OBVIOUS
<1> HIDE DEF o
<1>2. (n + 1) - 1 = n /\ o # <<>>
  BY <1>1
<1> QED BY Zenon, <1>1, <1>2 DEF o

LEMMA Lengths ==
  Len(Base) = 4 /\ Len(Tagged) = 5 /\ Len(Typed) = 6 /\ Len(Halved) = 6
<1>1. Len(<<OneWait, OneWait>>) = 2
  OBVIOUS
<1>2. Len(Three) = Len(<<OneWait, OneWait>>) + 1
  BY Zenon, WaitsAre, OneMore DEF Three
<1>3. Len(Base) = Len(Three) + 1
  BY Zenon, WaitsAre, OneMore DEF Base
<1>4. Len(Tagged) = Len(Base) + 1
  BY Zenon, WaitsAre, OneMore DEF Tagged
<1>5. Len(Typed) = Len(Tagged) + 1
  BY Zenon, WaitsAre, OneMore DEF Typed
<1>6. Len(Halved) = Len(Tagged) + 1
  BY Zenon, WaitsAre, OneMore DEF Halved
<1> QED BY <1>1, <1>2, <1>3, <1>4, <1>5, <1>6

LEMMA CompleteBase == Complete(Tagged) = Base /\ Complete(Halved) = Base /\ Complete(Typed) = Halved
<1>1. OneWait[1] # "list" /\ OneWait[2] = 1 /\ ListWait[1] = "list"
  BY DEF OneWait, ListWait
<1>2. Complete(Base) = Base
  BY Zenon, <1>1, WaitsAre, CompleteIs DEF Base
<1>3. Complete(Tagged) = Base
  <2>1. Complete(Append(Base, OneWait)) = Complete(Base)
    BY Zenon, <1>1, WaitsAre, CompleteIs
  <2> QED BY Zenon, <1>2, <2>1 DEF Tagged
<1>4. Complete(Halved) = Base
  <2> DEFINE w == <<"bytes", 1>>
  <2>1. w[1] # "list" /\ w[2] = 1
    OBVIOUS
  <2>2. w \in Waits
    BY Zenon, WaitsAre
  <2> HIDE DEF w
  <2>3. Complete(Append(Tagged, w)) = Complete(Tagged)
    BY Zenon, <2>1, <2>2, WaitsAre, CompleteIs
  <2> QED BY Zenon, <1>3, <2>3 DEF Halved, w
<1>5. Complete(Typed) = Halved
  <2> DEFINE w == <<"bytes", 2>>
  <2>1. w[1] # "list" /\ w[2] > 1 /\ <<w[1], w[2] - 1>> = <<"bytes", 1>>
    OBVIOUS
  <2>2. w \in Waits
    BY Zenon, WaitsAre
  <2> HIDE DEF w
  <2>3. Complete(Append(Tagged, w)) = Append(Tagged, <<w[1], w[2] - 1>>)
    BY Zenon, <2>1, <2>2, WaitsAre, CompleteIs
  <2> QED BY Zenon, <2>1, <2>3 DEF Halved, Typed, w
<1> QED BY Zenon, <1>3, <1>4, <1>5

LEMMA CompleteThree == Complete(Three) = <<>>
<1>1. OneWait[1] # "list" /\ OneWait[2] = 1
  BY DEF OneWait
<1>2. <<OneWait, OneWait>> = Append(<<OneWait>>, OneWait) /\ <<OneWait>> = Append(<<>>, OneWait)
      /\ <<>> \in Seq(Waits)
  OBVIOUS
<1>3. Complete(Three) = Complete(<<OneWait, OneWait>>)
  BY Zenon, <1>1, WaitsAre, CompleteIs DEF Three
<1>4. Complete(<<OneWait, OneWait>>) = Complete(<<OneWait>>)
  BY Zenon, <1>1, <1>2, WaitsAre, CompleteIs
<1>5. Complete(<<OneWait>>) = Complete(<<>>)
  BY Zenon, <1>1, <1>2, WaitsAre, CompleteIs
<1>6. Complete(<<>>) = <<>>
  BY DEF Complete
<1> QED BY Zenon, <1>3, <1>4, <1>5, <1>6

\* The second kind of cell ends the list, and with it the document.
LEMMA DecodeBreak == Decode(Base, Break) = <<>>
<1> DEFINE o == Base
<1>1. o # <<>> /\ o[Len(o)] = ListWait /\ SubSeq(o, 1, Len(o) - 1) = Three
  BY Zenon, WaitsAre, OneMore DEF Base
<1>2. ListWait[1] = "list" /\ Break[1] = "break"
  BY DEF ListWait, Break
<1> HIDE DEF o
<1> DEFINE top == ListWait[1]
<1>3. Decode(o, Break) = CASE top = "bytes" /\ Break[1] = "byte" -> Complete(o)
        [] top = "list" /\ Break[1] = "break" -> Complete(SubSeq(o, 1, Len(o) - 1))
        [] top \in {"items", "list"} /\ Break[1] \in Heads ->
             IF Begun(Break)[2] = 0 THEN Complete(o) ELSE Append(o, Begun(Break))
        [] OTHER -> Wrong
  BY Zenon, <1>1 DEF Decode
<1>4. ~ (top = "bytes" /\ Break[1] = "byte") /\ Break[1] \notin Heads
  BY <1>2 DEF Heads
<1>5. Decode(o, Break) = Complete(SubSeq(o, 1, Len(o) - 1))
  BY Zenon, <1>2, <1>3, <1>4
<1> QED BY Zenon, <1>1, <1>5, CompleteThree DEF o

\* A byte of an integer.
LEMMA DecodeByte ==
  ASSUME NEW b \in Seq(Waits), NEW w \in Waits, w[1] = "bytes", NEW c, c[1] = "byte"
  PROVE  Decode(Append(b, w), c) = Complete(Append(b, w))
<1> DEFINE o == Append(b, w)
<1>1. o # <<>> /\ o[Len(o)] = w
  OBVIOUS
<1> HIDE DEF o
<1>2. Decode(o, c) = CASE w[1] = "bytes" /\ c[1] = "byte" -> Complete(o)
        [] w[1] = "list" /\ c[1] = "break" -> Complete(SubSeq(o, 1, Len(o) - 1))
        [] w[1] \in {"items", "list"} /\ c[1] \in Heads ->
             IF Begun(c)[2] = 0 THEN Complete(o) ELSE Append(o, Begun(c))
        [] OTHER -> Wrong
  BY Zenon, <1>1 DEF Decode
<1>3. ~ (w[1] = "list" /\ c[1] = "break") /\ ~ (w[1] \in {"items", "list"} /\ c[1] \in Heads)
  OBVIOUS
<1>4. Decode(o, c) = Complete(o)
  BY Zenon, <1>2, <1>3
<1> QED BY <1>4 DEF o

\* The cells of a sample.
LEMMA CellsOfSample ==
  ASSUME NEW v \in Sample
  PROVE  /\ SampleCells(v)[1] = <<"array", 1>>
         /\ SampleCells(v)[2] = <<IF v < 0 THEN "neg16" ELSE "uint16", 0>>
         /\ SampleCells(v)[3] = <<"byte", Magnitude(v) \div 256>>
         /\ SampleCells(v)[4] = <<"byte", Magnitude(v) % 256>>
<1> DEFINE a == <<"array", 1>>
           t == <<IF v < 0 THEN "neg16" ELSE "uint16", 0>>
           x == <<"byte", Magnitude(v) \div 256>>
           y == <<"byte", Magnitude(v) % 256>>
<1>1. SampleCells(v) = <<a>> \o <<t, x, y>>
  BY Zenon DEF SampleCells, write_value_to_cbor_buffer
<1> HIDE DEF a, t, x, y
<1>2. /\ SampleCells(v)[1] = a /\ SampleCells(v)[2] = t
      /\ SampleCells(v)[3] = x /\ SampleCells(v)[4] = y
  BY <1>1
<1> QED BY Zenon, <1>2 DEF a, t, x, y

\* One sample after the other leads back to where the list goes on.
LEMMA SampleDecoded ==
  ASSUME NEW v \in Sample
  PROVE  /\ Decode(Base, SampleCells(v)[1]) = Tagged
         /\ Decode(Tagged, SampleCells(v)[2]) = Typed
         /\ Decode(Typed, SampleCells(v)[3]) = Halved
         /\ Decode(Halved, SampleCells(v)[4]) = Base
<1>1. Decode(Base, SampleCells(v)[1]) = Tagged
  <2> DEFINE c == <<"array", 1>>
  <2>1. SampleCells(v)[1] = c
    BY Zenon, CellsOfSample
  <2>2. c[1] \in Heads /\ Begun(c) = OneWait /\ Begun(c)[2] # 0
    BY DEF Heads, Begun, OneWait
  <2>3. ListWait[1] \in {"items", "list"}
    BY DEF ListWait
  <2> HIDE DEF c
  <2>4. Decode(Append(Three, ListWait), c)
          = IF Begun(c)[2] = 0 THEN Complete(Append(Three, ListWait))
            ELSE Append(Append(Three, ListWait), Begun(c))
    BY Zenon, <2>2, <2>3, WaitsAre, DecodeHead
  <2> QED BY Zenon, <2>1, <2>2, <2>4 DEF Tagged, Base
<1>2. Decode(Tagged, SampleCells(v)[2]) = Typed
  <2> DEFINE c == <<IF v < 0 THEN "neg16" ELSE "uint16", 0>>
  <2>1. SampleCells(v)[2] = c
    BY Zenon, CellsOfSample
  <2>2. c[1] \in Heads /\ Begun(c) = <<"bytes", 2>> /\ Begun(c)[2] # 0
    BY DEF Heads, Begun
  <2>3. OneWait[1] \in {"items", "list"}
    BY DEF OneWait
  <2> HIDE DEF c
  <2>4. Decode(Append(Base, OneWait), c)
          = IF Begun(c)[2] = 0 THEN Complete(Append(Base, OneWait))
            ELSE Append(Append(Base, OneWait), Begun(c))
    BY Zenon, <2>2, <2>3, WaitsAre, DecodeHead
  <2> QED BY Zenon, <2>1, <2>2, <2>4 DEF Tagged, Typed
<1>3. Decode(Typed, SampleCells(v)[3]) = Halved
  <2> DEFINE c == <<"byte", Magnitude(v) \div 256>>
             w == <<"bytes", 2>>
  <2>1. SampleCells(v)[3] = c
    BY Zenon, CellsOfSample
  <2>2. c[1] = "byte" /\ w[1] = "bytes"
    OBVIOUS
  <2>3. w \in Waits
    BY Zenon, WaitsAre
  <2> HIDE DEF c, w
  <2>4. Decode(Append(Tagged, w), c) = Complete(Append(Tagged, w))
    BY Zenon, <2>2, <2>3, WaitsAre, DecodeByte
  <2> QED BY Zenon, <2>1, <2>4, CompleteBase DEF Typed, w
<1>4. Decode(Halved, SampleCells(v)[4]) = Base
  <2> DEFINE c == <<"byte", Magnitude(v) % 256>>
             w == <<"bytes", 1>>
  <2>1. SampleCells(v)[4] = c
    BY Zenon, CellsOfSample
  <2>2. c[1] = "byte" /\ w[1] = "bytes"
    OBVIOUS
  <2>3. w \in Waits
    BY Zenon, WaitsAre
  <2> HIDE DEF c, w
  <2>4. Decode(Append(Tagged, w), c) = Complete(Append(Tagged, w))
    BY Zenon, <2>2, <2>3, WaitsAre, DecodeByte
  <2> QED BY Zenon, <2>1, <2>4, CompleteBase DEF Halved, w
<1> QED BY Zenon, <1>1, <1>2, <1>3, <1>4

\* What is open behind q cells of samples.
Within(q) ==
  IF q % 4 = 0 THEN Base ELSE IF q % 4 = 1 THEN Tagged ELSE IF q % 4 = 2 THEN Typed ELSE Halved

\* The samples lead back to the list again and again, and the break ends it.
LEMMA BodyDecoded ==
  ASSUME NEW s, NEW vs, NEW m, Body(s, vs, m)
  PROVE  /\ \A q \in 0 .. 4 * m : Opened(Base, s)[q] = Within(q)
         /\ After(Base, s) = <<>>
<1> DEFINE n == 4 * m
           g == [q \in 0 .. n |-> Within(q)]
<1>1. /\ m \in Nat /\ vs \in [0 .. m - 1 -> Sample]
      /\ Len(s) = n + 1 /\ s[n + 1] = Break
      /\ \A j \in 0 .. m - 1, k \in 1 .. 4 : s[4 * j + k] = SampleCells(vs[j])[k]
  BY DEF Body
<1>2. n \in Nat /\ 0 \in 0 .. n /\ n \in 0 .. n /\ 0 % 4 = 0 /\ n % 4 = 0
  BY <1>1
<1>3. ASSUME NEW q \in 1 .. n PROVE g[q] = Decode(g[q - 1], s[q])
  <2> DEFINE j == (q - 1) \div 4
             k == ((q - 1) % 4) + 1
  <2>1. j \in 0 .. m - 1 /\ k \in 1 .. 4 /\ q = 4 * j + k
    BY <1>1
  <2>a. j \in Nat /\ q \in Nat /\ m \in Nat
    BY <1>1, <2>1
  <2> HIDE DEF j, k
  <2>2. /\ k = 1 => (q - 1) % 4 = 0 /\ q % 4 = 1
        /\ k = 2 => (q - 1) % 4 = 1 /\ q % 4 = 2
        /\ k = 3 => (q - 1) % 4 = 2 /\ q % 4 = 3
        /\ k = 4 => (q - 1) % 4 = 3 /\ q % 4 = 0
    BY <2>1, <2>a
  <2>3. s[q] = SampleCells(vs[j])[k] /\ vs[j] \in Sample
    <3>1. s[q] = SampleCells(vs[j])[k]
      BY Zenon, <1>1, <2>1
    <3>2. vs[j] \in Sample
      <4> HIDE DEF Sample
      <4> QED BY <1>1, <2>1
    <3> QED BY Zenon, <3>1, <3>2
  <2>4. g[q] = Within(q) /\ g[q - 1] = Within(q - 1)
    <3>1. q \in 0 .. n /\ q - 1 \in 0 .. n
      BY <1>2
    <3> QED BY Zenon, <3>1
  <2> HIDE DEF g
  <2>5. /\ Decode(Base, SampleCells(vs[j])[1]) = Tagged
        /\ Decode(Tagged, SampleCells(vs[j])[2]) = Typed
        /\ Decode(Typed, SampleCells(vs[j])[3]) = Halved
        /\ Decode(Halved, SampleCells(vs[j])[4]) = Base
    BY Zenon, <2>3, SampleDecoded
  <2>6. /\ k = 1 => Within(q - 1) = Base /\ Within(q) = Tagged
        /\ k = 2 => Within(q - 1) = Tagged /\ Within(q) = Typed
        /\ k = 3 => Within(q - 1) = Typed /\ Within(q) = Halved
        /\ k = 4 => Within(q - 1) = Halved /\ Within(q) = Base
    BY <2>2 DEF Within
  <2>7. k = 1 \/ k = 2 \/ k = 3 \/ k = 4
    BY <2>1
  <2> QED BY Zenon, <2>3, <2>4, <2>5, <2>6, <2>7
<1>4. g[0] = Base
  BY Zenon, <1>2 DEF Within
<1>5. g[n] = Base
  BY Zenon, <1>2 DEF Within
<1>6. \A q \in 0 .. n : Opened(Base, s)[q] = g[q]
  <2> HIDE DEF g
  <2>1. Goes(g, Base, s, n)
    BY Zenon, <1>3, <1>4 DEF Goes
  <2>2. Len(s) \in Nat /\ n \in 0 .. Len(s)
    BY <1>1, <1>2
  <2> HIDE DEF n
  <2>3. \A q \in 0 .. n : Opened(Base, s)[q] = g[q]
    BY <2>1, <2>2, OnlyOpened
  <2> QED BY Zenon, <2>3
<1>7. \A q \in 0 .. n : g[q] = Within(q)
  OBVIOUS
<1> HIDE DEF g
<1>8. After(Base, s) = <<>>
  <2> DEFINE o == Opened(Base, s)
  <2>1. Len(s) \in Nat /\ n + 1 \in 1 .. Len(s) /\ (n + 1) - 1 = n
    BY <1>1, <1>2
  <2>2. Goes(o, Base, s, Len(s))
    BY Zenon, <2>1, OpenedIs
  <2>3. o[n] = Base
    BY Zenon, <1>2, <1>5, <1>6
  <2> HIDE DEF o, n
  <2>4. o[n + 1] = Decode(o[(n + 1) - 1], s[n + 1])
    BY Zenon, <2>1, <2>2 DEF Goes
  <2>5. o[n + 1] = <<>>
    BY Zenon, <1>1, <2>1, <2>3, <2>4, DecodeBreak
  <2> QED BY Zenon, <1>1, <2>5 DEF After, o
<1> QED BY Zenon, <1>6, <1>7, <1>8

\* Where the samples of a recording begin.
Firsts(m) == {p \in HeaderSize + 1 .. HeaderSize + 4 * m : (p - HeaderSize) % 4 = 1}

SampleAt(vs, p) == vs[((p - HeaderSize) - 1) \div 4]

LEMMA SampleIs ==
  ASSUME NEW s, NEW vs, NEW m, Body(s, vs, m), NEW p \in Firsts(m)
  PROVE  SampleAt(vs, p) \in Sample
<1>1. m \in Nat /\ HeaderSize \in Nat /\ vs \in [0 .. m - 1 -> Sample]
  BY MemoryAssumption DEF Body
<1>2. ((p - HeaderSize) - 1) \div 4 \in 0 .. m - 1
  <2>1. p \in HeaderSize + 1 .. HeaderSize + 4 * m
    BY DEF Firsts
  <2> QED BY <1>1, <2>1
<1> QED BY <1>1, <1>2 DEF SampleAt

LEMMA MagnitudeIs ==
  ASSUME NEW v \in Sample
  PROVE  /\ Magnitude(v) = IF v < 0 THEN 0 - v ELSE v
         /\ 256 * (Magnitude(v) \div 256) + (Magnitude(v) % 256) = Magnitude(v)
<1>1. v \in Int /\ -32768 <= v /\ v <= 32767
  BY DEF Sample
<1>2. Magnitude(v) = IF v < 0 THEN 0 - v ELSE v
  <2>1. CASE v < 0
    <3> DEFINE x == (0 - v) - 1
    <3>1. x \in Nat /\ x <= 32767
      BY <1>1, <2>1
    <3> HIDE DEF x
    <3>2. x % 65536 = x
      BY <3>1
    <3>3. (x + 1) % 65536 = x + 1
      BY <3>1
    <3>4. x + 1 = 0 - v
      BY <1>1 DEF x
    <3>5. Magnitude(v) = ((x % 65536) + 1) % 65536
      BY <2>1 DEF Magnitude, x
    <3>6. Magnitude(v) = 0 - v
      BY <3>2, <3>3, <3>4, <3>5
    <3> QED BY Zenon, <2>1, <3>6
  <2>2. CASE ~ (v < 0)
    BY <2>2 DEF Magnitude
  <2> QED BY <2>1, <2>2
<1>3. Magnitude(v) \in Nat
  BY <1>1, <1>2
<1>4. ASSUME NEW n \in Nat PROVE 256 * (n \div 256) + (n % 256) = n
  OBVIOUS
<1> QED BY Zenon, <1>2, <1>3, <1>4

\* The number a sample comes to.
AsSent(v) == IF v < 0 THEN v - 1 ELSE v

LEMMA NumberIs ==
  ASSUME NEW v \in Sample, NEW s, NEW p \in Nat,
         s[p] = SampleCells(v)[2], s[p + 1] = SampleCells(v)[3], s[p + 2] = SampleCells(v)[4]
  PROVE  Number(s, p) = AsSent(v)
<1>1. v \in Int
  BY DEF Sample
<1> DEFINE hi == Magnitude(v) \div 256
           lo == Magnitude(v) % 256
<1>2. s[p + 1][2] = hi /\ s[p + 2][2] = lo
  <2>1. s[p + 1] = <<"byte", hi>> /\ s[p + 2] = <<"byte", lo>>
    BY Zenon, CellsOfSample
  <2> HIDE DEF hi, lo
  <2> QED BY <2>1
<1>3. s[p][1] = IF v < 0 THEN "neg16" ELSE "uint16"
  <2>1. s[p] = <<IF v < 0 THEN "neg16" ELSE "uint16", 0>>
    BY Zenon, CellsOfSample
  <2> QED BY <2>1
<1>4. 256 * hi + lo = IF v < 0 THEN 0 - v ELSE v
  BY Zenon, MagnitudeIs
<1> HIDE DEF hi, lo
<1>5. Number(s, p) = IF s[p][1] = "neg16" THEN -1 - (256 * hi + lo) ELSE 256 * hi + lo
  BY Zenon, <1>2 DEF Number
<1>6. CASE v < 0
  <2>1. Number(s, p) = -1 - (0 - v)
    BY Zenon, <1>3, <1>4, <1>5, <1>6
  <2>2. -1 - (0 - v) = v - 1
    BY <1>1
  <2> QED BY Zenon, <1>6, <2>1, <2>2 DEF AsSent
<1>7. CASE ~ (v < 0)
  <2>1. s[p][1] # "neg16"
    BY <1>3, <1>7
  <2> QED BY Zenon, <1>4, <1>5, <1>7, <2>1 DEF AsSent
<1> QED BY <1>6, <1>7

\* Which sample a cell belongs to.
LEMMA Quarters ==
  ASSUME NEW m \in Nat, NEW q \in 1 .. 4 * m
  PROVE  /\ (q - 1) \div 4 \in 0 .. m - 1 /\ ((q - 1) % 4) + 1 \in 1 .. 4
         /\ q = 4 * ((q - 1) \div 4) + (((q - 1) % 4) + 1)
         /\ q % 4 = 1 <=> (q - 1) % 4 = 0
<1> DEFINE j == (q - 1) \div 4
           r == (q - 1) % 4
<1>1. j \in Nat /\ r \in 0 .. 3 /\ q - 1 = 4 * j + r
  OBVIOUS
<1>2. q % 4 = 1 <=> r = 0
  OBVIOUS
<1> HIDE DEF j, r
<1>3. j \in 0 .. m - 1 /\ r + 1 \in 1 .. 4 /\ q = 4 * j + (r + 1)
  BY <1>1
<1> QED BY <1>2, <1>3 DEF j, r

LEMMA Concat ==
  ASSUME NEW S, NEW x \in Seq(S), NEW y \in Seq(S)
  PROVE  /\ Len(x \o y) = Len(x) + Len(y)
         /\ \A i \in 1 .. Len(x) : (x \o y)[i] = x[i]
         /\ \A i \in 1 .. Len(y) : (x \o y)[Len(x) + i] = y[i]
  OBVIOUS

\* Behind the header the samples of a recording make a document of its values.
LEMMA DocumentDecoded ==
  ASSUME NEW s, NEW vs, NEW m, Body(s, vs, m)
  PROVE  /\ IsDocument(header \o s)
         /\ Len(Values(header \o s)) = Cardinality(Firsts(m))
         /\ DOMAIN Values(header \o s) = 1 .. Cardinality(Firsts(m))
         /\ Cardinality(Firsts(m)) \in Nat
         /\ \A k \in 1 .. Cardinality(Firsts(m)) :
              Values(header \o s)[k] = AsSent(SampleAt(vs, Nth(Firsts(m), k)))
<1> DEFINE R == header \o s
           h == HeaderSize
           n == 4 * m
           o == Opened(OneItem, R)
<1>1. /\ m \in Nat /\ vs \in [0 .. m - 1 -> Sample] /\ s \in Seq(AllCell)
      /\ Len(s) = n + 1 /\ s[n + 1] = Break
      /\ \A j \in 0 .. m - 1, k \in 1 .. 4 : s[4 * j + k] = SampleCells(vs[j])[k]
  BY DEF Body
<1>2. /\ header \in Seq(AllCell) /\ h = Len(header) /\ h \in Nat /\ h >= 2
      /\ header[h] = <<"array_", 0>> /\ header[h - 1] = <<"text", "values">>
      /\ \A i \in 1 .. h - 1 : header[i] \in Cell
      /\ After(OneItem, header) = Base
  BY Zenon, HeaderFacts
<1>3. n \in Nat /\ h + n \in Nat /\ h + (n + 1) = (h + n) + 1
  BY <1>1, <1>2
<1>4. /\ Len(R) = h + (n + 1)
      /\ \A i \in 1 .. h : R[i] = header[i]
      /\ \A q \in 1 .. n + 1 : R[h + q] = s[q]
  <2>1. header \in Seq(AllCell) /\ s \in Seq(AllCell)
    BY Zenon, <1>1, <1>2
  <2>2. /\ Len(R) = Len(header) + Len(s)
        /\ \A i \in 1 .. Len(header) : R[i] = header[i]
        /\ \A i \in 1 .. Len(s) : R[Len(header) + i] = s[i]
    BY <2>1, Concat
  <2> HIDE DEF R, h, n
  <2> QED BY Zenon, <1>1, <1>2, <2>2
<1>5. /\ After(OneItem, R) = <<>>
      /\ \A q \in 0 .. n : o[h + q] = Within(q)
  <2>1. /\ \A p \in 0 .. Len(s) : o[Len(header) + p] = Opened(After(OneItem, header), s)[p]
        /\ After(OneItem, R) = After(After(OneItem, header), s)
    <3>1. header \in Seq(AllCell) /\ s \in Seq(AllCell)
      BY Zenon, <1>1, <1>2
    <3> QED BY <3>1, OpenedParts
  <2>2. (\A q \in 0 .. n : Opened(Base, s)[q] = Within(q)) /\ After(Base, s) = <<>>
    BY Zenon, BodyDecoded
  <2>3. \A q \in 0 .. n : q \in 0 .. Len(s)
    BY <1>1, <1>3
  <2> HIDE DEF o, n, R, h
  <2> QED BY Zenon, <1>2, <2>1, <2>2, <2>3
<1>6. IsDocument(R)
  BY Zenon, <1>5 DEF IsDocument, After
<1>7. ASSUME NEW p \in h + 1 .. h + (n + 1)
      PROVE  /\ R[p][1] # "array_"
             /\ o[p - 1] = o[h] /\ R[p][1] # "break" <=> p <= h + n /\ (p - h) % 4 = 1
  <2> DEFINE q == p - h
  <2>1. q \in 1 .. n + 1 /\ p = h + q /\ p - 1 = h + (q - 1) /\ q - 1 \in 0 .. n
        /\ h + 0 = h /\ 0 \in 0 .. n
    BY <1>2, <1>3
  <2> HIDE DEF q, o, n, R, h
  <2>2. R[p] = s[q]
    BY Zenon, <1>4, <2>1
  <2>3. o[h] = Base /\ o[p - 1] = Within(q - 1)
    <3>1. o[h] = Within(0) /\ 0 % 4 = 0
      <4>1. 0 % 4 = 0
        OBVIOUS
      <4> QED BY Zenon, <1>5, <2>1, <4>1
    <3> QED BY Zenon, <1>5, <2>1, <3>1 DEF Within
  <2>4. CASE q = n + 1
    <3>1. R[p] = Break
      BY Zenon, <1>1, <2>2, <2>4
    <3>2. ~ (p <= h + n)
      BY <1>2, <1>3, <2>1, <2>4
    <3>3. Break[1] = "break" /\ "break" # "array_"
      BY DEF Break
    <3> QED BY Zenon, <3>1, <3>2, <3>3
  <2>5. CASE q # n + 1
    <3> DEFINE j == (q - 1) \div 4
               k == ((q - 1) % 4) + 1
    <3>0. q \in 1 .. n
      BY <1>3, <2>1, <2>5
    <3>1. j \in 0 .. m - 1 /\ k \in 1 .. 4 /\ q = 4 * j + k
      BY Zenon, <1>1, <3>0, Quarters DEF n
    <3>2. s[q] = SampleCells(vs[j])[k] /\ vs[j] \in Sample
      <4> HIDE DEF j, k
      <4>1. s[q] = SampleCells(vs[j])[k]
        BY Zenon, <1>1, <3>1
      <4>2. vs[j] \in Sample
        BY <1>1, <3>1
      <4> QED BY Zenon, <4>1, <4>2
    <3>3. s[q][1] # "array_" /\ s[q][1] # "break"
      <4> HIDE DEF j, k
      <4> DEFINE v == vs[j]
      <4>1. k = 1 \/ k = 2 \/ k = 3 \/ k = 4
        BY <3>1
      <4> HIDE DEF v
      <4>2. v \in Sample /\ s[q] = SampleCells(v)[k]
        BY Zenon, <3>2 DEF v
      <4>3. /\ SampleCells(v)[1] = <<"array", 1>>
            /\ SampleCells(v)[2] = <<IF v < 0 THEN "neg16" ELSE "uint16", 0>>
            /\ SampleCells(v)[3] = <<"byte", Magnitude(v) \div 256>>
            /\ SampleCells(v)[4] = <<"byte", Magnitude(v) % 256>>
        BY Zenon, <4>2, CellsOfSample
      <4> DEFINE hi == Magnitude(v) \div 256
                 lo == Magnitude(v) % 256
      <4>4. /\ SampleCells(v)[1] = <<"array", 1>>
            /\ SampleCells(v)[2] = <<IF v < 0 THEN "neg16" ELSE "uint16", 0>>
            /\ SampleCells(v)[3] = <<"byte", hi>>
            /\ SampleCells(v)[4] = <<"byte", lo>>
        BY <4>3
      <4> HIDE DEF hi, lo
      <4> QED BY <4>1, <4>2, <4>4
    <3>4. p <= h + n
      BY <1>2, <1>3, <2>1, <3>0
    <3>5. (q - 1) % 4 = 0 <=> q % 4 = 1
      BY Zenon, <1>1, <3>0, Quarters DEF n
    <3>6. Within(q - 1) = Base <=> (q - 1) % 4 = 0
      <4>1. Base # Tagged /\ Base # Typed /\ Base # Halved
        BY Lengths
      <4> QED BY Zenon, <4>1 DEF Within
    <3> HIDE DEF j, k
    <3>7. q = p - h
      BY DEF q
    <3> QED BY Zenon, <2>2, <2>3, <3>3, <3>4, <3>5, <3>6, <3>7
  <2> QED BY <2>4, <2>5
<1> DEFINE Heading(p) == R[p][1] = "array_" /\ R[p - 1] = <<"text", "values">>
           head == CHOOSE p \in 2 .. Len(R) : Heading(p)
           begin(x) == {p \in x + 1 .. Len(R) : o[p - 1] = o[x] /\ R[p][1] # "break"}
<1>8. Values(R) = [k \in 1 .. Cardinality(begin(head)) |-> Number(R, Nth(begin(head), k) + 1)]
  BY Zenon DEF Values
<1>9. h \in 2 .. Len(R) /\ Heading(h)
  <2>1. h \in 2 .. Len(R) /\ h \in 1 .. h /\ h - 1 \in 1 .. h
    <3> HIDE DEF R, n, h
    <3> QED BY <1>2, <1>3, <1>4
  <2>2. R[h] = <<"array_", 0>> /\ R[h - 1] = <<"text", "values">>
    <3> HIDE DEF R, h, n
    <3> QED BY Zenon, <1>2, <1>4, <2>1
  <2>3. <<"array_", 0>>[1] = "array_"
    OBVIOUS
  <2> HIDE DEF R, h
  <2> QED BY Zenon, <2>1, <2>2, <2>3
<1>10. ASSUME NEW p \in 2 .. Len(R), Heading(p) PROVE p = h
  <2>1. p \in 1 .. h - 1 \/ p = h \/ p \in h + 1 .. h + (n + 1)
    <3> HIDE DEF R, h, n
    <3> QED BY <1>2, <1>3, <1>4
  <2>2. p \notin h + 1 .. h + (n + 1)
    <3> HIDE DEF R, h, n, o
    <3> QED BY Zenon, <1>7, <1>10
  <2>3. p \notin 1 .. h - 1
    <3> SUFFICES ASSUME p \in 1 .. h - 1 PROVE FALSE
      OBVIOUS
    <3>1. p \in 1 .. h
      BY <1>2
    <3>2. R[p] \in Cell
      <4> HIDE DEF R, h, n
      <4> QED BY Zenon, <1>2, <1>4, <3>1
    <3> HIDE DEF R
    <3>3. R[p][1] # "array_"
      BY <3>2 DEF Cell, Heads
    <3> QED BY Zenon, <1>10, <3>3
  <2> QED BY <2>1, <2>2, <2>3
<1>11. head = h
  <2> HIDE DEF Heading, h
  <2> QED BY Zenon, <1>9, <1>10
<1>12. begin(h) = Firsts(m)
  <2>1. ASSUME NEW p PROVE p \in begin(h) <=> p \in Firsts(m)
    <3> HIDE DEF R, o
    <3>1. p \in Firsts(m) <=> p \in h + 1 .. h + (n + 1) /\ p <= h + n /\ (p - h) % 4 = 1
      BY <1>2, <1>3 DEF Firsts
    <3>2. p \in begin(h) <=> p \in h + 1 .. h + (n + 1) /\ o[p - 1] = o[h] /\ R[p][1] # "break"
      <4> HIDE DEF h, n
      <4> QED BY Zenon, <1>4
    <3> HIDE DEF begin, h, n
    <3> QED BY Zenon, <1>7, <3>1, <3>2
  <2> HIDE DEF begin, h
  <2> QED BY Zenon, <2>1
<1>13. Cardinality(Firsts(m)) \in Nat /\ Firsts(m) \in SUBSET (1 .. h + n)
  <2>1. Firsts(m) \subseteq 1 .. h + n
    BY <1>2, <1>3 DEF Firsts
  <2>2. IsFiniteSet(1 .. h + n)
    BY <1>3, FS_Interval
  <2>3. IsFiniteSet(Firsts(m))
    BY <2>1, <2>2, FS_Subset
  <2>4. Cardinality(Firsts(m)) \in Nat
    BY <2>3, FS_CardinalityType
  <2> QED BY Zenon, <2>1, <2>4
<1>14. Values(R) = [k \in 1 .. Cardinality(Firsts(m)) |-> Number(R, Nth(Firsts(m), k) + 1)]
  <2> HIDE DEF begin, head, R, h
  <2> QED BY Zenon, <1>8, <1>11, <1>12
<1>15. Len(Values(R)) = Cardinality(Firsts(m)) /\ DOMAIN Values(R) = 1 .. Cardinality(Firsts(m))
  <2> HIDE DEF R
  <2> QED BY <1>13, <1>14
<1>16. ASSUME NEW k \in 1 .. Cardinality(Firsts(m))
       PROVE  Values(R)[k] = AsSent(SampleAt(vs, Nth(Firsts(m), k)))
  <2> DEFINE p == Nth(Firsts(m), k)
             j == ((p - h) - 1) \div 4
             q == 4 * j
  <2>1. p \in Firsts(m)
    BY <1>3, <1>13, NthIn
  <2>2. p \in h + 1 .. h + n /\ (p - h) % 4 = 1
    BY <2>1 DEF Firsts
  <2>3. Values(R)[k] = Number(R, p + 1)
    <3> HIDE DEF R, p
    <3> QED BY <1>14 DEF p
  <2> HIDE DEF p
  <2>4. j \in 0 .. m - 1 /\ p = h + (4 * j + 1)
    <3> DEFINE x == p - h
    <3>1. x \in 1 .. 4 * m /\ x % 4 = 1 /\ p = h + x
      BY <1>1, <1>2, <2>2
    <3>2. (x - 1) \div 4 \in 0 .. m - 1 /\ x = 4 * ((x - 1) \div 4) + 1
      <4> HIDE DEF x
      <4>1. (x - 1) % 4 = 0 /\ (x - 1) \div 4 \in 0 .. m - 1
            /\ x = 4 * ((x - 1) \div 4) + (((x - 1) % 4) + 1)
        BY Zenon, <1>1, <3>1, Quarters
      <4>2. x = 4 * ((x - 1) \div 4) + (0 + 1) /\ 0 + 1 = 1
        BY <4>1
      <4> QED BY Zenon, <4>1, <4>2
    <3>3. j = (x - 1) \div 4
      OBVIOUS
    <3> HIDE DEF x, j
    <3> QED BY Zenon, <3>1, <3>2, <3>3
  <2> HIDE DEF j
  <2>5. /\ p + 1 = h + (4 * j + 2) /\ (p + 1) + 1 = h + (4 * j + 3)
        /\ (p + 1) + 2 = h + (4 * j + 4) /\ p + 1 \in Nat
        /\ 4 * j + 2 \in 1 .. n + 1 /\ 4 * j + 3 \in 1 .. n + 1 /\ 4 * j + 4 \in 1 .. n + 1
    BY <1>1, <1>2, <2>4
  <2>6. /\ R[p + 1] = SampleCells(vs[j])[2] /\ R[(p + 1) + 1] = SampleCells(vs[j])[3]
        /\ R[(p + 1) + 2] = SampleCells(vs[j])[4]
    <3>1. 2 \in 1 .. 4 /\ 3 \in 1 .. 4 /\ 4 \in 1 .. 4
      OBVIOUS
    <3>2. /\ s[4 * j + 2] = SampleCells(vs[j])[2] /\ s[4 * j + 3] = SampleCells(vs[j])[3]
          /\ s[4 * j + 4] = SampleCells(vs[j])[4]
      BY Zenon, <1>1, <2>4, <3>1
    <3> HIDE DEF R, h, n
    <3>3. /\ R[h + (4 * j + 2)] = s[4 * j + 2] /\ R[h + (4 * j + 3)] = s[4 * j + 3]
          /\ R[h + (4 * j + 4)] = s[4 * j + 4]
      BY Zenon, <1>4, <2>5
    <3> QED BY Zenon, <2>5, <3>2, <3>3
  <2>7. vs[j] \in Sample
    <3> HIDE DEF h, n
    <3> QED BY <1>1, <2>4
  <2> HIDE DEF R
  <2>8. Number(R, p + 1) = AsSent(vs[j])
    BY Zenon, <2>5, <2>6, <2>7, NumberIs
  <2>9. SampleAt(vs, p) = vs[j]
    BY Zenon DEF SampleAt, j
  <2> QED BY Zenon, <2>3, <2>8, <2>9 DEF p
<1> HIDE DEF R
<1>17. /\ IsDocument(R) /\ Len(Values(R)) = Cardinality(Firsts(m)) /\ Cardinality(Firsts(m)) \in Nat
       /\ DOMAIN Values(R) = 1 .. Cardinality(Firsts(m))
       /\ \A k \in 1 .. Cardinality(Firsts(m)) :
            Values(R)[k] = AsSent(SampleAt(vs, Nth(Firsts(m), k)))
  BY Zenon, <1>6, <1>13, <1>15, <1>16
<1> QED BY Zenon, <1>17 DEF R

-----------------------------------------------------------------------------
(* What is recorded, and what is received of it *)

\* The header, and behind it the cells of m samples.
Laid(t, m) ==
  /\ m \in Nat
  /\ \A i \in 1 .. HeaderSize : t[i][1] = "header" /\ t[i][3] = i
  /\ \A j \in 0 .. m - 1 : \E n \in Nat, r \in Nat :
       \A k \in 1 .. 4 : t[HeaderSize + (4 * j + k)] = <<"frame", n, 4 * r + k>>

LaidInv ==
  /\ pc = "sampling" => \E m : Laid(stream, m) /\ Len(stream) = HeaderSize + 4 * m
  /\ announced # 0 =>
       \E m : /\ Laid(stream, m) /\ Len(stream) = HeaderSize + (4 * m + 1)
              /\ stream[Len(stream)] = FF

LEMMA ConcatBytes ==
  ASSUME NEW x \in Seq(Byte), NEW y \in Seq(Byte)
  PROVE  /\ Len(x \o y) = Len(x) + Len(y)
         /\ \A i \in 1 .. Len(x) : (x \o y)[i] = x[i]
         /\ \A i \in 1 .. Len(y) : (x \o y)[Len(x) + i] = y[i]
  OBVIOUS

\* A frame behind what is laid is laid with it.
LEMMA LaidMore ==
  ASSUME NEW t \in Seq(Byte), NEW m, Laid(t, m), Len(t) = HeaderSize + 4 * m, NEW n \in Nat,
         Frame(n) \in Seq(Byte)
  PROVE  /\ Laid(t \o Frame(n), m + FrameSamples)
         /\ Len(t \o Frame(n)) = HeaderSize + 4 * (m + FrameSamples)
<1> DEFINE u == t \o Frame(n)
           h == HeaderSize
           f == FrameSamples
<1>1. h \in Nat /\ f \in Nat /\ m \in Nat
  BY MemoryAssumption DEF Laid
<1>2. /\ Len(Frame(n)) = 4 * f
      /\ \A i \in 1 .. 4 * f : Frame(n)[i] = <<"frame", n, i>>
  <2>1. CborLength = 4 * f
    BY <1>1 DEF CborLength
  <2>2. Frame(n) = [i \in 1 .. 4 * f |-> <<"frame", n, i>>]
    BY Zenon, <2>1 DEF Frame
  <2> HIDE DEF f
  <2> QED BY <1>1, <2>2
<1>3. /\ Len(u) = (h + 4 * m) + 4 * f
      /\ \A i \in 1 .. h + 4 * m : u[i] = t[i]
      /\ \A i \in 1 .. 4 * f : u[(h + 4 * m) + i] = <<"frame", n, i>>
  <2>1. /\ Len(u) = Len(t) + Len(Frame(n))
        /\ \A i \in 1 .. Len(t) : u[i] = t[i]
        /\ \A i \in 1 .. Len(Frame(n)) : u[Len(t) + i] = Frame(n)[i]
    <3> DEFINE x == Frame(n)
    <3>1. x \in Seq(Byte)
      OBVIOUS
    <3> HIDE DEF x
    <3>2. /\ Len(t \o x) = Len(t) + Len(x)
          /\ \A i \in 1 .. Len(t) : (t \o x)[i] = t[i]
          /\ \A i \in 1 .. Len(x) : (t \o x)[Len(t) + i] = x[i]
      BY Zenon, <3>1, ConcatBytes
    <3> QED BY Zenon, <3>2 DEF x
  <2> HIDE DEF u, h, f
  <2> QED BY Zenon, <1>2, <2>1 DEF h
<1> HIDE DEF u, h, f
<1>4. ASSUME NEW i \in 1 .. h PROVE u[i][1] = "header" /\ u[i][3] = i
  <2>1. i \in 1 .. h + 4 * m
    BY <1>1
  <2>2. t[i][1] = "header" /\ t[i][3] = i
    BY Zenon DEF Laid, h
  <2> QED BY Zenon, <1>3, <2>1, <2>2
<1>5. ASSUME NEW j \in 0 .. (m + f) - 1
      PROVE  \E x \in Nat, r \in Nat : \A k \in 1 .. 4 : u[h + (4 * j + k)] = <<"frame", x, 4 * r + k>>
  <2>1. CASE j < m
    <3>1. j \in 0 .. m - 1
      BY <1>1, <2>1
    <3>2. PICK x \in Nat, r \in Nat : \A k \in 1 .. 4 : t[h + (4 * j + k)] = <<"frame", x, 4 * r + k>>
      BY Zenon, <3>1 DEF Laid, h
    <3>3. \A k \in 1 .. 4 : h + (4 * j + k) \in 1 .. h + 4 * m
      BY <1>1, <3>1
    <3>4. \A k \in 1 .. 4 : u[h + (4 * j + k)] = <<"frame", x, 4 * r + k>>
      BY Zenon, <1>3, <3>2, <3>3
    <3> QED BY Zenon, <3>4
  <2>2. CASE ~ (j < m)
    <3> DEFINE r == j - m
    <3>1. r \in Nat /\ r < f
      BY <1>1, <2>2
    <3>2. \A k \in 1 .. 4 : 4 * r + k \in 1 .. 4 * f /\ h + (4 * j + k) = (h + 4 * m) + (4 * r + k)
      BY <1>1, <3>1
    <3> HIDE DEF r
    <3>3. \A k \in 1 .. 4 : u[h + (4 * j + k)] = <<"frame", n, 4 * r + k>>
      BY Zenon, <1>3, <3>2
    <3> QED BY Zenon, <3>1, <3>3
  <2> QED BY <2>1, <2>2
<1>6. Laid(u, m + f)
  <2>1. m + f \in Nat
    BY <1>1
  <2> QED BY Zenon, <1>4, <1>5, <2>1 DEF Laid, h
<1>7. (h + 4 * m) + 4 * f = h + 4 * (m + f)
  BY <1>1
<1> QED BY Zenon, <1>3, <1>6, <1>7 DEF u, h, f

LEMMA LaidStep ==
  ASSUME IInv, AnnouncedInv, LaidInv, [Next]_vars
  PROVE  LaidInv'
<1>0. HeaderSize \in Nat /\ FrameSamples \in Nat
  BY MemoryAssumption
<1>1. CASE save_config \/ HeaderFails \/ at_read_buffer \/ SendChunk \/ ReadDone
  <2>1. announced' = announced /\ stream' = stream /\ (pc' = "sampling" => pc = "sampling")
    BY <1>1 DEF save_config, HeaderFails, at_read_buffer, SendChunk, ReadDone
  <2> QED BY Zenon, <2>1 DEF LaidInv
<1>2. CASE SampleStart
  <2>1. announced' = 0 /\ stream' = Header(captured)
    BY <1>2 DEF SampleStart
  <2> DEFINE h == Header(captured)
  <2>2. h = [i \in 1 .. HeaderSize |-> <<"header", captured, i>>]
    BY DEF Header
  <2> HIDE DEF h
  <2>3. Len(h) = HeaderSize + 4 * 0 /\ \A i \in 1 .. HeaderSize : h[i][1] = "header" /\ h[i][3] = i
    BY <1>0, <2>2
  <2>4. 0 \in Nat /\ \A j \in 0 .. 0 - 1 : FALSE
    OBVIOUS
  <2>5. Laid(h, 0)
    BY Zenon, <2>3, <2>4 DEF Laid
  <2> QED BY Zenon, <2>1, <2>3, <2>5 DEF LaidInv, h
<1>3. CASE ingestion_callback
  <2>1. pc = "sampling" /\ pc' = pc /\ announced' = announced /\ stream' = stream \o Frame(captured)
    BY <1>3 DEF ingestion_callback, NextFrame
  <2>2. announced' = 0
    BY <2>1 DEF AnnouncedInv
  <2>3. PICK m : Laid(stream, m) /\ Len(stream) = HeaderSize + 4 * m
    BY Zenon, <2>1 DEF LaidInv
  <2>4. stream \in Seq(Byte) /\ captured \in Nat
    BY MemoryAssumption DEF IInv, TypeOK
  <2>5. Frame(captured) \in Seq(Byte)
    BY <2>4, Contents
  <2>6. Laid(stream', m + FrameSamples) /\ Len(stream') = HeaderSize + 4 * (m + FrameSamples)
    BY Zenon, <2>1, <2>3, <2>4, <2>5, LaidMore
  <2> QED BY Zenon, <2>2, <2>6 DEF LaidInv
<1>4. CASE FrameDropped
  <2>1. announced' = announced /\ stream' = stream /\ pc' = pc
    BY <1>4 DEF FrameDropped, NextFrame
  <2> QED BY Zenon, <2>1 DEF LaidInv
<1>5. CASE SampleEnd
  <2>1. pc = "sampling" /\ pc' = "idle" /\ stream' = stream \o <<FF>>
    BY <1>5 DEF SampleEnd
  <2>2. PICK m : Laid(stream, m) /\ Len(stream) = HeaderSize + 4 * m
    BY Zenon, <2>1 DEF LaidInv
  <2>3. m \in Nat
    BY <2>2 DEF Laid
  <2>4. stream \in Seq(Byte) /\ FF \in Byte
    BY Contents DEF IInv, TypeOK
  <2> DEFINE u == stream \o <<FF>>
             l == HeaderSize + 4 * m
  <2>5. /\ Len(u) = Len(stream) + 1 /\ u[Len(stream) + 1] = FF
        /\ \A i \in 1 .. Len(stream) : u[i] = stream[i]
    BY <2>4
  <2> HIDE DEF u
  <2>6. Len(u) = l + 1 /\ u[l + 1] = FF /\ \A i \in 1 .. l : u[i] = stream[i]
    BY Zenon, <2>2, <2>5
  <2>7. l + 1 = HeaderSize + (4 * m + 1)
    BY <1>0, <2>3
  <2>8. Laid(u, m)
    <3>1. ASSUME NEW i \in 1 .. HeaderSize PROVE u[i][1] = "header" /\ u[i][3] = i
      <4>1. i \in 1 .. l
        BY <1>0, <2>3
      <4> HIDE DEF l
      <4> QED BY Zenon, <2>2, <2>6, <4>1 DEF Laid
    <3>2. ASSUME NEW j \in 0 .. m - 1
          PROVE  \E n \in Nat, r \in Nat :
                   \A k \in 1 .. 4 : u[HeaderSize + (4 * j + k)] = <<"frame", n, 4 * r + k>>
      <4>1. PICK n \in Nat, r \in Nat :
              \A k \in 1 .. 4 : stream[HeaderSize + (4 * j + k)] = <<"frame", n, 4 * r + k>>
        BY Zenon, <2>2 DEF Laid
      <4>2. \A k \in 1 .. 4 : HeaderSize + (4 * j + k) \in 1 .. l
        BY <1>0, <2>3
      <4> HIDE DEF l
      <4>3. \A k \in 1 .. 4 : u[HeaderSize + (4 * j + k)] = <<"frame", n, 4 * r + k>>
        BY Zenon, <2>6, <4>1, <4>2
      <4> QED BY Zenon, <4>3
    <3> QED BY Zenon, <2>3, <3>1, <3>2 DEF Laid
  <2>9. stream' = u /\ pc' # "sampling"
    BY <2>1 DEF u
  <2> HIDE DEF l
  <2> QED BY Zenon, <2>6, <2>7, <2>8, <2>9 DEF LaidInv
<1>6. CASE UNCHANGED vars
  <2>1. announced' = announced /\ stream' = stream /\ pc' = pc
    BY <1>6 DEF vars
  <2> QED BY Zenon, <2>1 DEF LaidInv
<1> QED BY <1>1, <1>2, <1>3, <1>4, <1>5, <1>6 DEF Next

LEMMA LaidInit == Init => LaidInv
  BY DEF Init, LaidInv

\* Each byte is received as the cell it stands for.
LEMMA ReceivedIs ==
  ASSUME stream \in Seq(Byte), Len(stream) > 0, sent = Quads(stream)
  PROVE  Received = [i \in 1 .. Len(stream) |-> Content(stream[i])]
<1> DEFINE L == Len(stream)
           K == (L + 2) \div 3
           padded == {k \in 1 .. Len(sent) : Len(sent[k]) < 3}
           ends == IF padded = {} THEN Len(sent) ELSE CHOOSE k \in padded : \A j \in padded : k <= j
           size == IF sent = <<>> THEN 0 ELSE 3 * (ends - 1) + Len(sent[ends])
           last(k) == IF 3 * k < L THEN 3 * k ELSE L
<1>1. L \in Nat /\ L > 0 /\ K \in Nat /\ K >= 1 /\ 3 * K >= L /\ 3 * (K - 1) < L
  OBVIOUS
<1>2. Len(sent) = K /\ \A k \in 1 .. K : sent[k] = Quad(stream, k)
  BY QuadsAre
<1> HIDE DEF K
<1>3. ASSUME NEW k \in 1 .. K
      PROVE  /\ Len(sent[k]) = last(k) - 3 * (k - 1) /\ 3 * (k - 1) < L
             /\ \A i \in 1 .. last(k) - 3 * (k - 1) : sent[k][i] = stream[3 * (k - 1) + i]
  <2>1. sent[k] = SubSeq(stream, 3 * k - 2, last(k))
    BY Zenon, <1>2 DEF Quad
  <2> HIDE DEF L
  <2>2. /\ 3 * k - 2 \in Nat \ {0} /\ last(k) \in 0 .. L /\ 3 * k - 2 <= last(k) + 1
        /\ 3 * (k - 1) < L /\ (last(k) - (3 * k - 2)) + 1 = last(k) - 3 * (k - 1)
        /\ last(k) \in Nat
    BY <1>1
  <2> DEFINE a == 3 * k - 2
             b == last(k)
  <2>3. /\ Len(SubSeq(stream, a, b)) = b - a + 1
        /\ \A i \in 1 .. b - a + 1 : SubSeq(stream, a, b)[i] = stream[a + i - 1]
    <3> HIDE DEF a, b
    <3>1. a \in Nat \ {0} /\ b \in 0 .. Len(stream) /\ a <= b + 1
      BY Zenon, <2>2 DEF a, b, L
    <3> QED BY <3>1, SubBytes
  <2>4. \A i \in Nat : a + i - 1 = 3 * (k - 1) + i
    OBVIOUS
  <2>5. b - a + 1 = b - 3 * (k - 1)
    BY <2>2
  <2> HIDE DEF a, b
  <2>6. \A i \in 1 .. b - a + 1 : SubSeq(stream, a, b)[i] = stream[3 * (k - 1) + i]
    <3>1. \A i \in 1 .. b - a + 1 : i \in Nat
      OBVIOUS
    <3> QED BY Zenon, <2>3, <2>4, <3>1
  <2> QED BY Zenon, <2>1, <2>2, <2>3, <2>5, <2>6 DEF a, b
<1>4. ends = K
  <2>1. \A k \in 1 .. K - 1 : Len(sent[k]) = 3
    <3> TAKE k \in 1 .. K - 1
    <3> HIDE DEF L
    <3>1. k \in 1 .. K /\ 3 * k < L
      BY <1>1
    <3>2. Len(sent[k]) = 3 * k - 3 * (k - 1)
      BY Zenon, <1>3, <3>1
    <3> QED BY <1>1, <3>2
  <2>2. padded \subseteq {K}
    <3> SUFFICES ASSUME NEW k \in padded PROVE k = K
      OBVIOUS
    <3>1. k \in 1 .. K /\ Len(sent[k]) < 3
      BY Zenon, <1>2
    <3>2. k \notin 1 .. K - 1
      <4>1. ~ (3 < 3)
        OBVIOUS
      <4> QED BY Zenon, <2>1, <3>1, <4>1
    <3> HIDE DEF L
    <3> QED BY <1>1, <3>1, <3>2
  <2>3. padded # {} => padded = {K}
    BY <2>2
  <2> HIDE DEF padded
  <2>4. CASE padded = {}
    BY Zenon, <1>2, <2>4
  <2>5. CASE padded = {K}
    <3>1. \A k \in padded : (\A j \in padded : k <= j) => k = K
      BY <2>5
    <3>2. K \in padded /\ \A j \in padded : K <= j
      BY <1>1, <2>5
    <3>3. (CHOOSE k \in padded : \A j \in padded : k <= j) = K
      BY Zenon, <3>1, <3>2
    <3> QED BY Zenon, <2>5, <3>2, <3>3
  <2> QED BY <2>3, <2>4, <2>5
<1>5. size = L
  <2>1. K \in 1 .. K /\ last(K) = L
    <3> HIDE DEF L
    <3> QED BY <1>1
  <2>2. Len(sent[K]) = L - 3 * (K - 1)
    BY Zenon, <1>3, <2>1
  <2>3. sent # <<>>
    BY <1>1, <1>2
  <2> HIDE DEF ends, L
  <2>4. size = 3 * (K - 1) + (L - 3 * (K - 1))
    BY Zenon, <1>4, <2>2, <2>3
  <2>5. 3 * (K - 1) + (L - 3 * (K - 1)) = L
    BY <1>1
  <2> QED BY Zenon, <2>4, <2>5
<1>6. Received = [i \in 1 .. size |-> Content(sent[((i - 1) \div 3) + 1][((i - 1) % 3) + 1])]
  BY Zenon DEF Received
<1>7. ASSUME NEW i \in 1 .. L PROVE sent[((i - 1) \div 3) + 1][((i - 1) % 3) + 1] = stream[i]
  <2> DEFINE j == (i - 1) \div 3
             r == (i - 1) % 3
  <2>1. j \in Nat /\ r \in 0 .. 2 /\ i = 3 * j + (r + 1) /\ i <= L
    BY <1>1
  <2> HIDE DEF L, j, r
  <2>2. j + 1 \in 1 .. K /\ (j + 1) - 1 = j /\ r + 1 \in 1 .. last(j + 1) - 3 * ((j + 1) - 1)
    BY <1>1, <2>1
  <2>3. sent[j + 1][r + 1] = stream[3 * ((j + 1) - 1) + (r + 1)]
    <3> HIDE DEF last
    <3>1. \A x \in 1 .. last(j + 1) - 3 * ((j + 1) - 1) :
            sent[j + 1][x] = stream[3 * ((j + 1) - 1) + x]
      BY Zenon, <1>3, <2>2
    <3> QED BY Zenon, <2>2, <3>1
  <2> QED BY Zenon, <2>1, <2>2, <2>3 DEF j, r
<1> HIDE DEF size, L
<1>8. Received = [i \in 1 .. L |-> Content(sent[((i - 1) \div 3) + 1][((i - 1) % 3) + 1])]
  BY Zenon, <1>5, <1>6
<1>9. Received = [i \in 1 .. L |-> Content(stream[i])]
  BY <1>7, <1>8
<1> QED BY <1>9 DEF L

\* The sample that a byte of the stream belongs to.
HeardAt(p) == Heard(stream[p][2], (stream[p][3] - 1) \div 4)

LEMMA HeardIs == ASSUME NEW n \in Nat, NEW i \in Nat PROVE Heard(n, i) \in Sample
<1> DEFINE x == n * FrameSamples
           L == Len(Samples)
<1>1. /\ Samples \in Seq(Int) /\ L > 0
      /\ \A k \in 1 .. L : -32768 <= Samples[k] /\ Samples[k] <= 32767
  BY RecordingAssumption
<1>2. x \in Nat
  BY MemoryAssumption
<1>3. L \in Nat
  BY <1>1
<1> HIDE DEF x, L
<1>4. ((x + i) % L) + 1 \in 1 .. L
  BY <1>1, <1>2, <1>3
<1>5. Samples[((x + i) % L) + 1] \in Int
  BY <1>1, <1>4 DEF L
<1>6. Heard(n, i) = Samples[((x + i) % L) + 1]
  BY Zenon DEF Heard, x, L
<1> QED BY <1>1, <1>4, <1>5, <1>6 DEF Sample

\* A cell of a sample is a cell.
LEMMA SampleCellIs ==
  ASSUME NEW v \in Sample, NEW k \in 1 .. 4
  PROVE  SampleCells(v)[k] \in AllCell
<1> DEFINE hi == Magnitude(v) \div 256
           lo == Magnitude(v) % 256
<1>1. Magnitude(v) \in Nat
  <2>1. v \in Int
    BY DEF Sample
  <2>2. Magnitude(v) = IF v < 0 THEN 0 - v ELSE v
    BY Zenon, MagnitudeIs
  <2> QED BY <2>1, <2>2
<1>2. hi \in Nat /\ lo \in Nat
  BY <1>1
<1>3. /\ SampleCells(v)[1] = <<"array", 1>>
      /\ SampleCells(v)[2] = <<IF v < 0 THEN "neg16" ELSE "uint16", 0>>
      /\ SampleCells(v)[3] = <<"byte", hi>>
      /\ SampleCells(v)[4] = <<"byte", lo>>
  BY Zenon, CellsOfSample
<1> HIDE DEF hi, lo
<1>4. /\ <<"array", 1>> \in AllCell /\ <<IF v < 0 THEN "neg16" ELSE "uint16", 0>> \in AllCell
      /\ <<"byte", hi>> \in AllCell /\ <<"byte", lo>> \in AllCell
  BY <1>2 DEF AllCell, Heads, Data
<1>5. k = 1 \/ k = 2 \/ k = 3 \/ k = 4
  OBVIOUS
<1> QED BY Zenon, <1>3, <1>4, <1>5

\* The cells of a frame's bytes.
LEMMA ContentOfFrame ==
  ASSUME NEW n \in Nat, NEW r \in Nat, NEW k \in 1 .. 4, NEW b, b = <<"frame", n, 4 * r + k>>
  PROVE  Content(b) = SampleCells(Heard(n, r))[k]
<1> DEFINE i == 4 * r + k
<1>1. (i - 1) \div 4 = r /\ ((i - 1) % 4) + 1 = k
  OBVIOUS
<1> HIDE DEF i
<1>2. b[1] = "frame" /\ b[2] = n /\ b[3] = i
  BY DEF i
<1>3. b[1] # "header" /\ b[1] # "FF"
  BY <1>2
<1>4. Content(b) = SampleCells(Heard(b[2], (b[3] - 1) \div 4))[((b[3] - 1) % 4) + 1]
  BY Zenon, <1>2, <1>3 DEF Content
<1> QED BY Zenon, <1>1, <1>2, <1>4

\* What is laid is received as a body behind the header.
LEMMA BodyReceived ==
  ASSUME NEW m, Laid(stream, m), Len(stream) = HeaderSize + (4 * m + 1),
         stream[Len(stream)] = FF, stream \in Seq(Byte), sent = Quads(stream)
  PROVE  \E s, vs : /\ Body(s, vs, m) /\ Received = header \o s
                    /\ \A p \in Firsts(m) : SampleAt(vs, p) = HeardAt(p)
<1> DEFINE h == HeaderSize
           n == 4 * m + 1
           s == [q \in 1 .. n |-> Content(stream[h + q])]
           vs == [j \in 0 .. m - 1 |-> HeardAt(h + (4 * j + 1))]
<1>1. m \in Nat /\ n \in Nat /\ h + n \in Nat
  <2>1. HeaderSize \in Nat
    BY MemoryAssumption
  <2> QED BY <2>1 DEF Laid
<1>2. header \in Seq(AllCell) /\ h = Len(header) /\ h \in Nat /\ h >= 2
  BY Zenon, HeaderFacts
<1>3. ASSUME NEW j \in 0 .. m - 1
      PROVE  /\ HeardAt(h + (4 * j + 1)) \in Sample
             /\ \A k \in 1 .. 4 :
                  Content(stream[h + (4 * j + k)]) = SampleCells(HeardAt(h + (4 * j + 1)))[k]
  <2>1. PICK x \in Nat, r \in Nat :
          \A k \in 1 .. 4 : stream[h + (4 * j + k)] = <<"frame", x, 4 * r + k>>
    BY Zenon DEF Laid
  <2>2. \A k \in 1 .. 4 : Content(stream[h + (4 * j + k)]) = SampleCells(Heard(x, r))[k]
    <3> HIDE DEF h
    <3> QED BY Zenon, <2>1, ContentOfFrame
  <2>3. HeardAt(h + (4 * j + 1)) = Heard(x, r)
    <3> DEFINE b == stream[h + (4 * j + 1)]
    <3>1. b = <<"frame", x, 4 * r + 1>>
      <4>1. 1 \in 1 .. 4
        OBVIOUS
      <4> QED BY Zenon, <2>1, <4>1
    <3>2. HeardAt(h + (4 * j + 1)) = Heard(b[2], (b[3] - 1) \div 4)
      BY DEF HeardAt
    <3> HIDE DEF b
    <3>3. b[2] = x /\ b[3] = 4 * r + 1
      BY <3>1
    <3>4. ((4 * r + 1) - 1) \div 4 = r
      OBVIOUS
    <3> QED BY Zenon, <3>2, <3>3, <3>4
  <2>4. Heard(x, r) \in Sample
    BY HeardIs
  <2> QED BY Zenon, <2>2, <2>3, <2>4
<1>4. Content(FF) = Break
  BY DEF Content, FF
<1>5. Body(s, vs, m)
  <2>1. vs \in [0 .. m - 1 -> Sample]
    <3> HIDE DEF h
    <3> QED BY <1>3
  <2>2. ASSUME NEW j \in 0 .. m - 1, NEW k \in 1 .. 4
        PROVE  s[4 * j + k] = SampleCells(vs[j])[k]
    <3>1. 4 * j + k \in 1 .. n
      BY <1>1
    <3>2. s[4 * j + k] = Content(stream[h + (4 * j + k)])
      <4> HIDE DEF n, h
      <4> QED BY Zenon, <3>1
    <3>3. vs[j] = HeardAt(h + (4 * j + 1))
      BY Zenon
    <3> HIDE DEF s, vs, h
    <3> QED BY Zenon, <1>3, <3>2, <3>3
  <2>3. s[n] = Break
    <3>1. n \in 1 .. n
      BY <1>1
    <3> HIDE DEF n, h
    <3>2. s[n] = Content(stream[h + n])
      BY Zenon, <3>1
    <3> HIDE DEF s
    <3> QED BY Zenon, <1>4, <3>2 DEF h, n
  <2>4. ASSUME NEW q \in 1 .. n PROVE s[q] \in AllCell
    <3>1. CASE q = n
      <4>1. Break \in AllCell
        BY DEF Break, AllCell, Data
      <4> HIDE DEF s, n
      <4> QED BY Zenon, <2>3, <3>1, <4>1
    <3>2. CASE q # n
      <4>1. q \in 1 .. 4 * m
        BY <1>1, <3>2
      <4> DEFINE j == (q - 1) \div 4
                 k == ((q - 1) % 4) + 1
      <4>2. j \in 0 .. m - 1 /\ k \in 1 .. 4 /\ q = 4 * j + k
        BY Zenon, <1>1, <4>1, Quarters
      <4> HIDE DEF s, j, k
      <4>3. s[q] = SampleCells(vs[j])[k]
        <5> HIDE DEF vs
        <5> QED BY Zenon, <2>2, <4>2
      <4>4. vs[j] \in Sample
        <5> HIDE DEF vs
        <5> QED BY <2>1, <4>2
      <4> HIDE DEF vs
      <4> QED BY Zenon, <4>2, <4>3, <4>4, SampleCellIs
    <3> QED BY <3>1, <3>2
  <2>5. s \in Seq(AllCell) /\ Len(s) = n
    <3>1. s = [q \in 1 .. n |-> s[q]]
      OBVIOUS
    <3> HIDE DEF s, n
    <3>2. s \in [1 .. n -> AllCell]
      BY <2>4, <3>1
    <3> QED BY <1>1, <3>1, <3>2
  <2> HIDE DEF s, vs
  <2> QED BY Zenon, <1>1, <2>1, <2>2, <2>3, <2>5 DEF Body
<1>6. Received = header \o s
  <2>1. Received = [i \in 1 .. h + n |-> Content(stream[i])]
    <3>1. Len(stream) > 0
      BY <1>1, <1>2
    <3> QED BY Zenon, <3>1, ReceivedIs DEF h, n
  <2>2. s \in Seq(AllCell) /\ Len(s) = n
    <3> HIDE DEF s, vs
    <3> QED BY Zenon, <1>5 DEF Body
  <2>3. \A q \in 1 .. n : s[q] = Content(stream[h + q])
    <3> HIDE DEF n, h
    <3> QED BY Zenon
  <2>4. ASSUME NEW i \in 1 .. h PROVE Content(stream[i]) = header[i]
    <3> DEFINE b == stream[i]
    <3>1. b[1] = "header" /\ b[3] = i
      BY Zenon DEF Laid
    <3> HIDE DEF b
    <3>2. Content(b) = header[b[3]]
      BY Zenon, <3>1 DEF Content
    <3> QED BY Zenon, <3>1, <3>2 DEF b
  <2> HIDE DEF s, n, h
  <2> DEFINE R == header \o s
  <2>5. /\ Len(R) = h + n
        /\ \A i \in 1 .. h : R[i] = header[i]
        /\ \A q \in 1 .. n : R[h + q] = s[q]
    <3>1. /\ Len(R) = Len(header) + Len(s)
          /\ \A i \in 1 .. Len(header) : R[i] = header[i]
          /\ \A q \in 1 .. Len(s) : R[Len(header) + q] = s[q]
      <4>1. header \in Seq(AllCell) /\ s \in Seq(AllCell)
        BY Zenon, <1>2, <2>2
      <4> QED BY <4>1, Concat
    <3> HIDE DEF R
    <3> QED BY Zenon, <1>2, <2>2, <3>1
  <2>6. R = [i \in 1 .. h + n |-> R[i]]
    <3>1. R \in Seq(AllCell)
      BY <1>2, <2>2
    <3> HIDE DEF R
    <3> QED BY <2>5, <3>1
  <2> HIDE DEF R
  <2>7. ASSUME NEW i \in 1 .. h + n PROVE R[i] = Content(stream[i])
    <3>1. CASE i <= h
      <4>1. i \in 1 .. h
        BY <3>1
      <4> QED BY Zenon, <2>4, <2>5, <4>1
    <3>2. CASE ~ (i <= h)
      <4>1. i - h \in 1 .. n /\ h + (i - h) = i
        BY <1>1, <1>2, <3>2
      <4> QED BY Zenon, <2>3, <2>5, <4>1
    <3> QED BY <3>1, <3>2
  <2>8. R = [i \in 1 .. h + n |-> Content(stream[i])]
    BY <2>6, <2>7
  <2> QED BY Zenon, <2>1, <2>8 DEF R
<1>7. ASSUME NEW p \in Firsts(m) PROVE SampleAt(vs, p) = HeardAt(p)
  <2> DEFINE x == p - h
             j == (x - 1) \div 4
  <2>1. p \in h + 1 .. h + 4 * m /\ x % 4 = 1
    BY DEF Firsts
  <2>2. x \in 1 .. 4 * m /\ p = h + x
    BY <1>1, <1>2, <2>1
  <2> HIDE DEF x
  <2>3. (x - 1) % 4 = 0 /\ j \in 0 .. m - 1 /\ x = 4 * j + (((x - 1) % 4) + 1)
    BY Zenon, <1>1, <2>1, <2>2, Quarters
  <2>4. x = 4 * j + 1
    <3> HIDE DEF j
    <3> QED BY <2>3
  <2>5. SampleAt(vs, p) = vs[j]
    <3> HIDE DEF vs
    <3> QED BY Zenon DEF SampleAt, x
  <2> HIDE DEF j
  <2>6. vs[j] = HeardAt(h + (4 * j + 1))
    BY Zenon, <2>3
  <2> HIDE DEF vs
  <2> QED BY Zenon, <2>2, <2>4, <2>5, <2>6
<1> HIDE DEF s, vs
<1> QED BY Zenon, <1>5, <1>6, <1>7

\* What is laid is recorded, sample by sample.
LEMMA RecordedIs ==
  ASSUME NEW m, Laid(stream, m), Len(stream) = HeaderSize + (4 * m + 1), stream[Len(stream)] = FF
  PROVE  /\ Len(Recorded) = Cardinality(Firsts(m))
         /\ \A k \in 1 .. Cardinality(Firsts(m)) :
              Recorded[k] = HeardAt(Nth(Firsts(m), k)) /\ Nth(Firsts(m), k) \in Firsts(m)
<1> DEFINE h == HeaderSize
           n == 4 * m
           first == {i \in 1 .. Len(stream) : stream[i][1] = "frame" /\ stream[i][3] % 4 = 1}
<1>1. m \in Nat /\ h \in Nat /\ h + n \in Nat /\ Len(stream) = h + (n + 1)
  <2>1. HeaderSize \in Nat /\ m \in Nat
    BY MemoryAssumption DEF Laid
  <2> QED BY <2>1
<1>2. ASSUME NEW i \in 1 .. h + (n + 1)
      PROVE  stream[i][1] = "frame" /\ stream[i][3] % 4 = 1 <=> i \in Firsts(m)
  <2> DEFINE x == i - h
  <2>1. i \in Firsts(m) <=> i \in h + 1 .. h + n /\ x % 4 = 1
    BY DEF Firsts
  <2>2. CASE i \in 1 .. h
    <3>1. stream[i][1] = "header"
      BY Zenon, <2>2 DEF Laid
    <3>2. i \notin h + 1 .. h + n
      BY <1>1, <2>2
    <3>3. "header" # "frame"
      OBVIOUS
    <3> HIDE DEF x
    <3> QED BY Zenon, <2>1, <3>1, <3>2, <3>3
  <2>3. CASE i = h + (n + 1)
    <3>1. stream[i] = FF
      BY Zenon, <1>1, <2>3
    <3>2. FF[1] # "frame"
      BY DEF FF
    <3>3. i \notin h + 1 .. h + n
      BY <1>1, <2>3
    <3> HIDE DEF x
    <3> QED BY Zenon, <2>1, <3>1, <3>2, <3>3
  <2>4. CASE i \in h + 1 .. h + n
    <3> DEFINE j == (x - 1) \div 4
               k == ((x - 1) % 4) + 1
    <3>1. x \in 1 .. 4 * m /\ i = h + x
      BY <1>1, <2>4
    <3> HIDE DEF x
    <3>2. j \in 0 .. m - 1 /\ k \in 1 .. 4 /\ x = 4 * j + k
      BY Zenon, <1>1, <3>1, Quarters
    <3> HIDE DEF j, k
    <3>3. PICK y \in Nat, r \in Nat :
            \A z \in 1 .. 4 : stream[HeaderSize + (4 * j + z)] = <<"frame", y, 4 * r + z>>
      BY Zenon, <3>2 DEF Laid
    <3>4. stream[i] = <<"frame", y, 4 * r + k>>
      BY Zenon, <3>1, <3>2, <3>3
    <3>5. stream[i][1] = "frame" /\ stream[i][3] = 4 * r + k
      BY <3>4
    <3>6. (4 * r + k) % 4 = 1 <=> x % 4 = 1
      <4>1. j \in Nat /\ k \in 1 .. 4
        BY <1>1, <3>2
      <4>2. (4 * r + k) % 4 = k % 4
        BY <4>1
      <4>3. (4 * j + k) % 4 = k % 4
        BY <4>1
      <4> QED BY Zenon, <3>2, <4>2, <4>3
    <3> QED BY Zenon, <2>1, <2>4, <3>5, <3>6
  <2>5. i \in 1 .. h \/ i \in h + 1 .. h + n \/ i = h + (n + 1)
    BY <1>1
  <2> QED BY <2>2, <2>3, <2>4, <2>5
<1>3. Firsts(m) \subseteq 1 .. h + (n + 1)
  BY <1>1 DEF Firsts
<1>4. first = Firsts(m)
  <2>1. ASSUME NEW i PROVE i \in first <=> i \in Firsts(m)
    <3> HIDE DEF h, n
    <3>1. i \in first <=> i \in 1 .. h + (n + 1) /\ stream[i][1] = "frame" /\ stream[i][3] % 4 = 1
      BY Zenon, <1>1
    <3> HIDE DEF first
    <3>2. i \in Firsts(m) => i \in 1 .. h + (n + 1)
      BY Zenon, <1>3
    <3> QED BY Zenon, <1>2, <3>1, <3>2
  <2> HIDE DEF first
  <2> QED BY Zenon, <2>1
<1>5. Recorded = [k \in 1 .. Cardinality(first) |->
                    LET b == stream[Nth(first, k)] IN Heard(b[2], (b[3] - 1) \div 4)]
  BY Zenon DEF Recorded
<1> HIDE DEF first
<1>6. Recorded = [k \in 1 .. Cardinality(Firsts(m)) |-> HeardAt(Nth(Firsts(m), k))]
  BY Zenon, <1>4, <1>5 DEF HeardAt
<1>7. Cardinality(Firsts(m)) \in Nat
  <2>1. IsFiniteSet(1 .. h + (n + 1))
    BY <1>1, FS_Interval
  <2>2. IsFiniteSet(Firsts(m))
    BY <1>3, <2>1, FS_Subset
  <2> QED BY <2>2, FS_CardinalityType
<1>8. ASSUME NEW k \in 1 .. Cardinality(Firsts(m)) PROVE Nth(Firsts(m), k) \in Firsts(m)
  <2>1. h + (n + 1) \in Nat /\ Firsts(m) \in SUBSET (1 .. h + (n + 1))
    BY <1>1, <1>3
  <2> HIDE DEF h, n
  <2> QED BY <2>1, NthIn
<1> QED BY <1>6, <1>7, <1>8

\* Whoever asks for the announced range is sent a whole CBOR document, with
\* nothing behind it, which has a value for every recorded sample, in their
\* order: the sample itself, or for a negative one some negative number (one
\* less than it: ValuesAreSamples does not hold).  For every device name, every
\* list of sensors, every sequence of samples and every length of recording that
\* fits, also when frames were dropped, the configuration was saved in between, a
\* later start failed or the recording before was longer (ei_mic.cpp:240-262,
\* 435-456, 503-557; sensor_aq.cpp:278-290; ei_device_lib.cpp:77-109).
THEOREM RecordingIsDocument == ASSUME Fits, Thirds PROVE Spec => []AnnouncedIsDocument
<1>1. IInv /\ AnnouncedInv /\ LaidInv /\ AnnouncedIsSent => AnnouncedIsDocument
  <2> SUFFICES ASSUME IInv, AnnouncedInv, LaidInv, AnnouncedIsSent,
                      result = "ok", announced # 0, asked = <<0, announced>>
               PROVE  /\ IsDocument(Received)
                      /\ Len(Values(Received)) = Len(Recorded)
                      /\ \A k \in DOMAIN Values(Received) :
                           IF Recorded[k] < 0 THEN Values(Received)[k] < 0
                           ELSE Values(Received)[k] = Recorded[k]
    BY Zenon DEF AnnouncedIsDocument, HasRecording
  <2>1. sent = Quads(stream) /\ stream \in Seq(Byte)
    BY DEF AnnouncedIsSent, IInv, TypeOK
  <2>2. PICK m : /\ Laid(stream, m) /\ Len(stream) = HeaderSize + (4 * m + 1)
                 /\ stream[Len(stream)] = FF
    BY Zenon DEF LaidInv
  <2>3. PICK s, vs : /\ Body(s, vs, m) /\ Received = header \o s
                     /\ \A p \in Firsts(m) : SampleAt(vs, p) = HeardAt(p)
    BY Zenon, <2>1, <2>2, BodyReceived
  <2>4. /\ IsDocument(Received)
        /\ Len(Values(Received)) = Cardinality(Firsts(m))
        /\ DOMAIN Values(Received) = 1 .. Cardinality(Firsts(m))
        /\ \A k \in 1 .. Cardinality(Firsts(m)) :
             Values(Received)[k] = AsSent(SampleAt(vs, Nth(Firsts(m), k)))
    <3>1. Body(s, vs, m) /\ Received = header \o s
      BY Zenon, <2>3
    <3>2. /\ IsDocument(header \o s)
          /\ Len(Values(header \o s)) = Cardinality(Firsts(m))
          /\ DOMAIN Values(header \o s) = 1 .. Cardinality(Firsts(m))
          /\ \A k \in 1 .. Cardinality(Firsts(m)) :
               Values(header \o s)[k] = AsSent(SampleAt(vs, Nth(Firsts(m), k)))
      BY <3>1, DocumentDecoded
    <3> QED BY Zenon, <3>1, <3>2
  <2>5. /\ Len(Recorded) = Cardinality(Firsts(m))
        /\ \A k \in 1 .. Cardinality(Firsts(m)) :
             Recorded[k] = HeardAt(Nth(Firsts(m), k)) /\ Nth(Firsts(m), k) \in Firsts(m)
    BY Zenon, <2>2, RecordedIs
  <2>6. ASSUME NEW k \in DOMAIN Values(Received)
        PROVE  IF Recorded[k] < 0 THEN Values(Received)[k] < 0
               ELSE Values(Received)[k] = Recorded[k]
    <3>1. Values(Received)[k] = AsSent(Recorded[k]) /\ Recorded[k] = SampleAt(vs, Nth(Firsts(m), k))
      BY Zenon, <2>3, <2>4, <2>5
    <3>2. Nth(Firsts(m), k) \in Firsts(m)
      BY Zenon, <2>4, <2>5
    <3>3. SampleAt(vs, Nth(Firsts(m), k)) \in Sample
      BY Zenon, <2>3, <3>2, SampleIs
    <3>4. Recorded[k] \in Int
      BY <3>1, <3>3 DEF Sample
    <3> QED BY <3>1, <3>4 DEF AsSent
  <2> QED BY Zenon, <2>4, <2>5, <2>6
<1>2. Fits /\ Thirds
  OBVIOUS
<1>3. IInv /\ AnnouncedInv /\ LaidInv /\ [Next]_vars => LaidInv'
  BY Zenon, LaidStep
<1> QED BY <1>1, <1>2, <1>3, LaidInit, ReadInvariant, RecordingSent, PTL DEF Spec
==============================================================================
