---------------------------- MODULE BufferProofs ----------------------------
(***************************************************************************)
(* Proofs about the buffers the music passes through.  The ring of IoRing, *)
(* for every ring size and every set of contents: its counts partition the *)
(* buffers and it implements a FIFO.  The decoder's window of              *)
(* LibmadWindow, for every set of frame sizes: for which streams it and    *)
(* the output ring are large enough.                                       *)
(***************************************************************************)
EXTENDS IoRing, LibmadWindow, SequenceTheorems, TLAPS

-----------------------------------------------------------------------------
(* Division by the ring size, in the form the provers can use.             *)

LEMMA DivMod ==
  \A a \in Nat, m \in Nat \ {0} :
    /\ a = m * (a \div m) + (a % m)
    /\ a % m \in 0 .. m - 1
    /\ a \div m \in Nat
OBVIOUS

LEMMA Multiple ==
  \A m \in Nat \ {0}, q \in Int :
    /\ q >= 1 => m * q >= m
    /\ q <= 0 => m * q <= 0
OBVIOUS

LEMMA Distribute == \A m, x, y \in Int : m * (x - y) = m * x - m * y
OBVIOUS

(* Two counter values less than a ring size apart index different slots.   *)
LEMMA DistinctSlots ==
  ASSUME NEW m \in Nat \ {0}, NEW a \in Nat, NEW b \in Nat, a < b, b < a + m
  PROVE  a % m # b % m
<1>1. /\ a = m * (a \div m) + (a % m)
      /\ b = m * (b \div m) + (b % m)
  BY DivMod
<1>2. a \div m \in Int /\ b \div m \in Int
  BY DivMod
<1>3. SUFFICES ASSUME a % m = b % m PROVE FALSE
  OBVIOUS
<1>4. PICK q \in Int : q = (b \div m) - (a \div m)
  BY <1>2
<1>5. b - a = m * q
  BY <1>1, <1>2, <1>3, <1>4, Distribute
<1>6. CASE q >= 1
  <2>1. m * q >= m
    BY <1>6, Multiple
  <2>. QED BY <2>1, <1>5
<1>7. CASE q <= 0
  <2>1. m * q <= 0
    BY <1>7, Multiple
  <2>. QED BY <2>1, <1>5
<1>. QED BY <1>6, <1>7

-----------------------------------------------------------------------------
(* The counts.                                                             *)

LEMMA SmallUint16 == \A n \in Nat : n < 65536 => Uint16(n) = n
BY DEF Uint16

(* In a state of RingInv the 16 bit results are the true differences.      *)
LEMMA Counts ==
  ASSUME RingInv
  PROVE  /\ io_used(io) = io.head - io.tail
         /\ io_free(io) = MaxBuffers - (io.head - io.tail)
         /\ ~io_full(io)
         /\ io_empty(io) <=> io.head = io.tail
<1>1. /\ io.head - io.tail \in Nat /\ io.head - io.tail < 65536
      /\ io.max_buffers = MaxBuffers
  BY RingAssumption DEF RingInv, TypeOK, Ring
<1>2. /\ MaxBuffers - (io.head - io.tail) \in Nat
      /\ MaxBuffers - (io.head - io.tail) < 65536
  BY <1>1, RingAssumption DEF RingInv, TypeOK, Ring
<1>3. io_used(io) = io.head - io.tail
  BY <1>1, SmallUint16 DEF io_used
<1>4. io_free(io) = MaxBuffers - (io.head - io.tail)
  BY <1>1, <1>2, SmallUint16 DEF io_free
<1>5. ~io_full(io)
  BY <1>1, RingAssumption DEF io_full, RingInv, TypeOK, Ring
<1>6. io_empty(io) <=> io.head = io.tail
  BY DEF io_empty, RingInv, TypeOK, Ring
<1>. QED BY <1>3, <1>4, <1>5, <1>6

(* What the three operations do to a ring in a state of RingInv.           *)
LEMMA PushEffect ==
  ASSUME RingInv, NEW c \in Content, Push(c)
  PROVE  /\ io'.head = io.head + 1 /\ io'.tail = io.tail
         /\ io'.max_buffers = MaxBuffers
         /\ io'.slot = [io.slot EXCEPT ![io.head % MaxBuffers] = c]
         /\ io' \in Ring
         /\ io.head - io.tail < MaxBuffers
<1>1. ~io_full(io) /\ io.head - io.tail < MaxBuffers
  BY Counts, RingAssumption DEF Push, RingInv, TypeOK, Ring
<1>2. io \in Ring
  BY DEF RingInv, TypeOK
<1>3. io' = io_push(io, c)
  BY DEF Push
<1>4. io.head % MaxBuffers \in 0 .. MaxBuffers - 1
  BY <1>2, RingAssumption DEF Ring
<1>5. io.max_buffers = MaxBuffers /\ ~(io.head - io.tail > MaxBuffers)
  BY <1>1, <1>2 DEF io_full, Ring
<1>6. /\ io'.head = io.head + 1 /\ io'.tail = io.tail
      /\ io'.max_buffers = MaxBuffers
      /\ io'.slot = [io.slot EXCEPT ![io.head % MaxBuffers] = c]
  BY <1>2, <1>3, <1>5 DEF io_push, io_full, Ring
<1>7. io' \in Ring
  <2>1. [io.slot EXCEPT ![io.head % MaxBuffers] = c] \in [0 .. MaxBuffers - 1 -> Content]
    BY <1>2, <1>4 DEF Ring
  <2>. QED BY <1>2, <1>3, <1>5, <2>1 DEF io_push, io_full, Ring
<1>. QED BY <1>1, <1>6, <1>7

LEMMA PopEffect ==
  ASSUME RingInv, Pop
  PROVE  /\ io'.head = io.head /\ io'.tail = io.tail + 1
         /\ io'.slot = io.slot
         /\ io' \in Ring
         /\ io.tail < io.head
         /\ popped' = io.slot[io.tail % MaxBuffers]
         /\ popped' \in Content
<1>1. io.tail < io.head /\ ~io_empty(io)
  BY Counts DEF Pop, RingInv, TypeOK, Ring
<1>2. io \in Ring
  BY DEF RingInv, TypeOK
<1>3. io' = io_pop(io) /\ popped' = io.slot[io.tail % MaxBuffers]
  BY <1>1, <1>2 DEF Pop, io_front, Ring
<1>4. io.tail % MaxBuffers \in 0 .. MaxBuffers - 1
  BY <1>2, RingAssumption DEF Ring
<1>5. popped' \in Content
  BY <1>2, <1>3, <1>4 DEF Ring
<1>. QED BY <1>1, <1>2, <1>3, <1>5 DEF io_pop, io_empty, Ring

LEMMA ResetEffect ==
  /\ io_reset(MaxBuffers, Blank) \in Ring
  /\ io_reset(MaxBuffers, Blank).head = 0
  /\ io_reset(MaxBuffers, Blank).tail = 0
BY RingAssumption DEF io_reset, Ring

(* RingInv is inductive.                                                   *)
LEMMA RingInvInit == Init => RingInv
BY ResetEffect, RingAssumption DEF Init, RingInv, TypeOK

LEMMA RingInvStep == RingInv /\ [Next]_vars => RingInv'
<1> SUFFICES ASSUME RingInv, [Next]_vars PROVE RingInv'
  OBVIOUS
<1>1. ASSUME NEW c \in Content, Push(c) PROVE RingInv'
  <2>1. popped' \in Content
    BY <1>1 DEF Push, RingInv, TypeOK
  <2>. QED
    <3>1. /\ io'.head = io.head + 1 /\ io'.tail = io.tail
          /\ io' \in Ring
          /\ io.head - io.tail < MaxBuffers
      BY <1>1, PushEffect
    <3>. QED BY <2>1, <3>1, RingAssumption DEF RingInv, TypeOK, Ring
<1>2. CASE Pop
  BY <1>2, PopEffect, RingAssumption DEF RingInv, TypeOK, Ring
<1>3. CASE Reset
  BY <1>3, ResetEffect, RingAssumption DEF Reset, RingInv, TypeOK
<1>4. CASE UNCHANGED vars
  BY <1>4 DEF vars, RingInv, TypeOK
<1>. QED BY <1>1, <1>2, <1>3, <1>4 DEF Next

(* Every state reached by checked pushes and pops satisfies RingInv.       *)
THEOREM RingInvariant == Spec => []RingInv
BY RingInvInit, RingInvStep, PTL DEF Spec

(***************************************************************************)
(* The free and used counts partition the buffers, for every ring size a   *)
(* uint16_t can hold: io_free (line 31) never wraps under checked pushes.  *)
(***************************************************************************)
THEOREM CountsPartition == Spec => []Partition
<1>1. RingInv => Partition
  BY Counts, RingAssumption DEF Partition, RingInv, TypeOK, Ring
<1>. QED BY <1>1, RingInvariant, PTL

-----------------------------------------------------------------------------
(* The refinement: what each operation does to the unread contents.        *)

UnreadShape ==
  /\ Unread \in Seq(Content)
  /\ Len(Unread) = io.head - io.tail
  /\ \A k \in 1 .. io.head - io.tail :
       Unread[k] = io.slot[(io.tail + k - 1) % MaxBuffers]

LEMMA UnreadType == RingInv => UnreadShape
<1> SUFFICES ASSUME RingInv PROVE UnreadShape
  OBVIOUS
<1>1. io.head - io.tail \in Nat
  BY DEF RingInv, TypeOK, Ring
<1>2. \A k \in 1 .. io.head - io.tail :
        io.slot[(io.tail + k - 1) % MaxBuffers] \in Content
  <2> SUFFICES ASSUME NEW k \in 1 .. io.head - io.tail
               PROVE  io.slot[(io.tail + k - 1) % MaxBuffers] \in Content
    OBVIOUS
  <2>1. io.tail + k - 1 \in Nat
    BY <1>1 DEF RingInv, TypeOK, Ring
  <2>2. (io.tail + k - 1) % MaxBuffers \in 0 .. MaxBuffers - 1
    BY <2>1, DivMod, RingAssumption
  <2>. QED BY <2>2 DEF RingInv, TypeOK, Ring
<1>. QED BY <1>1, <1>2 DEF Unread, UnreadShape

(* The same fact about the state after a step.                             *)
LEMMA UnreadTypeNext == RingInv' => UnreadShape'
BY UnreadType, PTL

LEMMA PushAppends ==
  ASSUME RingInv, RingInv', NEW c \in Content, Push(c)
  PROVE  Unread' = Append(Unread, c)
<1> DEFINE n == io.head - io.tail
<1>1. /\ io'.head = io.head + 1 /\ io'.tail = io.tail
      /\ io'.slot = [io.slot EXCEPT ![io.head % MaxBuffers] = c]
      /\ n < MaxBuffers
  BY PushEffect
<1>2. io.head \in Nat /\ io.tail \in Nat /\ n \in Nat
  BY DEF RingInv, TypeOK, Ring
<1>3. io.head % MaxBuffers \in 0 .. MaxBuffers - 1
  BY <1>2, DivMod, RingAssumption
<1>4. DOMAIN io.slot = 0 .. MaxBuffers - 1
  BY DEF RingInv, TypeOK, Ring
<1>5. \A k \in 1 .. n : io'.slot[(io.tail + k - 1) % MaxBuffers]
                        = io.slot[(io.tail + k - 1) % MaxBuffers]
  <2> SUFFICES ASSUME NEW k \in 1 .. n
               PROVE  io'.slot[(io.tail + k - 1) % MaxBuffers]
                      = io.slot[(io.tail + k - 1) % MaxBuffers]
    OBVIOUS
  <2>1. PICK a \in Nat : a = io.tail + k - 1
    BY <1>2
  <2>a. a < io.head /\ io.head < a + MaxBuffers
    BY <1>1, <1>2, <2>1, RingAssumption
  <2>2. a % MaxBuffers # io.head % MaxBuffers
    <3>1. MaxBuffers \in Nat \ {0} /\ io.head \in Nat
      BY <1>2, RingAssumption
    <3>. QED BY <2>a, <3>1, DistinctSlots, Zenon
  <2>3. a % MaxBuffers \in 0 .. MaxBuffers - 1
    BY DivMod, RingAssumption
  <2>. QED BY <1>1, <1>3, <1>4, <2>1, <2>2, <2>3
<1>6. io'.slot[(io.tail + (n + 1) - 1) % MaxBuffers] = c
  <2>1. io.tail + (n + 1) - 1 = io.head
    BY <1>2
  <2>. QED BY <1>1, <1>3, <1>4, <2>1
<1>7. /\ Unread' \in Seq(Content)
      /\ Len(Unread') = n + 1
      /\ \A k \in 1 .. n + 1 :
           Unread'[k] = io'.slot[(io.tail + k - 1) % MaxBuffers]
  BY <1>1, <1>2, UnreadTypeNext DEF UnreadShape
<1>8. /\ Unread \in Seq(Content) /\ Len(Unread) = n
      /\ \A k \in 1 .. n : Unread[k] = io.slot[(io.tail + k - 1) % MaxBuffers]
  BY UnreadType DEF UnreadShape
<1>9. /\ Append(Unread, c) \in Seq(Content)
      /\ Len(Append(Unread, c)) = n + 1
      /\ Append(Unread, c)[n + 1] = c
      /\ \A k \in 1 .. n : Append(Unread, c)[k] = Unread[k]
  BY <1>8, AppendProperties
<1>10. \A k \in 1 .. n + 1 : Unread'[k] = Append(Unread, c)[k]
  <2> SUFFICES ASSUME NEW k \in 1 .. n + 1
               PROVE  Unread'[k] = Append(Unread, c)[k]
    OBVIOUS
  <2>1. CASE k = n + 1
    BY <2>1, <1>6, <1>7, <1>9
  <2>2. CASE k \in 1 .. n
    BY <2>2, <1>5, <1>7, <1>8, <1>9, Zenon
  <2>3. k = n + 1 \/ k \in 1 .. n
    BY <1>2
  <2>. QED BY <2>1, <2>2, <2>3, Zenon
<1> HIDE DEF n
<1>. QED BY <1>7, <1>9, <1>10, SeqEqual

LEMMA PopDrops ==
  ASSUME RingInv, RingInv', Pop
  PROVE  /\ Unread # << >>
         /\ Unread' = Tail(Unread)
         /\ popped' = Head(Unread)
<1> DEFINE n == io.head - io.tail
<1>1. /\ io'.head = io.head /\ io'.tail = io.tail + 1
      /\ io'.slot = io.slot /\ io.tail < io.head
      /\ popped' = io.slot[io.tail % MaxBuffers]
  BY PopEffect
<1>2. io.head \in Nat /\ io.tail \in Nat /\ n \in Nat \ {0}
  BY <1>1 DEF RingInv, TypeOK, Ring
<1>3. /\ Unread \in Seq(Content) /\ Len(Unread) = n
      /\ \A k \in 1 .. n : Unread[k] = io.slot[(io.tail + k - 1) % MaxBuffers]
  BY UnreadType DEF UnreadShape
<1>4. Unread # << >>
  BY <1>2, <1>3
<1>5. popped' = Head(Unread)
  <2>1. Head(Unread) = Unread[1]
    BY <1>3, <1>4
  <2>2. io.tail + 1 - 1 = io.tail
    BY <1>2
  <2>3. Unread[1] = io.slot[io.tail % MaxBuffers]
    BY <1>2, <1>3, <2>2
  <2>. QED BY <1>1, <2>1, <2>3
<1>6. /\ Tail(Unread) \in Seq(Content)
      /\ Len(Tail(Unread)) = n - 1
      /\ \A k \in 1 .. n - 1 : Tail(Unread)[k] = Unread[k + 1]
  BY <1>3, <1>4, HeadTailProperties
<1>7. /\ Unread' \in Seq(Content)
      /\ Len(Unread') = n - 1
      /\ \A k \in 1 .. n - 1 :
           Unread'[k] = io.slot[(io.tail + 1 + k - 1) % MaxBuffers]
  BY <1>1, <1>2, UnreadTypeNext DEF UnreadShape
<1>8. \A k \in 1 .. n - 1 : Unread'[k] = Tail(Unread)[k]
  <2> SUFFICES ASSUME NEW k \in 1 .. n - 1
               PROVE  Unread'[k] = Tail(Unread)[k]
    OBVIOUS
  <2>1. io.tail + 1 + k - 1 = io.tail + (k + 1) - 1
    BY <1>2
  <2>2. k + 1 \in 1 .. n
    BY <1>2
  <2>. QED BY <1>3, <1>6, <1>7, <2>1, <2>2
<1>9. Unread' = Tail(Unread)
  <2> HIDE DEF n
  <2>. QED BY <1>6, <1>7, <1>8, SeqEqual
<1>. QED BY <1>4, <1>5, <1>9

LEMMA ResetEmpties ==
  ASSUME io = io_reset(MaxBuffers, Blank)
  PROVE  Unread = << >>
BY ResetEffect DEF Unread

(***************************************************************************)
(* The ring implements the bounded FIFO of Fifo: for every ring size, no   *)
(* sequence of checked i_push/o_push, i_pop/o_pop and io_init calls loses, *)
(* duplicates or reorders a buffer, although slots are reused modulo the   *)
(* ring size.                                                              *)
(***************************************************************************)
THEOREM RingImplementsFifo == Spec => ImplementsFifo
<1>1. Init => Queue!Init
  BY ResetEmpties DEF Init, Queue!Init
<1>2. RingInv /\ RingInv' /\ [Next]_vars => [Queue!Next]_Unread
  <2> SUFFICES ASSUME RingInv, RingInv', [Next]_vars PROVE [Queue!Next]_Unread
    OBVIOUS
  <2>1. ASSUME NEW c \in Content, Push(c) PROVE Queue!Next
    <3>1. Unread' = Append(Unread, c)
      BY <2>1, PushAppends
    <3>2. Len(Unread) < MaxBuffers
      BY <2>1, PushEffect, UnreadType DEF UnreadShape
    <3>. QED BY <3>1, <3>2 DEF Queue!Next, Queue!Put
  <2>2. CASE Pop
    BY <2>2, PopDrops DEF Queue!Next, Queue!Get
  <2>3. CASE Reset
    <3>1. Unread' = << >>
      BY <2>3, ResetEffect DEF Reset, Unread
    <3>. QED BY <3>1 DEF Queue!Next, Queue!Clear
  <2>4. CASE UNCHANGED vars
    BY <2>4 DEF vars, Unread
  <2>. QED BY <2>1, <2>2, <2>3, <2>4 DEF Next
<1>. QED BY <1>1, <1>2, RingInvariant, PTL DEF Spec, ImplementsFifo, Queue!Spec

(***************************************************************************)
(* A pop hands its caller the oldest unread buffer, for every ring size.   *)
(***************************************************************************)
THEOREM RingPopsOldest == Spec => PopsOldest
<1>1. RingInv /\ RingInv' /\ [Next]_vars =>
        [io_used(io') = io_used(io) - 1 /\ io'.head # 0 =>
           popped' = Head(Unread)]_vars
  <2> SUFFICES ASSUME RingInv, RingInv', [Next]_vars,
                      io_used(io') = io_used(io) - 1, io'.head # 0
               PROVE  popped' = Head(Unread) \/ UNCHANGED vars
    BY DEF PopsOldest
  <2>1. ASSUME NEW c \in Content, Push(c) PROVE FALSE
    <3>1. /\ io'.head - io'.tail = io.head - io.tail + 1
          /\ io.head - io.tail \in Nat
          /\ io.head - io.tail < MaxBuffers
      BY <2>1, PushEffect DEF RingInv, TypeOK, Ring
    <3>2. io.head - io.tail + 1 \in Nat /\ io.head - io.tail + 1 < 65536
      BY <3>1, RingAssumption
    <3>3. io_used(io') = io.head - io.tail + 1
      BY <3>1, <3>2, SmallUint16 DEF io_used
    <3>. QED BY <3>1, <3>3, Counts
  <2>2. CASE Pop
    BY <2>2, PopDrops
  <2>3. CASE Reset
    BY <2>3, ResetEffect DEF Reset
  <2>. QED BY <2>1, <2>2, <2>3 DEF Next
<1>. QED BY <1>1, RingInvariant, PTL DEF Spec, PopsOldest

-----------------------------------------------------------------------------
(* The decoder's window.                                                   *)

USE DEF MAD_BUFFER_GUARD, IO_INPUT_BUFFER_SIZE, LIBMAD_BUFFER_SIZE,
        MAX_OUTPUT_BUFFERS

LEMMA WindowInvInit == WindowInit => WindowInv
BY FrameAssumption DEF WindowInit, WindowInv, WindowTypeOK

(* One more frame costs at least MinFrame bytes of the input buffer.       *)
LEMMA AnotherFrame ==
  \A n, m \in Nat : n > 0 => (n + 1 - 1) * m = (n - 1) * m + m
OBVIOUS

LEMMA WindowInvStep == WindowInv /\ [WindowNext]_window => WindowInv'
<1> SUFFICES ASSUME WindowInv, [WindowNext]_window PROVE WindowInv'
  OBVIOUS
<1> USE FrameAssumption
<1>1. ASSUME NEW used \in 1 .. IO_INPUT_BUFFER_SIZE, libmad_input(used)
      PROVE  WindowInv'
  <2>1. CASE used + remain > LIBMAD_BUFFER_SIZE
    (* What is left is less than a frame and its guard, so a buffer that   *)
    (* does not fit means a frame of more than 1049 bytes.                 *)
    <3>1. /\ pc' = "LM_ERROR" /\ remain' = remain /\ frames' = frames
          /\ next' = next
      BY <1>1, <2>1 DEF libmad_input
    <3>2. MaxFrame > 1049
      BY <1>1, <2>1 DEF libmad_input, WindowInv, WindowTypeOK
    <3>. QED BY <3>1, <3>2 DEF WindowInv, WindowTypeOK
  <2>2. CASE ~(used + remain > LIBMAD_BUFFER_SIZE)
    <3>1. /\ pc' = "decode" /\ remain' = remain + used /\ frames' = 0
          /\ next' = next /\ pc = "idle"
      BY <1>1, <2>2 DEF libmad_input
    <3>2. remain' < next' + MAD_BUFFER_GUARD + IO_INPUT_BUFFER_SIZE
      BY <1>1, <3>1 DEF WindowInv, WindowTypeOK
    <3>. QED BY <1>1, <3>1, <3>2 DEF WindowInv, WindowTypeOK
  <2>. QED BY <2>1, <2>2
<1>2. ASSUME NEW size \in FrameSizes, mad_frame(size)
      PROVE  WindowInv'
  <2>1. /\ remain' = remain - next /\ next' = size /\ frames' = frames + 1
        /\ pc' = "decode" /\ next + MAD_BUFFER_GUARD <= remain
    BY <1>2 DEF mad_frame, WindowInv, WindowTypeOK
  <2>2. WindowTypeOK'
    BY <1>2, <2>1 DEF WindowInv, WindowTypeOK
  <2>3. frames' > 0 /\ remain' >= MAD_BUFFER_GUARD
    BY <2>1 DEF WindowInv, WindowTypeOK
  <2>4. remain' + (frames' - 1) * MinFrame < MAD_BUFFER_GUARD + IO_INPUT_BUFFER_SIZE
    <3>1. CASE frames = 0
      <4>1. (frames' - 1) * MinFrame = 0
        BY <3>1, <2>1
      <4>. QED BY <3>1, <2>1, <4>1 DEF WindowInv, WindowTypeOK
    <3>2. CASE frames > 0
      <4>1. frames \in Nat /\ MinFrame \in Nat
        BY DEF WindowInv, WindowTypeOK
      <4>2. (frames' - 1) * MinFrame = (frames - 1) * MinFrame + MinFrame
        BY <2>1, <3>2, <4>1, AnotherFrame
      <4>3. PICK cost \in Int : cost = (frames - 1) * MinFrame
        BY <4>1
      <4>4. remain + cost < MAD_BUFFER_GUARD + IO_INPUT_BUFFER_SIZE
        BY <3>2, <4>3 DEF WindowInv
      <4>5. remain' + (cost + MinFrame) < MAD_BUFFER_GUARD + IO_INPUT_BUFFER_SIZE
        BY <2>1, <4>4 DEF WindowInv, WindowTypeOK
      <4>. QED BY <4>2, <4>3, <4>5
    <3>. QED BY <3>1, <3>2 DEF WindowInv, WindowTypeOK
  <2>. QED BY <2>1, <2>2, <2>3, <2>4 DEF WindowInv, WindowTypeOK
<1>3. CASE mad_buflen
  <2>1. /\ pc' = "idle" /\ remain' = remain /\ next' = next /\ frames' = frames
        /\ next + MAD_BUFFER_GUARD > remain
    BY <1>3 DEF mad_buflen
  <2>. QED BY <2>1 DEF WindowInv, WindowTypeOK
<1>4. CASE UNCHANGED window
  BY <1>4 DEF window, WindowInv, WindowTypeOK
<1>. QED BY <1>1, <1>2, <1>3, <1>4 DEF WindowNext

(***************************************************************************)
(* What is left over between two calls of libmad_loop, and what one call   *)
(* decodes, is bounded by the sizes of a frame and of an input buffer.     *)
(***************************************************************************)
THEOREM WindowInvariant == WindowSpec => []WindowInv
BY WindowInvInit, WindowInvStep, PTL DEF WindowSpec

(***************************************************************************)
(* libmad_buffer is large enough for every well-formed stream whose frames *)
(* have at most 1049 bytes, however it is cut into input buffers.          *)
(***************************************************************************)
THEOREM WindowSuffices == WindowSpec => []WindowFits
<1>1. WindowInv => WindowFits
  BY FrameAssumption DEF WindowInv, WindowFits
<1>. QED BY <1>1, WindowInvariant, PTL

(***************************************************************************)
(* No call of libmad_loop decodes more frames than the output ring holds,  *)
(* for every well-formed stream whose frames have at least 256 bytes.      *)
(***************************************************************************)
THEOREM BurstSuffices == WindowSpec => []BurstFits
<1>1. WindowInv => BurstFits
  <2> SUFFICES ASSUME WindowInv, MinFrame >= 256, frames > 4 PROVE FALSE
    BY DEF BurstFits, WindowInv, WindowTypeOK
  <2>1. (frames - 1) * MinFrame >= 4 * 256
    <3>1. \A a, b \in Nat : a >= 4 /\ b >= 256 => a * b >= 4 * 256
      OBVIOUS
    <3>2. frames - 1 \in Nat /\ frames - 1 >= 4 /\ MinFrame \in Nat
      BY FrameAssumption DEF WindowInv, WindowTypeOK
    <3>. QED BY <3>1, <3>2
  <2>2. PICK cost \in Int : cost = (frames - 1) * MinFrame
    BY FrameAssumption DEF WindowInv, WindowTypeOK
  <2>3. remain + cost < 8 + 1024 /\ remain \in Nat /\ remain >= 8
    BY <2>2 DEF WindowInv, WindowTypeOK
  <2>. QED BY <2>1, <2>2, <2>3
<1>. QED BY <1>1, WindowInvariant, PTL
=============================================================================
