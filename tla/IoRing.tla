------------------------------- MODULE IoRing -------------------------------
(***************************************************************************)
(* One ring of common/iobuffer.c between a producer that asks for room     *)
(* before it pushes and a consumer that asks for data before it pops: the  *)
(* way fs_poll_mp3, fs_poll_riff, host_net_poll and net_lwip_recv push and *)
(* libmad_loop and host_snd_loop pop.  (The one producer that does not ask *)
(* is the MP3 decoder; see Playback.)                                      *)
(***************************************************************************)
EXTENDS IoBuffer, Sequences

CONSTANTS
  MaxBuffers,   \* MAX_INPUT_BUFFERS or MAX_OUTPUT_BUFFERS
  Content,      \* what a slot may hold
  Blank,        \* a slot cleared by io_*_reset_buffer
  MaxPushes     \* bound: pushes between two resets

ASSUME RingAssumption ==
  /\ MaxBuffers \in Nat \ {0} /\ MaxBuffers < 65536
  /\ MaxPushes \in Nat
  /\ Blank \in Content

VARIABLES
  io,       \* the ring
  popped    \* the slot contents the last successful pop handed out

vars == <<io, popped>>

Init == io = io_reset(MaxBuffers, Blank) /\ popped = Blank

(* A producer that does not ask for room.                                  *)
Push_unasked(c) ==
  /\ io.head < MaxPushes
  /\ io' = io_push(io, c)
  /\ UNCHANGED popped

(* A producer that found io_free() non-zero.                               *)
Push(c) ==
  /\ io_free(io) # 0
  /\ io.head < MaxPushes
  /\ io' = io_push(io, c)
  /\ UNCHANGED popped

(* A consumer that found io_used() non-zero.                               *)
Pop ==
  /\ io_used(io) # 0
  /\ io' = io_pop(io)
  /\ popped' = IF io_empty(io) THEN popped ELSE io_front(io)

(* io_init, called by pl_play.                                             *)
Reset == io' = io_reset(MaxBuffers, Blank) /\ UNCHANGED popped

Next == (\E c \in Content : Push(c)) \/ Pop \/ Reset

Spec == Init /\ [][Next]_vars

-----------------------------------------------------------------------------
Ring == [head : Nat, tail : Nat, max_buffers : {MaxBuffers},
         slot : [0 .. MaxBuffers - 1 -> Content]]

(* Types of the ring and of what a pop returns.                            *)
TypeOK == io \in Ring /\ popped \in Content

(***************************************************************************)
(* Under producers that check for room the ring never holds more than its  *)
(* size, so the free and used counts its users see are a true partition of *)
(* the buffers: the uint16_t subtraction of io_free never wraps.           *)
(***************************************************************************)
Partition ==
  /\ io_used(io) \in 0 .. MaxBuffers
  /\ io_free(io) \in 0 .. MaxBuffers
  /\ io_used(io) + io_free(io) = MaxBuffers

(* Partition made inductive: the counters themselves never drift further   *)
(* apart than the ring is long, in either direction.                       *)
RingInv ==
  /\ TypeOK
  /\ io.tail <= io.head
  /\ io.head - io.tail <= MaxBuffers

(* The contents between tail and head, oldest first.                       *)
Unread ==
  [k \in 1 .. io.head - io.tail |-> io.slot[(io.tail + k - 1) % MaxBuffers]]

Queue == INSTANCE Fifo WITH Capacity <- MaxBuffers, queue <- Unread

(***************************************************************************)
(* The ring implements a bounded FIFO: io_push with its modulo index,      *)
(* io_pop and the reset lose, duplicate and reorder nothing, whatever the  *)
(* position of the counters.                                               *)
(***************************************************************************)
ImplementsFifo == Queue!Spec

(***************************************************************************)
(* What a pop hands out is the oldest unread content, which is the head of *)
(* the abstract queue before the step.                                     *)
(***************************************************************************)
PopsOldest ==
  [][io_used(io') = io_used(io) - 1 /\ io'.head # 0 =>
       popped' = Head(Unread)]_vars
=============================================================================
