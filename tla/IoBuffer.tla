------------------------------ MODULE IoBuffer ------------------------------
(***************************************************************************)
(* The circular buffers of common/iobuffer.c, as operators on a ring       *)
(* record.  The program has two rings of the same shape: "input" between   *)
(* the sources (fs, net) and the MP3 decoder, "output" between the         *)
(* decoder (or the Wave reader) and the sound device.                      *)
(*                                                                         *)
(* A ring is [head, tail, max_buffers, slot]: the two free-running         *)
(* counters of struct io_s and the array (input[] or output[]) they index. *)
(* A slot holds whatever its last writer left in it; popping does not      *)
(* clear it.  The counters are uint32_t in C and are never reduced, only   *)
(* reset: the models bound the number of pushes between two resets, so     *)
(* they stay far below 2^32 and are plain naturals here.  The uint16_t     *)
(* return type of io_free is kept, because it is what turns an overfull    *)
(* ring into a huge amount of free space.                                  *)
(***************************************************************************)
EXTENDS Integers

IO_INPUT_BUFFER_SIZE == 1024
IO_OUTPUT_BUFFER_SIZE == 4608

Uint16(n) == n % 65536

io_used(io) == Uint16(io.head - io.tail)

(* io_free counting the slot about to be filled as well.                   *)
io_free_inclusive(io) == Uint16(io.max_buffers - (io.head - io.tail) + 1)

io_free(io) == Uint16(io.max_buffers - (io.head - io.tail))

(* io_reset_input, io_reset_output: counters to zero, every slot cleared.  *)
io_reset(max, blank) ==
  [head |-> 0, tail |-> 0, max_buffers |-> max,
   slot |-> [k \in 0 .. max - 1 |-> blank]]

(* The test of io_push for a ring that is already full.                    *)
io_full(io) == io.head - io.tail > io.max_buffers

(* io_push that takes the index after it has advanced the head.            *)
io_push_late_index(io, content) ==
  [head |-> io.head + 1,
   tail |-> IF io_full(io) THEN io.tail + 1 ELSE io.tail,
   max_buffers |-> io.max_buffers,
   slot |-> [io.slot EXCEPT ![(io.head + 1) % io.max_buffers] = content]]

(* i_push, o_push, and the filling of the slot by the caller.              *)
io_push(io, content) ==
  [head |-> io.head + 1,
   tail |-> IF io_full(io) THEN io.tail + 1 ELSE io.tail,
   max_buffers |-> io.max_buffers,
   slot |-> [io.slot EXCEPT ![io.head % io.max_buffers] = content]]

io_empty(io) == ~(io.head > io.tail)

(* i_pop, o_pop: an empty ring is left alone and the caller gets NULL.     *)
io_pop(io) == [io EXCEPT !.tail = IF io_empty(io) THEN @ ELSE @ + 1]

(* The slot last written.                                                  *)
io_front_newest(io) == io.slot[(io.head - 1) % io.max_buffers]

(* What i_pop, o_pop and o_peek return a pointer to.                       *)
io_front(io) == io.slot[io.tail % io.max_buffers]

o_free_size(o) == Uint16(io_free(o) * IO_OUTPUT_BUFFER_SIZE)

io_starving(i, o) == io_used(i) = 0 /\ io_used(o) = 0
=============================================================================
