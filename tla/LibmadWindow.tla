---------------------------- MODULE LibmadWindow ----------------------------
(***************************************************************************)
(* The bytes of the decoder: libmad_input appends an input buffer to what  *)
(* is left in libmad_buffer, mad_header_decode takes whole frames off its  *)
(* front, and what remains is moved to the start of the buffer before the  *)
(* next input.  The stream is well formed: frames of any mixture of the    *)
(* sizes in FrameSizes (a size follows from bit rate and sample rate), one *)
(* behind the other, arriving in input buffers of any size.  The model     *)
(* counts bytes to find out for which streams the fixed sizes of           *)
(* iobuffer.h and libmad.c are enough.                                     *)
(***************************************************************************)
EXTENDS Libmad

CONSTANTS
  FrameSizes,           \* the sizes of the frames of the stream
  MinFrame, MaxFrame    \* bounds on them

ASSUME FrameAssumption ==
  /\ MinFrame \in Nat \ {0} /\ MaxFrame \in Nat
  /\ FrameSizes \subseteq MinFrame .. MaxFrame

MAD_BUFFER_GUARD == 8

MAX_OUTPUT_BUFFERS == 4

VARIABLES
  remain,   \* bufend - next_frame: bytes not yet decoded
  next,     \* size of the frame that starts at next_frame
  frames,   \* frames given to libmad_output by this call of libmad_loop
  pc        \* "idle" between calls, "decode" in the loop, "LM_ERROR"

window == <<remain, next, frames, pc>>

WindowInit == remain = 0 /\ next \in FrameSizes /\ frames = 0 /\ pc = "idle"

(* libmad_input that keeps MAD_BUFFER_GUARD bytes of the buffer free.      *)
libmad_input_no_guard(used) ==
  /\ pc = "idle"
  /\ IF used + remain > LIBMAD_BUFFER_SIZE - MAD_BUFFER_GUARD
     THEN pc' = "LM_ERROR" /\ UNCHANGED <<remain, frames>>
     ELSE pc' = "decode" /\ remain' = remain + used /\ frames' = 0
  /\ UNCHANGED next

(* libmad_input.  The output ring is empty when it is called, since only   *)
(* then o_free_size reaches DECOMPRESS_SIZE.                               *)
libmad_input(used) ==
  /\ pc = "idle"
  /\ IF used + remain > LIBMAD_BUFFER_SIZE
     THEN pc' = "LM_ERROR" /\ UNCHANGED <<remain, frames>>
     ELSE pc' = "decode" /\ remain' = remain + used /\ frames' = 0
  /\ UNCHANGED next

(* mad_header_decode that keeps a frame of half the size.                  *)
mad_frame_halved(size) ==
  /\ pc = "decode"
  /\ ~(next + MAD_BUFFER_GUARD > remain)
  /\ remain' = remain - next \div 2
  /\ next' = size
  /\ frames' = frames + 1
  /\ UNCHANGED pc

(* A whole frame and MAD_BUFFER_GUARD more bytes are there: it is decoded, *)
(* and a frame of another size follows.                                    *)
mad_frame(size) ==
  /\ pc = "decode"
  /\ ~(next + MAD_BUFFER_GUARD > remain)
  /\ remain' = remain - next
  /\ next' = size
  /\ frames' = frames + 1
  /\ UNCHANGED pc

(* MAD_ERROR_BUFLEN ends the loop.                                         *)
mad_buflen ==
  /\ pc = "decode"
  /\ next + MAD_BUFFER_GUARD > remain
  /\ pc' = "idle"
  /\ UNCHANGED <<remain, next, frames>>

WindowNext ==
  \/ \E used \in 1 .. IO_INPUT_BUFFER_SIZE : libmad_input(used)
  \/ \E size \in FrameSizes : mad_frame(size)
  \/ mad_buflen

WindowSpec == WindowInit /\ [][WindowNext]_window

-----------------------------------------------------------------------------
(* Types of the state.                                                     *)
WindowTypeOK ==
  /\ remain \in Nat
  /\ next \in FrameSizes
  /\ frames \in Nat
  /\ pc \in {"idle", "decode", "LM_ERROR"}

(***************************************************************************)
(* The decoder never has to give up for want of room in libmad_buffer, if  *)
(* the frames of the stream have at most 1049 bytes, which those of 320    *)
(* kbit/s at 44.1 and 48 kHz have.                                         *)
(***************************************************************************)
WindowFits == MaxFrame <= 1049 => pc # "LM_ERROR"

(***************************************************************************)
(* One call of libmad_loop pushes no more frames than the output ring has  *)
(* buffers, so none is overwritten, if no frame is shorter than 256 bytes, *)
(* which those of 80 kbit/s at 44.1 kHz are not.                           *)
(***************************************************************************)
BurstFits == MinFrame >= 256 => frames <= MAX_OUTPUT_BUFFERS

(***************************************************************************)
(* The inductive invariant.  Between two calls less than a frame and its   *)
(* guard is left over; the first frame of a call uses up the left-over,    *)
(* and all others come out of the one input buffer added to it, of which   *)
(* the guard of the last one stays.                                        *)
(***************************************************************************)
WindowInv ==
  /\ WindowTypeOK
  /\ pc = "idle" => remain < next + MAD_BUFFER_GUARD
  /\ frames = 0 => remain < next + MAD_BUFFER_GUARD + IO_INPUT_BUFFER_SIZE
  /\ frames > 0 =>
       /\ remain >= MAD_BUFFER_GUARD
       /\ remain + (frames - 1) * MinFrame < MAD_BUFFER_GUARD + IO_INPUT_BUFFER_SIZE
  /\ pc = "LM_ERROR" => MaxFrame > 1049
=============================================================================
