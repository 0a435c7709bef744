------------------------------- MODULE Libmad -------------------------------
(***************************************************************************)
(* The decoder's control state, common/libmad.c, as operators on the       *)
(* record [state, err_count, Frames, play], play being the source of the   *)
(* bytes in libmad_buffer (history).  What the decoder makes of them is    *)
(* nondeterministic here; LibmadWindow counts them.                        *)
(***************************************************************************)
EXTENDS IoBuffer

MAX_LIBMAD_ERRORS == 4
LIBMAD_BUFFER_SIZE == 2 * 1024 + 32
DECOMPRESS_SIZE == LIBMAD_BUFFER_SIZE * 8

libmad_zero == [state |-> "LM_UNKNOWN", err_count |-> 0, Frames |-> 0, play |-> 0]

libmad_init == [state |-> "LM_INIT", err_count |-> 0, Frames |-> 0, play |-> 0]

libmad_done(ls) == [ls EXCEPT !.state = "LM_DONE"]

(* libmad_error that never gives up.                                       *)
libmad_error_patient(ls) == [ls EXCEPT !.err_count = @ + 1]

(* An error of the default branch: tolerated until there are too many.     *)
libmad_error(ls) ==
  [ls EXCEPT !.err_count = @ + 1,
             !.state = IF ls.err_count + 1 > MAX_LIBMAD_ERRORS
                       THEN "LM_ERROR" ELSE @]

(* The early returns of libmad_loop, with the state of the player.         *)
libmad_ready(ls, pl_state, i, o) ==
  /\ ls.state = "LM_INIT"
  /\ pl_state # "PL_BUFFERING"
  /\ io_used(i) # 0
  /\ ~(o_free_size(o) < DECOMPRESS_SIZE)
=============================================================================
