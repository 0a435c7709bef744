------------------------------- MODULE Player -------------------------------
(***************************************************************************)
(* The player, common/player.c, with the operations of the modules it      *)
(* drives.  Its functions are operators on the record of everything they   *)
(* read or write:                                                          *)
(*   pl   struct pl: [state, source_type]     fss  the file layer (Fs)     *)
(*   ns   struct ns of linux/net.c: [state]   ls   the decoder (Libmad)    *)
(*   ss   struct ss of linux/sound.c          i, o the two rings           *)
(* The display is compiled out of the Linux build (NO_LCD).                *)
(***************************************************************************)
EXTENDS Fs, Libmad

MAX_INPUT_BUFFERS == 4
MAX_OUTPUT_BUFFERS == 4

(* Slots as io_input_reset_buffer and io_output_reset_buffer leave them.   *)
BlankInput == [play |-> 0, chunk |-> 0, used |-> 0]
BlankOutput == [play |-> 0, serial |-> 0, fmt |-> 0]

Active(S) == S.pl.state \in {"PL_PLAYING", "PL_BUFFERING"}

-----------------------------------------------------------------------------
(* linux/net.c: the connection.                                            *)

(* Every failure of name lookup, connect, request or media type ends in    *)
(* NET_ERROR; all of it happens before host_net_open returns.              *)
host_net_open(ns, fails) ==
  [ns EXCEPT !.state = IF fails THEN "NET_ERROR" ELSE "NET_OPEN"]

host_net_close(ns) == [ns EXCEPT !.state = "NET_CLOSED"]

-----------------------------------------------------------------------------
(* pl_stop that leaves the connection open.                                *)
pl_stop_file_only(S) ==
  IF Active(S)
  THEN [S EXCEPT !.fss = fs_stop(@), !.ls = libmad_done(@), !.pl.state = "PL_STOP"]
  ELSE S

(* pl_stop that does not stop the file.                                    *)
pl_stop_net_only(S) ==
  IF Active(S)
  THEN [S EXCEPT !.ns = host_net_close(@), !.ls = libmad_done(@),
                 !.pl.state = "PL_STOP"]
  ELSE S

pl_stop(S) ==
  IF Active(S)
  THEN [S EXCEPT !.fss = fs_stop(@), !.ns = host_net_close(@),
                 !.ls = libmad_done(@), !.pl.state = "PL_STOP"]
  ELSE S

io_init(S) ==
  [S EXCEPT !.i = io_reset(MAX_INPUT_BUFFERS, BlankInput),
            !.o = io_reset(MAX_OUTPUT_BUFFERS, BlankOutput)]

(* The switch on fs_playing() looks at fss.type, which a failing fs_play   *)
(* leaves as the last successful one set it.                               *)
pl_play_file(S, name, reads) ==
  LET T == [S EXCEPT !.pl.source_type = "PS_FILE", !.fss = fs_play(@, name, reads)]
  IN  CASE T.fss.type \in {"FST_UNKNOWN", "FST_NONE"} -> pl_stop(T)
        [] T.fss.type = "FST_RIFF" -> [T EXCEPT !.pl.state = "PL_PLAYING"]
        [] T.fss.type = "FST_MP3" -> [T EXCEPT !.pl.state = "PL_BUFFERING"]

pl_play_net(S, fails) ==
  [S EXCEPT !.pl = [state |-> "PL_BUFFERING", source_type |-> "PS_NET"],
            !.ns = host_net_open(@, fails)]

(* pl_play that keeps the buffers of the previous source.                  *)
pl_play_stale(S, what, reads, fails) ==
  LET T == [pl_stop(S) EXCEPT !.ls = libmad_init]
  IN  IF what \in DOMAIN Disk THEN pl_play_file(T, what, reads) ELSE pl_play_net(T, fails)

pl_play(S, what, reads, fails) ==
  LET T == [io_init(pl_stop(S)) EXCEPT !.ls = libmad_init]
  IN  IF what \in DOMAIN Disk THEN pl_play_file(T, what, reads) ELSE pl_play_net(T, fails)

-----------------------------------------------------------------------------
(* What pl_poll does first: it plays once the input ring is full.          *)
pl_buffered(S) ==
  IF S.pl.state = "PL_BUFFERING" /\ io_free(S.i) = 0
  THEN [S EXCEPT !.pl.state = "PL_PLAYING"] ELSE S

pl_failed(S) ==
  S.ns.state = "NET_ERROR" \/ S.ss.state = "SS_ERROR" \/ S.ls.state = "LM_ERROR"

pl_ended(S) ==
  \/ S.pl.source_type = "PS_FILE" /\ S.fss.state = "FSS_CLOSED"
  \/ S.pl.source_type = "PS_NET" /\ S.ns.state = "NET_CLOSED"

pl_starved(S) ==
  IF S.pl.state = "PL_PLAYING" /\ io_starving(S.i, S.o)
  THEN [S EXCEPT !.pl.state = "PL_BUFFERING"] ELSE S

(* pl_poll that does not look whether the source has ended.                *)
pl_poll_endless(S) ==
  LET Checked == IF pl_failed(S) THEN pl_stop(pl_buffered(S)) ELSE pl_buffered(S)
  IN  IF ~Active(S) THEN S ELSE pl_starved(Checked)

(* The four states are read once, on entry.                                *)
pl_poll(S) ==
  LET Checked == IF pl_failed(S) THEN pl_stop(pl_buffered(S)) ELSE pl_buffered(S)
      Ended == IF Active(Checked) /\ pl_ended(S) THEN pl_stop(Checked) ELSE Checked
  IN  IF ~Active(S) THEN S ELSE pl_starved(Ended)
=============================================================================
