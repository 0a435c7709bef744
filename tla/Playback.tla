------------------------------ MODULE Playback ------------------------------
(***************************************************************************)
(* The Linux program: linux/main.c calls the polling functions of all the  *)
(* modules in a fixed order, for ever.  pc names the call about to be      *)
(* made; a function with a loop in it takes one step per iteration.  The   *)
(* disk, the network, the sound device, the MP3 data and the user are the  *)
(* environment.                                                            *)
(***************************************************************************)
EXTENDS Player, Event

CONSTANTS
  Urls,            \* what the user may play besides the names on the disk
  Commands,        \* the lines the user may type
  MaxCommands,     \* bound: lines typed
  MaxPackets,      \* bound: packets of one connection
  FramesPerInput,  \* bound: MP3 frames decoded from one input buffer
  ReadFaults,      \* may fread fail?
  NetFaults,       \* may the connection fail?
  DecoderFaults,   \* may the decoder find errors in the data?
  SoundFaults      \* may the sound device refuse data or parameters?

ASSUME PlaybackAssumption ==
  /\ Commands \subseteq ({"play"} \X (DOMAIN Disk \cup Urls))
                        \cup {<<"stop">>, <<"exit">>}
  /\ \A n \in {MaxCommands, MaxPackets, FramesPerInput} : n \in Nat
  /\ {ReadFaults, NetFaults, DecoderFaults, SoundFaults} \subseteq BOOLEAN

VARIABLES
  pl, fss, ns, ls, ss, i, o,   \* see Player
  ev,        \* the event queue
  con,       \* struct con: [lock, input], input being the line typed
  quit,      \* set by the exit command
  pc,        \* the next call of frame()
  burst,     \* frames decoded so far from the current input buffer
  flooded,   \* history: did an input buffer of this play hold more frames than
             \* the output ring has buffers?
  plays,     \* history: number of pl_play calls, which identifies a source
  typed,     \* history: number of lines typed
  heard      \* history: the last frame the sound device accepted

prog == <<pl, fss, ns, ls, ss, i, o>>
vars == <<prog, ev, con, quit, pc, burst, flooded, plays, typed, heard>>

Prog == [pl |-> pl, fss |-> fss, ns |-> ns, ls |-> ls, ss |-> ss, i |-> i, o |-> o]

Becomes(S) ==
  \E T \in {S} : /\ pl' = T.pl /\ fss' = T.fss /\ ns' = T.ns /\ ls' = T.ls
                 /\ ss' = T.ss /\ i' = T.i /\ o' = T.o

NoLine == <<"none">>

-----------------------------------------------------------------------------
(* host_snd_init: the device opens, or it does not.                        *)
host_snd_init ==
  {[state |-> state, fmt |-> 0] :
     state \in {"SS_INIT"} \cup (IF SoundFaults THEN {"SS_ERROR"} ELSE {})}

(* init().                                                                 *)
Init ==
  /\ pl = [state |-> "PL_STOP", source_type |-> "PS_UNKNOWN"]
  /\ fss = fs_init
  /\ ns = [state |-> "NET_CLOSED"]
  /\ ls = libmad_zero
  /\ ss \in host_snd_init
  /\ i = io_reset(MAX_INPUT_BUFFERS, BlankInput)
  /\ o = io_reset(MAX_OUTPUT_BUFFERS, BlankOutput)
  /\ ev = event_init
  /\ con = [lock |-> FALSE, input |-> NoLine]
  /\ quit = FALSE
  /\ pc = "con_poll"
  /\ burst = 0
  /\ flooded = FALSE
  /\ plays = 0
  /\ typed = 0
  /\ heard = BlankOutput

-----------------------------------------------------------------------------
(* con_poll that takes a line without locking the input.                   *)
con_poll_unlocked ==
  /\ pc = "con_poll" /\ pc' = "fs_poll"
  /\ \/ UNCHANGED <<con, ev, typed>>
     \/ /\ ~con.lock /\ typed < MaxCommands
        /\ \E line \in Commands : con' = [lock |-> FALSE, input |-> line]
        /\ ev' = event_push(ev, "E_CON_INPUT", "NULL")
        /\ typed' = typed + 1
  /\ UNCHANGED <<prog, quit, burst, flooded, plays, heard>>

(* host_con_poll reads all there is, and drops it while the input is       *)
(* locked: at most one line gets in between two runs of the event loop.    *)
con_poll ==
  /\ pc = "con_poll" /\ pc' = "fs_poll"
  /\ \/ UNCHANGED <<con, ev, typed>>
     \/ /\ ~con.lock /\ typed < MaxCommands
        /\ \E line \in Commands : con' = [lock |-> TRUE, input |-> line]
        /\ ev' = event_push(ev, "E_CON_INPUT", "NULL")
        /\ typed' = typed + 1
  /\ UNCHANGED <<prog, quit, burst, flooded, plays, heard>>

(* fs_poll_mp3 that pushes without looking for room.                       *)
fs_poll_mp3_unasked(S, fails) ==
  LET read == fs_read(S.fss, S.fss.handle, fails)
      buff == [play |-> plays, chunk |-> read.got, used |-> IO_INPUT_BUFFER_SIZE]
  IN  IF read.got > 0
      THEN [S EXCEPT !.i = io_push(@, buff), !.fss = read.f]
      ELSE [S EXCEPT !.i = io_push(@, BlankInput), !.fss = fs_stop(read.f)]

(* The buffer is pushed first and filled by the read; at the end of the    *)
(* file, or when the read fails, it stays in the ring, empty.              *)
fs_poll_mp3(S, fails) ==
  LET read == fs_read(S.fss, S.fss.handle, fails)
      buff == [play |-> plays, chunk |-> read.got, used |-> IO_INPUT_BUFFER_SIZE]
  IN  IF io_free(S.i) = 0 THEN S
      ELSE IF read.got > 0
      THEN [S EXCEPT !.i = io_push(@, buff), !.fss = read.f]
      ELSE [S EXCEPT !.i = io_push(@, BlankInput), !.fss = fs_stop(read.f)]

(* fs_poll_riff: the same over the output ring.                            *)
fs_poll_riff(S, fails) ==
  LET read == fs_read(S.fss, S.fss.handle, fails)
      buff == [play |-> plays, serial |-> read.got, fmt |-> S.fss.fmt]
  IN  IF io_free(S.o) = 0 THEN S
      ELSE IF read.got > 0
      THEN [S EXCEPT !.o = io_push(@, buff), !.fss = read.f]
      ELSE [S EXCEPT !.o = io_push(@, BlankOutput), !.fss = fs_stop(read.f)]

fs_poll ==
  /\ pc = "fs_poll" /\ pc' = "net_poll"
  /\ \/ fss.handle = -1 /\ UNCHANGED prog
     \/ \E fails \in {FALSE, ReadFaults} :
          /\ fss.handle # -1
          /\ Becomes(IF fss.type = "FST_RIFF" THEN fs_poll_riff(Prog, fails)
                     ELSE fs_poll_mp3(Prog, fails))
  /\ UNCHANGED <<ev, con, quit, burst, flooded, plays, typed, heard>>

(* What recv returns, as it is stored in used: 65535 is its -1.            *)
recv == {1024} \cup (IF NetFaults THEN {0, 65535} ELSE {})

(* host_net_poll.  broken says that poll reported an error or a hangup.  A *)
(* recv of nothing means that the peer has closed, which poll reports too. *)
net_poll ==
  /\ pc = "net_poll" /\ pc' = "libmad_loop"
  /\ IF ns.state # "NET_OPEN" \/ io_free(i) < 1
     THEN UNCHANGED <<ns, i>>
     ELSE \E broken \in {FALSE, NetFaults} :
            /\ ns' = [ns EXCEPT !.state = IF broken THEN "NET_ERROR" ELSE @]
            /\ \/ UNCHANGED i
               \/ \E received \in recv :
                    /\ i.head < MaxPackets
                    /\ received = 0 => broken
                    /\ i' = io_push(i, [play |-> plays, chunk |-> i.head + 1,
                                        used |-> received])
  /\ UNCHANGED <<pl, fss, ls, ss, o, ev, con, quit, burst, flooded, plays, typed, heard>>

-----------------------------------------------------------------------------
(* libmad_loop as far as libmad_input, which takes one buffer.  A buffer   *)
(* that does not fit behind the bytes left over is an error.  An empty one *)
(* leaves the decoder where it was, waiting for more bytes.                *)
libmad_loop ==
  /\ pc = "libmad_loop"
  /\ burst' = 0
  /\ IF libmad_ready(ls, pl.state, i, o)
     THEN LET buff == io_front(i) IN
          /\ i' = io_pop(i)
          /\ \E overflow \in {buff.used > LIBMAD_BUFFER_SIZE, buff.used # 0 /\ DecoderFaults} :
               IF overflow
               THEN ls' = [ls EXCEPT !.state = "LM_ERROR"] /\ pc' = "snd_loop"
               ELSE /\ buff.used <= LIBMAD_BUFFER_SIZE
                    /\ ls' = [ls EXCEPT !.play = IF buff.used = 0 THEN @ ELSE buff.play]
                    /\ pc' = IF buff.used = 0 THEN "snd_loop" ELSE "mad_decode"
     ELSE UNCHANGED <<ls, i>> /\ pc' = "snd_loop"
  /\ UNCHANGED <<pl, fss, ns, ss, o, ev, con, quit, flooded, plays, typed, heard>>

(* mad_frame that takes a buffer for each of the frame's two granules.     *)
mad_frame_granules ==
  LET buff == [play |-> ls.play, serial |-> ls.Frames + 1, fmt |-> 1] IN
  /\ pc = "mad_decode" /\ burst < FramesPerInput
  /\ o' = io_push(io_push(o, buff), buff)
  /\ ls' = [ls EXCEPT !.Frames = @ + 1]
  /\ burst' = burst + 1
  /\ flooded' = (flooded \/ burst' > MAX_OUTPUT_BUFFERS)
  /\ UNCHANGED <<pl, fss, ns, ss, i, ev, con, quit, pc, plays, typed, heard>>

(* The while loop of libmad_loop: a frame decoded and given to             *)
(* libmad_output, a frame with an error, no whole frame left.              *)
mad_frame ==
  /\ pc = "mad_decode" /\ burst < FramesPerInput
  /\ o' = io_push(o, [play |-> ls.play, serial |-> ls.Frames + 1, fmt |-> 1])
  /\ ls' = [ls EXCEPT !.Frames = @ + 1]
  /\ burst' = burst + 1
  /\ flooded' = (flooded \/ burst' > MAX_OUTPUT_BUFFERS)
  /\ UNCHANGED <<pl, fss, ns, ss, i, ev, con, quit, pc, plays, typed, heard>>

mad_bad_frame ==
  /\ pc = "mad_decode" /\ DecoderFaults
  /\ ls' = libmad_error(ls)
  /\ pc' = IF ls'.state = "LM_INIT" THEN pc ELSE "snd_loop"
  /\ UNCHANGED <<pl, fss, ns, ss, i, o, ev, con, quit, burst, flooded, plays, typed, heard>>

mad_buflen ==
  /\ pc = "mad_decode" /\ pc' = "snd_loop"
  /\ UNCHANGED <<prog, ev, con, quit, burst, flooded, plays, typed, heard>>

-----------------------------------------------------------------------------
(* host_snd_loop when it returns without writing.                          *)
snd_idle ==
  /\ pc = "snd_loop" /\ pc' = "event_loop"
  /\ ss.state = "SS_ERROR" \/ io_used(o) = 0 \/ pl.state # "PL_PLAYING"
  /\ ss' = IF ss.state = "SS_PLAYING" /\ io_used(o) = 0
           THEN [ss EXCEPT !.state = "SS_PAUSE"] ELSE ss
  /\ UNCHANGED <<pl, fss, ns, ls, i, o, ev, con, quit, burst, flooded, plays, typed, heard>>

(* alsa_setup, called when the format is a new one.                        *)
alsa_setup(s, fmt, refused) ==
  IF s.fmt = fmt THEN s
  ELSE [state |-> IF refused THEN "SS_ERROR" ELSE s.state, fmt |-> fmt]

(* host_snd_poll writes one buffer; the loop goes on while there are more. *)
(* A buffer without a format is not written.  A failing alsa_setup sets    *)
(* SS_ERROR, which the outcome of the write replaces.                      *)
snd_poll ==
  /\ pc = "snd_loop"
  /\ ss.state # "SS_ERROR" /\ io_used(o) # 0 /\ pl.state = "PL_PLAYING"
  /\ o' = io_pop(o)
  /\ LET buff == io_front(o) IN
     IF buff.fmt = 0
     THEN /\ ss' = IF ss.state = "SS_PLAYING" THEN [ss EXCEPT !.state = "SS_PAUSE"] ELSE ss
          /\ UNCHANGED heard
     ELSE \E refused, fails \in {FALSE, SoundFaults} :
          /\ ss' = [alsa_setup(ss, buff.fmt, refused) EXCEPT
                      !.state = IF fails THEN "SS_ERROR" ELSE "SS_PLAYING"]
          /\ heard' = IF fails THEN heard ELSE buff
  /\ pc' = IF io_used(o') # 0 THEN pc ELSE "event_loop"
  /\ UNCHANGED <<pl, fss, ns, ls, i, ev, con, quit, burst, flooded, plays, typed>>

-----------------------------------------------------------------------------
(* event_loop, one event at a time.                                        *)

(* cmd_pl_play and cmd_pl_stop.  cmd_radio pushes the E_PL_PLAY of a URL   *)
(* of its list, which is a play of one of Urls here; cmd_snd_volume pushes *)
(* an E_PL_VOLSET, whose handler sets the volume and touches nothing       *)
(* modelled here; the others push nothing.                                 *)
cmd_pl(q, line) ==
  CASE line[1] = "play" -> event_push(q, "E_PL_PLAY", line[2])
    [] line[1] = "stop" -> event_push(q, "E_PL_STOP", "NULL")
    [] OTHER -> q

(* E_CON_INPUT that forgets con_reset.                                     *)
event_input_no_reset ==
  /\ pc = "event_loop" /\ event_front(ev).type = "E_CON_INPUT"
  /\ ev' = cmd_pl(event_pop(ev), con.input)
  /\ quit' = (quit \/ con.input[1] = "exit")
  /\ UNCHANGED <<prog, con, pc, burst, flooded, plays, typed, heard>>

(* cmd_input runs the command of the line, which at most pushes an event;  *)
(* con_reset then clears and unlocks the input.                            *)
event_input ==
  /\ pc = "event_loop" /\ event_front(ev).type = "E_CON_INPUT"
  /\ ev' = cmd_pl(event_pop(ev), con.input)
  /\ quit' = (quit \/ con.input[1] = "exit")
  /\ con' = [lock |-> FALSE, input |-> NoLine]
  /\ UNCHANGED <<prog, pc, burst, flooded, plays, typed, heard>>

(* How the reads of fs_play may go.                                        *)
Reads == [type : {FALSE, ReadFaults}, header : {FALSE, ReadFaults}, residue : Residue]

event_play ==
  /\ pc = "event_loop" /\ event_front(ev).type = "E_PL_PLAY"
  /\ ev' = event_pop(ev)
  /\ \E reads \in Reads, fails \in {FALSE, NetFaults} :
       Becomes(pl_play(Prog, event_front(ev).ptr, reads, fails))
  /\ plays' = plays + 1
  /\ flooded' = FALSE
  /\ UNCHANGED <<con, quit, pc, burst, typed, heard>>

event_stop ==
  /\ pc = "event_loop" /\ event_front(ev).type = "E_PL_STOP"
  /\ ev' = event_pop(ev)
  /\ Becomes(pl_stop(Prog))
  /\ UNCHANGED <<con, quit, pc, burst, flooded, plays, typed, heard>>

event_none ==
  /\ pc = "event_loop" /\ event_front(ev).type = "E_NONE"
  /\ pc' = "pl_poll"
  /\ UNCHANGED <<prog, ev, con, quit, burst, flooded, plays, typed, heard>>

(* pl_poll, the last call of a frame that changes anything.                *)
poll_player ==
  /\ pc = "pl_poll"
  /\ Becomes(pl_poll(Prog))
  /\ pc' = IF quit THEN "done" ELSE "con_poll"
  /\ UNCHANGED <<ev, con, quit, burst, flooded, plays, typed, heard>>

(* done(): net_done closes the connection, fs_done stops the file.         *)
shutdown ==
  /\ pc = "done" /\ pc' = "exited"
  /\ ns' = host_net_close(ns)
  /\ fss' = fs_stop(fss)
  /\ UNCHANGED <<pl, ls, ss, i, o, ev, con, quit, burst, flooded, plays, typed, heard>>

frame ==
  \/ con_poll \/ fs_poll \/ net_poll
  \/ libmad_loop \/ mad_frame \/ mad_bad_frame \/ mad_buflen
  \/ snd_idle \/ snd_poll
  \/ event_input \/ event_play \/ event_stop \/ event_none
  \/ poll_player

Next == frame \/ shutdown

Spec == Init /\ [][Next]_vars

(* Every call of frame() returns: poll waits for 20 ms at most, a ring, a  *)
(* queue or a buffer of MP3 data is soon empty, and the sound device takes *)
(* what it is given.  So the program moves on to its next call, until it   *)
(* has exited.                                                             *)
Calls == {"con_poll", "fs_poll", "net_poll", "libmad_loop", "mad_decode",
          "snd_loop", "event_loop", "pl_poll", "done", "exited"}

CallReturns == pc # "exited" /\ pc' \in Calls

FairSpec == Spec /\ WF_pc(CallReturns)

-----------------------------------------------------------------------------
InputBuffer == [play : Nat, chunk : Nat, used : {0, 1024, 65535}]
OutputBuffer == [play : Nat, serial : Nat, fmt : Nat]

Ring(max, Buffer) ==
  [head : Nat, tail : Nat, max_buffers : {max}, slot : [0 .. max - 1 -> Buffer]]

FsType ==
  [state : {"FSS_OPEN", "FSS_CLOSED"}, type : {"FST_UNKNOWN", "FST_RIFF", "FST_MP3"},
   fmt : Nat, handle : Handles \cup {-1},
   handles : [Handles -> [source : {"FSO_CLOSED", "FSO_HOST"}, handle : Handles]],
   hfs : [Handles -> [name : DOMAIN Disk \cup {NULL}, pos : Nat]]]

EventType == {"E_NONE", "E_CON_INPUT", "E_PL_PLAY", "E_PL_STOP"}

(* Types of the state; an event's ptr is whatever its type wants.          *)
TypeOK ==
  /\ pl \in [state : {"PL_STOP", "PL_PLAYING", "PL_BUFFERING"},
             source_type : {"PS_UNKNOWN", "PS_NET", "PS_FILE"}]
  /\ fss \in FsType
  /\ ns \in [state : {"NET_OPEN", "NET_CLOSED", "NET_ERROR"}]
  /\ ls \in [state : {"LM_UNKNOWN", "LM_INIT", "LM_DONE", "LM_ERROR"},
             err_count : Nat, Frames : Nat, play : Nat]
  /\ ss \in [state : {"SS_INIT", "SS_PLAYING", "SS_PAUSE", "SS_ERROR"}, fmt : Nat]
  /\ i \in Ring(MAX_INPUT_BUFFERS, InputBuffer)
  /\ o \in Ring(MAX_OUTPUT_BUFFERS, OutputBuffer)
  /\ ev = [head |-> ev.head, tail |-> ev.tail, events |-> ev.events]
  /\ ev.head \in Nat /\ ev.tail \in Nat /\ DOMAIN ev.events = 0 .. MAX_EVENTS - 1
  /\ \A k \in 0 .. MAX_EVENTS - 1 : ev.events[k].type \in EventType
  /\ con \in [lock : BOOLEAN, input : Commands \cup {NoLine}]
  /\ quit \in BOOLEAN /\ pc \in Calls
  /\ burst \in Nat /\ flooded \in BOOLEAN
  /\ plays \in Nat /\ typed \in Nat /\ heard \in OutputBuffer

(***************************************************************************)
(* Between two frames a player that is not stopped has a working source:   *)
(* the file open, with a valid handle that reads it, or the connection     *)
(* open, and a decoder and a sound device without an error.  Whatever      *)
(* failed during the frame, and whatever a failed play left behind in      *)
(* fss.type, pl_poll has cleaned up.                                       *)
(***************************************************************************)
SourceOpen ==
  pc = "con_poll" /\ pl.state # "PL_STOP" =>
    /\ ls.state = "LM_INIT" /\ ss.state # "SS_ERROR"
    /\ pl.source_type = "PS_FILE" =>
         /\ fss.state = "FSS_OPEN" /\ fss.handle \in Handles
         /\ fss.handles[fss.handle].source = "FSO_HOST"
         /\ fss.hfs[fss.handles[fss.handle].handle].name # NULL
    /\ pl.source_type = "PS_NET" => ns.state = "NET_OPEN"

(***************************************************************************)
(* A stopped player holds neither a file being played nor a connection, so *)
(* nothing keeps filling the rings behind its back.                        *)
(***************************************************************************)
StoppedReleasesSource ==
  pl.state = "PL_STOP" => fss.handle = -1 /\ ns.state = "NET_CLOSED"

(* The files that fs_open_riff may open and leave behind.                  *)
Leaks(name) ==
  Disk[name].kind \in {"bad_riff"} \cup (IF ReadFaults THEN {"riff"} ELSE {})

(***************************************************************************)
(* The open handles of fs.c and the open FILEs of the host match one to    *)
(* one, and the handle being played is one of them: no two readers share a *)
(* position.  A file that is not being played has been closed on both      *)
(* sides, unless it is a Wave file whose header was not the one of a PCM   *)
(* file or could not be read: those are the only ones that use up handles, *)
(* and without read errors the broken ones alone do.                       *)
(***************************************************************************)
HandlesMatch ==
  LET Open == {h \in Handles : fss.handles[h].source = "FSO_HOST"}
      Files == {k \in Handles : fss.hfs[k].name # NULL}
  IN  /\ {fss.handles[h].handle : h \in Open} = Files
      /\ \A h, g \in Open : h # g => fss.handles[h].handle # fss.handles[g].handle
      /\ fss.handle # -1 => fss.handle \in Open
      /\ \A h \in Open : h = fss.handle \/ Leaks(fss.hfs[fss.handles[h].handle].name)

(***************************************************************************)
(* Neither ring holds more buffers than it has, so the free counts shown   *)
(* by the io command are right.  The decoder looks at the free space once  *)
(* and then pushes all the frames of an input buffer: the output ring is   *)
(* safe as long as no input buffer of this play held more frames than the  *)
(* ring has buffers.  The input ring is safe whatever it holds.            *)
(***************************************************************************)
RingsNotOverfull ==
  /\ io_used(i) + io_free(i) = MAX_INPUT_BUFFERS
  /\ flooded \/ io_used(o) + io_free(o) = MAX_OUTPUT_BUFFERS

(***************************************************************************)
(* The event queue, whose full test is one too lenient, never holds more   *)
(* than a line and the event it causes: nothing is pushed while a line     *)
(* waits, because the console is locked until the line has been run.       *)
(***************************************************************************)
EventsFit ==
  /\ ev.head - ev.tail \in 0 .. 1
  /\ con.lock <=> event_front(ev).type = "E_CON_INPUT"

(***************************************************************************)
(* What the sound device gets is frames of the source played last: none of *)
(* an earlier source survives a play command in either ring.  And it gets  *)
(* them in the order they were decoded, none missing, none twice, as long  *)
(* as no input buffer of this play held more frames than the output ring   *)
(* has buffers.                                                            *)
(***************************************************************************)
HeardInOrder ==
  [][heard' # heard =>
       /\ heard'.play = plays
       /\ \/ flooded
          \/ heard'.serial = IF heard.play = plays THEN heard.serial + 1 ELSE 1]_vars

(***************************************************************************)
(* While the player is stopped the polling functions move no data: the     *)
(* rings stay as they are and the device gets nothing, until a play event. *)
(***************************************************************************)
QuietWhenStopped ==
  [][pl.state = "PL_STOP" /\ pl'.state = "PL_STOP" /\ plays' = plays
       => UNCHANGED <<i, o, heard>>]_vars

-----------------------------------------------------------------------------
(***************************************************************************)
(* The inductive invariant behind the safety properties above, in parts.   *)
(***************************************************************************)

(* The queue is empty when the console is polled and after event_loop; in  *)
(* between it holds a line at most.                                        *)
QueueInv ==
  /\ EventsFit
  /\ con.lock => con.input \in Commands
  /\ pc \in {"con_poll", "pl_poll", "done", "exited"} => ev.head = ev.tail
  /\ pc # "event_loop" /\ ev.head # ev.tail => con.lock
  /\ ev.head # ev.tail => event_front(ev).type # "E_NONE"

(* A stopped player has no source, and a decoder that could still decode   *)
(* finds nothing to; there is a file or a connection, never both.          *)
SourceInv ==
  /\ StoppedReleasesSource /\ SourceOpen
  /\ pl.state = "PL_STOP" /\ ls.state = "LM_INIT" => i.head = i.tail
  /\ pl.state # "PL_STOP" => ls.state \in {"LM_INIT", "LM_ERROR"}
  /\ fss.handle # -1 => ns.state = "NET_CLOSED"
  /\ fss.state = "FSS_OPEN" <=> fss.handle # -1

RingInv(r) == r.tail <= r.head /\ r.head - r.tail <= r.max_buffers

(* Frames are decoded from data of this play.                              *)
DecoderInv ==
  pc = "mad_decode" =>
    /\ pl.state # "PL_STOP" /\ ls.state = "LM_INIT" /\ ls.play = plays /\ i.head > 0

(* While frames are decoded the output ring holds no more than them.       *)
BurstInv == pc = "mad_decode" => o.head - o.tail <= burst

PlayedFile == fss.hfs[fss.handles[fss.handle].handle]

ReadsWave == fss.handle # -1 /\ fss.type = "FST_RIFF"

(* Has the decoder got data of this play, or may it still get some?        *)
MayDecode ==
  i.head > 0 \/ (fss.handle # -1 /\ fss.type # "FST_RIFF") \/ ns.state = "NET_OPEN"

(* The buffers in a ring, by the value its head had when they were pushed. *)
InRing(r) == r.tail .. r.head - 1
At(r, k) == r.slot[k % r.max_buffers]

(* Nothing that the sound device would take is left or will come.          *)
Mute ==
  /\ ~MayDecode
  /\ ReadsWave => fss.fmt = 0
  /\ \A k \in InRing(o) : At(o, k).fmt = 0

(* Nothing of an earlier play is left in the rings; the full test of       *)
(* io_push, one too lenient, lets the output ring grow by one at most.     *)
CurrentInv ==
  /\ heard.play <= plays
  /\ \A k \in InRing(i) : At(i, k).used # 0 => At(i, k).play = plays
  /\ \A s \in 0 .. MAX_OUTPUT_BUFFERS - 1 : o.slot[s].fmt # 0 => o.slot[s].play = plays
  /\ o.tail <= o.head /\ o.head - o.tail <= o.max_buffers + 1

(* Serial numbers follow the head of the output ring, whether the file's   *)
(* position or the decoder's count makes them, and what was heard follows  *)
(* its tail; buffers without a format come last.                           *)
OrderInv ==
  /\ \A k \in InRing(o) : At(o, k).fmt # 0 => At(o, k).serial = k + 1
  /\ \A j, k \in InRing(o) : j < k /\ At(o, j).fmt = 0 => At(o, k).fmt = 0
  /\ MayDecode => ls.Frames = o.head /\ \A k \in InRing(o) : At(o, k).fmt # 0
  /\ ReadsWave => /\ i.head = 0 /\ PlayedFile.pos = o.head
                  /\ \A k \in InRing(o) : At(o, k).fmt = fss.fmt
  /\ \/ ss.state = "SS_ERROR" \/ Mute
     \/ o.tail = IF heard.play = plays THEN heard.serial ELSE 0

(* The output ring, unless an input buffer of this play has held more      *)
(* frames than the ring has buffers.                                       *)
OutputInv == flooded \/ (RingInv(o) /\ BurstInv /\ OrderInv)

(***************************************************************************)
(* The files match the handles, the queue, the source and the decoder are  *)
(* as above, the input ring is never overfull, and the buffers in the      *)
(* rings are those of the current play.  Unless an input buffer has held   *)
(* more frames than the output ring has buffers, that ring is not overfull *)
(* either and its buffers are in their order.                              *)
(***************************************************************************)
PlaybackInv ==
  /\ TypeOK /\ HandlesMatch /\ QueueInv /\ SourceInv
  /\ RingInv(i) /\ DecoderInv /\ CurrentInv /\ OutputInv

-----------------------------------------------------------------------------
(***************************************************************************)
(* An MP3 file that is played comes to its end, whatever its length and    *)
(* whatever the decoder makes of it.                                       *)
(***************************************************************************)
Mp3Ends ==
  (Active(Prog) /\ pl.source_type = "PS_FILE" /\ fss.type = "FST_MP3")
    ~> (pl.state = "PL_STOP" \/ pc = "exited" \/ fss.type # "FST_MP3"
        \/ pl.source_type # "PS_FILE")

(***************************************************************************)
(* A line that was accepted is run and the console opens again: the lock   *)
(* is never held for ever.                                                 *)
(***************************************************************************)
ConsoleReopens == con.lock ~> ~con.lock

(***************************************************************************)
(* A Wave file that is played is heard, as the README says of play.        *)
(***************************************************************************)
WaveHeard ==
  (Active(Prog) /\ fss.state = "FSS_OPEN" /\ fss.type = "FST_RIFF")
    ~> (heard.play = plays)
=============================================================================
