--------------------------- MODULE PlaybackSteps ----------------------------
(***************************************************************************)
(* The steps of Playback's console, events, player, decoder and network    *)
(* preserve its invariant.  Lemmas for PlaybackProofs.                     *)
(***************************************************************************)
EXTENDS PlayerProofs

-----------------------------------------------------------------------------
(* Each action preserves the invariant.                                    *)

LEMMA ConPoll ==
  ASSUME PlaybackInv, con_poll
  PROVE  PlaybackInv'
<1> USE DEF PlaybackInv
<1>1. UNCHANGED <<prog, quit, burst, flooded, plays, heard>> /\ pc = "con_poll" /\ pc' = "fs_poll"
  BY DEF con_poll
<1>2. ev.head = ev.tail /\ QueueType(ev)
  BY <1>1, Types DEF QueueInv
<1>3. /\ QueueType(ev') /\ con' \in ConType /\ typed' \in Nat
      /\ QueueInv'
  <2>1. CASE UNCHANGED <<con, ev, typed>>
    <3>1. QueueInv'
      BY <1>1, <2>1, SameQueue
    <3> QED
      BY <2>1, <3>1, Types
  <2>2. CASE /\ \E line \in Commands : con' = [lock |-> TRUE, input |-> line]
             /\ ev' = event_push(ev, "E_CON_INPUT", "NULL")
             /\ typed' = typed + 1
    <3>1. con' \in ConType /\ con'.lock = TRUE /\ con'.input \in Commands
      BY <2>2 DEF ConType
    <3>2. /\ QueueType(ev') /\ ev'.head - ev'.tail = 1 /\ ev'.head # ev'.tail
          /\ event_front(ev').type = "E_CON_INPUT"
      <4>1. "E_CON_INPUT" \in EventType
        BY DEF EventType
      <4> QED
        BY <1>2, <2>2, <4>1, QueuePush
    <3>3. QueueInv'
      BY <1>1, <3>1, <3>2 DEF QueueInv, EventsFit
    <3>4. typed' \in Nat
      BY <2>2, Types
    <3> QED
      BY <3>1, <3>2, <3>3, <3>4
  <2> QED
    BY <2>1, <2>2 DEF con_poll
<1>4. TypeOK'
  <2>1. pc' \in Calls
    BY <1>1 DEF Calls
  <2> QED
    BY <1>1, <1>3, <2>1, Types, TypesNext DEF prog
<1>5. HandlesMatch' /\ RingInv(i)'
  BY <1>1, SameFiles, SameInput DEF prog
<1>6. SourceInv'
  BY <1>1, SameSource DEF prog
<1>7. DecoderInv'
  BY <1>1 DEF DecoderInv
<1>8. CurrentInv' /\ OutputInv'
  BY <1>1, SameOrder DEF prog
<1> QED
  BY <1>3, <1>4, <1>5, <1>6, <1>7, <1>8

LEMMA EventInput ==
  ASSUME PlaybackInv, event_input
  PROVE  PlaybackInv'
<1> USE DEF PlaybackInv
<1>1. /\ pc = "event_loop" /\ event_front(ev).type = "E_CON_INPUT"
      /\ ev' = cmd_pl(event_pop(ev), con.input)
      /\ quit' = (quit \/ con.input[1] = "exit")
      /\ con' = [lock |-> FALSE, input |-> NoLine]
      /\ UNCHANGED <<prog, pc, burst, flooded, plays, typed, heard>>
  BY DEF event_input
<1>2. QueueType(ev) /\ ev.head - ev.tail = 1
  <2>1. QueueType(ev) /\ ev.head - ev.tail \in 0 .. 1
    BY Types DEF QueueInv, EventsFit
  <2>2. ev.head # ev.tail
    BY <1>1, <2>1, QueueEmpty
  <2> QED
    BY <2>1, <2>2 DEF QueueType
<1>3. QueueType(event_pop(ev)) /\ event_pop(ev).head = event_pop(ev).tail
  BY <1>2, QueuePop
<1>4. /\ QueueType(ev') /\ ev'.head - ev'.tail \in 0 .. 1
      /\ event_front(ev').type # "E_CON_INPUT"
      /\ ev'.head # ev'.tail => event_front(ev').type # "E_NONE"
  <2>1. "E_PL_PLAY" \in EventType /\ "E_PL_STOP" \in EventType
    BY DEF EventType
  <2> DEFINE q == event_pop(ev)
  <2> HIDE DEF q
  <2>2. CASE con.input[1] = "play"
    <3>1. ev' = event_push(q, "E_PL_PLAY", con.input[2])
      BY <1>1, <2>2 DEF cmd_pl, q
    <3> QED
      BY <1>3, <2>1, <3>1, QueuePush DEF q
  <2>3. CASE con.input[1] = "stop"
    <3>1. ev' = event_push(q, "E_PL_STOP", "NULL")
      BY <1>1, <2>3 DEF cmd_pl, q
    <3> QED
      BY <1>3, <2>1, <3>1, QueuePush DEF q
  <2>4. CASE con.input[1] # "play" /\ con.input[1] # "stop"
    <3>1. ev' = q
      BY <1>1, <2>4 DEF cmd_pl, q
    <3> QED
      BY <1>3, <3>1, QueueEmpty DEF q
  <2> QED
    BY <2>2, <2>3, <2>4
<1>5. QueueInv'
  <2>1. con'.lock = FALSE
    BY <1>1
  <2> QED
    BY <1>1, <1>4, <2>1 DEF QueueInv, EventsFit
<1>6. TypeOK'
  <2>1. quit' \in BOOLEAN /\ con' \in ConType
    BY <1>1 DEF ConType
  <2> QED
    BY <1>1, <1>4, <2>1, Types, TypesNext DEF prog
<1>7. HandlesMatch' /\ RingInv(i)'
  BY <1>1, SameFiles, SameInput DEF prog
<1>8. SourceInv'
  BY <1>1, SameSource DEF prog
<1>9. DecoderInv'
  BY <1>1 DEF DecoderInv
<1>10. CurrentInv' /\ OutputInv'
  BY <1>1, SameOrder DEF prog
<1> QED
  BY <1>5, <1>6, <1>7, <1>8, <1>9, <1>10

LEMMA EventNone ==
  ASSUME PlaybackInv, event_none
  PROVE  PlaybackInv'
<1> USE DEF PlaybackInv
<1>1. /\ pc = "event_loop" /\ event_front(ev).type = "E_NONE" /\ pc' = "pl_poll"
      /\ UNCHANGED <<prog, ev, con, quit, burst, flooded, plays, typed, heard>>
  BY DEF event_none
<1>2. ev.head = ev.tail
  BY <1>1 DEF QueueInv
<1>3. QueueInv'
  BY <1>1, <1>2, SameQueue
<1>4. TypeOK'
  <2>1. pc' \in Calls
    BY <1>1 DEF Calls
  <2> QED
    BY <1>1, <2>1, Types, TypesNext DEF prog
<1>5. HandlesMatch' /\ RingInv(i)'
  BY <1>1, SameFiles, SameInput DEF prog
<1>6. SourceInv'
  BY <1>1, SameSource DEF prog
<1>7. DecoderInv'
  BY <1>1 DEF DecoderInv
<1>8. CurrentInv' /\ OutputInv'
  BY <1>1, SameOrder DEF prog
<1> QED
  BY <1>3, <1>4, <1>5, <1>6, <1>7, <1>8

LEMMA MadBuflen ==
  ASSUME PlaybackInv, mad_buflen
  PROVE  PlaybackInv'
<1> USE DEF PlaybackInv
<1>1. /\ pc = "mad_decode" /\ pc' = "snd_loop"
      /\ UNCHANGED <<prog, ev, con, quit, burst, flooded, plays, typed, heard>>
  BY DEF mad_buflen
<1>2. QueueInv'
  BY <1>1, SameQueue
<1>3. TypeOK'
  <2>1. pc' \in Calls
    BY <1>1 DEF Calls
  <2> QED
    BY <1>1, <2>1, Types, TypesNext DEF prog
<1>4. HandlesMatch' /\ RingInv(i)'
  BY <1>1, SameFiles, SameInput DEF prog
<1>5. SourceInv'
  BY <1>1, SameSource DEF prog
<1>6. DecoderInv'
  BY <1>1 DEF DecoderInv
<1>7. CurrentInv' /\ OutputInv'
  BY <1>1, SameOrder DEF prog
<1> QED
  BY <1>2, <1>3, <1>4, <1>5, <1>6, <1>7

(* An error of the decoder leaves its count of frames alone.               *)
LEMMA ErrorFields ==
  ASSUME ls \in LsType, ls.state = "LM_INIT"
  PROVE  LET m == libmad_error(ls)
         IN  /\ m \in LsType /\ m.Frames = ls.Frames /\ m.play = ls.play
             /\ m.state \in {"LM_INIT", "LM_ERROR"}
<1> DEFINE s == IF ls.err_count + 1 > MAX_LIBMAD_ERRORS THEN "LM_ERROR" ELSE ls.state
           n == ls.err_count + 1
           m == libmad_error(ls)
<1>1. m = [ls EXCEPT !.err_count = n, !.state = s]
  BY DEF libmad_error
<1>2. s \in {"LM_INIT", "LM_ERROR"} /\ n \in Nat
  BY DEF LsType
<1> HIDE DEF s, n, m
<1> QED
  BY <1>1, <1>2, Zenon DEF LsType, m

LEMMA MadBadFrame ==
  ASSUME PlaybackInv, mad_bad_frame
  PROVE  PlaybackInv'
<1> USE DEF PlaybackInv
<1>1. /\ pc = "mad_decode" /\ ls' = libmad_error(ls)
      /\ pc' = IF ls'.state = "LM_INIT" THEN pc ELSE "snd_loop"
      /\ UNCHANGED <<pl, fss, ns, ss, i, o, ev, con, quit, burst, flooded, plays, typed, heard>>
  BY DEF mad_bad_frame
<1>2. /\ pl.state # "PL_STOP" /\ ls.state = "LM_INIT" /\ ls.play = plays
      /\ i.head > 0
  BY <1>1 DEF DecoderInv
<1>3. /\ ls' \in LsType /\ ls'.Frames = ls.Frames /\ ls'.play = ls.play
      /\ ls'.state \in {"LM_INIT", "LM_ERROR"}
  BY <1>1, <1>2, ErrorFields, Types
<1>4. QueueInv'
  BY <1>1, SameQueue
<1>5. TypeOK'
  <2>1. pc' \in Calls
    BY <1>1 DEF Calls
  <2> QED
    BY <1>1, <1>3, <2>1, Types, TypesNext
<1>6. HandlesMatch' /\ RingInv(i)'
  BY <1>1, SameFiles, SameInput, Zenon
<1>7. SourceInv'
  BY <1>1, <1>2, <1>3, Zenon DEF SourceInv, StoppedReleasesSource, SourceOpen
<1>8. DecoderInv'
  BY <1>1, <1>2, <1>3, Zenon DEF DecoderInv
<1>9. CurrentInv' /\ OutputInv'
  BY <1>1, <1>3, SameOrder, Zenon
<1> QED
  BY <1>4, <1>5, <1>6, <1>7, <1>8, <1>9

LEMMA SndIdle ==
  ASSUME PlaybackInv, snd_idle
  PROVE  PlaybackInv'
<1> USE DEF PlaybackInv
<1>1. /\ pc = "snd_loop" /\ pc' = "event_loop"
      /\ ss' = IF ss.state = "SS_PLAYING" /\ io_used(o) = 0
               THEN [ss EXCEPT !.state = "SS_PAUSE"] ELSE ss
      /\ UNCHANGED <<pl, fss, ns, ls, i, o, ev, con, quit, burst, flooded, plays, typed, heard>>
  BY DEF snd_idle
<1>2. ss' \in SsType /\ (ss'.state = "SS_ERROR" <=> ss.state = "SS_ERROR")
  BY <1>1, Types DEF SsType
<1>3. QueueInv'
  BY <1>1, SameQueue
<1>4. TypeOK'
  <2>1. pc' \in Calls
    BY <1>1 DEF Calls
  <2> QED
    BY <1>1, <1>2, <2>1, Types, TypesNext, Zenon
<1>5. HandlesMatch' /\ RingInv(i)'
  BY <1>1, SameFiles, SameInput
<1>6. SourceInv'
  BY <1>1, SameSource
<1>7. DecoderInv'
  BY <1>1 DEF DecoderInv
<1>8. CurrentInv' /\ OutputInv'
  BY <1>1, <1>2, SameOrder, Zenon
<1> QED
  BY <1>3, <1>4, <1>5, <1>6, <1>7, <1>8

(* pl_stop: what remains in the rings stays as it was.                     *)
LEMMA StopsKeep ==
  ASSUME PlaybackInv, Stops, UNCHANGED <<flooded, plays, heard>>, pc' # "mad_decode"
  PROVE  /\ pl' \in PlType /\ ns' \in NsType /\ ls' \in LsType /\ fss' \in FsType
         /\ HandlesMatch' /\ RingInv(i)' /\ SourceInv'
         /\ CurrentInv' /\ OutputInv'
<1> USE DEF PlaybackInv
<1>1. pl' \in PlType /\ pl'.state = "PL_STOP"
  BY Types DEF Stops, PlType
<1>2. ns' \in NsType /\ ns'.state = "NET_CLOSED"
  BY Types DEF Stops, NsType, host_net_close
<1>3. ls' \in LsType /\ ls'.Frames = ls.Frames /\ ls'.state = "LM_DONE"
  <2>1. ls.state \in {"LM_INIT", "LM_ERROR"}
    BY DEF SourceInv, Stops, IsActive
  <2> QED
    BY <2>1, Types DEF Stops, LsType, libmad_done
<1>4. FsInv(fss') /\ fss'.handle = -1
  BY FilesNow, StopFile DEF Stops
<1>5. fss' \in FsType /\ HandlesMatch' /\ (fss'.state = "FSS_OPEN" <=> fss'.handle # -1)
  BY <1>4, FilesNext
<1>6. RingInv(i)'
  BY Zenon DEF Stops, RingInv
<1>7. SourceInv'
  BY <1>1, <1>2, <1>3, <1>4, <1>5, Zenon DEF SourceInv, StoppedReleasesSource, SourceOpen
<1>8. CurrentInv' /\ OutputInv'
  BY <1>2, <1>3, <1>4, EndedOrder DEF Stops
<1> QED
  BY <1>1, <1>2, <1>3, <1>5, <1>6, <1>7, <1>8

(* The queue after an event of event_loop that pushes nothing.             *)
LEMMA PopQueue ==
  ASSUME QueueType(ev), QueueInv, pc = "event_loop", pc' = pc, UNCHANGED con,
         event_front(ev).type \notin {"E_CON_INPUT", "E_NONE"}, ev' = event_pop(ev)
  PROVE  QueueType(ev') /\ QueueInv'
<1>1. ev.head - ev.tail \in 0 .. 1 /\ ~con.lock
  BY DEF QueueInv, EventsFit
<1>2. ev.head # ev.tail
  BY QueueEmpty
<1>3. ev.head - ev.tail = 1
  BY <1>1, <1>2 DEF QueueType
<1>4. QueueType(ev') /\ ev'.head = ev'.tail
  BY <1>3, QueuePop
<1>5. event_front(ev').type = "E_NONE" /\ ev'.head - ev'.tail = 0
  BY <1>4, QueueEmpty
<1> QED
  BY <1>1, <1>4, <1>5 DEF QueueInv, EventsFit

LEMMA EventStop ==
  ASSUME PlaybackInv, event_stop
  PROVE  PlaybackInv'
<1> USE DEF PlaybackInv
<1>1. /\ pc = "event_loop" /\ event_front(ev).type = "E_PL_STOP"
      /\ ev' = event_pop(ev)
      /\ UNCHANGED <<con, quit, pc, burst, flooded, plays, typed, heard>>
  BY DEF event_stop
<1>2. Stops \/ UNCHANGED prog
  BY StopStep DEF event_stop
<1>3. QueueType(ev') /\ QueueInv'
  <2>1. QueueType(ev)
    BY Types
  <2> QED
    BY <1>1, <2>1, PopQueue
<1>4. DecoderInv'
  BY <1>1 DEF DecoderInv
<1>5. CASE Stops
  <2>1. /\ pl' \in PlType /\ ns' \in NsType /\ ls' \in LsType /\ fss' \in FsType
        /\ HandlesMatch' /\ RingInv(i)' /\ SourceInv'
        /\ CurrentInv' /\ OutputInv'
    BY <1>1, <1>5, StopsKeep
  <2>2. TypeOK'
    BY <1>1, <1>3, <1>5, <2>1, Types, TypesNext DEF Stops
  <2> QED
    BY <1>3, <1>4, <2>1, <2>2
<1>6. CASE UNCHANGED prog
  <2>1. TypeOK'
    BY <1>1, <1>3, <1>6, Types, TypesNext DEF prog
  <2>2. HandlesMatch' /\ RingInv(i)'
    BY <1>6, SameFiles, SameInput DEF prog
  <2>3. SourceInv'
    BY <1>1, <1>6, SameSource DEF prog
  <2>4. CurrentInv' /\ OutputInv'
    BY <1>1, <1>6, SameOrder DEF prog
  <2> QED
    BY <1>3, <1>4, <2>1, <2>2, <2>3, <2>4
<1> QED
  BY <1>2, <1>5, <1>6

LEMMA Shutdown ==
  ASSUME PlaybackInv, shutdown
  PROVE  PlaybackInv'
<1> USE DEF PlaybackInv
<1>1. /\ pc = "done" /\ pc' = "exited" /\ ns' = host_net_close(ns) /\ fss' = fs_stop(fss)
      /\ UNCHANGED <<pl, ls, ss, i, o, ev, con, quit, burst, flooded, plays, typed, heard>>
  BY DEF shutdown
<1>2. ns' \in NsType /\ ns'.state = "NET_CLOSED"
  BY <1>1, Types DEF NsType, host_net_close
<1>3. FsInv(fss') /\ fss'.handle = -1
  BY <1>1, FilesNow, StopFile
<1>4. fss' \in FsType /\ HandlesMatch' /\ (fss'.state = "FSS_OPEN" <=> fss'.handle # -1)
  BY <1>3, FilesNext
<1>5. QueueInv'
  BY <1>1, SameQueue DEF QueueInv
<1>6. TypeOK'
  <2>1. pc' \in Calls
    BY <1>1 DEF Calls
  <2> QED
    BY <1>1, <1>2, <1>4, <2>1, Types, TypesNext
<1>7. RingInv(i)'
  BY <1>1, Zenon DEF RingInv
<1>8. SourceInv'
  BY <1>1, <1>2, <1>3, <1>4 DEF SourceInv, StoppedReleasesSource, SourceOpen
<1>9. DecoderInv'
  BY <1>1 DEF DecoderInv
<1>10. CurrentInv' /\ OutputInv'
  BY <1>1, <1>2, <1>3, EndedOrder
<1> QED
  BY <1>4, <1>5, <1>6, <1>7, <1>8, <1>9, <1>10

LEMMA PollPlayer ==
  ASSUME PlaybackInv, poll_player
  PROVE  PlaybackInv'
<1> USE DEF PlaybackInv
<1>1. /\ pc = "pl_poll" /\ pc' \in {"done", "con_poll"}
      /\ UNCHANGED <<ev, con, quit, burst, flooded, plays, typed, heard>>
  BY Zenon DEF poll_player
<1>2. QueueInv'
  BY <1>1, SameQueue DEF QueueInv
<1>3. DecoderInv'
  BY <1>1 DEF DecoderInv
<1>4. pc' \in Calls
  BY <1>1 DEF Calls
<1>5. CASE Stops
  <2>1. /\ pl' \in PlType /\ ns' \in NsType /\ ls' \in LsType /\ fss' \in FsType
        /\ HandlesMatch' /\ RingInv(i)' /\ SourceInv'
        /\ CurrentInv' /\ OutputInv'
    BY <1>1, <1>5, StopsKeep
  <2>2. TypeOK'
    BY <1>1, <1>4, <1>5, <2>1, Types, TypesNext DEF Stops
  <2> QED
    BY <1>2, <1>3, <2>1, <2>2
<1>6. CASE pl.state = "PL_STOP" /\ UNCHANGED prog
  <2>1. TypeOK'
    BY <1>1, <1>4, <1>6, Types, TypesNext DEF prog
  <2>2. HandlesMatch' /\ RingInv(i)'
    BY <1>6, SameFiles, SameInput, Zenon DEF prog
  <2>3. SourceInv'
    BY <1>6 DEF prog, SourceInv, StoppedReleasesSource, SourceOpen
  <2>4. CurrentInv' /\ OutputInv'
    BY <1>1, <1>6, SameOrder, Zenon DEF prog
  <2> QED
    BY <1>2, <1>3, <2>1, <2>2, <2>3, <2>4, Zenon
<1>7. CASE /\ IsActive(pl.state)
           /\ pl'.source_type = pl.source_type /\ IsActive(pl'.state)
           /\ pl' = [state |-> pl'.state, source_type |-> pl'.source_type]
           /\ UNCHANGED <<fss, ns, ls, ss, i, o>>
           /\ ns.state # "NET_ERROR" /\ ss.state # "SS_ERROR" /\ ls.state # "LM_ERROR"
           /\ pl.source_type = "PS_FILE" => fss.state # "FSS_CLOSED"
           /\ pl.source_type = "PS_NET" => ns.state # "NET_CLOSED"
  <2>1. pl' \in PlType
    BY <1>7, Types DEF PlType, IsActive
  <2>2. TypeOK'
    BY <1>1, <1>4, <1>7, <2>1, Types, TypesNext
  <2>3. HandlesMatch' /\ RingInv(i)'
    BY <1>7, SameFiles, SameInput
  <2>4. pl.state # "PL_STOP" /\ pl'.state # "PL_STOP"
    BY <1>7, Zenon DEF IsActive
  <2>5. SourceOpen'
    <3>1. ls.state = "LM_INIT" /\ ss.state # "SS_ERROR"
      BY <1>7, <2>4, Zenon DEF SourceInv
    <3>2. ASSUME pl.source_type = "PS_FILE"
          PROVE  /\ fss.state = "FSS_OPEN" /\ fss.handle \in Handles
                 /\ fss.handles[fss.handle].source = "FSO_HOST"
                 /\ fss.hfs[fss.handles[fss.handle].handle].name # NULL
      <4>1. fss \in FsType
        BY Types
      <4>2. fss.state = "FSS_OPEN" /\ fss.handle # -1
        BY <1>7, <3>2, <4>1 DEF SourceInv, FsType
      <4>3. fss.handle \in Handles
        BY <4>1, <4>2 DEF FsType
      <4> QED
        BY <4>2, <4>3, FilesNow DEF FsInv, Paired, IsOpen, FileOf
    <3>3. pl.source_type = "PS_NET" => ns.state = "NET_OPEN"
      BY <1>7, Types DEF NsType
    <3> QED
      BY <1>7, <3>1, <3>2, <3>3 DEF SourceOpen
  <2>6. SourceInv'
    BY <1>7, <2>4, <2>5 DEF SourceInv, StoppedReleasesSource
  <2>7. CurrentInv' /\ OutputInv'
    BY <1>1, <1>7, SameOrder
  <2> QED
    BY <1>2, <1>3, <2>2, <2>3, <2>6, <2>7
<1>8. pl \in [state : {"PL_STOP", "PL_PLAYING", "PL_BUFFERING"},
              source_type : {"PS_UNKNOWN", "PS_NET", "PS_FILE"}]
  BY DEF TypeOK
<1>9. Becomes(pl_poll(Prog))
  BY DEF poll_player
<1> QED
  BY <1>5, <1>6, <1>7, <1>8, <1>9, PollStep

-----------------------------------------------------------------------------
(* The decoder.                                                            *)

(* The decoder starts only when it has data and a player that is on.       *)
LEMMA ReadyMeansData ==
  ASSUME PlaybackInv, libmad_ready(ls, pl.state, i, o)
  PROVE  /\ ls.state = "LM_INIT" /\ pl.state # "PL_STOP"
         /\ i.head # i.tail /\ i.head > 0
<1> USE DEF PlaybackInv
<1>1. i \in Ring(4, InputBuffer)
  BY Types
<1>2. io_used(i) = i.head - i.tail /\ i.head \in Nat /\ i.tail \in Nat
  BY <1>1, RingCounts DEF Ring
<1>3. ls.state = "LM_INIT" /\ i.head # i.tail /\ i.head > 0
  BY <1>2 DEF libmad_ready, RingInv
<1>4. pl.state # "PL_STOP"
  BY <1>3 DEF SourceInv
<1> QED
  BY <1>3, <1>4

(* The decoder starts only when the whole output ring is free.             *)
LEMMA ReadyMeansFree ==
  ASSUME o \in Ring(4, OutputBuffer), RingInv(o), libmad_ready(ls, pl.state, i, o)
  PROVE  o.head = o.tail
<1>3. /\ io_free(o) = 4 - (o.head - o.tail) /\ io_free(o) \in 0 .. 4
      /\ o.head \in Nat /\ o.tail \in Nat
  BY RingCounts DEF Ring
<1>4. ASSUME NEW n \in 0 .. 4, ~((n * 4608) % 65536 < 16640)
      PROVE  n = 4
  BY <1>4, SMT
<1>6. io_free(o) = 4
  BY <1>3, <1>4 DEF libmad_ready, o_free_size, Uint16, IO_OUTPUT_BUFFER_SIZE, DECOMPRESS_SIZE,
                    LIBMAD_BUFFER_SIZE
<1> QED
  BY <1>3, <1>6

(* Taking a buffer out of the input ring.                                  *)
LEMMA PopInputOrder ==
  ASSUME OrderInv, i \in Ring(4, InputBuffer), RingInv(i), i.head # i.tail, i' = io_pop(i),
         UNCHANGED <<o, fss, ns, plays, heard, ss>>, ls'.Frames = ls.Frames
  PROVE  OrderInv'
<1>1. /\ i'.head = i.head
      /\ \A k \in InRing(i') : k \in InRing(i) /\ k > i.tail /\ At(i', k) = At(i, k)
  BY RingPop
<1>2. (MayDecode' <=> MayDecode) /\ (ReadsWave' <=> ReadsWave) /\ PlayedFile' = PlayedFile
  BY <1>1 DEF MayDecode, ReadsWave, PlayedFile
<1>3. Mute => Mute'
  BY <1>2 DEF Mute, InRing, At
<1>5. InRing(o)' = InRing(o) /\ \A k : At(o', k) = At(o, k)
  BY DEF InRing, At
<1> QED
  BY <1>1, <1>2, <1>3, <1>5, Zenon DEF OrderInv

LEMMA PopInputCurrent ==
  ASSUME CurrentInv, i \in Ring(4, InputBuffer), RingInv(i), i.head # i.tail, i' = io_pop(i),
         UNCHANGED <<o, plays, heard>>
  PROVE  CurrentInv'
<1>1. \A k \in InRing(i') : k \in InRing(i) /\ At(i', k) = At(i, k)
  BY RingPop, Zenon
<1>2. /\ Loose(o) /\ heard.play <= plays
      /\ \A s \in 0 .. 3 : o.slot[s].fmt # 0 => o.slot[s].play = plays
      /\ \A k \in InRing(i) : At(i, k).used # 0 => At(i, k).play = plays
  BY CurrentSlots
<1>3. \A k \in InRing(i') : At(i', k).used # 0 => At(i', k).play = plays
  BY <1>1, <1>2, Zenon
<1>4. o' = o /\ plays' = plays /\ heard' = heard
  OBVIOUS
<1> QED
  BY <1>2, <1>3, <1>4, CurrentNext, Zenon

LEMMA RingInvNext == RingInv(i') => RingInv(i)'
  BY Zenon DEF RingInv

(* The decoder takes a buffer.                                             *)
LEMMA PopInputSource ==
  ASSUME SourceInv, pl.state # "PL_STOP", ls'.state \in {"LM_INIT", "LM_ERROR"},
         pc' # "con_poll", UNCHANGED <<pl, fss, ns>>
  PROVE  SourceInv'
  BY DEF SourceInv, StoppedReleasesSource, SourceOpen

LEMMA PopInputDecoder ==
  ASSUME pl.state # "PL_STOP", i'.head > 0,
         pc' = "mad_decode" => ls'.state = "LM_INIT" /\ ls'.play = plays,
         UNCHANGED <<pl, plays>>
  PROVE  DecoderInv'
  BY DEF DecoderInv

LEMMA LibmadLoop ==
  ASSUME PlaybackInv, libmad_loop
  PROVE  PlaybackInv'
<1> USE DEF PlaybackInv
<1>1. /\ pc = "libmad_loop" /\ burst' = 0 /\ pc' \in {"snd_loop", "mad_decode"}
      /\ UNCHANGED <<pl, fss, ns, ss, o, ev, con, quit, flooded, plays, typed, heard>>
  BY DEF libmad_loop
<1>2. QueueInv'
  BY <1>1, SameQueue
<1>3. pc' \in Calls
  BY <1>1 DEF Calls
<1>4. HandlesMatch'
  BY <1>1, SameFiles
<1>5. CASE ~libmad_ready(ls, pl.state, i, o)
  <2>1. UNCHANGED <<ls, i>> /\ pc' = "snd_loop"
    BY <1>5 DEF libmad_loop
  <2>2. TypeOK'
    BY <1>1, <1>3, <2>1, Types, TypesNext
  <2>3. RingInv(i)' /\ DecoderInv'
    BY <2>1 DEF RingInv, DecoderInv
  <2>4. SourceInv'
    BY <1>1, <2>1, SameSource
  <2>5. CurrentInv' /\ OutputInv'
    BY <1>1, <2>1, SameOrder
  <2> QED
    BY <1>2, <1>4, <2>2, <2>3, <2>4, <2>5
<1>6. CASE libmad_ready(ls, pl.state, i, o)
  <2> DEFINE buff == io_front(i)
  <2>1. /\ ls.state = "LM_INIT" /\ pl.state # "PL_STOP"
        /\ i.head # i.tail /\ i.head > 0
    BY <1>6, ReadyMeansData
  <2>2. i' = io_pop(i)
    BY <1>6 DEF libmad_loop
  <2>3. i \in Ring(4, InputBuffer)
    BY Types
  <2>4. /\ i' \in Ring(4, InputBuffer) /\ RingInv(i') /\ i'.head = i.head
        /\ buff = At(i, i.tail) /\ i.tail \in InRing(i) /\ buff \in InputBuffer
    BY <2>1, <2>2, <2>3, RingPop, Zenon
  <2>5. buff.used # 0 => buff.play = plays
    BY <2>4, CurrentSlots
  <2> HIDE DEF buff
  <2>6. \/ ls' = [ls EXCEPT !.state = "LM_ERROR"] /\ pc' = "snd_loop"
        \/ /\ ls' = [ls EXCEPT !.play = IF buff.used = 0 THEN @ ELSE buff.play]
           /\ pc' = IF buff.used = 0 THEN "snd_loop" ELSE "mad_decode"
    BY <1>6 DEF libmad_loop, buff
  <2>7. /\ ls' \in LsType /\ ls'.Frames = ls.Frames
        /\ ls'.state \in {"LM_INIT", "LM_ERROR"}
        /\ pc' = "mad_decode" => ls'.state = "LM_INIT" /\ ls'.play = plays
    <3>1. ls \in LsType /\ buff.play \in Nat
      BY <2>4, Types DEF InputBuffer
    <3>2. CASE ls' = [ls EXCEPT !.state = "LM_ERROR"] /\ pc' = "snd_loop"
      BY <3>1, <3>2 DEF LsType
    <3>3. CASE ls' = [ls EXCEPT !.play = ls.play] /\ pc' = "snd_loop"
      BY <2>1, <3>1, <3>3 DEF LsType
    <3>4. CASE ls' = [ls EXCEPT !.play = buff.play] /\ buff.used # 0
      BY <2>1, <2>5, <3>1, <3>4, Zenon DEF LsType
    <3> QED
      BY <2>6, <3>2, <3>3, <3>4
  <2>8. TypeOK'
    BY <1>1, <1>3, <2>4, <2>7, Types, TypesNext
  <2>9. RingInv(i)'
    BY <2>4, RingInvNext, Zenon
  <2>10. SourceInv'
    BY <1>1, <2>1, <2>7, PopInputSource
  <2>11. DecoderInv'
    <3>1. i'.head > 0
      BY <2>1, <2>4
    <3> QED
      BY <1>1, <2>1, <2>7, <3>1, PopInputDecoder
  <2>12. CurrentInv'
    BY <1>1, <2>1, <2>2, <2>3, PopInputCurrent
  <2>13. OutputInv'
    <3>1. CASE flooded
      BY <1>1, <3>1, OutputNext
    <3>2. CASE RingInv(o) /\ BurstInv /\ OrderInv
      <4>1. o \in Ring(4, OutputBuffer) /\ o.tail \in Nat
        BY Types DEF Ring
      <4>2. o.head = o.tail
        BY <1>6, <3>2, <4>1, ReadyMeansFree
      <4>3. BurstInv'
        BY <1>1, <4>1, <4>2 DEF BurstInv
      <4>4. OrderInv'
        BY <1>1, <2>1, <2>2, <2>3, <2>7, <3>2, PopInputOrder
      <4>5. RingInv(o')
        BY <1>1, <3>2
      <4> QED
        BY <4>3, <4>4, <4>5, OutputNext
    <3> QED
      BY <3>1, <3>2 DEF OutputInv
  <2> QED
    BY <1>2, <1>4, <2>8, <2>9, <2>10, <2>11, <2>12, <2>13, Zenon
<1> QED
  BY <1>5, <1>6

(* A buffer for the sound device pushed behind the others.                 *)
LEMMA PushOutput ==
  ASSUME OrderInv, o \in Ring(4, OutputBuffer), RingInv(o), o.head - o.tail < 4,
         NEW c \in OutputBuffer, o' = io_push(o, c), c.fmt # 0 => c.serial = o.head + 1,
         \/ c.fmt = 0
         \/ \A k \in InRing(o) : At(o, k).fmt # 0
  PROVE  /\ \A k \in InRing(o') : At(o', k).fmt # 0 => At(o', k).serial = k + 1
         /\ \A j, k \in InRing(o') : j < k /\ At(o', j).fmt = 0 => At(o', k).fmt = 0
         /\ o'.head = o.head + 1 /\ o'.tail = o.tail
         /\ \A k \in InRing(o') : \/ k = o.head /\ At(o', k) = c
                                  \/ k \in InRing(o) /\ k < o.head /\ At(o', k) = At(o, k)
<1>1. /\ o'.head = o.head + 1 /\ o'.tail = o.tail
      /\ \A k \in InRing(o') : \/ k = o.head /\ At(o', k) = c
                               \/ k \in InRing(o) /\ k < o.head /\ At(o', k) = At(o, k)
  BY RingPush
<1>3. \A k \in InRing(o') : At(o', k).fmt # 0 => At(o', k).serial = k + 1
  BY <1>1 DEF OrderInv
<1>4. ASSUME NEW j \in InRing(o'), NEW k \in InRing(o'), j < k, At(o', j).fmt = 0
      PROVE  At(o', k).fmt = 0
  <2>1. o.head \in Nat /\ j \in Int /\ k \in Int /\ k < o.head + 1
    BY <1>1, <1>4 DEF Ring, InRing
  <2>2. j \in InRing(o) /\ At(o', j) = At(o, j)
    BY <1>1, <1>4, <2>1
  <2>3. CASE k = o.head /\ At(o', k) = c
    BY <1>4, <2>2, <2>3, Zenon
  <2>4. CASE k \in InRing(o) /\ k < o.head /\ At(o', k) = At(o, k)
    BY <1>4, <2>2, <2>4 DEF OrderInv
  <2> QED
    BY <1>1, <2>3, <2>4
<1> QED
  BY <1>1, <1>3, <1>4

(* The same for all there is in the output ring, overfull or not.          *)
LEMMA PushCurrent ==
  ASSUME CurrentInv, o \in Ring(4, OutputBuffer), NEW c \in OutputBuffer, o' = io_push(o, c),
         UNCHANGED <<i, plays, heard>>, c.fmt # 0 => c.play = plays
  PROVE  o' \in Ring(4, OutputBuffer) /\ CurrentInv'
<1>1. /\ Loose(o) /\ heard.play <= plays
      /\ \A s \in 0 .. 3 : o.slot[s].fmt # 0 => o.slot[s].play = plays
      /\ \A k \in InRing(i) : At(i, k).used # 0 => At(i, k).play = plays
  BY CurrentSlots, Zenon
<1>2. /\ o' \in Ring(4, OutputBuffer) /\ Loose(o')
      /\ \A s \in 0 .. 3 : o'.slot[s] \in {o.slot[s], c}
  BY <1>1, LoosePush, Zenon
<1>3. \A s \in 0 .. 3 : o'.slot[s].fmt # 0 => o'.slot[s].play = plays
  BY <1>1, <1>2
<1>4. i' = i /\ plays' = plays /\ heard' = heard
  OBVIOUS
<1> QED
  BY <1>1, <1>2, <1>3, <1>4, CurrentNext, Zenon

LEMMA MadFrame ==
  ASSUME PlaybackInv, mad_frame
  PROVE  PlaybackInv'
<1> USE DEF PlaybackInv
<1> DEFINE c == [play |-> ls.play, serial |-> ls.Frames + 1, fmt |-> 1]
<1>1. /\ pc = "mad_decode" /\ o' = io_push(o, c)
      /\ ls' = [ls EXCEPT !.Frames = ls.Frames + 1] /\ burst' = burst + 1
      /\ flooded' = (flooded \/ burst' > 4)
      /\ UNCHANGED <<pl, fss, ns, ss, i, ev, con, quit, pc, plays, typed, heard>>
  BY DEF mad_frame, MAX_OUTPUT_BUFFERS
<1>2. /\ pl.state # "PL_STOP" /\ ls.state = "LM_INIT" /\ ls.play = plays
      /\ i.head > 0
  BY <1>1 DEF DecoderInv
<1>3. /\ o \in Ring(4, OutputBuffer) /\ o.head \in Nat /\ o.tail \in Nat /\ burst \in Nat
      /\ ls \in LsType /\ plays \in Nat
  BY Types DEF Ring
<1>4. c \in OutputBuffer /\ c.fmt = 1 /\ c.play = plays /\ c.serial = ls.Frames + 1
  BY <1>2, <1>3 DEF OutputBuffer, LsType
<1>5. /\ ls' \in LsType /\ ls'.Frames = ls.Frames + 1 /\ ls'.state = ls.state
      /\ ls'.play = ls.play
  BY <1>1, <1>3 DEF LsType
<1> HIDE DEF c
<1>6. o' \in Ring(4, OutputBuffer) /\ CurrentInv'
  BY <1>1, <1>3, <1>4, PushCurrent
<1>7. QueueInv'
  BY <1>1, SameQueue
<1>8. TypeOK'
  <2>1. burst' \in Nat /\ flooded' \in BOOLEAN
    BY <1>1, <1>3
  <2> QED
    BY <1>1, <1>5, <1>6, <2>1, Types, TypesNext
<1>9. HandlesMatch' /\ RingInv(i)'
  BY <1>1, SameFiles, SameInput
<1>10. SourceInv'
  BY <1>1, <1>2, <1>5, SameSource
<1>11. DecoderInv'
  BY <1>1, <1>2, <1>5 DEF DecoderInv
<1>12. ASSUME ~flooded' PROVE RingInv(o') /\ BurstInv' /\ OrderInv'
  <2>1. RingInv(o) /\ BurstInv /\ OrderInv /\ burst + 1 <= 4
    <3>1. ~flooded /\ ~(burst' > 4)
      BY <1>1, <1>12, Zenon
    <3>2. RingInv(o) /\ BurstInv /\ OrderInv
      BY <3>1, Zenon DEF OutputInv
    <3>3. burst + 1 <= 4
      BY <1>1, <1>3, <3>1
    <3> QED
      BY <3>2, <3>3
  <2>2. o.head - o.tail <= burst /\ o.head - o.tail < 4
    BY <1>1, <1>3, <2>1 DEF BurstInv
  <2>3. MayDecode /\ ls.Frames = o.head /\ \A k \in InRing(o) : At(o, k).fmt # 0
    BY <1>2, <2>1, Zenon DEF MayDecode, OrderInv
  <2>4. ~ReadsWave /\ ~Mute
    <3>1. i.head # 0
      BY <1>2, Types DEF Ring
    <3> QED
      BY <2>1, <2>3, <3>1 DEF OrderInv, Mute
  <2>5. RingInv(o')
    BY <1>1, <1>3, <1>4, <2>1, <2>2, RingPush
  <2>6. /\ \A k \in InRing(o') : At(o', k).fmt # 0 => At(o', k).serial = k + 1
        /\ \A j, k \in InRing(o') : j < k /\ At(o', j).fmt = 0 => At(o', k).fmt = 0
        /\ o'.head = o.head + 1 /\ o'.tail = o.tail
        /\ \A k \in InRing(o') : \/ k = o.head /\ At(o', k) = c
                                 \/ k \in InRing(o) /\ k < o.head /\ At(o', k) = At(o, k)
    BY <1>1, <1>3, <1>4, <2>1, <2>2, <2>3, PushOutput
  <2>7. BurstInv'
    BY <1>1, <1>3, <2>2, <2>6 DEF BurstInv
  <2>8. ~ReadsWave'
    BY <1>1, <2>4, Zenon DEF ReadsWave
  <2>9. ls'.Frames = o'.head /\ \A k \in InRing(o') : At(o', k).fmt # 0
    BY <1>4, <1>5, <2>3, <2>6
  <2>10. \/ ss'.state = "SS_ERROR"
         \/ o'.tail = IF heard'.play = plays' THEN heard'.serial ELSE 0
    BY <1>1, <2>1, <2>4, <2>6 DEF OrderInv
  <2>11. OrderInv'
    BY <2>6, <2>8, <2>9, <2>10, OrderNext, Zenon
  <2> QED
    BY <2>5, <2>7, <2>11
<1>13. OutputInv'
  BY <1>12, OutputNext
<1> QED
  BY <1>6, <1>7, <1>8, <1>9, <1>10, <1>11, <1>13

-----------------------------------------------------------------------------
(* The network.                                                            *)

(* A buffer of this play pushed behind the others of the input ring.       *)
LEMMA PushInput ==
  ASSUME CurrentInv, i \in Ring(4, InputBuffer), RingInv(i), io_free(i) # 0,
         NEW c \in InputBuffer, i' = io_push(i, c), UNCHANGED plays,
         c.used # 0 => c.play = plays
  PROVE  /\ i' \in Ring(4, InputBuffer) /\ RingInv(i') /\ i'.head > 0
         /\ \A k \in InRing(i') : At(i', k).used # 0 => At(i', k).play = plays'
<1>1. i.head \in Nat /\ i.tail \in Nat /\ i.head - i.tail < 4
  <2>1. i.head \in Nat /\ i.tail \in Nat /\ i.max_buffers = 4
    BY DEF Ring
  <2> QED
    BY <2>1, RingCounts DEF RingInv
<1>2. /\ i' \in Ring(4, InputBuffer) /\ RingInv(i') /\ i'.head = i.head + 1
      /\ At(i', i.head) = c
      /\ \A k \in InRing(i') : \/ k = i.head
                               \/ k \in InRing(i) /\ k < i.head /\ At(i', k) = At(i, k)
  BY <1>1, RingPush
<1>3. \A k \in InRing(i) : At(i, k).used # 0 => At(i, k).play = plays
  BY CurrentSlots, Zenon
<1>4. \A k \in InRing(i') : At(i', k).used # 0 => At(i', k).play = plays'
  BY <1>2, <1>3
<1> QED
  BY <1>1, <1>2, <1>4

(* A source of the decoder gives it more data, or ends.                    *)
LEMMA FedOrder ==
  ASSUME CurrentInv, OutputInv, MayDecode, ~ReadsWave',
         \A k \in InRing(i') : At(i', k).used # 0 => At(i', k).play = plays',
         UNCHANGED <<ls, ss, o, flooded, plays, heard>>, pc' # "mad_decode"
  PROVE  CurrentInv' /\ OutputInv'
<1>1. InRing(o)' = InRing(o) /\ \A k : At(o, k)' = At(o, k)
  BY DEF InRing, At
<1>2. ~Mute
  BY Zenon DEF Mute
<1>3. OrderInv => OrderInv'
  BY <1>1, <1>2 DEF OrderInv
<1>4. BurstInv' /\ (RingInv(o) => RingInv(o'))
  BY DEF BurstInv
<1>5. OutputInv'
  BY <1>3, <1>4, OutputNext DEF OutputInv
<1>6. CurrentInv'
  <2>1. /\ Loose(o) /\ heard.play <= plays
        /\ \A s \in 0 .. 3 : o.slot[s].fmt # 0 => o.slot[s].play = plays
    BY CurrentSlots
  <2>2. o' = o /\ plays' = plays /\ heard' = heard
    OBVIOUS
  <2> QED
    BY <2>1, <2>2, CurrentNext, Zenon
<1> QED
  BY <1>5, <1>6

(* What recv may leave in a buffer's used.                                 *)
Sizes == {0, 1024, 65535}

LEMMA RecvSizes == \A n \in recv : n \in Sizes
<1>1. CASE NetFaults
  BY <1>1, SMT DEF recv, Sizes
<1>2. CASE ~NetFaults
  BY <1>2, SMT, Zenon DEF recv, Sizes
<1> QED
  BY <1>1, <1>2

(* host_net_poll: nothing to do, or a packet and an error perhaps.         *)
LEMMA NetFields ==
  ASSUME ns \in NsType, net_poll
  PROVE  \/ UNCHANGED <<ns, i>>
         \/ /\ ns.state = "NET_OPEN" /\ ~(io_free(i) < 1)
            /\ ns' \in NsType /\ ns'.state # "NET_CLOSED"
            /\ \/ i' = i
               \/ \E received \in Sizes :
                    i' = io_push(i, [play |-> plays, chunk |-> i.head + 1, used |-> received])
<1>1. CASE ns.state # "NET_OPEN" \/ io_free(i) < 1
  BY <1>1 DEF net_poll
<1>2. CASE ns.state = "NET_OPEN" /\ ~(io_free(i) < 1)
  <2> DEFINE Pushed(n) == i' = io_push(i, [play |-> plays, chunk |-> i.head + 1, used |-> n])
             Net(broken) == [ns EXCEPT !.state = IF broken THEN "NET_ERROR" ELSE @]
  <2>1. \E broken \in {FALSE, NetFaults} :
          /\ ns' = Net(broken)
          /\ \/ UNCHANGED i
             \/ \E received \in recv : /\ i.head < MaxPackets
                                       /\ received = 0 => broken
                                       /\ Pushed(received)
    BY <1>2, Zenon DEF net_poll
  <2>2. ASSUME NEW broken PROVE Net(broken) \in NsType /\ Net(broken).state # "NET_CLOSED"
    <3>1. CASE broken
      BY <1>2, <3>1 DEF NsType
    <3>2. CASE ~broken
      BY <1>2, <3>2 DEF NsType
    <3> QED
      BY <3>1, <3>2
  <2> HIDE DEF Pushed, Net
  <2>3. ns' \in NsType /\ ns'.state # "NET_CLOSED"
    BY <2>1, <2>2, Zenon
  <2>4. i' = i \/ \E received \in Sizes : Pushed(received)
    BY <2>1, RecvSizes, Zenon
  <2> QED
    BY <1>2, <2>3, <2>4, Zenon DEF Pushed
<1> QED
  BY <1>1, <1>2

LEMMA NetPoll ==
  ASSUME PlaybackInv, net_poll
  PROVE  PlaybackInv'
<1> USE DEF PlaybackInv
<1>1. /\ pc = "net_poll" /\ pc' = "libmad_loop"
      /\ UNCHANGED <<pl, fss, ls, ss, o, ev, con, quit, burst, flooded, plays, typed, heard>>
  BY Zenon DEF net_poll
<1>2. QueueInv'
  BY <1>1, SameQueue
<1>3. pc' \in Calls /\ DecoderInv'
  BY <1>1 DEF Calls, DecoderInv
<1>4. HandlesMatch'
  BY <1>1, SameFiles
<1>5. CASE UNCHANGED <<ns, i>>
  <2>1. TypeOK'
    BY <1>1, <1>3, <1>5, Types, TypesNext
  <2>2. RingInv(i)'
    BY <1>5 DEF RingInv
  <2>3. SourceInv'
    BY <1>1, <1>5, SameSource
  <2>4. CurrentInv' /\ OutputInv'
    BY <1>1, <1>5, SameOrder
  <2> QED
    BY <1>2, <1>3, <1>4, <2>1, <2>2, <2>3, <2>4, Zenon
<1>6. ASSUME ns.state = "NET_OPEN", ~(io_free(i) < 1), ns' \in NsType,
             ns'.state # "NET_CLOSED",
             \/ i' = i
             \/ \E received \in Sizes :
                  i' = io_push(i, [play |-> plays, chunk |-> i.head + 1, used |-> received])
      PROVE  PlaybackInv'
  <2>1. pl.state # "PL_STOP" /\ fss.handle = -1 /\ MayDecode
    BY <1>6 DEF SourceInv, StoppedReleasesSource, MayDecode
  <2>2. ~ReadsWave'
    BY <1>1, <2>1, Zenon DEF ReadsWave
  <2>3. SourceInv'
    BY <1>1, <2>1 DEF SourceInv, StoppedReleasesSource, SourceOpen
  <2>4. CASE i' = i
    <3>1. TypeOK'
      BY <1>1, <1>3, <1>6, <2>4, Types, TypesNext
    <3>2. RingInv(i)'
      BY <2>4, RingInvNext, Zenon
    <3>3. CurrentInv' /\ OutputInv'
      <4>1. \A k \in InRing(i') : At(i', k).used # 0 => At(i', k).play = plays'
        BY <1>1, <2>4, CurrentSlots
      <4> QED
        BY <1>1, <2>1, <2>2, <4>1, FedOrder, Zenon
    <3> QED
      BY <1>2, <1>3, <1>4, <2>3, <3>1, <3>2, <3>3, Zenon
  <2>5. ASSUME NEW received \in Sizes,
               i' = io_push(i, [play |-> plays, chunk |-> i.head + 1, used |-> received])
        PROVE  PlaybackInv'
    <3> DEFINE c == [play |-> plays, chunk |-> i.head + 1, used |-> received]
    <3>1. i' = io_push(i, c)
      BY <2>5
    <3>2. i \in Ring(4, InputBuffer) /\ plays \in Nat /\ i.head \in Nat
      BY Types DEF Ring
    <3>3. c \in InputBuffer /\ c.play = plays
      BY <3>2 DEF InputBuffer, Sizes
    <3>4. io_free(i) # 0
      BY <1>6, <3>2, RingCounts
    <3> HIDE DEF c
    <3>5. /\ i' \in Ring(4, InputBuffer) /\ RingInv(i') /\ i'.head > 0
          /\ \A k \in InRing(i') : At(i', k).used # 0 => At(i', k).play = plays'
      BY <1>1, <3>1, <3>2, <3>3, <3>4, PushInput, Zenon
    <3>6. TypeOK'
      BY <1>1, <1>3, <1>6, <3>5, Types, TypesNext, Zenon
    <3>7. RingInv(i)'
      BY <3>5, RingInvNext, Zenon
    <3>8. CurrentInv' /\ OutputInv'
      BY <1>1, <2>1, <2>2, <3>5, FedOrder
    <3> QED
      BY <1>2, <1>3, <1>4, <2>3, <3>6, <3>7, <3>8, Zenon
  <2> QED
    BY <1>6, <2>4, <2>5, Zenon
<1>7. ns \in NsType
  BY Types
<1> QED
  BY <1>5, <1>6, <1>7, NetFields
=============================================================================
