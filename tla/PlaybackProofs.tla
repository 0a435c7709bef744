--------------------------- MODULE PlaybackProofs ---------------------------
(***************************************************************************)
(* Playback's invariant and its safety properties, for any disk, commands, *)
(* bounds and faults.                                                      *)
(***************************************************************************)
EXTENDS PlaybackSteps

-----------------------------------------------------------------------------
(* The sound device.                                                       *)

(* What a step of host_snd_poll does with the buffer at the tail.          *)
LEMMA SndFields ==
  ASSUME PlaybackInv, snd_poll
  PROVE  LET buff == At(o, o.tail)
         IN  /\ o.head # o.tail /\ o.tail \in InRing(o) /\ buff \in OutputBuffer
             /\ ss' \in SsType
             /\ \/ buff.fmt = 0 /\ heard' = heard /\ ss'.state # "SS_ERROR"
                \/ buff.fmt # 0 /\ heard' = heard /\ ss'.state = "SS_ERROR"
                \/ buff.fmt # 0 /\ heard' = buff
<1> USE DEF PlaybackInv
<1> DEFINE buff == io_front(o)
<1>1. o \in Ring(4, OutputBuffer) /\ ss \in SsType
  BY Types
<1>2. o.head # o.tail
  <2>1. o.head \in Nat /\ o.tail \in Nat
    BY <1>1 DEF Ring
  <2>2. io_used(o) # 0
    BY Zenon DEF snd_poll
  <2> QED
    BY <2>1, <2>2 DEF io_used, Uint16
<1>3. buff = At(o, o.tail) /\ o.tail \in InRing(o) /\ buff \in OutputBuffer
  BY <1>1, <1>2, CurrentSlots, LoosePop
<1> HIDE DEF buff
<1>4. CASE buff.fmt = 0
  <2>1. /\ ss' = IF ss.state = "SS_PLAYING" THEN [ss EXCEPT !.state = "SS_PAUSE"] ELSE ss
        /\ UNCHANGED heard /\ ss.state # "SS_ERROR"
    BY <1>4 DEF snd_poll, buff
  <2>2. ss' \in SsType /\ ss'.state # "SS_ERROR"
    BY <1>1, <2>1 DEF SsType
  <2> QED
    BY <1>2, <1>3, <1>4, <2>1, <2>2
<1>5. CASE buff.fmt # 0
  <2>1. PICK refused \in {FALSE, SoundFaults}, fails \in {FALSE, SoundFaults} :
          /\ ss' = [alsa_setup(ss, buff.fmt, refused) EXCEPT
                      !.state = IF fails THEN "SS_ERROR" ELSE "SS_PLAYING"]
          /\ heard' = IF fails THEN heard ELSE buff
    BY <1>5, Zenon DEF snd_poll, buff
  <2>2. alsa_setup(ss, buff.fmt, refused) \in SsType
    BY <1>1, <1>3 DEF alsa_setup, SsType, OutputBuffer
  <2>3. ss' \in SsType /\ (fails => ss'.state = "SS_ERROR")
    BY <2>1, <2>2 DEF SsType
  <2> QED
    BY <1>2, <1>3, <1>5, <2>1, <2>3
<1> QED
  BY <1>4, <1>5

LEMMA SndPoll ==
  ASSUME PlaybackInv, snd_poll
  PROVE  PlaybackInv'
<1> USE DEF PlaybackInv
<1> DEFINE buff == At(o, o.tail)
<1>1. /\ pc = "snd_loop" /\ pc' \in {"snd_loop", "event_loop"} /\ o' = io_pop(o)
      /\ ss.state # "SS_ERROR"
      /\ UNCHANGED <<pl, fss, ns, ls, i, ev, con, quit, burst, flooded, plays, typed>>
  BY DEF snd_poll
<1>2. /\ o.head # o.tail /\ o.tail \in InRing(o) /\ buff \in OutputBuffer
      /\ ss' \in SsType
      /\ \/ buff.fmt = 0 /\ heard' = heard /\ ss'.state # "SS_ERROR"
         \/ buff.fmt # 0 /\ heard' = heard /\ ss'.state = "SS_ERROR"
         \/ buff.fmt # 0 /\ heard' = buff
  BY SndFields
<1>3. o \in Ring(4, OutputBuffer) /\ o.head \in Nat /\ o.tail \in Nat /\ plays \in Nat
  BY Types DEF Ring
<1>4. /\ Loose(o) /\ heard.play <= plays
      /\ \A s \in 0 .. 3 : o.slot[s].fmt # 0 => o.slot[s].play = plays
      /\ \A k \in InRing(i) : At(i, k).used # 0 => At(i, k).play = plays
  BY CurrentSlots
<1>5. /\ o' \in Ring(4, OutputBuffer) /\ Loose(o') /\ o'.slot = o.slot
      /\ buff.fmt # 0 => buff.play = plays
  <2>1. /\ o' \in Ring(4, OutputBuffer) /\ Loose(o') /\ o'.slot = o.slot
        /\ o.tail % 4 \in 0 .. 3 /\ buff = o.slot[o.tail % 4]
    BY <1>1, <1>2, <1>3, <1>4, LoosePop
  <2> QED
    BY <1>4, <2>1
<1>6. QueueInv'
  BY <1>1, SameQueue
<1>7. TypeOK'
  <2>1. pc' \in Calls /\ heard' \in OutputBuffer
    BY <1>1, <1>2, Types DEF Calls
  <2> QED
    BY <1>1, <1>2, <1>5, <2>1, Types, TypesNext
<1>8. HandlesMatch' /\ RingInv(i)'
  BY <1>1, SameFiles, SameInput
<1>9. SourceInv'
  BY <1>1, SameSource
<1>10. DecoderInv'
  BY <1>1 DEF DecoderInv
<1>11. CurrentInv'
  <2>1. heard'.play <= plays
    BY <1>2, <1>3, <1>4, <1>5
  <2>2. plays' = plays /\ i' = i /\ \A s \in 0 .. 3 : o'.slot[s] = o.slot[s]
    BY <1>1, <1>5
  <2> HIDE DEF buff
  <2> QED
    BY <1>4, <1>5, <2>1, <2>2, CurrentNext, Zenon
<1>12. ASSUME RingInv(o), OrderInv PROVE RingInv(o') /\ OrderInv'
  <2>1. /\ RingInv(o') /\ o'.head = o.head /\ o'.tail = o.tail + 1
        /\ \A k \in InRing(o') : k \in InRing(o) /\ k > o.tail /\ At(o', k) = At(o, k)
    BY <1>1, <1>2, <1>3, <1>12, RingPop
  <2>2. (MayDecode' <=> MayDecode) /\ (ReadsWave' <=> ReadsWave) /\ PlayedFile' = PlayedFile
    BY <1>1 DEF MayDecode, ReadsWave, PlayedFile
  <2>3. InRing(o)' = InRing(o') /\ \A k : At(o, k)' = At(o', k)
    BY DEF InRing, At
  <2>4. /\ \A k \in InRing(o') : At(o', k).fmt # 0 => At(o', k).serial = k + 1
        /\ \A j, k \in InRing(o') : j < k /\ At(o', j).fmt = 0 => At(o', k).fmt = 0
    BY <1>12, <2>1 DEF OrderInv
  <2>5. MayDecode => ls.Frames = o'.head /\ \A k \in InRing(o') : At(o', k).fmt # 0
    BY <1>12, <2>1 DEF OrderInv
  <2>6. ReadsWave => /\ i.head = 0 /\ PlayedFile.pos = o'.head
                     /\ \A k \in InRing(o') : At(o', k).fmt = fss.fmt
    BY <1>12, <2>1 DEF OrderInv
  <2>7. \/ ss'.state = "SS_ERROR" \/ Mute'
        \/ o'.tail = IF heard'.play = plays' THEN heard'.serial ELSE 0
    <3>1. CASE buff.fmt = 0
      <4>1. ~MayDecode /\ (ReadsWave => fss.fmt = 0)
        BY <1>2, <1>12, <3>1 DEF OrderInv
      <4>2. \A k \in InRing(o') : At(o', k).fmt = 0
        BY <1>2, <1>12, <2>1, <3>1 DEF OrderInv
      <4>3. fss' = fss
        BY <1>1
      <4> QED
        BY <2>2, <2>3, <4>1, <4>2, <4>3 DEF Mute
    <3>2. CASE buff.fmt # 0 /\ heard' = buff
      <4>1. buff.serial = o.tail + 1 /\ buff.play = plays
        BY <1>2, <1>5, <1>12, <3>2 DEF OrderInv
      <4> QED
        BY <1>1, <2>1, <3>2, <4>1
    <3> QED
      BY <1>2, <3>1, <3>2
  <2> HIDE DEF buff
  <2>8. i' = i /\ ls' = ls /\ fss' = fss
    BY <1>1
  <2>9. OrderInv'
    BY <2>2, <2>4, <2>5, <2>6, <2>7, <2>8, OrderNext, Zenon
  <2> QED
    BY <2>1, <2>9
<1>13. OutputInv'
  <2>1. BurstInv' /\ flooded' = flooded
    BY <1>1, Zenon DEF BurstInv
  <2> QED
    BY <1>12, <2>1, OutputNext, Zenon DEF OutputInv
<1> QED
  BY <1>6, <1>7, <1>8, <1>9, <1>10, <1>11, <1>13

-----------------------------------------------------------------------------
(* The files.                                                              *)

(* Reading the file that is played.                                        *)
LEMMA ReadPlayed ==
  ASSUME NEW f, FsInv(f), f.handle # -1, NEW fails
  PROVE  LET r == fs_read(f, f.handle, fails)
         IN  /\ FsInv(r.f) /\ r.f.handle = f.handle /\ r.f.type = f.type /\ r.f.fmt = f.fmt
             /\ r.got \in Nat
             /\ FileOf(r.f, f.handle).name = FileOf(f, f.handle).name
             /\ \/ r.got = 0
                \/ r.got = FileOf(f, f.handle).pos + 1 /\ FileOf(r.f, f.handle).pos = r.got
<1> DEFINE r == fs_read(f, f.handle, fails)
<1>1. f \in FsType /\ Paired(f) /\ f.handle \in Handles /\ IsOpen(f, f.handle)
  BY DEF FsInv, FsType
<1>2. /\ r.f \in FsType /\ Paired(r.f) /\ SameBut(f, r.f, f.handle) /\ IsOpen(r.f, f.handle)
      /\ FileOf(r.f, f.handle).name = FileOf(f, f.handle).name
      /\ \/ r.got = 0
         \/ r.got = FileOf(f, f.handle).pos + 1 /\ FileOf(r.f, f.handle).pos = r.got
      /\ r.got \in Nat
  BY <1>1, ReadFile
<1> HIDE DEF r
<1>3. /\ r.f.handle = f.handle /\ r.f.type = f.type /\ r.f.state = f.state
      /\ r.f.fmt = f.fmt
  BY <1>2 DEF SameBut
<1>4. Leaked(r.f, f.handle)
  BY <1>2 DEF SameBut, Leaked, FsInv
<1>5. FsInv(r.f)
  BY <1>2, <1>3, <1>4 DEF FsInv
<1> QED
  BY <1>2, <1>3, <1>5 DEF r

(* fs_poll while a file is played: no room, a buffer, or the end.          *)
LEMMA Mp3Fields ==
  ASSUME NEW fails, Becomes(fs_poll_mp3(Prog, fails))
  PROVE  LET read == fs_read(fss, fss.handle, fails)
             buff == [play |-> plays, chunk |-> read.got, used |-> IO_INPUT_BUFFER_SIZE]
         IN  \/ UNCHANGED prog
             \/ /\ io_free(i) # 0 /\ UNCHANGED <<pl, ns, ls, ss, o>>
                /\ \/ read.got > 0 /\ i' = io_push(i, buff) /\ fss' = read.f
                   \/ i' = io_push(i, BlankInput) /\ fss' = fs_stop(read.f)
<1> DEFINE read == fs_read(fss, fss.handle, fails)
           buff == [play |-> plays, chunk |-> read.got, used |-> IO_INPUT_BUFFER_SIZE]
           T == fs_poll_mp3(Prog, fails)
           p == io_push(i, buff)
           b == io_push(i, BlankInput)
           g == read.f
           s == fs_stop(read.f)
<1>1. /\ DOMAIN Prog = Fields /\ Prog.pl = pl /\ Prog.fss = fss /\ Prog.ns = ns
      /\ Prog.ls = ls /\ Prog.ss = ss /\ Prog.i = i /\ Prog.o = o
  BY ProgFields
<1>2. T = IF io_free(i) = 0 THEN Prog
          ELSE IF read.got > 0 THEN [Prog EXCEPT !.i = p, !.fss = g]
          ELSE [Prog EXCEPT !.i = b, !.fss = s]
  BY <1>1 DEF fs_poll_mp3
<1>3. /\ pl' = T.pl /\ fss' = T.fss /\ ns' = T.ns /\ ls' = T.ls
      /\ ss' = T.ss /\ i' = T.i /\ o' = T.o
  BY BecomesFields
<1> HIDE DEF T, p, b, g, s, read
<1>4. CASE io_free(i) = 0
  BY <1>1, <1>2, <1>3, <1>4 DEF prog
<1>5. CASE io_free(i) # 0 /\ read.got > 0
  <2>1. T = [Prog EXCEPT !.i = p, !.fss = g]
    BY <1>2, <1>5
  <2> QED
    BY <1>1, <1>3, <1>5, <2>1 DEF Fields, p, g, read
<1>6. CASE io_free(i) # 0 /\ ~(read.got > 0)
  <2>1. T = [Prog EXCEPT !.i = b, !.fss = s]
    BY <1>2, <1>6
  <2> QED
    BY <1>1, <1>3, <1>6, <2>1 DEF Fields, b, s, read
<1> QED
  BY <1>4, <1>5, <1>6

LEMMA RiffFields ==
  ASSUME NEW fails, Becomes(fs_poll_riff(Prog, fails))
  PROVE  LET read == fs_read(fss, fss.handle, fails)
             buff == [play |-> plays, serial |-> read.got, fmt |-> fss.fmt]
         IN  \/ UNCHANGED prog
             \/ /\ io_free(o) # 0 /\ UNCHANGED <<pl, ns, ls, ss, i>>
                /\ \/ read.got > 0 /\ o' = io_push(o, buff) /\ fss' = read.f
                   \/ o' = io_push(o, BlankOutput) /\ fss' = fs_stop(read.f)
<1> DEFINE read == fs_read(fss, fss.handle, fails)
           buff == [play |-> plays, serial |-> read.got, fmt |-> fss.fmt]
           T == fs_poll_riff(Prog, fails)
           p == io_push(o, buff)
           b == io_push(o, BlankOutput)
           g == read.f
           s == fs_stop(read.f)
<1>1. /\ DOMAIN Prog = Fields /\ Prog.pl = pl /\ Prog.fss = fss /\ Prog.ns = ns
      /\ Prog.ls = ls /\ Prog.ss = ss /\ Prog.i = i /\ Prog.o = o
  BY ProgFields
<1>2. T = IF io_free(o) = 0 THEN Prog
          ELSE IF read.got > 0 THEN [Prog EXCEPT !.o = p, !.fss = g]
          ELSE [Prog EXCEPT !.o = b, !.fss = s]
  BY <1>1, Zenon DEF fs_poll_riff
<1>3. /\ pl' = T.pl /\ fss' = T.fss /\ ns' = T.ns /\ ls' = T.ls
      /\ ss' = T.ss /\ i' = T.i /\ o' = T.o
  BY BecomesFields
<1> HIDE DEF T, p, b, g, s, read
<1>4. CASE io_free(o) = 0
  BY <1>1, <1>2, <1>3, <1>4 DEF prog
<1>5. CASE io_free(o) # 0 /\ read.got > 0
  <2>1. T = [Prog EXCEPT !.o = p, !.fss = g]
    BY <1>2, <1>5
  <2> QED
    BY <1>1, <1>3, <1>5, <2>1 DEF Fields, p, g, read
<1>6. CASE io_free(o) # 0 /\ ~(read.got > 0)
  <2>1. T = [Prog EXCEPT !.o = b, !.fss = s]
    BY <1>2, <1>6
  <2> QED
    BY <1>1, <1>3, <1>6, <2>1 DEF Fields, b, s, read
<1> QED
  BY <1>4, <1>5, <1>6

(* fs_poll_mp3 on the file being played.                                   *)
LEMMA Mp3Poll ==
  ASSUME PlaybackInv, fss.handle # -1, fss.type # "FST_RIFF", NEW fails,
         Becomes(fs_poll_mp3(Prog, fails)), ~UNCHANGED prog, UNCHANGED <<flooded, plays, heard>>,
         pc' \notin {"con_poll", "mad_decode"}
  PROVE  /\ UNCHANGED <<pl, ns, ls, ss, o>> /\ i' \in Ring(4, InputBuffer) /\ fss' \in FsType
         /\ HandlesMatch' /\ RingInv(i)' /\ SourceInv' /\ CurrentInv' /\ OutputInv'
<1> USE DEF PlaybackInv
<1> DEFINE read == fs_read(fss, fss.handle, fails)
           buff == [play |-> plays, chunk |-> read.got, used |-> IO_INPUT_BUFFER_SIZE]
<1>1. /\ io_free(i) # 0 /\ UNCHANGED <<pl, ns, ls, ss, o>>
      /\ \/ read.got > 0 /\ i' = io_push(i, buff) /\ fss' = read.f
         \/ i' = io_push(i, BlankInput) /\ fss' = fs_stop(read.f)
  BY Mp3Fields
<1>2. FsInv(read.f) /\ read.f.handle = fss.handle /\ read.f.type = fss.type /\ read.got \in Nat
  BY FilesNow, ReadPlayed
<1> HIDE DEF read
<1>3. i \in Ring(4, InputBuffer) /\ plays \in Nat
  BY Types
<1>4. buff \in InputBuffer /\ buff.play = plays /\ BlankInput \in InputBuffer /\ BlankInput.used = 0
  BY <1>2, <1>3, SMT DEF InputBuffer, BlankInput, IO_INPUT_BUFFER_SIZE
<1> HIDE DEF buff
<1>5. /\ i' \in Ring(4, InputBuffer) /\ RingInv(i') /\ i'.head > 0
      /\ \A k \in InRing(i') : At(i', k).used # 0 => At(i', k).play = plays'
  <2>1. CASE i' = io_push(i, buff)
    BY <1>1, <1>3, <1>4, <2>1, PushInput, Zenon
  <2>2. CASE i' = io_push(i, BlankInput)
    BY <1>1, <1>3, <1>4, <2>2, PushInput
  <2> QED
    BY <1>1, <2>1, <2>2
<1>6. /\ FsInv(fss') /\ fss'.type = fss.type
  BY <1>1, <1>2, StopFile
<1>7. fss' \in FsType /\ HandlesMatch' /\ (fss'.state = "FSS_OPEN" <=> fss'.handle # -1)
  BY <1>6, FilesNext, Zenon
<1>8. SourceInv'
  <2>1. pl.state # "PL_STOP" /\ ns.state = "NET_CLOSED"
    BY DEF SourceInv, StoppedReleasesSource
  <2> QED
    BY <1>1, <1>7, <2>1, Zenon DEF SourceInv, StoppedReleasesSource, SourceOpen
<1>9. CurrentInv' /\ OutputInv'
  <2>1. MayDecode /\ ~ReadsWave'
    BY <1>6 DEF MayDecode, ReadsWave
  <2> QED
    BY <1>1, <1>5, <2>1, FedOrder
<1>10. RingInv(i)'
  BY <1>5 DEF RingInv
<1> QED
  BY <1>1, <1>5, <1>7, <1>8, <1>9, <1>10, SMTT(20)

(* fs_poll_riff on the file being played.                                  *)
LEMMA RiffPoll ==
  ASSUME PlaybackInv, ReadsWave, NEW fails,
         Becomes(fs_poll_riff(Prog, fails)), ~UNCHANGED prog, UNCHANGED <<flooded, plays, heard>>,
         pc' \notin {"con_poll", "mad_decode"}
  PROVE  /\ UNCHANGED <<pl, ns, ls, ss, i>> /\ o' \in Ring(4, OutputBuffer) /\ fss' \in FsType
         /\ HandlesMatch' /\ SourceInv' /\ CurrentInv' /\ OutputInv'
<1> USE DEF PlaybackInv
<1> DEFINE read == fs_read(fss, fss.handle, fails)
           F == fss.fmt
           buff == [play |-> plays, serial |-> read.got, fmt |-> F]
<1>1. /\ io_free(o) # 0 /\ UNCHANGED <<pl, ns, ls, ss, i>>
      /\ \/ read.got > 0 /\ o' = io_push(o, buff) /\ fss' = read.f
         \/ o' = io_push(o, BlankOutput) /\ fss' = fs_stop(read.f)
  BY RiffFields
<1>2. FsInv(fss) /\ fss.handle # -1 /\ PlayedFile = FileOf(fss, fss.handle) /\ F \in Nat
  BY FilesNow, Types, Zenon DEF ReadsWave, PlayedFile, FileOf, FsType
<1>3. /\ FsInv(read.f) /\ read.f.handle = fss.handle /\ read.f.type = fss.type /\ read.f.fmt = F
      /\ read.got \in Nat
      /\ \/ read.got = 0
         \/ read.got = PlayedFile.pos + 1 /\ FileOf(read.f, fss.handle).pos = read.got
  BY <1>2, ReadPlayed
<1> HIDE DEF read
<1>4. o \in Ring(4, OutputBuffer) /\ plays \in Nat /\ o.head \in Nat /\ o.tail \in Nat
  BY Types, Zenon DEF Ring
<1>5. FsInv(fss') /\ fss'.type = "FST_RIFF" /\ fss'.fmt = F
  BY <1>1, <1>3, StopFile, Zenon DEF ReadsWave
<1> HIDE DEF F
<1>6. /\ buff \in OutputBuffer /\ buff.play = plays /\ buff.serial = read.got /\ buff.fmt = F
      /\ BlankOutput \in OutputBuffer /\ BlankOutput.fmt = 0
  BY <1>2, <1>3, <1>4 DEF OutputBuffer, BlankOutput
<1> HIDE DEF buff
<1>7. pl.state # "PL_STOP" /\ ns.state = "NET_CLOSED"
  BY <1>2 DEF SourceInv, StoppedReleasesSource
<1>8. fss' \in FsType /\ HandlesMatch' /\ (fss'.state = "FSS_OPEN" <=> fss'.handle # -1)
  BY <1>5, FilesNext, Zenon
<1>9. SourceInv'
  BY <1>1, <1>7, <1>8, Zenon DEF SourceInv, StoppedReleasesSource, SourceOpen
<1>10. o' \in Ring(4, OutputBuffer) /\ CurrentInv'
  <2>1. CASE o' = io_push(o, buff)
    BY <1>1, <1>4, <1>6, <2>1, PushCurrent, Zenon
  <2>2. CASE o' = io_push(o, BlankOutput)
    BY <1>1, <1>4, <1>6, <2>2, PushCurrent, Zenon
  <2> QED
    BY <1>1, <2>1, <2>2
<1>11. ASSUME RingInv(o), OrderInv PROVE RingInv(o') /\ OrderInv'
  <2>1. i.head = 0 /\ PlayedFile.pos = o.head /\ \A k \in InRing(o) : At(o, k).fmt = F
    BY <1>11 DEF OrderInv, F
  <2>2. ~MayDecode /\ ~MayDecode'
    BY <1>1, <1>5, <1>7, <2>1, SMTT(20) DEF MayDecode, ReadsWave
  <2>3. o.head - o.tail < 4
    <3>1. io_free(o) = 4 - (o.head - o.tail) /\ o.head - o.tail <= 4
      BY <1>4, <1>11, RingCounts DEF RingInv, Ring
    <3> QED
      BY <1>1, <1>4, <3>1
  <2>4. InRing(o)' = InRing(o') /\ \A k : At(o, k)' = At(o', k)
    BY DEF InRing, At
  <2>5. ASSUME read.got > 0, o' = io_push(o, buff), fss' = read.f
        PROVE  RingInv(o') /\ OrderInv'
    <3>1. buff.serial = o.head + 1 /\ PlayedFile'.pos = o.head + 1
      <4>1. read.got = PlayedFile.pos + 1 /\ FileOf(read.f, fss.handle).pos = read.got
        BY <1>3, <2>5
      <4>2. PlayedFile' = FileOf(read.f, fss.handle)
        BY <1>3, <2>5, Zenon DEF PlayedFile, FileOf
      <4> QED
        BY <1>6, <2>1, <4>1, <4>2, Zenon
    <3>2. RingInv(o')
      BY <1>4, <1>6, <1>11, <2>3, <2>5, RingPush, Zenon
    <3>3. buff.fmt = 0 \/ \A k \in InRing(o) : At(o, k).fmt # 0
      BY <1>6, <2>1
    <3>4. /\ \A k \in InRing(o') : At(o', k).fmt # 0 => At(o', k).serial = k + 1
          /\ \A j, k \in InRing(o') : j < k /\ At(o', j).fmt = 0 => At(o', k).fmt = 0
          /\ o'.head = o.head + 1 /\ o'.tail = o.tail
          /\ \A k \in InRing(o') : \/ k = o.head /\ At(o', k) = buff
                                   \/ k \in InRing(o) /\ k < o.head /\ At(o', k) = At(o, k)
      BY <1>4, <1>6, <1>11, <2>3, <2>5, <3>1, <3>3, PushOutput, Zenon
    <3>5. \A k \in InRing(o') : At(o', k).fmt = fss'.fmt
      BY <1>5, <1>6, <2>1, <3>4
    <3>6. Mute => Mute'
      <4>1. SUFFICES ASSUME Mute PROVE Mute'
        OBVIOUS
      <4>2. F = 0
        BY <4>1, Zenon DEF Mute, F
      <4> QED
        BY <1>5, <2>2, <2>4, <3>5, <4>2 DEF Mute
    <3>7. \/ ss'.state = "SS_ERROR" \/ Mute'
          \/ o'.tail = IF heard'.play = plays' THEN heard'.serial ELSE 0
      BY <1>1, <1>11, <3>4, <3>6, Zenon DEF OrderInv
    <3>8. ReadsWave' => i'.head = 0 /\ PlayedFile'.pos = o'.head
      BY <1>1, <2>1, <3>1, <3>4
    <3>9. OrderInv'
      BY <2>2, <3>4, <3>5, <3>7, <3>8, OrderNext, Zenon
    <3> QED
      BY <3>2, <3>9
  <2>6. ASSUME o' = io_push(o, BlankOutput), fss' = fs_stop(read.f)
        PROVE  RingInv(o') /\ OrderInv'
    <3>1. ~ReadsWave'
      BY <1>3, <2>6, StopFile, Zenon DEF ReadsWave
    <3>2. RingInv(o')
      BY <1>4, <1>6, <1>11, <2>3, <2>6, RingPush, Zenon
    <3>3. /\ \A k \in InRing(o') : At(o', k).fmt # 0 => At(o', k).serial = k + 1
          /\ \A j, k \in InRing(o') : j < k /\ At(o', j).fmt = 0 => At(o', k).fmt = 0
          /\ o'.head = o.head + 1 /\ o'.tail = o.tail
          /\ \A k \in InRing(o') : \/ k = o.head /\ At(o', k) = BlankOutput
                                   \/ k \in InRing(o) /\ k < o.head /\ At(o', k) = At(o, k)
      BY <1>4, <1>6, <1>11, <2>3, <2>6, PushOutput, Zenon
    <3>4. Mute => Mute'
      BY <1>6, <2>2, <2>4, <3>1, <3>3, Zenon DEF Mute
    <3>5. \/ ss'.state = "SS_ERROR" \/ Mute'
          \/ o'.tail = IF heard'.play = plays' THEN heard'.serial ELSE 0
      BY <1>1, <1>11, <3>3, <3>4, Zenon DEF OrderInv
    <3>6. OrderInv'
      BY <2>2, <3>1, <3>3, <3>5, OrderNext, Zenon
    <3> QED
      BY <3>2, <3>6
  <2> QED
    BY <1>1, <2>5, <2>6
<1>12. OutputInv'
  <2>1. BurstInv' /\ flooded' = flooded
    BY DEF BurstInv
  <2>2. flooded \/ (RingInv(o) /\ OrderInv)
    BY DEF OutputInv
  <2> QED
    BY <1>11, <2>1, <2>2, OutputNext
<1> QED
  BY <1>1, <1>8, <1>9, <1>10, <1>12, Zenon

LEMMA FsPoll ==
  ASSUME PlaybackInv, fs_poll
  PROVE  PlaybackInv'
<1> USE DEF PlaybackInv
<1>1. /\ pc = "fs_poll" /\ pc' = "net_poll"
      /\ UNCHANGED <<ev, con, quit, burst, flooded, plays, typed, heard>>
  BY DEF fs_poll
<1>2. QueueInv'
  BY <1>1, SameQueue, Zenon
<1>3. pc' \in Calls /\ DecoderInv'
  BY <1>1 DEF Calls, DecoderInv
<1>4. CASE UNCHANGED prog
  <2>1. TypeOK'
    BY <1>1, <1>3, <1>4, Types, TypesNext DEF prog
  <2>2. HandlesMatch' /\ RingInv(i)'
    BY <1>4, SameFiles, SameInput DEF prog
  <2>3. SourceInv'
    BY <1>1, <1>4, SameSource DEF prog
  <2>4. CurrentInv' /\ OutputInv'
    BY <1>1, <1>4, SameOrder DEF prog
  <2> QED
    BY <1>2, <1>3, <2>1, <2>2, <2>3, <2>4, Zenon
<1>5. CASE ~UNCHANGED prog
  <2>1. PICK fails \in {FALSE, ReadFaults} :
          /\ fss.handle # -1
          /\ Becomes(IF fss.type = "FST_RIFF" THEN fs_poll_riff(Prog, fails)
                     ELSE fs_poll_mp3(Prog, fails))
    BY <1>5, Zenon DEF fs_poll
  <2>2. CASE fss.type = "FST_RIFF"
    <3>1. Becomes(fs_poll_riff(Prog, fails)) /\ ReadsWave
      BY <2>1, <2>2 DEF ReadsWave
    <3>2. /\ UNCHANGED <<pl, ns, ls, ss, i>> /\ o' \in Ring(4, OutputBuffer) /\ fss' \in FsType
          /\ HandlesMatch' /\ SourceInv' /\ CurrentInv' /\ OutputInv'
      BY <1>1, <1>5, <3>1, RiffPoll, Zenon
    <3>3. TypeOK'
      BY <1>1, <1>3, <3>2, Types, TypesNext, Zenon
    <3>4. RingInv(i)'
      BY <3>2 DEF RingInv
    <3> QED
      BY <1>2, <1>3, <3>2, <3>3, <3>4
  <2>3. CASE fss.type # "FST_RIFF"
    <3>1. Becomes(fs_poll_mp3(Prog, fails)) /\ fss.handle # -1
      BY <2>1, <2>3
    <3>2. /\ UNCHANGED <<pl, ns, ls, ss, o>> /\ i' \in Ring(4, InputBuffer) /\ fss' \in FsType
          /\ HandlesMatch' /\ RingInv(i)' /\ SourceInv' /\ CurrentInv' /\ OutputInv'
      BY <1>1, <1>5, <2>3, <3>1, Mp3Poll, Zenon
    <3>3. TypeOK'
      BY <1>1, <1>3, <3>2, Types, TypesNext, Zenon
    <3> QED
      BY <1>2, <1>3, <3>2, <3>3
  <2> QED
    BY <2>2, <2>3
<1> QED
  BY <1>4, <1>5

(* A play command starts everything anew.                                  *)
LEMMA EventPlay ==
  ASSUME PlaybackInv, event_play
  PROVE  PlaybackInv'
<1> USE DEF PlaybackInv
<1>1. /\ pc = "event_loop" /\ event_front(ev).type = "E_PL_PLAY" /\ ev' = event_pop(ev)
      /\ plays' = plays + 1 /\ flooded' = FALSE
      /\ UNCHANGED <<con, quit, pc, burst, typed, heard>>
  BY DEF event_play
<1>2. PICK reads \in Reads, fails \in {FALSE, NetFaults} :
        Becomes(pl_play(Prog, event_front(ev).ptr, reads, fails))
  BY Zenon DEF event_play
<1>3. /\ pl' \in PlType /\ ns' \in NsType /\ FsInv(fss') /\ ss' = ss /\ ls' = libmad_init
      /\ i' = io_reset(4, BlankInput) /\ o' = io_reset(4, BlankOutput)
      /\ pl'.state = "PL_STOP" => fss'.handle = -1 /\ ns'.state = "NET_CLOSED"
      /\ fss'.handle # -1 => /\ ns'.state = "NET_CLOSED"
                             /\ FileOf(fss', fss'.handle).pos = 0
  BY <1>2, FilesNow, PlayStep, Types, Zenon DEF SourceInv
<1>4. QueueType(ev') /\ QueueInv'
  <2>1. QueueType(ev)
    BY Types, Zenon
  <2> QED
    BY <1>1, <2>1, PopQueue
<1>5. /\ i' \in Ring(4, InputBuffer) /\ RingInv(i') /\ i'.head = 0 /\ i'.tail = 0 /\ InRing(i') = {}
      /\ o' \in Ring(4, OutputBuffer) /\ RingInv(o') /\ o'.head = 0 /\ o'.tail = 0 /\ InRing(o') = {}
      /\ o'.max_buffers = 4 /\ \A s \in 0 .. 3 : o'.slot[s] = BlankOutput
  <2>1. BlankInput \in InputBuffer /\ BlankOutput \in OutputBuffer
    BY SMT DEF BlankInput, BlankOutput, InputBuffer, OutputBuffer
  <2> QED
    BY <1>3, <2>1, RingReset, Zenon
<1>6. ls' \in LsType /\ ls'.state = "LM_INIT" /\ ls'.Frames = 0
  BY <1>3 DEF libmad_init, LsType
<1>7. fss' \in FsType /\ HandlesMatch' /\ (fss'.state = "FSS_OPEN" <=> fss'.handle # -1)
  BY <1>3, FilesNext, Zenon
<1>8. plays \in Nat /\ heard.play \in Nat /\ heard.play <= plays
  BY Types, CurrentSlots, Zenon DEF OutputBuffer
<1>9. TypeOK'
  <2>1. /\ i' \in Ring(4, InputBuffer) /\ o' \in Ring(4, OutputBuffer)
        /\ flooded' \in BOOLEAN /\ ss' = ss /\ pl' \in PlType /\ ns' \in NsType
    BY <1>1, <1>3, <1>5, Zenon
  <2>2. plays' = plays + 1
    BY <1>1, Zenon
  <2>3. plays' \in Nat
    BY <1>8, <2>2
  <2> QED
    BY <1>1, <1>4, <1>6, <1>7, <2>1, <2>3, Types, TypesNext, Zenon
<1>10. RingInv(i)'
  BY <1>5, Zenon DEF RingInv
<1>11. SourceInv'
  BY <1>1, <1>3, <1>5, <1>6, <1>7, Zenon DEF SourceInv, StoppedReleasesSource, SourceOpen
<1>12. DecoderInv'
  BY <1>1 DEF DecoderInv
<1>13. heard'.play <= plays' /\ heard'.play # plays'
  BY <1>1, <1>8
<1>14. CurrentInv'
  <2>1. Loose(o') /\ \A s \in 0 .. 3 : o'.slot[s].fmt = 0
    BY <1>5 DEF Loose, BlankOutput
  <2> QED
    BY <1>5, <1>13, <2>1, CurrentNext, Zenon
<1>15. OutputInv'
  <2>1. InRing(o)' = {}
    BY <1>5, Zenon DEF InRing
  <2>2. ReadsWave' => PlayedFile'.pos = 0
    BY <1>3 DEF ReadsWave, PlayedFile, FileOf
  <2>3. OrderInv'
    BY <1>5, <1>6, <1>13, <2>1, <2>2, Zenon DEF OrderInv
  <2>4. BurstInv'
    BY <1>1 DEF BurstInv
  <2> QED
    BY <1>5, <2>3, <2>4, OutputNext, Zenon
<1> QED
  BY <1>4, <1>7, <1>9, <1>10, <1>11, <1>12, <1>14, <1>15, Zenon

-----------------------------------------------------------------------------
LEMMA NextInv ==
  ASSUME PlaybackInv, [Next]_vars
  PROVE  PlaybackInv'
BY ConPoll, FsPoll, NetPoll, LibmadLoop, MadFrame, MadBadFrame, MadBuflen, SndIdle, SndPoll,
   EventInput, EventPlay, EventStop, EventNone, PollPlayer, Shutdown, Unchanged
  , Zenon DEF Next, frame

(***************************************************************************)
(* Whatever the disk holds, whatever is typed, whatever fails and however  *)
(* many frames an input buffer holds, the files match the handles, the     *)
(* queue, the source and the decoder agree, the input ring is not          *)
(* overfull, and both rings hold buffers of the current play only.  Until  *)
(* the decoder finds more frames in an input buffer than the output ring   *)
(* has buffers, that ring is not overfull either and its buffers are in    *)
(* their order.                                                            *)
(***************************************************************************)
THEOREM PlaybackInvariant == Spec => []PlaybackInv
<1>1. Init => PlaybackInv
  BY InitInv
<1>2. PlaybackInv /\ [Next]_vars => PlaybackInv'
  BY NextInv
<1> QED
  BY <1>1, <1>2, PTL DEF Spec

(* After pl_poll a player that is on has a working source, decoder and     *)
(* sound device.                                                           *)
THEOREM SourceOpenInvariant == Spec => []SourceOpen
<1>1. PlaybackInv => SourceOpen
  BY DEF PlaybackInv, SourceInv
<1> QED
  BY <1>1, PlaybackInvariant, PTL

(* pl_stop and fs_stop leave a stopped player without file or connection.  *)
THEOREM StoppedReleasesSourceInvariant == Spec => []StoppedReleasesSource
<1>1. PlaybackInv => StoppedReleasesSource
  BY DEF PlaybackInv, SourceInv
<1> QED
  BY <1>1, PlaybackInvariant, PTL

(* The handles of fs.c and the FILEs of the host match one to one, and     *)
(* only Wave files whose header is broken or could not be read are left    *)
(* open.                                                                   *)
THEOREM HandlesMatchInvariant == Spec => []HandlesMatch
<1>1. PlaybackInv => HandlesMatch
  BY DEF PlaybackInv
<1> QED
  BY <1>1, PlaybackInvariant, PTL

(* i_push never drops a buffer, nor does o_push until an input buffer of   *)
(* this play has held more frames than the output ring has buffers, so the *)
(* uint16_t counts of free and used buffers add up to the ring's length.   *)
THEOREM RingsNotOverfullInvariant == Spec => []RingsNotOverfull
<1>1. PlaybackInv => RingsNotOverfull
  <2>1. SUFFICES ASSUME PlaybackInv PROVE RingsNotOverfull
    OBVIOUS
  <2>2. /\ i \in Ring(4, InputBuffer) /\ o \in Ring(4, OutputBuffer) /\ RingInv(i)
        /\ flooded \/ RingInv(o)
    BY <2>1, Types DEF PlaybackInv, OutputInv
  <2>3. io_used(i) = i.head - i.tail /\ io_free(i) = 4 - (i.head - i.tail)
    BY <2>2, RingCounts
  <2>4. i.head \in Nat /\ i.tail \in Nat /\ o.head \in Nat /\ o.tail \in Nat
    BY <2>2 DEF Ring
  <2>5. CASE flooded
    BY <2>3, <2>4, <2>5 DEF RingsNotOverfull, MAX_INPUT_BUFFERS
  <2>6. CASE RingInv(o)
    <3>1. io_used(o) = o.head - o.tail /\ io_free(o) = 4 - (o.head - o.tail)
      BY <2>2, <2>6, RingCounts, Zenon
    <3> QED
      BY <2>3, <2>4, <3>1 DEF RingsNotOverfull, MAX_INPUT_BUFFERS, MAX_OUTPUT_BUFFERS
  <2> QED
    BY <2>2, <2>5, <2>6
<1> QED
  BY <1>1, PlaybackInvariant, PTL

(* The console's lock keeps event_push from ever meeting a full queue.     *)
THEOREM EventsFitInvariant == Spec => []EventsFit
<1>1. PlaybackInv => EventsFit
  BY DEF PlaybackInv, QueueInv
<1> QED
  BY <1>1, PlaybackInvariant, PTL

-----------------------------------------------------------------------------
(***************************************************************************)
(* host_snd_poll hands the device frames of the source played last only,   *)
(* and one after the other from the first until an input buffer has held   *)
(* more frames than the output ring has buffers.                           *)
(***************************************************************************)
THEOREM PlaysInOrder == Spec => HeardInOrder
<1> DEFINE Follows == heard' # heard =>
                        /\ heard'.play = plays
                        /\ \/ flooded
                           \/ heard'.serial = IF heard.play = plays THEN heard.serial + 1 ELSE 1
<1>1. PlaybackInv /\ [Next]_vars => Follows
  <2>1. SUFFICES ASSUME PlaybackInv, [Next]_vars, heard' # heard
                 PROVE  /\ heard'.play = plays
                        /\ \/ flooded
                           \/ heard'.serial = IF heard.play = plays THEN heard.serial + 1 ELSE 1
    OBVIOUS
  <2>2. snd_poll
    BY <2>1, Zenon DEF Next, frame, vars, con_poll, fs_poll, net_poll, libmad_loop, mad_frame,
       mad_bad_frame, mad_buflen, snd_idle, event_input, event_play, event_stop, event_none,
       poll_player, shutdown
  <2> DEFINE buff == At(o, o.tail)
  <2>3. buff.fmt # 0 /\ heard' = buff /\ o.tail \in InRing(o)
    BY <2>1, <2>2, SndFields, Zenon
  <2>4. heard'.play = plays
    <3>2. /\ o \in Ring(4, OutputBuffer) /\ CurrentInv /\ o.head # o.tail
          /\ Loose(o) /\ \A s \in 0 .. 3 : o.slot[s].fmt # 0 => o.slot[s].play = plays
      BY <2>1, <2>2, SndFields, Types, CurrentSlots, Zenon DEF PlaybackInv
    <3>3. o.tail % 4 \in 0 .. 3 /\ buff = o.slot[o.tail % 4]
      BY <3>2, LoosePop
    <3> QED
      BY <2>3, <3>2, <3>3, Zenon
  <2>5. ss.state # "SS_ERROR" /\ ~Mute
    BY <2>2, <2>3, Zenon DEF snd_poll, Mute
  <2>6. \/ flooded
        \/ /\ o.tail = IF heard.play = plays THEN heard.serial ELSE 0
           /\ buff.serial = o.tail + 1
    BY <2>1, <2>3, <2>5, Zenon DEF PlaybackInv, OutputInv, OrderInv
  <2> HIDE DEF buff
  <2> QED
    BY <2>3, <2>4, <2>6
<1> QED
  BY <1>1, PlaybackInvariant, PTL DEF Spec, HeardInOrder

(***************************************************************************)
(* Between a stop and the next play neither the sources nor the decoder    *)
(* nor the sound device touch the rings.                                   *)
(***************************************************************************)
THEOREM StoppedIsQuiet == Spec => QuietWhenStopped
<1> DEFINE Quiet == pl.state = "PL_STOP" /\ pl'.state = "PL_STOP" /\ plays' = plays
                      => UNCHANGED <<i, o, heard>>
<1>1. PlaybackInv /\ [Next]_vars => Quiet
  <2>1. SUFFICES ASSUME PlaybackInv, [Next]_vars, pl.state = "PL_STOP", plays' = plays
                 PROVE  UNCHANGED <<i, o, heard>>
    OBVIOUS
  <2>2. CASE fs_poll \/ net_poll
    BY <2>1, <2>2, Zenon DEF fs_poll, net_poll, prog, PlaybackInv, SourceInv, StoppedReleasesSource
  <2>3. CASE libmad_loop
    <3>1. ~libmad_ready(ls, pl.state, i, o)
      BY <2>1, ReadyMeansData
    <3> QED
      BY <2>3, <3>1 DEF libmad_loop
  <2>4. CASE mad_frame
    BY <2>1, <2>4 DEF mad_frame, PlaybackInv, DecoderInv
  <2>5. CASE snd_poll
    BY <2>1, <2>5 DEF snd_poll
  <2>6. CASE event_play
    <3>1. plays \in Nat
      BY <2>1, Types DEF PlaybackInv
    <3> QED
      BY <2>1, <2>6, <3>1 DEF event_play
  <2>7. CASE event_stop
    <3>1. Stops \/ UNCHANGED prog
      BY <2>7, StopStep DEF event_stop
    <3> QED
      BY <2>7, <3>1 DEF Stops, prog, event_stop
  <2>8. CASE poll_player
    <3>1. pl \in [state : {"PL_STOP", "PL_PLAYING", "PL_BUFFERING"},
                  source_type : {"PS_UNKNOWN", "PS_NET", "PS_FILE"}]
      BY <2>1 DEF PlaybackInv, TypeOK
    <3>2. UNCHANGED <<i, o>>
      BY <2>8, <3>1, PollStep, Zenon DEF poll_player, Stops, prog
    <3> QED
      BY <2>8, <3>2, Zenon DEF poll_player
  <2>9. CASE \/ con_poll \/ mad_bad_frame \/ mad_buflen \/ snd_idle \/ event_input
             \/ event_none \/ shutdown \/ UNCHANGED vars
    BY <2>9 DEF con_poll, mad_bad_frame, mad_buflen, snd_idle, event_input, event_none,
                shutdown, vars, prog
  <2> QED
    BY <2>1, <2>2, <2>3, <2>4, <2>5, <2>6, <2>7, <2>8, <2>9, Zenon DEF Next, frame
<1> QED
  BY <1>1, PlaybackInvariant, PTL DEF Spec, QuietWhenStopped
=============================================================================
