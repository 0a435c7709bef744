------------------------------ MODULE AudioDma ------------------------------
(***************************************************************************)
(* The sound output of the STM32 build: stm32/sound.c over                 *)
(* libs/Audio/Audio.c.  The main loop decodes into the output ring and     *)
(* hands the buffers, in place, to a DMA stream, one being transferred and *)
(* one waiting; the stream's interrupt starts the waiting one.  A buffer   *)
(* handed over counts as free in the ring although the DMA still reads it. *)
(*                                                                         *)
(* The player is reduced to its state, which pl_poll and the events change *)
(* at will.  The volume and the LED callback are left out.                 *)
(***************************************************************************)
EXTENDS Libmad

CONSTANTS
  Fmts,             \* rate and channels of a frame; 0 is a rate snd_freq2rate lacks
  Supported,        \* those audio_setup has settings for
  FramesPerInput,   \* bound: frames decoded from one input buffer
  MaxFrames,        \* bound: frames decoded of the first source; each later one has one less
  MaxPlays          \* bound: play commands

MAX_OUTPUT_BUFFERS == 4

ASSUME AudioAssumption ==
  /\ 1 \in Supported /\ Supported \subseteq Fmts \ {0} /\ Fmts \subseteq Nat
  /\ FramesPerInput \in Nat /\ MaxFrames \in Nat /\ MaxPlays \in Nat

VARIABLES
  pl,        \* the state of the player
  o,         \* the output ring
  ss,        \* struct ss: [state, fmt]
  buff,      \* local of host_snd_poll: the buffer popped, [slot, frame]
  next,      \* NextBufferSamples, and the frame in it when it was provided
  running,   \* DMARunning
  dma,       \* the buffer the stream transfers
  pending,   \* the stream's transfer complete flag
  irq,       \* is the stream's interrupt enabled?
  pc,        \* the next step of the main loop
  burst,     \* frames decoded from the current input buffer
  plays,     \* history: play commands
  bogus,     \* history: has this source had a frame without a rate?
  redone,    \* history: has the device been set up again?
  crowded,   \* history: has this source had an input buffer of more than two frames?
  flooded,   \* history: the plays that had one of more frames than the ring holds
  started    \* history: the frame whose transfer was started last

audio == <<next, running, dma, pending, started>>
history == <<plays, bogus, redone, crowded, flooded>>
vars == <<pl, o, ss, buff, irq, pc, burst, history, audio>>

Blank == [play |-> 0, serial |-> 0, fmt |-> 0]
NoBuffer == [slot |-> -1, frame |-> Blank]

(* After host_snd_init, which sets the device up for format 1.             *)
Init ==
  /\ pl = "PL_STOP"
  /\ o = io_reset(MAX_OUTPUT_BUFFERS, Blank)
  /\ ss = [state |-> "SS_INIT", fmt |-> 1]
  /\ buff = NoBuffer /\ next = NoBuffer /\ dma = NoBuffer
  /\ running = FALSE /\ pending = FALSE /\ irq = TRUE
  /\ pc = "libmad_loop" /\ burst = 0 /\ started = Blank
  /\ plays = 0 /\ bogus = FALSE /\ redone = FALSE
  /\ crowded = FALSE /\ flooded = {}

-----------------------------------------------------------------------------
(* The decoder; whether there is input is up to the source.                *)
libmad_loop ==
  /\ pc = "libmad_loop" /\ burst' = 0
  /\ \/ pc' = "snd_loop"
     \/ /\ pl = "PL_PLAYING" /\ ~(o_free_size(o) < DECOMPRESS_SIZE)
        /\ pc' = "mad_decode"
  /\ UNCHANGED <<pl, o, ss, buff, irq, history, audio>>

mad_frame(fmt) ==
  /\ pc = "mad_decode" /\ burst < FramesPerInput /\ o.head + plays <= MaxFrames
  /\ o' = io_push(o, [play |-> plays, serial |-> o.head + 1, fmt |-> fmt])
  /\ burst' = burst + 1
  /\ bogus' = (bogus \/ fmt = 0)
  /\ crowded' = (crowded \/ burst + 1 > MAX_OUTPUT_BUFFERS - 2)
  /\ flooded' = IF burst + 1 > MAX_OUTPUT_BUFFERS THEN flooded \cup {plays} ELSE flooded
  /\ UNCHANGED <<pl, ss, buff, irq, pc, plays, redone, audio>>

mad_buflen ==
  /\ pc = "mad_decode" /\ pc' = "snd_loop"
  /\ burst' = 0
  /\ UNCHANGED <<pl, o, ss, buff, irq, history, audio>>

-----------------------------------------------------------------------------
(* host_snd_loop when it returns.                                          *)
snd_idle ==
  /\ pc = "snd_loop" /\ pc' = "pl_poll"
  /\ io_used(o) = 0 \/ pl # "PL_PLAYING"
  /\ ss' = IF ss.state = "SS_PLAYING" /\ io_used(o) = 0
           THEN [ss EXCEPT !.state = "SS_PAUSE"] ELSE ss
  /\ UNCHANGED <<pl, o, buff, irq, burst, history, audio>>

(* host_snd_poll as far as the buffer: a bogus frame is dropped, a new     *)
(* format sets the device up first, if it has settings for it.             *)
snd_poll ==
  /\ pc = "snd_loop" /\ io_used(o) # 0 /\ pl = "PL_PLAYING"
  /\ o' = io_pop(o)
  /\ buff' = [slot |-> o.tail % MAX_OUTPUT_BUFFERS, frame |-> io_front(o)]
  /\ pc' = CASE buff'.frame.fmt = 0 -> "snd_loop"
             [] buff'.frame.fmt \in Supported \ {ss.fmt} -> "init_next"
             [] OTHER -> "provide"
  /\ UNCHANGED <<pl, ss, irq, burst, history, audio>>

(* The two assignments of InitializeAudio that matter here.  It leaves the *)
(* DMA stream and its interrupt running.                                   *)
init_next ==
  /\ pc = "init_next" /\ pc' = "init_running"
  /\ next' = NoBuffer
  /\ redone' = TRUE
  /\ UNCHANGED <<pl, o, ss, buff, irq, burst, plays, bogus, crowded, flooded>>
  /\ UNCHANGED <<running, dma, pending, started>>

init_running ==
  /\ pc = "init_running" /\ pc' = "provide"
  /\ running' = FALSE
  /\ ss' = [ss EXCEPT !.fmt = buff.frame.fmt]
  /\ UNCHANGED <<pl, o, buff, irq, burst, history, next, dma, pending, started>>

(* StartAudioDMAAndRequestBuffers that does not take the waiting buffer.   *)
StartAudioDMA_again(buffer, flag) ==
  /\ dma' = buffer /\ started' = buffer.frame
  /\ next' = next
  /\ running' = TRUE
  /\ pending' \in (IF dma = NoBuffer THEN {flag} ELSE {flag, TRUE})

(* StartAudioDMAAndRequestBuffers.  A stream that is reprogrammed while it *)
(* runs gives up its transfer, and may flag it as complete.                *)
StartAudioDMA(buffer, flag) ==
  /\ dma' = buffer /\ started' = buffer.frame
  /\ next' = NoBuffer
  /\ running' = TRUE
  /\ pending' \in (IF dma = NoBuffer THEN {flag} ELSE {flag, TRUE})

(* ProvideAudioBuffer that does not wait.                                  *)
provide_test_nowait ==
  /\ pc = "provide" /\ pc' = "provide_store"
  /\ irq' = FALSE
  /\ UNCHANGED <<pl, o, ss, buff, burst, history, audio>>

(* ProvideAudioBuffer waits until NextBufferSamples is NULL, and does the  *)
(* rest with the stream's interrupt disabled.                              *)
provide_test ==
  /\ pc = "provide" /\ pc' = "provide_store"
  /\ next = NoBuffer
  /\ irq' = FALSE
  /\ UNCHANGED <<pl, o, ss, buff, burst, history, audio>>

provide_wait ==
  /\ pc = "provide" /\ next # NoBuffer
  /\ UNCHANGED vars

provide_store ==
  /\ pc = "provide_store" /\ pc' = "provide_enable"
  /\ IF running THEN next' = buff /\ UNCHANGED <<running, dma, pending, started>>
                ELSE StartAudioDMA(buff, pending)
  /\ buff' = NoBuffer
  /\ UNCHANGED <<pl, o, ss, irq, burst, history>>

provide_enable ==
  /\ pc = "provide_enable"
  /\ pc' = IF io_used(o) # 0 THEN "snd_loop" ELSE "pl_poll"
  /\ irq' = TRUE
  /\ ss' = [ss EXCEPT !.state = "SS_PLAYING"]
  /\ UNCHANGED <<pl, o, buff, burst, history, audio>>

-----------------------------------------------------------------------------
(* pl_poll: buffering, playing, or an error or the end of the source.      *)
pl_poll ==
  /\ pc = "pl_poll" /\ pc' = "event_loop"
  /\ \/ pl' = pl
     \/ pl # "PL_STOP" /\ pl' \in {"PL_STOP", "PL_BUFFERING", "PL_PLAYING"}
  /\ UNCHANGED <<o, ss, buff, irq, burst, history, audio>>

(* event_loop, over the events of the player: pl_play empties the rings.   *)
event_play ==
  /\ pc = "event_loop" /\ plays < MaxPlays
  /\ pl' = "PL_BUFFERING" /\ plays' = plays + 1
  /\ bogus' = FALSE /\ crowded' = FALSE
  /\ o' = io_reset(MAX_OUTPUT_BUFFERS, Blank)
  /\ UNCHANGED <<ss, buff, irq, pc, burst, redone, flooded, audio>>

event_stop ==
  /\ pc = "event_loop" /\ pl' = "PL_STOP"
  /\ UNCHANGED <<o, ss, buff, irq, pc, burst, history, audio>>

(* The command snd_init: host_snd_init again, whatever the stream does.    *)
(* InitializeAudio forgets the driver's state, StopAudioDMA then stops the *)
(* stream, which may flag the transfer it gives up as complete.            *)
snd_init ==
  /\ pc = "event_loop" /\ pc' = "snd_init_running"
  /\ next' = NoBuffer
  /\ redone' = TRUE
  /\ UNCHANGED <<pl, o, ss, buff, irq, burst, plays, bogus, crowded, flooded>>
  /\ UNCHANGED <<running, dma, pending, started>>

snd_init_running ==
  /\ pc = "snd_init_running" /\ pc' = "snd_init_stop"
  /\ running' = FALSE
  /\ UNCHANGED <<pl, o, ss, buff, irq, burst, history, next, dma, pending, started>>

StopAudioDMA ==
  /\ pc = "snd_init_stop" /\ pc' = "snd_init_done"
  /\ dma' = NoBuffer
  /\ pending' \in (IF dma = NoBuffer THEN {pending} ELSE {pending, TRUE})
  /\ UNCHANGED <<pl, o, ss, buff, irq, burst, history, next, running, started>>

snd_init_done ==
  /\ pc = "snd_init_done" /\ pc' = "event_loop"
  /\ running' = FALSE /\ irq' = TRUE
  /\ ss' = [state |-> "SS_INIT", fmt |-> 1]
  /\ UNCHANGED <<pl, o, buff, burst, history, next, dma, pending, started>>

(* No event is left; what the other events and commands do does not touch  *)
(* the sound output.                                                       *)
event_none ==
  /\ pc = "event_loop" /\ pc' = "libmad_loop"
  /\ UNCHANGED <<pl, o, ss, buff, irq, burst, history, audio>>

main ==
  \/ libmad_loop \/ (\E fmt \in Fmts : mad_frame(fmt)) \/ mad_buflen
  \/ snd_idle \/ snd_poll \/ init_next \/ init_running
  \/ provide_test \/ provide_wait \/ provide_store \/ provide_enable
  \/ pl_poll \/ event_play \/ event_stop \/ event_none
  \/ snd_init \/ snd_init_running \/ StopAudioDMA \/ snd_init_done

-----------------------------------------------------------------------------
(* The stream has transferred its buffer.                                  *)
dma_complete ==
  /\ dma # NoBuffer
  /\ dma' = NoBuffer /\ pending' = TRUE
  /\ UNCHANGED <<pl, o, ss, buff, irq, pc, burst, history, next, running, started>>

(* The interrupt that forgets to note that the stream has stopped.         *)
IRQHandler_still_running ==
  /\ irq /\ pending
  /\ IF next # NoBuffer THEN StartAudioDMA(next, FALSE)
     ELSE pending' = FALSE /\ UNCHANGED <<next, running, dma, started>>
  /\ UNCHANGED <<pl, o, ss, buff, irq, pc, burst, history>>

DMA1_Stream7_IRQHandler ==
  /\ irq /\ pending
  /\ IF next # NoBuffer THEN StartAudioDMA(next, FALSE)
     ELSE /\ running' = FALSE /\ pending' = FALSE
          /\ UNCHANGED <<next, dma, started>>
  /\ UNCHANGED <<pl, o, ss, buff, irq, pc, burst, history>>

Next == main \/ dma_complete \/ DMA1_Stream7_IRQHandler

Spec == Init /\ [][Next]_vars

(* The processor runs the main loop, in which nothing waits but            *)
(* ProvideAudioBuffer; a transfer ends, and its interrupt is taken.        *)
FairSpec ==
  /\ Spec
  /\ WF_vars(main) /\ WF_vars(dma_complete) /\ WF_vars(DMA1_Stream7_IRQHandler)

-----------------------------------------------------------------------------
Frames == [play : Nat, serial : Nat, fmt : Nat]
Buffers == [slot : -1 .. MAX_OUTPUT_BUFFERS - 1, frame : Frames]

(* Types of the state.                                                     *)
TypeOK ==
  /\ pl \in {"PL_STOP", "PL_BUFFERING", "PL_PLAYING"}
  /\ o \in [head : Nat, tail : Nat, max_buffers : {MAX_OUTPUT_BUFFERS},
            slot : [0 .. MAX_OUTPUT_BUFFERS - 1 -> Frames]]
  /\ ss \in [state : {"SS_INIT", "SS_PLAYING", "SS_PAUSE"}, fmt : Nat]
  /\ buff \in Buffers /\ next \in Buffers /\ dma \in Buffers
  /\ running \in BOOLEAN /\ pending \in BOOLEAN /\ irq \in BOOLEAN
  /\ burst \in Nat /\ started \in Frames
  /\ plays \in Nat /\ bogus \in BOOLEAN /\ redone \in BOOLEAN
  /\ crowded \in BOOLEAN /\ flooded \in SUBSET Nat

(* Does b, one of dma and next, hold a frame of the current source?        *)
InUse(b) == b # NoBuffer /\ b.frame.play = plays

(* Two of the ring's buffers are left for the stream, and no frame is      *)
(* dropped between two that are played.                                    *)
LeavesTwo == ~crowded /\ ~bogus

(***************************************************************************)
(* As long as no input buffer of the source has held more than two frames, *)
(* nor a frame without a rate, the decoder never writes to a buffer that   *)
(* has been provided and not yet transferred, although the ring counts it  *)
(* as free.  The run audio_overwrite shows that three frames are too many. *)
(***************************************************************************)
ProvidedIntact ==
  LeavesTwo => \A b \in {dma, next} : InUse(b) => o.slot[b.slot] = b.frame

(***************************************************************************)
(* A buffer that waits in NextBufferSamples always has a transfer before   *)
(* it, or one whose interrupt is due, that will start it: the test of      *)
(* DMARunning cannot miss the end of a transfer, not even after            *)
(* InitializeAudio has reset the driver's state under a running stream,    *)
(* for a new format or by the command snd_init.                            *)
(***************************************************************************)
NoLostWakeup == next # NoBuffer => running /\ (dma # NoBuffer \/ pending)

Holding == {"init_next", "init_running", "provide", "provide_store"}
Resetting == {"snd_init_running", "snd_init_stop", "snd_init_done"}

(* NoLostWakeup made inductive.                                            *)
Wakes ==
  /\ running => dma # NoBuffer \/ pending
  /\ next # NoBuffer => running
  /\ pc \in {"init_running", "provide_store"} \cup Resetting => next = NoBuffer
  /\ pc \in {"snd_init_stop", "snd_init_done"} => ~running
  /\ pc \in Holding => buff.slot # -1

(* Has the current source never had more frames in an input buffer than    *)
(* the ring holds?                                                         *)
Fits == plays \notin flooded

(* Whatever the decoder puts out, the ring is at most one frame over, and  *)
(* holds frames of the current source, each in its slot; the one that is   *)
(* held is still there.                                                    *)
Slotted ==
  /\ flooded \subseteq 0 .. plays /\ (~crowded => Fits)
  /\ o.tail <= o.head /\ o.head <= o.tail + MAX_OUTPUT_BUFFERS + 1
  /\ \A n \in o.tail .. o.head - 1 : o.slot[n % MAX_OUTPUT_BUFFERS].play = plays
  /\ \A k \in DOMAIN o.slot :
       \/ o.slot[k] = Blank
       \/ /\ o.slot[k].play = plays /\ o.slot[k].serial \in 1 .. o.head
          /\ k = (o.slot[k].serial - 1) % MAX_OUTPUT_BUFFERS
  /\ pc \in Holding =>
       /\ 0 < o.tail /\ buff.frame.play = plays
       /\ buff.slot = (o.tail - 1) % MAX_OUTPUT_BUFFERS
       /\ o.slot[buff.slot] = buff.frame

(* The frames in the ring are numbered as they were decoded.               *)
Sequenced ==
  /\ o.head <= o.tail + MAX_OUTPUT_BUFFERS
  /\ pc = "mad_decode" => o.head = o.tail + burst
  /\ \A n \in o.tail .. o.head - 1 : o.slot[n % MAX_OUTPUT_BUFFERS].serial = n + 1
  /\ pc \in Holding => buff.frame.serial = o.tail

(* The number of the last frame that was provided or dropped.              *)
Provided == IF pc \in Holding THEN o.tail - 1 ELSE o.tail

(* Was frame f decoded after frame g?                                      *)
After(f, g) == f.play > g.play \/ (f.play = g.play /\ f.serial > g.serial)

(* Frames are started and wait in the order of their sources, and those of *)
(* a source that fits the ring in the order of their decoding.             *)
Ordered ==
  /\ started.play <= plays
  /\ Fits /\ started.play = plays => started.serial <= Provided
  /\ dma # NoBuffer => dma.frame = started
  /\ next # NoBuffer =>
       /\ started.play <= next.frame.play /\ next.frame.play <= plays
       /\ next.frame.play \notin flooded => After(next.frame, started)
       /\ Fits /\ next.frame.play = plays => next.frame.serial <= Provided

(* As long as the device has not been set up again, DMARunning says        *)
(* whether the stream is busy, and a frame that was passed over is bogus.  *)
Steady ==
  ~redone =>
    /\ dma # NoBuffer => running /\ ~pending
    /\ pending => running
    /\ pc \notin {"init_running"} \cup Resetting
    /\ Fits => \A k \in DOMAIN o.slot :
         LET passed == o.slot[k]
         IN  passed.play = plays /\ passed.serial <= Provided /\ After(passed, started)
               => passed.fmt = 0 \/ passed = next.frame

(* Without bogus frames and with at most two frames from an input buffer,  *)
(* never more than two wait in the ring.                                   *)
Sparse ==
  /\ o.head <= o.tail + 2
  /\ pc \in Holding => o.head <= o.tail + 1
  /\ \A n \in o.tail .. o.head - 1 : o.slot[n % MAX_OUTPUT_BUFFERS].fmt # 0

(* A buffer in use is as it was provided, not long ago.                    *)
Placed(b) ==
  InUse(b) =>
    /\ b.frame.serial \in {Provided - 1, Provided} /\ b.frame.serial > 0
    /\ b.slot = (b.frame.serial - 1) % MAX_OUTPUT_BUFFERS
    /\ o.slot[b.slot] = b.frame

(* The waiting buffer is the last one provided; the one transferred is the *)
(* same or the one before, and if it is the one before, the last one waits *)
(* or the driver has forgotten both.                                       *)
Recent ==
  /\ Placed(dma) /\ Placed(next)
  /\ InUse(next) => next.frame.serial = Provided
  /\ InUse(dma) /\ dma.frame.serial # Provided =>
       next # NoBuffer \/ ~running \/ pc \in {"init_running", "snd_init_running"}

(***************************************************************************)
(* The inductive invariant behind the properties of this module.           *)
(***************************************************************************)
AudioInv ==
  /\ TypeOK /\ Wakes /\ Slotted /\ Ordered /\ Steady
  /\ Fits => Sequenced
  /\ LeavesTwo => Sparse /\ Recent

(* A transfer that starts is of no earlier source than the last one.  When *)
(* the frames of its source fit the ring it is of a frame after the last   *)
(* one; as long as the device is never set up again it cuts none short and *)
(* what it passed over in the ring is bogus.                               *)
InOrder ==
  dma' # dma /\ dma' # NoBuffer =>
    LET f == dma'.frame
    IN  /\ started.play <= f.play
        /\ ~redone => dma = NoBuffer
        /\ f.play \notin flooded =>
             /\ After(f, started)
             /\ ~redone => \A n \in DOMAIN o.slot :
                  LET passed == o.slot[n]
                  IN  passed.play = f.play /\ After(passed, started) /\ After(f, passed)
                        => passed.fmt = 0

(***************************************************************************)
(* Buffers are transferred in the order of their sources and, as long as   *)
(* no input buffer of the source has held more than four frames, in the    *)
(* order in which they were decoded, none twice.  As long as the device is *)
(* never set up again, none is cut short either, and under the same        *)
(* condition none that is still in the ring has been left out, except the  *)
(* bogus ones.  A fifth frame in the ring takes the slot of the first,     *)
(* which is then played before the ones in between.                        *)
(***************************************************************************)
StartsInOrder == [][InOrder]_vars

(***************************************************************************)
(* ProvideAudioBuffer returns.                                             *)
(***************************************************************************)
ProvideReturns == pc = "provide" ~> pc # "provide"

(***************************************************************************)
(* Audio.h on the buffers provided: they are not overwritten as long as    *)
(* they are in use.                                                        *)
(***************************************************************************)
NotOverwritten == \A b \in {dma, next} : InUse(b) => o.slot[b.slot] = b.frame
=============================================================================
