--------------------------- MODULE AudioDmaProofs ---------------------------
(***************************************************************************)
(* Proofs about AudioDma, for any number of frames, of sources and of      *)
(* formats.                                                                *)
(***************************************************************************)
EXTENDS AudioDma, TLAPS

USE DEF history

(* Two numbers less than the size of the ring apart have different slots.  *)
LEMMA SlotsDiffer ==
  ASSUME NEW m \in Nat, NEW n \in Nat, m < n, n < m + MAX_OUTPUT_BUFFERS
  PROVE  m % MAX_OUTPUT_BUFFERS # n % MAX_OUTPUT_BUFFERS
  BY DEF MAX_OUTPUT_BUFFERS

LEMMA SlotInRange ==
  ASSUME NEW n \in Nat
  PROVE  n % MAX_OUTPUT_BUFFERS \in 0 .. MAX_OUTPUT_BUFFERS - 1
  BY DEF MAX_OUTPUT_BUFFERS

Ring == [head : Nat, tail : Nat, max_buffers : {MAX_OUTPUT_BUFFERS},
         slot : [0 .. MAX_OUTPUT_BUFFERS - 1 -> Frames]]

LEMMA EmptyRing ==
  /\ io_reset(MAX_OUTPUT_BUFFERS, Blank) \in Ring
  /\ \A k \in 0 .. MAX_OUTPUT_BUFFERS - 1 : io_reset(MAX_OUTPUT_BUFFERS, Blank).slot[k] = Blank
  /\ io_reset(MAX_OUTPUT_BUFFERS, Blank).head = 0
  /\ io_reset(MAX_OUTPUT_BUFFERS, Blank).tail = 0
  BY DEF io_reset, Ring, Blank, Frames

LEMMA NoBufferType == NoBuffer \in Buffers /\ NoBuffer.slot = -1
  BY DEF NoBuffer, Buffers, Blank, Frames, MAX_OUTPUT_BUFFERS

(* What a push does to a ring with room.                                   *)
LEMMA PushType ==
  ASSUME NEW r \in Ring, NEW c \in Frames
  PROVE  io_push(r, c) \in Ring
<1>1. r.head \in Nat /\ r.tail \in Nat /\ r.max_buffers = MAX_OUTPUT_BUFFERS
      /\ r.slot \in [0 .. MAX_OUTPUT_BUFFERS - 1 -> Frames]
  BY DEF Ring
<1>2. r.head % MAX_OUTPUT_BUFFERS \in 0 .. MAX_OUTPUT_BUFFERS - 1
  BY <1>1, SlotInRange, Zenon
<1>3. [r.slot EXCEPT ![r.head % MAX_OUTPUT_BUFFERS] = c] \in [0 .. MAX_OUTPUT_BUFFERS - 1 -> Frames]
  BY <1>1, <1>2
<1> QED BY <1>1, <1>3 DEF io_push, Ring

LEMMA PopType ==
  ASSUME NEW r \in Ring
  PROVE  io_pop(r) \in Ring
  BY DEF io_pop, Ring

LEMMA StartType ==
  ASSUME TypeOK, NEW b \in Buffers, NEW flag \in BOOLEAN, StartAudioDMA(b, flag)
  PROVE  /\ dma' \in Buffers /\ next' \in Buffers /\ started' \in Frames
         /\ running' \in BOOLEAN /\ pending' \in BOOLEAN
  BY NoBufferType, Zenon DEF StartAudioDMA, Buffers

LEMMA TypeInit == Init => TypeOK
<1> SUFFICES ASSUME Init PROVE TypeOK
  OBVIOUS
<1>1. running \in BOOLEAN /\ pending \in BOOLEAN /\ irq \in BOOLEAN
  BY Zenon DEF Init
<1>2. o \in Ring /\ buff \in Buffers /\ next \in Buffers /\ dma \in Buffers
  BY EmptyRing, NoBufferType DEF Init
<1>3. started \in Frames /\ burst \in Nat /\ plays \in Nat
      /\ bogus \in BOOLEAN /\ redone \in BOOLEAN
      /\ crowded \in BOOLEAN /\ flooded \in SUBSET Nat
  BY Zenon DEF Init, Blank, Frames
<1>4. pl = "PL_STOP" /\ ss \in [state : {"SS_INIT", "SS_PLAYING", "SS_PAUSE"}, fmt : Nat]
  BY DEF Init
<1> QED BY <1>1, <1>2, <1>3, <1>4 DEF TypeOK, Ring

LEMMA TypeStep == TypeOK /\ [Next]_vars => TypeOK'
<1> SUFFICES ASSUME TypeOK, [Next]_vars PROVE TypeOK'
  OBVIOUS
<1>0. o \in Ring
  BY DEF TypeOK, Ring
<1>1. CASE libmad_loop
  BY <1>1 DEF TypeOK, libmad_loop, audio
<1>2. ASSUME NEW fmt \in Fmts, mad_frame(fmt) PROVE TypeOK'
  <2>1. [play |-> plays, serial |-> o.head + 1, fmt |-> fmt] \in Frames
    BY AudioAssumption DEF TypeOK, Frames
  <2>2. o' \in Ring
    BY <1>0, <1>2, <2>1, PushType DEF mad_frame
  <2>3. bogus' \in BOOLEAN /\ crowded' \in BOOLEAN
    BY <1>2, Zenon DEF mad_frame
  <2>4. burst' \in Nat /\ flooded' \in SUBSET Nat
    BY <1>2 DEF mad_frame, TypeOK
  <2>5. UNCHANGED <<pl, ss, buff, irq, plays, redone, next, running, dma, pending, started>>
    BY <1>2 DEF mad_frame, audio
  <2> QED BY <2>2, <2>3, <2>4, <2>5 DEF TypeOK, Ring
<1>3. CASE mad_buflen
  BY <1>3 DEF TypeOK, mad_buflen, audio
<1>4. CASE snd_idle
  BY <1>4 DEF TypeOK, snd_idle, audio
<1>5. CASE snd_poll
  <2>1. o' \in Ring
    BY <1>0, <1>5, PopType DEF snd_poll
  <2>2. o.tail % MAX_OUTPUT_BUFFERS \in 0 .. MAX_OUTPUT_BUFFERS - 1
    BY <1>0, SlotInRange DEF Ring
  <2>3. io_front(o) \in Frames
    BY <1>0, <2>2, Zenon DEF io_front, Ring
  <2>4. buff' \in Buffers
    BY <1>5, <2>2, <2>3 DEF snd_poll, Buffers
  <2> QED BY <1>5, <2>1, <2>4 DEF TypeOK, snd_poll, audio, Ring
<1>6. CASE init_next
  BY <1>6, NoBufferType DEF TypeOK, init_next
<1>7. CASE init_running
  BY <1>7, Zenon DEF TypeOK, init_running, Buffers, Frames
<1>8. CASE provide_test
  BY <1>8, Zenon DEF TypeOK, provide_test, audio
<1>9. CASE provide_store
  <2>1. CASE running
    BY <1>9, <2>1, NoBufferType DEF TypeOK, provide_store
  <2>2. CASE ~running
    BY <1>9, <2>2, StartType, NoBufferType DEF TypeOK, provide_store
  <2> QED BY <2>1, <2>2
<1>10. CASE provide_enable
  BY <1>10 DEF TypeOK, provide_enable, audio
<1>11. CASE pl_poll
  BY <1>11 DEF TypeOK, pl_poll, audio
<1>12. CASE event_play
  <2>1. o' \in Ring /\ bogus' \in BOOLEAN /\ crowded' \in BOOLEAN
    BY <1>12, EmptyRing, Zenon DEF event_play
  <2> QED BY <1>12, <2>1 DEF TypeOK, event_play, audio, Ring
<1>13. CASE event_stop
  BY <1>13 DEF TypeOK, event_stop, audio
<1>14. CASE event_none
  BY <1>14 DEF TypeOK, event_none, audio
<1>15. CASE dma_complete
  BY <1>15, NoBufferType DEF TypeOK, dma_complete
<1>16. CASE DMA1_Stream7_IRQHandler
  <2>1. CASE next # NoBuffer
    BY <1>16, <2>1, StartType, Zenon DEF TypeOK, DMA1_Stream7_IRQHandler
  <2>2. CASE next = NoBuffer
    BY <1>16, <2>2, Zenon DEF TypeOK, DMA1_Stream7_IRQHandler
  <2> QED BY <2>1, <2>2
<1>17. CASE UNCHANGED vars
  BY <1>17 DEF TypeOK, vars, audio
<1>18. CASE provide_wait
  BY <1>17, <1>18 DEF provide_wait
<1>19. CASE snd_init
  BY <1>19, NoBufferType DEF TypeOK, snd_init
<1>20. CASE snd_init_running
  BY <1>20, Zenon DEF TypeOK, snd_init_running
<1>21. CASE StopAudioDMA
  <2>1. dma' \in Buffers /\ pending' \in BOOLEAN
    BY <1>21, NoBufferType, Zenon DEF TypeOK, StopAudioDMA
  <2>2. UNCHANGED <<pl, o, ss, buff, irq, burst, history, next, running, started>>
    BY <1>21, Zenon DEF StopAudioDMA
  <2> QED BY <2>1, <2>2, Zenon DEF TypeOK
<1>22. CASE snd_init_done
  <2>1. ss' \in [state : {"SS_INIT", "SS_PLAYING", "SS_PAUSE"}, fmt : Nat]
    BY <1>22 DEF snd_init_done
  <2> QED BY <1>22, <2>1, Zenon DEF TypeOK, snd_init_done
<1> QED BY <1>1, <1>2, <1>3, <1>4, <1>5, <1>6, <1>7, <1>8, <1>9, <1>10, <1>11, <1>12, <1>13,
           <1>14, <1>15, <1>16, <1>17, <1>18, <1>19, <1>20, <1>21, <1>22 DEF Next, main

-----------------------------------------------------------------------------
LEMMA WakesInit == Init => Wakes
  BY DEF Init, Wakes, Holding, Resetting

LEMMA StartWakes ==
  ASSUME NEW b, b # NoBuffer, NEW flag, StartAudioDMA(b, flag)
  PROVE  dma' # NoBuffer /\ next' = NoBuffer
  BY DEF StartAudioDMA

LEMMA WakesStep == TypeOK /\ Wakes /\ [Next]_vars => Wakes'
<1> SUFFICES ASSUME TypeOK, Wakes, [Next]_vars PROVE Wakes'
  OBVIOUS
<1> USE DEF Wakes, Holding, Resetting
<1>1. CASE libmad_loop
  BY <1>1, Zenon DEF libmad_loop, audio
<1>2. ASSUME NEW fmt \in Fmts, mad_frame(fmt) PROVE Wakes'
  BY <1>2 DEF mad_frame, audio
<1>3. CASE mad_buflen
  BY <1>3 DEF mad_buflen, audio
<1>4. CASE snd_idle
  BY <1>4 DEF snd_idle, audio
<1>5. CASE snd_poll
  <2>1. o.tail % MAX_OUTPUT_BUFFERS \in 0 .. MAX_OUTPUT_BUFFERS - 1
    BY SlotInRange DEF TypeOK
  <2>2. buff'.slot # -1
    BY <1>5, <2>1 DEF snd_poll, MAX_OUTPUT_BUFFERS
  <2>3. pc' \in {"snd_loop", "init_next", "provide"}
    BY <1>5 DEF snd_poll
  <2> QED BY <1>5, <2>2, <2>3 DEF snd_poll, audio
<1>6. CASE init_next
  BY <1>6 DEF init_next
<1>7. CASE init_running
  BY <1>7 DEF init_running
<1>8. CASE provide_test
  BY <1>8 DEF provide_test, audio
<1>9. CASE provide_store
  <2>1. buff # NoBuffer
    BY <1>9, NoBufferType DEF provide_store
  <2>2. CASE running
    BY <1>9, <2>2 DEF provide_store
  <2>3. CASE ~running
    BY <1>9, <2>1, <2>3, StartWakes DEF provide_store
  <2> QED BY <2>2, <2>3
<1>10. CASE provide_enable
  BY <1>10 DEF provide_enable, audio
<1>11. CASE pl_poll
  BY <1>11 DEF pl_poll, audio
<1>12. CASE event_play
  BY <1>12 DEF event_play, audio
<1>13. CASE event_stop
  BY <1>13 DEF event_stop, audio
<1>14. CASE event_none
  BY <1>14 DEF event_none, audio
<1>15. CASE dma_complete
  BY <1>15 DEF dma_complete
<1>16. CASE DMA1_Stream7_IRQHandler
  <2>1. CASE next # NoBuffer
    BY <1>16, <2>1, StartWakes, Zenon DEF DMA1_Stream7_IRQHandler
  <2>2. CASE next = NoBuffer
    BY <1>16, <2>2 DEF DMA1_Stream7_IRQHandler
  <2> QED BY <2>1, <2>2
<1>17. CASE UNCHANGED vars
  BY <1>17 DEF vars, audio
<1>18. CASE provide_wait
  BY <1>17, <1>18 DEF provide_wait
<1>19. CASE snd_init
  BY <1>19 DEF snd_init
<1>20. CASE snd_init_running
  BY <1>20 DEF snd_init_running
<1>21. CASE StopAudioDMA
  BY <1>21 DEF StopAudioDMA
<1>22. CASE snd_init_done
  BY <1>22 DEF snd_init_done
<1> QED BY <1>1, <1>2, <1>3, <1>4, <1>5, <1>6, <1>7, <1>8, <1>9, <1>10, <1>11, <1>12, <1>13,
           <1>14, <1>15, <1>16, <1>17, <1>18, <1>19, <1>20, <1>21, <1>22 DEF Next, main

-----------------------------------------------------------------------------
LEMMA SlottedInit == Init => Slotted /\ Sequenced
<1> SUFFICES ASSUME Init PROVE Slotted /\ Sequenced
  OBVIOUS
<1>1. o.head = 0 /\ o.tail = 0 /\ DOMAIN o.slot = 0 .. MAX_OUTPUT_BUFFERS - 1
      /\ \A k \in 0 .. MAX_OUTPUT_BUFFERS - 1 : o.slot[k] = Blank
  BY EmptyRing DEF Init, Ring
<1>2. pc = "libmad_loop" /\ flooded = {} /\ plays = 0
  BY DEF Init
<1> QED BY <1>1, <1>2 DEF Slotted, Sequenced, Fits, Holding, MAX_OUTPUT_BUFFERS

(* Only the decoder adds to flooded and crowded, and only a play command   *)
(* makes them forget.                                                      *)
LEMMA Bursts ==
  ASSUME TypeOK, [Next]_vars, ~event_play
  PROVE  \/ UNCHANGED <<plays, bogus, crowded, flooded>>
         \/ \E fmt \in Fmts : mad_frame(fmt)
  BY Zenon DEF Next, main, libmad_loop, mad_buflen, snd_idle, snd_poll, init_next, init_running,
         provide_test, provide_wait, provide_store, provide_enable, pl_poll, event_stop,
         event_none, snd_init, snd_init_running, StopAudioDMA, snd_init_done, dma_complete,
         DMA1_Stream7_IRQHandler, vars

LEMMA MoreFlooded ==
  ASSUME TypeOK, [Next]_vars, ~event_play
  PROVE  plays' = plays /\ flooded \subseteq flooded'
<1>1. ASSUME NEW fmt \in Fmts, mad_frame(fmt) PROVE plays' = plays /\ flooded \subseteq flooded'
  BY <1>1 DEF mad_frame
<1> QED BY <1>1, Bursts

(* Only a play command can make Fits true.                                 *)
LEMMA FitsBefore ==
  ASSUME TypeOK, [Next]_vars, Fits', ~event_play
  PROVE  Fits /\ \A fmt \in Fmts : mad_frame(fmt) => burst < MAX_OUTPUT_BUFFERS
<1>1. Fits
  BY MoreFlooded, Zenon DEF Fits
<1>2. ASSUME NEW fmt \in Fmts, mad_frame(fmt) PROVE burst < MAX_OUTPUT_BUFFERS
  <2>1. ~(burst + 1 > MAX_OUTPUT_BUFFERS)
    BY <1>2, MoreFlooded, Zenon DEF mad_frame, Fits
  <2> QED BY <2>1 DEF TypeOK, MAX_OUTPUT_BUFFERS
<1> QED BY <1>1, <1>2

(* Only a play command can make LeavesTwo true.                            *)
LEMMA LeftTwo ==
  ASSUME TypeOK, [Next]_vars, LeavesTwo', ~event_play
  PROVE  LeavesTwo /\ \A fmt \in Fmts : mad_frame(fmt) => fmt # 0 /\ burst < 2
<1>1. CASE UNCHANGED <<plays, bogus, crowded, flooded>>
  <2>1. LeavesTwo
    BY <1>1, Zenon DEF LeavesTwo
  <2>2. ASSUME NEW fmt \in Fmts, mad_frame(fmt) PROVE fmt # 0 /\ burst < 2
    <3>1. fmt # 0 /\ ~(burst + 1 > MAX_OUTPUT_BUFFERS - 2)
      BY <2>2, Zenon DEF LeavesTwo, mad_frame
    <3> QED BY <3>1 DEF TypeOK, MAX_OUTPUT_BUFFERS
  <2> QED BY <2>1, <2>2
<1>2. ASSUME NEW fmt \in Fmts, mad_frame(fmt)
      PROVE  LeavesTwo /\ \A f \in Fmts : mad_frame(f) => f # 0 /\ burst < 2
  <2>1. LeavesTwo
    BY <1>2, Zenon DEF LeavesTwo, mad_frame
  <2>2. ASSUME NEW f \in Fmts, mad_frame(f) PROVE f # 0 /\ burst < 2
    <3>1. f # 0 /\ ~(burst + 1 > MAX_OUTPUT_BUFFERS - 2)
      BY <2>2, Zenon DEF LeavesTwo, mad_frame
    <3> QED BY <3>1 DEF TypeOK, MAX_OUTPUT_BUFFERS
  <2> QED BY <2>1, <2>2
<1> QED BY <1>1, <1>2, Bursts

(* As long as the frames fit, the decoder starts only on an empty ring.    *)
LEMMA OnlyWhenEmpty ==
  ASSUME TypeOK, Slotted, Sequenced, ~(o_free_size(o) < DECOMPRESS_SIZE)
  PROVE  o.head = o.tail
<1>1. o.head \in Nat /\ o.tail \in Nat /\ o.max_buffers = 4
  BY DEF TypeOK, MAX_OUTPUT_BUFFERS
<1>0. o.tail <= o.head /\ o.head <= o.tail + MAX_OUTPUT_BUFFERS
  BY Zenon DEF Slotted, Sequenced
<1>2. o.head - o.tail \in {0, 1, 2, 3, 4}
  BY <1>0, <1>1 DEF MAX_OUTPUT_BUFFERS
<1> USE DEF o_free_size, io_free, Uint16, DECOMPRESS_SIZE, LIBMAD_BUFFER_SIZE,
            IO_OUTPUT_BUFFER_SIZE
<1>3. CASE o.head - o.tail = 0
  BY <1>1, <1>3
<1>4. CASE o.head - o.tail = 1
  BY <1>1, <1>4
<1>5. CASE o.head - o.tail = 2
  BY <1>1, <1>5
<1>6. CASE o.head - o.tail = 3
  BY <1>1, <1>6
<1>7. CASE o.head - o.tail = 4
  BY <1>1, <1>7
<1> QED BY <1>2, <1>3, <1>4, <1>5, <1>6, <1>7

(* A push, into a ring that may be full.                                   *)
LEMMA Pushed ==
  ASSUME NEW r \in Ring, NEW c \in Frames
  PROVE  /\ io_push(r, c).head = r.head + 1
         /\ io_push(r, c).tail =
              IF r.head > r.tail + MAX_OUTPUT_BUFFERS THEN r.tail + 1 ELSE r.tail
         /\ io_push(r, c).slot[r.head % MAX_OUTPUT_BUFFERS] = c
         /\ \A n \in Nat : n < r.head /\ r.head < n + MAX_OUTPUT_BUFFERS =>
              io_push(r, c).slot[n % MAX_OUTPUT_BUFFERS] = r.slot[n % MAX_OUTPUT_BUFFERS]
         /\ \A k \in DOMAIN r.slot : k # r.head % MAX_OUTPUT_BUFFERS =>
              io_push(r, c).slot[k] = r.slot[k]
<1> DEFINE s == [r.slot EXCEPT ![r.head % MAX_OUTPUT_BUFFERS] = c]
           t == IF r.head > r.tail + MAX_OUTPUT_BUFFERS THEN r.tail + 1 ELSE r.tail
<1>1. /\ r.head \in Nat /\ r.tail \in Nat /\ r.max_buffers = MAX_OUTPUT_BUFFERS
      /\ r.slot \in [0 .. MAX_OUTPUT_BUFFERS - 1 -> Frames]
  BY DEF Ring
<1>2. r.head % MAX_OUTPUT_BUFFERS \in 0 .. MAX_OUTPUT_BUFFERS - 1
  BY <1>1, SlotInRange, Zenon
<1>3. s[r.head % MAX_OUTPUT_BUFFERS] = c
  BY <1>1, <1>2, Zenon
<1>4. ASSUME NEW n \in Nat, n < r.head, r.head < n + MAX_OUTPUT_BUFFERS
      PROVE  s[n % MAX_OUTPUT_BUFFERS] = r.slot[n % MAX_OUTPUT_BUFFERS]
  <2>1. n % MAX_OUTPUT_BUFFERS # r.head % MAX_OUTPUT_BUFFERS
    BY <1>1, <1>4, SlotsDiffer
  <2>2. n % MAX_OUTPUT_BUFFERS \in 0 .. MAX_OUTPUT_BUFFERS - 1
    BY SlotInRange
  <2> QED BY <1>1, <2>1, <2>2
<1>7. \A k \in DOMAIN r.slot : k # r.head % MAX_OUTPUT_BUFFERS => s[k] = r.slot[k]
  BY <1>1
<1>5. (IF io_full(r) THEN r.tail + 1 ELSE r.tail) = t
  BY <1>1 DEF io_full, MAX_OUTPUT_BUFFERS
<1>6. io_push(r, c) = [head |-> r.head + 1, tail |-> t,
                       max_buffers |-> MAX_OUTPUT_BUFFERS, slot |-> s]
  BY <1>1, <1>5, Zenon DEF io_push
<1> HIDE DEF s, t
<1>8. io_push(r, c).head = r.head + 1 /\ io_push(r, c).tail = t /\ io_push(r, c).slot = s
  BY <1>6
<1> QED BY <1>3, <1>4, <1>7, <1>8, Zenon DEF t

(* What the decoder's step does.                                           *)
LEMMA Decoded ==
  ASSUME TypeOK, NEW fmt \in Fmts, mad_frame(fmt)
  PROVE  LET new == [play |-> plays, serial |-> o.head + 1, fmt |-> fmt]
         IN  /\ o'.head = o.head + 1
             /\ o'.tail = IF o.head > o.tail + MAX_OUTPUT_BUFFERS THEN o.tail + 1 ELSE o.tail
             /\ o'.slot[o.head % MAX_OUTPUT_BUFFERS] = new
             /\ \A n \in Nat : n < o.head /\ o.head < n + MAX_OUTPUT_BUFFERS =>
                  o'.slot[n % MAX_OUTPUT_BUFFERS] = o.slot[n % MAX_OUTPUT_BUFFERS]
             /\ \A k \in DOMAIN o.slot : k # o.head % MAX_OUTPUT_BUFFERS =>
                  o'.slot[k] = o.slot[k]
<1>1. o \in Ring /\ o.head \in Nat /\ plays \in Nat /\ fmt \in Nat
  BY AudioAssumption DEF TypeOK, Ring
<1>2. [play |-> plays, serial |-> o.head + 1, fmt |-> fmt] \in Frames
  BY <1>1 DEF Frames
<1>3. o' = io_push(o, [play |-> plays, serial |-> o.head + 1, fmt |-> fmt])
  BY DEF mad_frame
<1> QED BY <1>1, <1>2, <1>3, Pushed, Zenon

(* Into a ring with room for the frame it puts one frame.                  *)
LEMMA DecodedInto ==
  ASSUME TypeOK, Slotted, Sequenced, NEW fmt \in Fmts, mad_frame(fmt), burst < MAX_OUTPUT_BUFFERS
  PROVE  /\ o.tail <= o.head /\ o.head = o.tail + burst
         /\ o'.head = o.head + 1 /\ o'.tail = o.tail
<1>1. o.head \in Nat /\ o.tail \in Nat /\ burst \in Nat
  BY DEF TypeOK
<1>2. o.head = o.tail + burst
  BY DEF Sequenced, mad_frame
<1>3. ~(o.head > o.tail + MAX_OUTPUT_BUFFERS) /\ o.tail <= o.head
  BY <1>1, <1>2 DEF MAX_OUTPUT_BUFFERS
<1> QED BY <1>2, <1>3, Decoded, Zenon

(* What host_snd_poll's pop does.                                          *)
LEMMA Popped ==
  ASSUME TypeOK, Slotted, snd_poll
  PROVE  /\ o.tail < o.head /\ o'.head = o.head /\ o'.tail = o.tail + 1
         /\ o'.slot = o.slot
         /\ buff'.slot = o.tail % MAX_OUTPUT_BUFFERS /\ buff'.frame = o.slot[buff'.slot]
         /\ buff'.frame.play = plays
         /\ Sequenced => buff'.frame.serial = o.tail + 1
         /\ pc' \in {"init_next", "provide"} \/ (pc' = "snd_loop" /\ buff'.frame.fmt = 0)
<1>1. o.head \in Nat /\ o.tail \in Nat /\ o.max_buffers = MAX_OUTPUT_BUFFERS
  BY Zenon DEF TypeOK
<1>2. o.tail < o.head
  <2>1. o.head # o.tail
    BY <1>1 DEF snd_poll, io_used, Uint16
  <2> QED BY <1>1, <2>1 DEF Slotted
<1>3. o' = [o EXCEPT !.tail = o.tail + 1]
  BY <1>1, <1>2 DEF snd_poll, io_pop, io_empty
<1>4. o'.head = o.head /\ o'.tail = o.tail + 1 /\ o'.slot = o.slot
  BY <1>3, Zenon DEF TypeOK
<1>5. buff' = [slot |-> o.tail % MAX_OUTPUT_BUFFERS, frame |-> o.slot[o.tail % MAX_OUTPUT_BUFFERS]]
  BY <1>1 DEF snd_poll, io_front
<1>6. o.tail \in o.tail .. o.head - 1
  BY <1>1, <1>2
<1>7. o.slot[o.tail % MAX_OUTPUT_BUFFERS].play = plays
  BY <1>6, Zenon DEF Slotted
<1>8. Sequenced => o.slot[o.tail % MAX_OUTPUT_BUFFERS].serial = o.tail + 1
  BY <1>6, Zenon DEF Sequenced
<1>9. pc' \in {"init_next", "provide"} \/ (pc' = "snd_loop" /\ buff'.frame.fmt = 0)
  BY DEF snd_poll
<1> QED BY <1>2, <1>4, <1>5, <1>7, <1>8, <1>9

LEMMA SlottedStep ==
  ASSUME TypeOK, Slotted, [Next]_vars
  PROVE  Slotted'
<1>0. /\ o.head \in Nat /\ o.tail \in Nat /\ plays \in Nat /\ burst \in Nat
      /\ DOMAIN o.slot = 0 .. MAX_OUTPUT_BUFFERS - 1
      /\ \A k \in DOMAIN o.slot : o.slot[k].serial \in Nat
      /\ o.tail <= o.head /\ o.head <= o.tail + MAX_OUTPUT_BUFFERS + 1
  BY Zenon DEF TypeOK, Frames, Slotted
<1>1. CASE libmad_loop \/ mad_buflen \/ snd_idle \/ pl_poll \/ event_stop \/ event_none
           \/ provide_enable \/ provide_store \/ snd_init \/ snd_init_running \/ StopAudioDMA
           \/ snd_init_done
  <2>1. pc' \notin Holding /\ UNCHANGED <<o, plays, flooded, crowded>>
    BY <1>1, Zenon DEF libmad_loop, mad_buflen, snd_idle, pl_poll, event_stop, event_none,
                provide_enable, provide_store, snd_init, snd_init_running, StopAudioDMA,
                snd_init_done, Holding
  <2> QED BY <2>1 DEF Slotted, Fits
<1>2. ASSUME NEW fmt \in Fmts, mad_frame(fmt) PROVE Slotted'
  <2>1. /\ o'.head = o.head + 1
        /\ o'.tail = IF o.head > o.tail + MAX_OUTPUT_BUFFERS THEN o.tail + 1 ELSE o.tail
        /\ o'.slot[o.head % MAX_OUTPUT_BUFFERS] =
             [play |-> plays, serial |-> o.head + 1, fmt |-> fmt]
        /\ \A n \in Nat : n < o.head /\ o.head < n + MAX_OUTPUT_BUFFERS =>
             o'.slot[n % MAX_OUTPUT_BUFFERS] = o.slot[n % MAX_OUTPUT_BUFFERS]
        /\ \A k \in DOMAIN o.slot : k # o.head % MAX_OUTPUT_BUFFERS =>
             o'.slot[k] = o.slot[k]
    BY <1>2, Decoded
  <2>2. /\ o'.tail \in Nat /\ o.tail <= o'.tail /\ o'.tail <= o'.head
        /\ o'.head <= o'.tail + MAX_OUTPUT_BUFFERS + 1
    BY <1>0, <2>1 DEF MAX_OUTPUT_BUFFERS
  <2>3. ASSUME NEW n \in o'.tail .. o'.head - 1
        PROVE  o'.slot[n % MAX_OUTPUT_BUFFERS].play = plays
    <3>1. n \in Nat /\ (n = o.head \/ (n < o.head /\ n \in o.tail .. o.head - 1))
      BY <1>0, <2>1, <2>2
    <3>2. CASE n % MAX_OUTPUT_BUFFERS = o.head % MAX_OUTPUT_BUFFERS
      <4>1. o'.slot[n % MAX_OUTPUT_BUFFERS] = [play |-> plays, serial |-> o.head + 1, fmt |-> fmt]
        BY <2>1, <3>2, Zenon
      <4> QED BY <4>1
    <3>3. CASE n % MAX_OUTPUT_BUFFERS # o.head % MAX_OUTPUT_BUFFERS
      <4>1. n \in o.tail .. o.head - 1 /\ n % MAX_OUTPUT_BUFFERS \in DOMAIN o.slot
        BY <1>0, <3>1, <3>3, SlotInRange, Zenon
      <4>2. o'.slot[n % MAX_OUTPUT_BUFFERS] = o.slot[n % MAX_OUTPUT_BUFFERS]
        BY <2>1, <3>3, <4>1, Zenon
      <4>3. o.slot[n % MAX_OUTPUT_BUFFERS].play = plays
        BY <4>1, Zenon DEF Slotted
      <4> QED BY <4>2, <4>3
    <3> QED BY <3>2, <3>3, Zenon
  <2>4. pc' = "mad_decode" /\ plays' = plays
    BY <1>2, Zenon DEF mad_frame
  <2>5. DOMAIN o'.slot = DOMAIN o.slot
    <3>1. TypeOK'
      BY TypeStep, Zenon
    <3> QED BY <1>0, <3>1 DEF TypeOK
  <2>6. ASSUME NEW k \in DOMAIN o'.slot
        PROVE  \/ o'.slot[k] = Blank
               \/ /\ o'.slot[k].play = plays /\ o'.slot[k].serial \in 1 .. o'.head
                  /\ k = (o'.slot[k].serial - 1) % MAX_OUTPUT_BUFFERS
    <3>1. k \in DOMAIN o.slot
      BY <2>5
    <3>2. CASE k = o.head % MAX_OUTPUT_BUFFERS
      <4>1. o'.slot[k] = [play |-> plays, serial |-> o.head + 1, fmt |-> fmt]
        BY <2>1, <3>2, Zenon
      <4>2. o'.slot[k].serial = o.head + 1 /\ o'.slot[k].play = plays
        BY <4>1
      <4>3. o'.slot[k].serial - 1 = o.head /\ o'.slot[k].serial \in 1 .. o'.head
        BY <1>0, <2>1, <4>2
      <4> QED BY <3>2, <4>2, <4>3, Zenon
    <3>3. CASE k # o.head % MAX_OUTPUT_BUFFERS
      <4>1. o'.slot[k] = o.slot[k]
        BY <2>1, <3>1, <3>3, Zenon
      <4>2. \/ o.slot[k] = Blank
            \/ /\ o.slot[k].play = plays /\ o.slot[k].serial \in 1 .. o.head
               /\ k = (o.slot[k].serial - 1) % MAX_OUTPUT_BUFFERS
        BY <3>1, Zenon DEF Slotted
      <4>3. o.slot[k].serial \in 1 .. o.head => o.slot[k].serial \in 1 .. o'.head
        BY <1>0, <2>1
      <4> QED BY <4>1, <4>2, <4>3, Zenon
    <3> QED BY <3>2, <3>3
  <2>7. flooded' \subseteq 0 .. plays /\ (~crowded' => plays \notin flooded')
    <3>1. flooded \subseteq 0 .. plays /\ (~crowded => plays \notin flooded)
      BY Zenon DEF Slotted, Fits
    <3>2. CASE burst + 1 > MAX_OUTPUT_BUFFERS
      <4>1. flooded' = flooded \cup {plays} /\ burst + 1 > MAX_OUTPUT_BUFFERS - 2
        BY <1>0, <1>2, <3>2 DEF mad_frame, MAX_OUTPUT_BUFFERS
      <4>2. crowded'
        BY <1>2, <4>1, Zenon DEF mad_frame
      <4>3. flooded' \subseteq 0 .. plays
        BY <1>0, <3>1, <4>1
      <4> QED BY <4>2, <4>3, Zenon
    <3>3. CASE ~(burst + 1 > MAX_OUTPUT_BUFFERS)
      <4>1. flooded' = flooded /\ (~crowded' => ~crowded)
        BY <1>2, <3>3, Zenon DEF mad_frame
      <4> QED BY <3>1, <4>1, Zenon
    <3> QED BY <3>2, <3>3
  <2> QED BY <2>2, <2>3, <2>4, <2>6, <2>7, Zenon DEF Slotted, Holding, Fits
<1>3. CASE snd_poll
  <2>1. /\ o.tail < o.head /\ o'.head = o.head /\ o'.tail = o.tail + 1
        /\ o'.slot = o.slot
        /\ buff'.slot = o.tail % MAX_OUTPUT_BUFFERS /\ buff'.frame = o.slot[buff'.slot]
        /\ buff'.frame.play = plays
    BY <1>3, Popped
  <2>2. UNCHANGED <<plays, flooded, crowded>>
    BY <1>3, Zenon DEF snd_poll
  <2>3. \A n \in o'.tail .. o'.head - 1 : n \in o.tail .. o.head - 1
    BY <1>0, <2>1
  <2>4. /\ o'.tail <= o'.head /\ o'.tail - 1 = o.tail /\ 0 < o'.tail
        /\ o'.head <= o'.tail + MAX_OUTPUT_BUFFERS + 1
    BY <1>0, <2>1 DEF MAX_OUTPUT_BUFFERS
  <2>5. buff'.slot = (o'.tail - 1) % MAX_OUTPUT_BUFFERS
    BY <2>1, <2>4, Zenon
  <2>6. \A n \in o'.tail .. o'.head - 1 : o'.slot[n % MAX_OUTPUT_BUFFERS].play = plays'
    BY <2>1, <2>2, <2>3, Zenon DEF Slotted
  <2>7. ASSUME NEW k \in DOMAIN o'.slot
        PROVE  \/ o'.slot[k] = Blank
               \/ /\ o'.slot[k].play = plays' /\ o'.slot[k].serial \in 1 .. o'.head
                  /\ k = (o'.slot[k].serial - 1) % MAX_OUTPUT_BUFFERS
    BY <2>1, <2>2, Zenon DEF Slotted
  <2>8. flooded' \subseteq 0 .. plays' /\ (~crowded' => Fits')
    BY <2>2, Zenon DEF Slotted, Fits
  <2> QED BY <2>1, <2>2, <2>4, <2>5, <2>6, <2>7, <2>8, Zenon DEF Slotted
<1>4. CASE event_play
  <2>1. /\ o'.head = 0 /\ o'.tail = 0 /\ pc' = "event_loop"
        /\ DOMAIN o'.slot = 0 .. MAX_OUTPUT_BUFFERS - 1
        /\ \A k \in 0 .. MAX_OUTPUT_BUFFERS - 1 : o'.slot[k] = Blank
    BY <1>4, EmptyRing DEF event_play, Ring
  <2>2. flooded \subseteq 0 .. plays /\ flooded' = flooded /\ plays' = plays + 1
    BY <1>4, Zenon DEF Slotted, event_play
  <2>3. flooded' \subseteq 0 .. plays' /\ plays' \notin flooded'
    BY <1>0, <2>2
  <2> QED BY <2>1, <2>3 DEF Slotted, Fits, Holding, MAX_OUTPUT_BUFFERS
<1>5. CASE init_next \/ init_running \/ provide_test
  <2>1. pc \in Holding /\ UNCHANGED <<o, buff, plays, flooded, crowded>>
    BY <1>5, Zenon DEF init_next, init_running, provide_test, Holding
  <2> QED BY <2>1 DEF Slotted, Fits
<1>6. CASE dma_complete \/ DMA1_Stream7_IRQHandler \/ provide_wait \/ UNCHANGED vars
  <2>1. UNCHANGED <<o, buff, pc, plays, flooded, crowded>>
    BY <1>6, Zenon DEF dma_complete, DMA1_Stream7_IRQHandler, provide_wait, vars
  <2> QED BY <2>1, Zenon DEF Slotted, Fits
<1> QED BY <1>1, <1>2, <1>3, <1>4, <1>5, <1>6, Zenon DEF Next, main

LEMMA SequencedStep ==
  ASSUME TypeOK, Slotted, Fits => Sequenced, [Next]_vars, Fits'
  PROVE  Sequenced'
<1>0. o.head \in Nat /\ o.tail \in Nat /\ burst \in Nat
  BY Zenon DEF TypeOK
<1>1. CASE event_play
  <2>1. o'.head = 0 /\ o'.tail = 0 /\ pc' = "event_loop"
    BY <1>1, EmptyRing DEF event_play
  <2> QED BY <2>1 DEF Sequenced, Holding, MAX_OUTPUT_BUFFERS
<1> SUFFICES ASSUME ~event_play PROVE Sequenced'
  BY <1>1
<1>2. Sequenced
  BY FitsBefore, Zenon
<1>3. CASE libmad_loop
  <2>1. pc' = "mad_decode" => o.head = o.tail
    BY <1>2, <1>3, OnlyWhenEmpty DEF libmad_loop
  <2>2. /\ pc' \notin Holding /\ o' = o
        /\ pc' = "mad_decode" => o.head = o.tail + burst'
    BY <1>0, <1>3, <2>1 DEF libmad_loop, Holding
  <2> QED BY <1>2, <2>2, Zenon DEF Sequenced
<1>4. ASSUME NEW fmt \in Fmts, mad_frame(fmt) PROVE Sequenced'
  <2>1. burst < MAX_OUTPUT_BUFFERS
    BY <1>4, FitsBefore
  <2>2. /\ o.tail <= o.head /\ o.head = o.tail + burst
        /\ o'.head = o.head + 1 /\ o'.tail = o.tail
    BY <1>2, <1>4, <2>1, DecodedInto, Zenon
  <2>3. /\ o'.slot[o.head % MAX_OUTPUT_BUFFERS] =
             [play |-> plays, serial |-> o.head + 1, fmt |-> fmt]
        /\ \A n \in Nat : n < o.head /\ o.head < n + MAX_OUTPUT_BUFFERS =>
             o'.slot[n % MAX_OUTPUT_BUFFERS] = o.slot[n % MAX_OUTPUT_BUFFERS]
    BY <1>4, Decoded, Zenon
  <2>4. ASSUME NEW n \in o'.tail .. o'.head - 1
        PROVE  o'.slot[n % MAX_OUTPUT_BUFFERS].serial = n + 1
    <3>1. n \in Nat /\ (n = o.head \/ (n < o.head /\ n \in o.tail .. o.head - 1))
      BY <1>0, <2>2
    <3>2. CASE n = o.head
      <4>1. o'.slot[n % MAX_OUTPUT_BUFFERS] = [play |-> plays, serial |-> n + 1, fmt |-> fmt]
        BY <2>3, <3>2, Zenon
      <4> QED BY <4>1
    <3>3. CASE n < o.head /\ n \in o.tail .. o.head - 1
      <4>1. o.head < n + MAX_OUTPUT_BUFFERS
        BY <1>0, <2>1, <2>2, <3>1, <3>3 DEF MAX_OUTPUT_BUFFERS
      <4>2. o'.slot[n % MAX_OUTPUT_BUFFERS] = o.slot[n % MAX_OUTPUT_BUFFERS]
        BY <2>3, <3>1, <3>3, <4>1, Zenon
      <4>3. o.slot[n % MAX_OUTPUT_BUFFERS].serial = n + 1
        BY <1>2, <3>3, Zenon DEF Sequenced
      <4> QED BY <4>2, <4>3, Zenon
    <3> QED BY <3>1, <3>2, <3>3
  <2>5. pc' = "mad_decode" /\ burst' = burst + 1
    BY <1>4 DEF mad_frame
  <2>6. /\ o'.head <= o'.tail + MAX_OUTPUT_BUFFERS
        /\ o'.head = o'.tail + burst'
    BY <1>0, <2>1, <2>2, <2>5 DEF MAX_OUTPUT_BUFFERS
  <2> QED BY <2>4, <2>5, <2>6 DEF Sequenced, Holding
<1>5. CASE snd_poll
  <2>1. /\ o.tail < o.head /\ o'.head = o.head /\ o'.tail = o.tail + 1 /\ o'.slot = o.slot
        /\ buff'.frame.serial = o.tail + 1
        /\ pc' \in {"init_next", "provide", "snd_loop"}
    BY <1>2, <1>5, Popped, Zenon
  <2>2. \A n \in o'.tail .. o'.head - 1 : n \in o.tail .. o.head - 1
    BY <1>0, <2>1
  <2>3. o'.head <= o'.tail + MAX_OUTPUT_BUFFERS
    BY <1>0, <1>2, <2>1 DEF Sequenced, MAX_OUTPUT_BUFFERS
  <2>4. \A n \in o'.tail .. o'.head - 1 : o'.slot[n % MAX_OUTPUT_BUFFERS].serial = n + 1
    BY <1>2, <2>1, <2>2, Zenon DEF Sequenced
  <2> QED BY <2>1, <2>3, <2>4, Zenon DEF Sequenced
<1>6. CASE mad_buflen \/ snd_idle \/ pl_poll \/ event_stop \/ event_none \/ provide_enable
           \/ provide_store \/ snd_init \/ snd_init_running \/ StopAudioDMA \/ snd_init_done
  <2>1. pc' \notin Holding /\ pc' # "mad_decode" /\ o' = o
    BY <1>6, Zenon DEF mad_buflen, snd_idle, pl_poll, event_stop, event_none, provide_enable,
                provide_store, snd_init, snd_init_running, StopAudioDMA, snd_init_done, Holding
  <2> QED BY <1>2, <2>1, Zenon DEF Sequenced
<1>7. CASE init_next \/ init_running \/ provide_test
  <2>1. pc \in Holding /\ pc' # "mad_decode" /\ o' = o /\ buff' = buff
    BY <1>7 DEF init_next, init_running, provide_test, Holding
  <2> QED BY <1>2, <2>1 DEF Sequenced
<1>8. CASE dma_complete \/ DMA1_Stream7_IRQHandler \/ provide_wait \/ UNCHANGED vars
  <2>1. UNCHANGED <<o, buff, pc, burst>>
    BY <1>8 DEF dma_complete, DMA1_Stream7_IRQHandler, provide_wait, vars
  <2> QED BY <1>2, <2>1 DEF Sequenced
<1> QED BY <1>3, <1>4, <1>5, <1>6, <1>7, <1>8 DEF Next, main

-----------------------------------------------------------------------------
(* What a step does to the number of the last frame provided.              *)
LEMMA ProvidedStep ==
  ASSUME TypeOK, Slotted, [Next]_vars
  PROVE  /\ Provided \in Int
         /\ ~event_play => Provided' \in Int /\ Provided <= Provided'
         /\ provide_store => Provided = o.tail - 1 /\ Provided' = o.tail
         /\ snd_poll => Provided = o.tail /\ Provided' \in {o.tail, o.tail + 1}
         /\ snd_poll /\ Provided' = o.tail + 1 => buff'.frame.fmt = 0
<1>0. o.head \in Nat /\ o.tail \in Nat
  BY DEF TypeOK
<1>1. Provided \in Int
  BY <1>0 DEF Provided
<1>2. ASSUME NEW fmt \in Fmts, mad_frame(fmt)
      PROVE  /\ Provided' \in Int /\ Provided <= Provided'
             /\ ~provide_store /\ ~snd_poll
  <2>1. pc' = "mad_decode" /\ pc = "mad_decode"
    BY <1>2, Zenon DEF mad_frame
  <2>2. o'.tail \in {o.tail, o.tail + 1}
    BY <1>2, Decoded, Zenon
  <2>3. Provided = o.tail /\ Provided' = o'.tail
    BY <2>1, Zenon DEF Provided, Holding
  <2> QED BY <1>0, <2>1, <2>2, <2>3 DEF provide_store, snd_poll
<1>3. CASE snd_poll
  <2>1. o'.tail = o.tail + 1 /\ pc = "snd_loop"
        /\ (pc' \in {"init_next", "provide"} \/ (pc' = "snd_loop" /\ buff'.frame.fmt = 0))
    BY <1>3, Popped DEF snd_poll
  <2>2. /\ Provided = o.tail
        /\ pc' \in {"init_next", "provide"} => Provided' = o.tail
        /\ pc' = "snd_loop" => Provided' = o.tail + 1
    BY <1>0, <2>1 DEF Provided, Holding
  <2>3. ~provide_store /\ ~event_play
    BY <2>1 DEF provide_store, event_play
  <2> QED BY <1>0, <1>3, <2>1, <2>2, <2>3
<1>4. CASE provide_store
  <2>1. Provided = o.tail - 1 /\ Provided' = o.tail
    BY <1>4 DEF provide_store, Provided, Holding
  <2>2. ~snd_poll /\ ~event_play
    BY <1>4 DEF provide_store, event_play, snd_poll
  <2> QED BY <1>0, <1>4, <2>1, <2>2
<1>5. CASE event_play
  <2>1. ~snd_poll /\ ~provide_store
    BY <1>5 DEF provide_store, event_play, snd_poll
  <2> QED BY <1>1, <1>5, <2>1
<1>6. ASSUME libmad_loop \/ mad_buflen \/ snd_idle \/ pl_poll \/ event_stop \/ event_none
             \/ provide_enable \/ snd_init \/ snd_init_running \/ StopAudioDMA \/ snd_init_done
      PROVE  Provided' = Provided
  <2>1. o' = o /\ pc \notin Holding /\ pc' \notin Holding
    BY <1>6, Zenon DEF libmad_loop, mad_buflen, snd_idle, pl_poll, event_stop, event_none,
                provide_enable, snd_init, snd_init_running, StopAudioDMA, snd_init_done, Holding
  <2> QED BY <2>1 DEF Provided
<1>7. ASSUME init_next \/ init_running \/ provide_test
      PROVE  Provided' = Provided
  <2>1. o' = o /\ pc \in Holding /\ pc' \in Holding
    BY <1>7 DEF init_next, init_running, provide_test, Holding
  <2> QED BY <2>1 DEF Provided
<1>8. ASSUME dma_complete \/ DMA1_Stream7_IRQHandler \/ provide_wait \/ UNCHANGED vars
      PROVE  Provided' = Provided
  <2>1. o' = o /\ pc' = pc
    BY <1>8 DEF dma_complete, DMA1_Stream7_IRQHandler, provide_wait, vars
  <2> QED BY <2>1 DEF Provided
<1>9. \/ snd_poll \/ provide_store \/ event_play \/ Provided' = Provided
      \/ \E fmt \in Fmts : mad_frame(fmt)
  BY <1>6, <1>7, <1>8 DEF Next, main
<1>10. CASE ~snd_poll /\ ~provide_store /\ Provided' = Provided
  BY <1>1, <1>10
<1> QED BY <1>1, <1>2, <1>3, <1>4, <1>5, <1>9, <1>10

LEMMA OrderedInit == Init => Ordered
<1> SUFFICES ASSUME Init PROVE Ordered
  OBVIOUS
<1>1. o.tail = 0
  BY EmptyRing, Zenon DEF Init
<1>2. started = Blank /\ plays = 0 /\ dma = NoBuffer /\ next = NoBuffer /\ pc \notin Holding
  BY Zenon DEF Init, Holding
<1> QED BY <1>1, <1>2 DEF Ordered, Provided, Blank

(* A step that starts no transfer and provides no buffer.                  *)
LEMMA StillOrdered ==
  ASSUME TypeOK, Ordered, UNCHANGED <<started, plays>>, flooded \subseteq flooded',
         dma' \in {dma, NoBuffer}, next' \in {next, NoBuffer},
         Provided \in Int, Provided' \in Int, Provided <= Provided'
  PROVE  Ordered'
<1>1. started.serial \in Nat /\ next.frame.serial \in Nat
  BY Zenon DEF TypeOK, Buffers, Frames
<1>2. /\ started'.play <= plays'
      /\ Fits' /\ started'.play = plays' => started'.serial <= Provided'
  BY <1>1 DEF Ordered, Fits
<1>3. dma' # NoBuffer => dma'.frame = started'
  BY Zenon DEF Ordered
<1>4. next' # NoBuffer =>
        /\ next' = next /\ started.play <= next.frame.play /\ next.frame.play <= plays
        /\ next.frame.play \notin flooded' => After(next.frame, started)
  BY Zenon DEF Ordered
<1>5. next' # NoBuffer => (Fits' /\ next'.frame.play = plays' => next'.frame.serial <= Provided')
  BY <1>1 DEF Ordered, Fits
<1> QED BY <1>2, <1>3, <1>4, <1>5, Zenon DEF Ordered, After

LEMMA OrderedStep ==
  ASSUME TypeOK, Wakes, Slotted, Fits => Sequenced, Ordered, [Next]_vars
  PROVE  Ordered'
<1>0. /\ o.tail \in Nat /\ plays \in Nat
      /\ started.play \in Nat /\ started.serial \in Nat
      /\ next.frame.play \in Nat /\ next.frame.serial \in Nat
  BY Zenon DEF TypeOK, Buffers, Frames
<1>1. CASE event_play
  <2>1. UNCHANGED <<started, dma, next, flooded>> /\ plays' = plays + 1
    BY <1>1 DEF event_play, audio
  <2>2. started.play < plays' /\ (next # NoBuffer => next.frame.play < plays')
    BY <1>0, <2>1 DEF Ordered
  <2>3. started'.play < plays' /\ (next' # NoBuffer => next'.frame.play < plays')
    BY <2>1, <2>2
  <2>4. started'.play <= plays' /\ started'.play # plays'
        /\ (next' # NoBuffer => next'.frame.play <= plays' /\ next'.frame.play # plays')
    BY <1>0, <2>1, <2>3
  <2> QED BY <2>1, <2>4 DEF Ordered, After
<1>2. CASE provide_store
  <2>1. /\ UNCHANGED <<plays, flooded>> /\ Provided = o.tail - 1 /\ Provided' = o.tail
        /\ pc \in Holding /\ next = NoBuffer
    BY <1>2, ProvidedStep DEF provide_store, Holding, Wakes
  <2>2. buff.frame.play = plays /\ (Fits => buff.frame.serial = o.tail)
    BY <2>1, Zenon DEF Slotted, Sequenced
  <2>5. Fits' = Fits
    BY <2>1 DEF Fits
  <2>3. CASE running
    <3>1. next' = buff /\ UNCHANGED <<dma, started>>
      BY <1>2, <2>3, Zenon DEF provide_store
    <3>2. started.play <= buff.frame.play /\ (Fits => After(buff.frame, started))
      BY <1>0, <2>1, <2>2 DEF After, Ordered
    <3>3. /\ started'.play <= next'.frame.play
          /\ next'.frame.play \notin flooded' => After(next.frame, started)'
      BY <2>1, <2>2, <3>1, <3>2, Zenon DEF After, Fits
    <3>4. /\ started'.play <= plays'
          /\ Fits' /\ started'.play = plays' => started'.serial <= Provided'
      BY <1>0, <2>1, <2>5, <3>1 DEF Ordered
    <3>5. next'.frame.play <= plays' /\ (Fits' => next'.frame.serial <= Provided')
      BY <1>0, <2>1, <2>2, <2>5, <3>1
    <3>6. dma' # NoBuffer => dma'.frame = started'
      BY <3>1, Zenon DEF Ordered
    <3> QED BY <3>3, <3>4, <3>5, <3>6, Zenon DEF Ordered
  <2>4. CASE ~running
    <3>1. next' = NoBuffer /\ dma' = buff /\ started' = buff.frame
      BY <1>2, <2>4, Zenon DEF provide_store, StartAudioDMA
    <3>2. started'.play <= plays' /\ (Fits' => started'.serial <= Provided')
      BY <1>0, <2>1, <2>2, <2>5, <3>1
    <3> QED BY <3>1, <3>2, Zenon DEF Ordered
  <2> QED BY <2>3, <2>4
<1>3. CASE DMA1_Stream7_IRQHandler
  <2>1. plays' = plays /\ flooded' = flooded /\ Provided' = Provided
    BY <1>3, Zenon DEF DMA1_Stream7_IRQHandler, Provided
  <2>2. CASE next # NoBuffer
    <3>1. next' = NoBuffer /\ dma' = next /\ started' = next.frame
      BY <1>3, <2>2, Zenon DEF DMA1_Stream7_IRQHandler, StartAudioDMA
    <3> QED BY <2>1, <2>2, <3>1, Zenon DEF Ordered, Fits
  <2>3. CASE next = NoBuffer
    <3>1. UNCHANGED <<next, dma, started>>
      BY <1>3, <2>3, Zenon DEF DMA1_Stream7_IRQHandler
    <3> QED BY <2>1, <3>1, Zenon DEF Ordered, After, Fits
  <2> QED BY <2>2, <2>3, Zenon
<1>4. CASE ~event_play /\ ~provide_store /\ ~DMA1_Stream7_IRQHandler
  <2>1. UNCHANGED <<started, plays>> /\ dma' \in {dma, NoBuffer} /\ next' \in {next, NoBuffer}
    BY <1>4, Zenon DEF Next, main, libmad_loop, mad_frame, mad_buflen, snd_idle, snd_poll,
                init_next, init_running, provide_test, provide_wait, provide_enable, pl_poll,
                event_stop, event_none, snd_init, snd_init_running, StopAudioDMA, snd_init_done,
                dma_complete, vars, audio
  <2>2. Provided \in Int /\ Provided' \in Int /\ Provided <= Provided'
    BY <1>4, ProvidedStep
  <2> QED BY <1>4, <2>1, <2>2, StillOrdered, MoreFlooded, Zenon
<1> QED BY <1>1, <1>2, <1>3, <1>4, Zenon

-----------------------------------------------------------------------------
LEMMA SteadyInit == Init => Steady
<1> SUFFICES ASSUME Init PROVE Steady
  OBVIOUS
<1>0. /\ DOMAIN o.slot = 0 .. MAX_OUTPUT_BUFFERS - 1
      /\ \A k \in 0 .. MAX_OUTPUT_BUFFERS - 1 : o.slot[k] = Blank
  BY EmptyRing DEF Init, Ring
<1>1. \A k \in DOMAIN o.slot : o.slot[k].fmt = 0
  BY <1>0 DEF Blank
<1>2. dma = NoBuffer /\ pending = FALSE /\ pc = "libmad_loop"
  BY DEF Init
<1> QED BY <1>1, <1>2 DEF Steady, Resetting

(* The third part of Steady: nothing that can be played is passed over.    *)
PassedOver ==
  \A k \in DOMAIN o.slot :
    LET passed == o.slot[k]
    IN  passed.play = plays /\ passed.serial <= Provided /\ After(passed, started)
          => passed.fmt = 0 \/ passed = next.frame

(* The slots are numbered: a frame of the source has but one place.        *)
LEMMA OnePlace ==
  ASSUME TypeOK, Slotted, NEW k \in DOMAIN o.slot, NEW n \in Nat,
         o.slot[k].serial = n + 1
  PROVE  o.slot[k] = o.slot[n % MAX_OUTPUT_BUFFERS]
<1>1. o.slot[k] # Blank
  BY DEF Blank
<1>2. k = (o.slot[k].serial - 1) % MAX_OUTPUT_BUFFERS
  BY <1>1, Zenon DEF Slotted
<1>3. o.slot[k].serial - 1 = n
  OBVIOUS
<1> QED BY <1>2, <1>3, Zenon

(* A step that starts no transfer, provides no buffer and decodes no frame.*)
LEMMA StillPassedOver ==
  ASSUME PassedOver, Provided' = Provided, UNCHANGED <<o, plays, started, next>>
  PROVE  PassedOver'
  BY Zenon DEF PassedOver, After

LEMMA PassedOverStep ==
  ASSUME TypeOK, Wakes, Slotted, Ordered, Fits => Sequenced /\ PassedOver,
         [Next]_vars, Fits', ~init_next, ~snd_init
  PROVE  PassedOver'
<1>5. CASE event_play
  <2>1. /\ DOMAIN o'.slot = 0 .. MAX_OUTPUT_BUFFERS - 1
        /\ \A k \in 0 .. MAX_OUTPUT_BUFFERS - 1 : o'.slot[k] = Blank
    BY <1>5, EmptyRing, Zenon DEF event_play, Ring
  <2>2. \A k \in DOMAIN o'.slot : o'.slot[k].fmt = 0
    BY <2>1 DEF Blank
  <2> QED BY <2>2, Zenon DEF PassedOver
<1> SUFFICES ASSUME ~event_play PROVE PassedOver'
  BY <1>5, Zenon
<1>7. Fits /\ Sequenced /\ PassedOver
  BY FitsBefore, Zenon
<1>0. /\ o.head \in Nat /\ o.tail \in Nat /\ plays \in Nat
      /\ started \in Frames /\ next.frame \in Frames
      /\ DOMAIN o.slot = 0 .. MAX_OUTPUT_BUFFERS - 1
      /\ \A k \in DOMAIN o.slot : o.slot[k] \in Frames
  BY Zenon DEF TypeOK, Buffers
<1>1. ASSUME NEW fmt \in Fmts, mad_frame(fmt) PROVE PassedOver'
  <2>1. /\ o.tail <= o.head /\ o'.tail = o.tail
        /\ o'.slot[o.head % MAX_OUTPUT_BUFFERS].serial = o.head + 1
        /\ \A k \in DOMAIN o.slot : k # o.head % MAX_OUTPUT_BUFFERS => o'.slot[k] = o.slot[k]
    <3>1. /\ o'.slot[o.head % MAX_OUTPUT_BUFFERS] =
               [play |-> plays, serial |-> o.head + 1, fmt |-> fmt]
          /\ \A k \in DOMAIN o.slot : k # o.head % MAX_OUTPUT_BUFFERS => o'.slot[k] = o.slot[k]
      BY <1>1, Decoded
    <3>2. burst < MAX_OUTPUT_BUFFERS
      BY <1>1, FitsBefore
    <3>3. o.tail <= o.head /\ o'.tail = o.tail
      BY <1>1, <1>7, <3>2, DecodedInto, Zenon
    <3> QED BY <3>1, <3>3
  <2>2. UNCHANGED <<plays, started, next, pc>> /\ pc = "mad_decode"
    BY <1>1, Zenon DEF mad_frame, audio
  <2>3. Provided = o.tail /\ Provided' = o.tail
    BY <2>1, <2>2, Zenon DEF Provided, Holding
  <2>4. DOMAIN o'.slot = DOMAIN o.slot
    <3>1. TypeOK'
      BY TypeStep, Zenon
    <3> QED BY <1>0, <3>1 DEF TypeOK
  <2>5. SUFFICES ASSUME NEW k \in DOMAIN o.slot, o'.slot[k].play = plays,
                        o'.slot[k].serial <= o.tail, After(o'.slot[k], started)
                 PROVE  o'.slot[k].fmt = 0 \/ o'.slot[k] = next.frame
    BY <2>2, <2>3, <2>4, Zenon DEF PassedOver, After
  <2>6. k # o.head % MAX_OUTPUT_BUFFERS
    BY <1>0, <2>1, <2>5
  <2>7. o'.slot[k] = o.slot[k]
    BY <2>1, <2>6, Zenon
  <2> QED BY <1>7, <2>3, <2>5, <2>7 DEF PassedOver
<1>2. CASE snd_poll
  <2>1. /\ o'.slot = o.slot /\ UNCHANGED <<plays, started, next>>
        /\ buff'.frame = o.slot[o.tail % MAX_OUTPUT_BUFFERS]
    BY <1>2, Popped, Zenon DEF snd_poll, audio
  <2>2. /\ Provided = o.tail /\ Provided' \in {o.tail, o.tail + 1}
        /\ Provided' = o.tail + 1 => buff'.frame.fmt = 0
    BY <1>2, ProvidedStep, Zenon
  <2>3. SUFFICES ASSUME NEW k \in DOMAIN o.slot, o.slot[k].play = plays,
                        o.slot[k].serial <= Provided', After(o.slot[k], started)
                 PROVE  o.slot[k].fmt = 0 \/ o.slot[k] = next.frame
    BY <2>1, Zenon DEF PassedOver, After
  <2>4. CASE o.slot[k].serial <= o.tail
    BY <1>7, <2>2, <2>3, <2>4, Zenon DEF PassedOver
  <2>5. CASE ~(o.slot[k].serial <= o.tail)
    <3>1. o.slot[k].serial = o.tail + 1 /\ Provided' = o.tail + 1
      BY <1>0, <2>2, <2>3, <2>5 DEF Frames
    <3>2. o.slot[k] = buff'.frame
      BY <1>0, <2>1, <3>1, OnePlace
    <3> QED BY <2>2, <3>1, <3>2, Zenon
  <2> QED BY <2>4, <2>5, Zenon
<1>3. CASE provide_store
  <2>1. /\ UNCHANGED <<plays, o>> /\ Provided = o.tail - 1 /\ Provided' = o.tail
        /\ pc \in Holding /\ next = NoBuffer
    BY <1>3, ProvidedStep DEF provide_store, Holding, Wakes
  <2>2. /\ 0 < o.tail /\ buff.frame.play = plays /\ buff.frame.serial = o.tail
        /\ buff.slot = (o.tail - 1) % MAX_OUTPUT_BUFFERS
        /\ o.slot[buff.slot] = buff.frame
    BY <1>7, <2>1, Zenon DEF Slotted, Sequenced
  <2>3. CASE running
    <3>1. next' = buff /\ started' = started
      BY <1>3, <2>3, Zenon DEF provide_store
    <3>2. SUFFICES ASSUME NEW k \in DOMAIN o.slot, o.slot[k].play = plays,
                          o.slot[k].serial <= o.tail, After(o.slot[k], started)
                   PROVE  o.slot[k].fmt = 0 \/ o.slot[k] = buff.frame
      BY <2>1, <3>1 DEF PassedOver, After
    <3>3. CASE o.slot[k].serial = o.tail
      <4>1. PICK n \in Nat : n = o.tail - 1
        BY <1>0, <2>2
      <4>2. o.slot[k].serial = n + 1
        BY <1>0, <3>3, <4>1
      <4>3. o.slot[k] = o.slot[n % MAX_OUTPUT_BUFFERS]
        BY <4>2, OnePlace, Zenon
      <4> QED BY <2>2, <4>1, <4>3, Zenon
    <3>4. CASE o.slot[k].serial # o.tail
      <4>0. o.slot[k].serial \in Nat
        BY <1>0, Zenon DEF Frames
      <4>1. o.slot[k].serial <= Provided
        BY <1>0, <2>1, <3>2, <3>4, <4>0
      <4>2. o.slot[k].fmt = 0 \/ o.slot[k] = NoBuffer.frame
        BY <1>7, <2>1, <3>2, <4>1, Zenon DEF PassedOver
      <4> QED BY <4>2 DEF NoBuffer, Blank
    <3> QED BY <3>3, <3>4, Zenon
  <2>4. CASE ~running
    <3>1. started' = buff.frame
      BY <1>3, <2>4, Zenon DEF provide_store, StartAudioDMA
    <3>2. ASSUME NEW k \in DOMAIN o.slot, o.slot[k].play = plays,
                 o.slot[k].serial <= o.tail, After(o.slot[k], buff.frame)
          PROVE  FALSE
      BY <1>0, <2>2, <3>2 DEF After, Frames
    <3> QED BY <2>1, <3>1, <3>2, Zenon DEF PassedOver, After
  <2> QED BY <2>3, <2>4
<1>4. CASE DMA1_Stream7_IRQHandler
  <2>1. UNCHANGED <<plays, o>> /\ Provided' = Provided
    BY <1>4 DEF DMA1_Stream7_IRQHandler, Provided
  <2>2. CASE next # NoBuffer
    <3>1. started' = next.frame
      BY <1>4, <2>2, Zenon DEF DMA1_Stream7_IRQHandler, StartAudioDMA
    <3>2. ASSUME NEW k \in DOMAIN o.slot, o.slot[k].play = plays,
                 o.slot[k].serial <= Provided, After(o.slot[k], next.frame)
          PROVE  o.slot[k].fmt = 0
      <4>1. /\ started.play <= next.frame.play /\ next.frame.play <= plays
            /\ next.frame.play = plays => After(next.frame, started)
        BY <1>7, <2>2, Zenon DEF Ordered, Fits
      <4>2. After(o.slot[k], started)
        BY <1>0, <3>2, <4>1 DEF After, Frames
      <4>3. o.slot[k] # next.frame
        BY <1>0, <3>2 DEF After, Frames
      <4> QED BY <1>7, <3>2, <4>2, <4>3 DEF PassedOver
    <3> QED BY <2>1, <3>1, <3>2, Zenon DEF PassedOver, After
  <2>3. CASE next = NoBuffer
    <3>1. UNCHANGED <<next, started>>
      BY <1>4, <2>3, Zenon DEF DMA1_Stream7_IRQHandler
    <3> QED BY <1>7, <2>1, <3>1, StillPassedOver
  <2> QED BY <2>2, <2>3
<1>6. CASE libmad_loop \/ mad_buflen \/ snd_idle \/ init_running \/ provide_test
           \/ provide_wait \/ provide_enable \/ pl_poll \/ event_stop \/ event_none
           \/ dma_complete \/ snd_init_running \/ StopAudioDMA \/ snd_init_done
           \/ UNCHANGED vars
  <2>1. UNCHANGED <<o, plays, started, next>> /\ (pc \in Holding <=> pc' \in Holding)
    BY <1>6, Zenon DEF libmad_loop, mad_buflen, snd_idle, init_running, provide_test, provide_wait,
                provide_enable, pl_poll, event_stop, event_none, dma_complete,
                snd_init_running, StopAudioDMA, snd_init_done, vars, audio, Holding
  <2>2. Provided' = Provided
    BY <2>1 DEF Provided
  <2> QED BY <1>7, <2>1, <2>2, StillPassedOver, Zenon
<1> QED BY <1>1, <1>2, <1>3, <1>4, <1>6, Zenon DEF Next, main

LEMMA SteadyStep ==
  ASSUME TypeOK, Wakes, Slotted, Fits => Sequenced, Ordered, Steady, [Next]_vars
  PROVE  Steady'
<1> DEFINE Reset == {"init_running"} \cup Resetting
<1> SUFFICES ASSUME ~redone'
             PROVE  /\ (dma # NoBuffer => running /\ ~pending)' /\ (pending => running)'
                    /\ (pc \notin Reset)' /\ (Fits => PassedOver)'
  BY DEF Steady, PassedOver
<1>1. ~redone /\ ~init_next /\ ~snd_init
  <2>1. ~init_next /\ ~snd_init
    BY DEF init_next, snd_init
  <2>2. redone' = redone
    BY <2>1, Zenon DEF Next, main, libmad_loop, mad_frame, mad_buflen, snd_idle, snd_poll,
         init_running, provide_test, provide_wait, provide_store, provide_enable, pl_poll,
         event_play, event_stop, event_none, snd_init_running, StopAudioDMA, snd_init_done,
         dma_complete, DMA1_Stream7_IRQHandler, vars
  <2> QED BY <2>1, <2>2
<1>2. /\ dma # NoBuffer => running /\ ~pending
      /\ pending => running
      /\ pc \notin Reset /\ (Fits => PassedOver)
  BY <1>1 DEF Steady, PassedOver
<1>3. (Fits => PassedOver)'
  BY <1>1, <1>2, PassedOverStep
<1>4. CASE provide_store
  <2>1. pc' \notin Reset
    BY <1>4 DEF provide_store, Resetting
  <2>2. CASE running
    <3>1. UNCHANGED <<running, dma, pending>>
      BY <1>4, <2>2 DEF provide_store
    <3> QED BY <1>2, <1>3, <2>1, <3>1
  <2>3. CASE ~running
    <3>1. dma = NoBuffer /\ pending = FALSE
      BY <1>2, <2>3, Zenon DEF TypeOK
    <3>2. running' = TRUE /\ pending' = FALSE
      BY <1>4, <2>3, <3>1, Zenon DEF provide_store, StartAudioDMA
    <3> QED BY <1>3, <2>1, <3>2
  <2> QED BY <2>2, <2>3
<1>5. CASE DMA1_Stream7_IRQHandler
  <2>1. pc' = pc /\ dma = NoBuffer
    BY <1>2, <1>5, Zenon DEF DMA1_Stream7_IRQHandler
  <2>2. pending' = FALSE /\ (dma' # NoBuffer => running')
    BY <1>5, <2>1, Zenon DEF DMA1_Stream7_IRQHandler, StartAudioDMA
  <2> QED BY <1>2, <1>3, <2>1, <2>2, Zenon
<1>6. CASE dma_complete
  BY <1>2, <1>3, <1>6 DEF dma_complete
<1>7. CASE ~provide_store /\ ~DMA1_Stream7_IRQHandler /\ ~dma_complete
  <2>1. UNCHANGED <<running, dma, pending>> /\ pc' \notin Reset
    BY <1>1, <1>2, <1>7, Zenon
       DEF Next, main, libmad_loop, mad_frame, mad_buflen, snd_idle, snd_poll, init_running,
           provide_test, provide_wait, provide_enable, pl_poll, event_play, event_stop,
           event_none, snd_init_running, StopAudioDMA, snd_init_done, Resetting, vars, audio
  <2> QED BY <1>2, <1>3, <2>1
<1> QED BY <1>4, <1>5, <1>6, <1>7

-----------------------------------------------------------------------------
LEMMA SparseInit == Init => Sparse
  BY EmptyRing DEF Init, Sparse, Holding

LEMMA SparseStep ==
  ASSUME TypeOK, Slotted, Fits => Sequenced, LeavesTwo => Sparse, [Next]_vars, LeavesTwo'
  PROVE  Sparse'
<1>0. o.head \in Nat /\ o.tail \in Nat
  BY DEF TypeOK
<1>1. CASE event_play
  <2>1. o'.head = 0 /\ o'.tail = 0 /\ pc' = "event_loop"
    BY <1>1, EmptyRing DEF event_play
  <2> QED BY <2>1 DEF Sparse, Holding
<1> SUFFICES ASSUME ~event_play PROVE Sparse'
  BY <1>1, Zenon
<1>2. Sequenced /\ Sparse
  BY LeftTwo, Zenon DEF Slotted, LeavesTwo
<1>3. ASSUME NEW fmt \in Fmts, mad_frame(fmt) PROVE Sparse'
  <2>6. /\ o'.slot[o.head % MAX_OUTPUT_BUFFERS] =
             [play |-> plays, serial |-> o.head + 1, fmt |-> fmt]
        /\ \A n \in Nat : n < o.head /\ o.head < n + MAX_OUTPUT_BUFFERS =>
             o'.slot[n % MAX_OUTPUT_BUFFERS] = o.slot[n % MAX_OUTPUT_BUFFERS]
    BY <1>3, Decoded, Zenon
  <2>2. burst < 2 /\ fmt # 0 /\ burst \in Nat
    BY <1>3, LeftTwo, Zenon DEF TypeOK
  <2>7. /\ o.tail <= o.head /\ o.head = o.tail + burst
        /\ o'.head = o.head + 1 /\ o'.tail = o.tail
    <3>1. burst < MAX_OUTPUT_BUFFERS
      BY <2>2 DEF MAX_OUTPUT_BUFFERS
    <3> QED BY <1>2, <1>3, <3>1, DecodedInto, Zenon
  <2>1. o.head < o.tail + 2 /\ o.tail <= o.head /\ o'.head = o.head + 1 /\ o'.tail = o.tail
    BY <1>0, <2>2, <2>7
  <2>3. ASSUME NEW n \in o'.tail .. o'.head - 1
        PROVE  o'.slot[n % MAX_OUTPUT_BUFFERS].fmt # 0
    <3>1. n \in Nat /\ (n = o.head \/ (n < o.head /\ n \in o.tail .. o.head - 1))
      BY <1>0, <2>1
    <3>2. CASE n = o.head
      <4>1. o'.slot[n % MAX_OUTPUT_BUFFERS] = [play |-> plays, serial |-> o.head + 1, fmt |-> fmt]
        BY <2>6, <3>2, Zenon
      <4> QED BY <2>2, <4>1
    <3>3. CASE n < o.head /\ n \in o.tail .. o.head - 1
      <4>1. o.head < n + MAX_OUTPUT_BUFFERS
        BY <1>0, <2>1, <2>2, <3>1, <3>3 DEF MAX_OUTPUT_BUFFERS
      <4>2. o'.slot[n % MAX_OUTPUT_BUFFERS] = o.slot[n % MAX_OUTPUT_BUFFERS]
        BY <2>6, <3>1, <3>3, <4>1, Zenon
      <4>3. o.slot[n % MAX_OUTPUT_BUFFERS].fmt # 0
        BY <1>2, <3>3, Zenon DEF Sparse
      <4> QED BY <4>2, <4>3, Zenon
    <3> QED BY <3>1, <3>2, <3>3, Zenon
  <2>4. pc' \notin Holding
    BY <1>3, Zenon DEF mad_frame, Holding
  <2>5. o'.head <= o'.tail + 2
    BY <1>0, <2>1
  <2> QED BY <2>3, <2>4, <2>5, Zenon DEF Sparse
<1>4. CASE snd_poll
  <2>1. o'.head = o.head /\ o'.tail = o.tail + 1 /\ o'.slot = o.slot
    BY <1>4, Popped, Zenon
  <2>2. o'.head <= o'.tail + 1 /\ o'.head <= o'.tail + 2
    BY <1>0, <1>2, <2>1 DEF Sparse
  <2>3. \A n \in o'.tail .. o'.head - 1 : n \in o.tail .. o.head - 1
    BY <1>0, <2>1
  <2>4. \A n \in o'.tail .. o'.head - 1 : o.slot[n % MAX_OUTPUT_BUFFERS].fmt # 0
    BY <1>2, <2>3, Zenon DEF Sparse
  <2> QED BY <2>1, <2>2, <2>4, Zenon DEF Sparse
<1>5. CASE libmad_loop \/ mad_buflen \/ snd_idle \/ pl_poll \/ event_stop \/ event_none
           \/ provide_enable \/ provide_store \/ snd_init \/ snd_init_running \/ StopAudioDMA
           \/ snd_init_done
  <2>1. pc' \notin Holding /\ o' = o
    BY <1>5, Zenon DEF libmad_loop, mad_buflen, snd_idle, pl_poll, event_stop, event_none,
                provide_enable, provide_store, snd_init, snd_init_running, StopAudioDMA,
                snd_init_done, Holding
  <2> QED BY <1>2, <2>1, Zenon DEF Sparse
<1>6. CASE init_next \/ init_running \/ provide_test
  <2>1. pc \in Holding /\ o' = o
    BY <1>6 DEF init_next, init_running, provide_test, Holding
  <2> QED BY <1>2, <2>1 DEF Sparse
<1>7. CASE dma_complete \/ DMA1_Stream7_IRQHandler \/ provide_wait \/ UNCHANGED vars
  <2>1. UNCHANGED <<o, pc>>
    BY <1>7 DEF dma_complete, DMA1_Stream7_IRQHandler, provide_wait, vars
  <2> QED BY <1>2, <2>1 DEF Sparse
<1> QED BY <1>3, <1>4, <1>5, <1>6, <1>7 DEF Next, main

-----------------------------------------------------------------------------
LEMMA RecentInit == Init => Recent
  BY NoBufferType, Zenon DEF Init, Recent, Placed, InUse, NoBuffer, Blank

(* A step that leaves the ring, the stream and the count of the frames     *)
(* provided alone.                                                         *)
LEMMA StillRecent ==
  ASSUME Recent, Provided' = Provided, o'.slot = o.slot,
         pc \notin {"init_running", "snd_init_running"},
         UNCHANGED <<dma, next, running, plays>>
  PROVE  Recent'
  BY Zenon DEF Recent, Placed, InUse

(* A buffer in use keeps its slot when the decoder writes to another one.  *)
LEMMA DecoderSpares ==
  ASSUME TypeOK, Slotted, Sequenced, NEW fmt \in Fmts, mad_frame(fmt), burst < 2,
         NEW b \in Buffers, Placed(b), InUse(b)
  PROVE  o'.slot[b.slot] = o.slot[b.slot]
<1>1. o.head \in Nat /\ o.tail \in Nat /\ b.frame.serial \in Nat
  BY Zenon DEF TypeOK, Buffers, Frames
<1>2. /\ o.head < o.tail + 2 /\ o.tail <= o.head
      /\ \A n \in Nat : n < o.head /\ o.head < n + MAX_OUTPUT_BUFFERS =>
           o'.slot[n % MAX_OUTPUT_BUFFERS] = o.slot[n % MAX_OUTPUT_BUFFERS]
  <2>1. \A n \in Nat : n < o.head /\ o.head < n + MAX_OUTPUT_BUFFERS =>
          o'.slot[n % MAX_OUTPUT_BUFFERS] = o.slot[n % MAX_OUTPUT_BUFFERS]
    BY Decoded, Zenon
  <2>2. burst \in Nat /\ burst < MAX_OUTPUT_BUFFERS
    BY DEF TypeOK, MAX_OUTPUT_BUFFERS
  <2>3. o.tail <= o.head /\ o.head = o.tail + burst
    BY <2>2, DecodedInto
  <2>4. o.head < o.tail + 2
    BY <1>1, <2>2, <2>3
  <2> QED BY <2>1, <2>3, <2>4, Zenon
<1>3. Provided = o.tail
  BY DEF mad_frame, Provided, Holding
<1>4. /\ b.frame.serial \in {o.tail - 1, o.tail} /\ b.frame.serial > 0
      /\ b.slot = (b.frame.serial - 1) % MAX_OUTPUT_BUFFERS
  BY <1>3 DEF Placed
<1>5. PICK n \in Nat : n = b.frame.serial - 1
  BY <1>1, <1>4
<1>6. n < o.head /\ o.head < n + MAX_OUTPUT_BUFFERS
  BY <1>1, <1>2, <1>4, <1>5 DEF MAX_OUTPUT_BUFFERS
<1>7. b.slot = n % MAX_OUTPUT_BUFFERS
  BY <1>4, <1>5, Zenon
<1>8. o'.slot[n % MAX_OUTPUT_BUFFERS] = o.slot[n % MAX_OUTPUT_BUFFERS]
  BY <1>2, <1>6, Zenon
<1> QED BY <1>7, <1>8, Zenon

LEMMA RecentStep ==
  ASSUME TypeOK, Wakes, Slotted, Fits => Sequenced, Ordered, LeavesTwo => Sparse /\ Recent,
         [Next]_vars, LeavesTwo'
  PROVE  Recent'
<1>0. /\ o.head \in Nat /\ o.tail \in Nat /\ plays \in Nat
      /\ dma \in Buffers /\ next \in Buffers /\ buff \in Buffers
  BY Zenon DEF TypeOK
<1>6. CASE event_play
  <2>1. plays' = plays + 1 /\ UNCHANGED <<dma, next>>
    BY <1>6, Zenon DEF event_play, audio
  <2>2. /\ dma # NoBuffer => dma.frame.play <= plays
        /\ next # NoBuffer => next.frame.play <= plays
    BY Zenon DEF Ordered
  <2>3. ~InUse(dma)' /\ ~InUse(next)'
    BY <1>0, <2>1, <2>2 DEF InUse, Buffers, Frames
  <2> QED BY <2>3, Zenon DEF Recent, Placed
<1> SUFFICES ASSUME ~event_play PROVE Recent'
  BY <1>6, Zenon
<1>13. Sequenced /\ Sparse /\ Recent
  BY LeftTwo, Zenon DEF Slotted, LeavesTwo
<1>1. ASSUME NEW fmt \in Fmts, mad_frame(fmt) PROVE Recent'
  <2>1. UNCHANGED <<dma, next, running, plays, pc>> /\ pc = "mad_decode"
    BY <1>1, Zenon DEF mad_frame, audio
  <2>5. burst < 2
    BY <1>1, LeftTwo, Zenon
  <2>2. Provided' = Provided
    <3>1. burst < MAX_OUTPUT_BUFFERS
      BY <2>5 DEF TypeOK, MAX_OUTPUT_BUFFERS
    <3>2. o'.tail = o.tail
      BY <1>1, <1>13, <3>1, DecodedInto, Zenon
    <3> QED BY <2>1, <3>2, Zenon DEF Provided, Holding
  <2>3. \A b \in {dma, next} : InUse(b) => o'.slot[b.slot] = o.slot[b.slot]
    BY <1>13, <1>0, <1>1, <2>5, DecoderSpares, Zenon DEF Recent
  <2>4. Placed(dma)' /\ Placed(next)'
    BY <1>13, <2>1, <2>2, <2>3, Zenon DEF Recent, Placed, InUse
  <2> QED BY <1>13, <2>1, <2>2, <2>4, Zenon DEF Recent, InUse
<1>2. CASE snd_poll
  <2>1. o'.tail = o.tail + 1 /\ o'.slot = o.slot /\ pc' \in {"init_next", "provide"}
    <3>1. /\ o.tail < o.head /\ o'.tail = o.tail + 1 /\ o'.slot = o.slot
          /\ buff'.frame = o.slot[o.tail % MAX_OUTPUT_BUFFERS]
          /\ pc' \in {"init_next", "provide"} \/ (pc' = "snd_loop" /\ buff'.frame.fmt = 0)
      BY <1>2, Popped, Zenon
    <3>2. o.tail \in o.tail .. o.head - 1
      BY <1>0, <3>1
    <3>3. o.slot[o.tail % MAX_OUTPUT_BUFFERS].fmt # 0
      BY <1>13, <3>2, Zenon DEF Sparse
    <3> QED BY <3>1, <3>3, Zenon
  <2>2. pc = "snd_loop" /\ UNCHANGED <<dma, next, running, plays>>
    BY <1>2, Zenon DEF snd_poll, audio
  <2>3. Provided' = Provided
    BY <1>0, <2>1, <2>2 DEF Provided, Holding
  <2> QED BY <1>13, <2>1, <2>2, <2>3, StillRecent, Zenon
<1>3. CASE init_next
  <2>1. next' = NoBuffer /\ NoBuffer.frame.play = 0
    BY <1>3, Zenon DEF init_next, NoBuffer, Blank
  <2>2. UNCHANGED <<dma, plays, o>> /\ Provided' = Provided /\ pc' = "init_running"
    BY <1>3, Zenon DEF init_next, Provided, Holding
  <2> QED BY <1>13, <1>0, <2>1, <2>2, Zenon DEF Recent, Placed, InUse
<1>4. CASE init_running
  <2>1. UNCHANGED <<dma, next, plays, o>> /\ Provided' = Provided /\ running' = FALSE
    BY <1>4 DEF init_running, Provided, Holding
  <2> QED BY <1>13, <2>1 DEF Recent, Placed, InUse
<1>5. CASE provide_store
  <2>1. next = NoBuffer /\ buff # NoBuffer /\ UNCHANGED <<plays, o>> /\ pc = "provide_store"
    BY <1>5, NoBufferType, Zenon DEF provide_store, Wakes, Holding
  <2>2. Provided = o.tail - 1 /\ Provided' = o.tail
    BY <1>5 DEF provide_store, Provided, Holding
  <2>3. /\ buff.frame.play = plays /\ buff.frame.serial = o.tail
        /\ buff.slot = (o.tail - 1) % MAX_OUTPUT_BUFFERS
        /\ o.slot[buff.slot] = buff.frame /\ 0 < o.tail
    <3>1. pc \in Holding
      BY <2>1, Zenon DEF Holding
    <3> QED BY <1>13, <3>1, Zenon DEF Slotted, Sequenced
  <2>5. CASE running
    <3>1. next' = buff /\ UNCHANGED <<running, dma>>
      BY <1>5, <2>5, Zenon DEF provide_store
    <3>2. InUse(dma) => dma.frame.serial = o.tail - 1
      BY <1>13, <2>1, <2>2, <2>5, Zenon DEF Recent
    <3>3. Placed(next)'
      BY <2>1, <2>2, <2>3, <3>1, Zenon DEF Placed, InUse
    <3>4. Placed(dma)'
      BY <1>13, <1>0, <2>1, <2>2, <3>1, <3>2, Zenon DEF Recent, Placed, InUse
    <3> QED BY <1>13, <1>0, <2>1, <2>2, <2>3, <3>1, <3>3, <3>4, Zenon DEF Recent, InUse
  <2>6. CASE ~running
    <3>1. next' = NoBuffer /\ dma' = buff /\ NoBuffer.frame.play = 0
      BY <1>5, <2>6, Zenon DEF provide_store, StartAudioDMA, NoBuffer, Blank
    <3>2. Placed(dma)' /\ Placed(next)'
      BY <2>1, <2>2, <2>3, <3>1, Zenon DEF Placed, InUse
    <3>4. dma'.frame.serial = Provided' /\ ~InUse(next)'
      BY <2>2, <2>3, <3>1, Zenon DEF InUse
    <3> QED BY <3>2, <3>4, Zenon DEF Recent
  <2> QED BY <2>5, <2>6, Zenon
<1>7. CASE libmad_loop \/ mad_buflen \/ snd_idle \/ pl_poll \/ event_stop \/ event_none
           \/ provide_enable
  <2>1. /\ UNCHANGED <<dma, next, running, plays, o>>
        /\ pc \notin Holding /\ pc' \notin Holding /\ pc \notin {"init_running", "snd_init_running"}
    BY <1>7, Zenon DEF libmad_loop, mad_buflen, snd_idle, pl_poll, event_stop, event_none,
                provide_enable, Holding, audio
  <2> QED BY <1>13, <2>1, StillRecent, Zenon DEF Provided
<1>8. CASE provide_test
  <2>1. /\ UNCHANGED <<dma, next, running, plays, o>> /\ Provided' = Provided
        /\ pc \notin {"init_running", "snd_init_running"}
    BY <1>8, Zenon DEF provide_test, audio, Provided, Holding
  <2> QED BY <1>13, <2>1, StillRecent, Zenon
<1>9. CASE dma_complete
  <2>1. dma' = NoBuffer /\ UNCHANGED <<next, running, plays, o, pc>> /\ NoBuffer.frame.play = 0
    BY <1>9 DEF dma_complete, NoBuffer, Blank
  <2> QED BY <1>13, <1>0, <2>1, Zenon DEF Recent, Placed, InUse, Provided
<1>10. CASE DMA1_Stream7_IRQHandler
  <2>1. UNCHANGED <<plays, o, pc>> /\ NoBuffer.frame.play = 0
    BY <1>10, Zenon DEF DMA1_Stream7_IRQHandler, NoBuffer, Blank
  <2>2. CASE next # NoBuffer
    <3>1. dma' = next /\ next' = NoBuffer
      BY <1>10, <2>2, Zenon DEF DMA1_Stream7_IRQHandler, StartAudioDMA
    <3> QED BY <1>13, <1>0, <2>1, <3>1, Zenon DEF Recent, Placed, InUse, Provided
  <2>3. CASE next = NoBuffer
    <3>1. running' = FALSE /\ UNCHANGED <<next, dma>>
      BY <1>10, <2>3, Zenon DEF DMA1_Stream7_IRQHandler
    <3> QED BY <1>13, <2>1, <3>1, Zenon DEF Recent, Placed, InUse, Provided
  <2> QED BY <2>2, <2>3, Zenon
<1>11. CASE provide_wait \/ UNCHANGED vars
  <2>1. UNCHANGED <<dma, next, running, plays, o, pc>>
    BY <1>11, Zenon DEF provide_wait, vars, audio
  <2> QED BY <1>13, <2>1, Zenon DEF Recent, Placed, InUse, Provided
<1>12. CASE snd_init
  <2>1. next' = NoBuffer /\ NoBuffer.frame.play = 0
    BY <1>12, Zenon DEF snd_init, NoBuffer, Blank
  <2>2. UNCHANGED <<dma, plays, o>> /\ Provided' = Provided /\ pc' = "snd_init_running"
    BY <1>12, Zenon DEF snd_init, Provided, Holding
  <2> QED BY <1>13, <1>0, <2>1, <2>2, Zenon DEF Recent, Placed, InUse
<1>14. CASE snd_init_running \/ snd_init_done
  <2>1. UNCHANGED <<dma, next, plays, o>> /\ Provided' = Provided /\ running' = FALSE
    BY <1>14, Zenon DEF snd_init_running, snd_init_done, Provided, Holding
  <2> QED BY <1>13, <2>1 DEF Recent, Placed, InUse
<1>15. CASE StopAudioDMA
  <2>1. /\ dma' = NoBuffer /\ UNCHANGED <<next, running, plays, o>> /\ NoBuffer.frame.play = 0
        /\ Provided' = Provided
    BY <1>15 DEF StopAudioDMA, NoBuffer, Blank, Provided, Holding
  <2> QED BY <1>13, <1>0, <2>1, Zenon DEF Recent, Placed, InUse
<1> QED BY <1>1, <1>2, <1>3, <1>4, <1>5, <1>7, <1>8, <1>9, <1>10, <1>11, <1>12, <1>14, <1>15
    DEF Next, main

-----------------------------------------------------------------------------
(***************************************************************************)
(* The invariant holds for any number of frames, sources and formats, and  *)
(* however many frames an input buffer holds.                              *)
(***************************************************************************)
THEOREM AudioInvariant == Spec => []AudioInv
<1>1. Init => AudioInv
  BY TypeInit, WakesInit, SlottedInit, OrderedInit, SteadyInit, SparseInit, RecentInit
     DEF AudioInv
<1>2. AudioInv /\ [Next]_vars => AudioInv'
  <2> SUFFICES ASSUME AudioInv, [Next]_vars PROVE AudioInv'
    OBVIOUS
  <2>1. TypeOK' /\ Wakes' /\ Slotted' /\ Ordered' /\ Steady'
    BY TypeStep, WakesStep, SlottedStep, OrderedStep, SteadyStep, Zenon DEF AudioInv
  <2>3. ASSUME Fits' PROVE Sequenced'
    BY <2>3, SequencedStep, Zenon DEF AudioInv
  <2>2. ASSUME LeavesTwo' PROVE Sparse' /\ Recent'
    BY <2>2, SparseStep, RecentStep DEF AudioInv
  <2> QED BY <2>1, <2>2, <2>3, Zenon DEF AudioInv
<1> QED BY <1>1, <1>2, PTL DEF Spec

(***************************************************************************)
(* What the DMA stream reads is what was decoded, as long as no input      *)
(* buffer of the source has given more than two frames and none of them    *)
(* has lacked a rate.                                                      *)
(***************************************************************************)
THEOREM ProvidedStaysIntact == Spec => []ProvidedIntact
<1>1. AudioInv => ProvidedIntact
  BY Zenon DEF AudioInv, Recent, Placed, ProvidedIntact
<1> QED BY <1>1, AudioInvariant, PTL

(***************************************************************************)
(* A buffer that waits for the DMA stream never waits in vain, whatever    *)
(* the formats and however many frames an input buffer holds.              *)
(***************************************************************************)
THEOREM WakeupNotLost == Spec => []NoLostWakeup
<1>1. AudioInv => NoLostWakeup
  BY DEF AudioInv, Wakes, NoLostWakeup
<1> QED BY <1>1, AudioInvariant, PTL

(* In a step that starts a transfer, what may be passed over is behind it. *)
LEMMA StartInOrder == AudioInv /\ [Next]_vars => InOrder
<1> SUFFICES ASSUME AudioInv, [Next]_vars, dma' # dma, dma' # NoBuffer PROVE InOrder
  BY DEF InOrder
<1>0. TypeOK /\ Wakes /\ Slotted /\ (Fits => Sequenced) /\ Ordered /\ Steady
  BY Zenon DEF AudioInv
<1>1. /\ o.tail \in Nat /\ plays \in Nat /\ started \in Frames /\ next.frame \in Frames
      /\ buff.frame \in Frames /\ \A k \in DOMAIN o.slot : o.slot[k] \in Frames
  BY <1>0, Zenon DEF TypeOK, Buffers
<1>2. ~redone => (dma # NoBuffer => running /\ ~pending) /\ (Fits => PassedOver)
  BY <1>0 DEF Steady, PassedOver
<1>3. CASE provide_store
  <2>1. ~running /\ dma' = buff /\ next = NoBuffer /\ pc \in Holding
    BY <1>0, <1>3, Zenon DEF provide_store, StartAudioDMA, Wakes, Holding
  <2>2. Provided = o.tail - 1
    BY <2>1 DEF Provided
  <2>3. buff.frame.play = plays /\ (Fits => buff.frame.serial = o.tail)
    BY <1>0, <2>1, Zenon DEF Slotted, Sequenced
  <2>4. started.play <= buff.frame.play /\ (Fits => After(buff.frame, started))
    BY <1>0, <1>1, <2>2, <2>3 DEF Ordered, After, Frames
  <2>5. ASSUME ~redone, Fits, NEW n \in DOMAIN o.slot, o.slot[n].play = buff.frame.play,
               After(o.slot[n], started), After(buff.frame, o.slot[n])
        PROVE  o.slot[n].fmt = 0
    <3>1. o.slot[n].serial \in Nat /\ o.slot[n].serial < o.tail
      BY <1>1, <2>3, <2>5 DEF After, Frames
    <3>2. o.slot[n].serial <= Provided
      BY <1>1, <2>2, <3>1
    <3>3. o.slot[n].fmt = 0 \/ o.slot[n] = NoBuffer.frame
      BY <1>2, <2>1, <2>3, <2>5, <3>2, Zenon DEF PassedOver
    <3> QED BY <3>3 DEF NoBuffer, Blank
  <2>6. ~redone => dma = NoBuffer
    BY <1>2, <2>1
  <2>7. buff.frame.play \notin flooded => Fits
    BY <2>3, Zenon DEF Fits
  <2> QED BY <2>1, <2>4, <2>5, <2>6, <2>7, Zenon DEF InOrder
<1>4. CASE DMA1_Stream7_IRQHandler
  <2>1. dma' = next /\ next # NoBuffer /\ pending
    BY <1>4, Zenon DEF DMA1_Stream7_IRQHandler, StartAudioDMA
  <2>2. /\ started.play <= next.frame.play /\ next.frame.play <= plays
        /\ next.frame.play \notin flooded => After(next.frame, started)
        /\ Fits /\ next.frame.play = plays => next.frame.serial <= Provided
    BY <1>0, <2>1, Zenon DEF Ordered
  <2>3. ASSUME ~redone, next.frame.play \notin flooded,
               NEW n \in DOMAIN o.slot, o.slot[n].play = next.frame.play,
               After(o.slot[n], started), After(next.frame, o.slot[n])
        PROVE  o.slot[n].fmt = 0
    <3>1. CASE o.slot[n] = Blank
      BY <3>1 DEF Blank
    <3>2. CASE o.slot[n] # Blank
      <4>1. o.slot[n].play = plays
        BY <1>0, <3>2, Zenon DEF Slotted
      <4>5. Fits
        BY <2>3, <4>1, Zenon DEF Fits
      <4>2. Provided \in Int
        BY <1>1 DEF Provided
      <4>3. o.slot[n].serial <= Provided
        BY <1>1, <2>2, <2>3, <4>1, <4>2, <4>5 DEF After, Frames
      <4>4. o.slot[n] # next.frame
        BY <1>1, <2>3 DEF After, Frames
      <4> QED BY <1>2, <2>3, <4>1, <4>3, <4>4, <4>5, Zenon DEF PassedOver
    <3> QED BY <3>1, <3>2
  <2>4. ~redone => dma = NoBuffer
    BY <1>2, <2>1, Zenon
  <2> QED BY <2>1, <2>2, <2>3, <2>4, Zenon DEF InOrder
<1>5. provide_store \/ DMA1_Stream7_IRQHandler
  BY Zenon DEF Next, main, libmad_loop, mad_frame, mad_buflen, snd_idle, snd_poll, init_next,
         init_running, provide_test, provide_wait, provide_enable, pl_poll,
         event_play, event_stop, event_none, snd_init, snd_init_running, StopAudioDMA,
         snd_init_done, dma_complete, vars, audio
<1> QED BY <1>3, <1>4, <1>5, Zenon

(***************************************************************************)
(* The DMA stream is given the frames in the order of their sources,       *)
(* whatever the formats and however many frames an input buffer holds, and *)
(* cuts none short until audio_setup or the command snd_init sets the      *)
(* device up again.  Those of a source that never had more than four       *)
(* frames in an input buffer it is given in their order, and skips none of *)
(* them until then.                                                        *)
(***************************************************************************)
THEOREM FramesStartInOrder == Spec => StartsInOrder
  BY StartInOrder, AudioInvariant, PTL DEF Spec, StartsInOrder
=============================================================================
