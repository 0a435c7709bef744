# A TLA+ model of mardio

mardio is an MP3 player that runs on a bare STM32F4 board, with two interrupts
and a main loop, and as a single-threaded Linux program. This directory models
the path from the command line to the sound device in both builds, the network
of the board down to lwIP's control blocks, and the display; it checks them
with TLC on small instances, and with TLAPS it proves every safety property for
all instances.

## The system

A frame of the main loop calls one polling function of every part, in a fixed
order. Nothing else runs but the interrupts of the STM32.

| Part | Source | Role |
| --- | --- | --- |
| I/O rings | `common/iobuffer.c` | input ring (1024-byte buffers of MP3 data), output ring (4608-byte buffers of samples), each with a head and a tail that only grow |
| Event queue | `common/event.c` | 8 events, pushed by the console and the commands, handled by `event_loop` |
| Console | `common/console.c`, `linux/console.c`, `stm32/console.c` | one line of input, locked from its CR until it has been run |
| Commands | `common/cmd.c` | a line becomes a call, which at most pushes an event; on the STM32 `snd_init` sets the sound device up again |
| Player | `common/player.c` | stop, buffering, playing; opens and closes the source, reacts to errors |
| Files | `common/fs.c`, `linux/fs.c` | a table of three handles over the host's; MP3 goes to the input ring, Wave straight to the output ring |
| Network | `linux/net.c`; `stm32/net.c` over `libs/lwip-2.0.3` | a stream goes to the input ring; on the board through lwIP's callbacks, called from `net_timers` after each frame |
| Decoder | `common/libmad.c`, `libs/libc/salloc.c` | input ring to output ring; its memory comes from a pool of two blocks |
| Sound | `linux/sound.c`; `stm32/sound.c` over `libs/Audio/Audio.c` | output ring to the device: ALSA, or a DMA stream with its interrupt |
| Display | `common/lcd.c`, `stm32/lcd.c` | one screen for source, volume and errors, two timers over the tick of an interrupt |

`PROJECT.json` lists the other parts and why they are not here.

## Modules

| Module | Models | State and actions |
| --- | --- | --- |
| `Fifo` | what a ring promises | a bounded sequence: put, take, clear |
| `IoBuffer` | `iobuffer.c` as operators on a ring `[head, tail, max_buffers, slot]` | `io_push`, `io_pop`, `io_free` (a `uint16_t`), ... as in the code, including the full test that is one too lenient |
| `IoRing` | one ring and a user who asks before pushing and popping | `Push`, `Pop`, `Reset`; refines `Fifo` |
| `Event` | the event queue as operators | `event_push`, `event_pop` |
| `Fs` | `fs.c` and `linux/fs.c` as operators on `fss` | handles, the host's files, type detection, play, stop |
| `Libmad` | state of the decoder, its error count, its early returns | |
| `Player` | `pl_play`, `pl_stop`, `pl_poll` as operators on the state of all parts | |
| `Playback` | the Linux program: `frame()`, one action per call, `pc` being the next call | composes all of the above with disk, network, device and user |
| `MCPlayback` | the disk and the command sets of the runs | |
| `LibmadWindow` | the bytes in `libmad_buffer` | `libmad_input`, a frame decoded, not enough bytes left |
| `SerialConsole` | the STM32 console | the USART interrupt against `init()` and the main loop, whose accesses to `ev` and `con` are single steps: `event_pop` is `pop_load`, `pop_store`, `pop_read`; `event_push`, from a command, is the load in `cmd_input`, `push_overflow` and `push_tail` after a message, `push_store`, `push_write` |
| `AudioDma` | the STM32 sound output | main loop, DMA stream and its interrupt; `ProvideAudioBuffer`, `InitializeAudio` and the command `snd_init` in single steps |
| `LwipTcp` | lwIP's connections as operators on `[pcb, free, active, tw]` | `memp_init`, `tcp_new` with its kills, `tcp_connect`, `tcp_write`, `tcp_recved`, `tcp_close`, `tcp_process`, `tcp_slowtmr` for a client |
| `LwipDns` | the resolver's table of names and of requests | `dns_result`, `dns_enqueue`, `dns_flush`, `dns_settle` |
| `Salloc` | the allocator as operators on a pool | `sa_alloc`, `sa_free`, with the unsigned count of slots |
| `Board` | the STM32 program playing a station: one action per call of the main loop, `pc` being the next | composes the three above with `net.c`, `pl_play`, `pl_stop`, `pl_poll` and the decoder's memory; user, name server, peers and timers are the environment |
| `Display` | `lcd.c` with the calls `player.c` makes to it, and the volume commands | `poll_player`, one action per event, `lcd_poll`, the tick |
| `BufferProofs` | theorems about `IoRing` and `LibmadWindow` | |
| `InterfaceProofs` | theorems about `SerialConsole` and `Display` | |
| `AudioDmaProofs` | theorems about `AudioDma` | |
| `PlayerProofs`, `PlaybackSteps`, `PlaybackProofs` | theorems about `Playback`: what the operators of `Fs`, `Event`, `IoBuffer` and `Player` do, each action of `frame()`, the theorems | |
| `BoardParts`, `BoardProofs` | theorems about `Board`: what the operators of `LwipTcp`, `LwipDns`, `Salloc` and `net.c` do; the actions and the theorems | |

A definition has the name of the function it models. The `map` of
`PROJECT.json` gives the lines. Definitions such as `io_push_late_index`
directly before the one they vary are plausible mistakes; each property is
shown to notice one.

### Abstractions

* Data is reduced to identity. An input buffer is the number of the play
  command and of the chunk of the file; an output buffer is the number of
  the play command, of the frame and its format (rate and channels as one
  value, 0 for none). A file is a kind, a length in chunks and a format.
* The decoder turns an input buffer into 0 to `FramesPerInput` frames, also
  more than the output ring has buffers; `flooded` and `crowded` remember that
  it did. `LibmadWindow` is about the bytes that decide how many. Errors that
  do not count (`MAD_ERROR_LOSTSYNC`, `MAD_ERROR_BADDATAPTR`) change nothing; a
  frame with a wrong checksum is a frame. The branch of `libmad_output` for too
  many samples cannot be reached: 1152 samples of two channels are 4608 bytes.
* Any read of a file may fail, that of `fs_type` and that of a Wave header
  included. `host_fs_read` then returns 0, never the -1 that `fs_open_riff`
  tests for, so a local buffer that was never initialised is parsed: it holds
  either the header of some Wave file or none (`Residue`).
* A console line of the Linux build is a command at once; in `SerialConsole`
  it is a sequence of characters.
* `AudioDma` keeps of the player only its state, which may change at will.
* Rates `snd_freq2rate` does not know do not come out of libmad; format 0
  stands for them all the same in the run `audio`.
* LEDs are left out. On Linux `res_open` always fails, as built without
  resources, and there is no LCD, so `Playback` has none.
* `Display` keeps of the player its state, source and volume; what it finds
  when it is polled is any outcome the code has. It is common code, so files
  can be played in it although the board cannot open one. `E_PL_VOLUP` and
  `E_PL_VOLDOWN` are never pushed: `cmd_snd_volume` computes the volume and
  pushes `E_PL_VOLSET`.
* `Board`: the input ring is the sequence `IoRing` is proved to implement, and
  a buffer in it is the play command it was received for. How full the output
  ring is, and whether the sound device fails, is any. Of a segment, what
  `net.c` and the state machine of `tcp_process` tell apart is kept: data (the
  expected answer, another one, too long for a buffer), acknowledgement, FIN.
  Not modelled are sequence numbers, windows and retransmission (a segment is
  one that is in order; the peer's window is open), lack of segments or packet
  buffers (so `TF_CLOSEPEND` never arises), a failing Ethernet controller, and
  DHCP: a name server may be known or not.
* At the end of the data the callbacks of `net.c` read a length through a NULL
  pointer and open the receive window by it: the outcome is any. Closing a NULL
  pcb is either ignored or a fault, after which `Board` stops.

### Assumptions about the machine

* One core; the stores of the main loop become visible to an interrupt in
  program order, and an interrupt handler runs to its end. The last line of
  `event_pop` may use the tail it has just stored or read it again: the model
  allows both.
* A character takes 87 us on the line (115200 baud, `stm32/console.c:48`) and
  the load of `ev.head` in `event_push` is a few instructions before its store:
  no more events are pushed by the interrupt in between than the queue has
  slots (the last condition of `Receives`). One character could arrive, with
  two events at most; the model allows eight. Without any limit TLC finds a
  dead console when about a dozen characters arrive there: the store then takes
  the head back behind the tail.
* External: a DMA stream that is reprogrammed while it runs gives up its
  transfer, and may or may not flag it as complete.

## What TLC checks

| Run | Bounds | Shows |
| --- | --- | --- |
| `ring` | 3 slots, 3 contents, 7 pushes between resets | The ring is a bounded FIFO (`ImplementsFifo`, `PopsOldest`) and its counts are right (`Partition`), more than twice round. |
| `playback` | 3 commands, 4 packets, a file of every kind (the song has 5 input buffers) and a stream; one frame to an input buffer; reads, network and sound may fail | Player, files, connection and events agree (`SourceOpen`, `StoppedReleasesSource`, `EventsFit`); handles match the open files one to one and only a Wave header that is broken or cannot be read leaks one (`HandlesMatch`); what is heard is the current source, in order, no frame skipped or repeated (`HeardInOrder`); a stopped player moves no data (`QuietWhenStopped`). |
| `playback_live` | 2 commands, 0 to 5 frames to an input buffer, errors of reads, decoder and device | `PlaybackInv`, the inductive invariant. Until a fifth frame comes from one input buffer the rings are never overfull (`RingsNotOverfull`) and no frame is lost, though the decoder fills the output ring in one call (`HeardInOrder`). An MP3 file ends (`Mp3Ends`) and the console reopens (`ConsoleReopens`), with a fifth frame too. |
| `window` | frames of 256, 417, 418 and 1049 bytes in any mixture, input buffers of 1 to 1024 bytes | `libmad_buffer` and the output ring are large enough. |
| `console_keeps_up` | 9 characters, 7 of 8 events waiting | `ConsoleInv`, the inductive invariant. Every line is run once (`RunOnce`), as typed (`LineIntact`); events come once, in order (`EventsInOrder`); the input reopens. |
| `console_overrun` | 9 characters, 10 events waiting, also during `init()` | The console does not lock up however the queue overflows (`LockHasInput`). |
| `audio` | 2 sources, of 5 and 4 frames, 0 to 5 to an input buffer, 2 formats and none | `AudioInv`, the inductive invariant. Whatever the moment of the interrupt, of a change of format and of the command `snd_init`: no wakeup is lost (`NoLostWakeup`) and the busy wait ends (`ProvideReturns`); no buffer is overwritten while in use as long as the source had at most two frames in an input buffer (`ProvidedIntact`), none skipped or out of order as long as it had at most four (`StartsInOrder`). |
| `display` | a clock of 9 values with ticks of 2, a timeout of 4, 3 commands, a typed volume of 20 besides up, down and mute | An error keeps the screen until the next play (`ErrorStays`), the source shown is the one that plays (`SourceShown`), a volume shown is the current one and every announcement has its timer (`AnnouncementsTimed`) and goes away (`AnnouncementEnds`). |
| `board` | 2 pcbs, 1 name, 2 requests, a ring of 1, 3 plays | `BoardInv`, the inductive invariant. lwIP's pool and lists stay intact (`PoolIntact`); one connection feeds the ring (`OneFeeder`), which never mixes stations (`StreamNotMixed`); the decoder's memory does not leak (`DecoderMemory`); a network error ends the play (`ErrorStops`). |

Three runs show where the program and its own texts disagree:

| Run | Disagreement |
| --- | --- |
| `playback_wave` | A Wave file is never heard. `pl_poll` runs in the frame of the play command, before the first buffer is read, finds both rings empty and turns to buffering; it returns to playing only when the input ring is full, and a Wave file fills the output ring alone. So it stays until the end of the file stops the player. |
| `audio_overwrite` | At 128 kbit/s three frames come from one input buffer, and the third overwrites the buffer the DMA reads, against the comment in `Audio.h`. |
| `board_close` | A connection that is reset or given up is freed by lwIP. `net_lwip_open` registers no error callback, so the next stop or play closes the freed block, which lwIP's comment on `tcp_close` calls erroneous, and the block is in the free list twice. |

Two more things the models show without a run of their own. The end of an MP3
file stops the player with the last buffers still undecoded (`player.c:187`),
so a file shorter than the input ring is not heard at all: `HeardInOrder` is
about what is heard until then. And a Wave file with a header that is bad or
cannot be read leaves its handle open (`fs.c:409`), so three of them use up
the table: `HandlesMatch` says that nothing else does.

Some properties are conditional on purpose. The full test of `io_push`
(`iobuffer.c:95`) notices an overfull ring one push too late, and a 64 kbit/s
stream gives five frames of 208 bytes to one input buffer: the fifth takes the
slot of the first. So `RingsNotOverfull`, for the output ring, the order in
`HeardInOrder` and in `StartsInOrder` and the parts of the invariants about
them hold for a play until one of its input buffers has given more than four
frames (`flooded`). No constant is restricted: the runs and the proofs include
such plays, and what does not depend on the order of the output ring holds for
them too. `BurstFits` shows that frames of at least 256 bytes stay below. In
the same way `ProvidedIntact` holds for a source until an input buffer has
given more than two frames (`crowded`), or a frame without a rate: a third
would be written to the buffer in transfer, which is what `audio_overwrite`
shows. The console properties ask for a queue with at most seven events waiting
(`KeepsUp`): `event_push` (`event.c:25`) has the same off-by-one, and
`event_pop` gives up the slot before it has copied it, so with eight waiting an
event can be lost without a message. Outside these conditions TLC finds the
loss in a few steps, with `FrameSizes = {208, 209}` or `Backlog = 8` and the
condition taken out of the property; no run of this directory repeats that.

The properties of `Board` end with a fault (`board_close` is about it), and
three of them, and the last part of `PoolIntact`, ask that the resolver has
answered no play that is over (`late`). There is no way to withdraw a request
from lwIP: an answer that comes after a stop or for the station before
(`net.c:496`) opens a connection nobody asked for, which then feeds the ring
beside the new one. With `~late` taken out TLC finds two stations in the ring,
and decoder blocks that are lost when such a stream is decoded after a play
that failed to open a file. `AnnouncementsTimed` accepts a blank screen for
the highest volume, for which there is no picture (`lcd.c:221`).
`AnnouncementEnds` asks that the timer does not expire
just before the clock wraps (`InTime`): the comparison in `lcd_timer` is not made
for that, and an announcement made in the last three seconds of the 49 days
may stay until something else is drawn.

### Why the bounds are enough

The rings have four buffers (three in `ring`) and every run that is about order
goes round at least once. Three commands are as many as there are file handles;
a second command exercises every replacement of one source by another, a third
the state left by a failed or stopped one. Nine characters overflow the queue
of eight events. The song of five buffers is one more than the input ring, and
four packets fill it. Five frames from an input buffer are one more than the
output ring; in `audio` they also take the ring round within one source. In
`display` a tick of 2 and a clock of 9 values make the times before and after a
wrap differ in parity, as 10 and 2^32 do; three commands are enough to run both
timers and restart one. In `board` two pcbs are what `lwipopts.h` gives the
program, and the third play finds both in use and both requests taken; a ring
of one buffer is full and empty in turn. What the passing runs check without
fairness is also proved without these bounds; for the liveness properties they
are all there is.

### Fairness

`Playback`: every call of `frame()` returns, since `poll` has a timeout and all
loops are over a finite ring, queue or buffer, so `pc` moves on until the
program exits. `SerialConsole`: the main loop runs whenever no interrupt does.
`AudioDma`: the main loop runs, a transfer ends, and an enabled interrupt that
is pending is taken. `Display`: the main loop runs and the tick comes. `Board`:
every call of the main loop returns; lwIP never waits, and each pass of the
timers finds finitely many pcbs and names. The user and the network are never
assumed to do anything.

`CHECK_DEADLOCK FALSE` is used for `Playback` only, where the program may exit.

## What TLAPS proves

Every invariant and action property of the passing runs, and the refinement of
`Fifo`, for all values of the constants that the named assumptions admit. Each
group below rests on one inductive invariant, which TLC checked before
it was proved.

* `BufferProofs`, for any ring size and contents: `RingInvariant` (the tail
  never passes the head, the head never runs more than the ring size ahead),
  from it `CountsPartition` (the 16-bit counts add up to the size),
  `RingPopsOldest`, and `RingImplementsFifo`, by the mapping of the slots
  between tail and head to a sequence. Assumes a ring size that fits
  `uint16_t`. For any set of frame sizes: `WindowInvariant`.
  Between two calls less than a frame and its guard is left; the first frame
  of a call uses that up and all others come out of one input buffer. From it
  `WindowSuffices` and `BurstSuffices`.
* `InterfaceProofs`, the console, for any alphabet, line length, backlog and
  number of characters: `ConsoleInvariant`. An event keeps its slot and serial
  number until it is copied, and `E_CON_INPUT` is the last event, present or
  being run exactly while the input is locked. The last part is what makes it
  inductive: it excludes an interrupt's push in the middle of the main loop's
  own. From it `EveryLineRunOnce`, `LineStaysIntact`, `PopsInOrder`.
  All these ask that the main loop keeps up. `ConsoleNeverDead` does not: its
  invariant `LockInv` survives any overflow, and characters during `init()`.
  The tail never passes the head, and nothing is pushed after the `E_CON_INPUT`
  of a locked input, so that the newest event of the queue is one until
  `event_pop` returns it; events that are overwritten are older.
* `InterfaceProofs`, the display, for any clock, tick, timeout and typed volumes:
  `DisplayInvariant`. The three properties of the screen need each other: that
  an error excludes a playing source, for one, is what lets a timer draw over
  anything but an error. From it `ErrorKeepsScreen`, `ScreenShowsSource` and
  `AnnouncementsHaveTimers`.
* `AudioDmaProofs`, for any formats, number of frames, sources and frames from
  an input buffer: `AudioInvariant`. Always: a waiting buffer has a transfer
  ahead of it (`Wakes`), every frame in the ring is of the current source, in
  the slot of its number, and the ring is at most one frame over (`Slotted`),
  and frames start in the order of their sources (`Ordered`, `Steady`). For a
  source that has not been `flooded`: the frames in the ring are numbered by
  the head they were pushed at (`Sequenced`). For one that has not been
  `crowded` and has had no bogus frame: a waiting buffer is the last one
  provided, the one in transfer is that or the one before, and both lie where
  their number says, at most two behind the tail, so two frames from an input
  buffer cannot reach them (`Sparse`, `Recent`). `flooded` is a set of plays,
  since a frame of the source before may still wait when a new one begins. From
  it `ProvidedStaysIntact`, `WakeupNotLost` and `FramesStartInOrder`.
* `PlaybackProofs`, for any disk, stations, number of commands, packets and
  frames from an input buffer and every combination of faults:
  `PlaybackInvariant`. Its parts: `HandlesMatch`; `QueueInv` (outside
  `event_loop` the queue holds at most the line of a locked console);
  `SourceInv` (a file or a connection is open, never both, and a stopped player
  has neither); `RingInv` of the input ring; `DecoderInv` (what is decoded is
  of this play); `CurrentInv` (so is all that is in the rings); and, unless the
  play has been `flooded`, `OutputInv`: `RingInv` of the output ring,
  `BurstInv` (while an input buffer is decoded the output ring holds no more
  than its frames, since the decoder was called with an empty ring) and
  `OrderInv` (the buffers of the output ring are of the current play and
  numbered by the head they were pushed at, be it the position of a Wave file
  or the decoder's count, and what was heard last is numbered by the tail).
  `OrderInv` needs the others: that a replaced source leaves nothing in the
  rings is `CurrentInv` and `SourceInv`, that a push overwrites nothing is
  `RingInv`. From it `SourceOpenInvariant`, `StoppedReleasesSourceInvariant`,
  `HandlesMatchInvariant`, `RingsNotOverfullInvariant`, `EventsFitInvariant`,
  `PlaysInOrder` (`HeardInOrder`) and `StoppedIsQuiet` (`QuietWhenStopped`).
  Assumes that the files of the disk have a kind, a length and a format, that
  the commands are the ones modelled and that the bounds are natural numbers.
* `BoardProofs`, for any number of pcbs, names, requests, input buffers
  and plays: `BoardInvariant`. Until a fault, every pcb is in exactly one place
  and in a state that fits it (`PoolInv`), requests are of different plays
  (`RequestsInv`), and the decoder's blocks are different slots that are in use
  (`HeapInv`). As long as the resolver is not late, also `CurrentInv`: a pcb
  that delivers data, or may come to, is the one `net.c` holds, of the current
  play, which is on and has no request pending; the ring and the used slots of the
  pool are that play's. `Live` includes pcbs that are still connecting and one
  that found no route: they deliver nothing yet, but without
  them the invariant is not inductive. From it `PoolStaysIntact`,
  `OneConnectionFeeds`, `StreamsNeverMix` and `MemoryAccounted`. Assumes
  a finite pool in which NULL is no pcb (`PcbAssumption`), that the empty name is
  no name (`dns_gethostbyname` refuses it) and no more names than the
  resolver's table has entries (`BoardAssumption`).

Only model-checked: everything under fairness (`Mp3Ends`, `ConsoleReopens`,
`Reopens`, `ProvideReturns`, `AnnouncementEnds`, `ErrorStops`), since
the prover has neither `ENABLED` nor liveness; and the three violations, for
which a behaviour of one instance is enough.

## Not modelled

* The descriptor behind `ns.sock` on Linux, and the text of requests and answers.
* Functions over characters and bytes without state: `cmd_tokenize`,
  `net_parse_url`, `net_str2ip`, the rate tables, the resource file system, the
  C library's strings and formatted output. What they can return is an input of
  the models.
* Commands that print or list, and files the program does not change.
* Samples: the arithmetic of the decoder, scaling, drawing and pictures.
* The Ethernet controller's initialisation and DHCP, the codec's registers,
  clocks, pins and LEDs.
* The stubs of the null port, and the USB and file system code of the STM32
  that the build does not use.

Most of the lines under `src/` are vendored: StdPeriph and CMSIS headers, the
whole of lwIP, libmad, FatFs and the USB stack, and generated pictures. The
program calls a small part of them, and most of what it calls moves bytes or
writes registers and has no control to model. What decides the program's
behaviour is modelled: lwIP's life of a connection and its resolver, the
conditions under which libmad asks for more bytes or for memory, and the audio
driver. The map names the lines that were translated and no others, which is
why it covers a small share of the tree.
