------------------------------ MODULE Display ------------------------------
(***************************************************************************)
(* The display: common/lcd.c over host_lcd_draw, with the calls that the   *)
(* player and the volume commands make to it.  Pictures that announce      *)
(* something are taken away by two timers, over a clock that an interrupt  *)
(* advances and that wraps; an error keeps the screen until the next play. *)
(*                                                                         *)
(* The player is its state, source and volume.  What it finds in net, fs,  *)
(* snd, libmad and the rings when it is polled is up to the environment.   *)
(***************************************************************************)
EXTENDS Integers

CONSTANTS
  LOCAL_TIME_WRAP,       \* 2^32: LocalTime is a uint32_t
  SYSTEMTICK_PERIOD_MS,  \* 10
  LCD_TIMEOUT,           \* LCD_TIMEOUT_VOLUME and LCD_TIMEOUT_MEDIA, both 3000
  MaxLag,                \* how many ticks may pass between two calls of lcd_poll
  Volumes,               \* the volumes that are typed, as q3_atoi reads them
  MaxCommands            \* bound: play, stop and volume commands

ASSUME DisplayAssumption ==
  /\ LOCAL_TIME_WRAP \in Nat \ {0} /\ SYSTEMTICK_PERIOD_MS \in Nat \ {0}
  /\ LCD_TIMEOUT \in Nat /\ MaxLag \in Nat \ {0} /\ MaxCommands \in Nat
  /\ Volumes \subseteq Int

PL_MIN_VOLUME == 0
PL_MAX_VOLUME == 16
PL_DEF_VOLUME == 8

VARIABLES
  pl,        \* struct pl: [state, source_type, volume]
  lcd,       \* struct ls of lcd.c, and the picture on the display: screen, level
  time,      \* LocalTime
  call,      \* the next call of frame()
  lag,       \* ticks since the last lcd_poll
  commands   \* history: commands given

display == <<pl, lcd, time, call, lag, commands>>

Off == [active |-> FALSE, timeout |-> 0]

-----------------------------------------------------------------------------
(* lcd.c and host_lcd_draw, as operators on lcd and the current time.      *)

(* lcd_draw that paints over an error.                                     *)
lcd_draw_always(l, resource) == [l EXCEPT !.screen = resource]

lcd_draw(l, resource) == IF l.error THEN l ELSE [l EXCEPT !.screen = resource]

(* The pictures of a volume end at LR_VOLUME_15, drawn as LR_VOLUME and a  *)
(* level; anything past the last resource leaves the screen as             *)
(* pcd8544_clean has left it.                                              *)
LAST_LEVEL == 15

lcd_draw_volume(l, volume) ==
  IF volume > LAST_LEVEL THEN lcd_draw(l, "LR_BLANK")
  ELSE IF l.error THEN l ELSE [l EXCEPT !.screen = "LR_VOLUME", !.level = volume]

lcd_reset(l) == [l EXCEPT !.volume = Off, !.media = Off, !.error = FALSE]

Timer == [active |-> TRUE, timeout |-> (time + LCD_TIMEOUT) % LOCAL_TIME_WRAP]

lcd_play(l) == [lcd_draw(l, "LR_PLAY") EXCEPT !.media = Timer]

lcd_stop(l) == [lcd_draw(l, "LR_STOP") EXCEPT !.media = Timer]

lcd_volume(l, volume) == [lcd_draw_volume(l, volume) EXCEPT !.volume = Timer]

lcd_error(l, resource) == [lcd_draw(l, resource) EXCEPT !.error = TRUE]

Expired(timer) == timer.active /\ timer.timeout < time

(* What lcd_timer draws when a timer has expired.                          *)
Idle(p) ==
  IF p.state # "PL_PLAYING" THEN "LR_WELLCOME"
  ELSE IF p.source_type = "PS_NET" THEN "LR_RADIO" ELSE "LR_FILE"

(* lcd_timer that looks at the volume's timer only.                        *)
lcd_timer_volume(l, p) ==
  IF Expired(l.volume) THEN [lcd_draw(l, Idle(p)) EXCEPT !.volume = Off] ELSE l

(* One timer at a time, the volume's first.                                *)
lcd_timer(l, p) ==
  CASE Expired(l.volume) -> [lcd_draw(l, Idle(p)) EXCEPT !.volume = Off]
    [] ~Expired(l.volume) /\ Expired(l.media) ->
         [lcd_draw(l, Idle(p)) EXCEPT !.media = Off]
    [] OTHER -> l

-----------------------------------------------------------------------------
(* player.c, as far as it calls the display.                               *)

Active(p) == p.state \in {"PL_PLAYING", "PL_BUFFERING"}

(* pl_stop that does not tell the display.                                 *)
pl_stop_silent(p, l) ==
  [pl |-> IF Active(p) THEN [p EXCEPT !.state = "PL_STOP"] ELSE p, lcd |-> l]

pl_stop(p, l) ==
  IF Active(p) THEN [pl |-> [p EXCEPT !.state = "PL_STOP"], lcd |-> lcd_stop(l)]
  ELSE [pl |-> p, lcd |-> l]

(* pl_play: a stream, a file that could be opened, or one that could not,  *)
(* after which the player is stopped already.                              *)
pl_play(p, l, source, state) ==
  LET stopped == pl_stop(p, l)
      reset == lcd_reset(stopped.lcd)
      shown == IF source = "PS_NET" THEN lcd_draw(reset, "LR_STARTUP") ELSE reset
  IN  [pl |-> [stopped.pl EXCEPT !.source_type = source, !.state = state],
       lcd |-> lcd_play(shown)]

Sources ==
  {<<"PS_NET", "PL_BUFFERING">>, <<"PS_FILE", "PL_PLAYING">>,
   <<"PS_FILE", "PL_BUFFERING">>, <<"PS_FILE", "PL_STOP">>}

(* No clamping.                                                            *)
Clamped_not(volume) == volume

Clamped(volume) ==
  IF volume < PL_MIN_VOLUME THEN PL_MIN_VOLUME
  ELSE IF volume > PL_MAX_VOLUME THEN PL_MAX_VOLUME ELSE volume

(* The commands svol and mute: up, down, silent or a number.  The number   *)
(* is brought into the range before it goes into the event, whose          *)
(* parameter is a uint32_t and pl_volume_set's a uint8_t.                  *)
cmd_snd_volume(p) ==
  {Clamped(volume) : volume \in {p.volume + 1, p.volume - 1, 0} \cup Volumes}

(* pl_volume_set that tells the display first.                             *)
pl_volume_set_late(p, l, volume) ==
  [pl |-> [p EXCEPT !.volume = Clamped(volume)], lcd |-> lcd_volume(l, p.volume)]

pl_volume_set(p, l, volume) ==
  [pl |-> [p EXCEPT !.volume = Clamped(volume)], lcd |-> lcd_volume(l, Clamped(volume))]

(* The first of the errors is drawn; the display ignores the others, and   *)
(* pl_poll looks at the file's only if there was one of these.             *)
ErrorPictures == {"LR_ERROR_NET", "LR_ERROR_SOUND", "LR_ERROR_LIBMAD"}

Same(p, l) == [pl |-> p, lcd |-> l]

(* The outcomes of pl_poll: an error, the end of the source, or the turns  *)
(* between buffering and playing.                                          *)
pl_poll(p, l) ==
  {Same(p, l)} \cup
  IF ~Active(p) THEN {}
  ELSE {pl_stop(p, lcd_error(l, picture)) : picture \in ErrorPictures}
       \cup {pl_stop(p, l)}
       \cup {Same([p EXCEPT !.state = state], l) : state \in {"PL_PLAYING", "PL_BUFFERING"}}

-----------------------------------------------------------------------------
(* init(): lcd_startup draws one picture after the other, before pl_init   *)
(* and after it.                                                           *)
DisplayInit ==
  /\ pl = [state |-> "PL_STOP", source_type |-> "PS_UNKNOWN", volume |-> PL_DEF_VOLUME]
  /\ lcd = [screen |-> "LR_WELLCOME", level |-> 0, volume |-> Off, media |-> Off,
            error |-> FALSE]
  /\ time = 0
  /\ call = "pl_poll" /\ lag = 0 /\ commands = 0

Becomes(S) == pl' = S.pl /\ lcd' = S.lcd

poll_player ==
  /\ call = "pl_poll" /\ call' = "event_loop"
  /\ \E S \in pl_poll(pl, lcd) : Becomes(S)
  /\ UNCHANGED <<time, lag, commands>>

(* event_loop: the events of the player, one after the other.              *)
Event == call = "event_loop" /\ commands < MaxCommands /\ commands' = commands + 1

event_play ==
  /\ Event
  /\ \E s \in Sources : Becomes(pl_play(pl, lcd, s[1], s[2]))
  /\ UNCHANGED <<time, call, lag>>

event_stop ==
  /\ Event
  /\ Becomes(pl_stop(pl, lcd))
  /\ UNCHANGED <<time, call, lag>>

(* The command runs in event_loop too, and the event it pushes is handled  *)
(* before another command can be.                                          *)
event_volset ==
  /\ Event
  /\ \E volume \in cmd_snd_volume(pl) : Becomes(pl_volume_set(pl, lcd, volume))
  /\ UNCHANGED <<time, call, lag>>

event_none ==
  /\ call = "event_loop" /\ call' = "lcd_poll"
  /\ UNCHANGED <<pl, lcd, time, lag, commands>>

(* lcd_poll does nothing while an error is shown.                          *)
lcd_poll ==
  /\ call = "lcd_poll" /\ call' = "pl_poll"
  /\ lcd' = IF lcd.error THEN lcd ELSE lcd_timer(lcd, pl)
  /\ lag' = 0
  /\ UNCHANGED <<pl, time, commands>>

(* The SysTick interrupt.                                                  *)
timer_handle_it ==
  /\ lag < MaxLag /\ lag' = lag + 1
  /\ time' = (time + SYSTEMTICK_PERIOD_MS) % LOCAL_TIME_WRAP
  /\ UNCHANGED <<pl, lcd, call, commands>>

frame == poll_player \/ event_play \/ event_stop \/ event_volset \/ event_none \/ lcd_poll

DisplayNext == frame \/ timer_handle_it

DisplaySpec == DisplayInit /\ [][DisplayNext]_display

(* The main loop runs, and the interrupt comes.                            *)
FairDisplay == DisplaySpec /\ WF_display(frame) /\ WF_display(timer_handle_it)

-----------------------------------------------------------------------------
Pictures ==
  {"LR_BLANK", "LR_STARTUP", "LR_WELLCOME", "LR_RADIO", "LR_FILE", "LR_PLAY", "LR_STOP",
   "LR_VOLUME"} \cup ErrorPictures

Times == 0 .. LOCAL_TIME_WRAP - 1
Timers == [active : BOOLEAN, timeout : Times]

(* Types of the state.                                                     *)
DisplayTypeOK ==
  /\ pl \in [state : {"PL_STOP", "PL_PLAYING", "PL_BUFFERING"},
             source_type : {"PS_UNKNOWN", "PS_NET", "PS_FILE"},
             volume : 0 .. PL_MAX_VOLUME]
  /\ lcd \in [screen : Pictures, level : 0 .. LAST_LEVEL, volume : Timers, media : Timers,
              error : BOOLEAN]
  /\ time \in Times /\ lag \in Nat /\ commands \in Nat

(***************************************************************************)
(* An error stays on the screen until the next play, whatever timer        *)
(* expires and whatever is done to the volume, and only while nothing      *)
(* plays: the error flag and the error picture come and go together.       *)
(***************************************************************************)
ErrorStays ==
  /\ lcd.error <=> lcd.screen \in ErrorPictures
  /\ lcd.error => pl.state = "PL_STOP"

(***************************************************************************)
(* The picture of the radio or of a file is on the screen only while that  *)
(* source is being played.                                                 *)
(***************************************************************************)
SourceShown ==
  /\ lcd.screen = "LR_RADIO" => Active(pl) /\ pl.source_type = "PS_NET"
  /\ lcd.screen = "LR_FILE" => Active(pl) /\ pl.source_type = "PS_FILE"

(***************************************************************************)
(* A picture that announces something has its timer running, although the  *)
(* two timers take each other's pictures away; a volume on the screen is   *)
(* the current one, and a blank screen is the highest volume.              *)
(***************************************************************************)
AnnouncementsTimed ==
  /\ lcd.screen \in {"LR_PLAY", "LR_STOP"} => lcd.media.active
  /\ lcd.screen = "LR_VOLUME" => lcd.volume.active /\ lcd.level = pl.volume
  /\ lcd.screen = "LR_BLANK" => lcd.volume.active /\ pl.volume = PL_MAX_VOLUME

(***************************************************************************)
(* The inductive invariant behind the three properties above: they need    *)
(* each other, and that a player that is not stopped knows its source.     *)
(***************************************************************************)
DisplayInv ==
  /\ DisplayTypeOK /\ ErrorStays /\ SourceShown /\ AnnouncementsTimed
  /\ Active(pl) => pl.source_type # "PS_UNKNOWN"

(* Is the main loop sure to look at the timer between its expiry and the   *)
(* wrap of the clock?                                                      *)
InTime(timer) ==
  timer.timeout + SYSTEMTICK_PERIOD_MS * (MaxLag + 1) < LOCAL_TIME_WRAP

Announces ==
  \/ lcd.screen \in {"LR_PLAY", "LR_STOP"} /\ InTime(lcd.media)
  \/ lcd.screen \in {"LR_VOLUME", "LR_BLANK"} /\ InTime(lcd.volume)

(***************************************************************************)
(* An announcement goes away, unless its timer expires just before the     *)
(* clock wraps.                                                            *)
(***************************************************************************)
AnnouncementEnds == Announces ~> ~Announces
=============================================================================
