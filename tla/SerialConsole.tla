---------------------------- MODULE SerialConsole ----------------------------
(***************************************************************************)
(* The console of the STM32 build.  usart3_handle_it is an interrupt: it   *)
(* may run between any two memory accesses of the main loop, edits the     *)
(* line and pushes events; the main loop pops the events, runs the line    *)
(* and unlocks the input.  There is no other protection than con.lock.     *)
(*                                                                         *)
(* The main loop's accesses to ev and con are steps of their own, in       *)
(* program order; all other work of a frame is the step polls.  An event   *)
(* carries a serial number in place of its parameter.                      *)
(***************************************************************************)
EXTENDS Event, Sequences

CONSTANTS
  Chars,               \* printable characters
  MAX_CONSOLE_INPUT,   \* 128 in console.h
  Backlog,             \* how many events the typist may let pile up
  EarlyTyping,         \* may characters arrive while init() runs?
  MaxTyped             \* bound: characters typed

ASSUME ConsoleAssumption ==
  /\ MAX_CONSOLE_INPUT \in Nat /\ Backlog \in Nat /\ MaxTyped \in Nat
  /\ EarlyTyping \in BOOLEAN

BS == "BS"

VARIABLES
  con,       \* struct con: [lock, input], index being Len(input)
  ev,        \* the event queue
  pc,        \* the next step of the main loop
  t,         \* local copy of the counter event_pop or event_push increments
  slot,      \* local of event_push: the index of the event it points at
  e,         \* the event event_pop has returned
  typed,     \* history: characters received
  entered,   \* history: the line that was ended last
  accepted,  \* history: lines ended by a CR
  ran        \* history: lines run

vars == <<con, ev, pc, t, slot, e, typed, entered, accepted, ran>>

Booting == {"event_init", "con_input_unlock"}

(* After con_init, which enables the interrupt.                            *)
Init ==
  /\ con = [lock |-> FALSE, input |-> <<>>]
  /\ ev = event_init
  /\ pc = "event_init"
  /\ t = 0 /\ slot = 0 /\ e = NoEvent
  /\ typed = 0 /\ entered = <<>> /\ accepted = 0 /\ ran = 0

-----------------------------------------------------------------------------
(* The interrupt.                                                          *)

con_input_push(c, ch) ==
  IF c.lock \/ Len(c.input) >= MAX_CONSOLE_INPUT THEN c
  ELSE [c EXCEPT !.input = Append(@, ch)]

con_input_del(c) ==
  IF c.input = <<>> THEN c ELSE [c EXCEPT !.input = SubSeq(@, 1, Len(@) - 1)]

Push(q, type) == event_push(q, type, q.head + 1)

Overflows(q) == q.head - q.tail > MAX_EVENTS

(* A character arrives, while not too many events are waiting.  It takes   *)
(* 87 us on the line; in the few instructions between event_push's load    *)
(* and store of ev.head no more events come than the queue has slots.      *)
Receives(events) ==
  /\ typed < MaxTyped /\ typed' = typed + 1
  /\ pc \in Booting => EarlyTyping
  /\ ev.head + events <= ev.tail + Backlog
  /\ pc = "push_store" => ev.head + events <= t + MAX_EVENTS
  /\ UNCHANGED <<pc, t, slot, e, ran>>

(* usart3_handle_it that does not look at the lock.                        *)
usart_cr_always ==
  /\ Receives(2)
  /\ con' = [con EXCEPT !.lock = TRUE]
  /\ ev' = Push(Push(ev, "E_CON_ECHO"), "E_CON_INPUT")
  /\ entered' = con.input
  /\ accepted' = accepted + 1

(* The three branches of usart3_handle_it; a locked input discards.        *)
usart_cr ==
  /\ ~con.lock /\ Receives(2)
  /\ con' = [con EXCEPT !.lock = TRUE]
  /\ ev' = Push(Push(ev, "E_CON_ECHO"), "E_CON_INPUT")
  /\ entered' = con.input
  /\ accepted' = accepted + 1

(* usart3_handle_it that deletes whether or not the line is locked.        *)
usart_del_always ==
  /\ Receives(1)
  /\ con.input # <<>>
  /\ con' = con_input_del(con)
  /\ ev' = Push(ev, "E_CON_DEL")
  /\ UNCHANGED <<entered, accepted>>

usart_del ==
  /\ ~con.lock /\ Receives(1)
  /\ con.input # <<>>
  /\ con' = con_input_del(con)
  /\ ev' = Push(ev, "E_CON_DEL")
  /\ UNCHANGED <<entered, accepted>>

(* usart3_handle_it that echoes what it discards.                          *)
usart_push_always(ch) ==
  /\ Receives(1)
  /\ ch = BS => con.input = <<>>
  /\ con' = con_input_push(con, ch)
  /\ ev' = Push(ev, "E_CON_ECHO")
  /\ UNCHANGED <<entered, accepted>>

usart_push(ch) ==
  /\ ~con.lock /\ Receives(1)
  /\ ch = BS => con.input = <<>>
  /\ con' = con_input_push(con, ch)
  /\ ev' = Push(ev, "E_CON_ECHO")
  /\ UNCHANGED <<entered, accepted>>

usart3_handle_it == usart_cr \/ usart_del \/ \E ch \in Chars \cup {BS} : usart_push(ch)

-----------------------------------------------------------------------------
(* init(), as far as it touches the console.                               *)
boot_event_init ==
  /\ pc = "event_init" /\ pc' = "con_input_unlock"
  /\ ev' = event_init
  /\ UNCHANGED <<con, t, slot, e, typed, entered, accepted, ran>>

boot_unlock ==
  /\ pc = "con_input_unlock" /\ pc' = "polls"
  /\ con' = [con EXCEPT !.lock = FALSE]
  /\ UNCHANGED <<ev, t, slot, e, typed, entered, accepted, ran>>

polls ==
  /\ pc = "polls" /\ pc' = "event_loop"
  /\ UNCHANGED <<con, ev, t, slot, e, typed, entered, accepted, ran>>

(* event_pop in three steps.  Its last line may use the tail it has stored *)
(* or read it again.                                                       *)
pop_load ==
  /\ pc = "event_loop"
  /\ IF ev.head > ev.tail THEN t' = ev.tail /\ pc' = "pop_store"
                          ELSE t' = t /\ pc' = "polls"
  /\ UNCHANGED <<con, ev, slot, e, typed, entered, accepted, ran>>

pop_store ==
  /\ pc = "pop_store" /\ pc' = "pop_read"
  /\ ev' = [ev EXCEPT !.tail = t + 1]
  /\ UNCHANGED <<con, t, slot, e, typed, entered, accepted, ran>>

(* event_pop that forgets that it has advanced the tail.                   *)
pop_read_next ==
  /\ pc = "pop_read" /\ pc' = "handle"
  /\ \E n \in {t + 1, ev.tail} : e' = ev.events[n % MAX_EVENTS]
  /\ UNCHANGED <<con, ev, t, slot, typed, entered, accepted, ran>>

pop_read ==
  /\ pc = "pop_read" /\ pc' = "handle"
  /\ \E n \in {t, ev.tail - 1} : e' = ev.events[n % MAX_EVENTS]
  /\ UNCHANGED <<con, ev, t, slot, typed, entered, accepted, ran>>

(* The switch of event_loop.  An echo only prints, and what the player     *)
(* does with its events does not concern the console.                      *)
handle ==
  /\ pc = "handle"
  /\ pc' = IF e.type = "E_CON_INPUT" THEN "cmd_input" ELSE "event_loop"
  /\ UNCHANGED <<con, ev, t, slot, e, typed, entered, accepted, ran>>

(* cmd_input: the command prints something, or pushes an event for the     *)
(* player.  event_push takes the address of the event and tests for room;  *)
(* the message about an overflow is printed before the counters are read   *)
(* again.                                                                  *)
cmd_input ==
  /\ pc = "cmd_input"
  /\ \/ pc' = "con_reset" /\ UNCHANGED <<t, slot>>
     \/ /\ pc' = IF Overflows(ev) THEN "push_overflow" ELSE "push_store"
        /\ t' = ev.head /\ slot' = ev.head % MAX_EVENTS
  /\ UNCHANGED <<con, ev, e, typed, entered, accepted, ran>>

push_overflow ==
  /\ pc = "push_overflow" /\ pc' = "push_tail"
  /\ t' = ev.tail
  /\ UNCHANGED <<con, ev, slot, e, typed, entered, accepted, ran>>

push_tail ==
  /\ pc = "push_tail" /\ pc' = "push_store"
  /\ ev' = [ev EXCEPT !.tail = t + 1]
  /\ t' = ev.head
  /\ UNCHANGED <<con, slot, e, typed, entered, accepted, ran>>

push_store ==
  /\ pc = "push_store" /\ pc' = "push_write"
  /\ ev' = [ev EXCEPT !.head = t + 1]
  /\ UNCHANGED <<con, t, slot, e, typed, entered, accepted, ran>>

push_write ==
  /\ pc = "push_write" /\ pc' = "con_reset"
  /\ ev' = [ev EXCEPT !.events[slot] = [type |-> "E_PL_PLAY", ptr |-> t + 1]]
  /\ UNCHANGED <<con, t, slot, e, typed, entered, accepted, ran>>

(* con_reset clears the line before it unlocks.                            *)
con_reset ==
  /\ pc = "con_reset" /\ pc' = "unlock"
  /\ con' = [con EXCEPT !.input = <<>>]
  /\ UNCHANGED <<ev, t, slot, e, typed, entered, accepted, ran>>

(* con_reset that forgets to unlock.                                       *)
con_unlock_forgotten ==
  /\ pc = "unlock" /\ pc' = "event_loop"
  /\ ran' = ran + 1
  /\ UNCHANGED <<con, ev, t, slot, e, typed, entered, accepted>>

con_unlock ==
  /\ pc = "unlock" /\ pc' = "event_loop"
  /\ con' = [con EXCEPT !.lock = FALSE]
  /\ ran' = ran + 1
  /\ UNCHANGED <<ev, t, slot, e, typed, entered, accepted>>

main ==
  \/ boot_event_init \/ boot_unlock \/ polls
  \/ pop_load \/ pop_store \/ pop_read \/ handle
  \/ cmd_input \/ push_overflow \/ push_tail \/ push_store \/ push_write \/ con_reset \/ con_unlock

Next == usart3_handle_it \/ main

Spec == Init /\ [][Next]_vars

(* The processor executes the main loop whenever no interrupt runs.        *)
FairSpec == Spec /\ WF_pc(main)

-----------------------------------------------------------------------------
(* The main loop keeps up with the typist.  One event fewer than the queue *)
(* has room for: event_pop gives the slot free before it has copied it.    *)
KeepsUp == Backlog < MAX_EVENTS /\ ~EarlyTyping

Events ==
  [type : {"E_NONE", "E_CON_ECHO", "E_CON_DEL", "E_CON_INPUT", "E_PL_PLAY"}, ptr : Nat]

(* Types of the state.                                                     *)
TypeOK ==
  /\ con \in [lock : BOOLEAN, input : Seq(Chars \cup {BS})]
  /\ ev \in [head : Nat, tail : Nat, events : [0 .. MAX_EVENTS - 1 -> Events]]
  /\ e \in Events
  /\ t \in Nat /\ slot \in 0 .. MAX_EVENTS - 1
  /\ typed \in Nat /\ accepted \in Nat /\ ran \in Nat

(***************************************************************************)
(* While the main loop keeps up, a line is run exactly once: the input is  *)
(* locked just as long as one accepted line has not been run.              *)
(***************************************************************************)
RunOnce == KeepsUp => accepted = ran + (IF con.lock THEN 1 ELSE 0)

(***************************************************************************)
(* While the main loop keeps up, what cmd_input tokenizes is the line as   *)
(* it was when the user ended it, and no interrupt can push an event in    *)
(* the middle of the main loop's own event_push.                           *)
(***************************************************************************)
LineIntact ==
  KeepsUp /\ pc \in {"cmd_input", "push_store", "push_write"} =>
    con.lock /\ con.input = entered

(***************************************************************************)
(* While the main loop keeps up, event_pop returns every event, once, in   *)
(* the order of the pushes, although the interrupt pushes at any moment.   *)
(***************************************************************************)
EventsInOrder ==
  [][KeepsUp /\ pc = "pop_read" /\ pc' = "handle"
       => e'.type # "E_NONE" /\ e'.ptr = e.ptr + 1]_vars

(* The event with number n, the oldest one not yet returned, and whether   *)
(* the main loop is running a line.                                        *)
Slot(n) == ev.events[n % MAX_EVENTS]
Oldest == IF pc = "pop_read" THEN t ELSE ev.tail
Running ==
  \/ pc \in {"cmd_input", "push_overflow", "push_tail", "push_store", "push_write",
             "con_reset", "unlock"}
  \/ pc = "handle" /\ e.type = "E_CON_INPUT"

(* The queue is never full, counting the event event_pop is copying, and   *)
(* the local copies of the counters are current.                           *)
Occupancy ==
  /\ Oldest <= ev.head /\ ev.head <= Oldest + MAX_EVENTS
  /\ pc # "pop_read" => ev.head < ev.tail + MAX_EVENTS
  /\ pc \in Booting => ev.head = 0 /\ ev.tail = 0 /\ ~con.lock
  /\ pc = "pop_store" => t = ev.tail /\ t < ev.head
  /\ pc = "pop_read" => ev.tail = t + 1 /\ t < ev.head
  /\ pc \notin {"push_overflow", "push_tail"}
  /\ pc \in {"push_store", "push_write"} => slot = t % MAX_EVENTS
  /\ pc = "push_store" => t = ev.head
  /\ pc = "push_write" => ev.head = t + 1 /\ ev.tail = t
  /\ Running /\ pc \notin {"push_write", "con_reset", "unlock"} => ev.head = ev.tail

(* Every event waiting is the one pushed as its number says.               *)
Serials ==
  /\ e.ptr = Oldest
  /\ pc # "push_write" =>
       \A n \in Oldest .. ev.head - 1 :
         Slot(n).ptr = n + 1 /\ Slot(n).type # "E_NONE"

(* E_CON_INPUT is the last event, waiting while the input is locked.       *)
InputLast ==
  /\ pc # "push_write" =>
       \A n \in Oldest .. ev.head - 1 :
         Slot(n).type = "E_CON_INPUT" => n = ev.head - 1 /\ con.lock /\ ~Running
  /\ con.lock /\ ~Running =>
       Oldest < ev.head /\ Slot(ev.head - 1).type = "E_CON_INPUT"
  /\ Running => con.lock

LineKept ==
  /\ con.lock /\ pc # "unlock" => con.input = entered
  /\ accepted = ran + (IF con.lock THEN 1 ELSE 0)

(***************************************************************************)
(* The inductive invariant behind the three properties above.  Up to the   *)
(* moment event_pop has copied it, an event keeps its slot and its serial  *)
(* number; e holds the last one returned.  E_CON_INPUT is always the last  *)
(* event of the queue, and it is there, or its line is being run, exactly  *)
(* when the input is locked.                                               *)
(***************************************************************************)
ConsoleInv == KeepsUp => TypeOK /\ Occupancy /\ Serials /\ InputLast /\ LineKept

(***************************************************************************)
(* However fast the user types, and from reset on: a locked input has its  *)
(* E_CON_INPUT waiting or being handled, so the console cannot lock up     *)
(* although the queue overwrites events when it overflows.                 *)
(***************************************************************************)
LockHasInput ==
  con.lock =>
    \/ pc \in Booting \/ Running
    \/ pc = "pop_read" /\ Slot(t).type = "E_CON_INPUT"
    \/ \E n \in ev.tail .. ev.head - 1 : Slot(n).type = "E_CON_INPUT"

(* The invariant behind it.  Whatever is lost, the tail does not pass the  *)
(* head, and nothing is pushed after the E_CON_INPUT of a locked input, so *)
(* that the newest event of the queue is one until event_pop returns it.   *)
LockInv ==
  /\ TypeOK /\ ev.tail <= ev.head
  /\ pc = "pop_store" => t < ev.head
  /\ pc = "pop_read" => t < ev.tail
  /\ pc = "push_overflow" => ev.tail < ev.head
  /\ pc = "push_tail" => t < ev.head
  /\ pc = "push_store" => ev.tail <= t /\ ev.head <= t + MAX_EVENTS
  /\ con.lock /\ pc \notin Booting /\ ~Running =>
       /\ ev.tail < ev.head \/ (pc = "pop_read" /\ t = ev.head - 1)
       /\ Slot(ev.head - 1).type = "E_CON_INPUT"

(***************************************************************************)
(* The console always opens again.                                         *)
(***************************************************************************)
Reopens == con.lock ~> ~con.lock
=============================================================================
