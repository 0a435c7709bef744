-------------------------------- MODULE Event --------------------------------
(***************************************************************************)
(* The event queue of common/event.c, as operators on the record           *)
(* [head, tail, events].  An event is [type, ptr]; its time stamp is never *)
(* read and is left out, and par stands in ptr.                            *)
(***************************************************************************)
EXTENDS Integers

MAX_EVENTS == 8

NoEvent == [type |-> "E_NONE", ptr |-> 0]

event_init ==
  [head |-> 0, tail |-> 0, events |-> [k \in 0 .. MAX_EVENTS - 1 |-> NoEvent]]

event_push(ev, type, ptr) ==
  [head |-> ev.head + 1,
   tail |-> IF ev.head - ev.tail > MAX_EVENTS THEN ev.tail + 1 ELSE ev.tail,
   events |-> [ev.events EXCEPT ![ev.head % MAX_EVENTS] =
                 [type |-> type, ptr |-> ptr]]]

(* The event event_pop returns, and the queue it leaves.                   *)
event_front(ev) ==
  IF ev.head > ev.tail THEN ev.events[ev.tail % MAX_EVENTS] ELSE NoEvent

event_pop(ev) ==
  IF ev.head > ev.tail THEN [ev EXCEPT !.tail = @ + 1] ELSE ev
=============================================================================
