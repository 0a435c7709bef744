-------------------------- MODULE InterfaceProofs ---------------------------
(***************************************************************************)
(* Proofs about the two ends of the user's interface: SerialConsole, for   *)
(* every length of the queue's backlog below MAX_EVENTS, every line length *)
(* and any number of characters, and Display, for every length of the      *)
(* clock, the ticks and the timeouts.                                      *)
(***************************************************************************)
EXTENDS SerialConsole, Display, SequenceTheorems, TLAPS

-----------------------------------------------------------------------------
(* The serial console.                                                     *)

(* Two numbers less than MAX_EVENTS apart have different slots.            *)
LEMMA SlotsDiffer ==
  ASSUME NEW m \in Nat, NEW n \in Nat, m < n, n < m + MAX_EVENTS
  PROVE  m % MAX_EVENTS # n % MAX_EVENTS
  BY DEF MAX_EVENTS

LEMMA SlotInRange ==
  ASSUME NEW n \in Nat
  PROVE  n % MAX_EVENTS \in 0 .. MAX_EVENTS - 1
  BY DEF MAX_EVENTS

LEMMA InitTypes == Init => TypeOK
<1> SUFFICES ASSUME Init PROVE TypeOK
  OBVIOUS
<1>1. con = [lock |-> FALSE, input |-> <<>>] /\ <<>> \in Seq(Chars \cup {BS})
  BY DEF Init
<1>2. NoEvent \in Events
  BY DEF NoEvent, Events
<1>3. ev \in [head : Nat, tail : Nat, events : [0 .. MAX_EVENTS - 1 -> Events]]
  BY <1>2 DEF Init, event_init
<1>4. /\ e \in Events /\ t \in Nat /\ typed \in Nat /\ accepted \in Nat /\ ran \in Nat
      /\ slot \in 0 .. MAX_EVENTS - 1
  BY <1>2 DEF Init, MAX_EVENTS
<1> QED BY <1>1, <1>3, <1>4 DEF TypeOK

LEMMA ConsoleInit == Init => ConsoleInv
<1> SUFFICES ASSUME Init PROVE TypeOK /\ Occupancy /\ Serials /\ InputLast /\ LineKept
  BY DEF ConsoleInv
<1>1. Occupancy /\ Serials /\ InputLast /\ LineKept
  BY DEF Init, event_init, Occupancy, Serials, InputLast, LineKept, Oldest, Running,
         Booting, NoEvent, MAX_EVENTS
<1> QED BY <1>1, InitTypes

-----------------------------------------------------------------------------
Types == {"E_NONE", "E_CON_ECHO", "E_CON_DEL", "E_CON_INPUT", "E_PL_PLAY"}
Queue == [head : Nat, tail : Nat, events : [0 .. MAX_EVENTS - 1 -> Events]]

(* Storing one counter leaves the rest of the queue as it is.              *)
LEMMA StoreTail ==
  ASSUME NEW q \in Queue, NEW n \in Nat
  PROVE  LET r == [q EXCEPT !.tail = n + 1]
         IN  r \in Queue /\ r.head = q.head /\ r.tail = n + 1 /\ r.events = q.events
  BY DEF Queue

LEMMA StoreHead ==
  ASSUME NEW q \in Queue, NEW n \in Nat
  PROVE  LET r == [q EXCEPT !.head = n + 1]
         IN  r \in Queue /\ r.head = n + 1 /\ r.tail = q.tail /\ r.events = q.events
  BY DEF Queue

(* What event_push does to a queue with room: it numbers and stores the    *)
(* event, and leaves the slots of the MAX_EVENTS - 1 events before it.     *)
LEMMA Pushed ==
  ASSUME NEW q \in Queue, NEW type \in Types, ~Overflows(q)
  PROVE  /\ Push(q, type) \in Queue
         /\ Push(q, type).head = q.head + 1
         /\ Push(q, type).tail = q.tail
         /\ Push(q, type).events[q.head % MAX_EVENTS] = [type |-> type, ptr |-> q.head + 1]
         /\ \A n \in Nat : n < q.head /\ q.head < n + MAX_EVENTS =>
              Push(q, type).events[n % MAX_EVENTS] = q.events[n % MAX_EVENTS]
<1> DEFINE k == q.head % MAX_EVENTS
           x == [type |-> type, ptr |-> q.head + 1]
           s == [q.events EXCEPT ![k] = x]
<1>1. q.head \in Nat /\ q.tail \in Nat /\ q.events \in [0 .. MAX_EVENTS - 1 -> Events]
  BY DEF Queue
<1>2. k \in 0 .. MAX_EVENTS - 1
  BY <1>1, SlotInRange, Zenon
<1>3. x \in Events
  BY <1>1 DEF Events, Types
<1> HIDE DEF x
<1>4. s \in [0 .. MAX_EVENTS - 1 -> Events] /\ s[k] = x
  BY <1>1, <1>2, <1>3, Zenon
<1>5. ASSUME NEW n \in Nat, n < q.head, q.head < n + MAX_EVENTS
      PROVE  s[n % MAX_EVENTS] = q.events[n % MAX_EVENTS]
  <2>1. n % MAX_EVENTS # k
    BY <1>1, <1>5, SlotsDiffer
  <2>2. n % MAX_EVENTS \in 0 .. MAX_EVENTS - 1
    BY SlotInRange
  <2> QED BY <1>1, <2>1, <2>2
<1>6. Push(q, type) = [head |-> q.head + 1, tail |-> q.tail, events |-> s]
  BY <1>1 DEF Push, event_push, Overflows, x
<1> HIDE DEF s, k
<1>7. Push(q, type) \in Queue
  BY <1>1, <1>4, <1>6 DEF Queue
<1> QED BY <1>4, <1>5, <1>6, <1>7 DEF x, k

(* A character arrives only while the events it needs leave one slot free. *)
LEMMA Room ==
  ASSUME NEW k \in Nat, KeepsUp, TypeOK, Receives(k)
  PROVE  ev.head + k < ev.tail + MAX_EVENTS /\ pc \notin Booting
  BY ConsoleAssumption DEF KeepsUp, TypeOK, Receives, MAX_EVENTS
(* The invariant, without the condition on the typist.                     *)
Inv == TypeOK /\ Occupancy /\ Serials /\ InputLast /\ LineKept

(* An interrupt that edits the line and pushes one event other than        *)
(* E_CON_INPUT.                                                            *)
LEMMA EditStep ==
  ASSUME KeepsUp, Inv, Receives(1), ~con.lock,
         con'.lock = FALSE, con' \in [lock : BOOLEAN, input : Seq(Chars \cup {BS})],
         NEW type \in Types, type # "E_CON_INPUT", type # "E_NONE",
         ev' = Push(ev, type), UNCHANGED <<entered, accepted>>
  PROVE  Inv'
<1>0. /\ TypeOK /\ Occupancy /\ Serials /\ InputLast /\ LineKept
      /\ ev \in Queue /\ ev.head \in Nat /\ ev.tail \in Nat /\ t \in Nat
  BY DEF Inv, TypeOK, Queue
<1>1. ev.head + 1 < ev.tail + MAX_EVENTS /\ pc \notin Booting
  BY <1>0, Room
<1>2. UNCHANGED <<pc, t, slot, e, ran>> /\ typed' \in Nat
  BY <1>0 DEF Receives, TypeOK
<1>3. ~Overflows(ev)
  BY <1>0, <1>1 DEF Overflows, MAX_EVENTS
<1>4. /\ ev' \in Queue /\ ev'.head = ev.head + 1 /\ ev'.tail = ev.tail
      /\ ev'.events[ev.head % MAX_EVENTS] = [type |-> type, ptr |-> ev.head + 1]
      /\ \A n \in Nat : n < ev.head /\ ev.head < n + MAX_EVENTS =>
           ev'.events[n % MAX_EVENTS] = ev.events[n % MAX_EVENTS]
  BY <1>0, <1>3, Pushed
<1>5. TypeOK'
  BY <1>0, <1>2, <1>4 DEF TypeOK, Queue
<1>6. ~Running /\ ~Running' /\ Oldest' = Oldest /\ pc # "push_write"
  <2>1. ~Running
    BY <1>0 DEF InputLast
  <2> QED BY <2>1, <1>2, <1>4 DEF Running, Oldest
<1>7. Oldest \in Nat /\ ev.head < Oldest + MAX_EVENTS /\ Oldest <= ev.head
  BY <1>0, <1>1 DEF Occupancy, Oldest, MAX_EVENTS
<1>8. Occupancy'
  <2>1. /\ Oldest <= ev'.head /\ ev'.head <= Oldest + MAX_EVENTS
        /\ ev'.head < ev'.tail + MAX_EVENTS
    BY <1>0, <1>1, <1>4, <1>7 DEF MAX_EVENTS
  <2>2. /\ pc \notin {"push_overflow", "push_tail", "push_store", "push_write"}
        /\ pc = "pop_store" => t = ev'.tail /\ t < ev'.head
        /\ pc = "pop_read" => ev'.tail = t + 1 /\ t < ev'.head
    BY <1>0, <1>4, <1>6 DEF Occupancy, Running
  <2> QED BY <1>1, <1>2, <1>6, <2>1, <2>2 DEF Occupancy
<1>9. ASSUME NEW n \in Oldest' .. ev'.head - 1
      PROVE  \/ n \in Oldest .. ev.head - 1 /\ Slot(n)' = Slot(n)
             \/ n = ev.head /\ Slot(n)' = [type |-> type, ptr |-> n + 1]
  <2>1. n \in Nat /\ (n = ev.head \/ n \in Oldest .. ev.head - 1)
    BY <1>0, <1>4, <1>6, <1>7
  <2>2. CASE n = ev.head
    BY <1>4, <2>2, Zenon DEF Slot
  <2>3. CASE n \in Oldest .. ev.head - 1
    <3>1. n < ev.head /\ ev.head < n + MAX_EVENTS
      BY <1>0, <1>7, <2>1, <2>3 DEF MAX_EVENTS
    <3> QED BY <1>4, <2>1, <2>3, <3>1, Zenon DEF Slot
  <2> QED BY <2>1, <2>2, <2>3
<1>10. Serials'
  <2>1. e'.ptr = Oldest'
    BY <1>0, <1>2, <1>6 DEF Serials
  <2>2. ASSUME NEW n \in Oldest' .. ev'.head - 1
        PROVE  Slot(n)'.ptr = n + 1 /\ Slot(n)'.type # "E_NONE"
    BY <1>0, <1>6, <1>9 DEF Serials
  <2> QED BY <2>1, <2>2 DEF Serials
<1>11. InputLast'
  <2>1. ASSUME NEW n \in Oldest' .. ev'.head - 1, Slot(n)'.type = "E_CON_INPUT"
        PROVE  FALSE
    BY <1>0, <1>6, <1>9, <2>1 DEF InputLast
  <2> QED BY <1>6, <2>1 DEF InputLast
<1>12. LineKept'
  BY <1>0, <1>2 DEF LineKept
<1> QED BY <1>5, <1>8, <1>10, <1>11, <1>12 DEF Inv
(* The interrupt that ends the line: two events, E_CON_INPUT the last one. *)
LEMMA EndStep ==
  ASSUME KeepsUp, Inv, usart_cr
  PROVE  Inv'
<1> DEFINE q == Push(ev, "E_CON_ECHO")
<1>0. /\ TypeOK /\ Occupancy /\ Serials /\ InputLast /\ LineKept
      /\ ev \in Queue /\ ev.head \in Nat /\ ev.tail \in Nat /\ t \in Nat
  BY DEF Inv, TypeOK, Queue
<1>1. ev.head + 2 < ev.tail + MAX_EVENTS /\ pc \notin Booting
  <2>1. Receives(2)
    BY DEF usart_cr
  <2> QED BY <1>0, <2>1, Room
<1>2. UNCHANGED <<pc, t, slot, e, ran>> /\ typed' \in Nat
  BY <1>0 DEF usart_cr, Receives, TypeOK
<1>3. /\ q \in Queue /\ q.head = ev.head + 1 /\ q.tail = ev.tail
      /\ q.events[ev.head % MAX_EVENTS] = [type |-> "E_CON_ECHO", ptr |-> ev.head + 1]
      /\ \A n \in Nat : n < ev.head /\ ev.head < n + MAX_EVENTS =>
           q.events[n % MAX_EVENTS] = ev.events[n % MAX_EVENTS]
  <2>1. ~Overflows(ev) /\ "E_CON_ECHO" \in Types
    BY <1>0, <1>1 DEF Overflows, MAX_EVENTS, Types
  <2> QED BY <1>0, <2>1, Pushed
<1>4. /\ ev' \in Queue /\ ev'.head = q.head + 1 /\ ev'.tail = q.tail
      /\ ev'.events[q.head % MAX_EVENTS] = [type |-> "E_CON_INPUT", ptr |-> q.head + 1]
      /\ \A n \in Nat : n < q.head /\ q.head < n + MAX_EVENTS =>
           ev'.events[n % MAX_EVENTS] = q.events[n % MAX_EVENTS]
  <2>1. ~Overflows(q) /\ "E_CON_INPUT" \in Types
    BY <1>0, <1>1, <1>3 DEF Overflows, MAX_EVENTS, Types
  <2>2. ev' = Push(q, "E_CON_INPUT")
    BY DEF usart_cr
  <2> QED BY <1>3, <2>1, <2>2, Pushed
<1> HIDE DEF q
<1>5. con' \in [lock : BOOLEAN, input : Seq(Chars \cup {BS})] /\ con'.lock /\ ~con.lock
      /\ con'.input = con.input /\ entered' = con.input /\ accepted' = accepted + 1
  BY <1>0, Zenon DEF usart_cr, TypeOK
<1>6. TypeOK'
  BY <1>0, <1>2, <1>4, <1>5 DEF TypeOK, Queue
<1>7. ~Running /\ ~Running' /\ Oldest' = Oldest /\ pc \notin {"push_write", "unlock"}
  <2>1. ~Running
    BY <1>0, <1>5 DEF InputLast
  <2> QED BY <2>1, <1>2, <1>3, <1>4 DEF Running, Oldest
<1>8. Oldest \in Nat /\ ev.head + 1 < Oldest + MAX_EVENTS /\ Oldest <= ev.head
  BY <1>0, <1>1 DEF Occupancy, Oldest, MAX_EVENTS
<1>9. Occupancy'
  BY <1>0, <1>1, <1>2, <1>3, <1>4, <1>7, <1>8 DEF Occupancy, MAX_EVENTS, Oldest, Running
<1>10. ASSUME NEW n \in Oldest' .. ev'.head - 1
       PROVE  \/ n \in Oldest .. ev.head - 1 /\ Slot(n)' = Slot(n)
              \/ n = ev.head /\ Slot(n)' = [type |-> "E_CON_ECHO", ptr |-> n + 1]
              \/ n = ev'.head - 1 /\ Slot(n)' = [type |-> "E_CON_INPUT", ptr |-> n + 1]
  <2>1. /\ n \in Nat
        /\ n \in Oldest .. ev.head - 1 \/ n = ev.head \/ (n = q.head /\ n = ev'.head - 1)
    <3>1. q.head = ev.head + 1 /\ ev'.head = ev.head + 2
      BY <1>0, <1>3, <1>4
    <3>2. n \in Oldest .. (ev.head + 2) - 1
      BY <1>7, <3>1
    <3> QED BY <1>0, <1>8, <3>1, <3>2
  <2>2. CASE n = ev.head
    <3>1. n < q.head /\ q.head < n + MAX_EVENTS
      BY <1>0, <1>3, <2>1, <2>2 DEF MAX_EVENTS
    <3> QED BY <1>3, <1>4, <2>1, <2>2, <3>1, Zenon DEF Slot
  <2>3. CASE n \in Oldest .. ev.head - 1
    <3>1. n < ev.head /\ ev.head < n + MAX_EVENTS /\ n < q.head /\ q.head < n + MAX_EVENTS
      BY <1>0, <1>3, <1>8, <2>1, <2>3 DEF MAX_EVENTS
    <3> QED BY <1>3, <1>4, <2>1, <2>3, <3>1, Zenon DEF Slot
  <2>4. CASE n = q.head /\ n = ev'.head - 1
    BY <1>4, <2>1, <2>4, Zenon DEF Slot
  <2> QED BY <2>1, <2>2, <2>3, <2>4
<1>11. Serials'
  <2>1. e'.ptr = Oldest'
    BY <1>0, <1>2, <1>7 DEF Serials
  <2>2. ASSUME NEW n \in Oldest' .. ev'.head - 1
        PROVE  Slot(n)'.ptr = n + 1 /\ Slot(n)'.type # "E_NONE"
    BY <1>0, <1>7, <1>10 DEF Serials
  <2> QED BY <2>1, <2>2 DEF Serials
<1>12. InputLast'
  <2>1. ASSUME NEW n \in Oldest' .. ev'.head - 1, Slot(n)'.type = "E_CON_INPUT"
        PROVE  n = ev'.head - 1
    BY <1>0, <1>5, <1>7, <1>10, <2>1 DEF InputLast
  <2>2. Oldest' < ev'.head /\ ev'.head - 1 \in Oldest' .. ev'.head - 1 /\ ev'.head - 1 # ev.head
        /\ ev'.head - 1 \notin Oldest .. ev.head - 1
    BY <1>0, <1>3, <1>4, <1>7, <1>8
  <2>3. ev'.events[(ev'.head - 1) % MAX_EVENTS].type = "E_CON_INPUT"
    <3>1. ASSUME NEW n \in Oldest' .. ev'.head - 1, n # ev.head, n \notin Oldest .. ev.head - 1
          PROVE  Slot(n)'.type = "E_CON_INPUT"
      BY <1>10, <3>1
    <3> QED BY <2>2, <3>1, Zenon DEF Slot
  <2> QED BY <1>5, <1>7, <2>1, <2>2, <2>3 DEF InputLast, Slot
<1>13. LineKept'
  BY <1>0, <1>2, <1>5 DEF LineKept, TypeOK
<1> QED BY <1>6, <1>9, <1>11, <1>12, <1>13 DEF Inv

(* Editing keeps the type of the console and its lock.                     *)
LEMMA Deleted ==
  ASSUME con \in [lock : BOOLEAN, input : Seq(Chars \cup {BS})], con.input # <<>>
  PROVE  /\ con_input_del(con) \in [lock : BOOLEAN, input : Seq(Chars \cup {BS})]
         /\ con_input_del(con).lock = con.lock
<1>1. Len(con.input) \in Nat /\ Len(con.input) # 0
  BY EmptySeq, LenProperties
<1>2. SubSeq(con.input, 1, Len(con.input) - 1) \in Seq(Chars \cup {BS})
  BY <1>1, SubSeqProperties
<1> QED BY <1>2 DEF con_input_del

LEMMA Typed ==
  ASSUME con \in [lock : BOOLEAN, input : Seq(Chars \cup {BS})], NEW ch \in Chars \cup {BS}
  PROVE  /\ con_input_push(con, ch) \in [lock : BOOLEAN, input : Seq(Chars \cup {BS})]
         /\ con_input_push(con, ch).lock = con.lock
<1>1. Append(con.input, ch) \in Seq(Chars \cup {BS})
  BY AppendProperties
<1> QED BY <1>1 DEF con_input_push

(* The interrupt keeps the invariant.                                      *)
LEMMA InterruptStep ==
  ASSUME KeepsUp, Inv, usart3_handle_it
  PROVE  Inv'
<1>0. con \in [lock : BOOLEAN, input : Seq(Chars \cup {BS})]
  BY DEF Inv, TypeOK
<1>1. CASE usart_cr
  BY <1>1, EndStep
<1>2. CASE usart_del
  <2>1. con' \in [lock : BOOLEAN, input : Seq(Chars \cup {BS})] /\ con'.lock = con.lock
    BY <1>0, <1>2, Deleted DEF usart_del
  <2>2. "E_CON_DEL" \in Types /\ ev' = Push(ev, "E_CON_DEL")
    BY <1>2 DEF usart_del, Types
  <2> QED BY <1>2, <2>1, <2>2, EditStep, Zenon DEF usart_del
<1>3. ASSUME NEW ch \in Chars \cup {BS}, usart_push(ch)
      PROVE  Inv'
  <2>1. con' \in [lock : BOOLEAN, input : Seq(Chars \cup {BS})] /\ con'.lock = con.lock
    BY <1>0, <1>3, Typed DEF usart_push
  <2>2. "E_CON_ECHO" \in Types /\ ev' = Push(ev, "E_CON_ECHO")
    BY <1>3, Zenon DEF usart_push, Types
  <2> QED BY <1>3, <2>1, <2>2, EditStep, Zenon DEF usart_push
<1> QED BY <1>1, <1>2, <1>3 DEF usart3_handle_it

(* The steps of the main loop keep the invariant.                          *)
LEMMA MainStep ==
  ASSUME Inv, main
  PROVE  Inv'
<1>0. TypeOK /\ Occupancy /\ Serials /\ InputLast /\ LineKept
  BY DEF Inv
<1> USE DEF Inv
<1>1. CASE boot_event_init
  <2>1. ev' = [head |-> 0, tail |-> 0, events |-> [k \in 0 .. MAX_EVENTS - 1 |-> NoEvent]]
    BY <1>1 DEF boot_event_init, event_init
  <2>2. NoEvent \in Events
    BY DEF NoEvent, Events
  <2>3. TypeOK'
    BY <1>0, <1>1, <2>1, <2>2 DEF boot_event_init, TypeOK
  <2>4. ~con.lock /\ e.ptr = 0
    BY <1>0, <1>1, Zenon DEF boot_event_init, Occupancy, Serials, Oldest, Booting
  <2>5. Occupancy' /\ Serials' /\ InputLast'
    BY <1>0, <1>1, <2>1, <2>4 DEF boot_event_init, Occupancy, Serials, InputLast, Oldest,
                                  Running, Booting, MAX_EVENTS
  <2>6. LineKept'
    BY <1>0, <1>1 DEF boot_event_init, LineKept
  <2> QED BY <2>3, <2>5, <2>6
<1>2. CASE boot_unlock
  BY <1>0, <1>2, Zenon DEF boot_unlock, TypeOK, Occupancy, Serials, InputLast, LineKept, Oldest,
                    Running, Slot, Booting
<1>3. CASE polls
  BY <1>0, <1>3, Zenon DEF polls, TypeOK, Occupancy, Serials, InputLast, LineKept, Oldest,
                    Running, Slot, Booting
<1>4. CASE pop_load
  BY <1>0, <1>4 DEF pop_load, TypeOK, Occupancy, Serials, InputLast, LineKept, Oldest,
                    Running, Slot, Booting
<1>5. CASE pop_store
  <2>1. TypeOK'
    <3>1. ev \in Queue /\ t \in Nat
      BY <1>0 DEF TypeOK, Queue
    <3>2. ev' \in Queue
      BY <1>5, <3>1, StoreTail, Zenon DEF pop_store
    <3> QED BY <1>0, <1>5, <3>2, Zenon DEF pop_store, TypeOK, Queue
  <2>2. Occupancy'
    BY <1>0, <1>5 DEF pop_store, TypeOK, Occupancy, Oldest, Running, Booting
  <2>3. Serials' /\ InputLast' /\ LineKept'
    BY <1>0, <1>5 DEF pop_store, TypeOK, Occupancy, Serials, InputLast, LineKept, Oldest,
                      Running, Slot
  <2> QED BY <2>1, <2>2, <2>3
<1>6. CASE pop_read
  <2>1. e' = Slot(t) /\ e' \in Events
    <3>1. ev.tail - 1 = t /\ t \in Nat
      BY <1>0, <1>6 DEF pop_read, TypeOK, Occupancy
    <3>2. e' = ev.events[t % MAX_EVENTS]
      BY <1>6, <3>1 DEF pop_read
    <3>3. t % MAX_EVENTS \in 0 .. MAX_EVENTS - 1
      BY <3>1, SlotInRange, Zenon
    <3> QED BY <1>0, <3>2, <3>3, Zenon DEF Slot, TypeOK
  <2>2. /\ t \in Oldest .. ev.head - 1 /\ Oldest = t /\ Oldest' = t + 1
        /\ ev.tail = t + 1 /\ t \in Nat /\ ev.head \in Nat /\ t < ev.head
    BY <1>0, <1>6 DEF pop_read, TypeOK, Occupancy, Oldest
  <2>3. e'.ptr = t + 1
    BY <1>0, <1>6, <2>1, <2>2 DEF Serials, pop_read
  <2>4. \A n \in Oldest' .. ev'.head - 1 : n \in Oldest .. ev.head - 1 /\ Slot(n)' = Slot(n)
    BY <1>6, <2>2 DEF pop_read, Slot
  <2>5. ~Running /\ (Running' <=> e'.type = "E_CON_INPUT")
    BY <1>6 DEF pop_read, Running
  <2>6. e'.type = "E_CON_INPUT" => ev.head = t + 1 /\ con.lock
    BY <1>0, <1>6, <2>1, <2>2 DEF InputLast, pop_read
  <2>7. TypeOK'
    BY <1>0, <1>6, <2>1, Zenon DEF pop_read, TypeOK
  <2>8. Occupancy'
    BY <1>0, <1>6, <2>2, <2>5, <2>6 DEF pop_read, Occupancy, Oldest, Booting, MAX_EVENTS
  <2>9. Serials'
    BY <1>0, <1>6, <2>2, <2>3, <2>4, Zenon DEF pop_read, Serials
  <2>10. InputLast'
    <3>1. ASSUME NEW n \in Oldest' .. ev'.head - 1, Slot(n)'.type = "E_CON_INPUT"
          PROVE  n = ev.head - 1 /\ con.lock /\ ev.head # t + 1
      <4>1. n \in Oldest .. ev.head - 1 /\ Slot(n).type = "E_CON_INPUT"
        BY <2>4, <3>1
      <4>2. ev.head # t + 1
        BY <1>6, <2>2 DEF pop_read
      <4> QED BY <1>0, <1>6, <4>1, <4>2 DEF InputLast, pop_read
    <3>2. con.lock /\ e'.type # "E_CON_INPUT" =>
            t + 1 < ev.head /\ Slot(ev.head - 1).type = "E_CON_INPUT"
      <4>1. con.lock => t < ev.head /\ Slot(ev.head - 1).type = "E_CON_INPUT"
        BY <1>0, <2>2, <2>5 DEF InputLast
      <4>2. ev.head - 1 = t => Slot(ev.head - 1) = e'
        BY <2>1, Zenon
      <4> QED BY <2>2, <4>1, <4>2
    <3> QED BY <1>6, <2>2, <2>5, <2>6, <3>1, <3>2, Zenon DEF InputLast, pop_read, Slot
  <2>11. LineKept'
    BY <1>0, <1>6, Zenon DEF pop_read, LineKept
  <2> QED BY <2>7, <2>8, <2>9, <2>10, <2>11
<1>7. CASE handle
  BY <1>0, <1>7, Zenon DEF handle, TypeOK, Occupancy, Serials, InputLast, LineKept, Oldest,
                    Running, Slot, Booting
<1>8. CASE cmd_input
  <2>1. ev.head = ev.tail /\ ev.head \in Nat /\ ~Overflows(ev)
    BY <1>0, <1>8 DEF cmd_input, TypeOK, Occupancy, Running, Overflows, MAX_EVENTS
  <2>2. ev.head % MAX_EVENTS \in 0 .. MAX_EVENTS - 1
    BY <2>1, SlotInRange, Zenon
  <2>3. TypeOK'
    BY <1>0, <1>8, <2>1, <2>2, Zenon DEF cmd_input, TypeOK
  <2>4. Occupancy'
    BY <1>0, <1>8, <2>1, Zenon DEF cmd_input, TypeOK, Occupancy, Oldest, Running, Booting
  <2>5. Serials' /\ InputLast' /\ LineKept'
    BY <1>0, <1>8, <2>1 DEF cmd_input, TypeOK, Serials, InputLast, LineKept, Oldest,
                            Running, Slot
  <2> QED BY <2>3, <2>4, <2>5
<1>9. CASE push_store
  <2>1. con.lock /\ ev.head = ev.tail /\ t = ev.head /\ ev.head \in Nat
    BY <1>0, <1>9 DEF push_store, TypeOK, InputLast, Occupancy, Running
  <2>2. /\ ev' \in [head : Nat, tail : Nat, events : [0 .. MAX_EVENTS - 1 -> Events]]
        /\ ev'.head = t + 1 /\ ev'.tail = t
    BY <1>0, <1>9, <2>1 DEF push_store, TypeOK
  <2>3. TypeOK'
    BY <1>0, <1>9, <2>2, Zenon DEF push_store, TypeOK
  <2>4. Occupancy'
    <3>1. ev'.tail < ev'.head /\ ev'.head <= ev'.tail + MAX_EVENTS
          /\ ev'.head < ev'.tail + MAX_EVENTS /\ ev'.tail <= ev'.head
      BY <2>1, <2>2 DEF MAX_EVENTS
    <3>2. slot = t % MAX_EVENTS
      BY <1>0, <1>9, Zenon DEF push_store, Occupancy
    <3> QED BY <1>9, <2>1, <2>2, <3>1, <3>2, Zenon DEF push_store, Occupancy, Oldest, Booting
  <2>5. Serials' /\ InputLast'
    BY <1>0, <1>9, <2>1, <2>2 DEF push_store, Serials, InputLast, Oldest, Running
  <2>6. LineKept'
    BY <1>0, <1>9 DEF push_store, LineKept
  <2> QED BY <2>3, <2>4, <2>5, <2>6
<1>10. CASE push_write
  <2>1. con.lock /\ ev.head = t + 1 /\ ev.tail = t /\ t \in Nat /\ slot = t % MAX_EVENTS
    BY <1>0, <1>10 DEF push_write, TypeOK, InputLast, Occupancy, Running
  <2>2. t % MAX_EVENTS \in 0 .. MAX_EVENTS - 1
    BY <2>1, SlotInRange
  <2>3. [type |-> "E_PL_PLAY", ptr |-> t + 1] \in Events
    BY <2>1 DEF Events
  <2>4. /\ ev' \in [head : Nat, tail : Nat, events : [0 .. MAX_EVENTS - 1 -> Events]]
        /\ ev'.head = t + 1 /\ ev'.tail = t
        /\ ev'.events[t % MAX_EVENTS] = [type |-> "E_PL_PLAY", ptr |-> t + 1]
    BY <1>0, <1>10, <2>1, <2>2, <2>3, Zenon DEF push_write, TypeOK
  <2>5. TypeOK'
    BY <1>0, <1>10, <2>4, Zenon DEF push_write, TypeOK
  <2>6. \A n \in Oldest' .. ev'.head - 1 : n = t
    BY <1>10, <2>1, <2>4 DEF push_write, Oldest
  <2>7. \A n \in Oldest' .. ev'.head - 1 : Slot(n)' = [type |-> "E_PL_PLAY", ptr |-> n + 1]
    BY <2>4, <2>6, Zenon DEF Slot
  <2>8. Occupancy' /\ LineKept'
    BY <1>0, <1>10, <2>1, <2>4 DEF push_write, Occupancy, Oldest, Running, Booting,
                                   MAX_EVENTS, LineKept
  <2>9. Serials' /\ InputLast'
    BY <1>0, <1>10, <2>1, <2>4, <2>7 DEF push_write, Serials, InputLast, Oldest, Running
  <2> QED BY <2>5, <2>8, <2>9
<1>11. CASE con_reset
  <2>1. TypeOK'
    <3>1. <<>> \in Seq(Chars \cup {BS})
      OBVIOUS
    <3>2. con' \in [lock : BOOLEAN, input : Seq(Chars \cup {BS})]
      BY <1>0, <1>11, <3>1, Zenon DEF con_reset, TypeOK
    <3> QED BY <1>0, <1>11, <3>2 DEF con_reset, TypeOK
  <2>2. Occupancy' /\ Serials'
    BY <1>0, <1>11 DEF con_reset, TypeOK, Occupancy, Serials, Oldest, Running, Slot, Booting
  <2>3. InputLast'
    BY <1>0, <1>11 DEF con_reset, TypeOK, InputLast, Oldest, Running, Slot
  <2>4. LineKept'
    BY <1>0, <1>11 DEF con_reset, TypeOK, LineKept
  <2> QED BY <2>1, <2>2, <2>3, <2>4
<1>12. CASE con_unlock
  <2>1. TypeOK'
    <3>1. con' \in [lock : BOOLEAN, input : Seq(Chars \cup {BS})]
      BY <1>0, <1>12, Zenon DEF con_unlock, TypeOK
    <3> QED BY <1>0, <1>12, <3>1 DEF con_unlock, TypeOK
  <2>2. Occupancy' /\ Serials'
    BY <1>0, <1>12 DEF con_unlock, TypeOK, Occupancy, Serials, Oldest, Running, Slot, Booting
  <2>3. InputLast'
    BY <1>0, <1>12 DEF con_unlock, TypeOK, InputLast, Oldest, Running, Slot
  <2>4. LineKept'
    <3>1. con.lock /\ ~con'.lock
      BY <1>0, <1>12 DEF con_unlock, TypeOK, InputLast, Running
    <3> QED BY <1>0, <1>12, <3>1 DEF con_unlock, TypeOK, LineKept
  <2> QED BY <2>1, <2>2, <2>3, <2>4
<1>13. CASE push_overflow \/ push_tail
  BY <1>0, <1>13 DEF push_overflow, push_tail, Occupancy
<1> QED BY <1>1, <1>2, <1>3, <1>4, <1>5, <1>6, <1>7, <1>8, <1>9, <1>10, <1>11, <1>12, <1>13
        DEF main

-----------------------------------------------------------------------------
LEMMA ConsoleStep == ConsoleInv /\ [Next]_vars => ConsoleInv'
<1> SUFFICES ASSUME KeepsUp, Inv, [Next]_vars PROVE Inv'
  BY DEF ConsoleInv, Inv, KeepsUp
<1>1. CASE usart3_handle_it
  BY <1>1, InterruptStep
<1>2. CASE main
  BY <1>2, MainStep, Zenon
<1>3. CASE UNCHANGED vars
  BY <1>3 DEF vars, Inv, TypeOK, Occupancy, Serials, InputLast, LineKept, Oldest, Running,
              Slot, Booting
<1> QED BY <1>1, <1>2, <1>3 DEF Next

(***************************************************************************)
(* The invariant holds for every line length, every alphabet, any number   *)
(* of characters and every backlog shorter than the queue.                 *)
(***************************************************************************)
THEOREM ConsoleInvariant == Spec => []ConsoleInv
  BY ConsoleInit, ConsoleStep, PTL DEF Spec

(***************************************************************************)
(* A line the user ends is run exactly once, although nothing but con.lock *)
(* keeps the USART interrupt and the main loop apart.                      *)
(***************************************************************************)
THEOREM EveryLineRunOnce == Spec => []RunOnce
<1>1. ConsoleInv => RunOnce
  BY DEF ConsoleInv, LineKept, RunOnce
<1> QED BY <1>1, ConsoleInvariant, PTL

(***************************************************************************)
(* cmd_input sees the line as it was ended; the interrupt can neither      *)
(* change it nor push an event while the main loop itself pushes one.      *)
(***************************************************************************)
THEOREM LineStaysIntact == Spec => []LineIntact
<1>1. ConsoleInv => LineIntact
  BY DEF ConsoleInv, LineKept, InputLast, Running, LineIntact
<1> QED BY <1>1, ConsoleInvariant, PTL

(***************************************************************************)
(* event_pop returns every event once and in order, however the interrupt  *)
(* interleaves with its three steps.                                       *)
(***************************************************************************)
THEOREM PopsInOrder == Spec => EventsInOrder
<1> DEFINE A == KeepsUp /\ pc = "pop_read" /\ pc' = "handle"
                  => e'.type # "E_NONE" /\ e'.ptr = e.ptr + 1
<1>1. ConsoleInv /\ [Next]_vars => [A]_vars
  <2> SUFFICES ASSUME KeepsUp, Inv, Next, pc = "pop_read", pc' = "handle"
               PROVE  e'.type # "E_NONE" /\ e'.ptr = e.ptr + 1
    BY Zenon DEF ConsoleInv, Inv
  <2>1. pop_read
    BY DEF Next, main, usart3_handle_it, usart_cr, usart_del, usart_push, Receives,
           boot_event_init, boot_unlock, polls, pop_load, pop_store, handle, cmd_input,
           push_overflow, push_tail, push_store, push_write, con_reset, con_unlock
  <2>2. ev.tail - 1 = t /\ t \in Nat /\ t \in Oldest .. ev.head - 1 /\ Oldest = t
    BY DEF Inv, TypeOK, Occupancy, Oldest
  <2>3. e' = Slot(t)
    BY <2>1, <2>2 DEF pop_read, Slot
  <2> QED BY <2>2, <2>3 DEF Inv, Serials
<1> QED BY <1>1, ConsoleInvariant, PTL DEF Spec, EventsInOrder

-----------------------------------------------------------------------------
(* The console of a typist who does not wait.                              *)

(* event_push, whether or not there is room: the tail moves only if it is  *)
(* far behind the head.                                                    *)
LEMMA PushedAnyway ==
  ASSUME NEW q \in Queue, NEW type \in Types
  PROVE  /\ Push(q, type) \in Queue
         /\ Push(q, type).head = q.head + 1
         /\ \/ Push(q, type).tail = q.tail
            \/ Push(q, type).tail = q.tail + 1 /\ q.tail + 1 + MAX_EVENTS <= q.head
         /\ Push(q, type).events[q.head % MAX_EVENTS].type = type
<1> DEFINE k == q.head % MAX_EVENTS
           x == [type |-> type, ptr |-> q.head + 1]
           s == [q.events EXCEPT ![k] = x]
           n == IF q.head - q.tail > MAX_EVENTS THEN q.tail + 1 ELSE q.tail
<1>1. q.head \in Nat /\ q.tail \in Nat /\ q.events \in [0 .. MAX_EVENTS - 1 -> Events]
  BY DEF Queue
<1>2. k \in 0 .. MAX_EVENTS - 1
  BY <1>1, SlotInRange, Zenon
<1>3. x \in Events /\ x.type = type
  BY <1>1 DEF Events, Types
<1>4. n \in Nat /\ (n = q.tail \/ (n = q.tail + 1 /\ q.tail + 1 + MAX_EVENTS <= q.head))
  BY <1>1 DEF MAX_EVENTS
<1>5. Push(q, type) = [head |-> q.head + 1, tail |-> n, events |-> s]
  BY DEF Push, event_push
<1> HIDE DEF x, n
<1>6. s \in [0 .. MAX_EVENTS - 1 -> Events] /\ s[k] = x
  BY <1>1, <1>2, <1>3, Zenon
<1> HIDE DEF s, k
<1>7. Push(q, type) \in Queue
  BY <1>1, <1>4, <1>5, <1>6 DEF Queue
<1> QED BY <1>3, <1>4, <1>5, <1>6, <1>7 DEF k

(* A tail so moved stays behind the head, and behind any k that the head   *)
(* does not leave more than MAX_EVENTS behind.                             *)
LEMMA TailBehind ==
  ASSUME NEW head \in Nat, NEW tail \in Nat, NEW moved, tail <= head,
         moved = tail \/ (moved = tail + 1 /\ tail + 1 + MAX_EVENTS <= head)
  PROVE  /\ moved \in Nat /\ tail <= moved /\ moved < head + 1
         /\ \A k \in Nat : tail <= k /\ head + 1 <= k + MAX_EVENTS => moved <= k
  BY DEF MAX_EVENTS

(* An interrupt that edits a line which is not locked.                     *)
LEMMA EditKeepsLock ==
  ASSUME LockInv, Receives(1), con'.lock = FALSE,
         con' \in [lock : BOOLEAN, input : Seq(Chars \cup {BS})],
         NEW type \in Types, ev' = Push(ev, type), UNCHANGED <<entered, accepted>>
  PROVE  LockInv'
<1>0. TypeOK /\ ev \in Queue /\ ev.head \in Nat /\ ev.tail \in Nat /\ t \in Nat
  BY DEF LockInv, TypeOK, Queue
<1>1. /\ UNCHANGED <<pc, t, slot, e, ran>> /\ typed' \in Nat
      /\ pc = "push_store" => ev.head + 1 <= t + MAX_EVENTS
  BY <1>0 DEF Receives, TypeOK
<1>2. /\ ev' \in Queue /\ ev'.head = ev.head + 1
      /\ ev'.tail = ev.tail \/ (ev'.tail = ev.tail + 1 /\ ev.tail + 1 + MAX_EVENTS <= ev.head)
  BY <1>0, PushedAnyway, Zenon
<1>3. TypeOK'
  BY <1>0, <1>1, <1>2 DEF TypeOK, Queue
<1>4. /\ ev'.tail \in Nat /\ ev'.tail < ev'.head
      /\ pc = "push_store" => ev'.tail <= t /\ ev'.head <= t + MAX_EVENTS
  <2>1. ev.tail <= ev.head /\ (pc = "push_store" => ev.tail <= t)
    BY DEF LockInv
  <2>2. /\ ev'.tail \in Nat /\ ev'.tail < ev.head + 1
        /\ ev.tail <= t /\ ev.head + 1 <= t + MAX_EVENTS => ev'.tail <= t
    BY <1>0, <1>2, <2>1, TailBehind, Zenon
  <2> QED BY <1>1, <1>2, <2>1, <2>2, Zenon
<1>5. /\ pc = "pop_store" => t < ev'.head
      /\ pc = "pop_read" => t < ev'.tail
      /\ pc = "push_tail" => t < ev'.head
      /\ ev'.tail <= ev'.head
  BY <1>0, <1>2, <1>4 DEF LockInv
<1> QED BY <1>1, <1>3, <1>4, <1>5, Zenon DEF LockInv

(* The interrupt that ends the line.                                       *)
LEMMA EndKeepsLock ==
  ASSUME LockInv, usart_cr
  PROVE  LockInv'
<1> DEFINE q == Push(ev, "E_CON_ECHO")
<1>0. TypeOK /\ ev \in Queue /\ ev.head \in Nat /\ ev.tail \in Nat /\ t \in Nat
  BY DEF LockInv, TypeOK, Queue
<1>1. /\ UNCHANGED <<pc, t, slot, e, ran>> /\ typed' \in Nat
      /\ pc = "push_store" => ev.head + 2 <= t + MAX_EVENTS
  BY <1>0 DEF usart_cr, Receives, TypeOK
<1>2. /\ q \in Queue /\ q.head = ev.head + 1
      /\ q.tail = ev.tail \/ (q.tail = ev.tail + 1 /\ ev.tail + 1 + MAX_EVENTS <= ev.head)
  <2>1. "E_CON_ECHO" \in Types
    BY Zenon DEF Types
  <2> QED BY <1>0, <2>1, PushedAnyway
<1>3. /\ ev' \in Queue /\ ev'.head = q.head + 1
      /\ ev'.tail = q.tail \/ (ev'.tail = q.tail + 1 /\ q.tail + 1 + MAX_EVENTS <= q.head)
      /\ ev'.events[q.head % MAX_EVENTS].type = "E_CON_INPUT"
  <2>1. "E_CON_INPUT" \in Types /\ ev' = Push(q, "E_CON_INPUT")
    BY DEF Types, usart_cr
  <2> QED BY <1>2, <2>1, PushedAnyway
<1> HIDE DEF q
<1>4. con' \in [lock : BOOLEAN, input : Seq(Chars \cup {BS})] /\ accepted' \in Nat
  <2>1. con' \in [lock : BOOLEAN, input : Seq(Chars \cup {BS})]
    BY <1>0, Zenon DEF usart_cr, TypeOK
  <2>2. accepted' \in Nat
    BY <1>0 DEF usart_cr, TypeOK
  <2> QED BY <2>1, <2>2
<1>5. TypeOK'
  BY <1>0, <1>1, <1>3, <1>4 DEF TypeOK, Queue
<1>6. q.tail \in Nat /\ q.head = ev'.head - 1 /\ ev'.tail \in Nat /\ ev'.head \in Nat
  BY <1>0, <1>2, <1>3 DEF Queue
<1>7. Slot(ev.head - 1)'.type = "E_CON_INPUT"
  BY <1>3, <1>6, Zenon DEF Slot
<1>8. ev'.tail < ev'.head /\ (pc = "push_store" => ev'.tail <= t /\ ev'.head <= t + MAX_EVENTS)
  BY <1>0, <1>1, <1>2, <1>3, <1>6 DEF LockInv, MAX_EVENTS
<1>9. ev.head < ev'.head /\ ev.tail <= ev'.tail
  BY <1>0, <1>2, <1>3, <1>6
<1>10. /\ pc = "pop_store" => t < ev'.head
       /\ pc = "pop_read" => t < ev'.tail
       /\ pc = "push_overflow" => ev'.tail < ev'.head
       /\ pc = "push_tail" => t < ev'.head
  BY <1>0, <1>6, <1>8, <1>9 DEF LockInv
<1>11. ev'.tail <= ev'.head
  BY <1>3, <1>6, <1>8
<1> QED BY <1>1, <1>5, <1>7, <1>8, <1>10, <1>11, Zenon DEF LockInv

LEMMA InterruptKeepsLock ==
  ASSUME LockInv, usart3_handle_it
  PROVE  LockInv'
<1>0. con \in [lock : BOOLEAN, input : Seq(Chars \cup {BS})]
  BY DEF LockInv, TypeOK
<1>1. CASE usart_cr
  BY <1>1, EndKeepsLock
<1>2. CASE usart_del
  <2>1. con' \in [lock : BOOLEAN, input : Seq(Chars \cup {BS})] /\ con'.lock = FALSE
    BY <1>0, <1>2, Deleted DEF usart_del
  <2>2. "E_CON_DEL" \in Types /\ ev' = Push(ev, "E_CON_DEL")
    BY <1>2 DEF usart_del, Types
  <2> QED BY <1>2, <2>1, <2>2, EditKeepsLock, Zenon DEF usart_del
<1>3. ASSUME NEW ch \in Chars \cup {BS}, usart_push(ch)
      PROVE  LockInv'
  <2>1. con' \in [lock : BOOLEAN, input : Seq(Chars \cup {BS})] /\ con'.lock = FALSE
    BY <1>0, <1>3, Typed DEF usart_push
  <2>2. "E_CON_ECHO" \in Types /\ ev' = Push(ev, "E_CON_ECHO")
    BY <1>3 DEF usart_push, Types
  <2> QED BY <1>3, <2>1, <2>2, EditKeepsLock, Zenon DEF usart_push
<1> QED BY <1>1, <1>2, <1>3 DEF usart3_handle_it

LEMMA MainKeepsLock ==
  ASSUME LockInv, main
  PROVE  LockInv'
<1>0. /\ TypeOK /\ ev \in Queue /\ ev.head \in Nat /\ ev.tail \in Nat /\ t \in Nat
      /\ con \in [lock : BOOLEAN, input : Seq(Chars \cup {BS})] /\ ev.tail <= ev.head
  BY DEF LockInv, TypeOK, Queue
<1>1. CASE boot_event_init
  <2>1. ev' \in Queue /\ ev'.tail <= ev'.head
    BY <1>1 DEF Queue, Events, NoEvent, boot_event_init, event_init
  <2>2. TypeOK'
    BY <1>0, <1>1, <2>1 DEF boot_event_init, TypeOK, Queue
  <2> QED BY <1>1, <2>1, <2>2 DEF boot_event_init, LockInv, Booting
<1>2. CASE boot_unlock
  <2>1. con' \in [lock : BOOLEAN, input : Seq(Chars \cup {BS})] /\ ~con'.lock
    BY <1>0, <1>2, Zenon DEF boot_unlock
  <2>2. TypeOK'
    BY <1>0, <1>2, <2>1 DEF boot_unlock, TypeOK
  <2> QED BY <1>0, <1>2, <2>1, <2>2 DEF boot_unlock, LockInv
<1>3. CASE polls
  BY <1>3 DEF polls, LockInv, TypeOK, Running, Slot, Booting
<1>4. CASE pop_load
  <2>1. TypeOK'
    BY <1>0, <1>4 DEF pop_load, TypeOK
  <2> QED BY <1>0, <1>4, <2>1, Zenon DEF pop_load, LockInv, Running, Slot, Booting
<1>5. CASE pop_store
  <2>1. ev' \in Queue /\ ev'.head = ev.head /\ ev'.tail = t + 1 /\ ev'.events = ev.events
    BY <1>0, <1>5, StoreTail, Zenon DEF pop_store
  <2>2. TypeOK'
    BY <1>0, <1>5, <2>1, Zenon DEF pop_store, TypeOK, Queue
  <2> QED BY <1>0, <1>5, <2>1, <2>2 DEF pop_store, LockInv, Running, Slot, Booting
<1>6. CASE pop_read
  <2>1. PICK n \in {t, ev.tail - 1} : e' = Slot(n)
    BY <1>6 DEF pop_read, Slot
  <2>2. n \in Nat /\ n % MAX_EVENTS \in 0 .. MAX_EVENTS - 1
    <3>1. n \in Nat
      BY <1>0, <1>6, <2>1 DEF pop_read, LockInv
    <3> QED BY <3>1, SlotInRange, Zenon
  <2>3. e' \in Events
    BY <1>0, <2>1, <2>2, Zenon DEF Slot, TypeOK
  <2>4. TypeOK'
    BY <1>0, <1>6, <2>3 DEF pop_read, TypeOK
  <2>5. ASSUME con.lock, e'.type # "E_CON_INPUT"
        PROVE  ev.tail < ev.head
    <3>1. Slot(ev.head - 1).type = "E_CON_INPUT" /\ (ev.tail < ev.head \/ t = ev.head - 1)
      BY <1>6, <2>5 DEF pop_read, LockInv, Running, Booting
    <3>2. n # ev.head - 1
      BY <2>1, <2>5, <3>1, Zenon
    <3>3. t < ev.tail
      BY <1>6, Zenon DEF pop_read, LockInv
    <3> QED BY <1>0, <2>1, <3>1, <3>2, <3>3
  <2>6. con.lock => Slot(ev.head - 1).type = "E_CON_INPUT"
    BY <1>6, Zenon DEF pop_read, LockInv, Running, Booting
  <2> QED BY <1>0, <1>6, <2>4, <2>5, <2>6 DEF pop_read, LockInv, Running, Slot
<1>7. CASE handle
  BY <1>7, Zenon DEF handle, LockInv, TypeOK, Running, Slot, Booting
<1>8. CASE cmd_input
  <2>1. ev.head % MAX_EVENTS \in 0 .. MAX_EVENTS - 1
    BY <1>0, SlotInRange, Zenon
  <2>2. TypeOK'
    BY <1>0, <1>8, <2>1 DEF cmd_input, TypeOK
  <2>3. Running' /\ pc' # "pop_store" /\ pc' # "pop_read" /\ pc' # "push_tail"
    BY <1>8 DEF cmd_input, Running
  <2>4. /\ pc' = "push_overflow" => ev.tail < ev.head
        /\ pc' = "push_store" => t' = ev.head
    BY <1>0, <1>8 DEF cmd_input, Overflows, MAX_EVENTS
  <2> QED BY <1>0, <1>8, <2>2, <2>3, <2>4 DEF cmd_input, LockInv, MAX_EVENTS
<1>9. CASE push_overflow
  <2>1. TypeOK'
    BY <1>0, <1>9 DEF push_overflow, TypeOK
  <2> QED BY <1>0, <1>9, <2>1, Zenon DEF push_overflow, LockInv, Running
<1>10. CASE push_tail
  <2>1. ev' \in Queue /\ ev'.head = ev.head /\ ev'.tail = t + 1
    BY <1>0, <1>10, StoreTail, Zenon DEF push_tail
  <2>2. TypeOK'
    BY <1>0, <1>10, <2>1, Zenon DEF push_tail, TypeOK, Queue
  <2> QED BY <1>0, <1>10, <2>1, <2>2 DEF push_tail, LockInv, Running, MAX_EVENTS
<1>11. CASE push_store
  <2>1. ev' \in Queue /\ ev'.head = t + 1 /\ ev'.tail = ev.tail
    BY <1>0, <1>11, StoreHead, Zenon DEF push_store
  <2>2. TypeOK'
    BY <1>0, <1>11, <2>1, Zenon DEF push_store, TypeOK, Queue
  <2> QED BY <1>0, <1>11, <2>1, <2>2 DEF push_store, LockInv, Running
<1>12. CASE push_write
  <2>1. [type |-> "E_PL_PLAY", ptr |-> t + 1] \in Events /\ slot \in 0 .. MAX_EVENTS - 1
    BY <1>0 DEF Events, TypeOK
  <2>2. ev' \in Queue /\ ev'.head = ev.head /\ ev'.tail = ev.tail
    BY <1>0, <1>12, <2>1, Zenon DEF push_write, Queue
  <2>3. TypeOK'
    BY <1>0, <1>12, <2>2, Zenon DEF push_write, TypeOK, Queue
  <2> QED BY <1>0, <1>12, <2>2, <2>3 DEF push_write, LockInv, Running
<1>13. CASE con_reset
  <2>1. <<>> \in Seq(Chars \cup {BS})
    OBVIOUS
  <2>2. con' \in [lock : BOOLEAN, input : Seq(Chars \cup {BS})]
    BY <1>0, <1>13, <2>1, Zenon DEF con_reset
  <2>3. TypeOK'
    BY <1>0, <1>13, <2>2 DEF con_reset, TypeOK
  <2> QED BY <1>0, <1>13, <2>3 DEF con_reset, LockInv, Running
<1>14. CASE con_unlock
  <2>1. con' \in [lock : BOOLEAN, input : Seq(Chars \cup {BS})] /\ ~con'.lock
    BY <1>0, <1>14, Zenon DEF con_unlock
  <2>2. TypeOK'
    BY <1>0, <1>14, <2>1 DEF con_unlock, TypeOK
  <2> QED BY <1>0, <1>14, <2>1, <2>2 DEF con_unlock, LockInv
<1> QED BY <1>1, <1>2, <1>3, <1>4, <1>5, <1>6, <1>7, <1>8, <1>9, <1>10, <1>11, <1>12, <1>13,
           <1>14 DEF main

(***************************************************************************)
(* However fast the user types, from reset on and for every length of line *)
(* and backlog: the interrupt, event_push and event_pop may lose or repeat *)
(* events, but never the E_CON_INPUT that unlocks the console.             *)
(***************************************************************************)
THEOREM ConsoleNeverDead == Spec => []LockHasInput
<1>1. Init => LockInv
  <2>1. ASSUME Init PROVE TypeOK /\ ev.tail <= ev.head /\ pc \in Booting /\ pc = "event_init"
    BY <2>1, InitTypes DEF Init, event_init, Booting
  <2> QED BY <2>1 DEF LockInv
<1>2. LockInv /\ [Next]_vars => LockInv'
  <2> SUFFICES ASSUME LockInv, [Next]_vars PROVE LockInv'
    BY Zenon
  <2>1. CASE UNCHANGED vars
    BY <2>1 DEF vars, LockInv, TypeOK, Running, Slot, Booting
  <2> QED BY <2>1, InterruptKeepsLock, MainKeepsLock DEF Next
<1>3. LockInv => LockHasInput
  <2> SUFFICES ASSUME LockInv, con.lock, pc \notin Booting, ~Running
               PROVE  \/ pc = "pop_read" /\ Slot(t).type = "E_CON_INPUT"
                      \/ \E n \in ev.tail .. ev.head - 1 : Slot(n).type = "E_CON_INPUT"
    BY DEF LockHasInput
  <2>1. ev.head \in Nat /\ ev.tail \in Nat /\ t \in Nat
    BY DEF LockInv, TypeOK
  <2>2. Slot(ev.head - 1).type = "E_CON_INPUT"
    BY DEF LockInv
  <2>3. CASE ev.tail < ev.head
    <3>1. ev.head - 1 \in ev.tail .. ev.head - 1
      BY <2>1, <2>3
    <3> QED BY <2>2, <3>1, Zenon
  <2>4. CASE pc = "pop_read" /\ t = ev.head - 1
    BY <2>2, <2>4, Zenon
  <2> QED BY <2>3, <2>4 DEF LockInv
<1> QED BY <1>1, <1>2, <1>3, PTL DEF Spec

-----------------------------------------------------------------------------
(* The display.                                                            *)

USE DisplayAssumption

(* There is a picture for every volume but the highest.                    *)
LEMMA Levels ==
  /\ PL_MAX_VOLUME \in Nat /\ LAST_LEVEL \in Nat /\ PL_MAX_VOLUME = LAST_LEVEL + 1
  /\ PL_DEF_VOLUME \in Nat /\ PL_DEF_VOLUME <= PL_MAX_VOLUME
  BY DEF PL_MAX_VOLUME, LAST_LEVEL, PL_DEF_VOLUME

(* A time plus something is a time again, modulo the wrap.                 *)
LEMMA TimeModulo == ASSUME NEW n \in Nat PROVE n % LOCAL_TIME_WRAP \in Times
  BY DEF Times

(* The values of lcd that the type invariant allows.                       *)
Lcds ==
  [screen : Pictures, level : 0 .. LAST_LEVEL, volume : Timers, media : Timers,
   error : BOOLEAN]

Pls ==
  [state : {"PL_STOP", "PL_PLAYING", "PL_BUFFERING"},
   source_type : {"PS_UNKNOWN", "PS_NET", "PS_FILE"}, volume : 0 .. PL_MAX_VOLUME]

(* What DisplayInv says of a player p and a display l.                     *)
Fits(p, l) ==
  /\ p \in Pls /\ l \in Lcds
  /\ l.error <=> l.screen \in ErrorPictures
  /\ l.error => p.state = "PL_STOP"
  /\ l.screen = "LR_RADIO" => Active(p) /\ p.source_type = "PS_NET"
  /\ l.screen = "LR_FILE" => Active(p) /\ p.source_type = "PS_FILE"
  /\ l.screen \in {"LR_PLAY", "LR_STOP"} => l.media.active
  /\ l.screen = "LR_VOLUME" => l.volume.active /\ l.level = p.volume
  /\ l.screen = "LR_BLANK" => l.volume.active /\ p.volume = PL_MAX_VOLUME
  /\ Active(p) => p.source_type # "PS_UNKNOWN"

LEMMA InvIsFits ==
  DisplayInv <=> Fits(pl, lcd) /\ time \in Times /\ lag \in Nat /\ commands \in Nat
  BY DEF DisplayInv, DisplayTypeOK, ErrorStays, SourceShown, AnnouncementsTimed, Fits, Lcds, Pls

(* A timer that is set, or switched off, is one.                           *)
LEMMA TimersTyped == ASSUME time \in Times PROVE Timer \in Timers /\ Timer.active /\ Off \in Timers
  <1>1. time + LCD_TIMEOUT \in Nat
    BY DEF Times
  <1>2. (time + LCD_TIMEOUT) % LOCAL_TIME_WRAP \in Times
    BY <1>1, TimeModulo
  <1>3. 0 \in Times
    BY DEF Times
  <1> QED BY <1>2, <1>3 DEF Timer, Timers, Off

(* A display that shows a picture and sets a timer.                        *)
MediaPicture(l, picture, timer) == [[l EXCEPT !.screen = picture] EXCEPT !.media = timer]

VolumePicture(l, picture, level, timer) ==
  [[l EXCEPT !.screen = picture, !.level = level] EXCEPT !.volume = timer]

LEMMA MediaFields ==
  ASSUME NEW l \in Lcds, NEW picture \in Pictures, NEW timer \in Timers
  PROVE  LET m == MediaPicture(l, picture, timer)
         IN  m \in Lcds /\ m.screen = picture /\ m.media = timer /\ m.error = l.error
  BY Zenon DEF MediaPicture, Lcds

LEMMA VolumeFields ==
  ASSUME NEW l \in Lcds, NEW picture \in Pictures, NEW level \in 0 .. LAST_LEVEL,
         NEW timer \in Timers
  PROVE  LET m == VolumePicture(l, picture, level, timer)
         IN  /\ m \in Lcds /\ m.screen = picture /\ m.level = level /\ m.volume = timer
             /\ m.error = l.error
  BY Zenon DEF VolumePicture, Lcds

(* pl_stop: it leaves a display that fits a stopped player, an error that  *)
(* was on the screen staying there.                                        *)
LEMMA StopFits ==
  ASSUME time \in Times, NEW p, NEW l, p \in Pls, l \in Lcds,
         l.error <=> l.screen \in ErrorPictures,
         l.error \/ Fits(p, l)
  PROVE  /\ Active(p) \/ Fits(p, l) => Fits(pl_stop(p, l).pl, pl_stop(p, l).lcd)
         /\ pl_stop(p, l).pl \in Pls /\ pl_stop(p, l).lcd \in Lcds
         /\ ~Active(pl_stop(p, l).pl)
  <1> USE TimersTyped DEF ErrorPictures, Pictures
  <1>1. CASE ~Active(p)
    BY <1>1 DEF pl_stop
  <1>2. CASE Active(p) /\ l.error
    BY <1>2 DEF pl_stop, lcd_stop, lcd_draw, Active, Fits, Pls, Lcds
  <1>3. CASE Active(p) /\ ~l.error
    BY <1>3, Zenon DEF pl_stop, lcd_stop, lcd_draw, Active, Fits, Pls, Lcds
  <1> QED BY <1>1, <1>2, <1>3

LEMMA PlayFits ==
  ASSUME time \in Times, NEW p, NEW l, Fits(p, l), NEW s \in Sources
  PROVE  LET S == pl_play(p, l, s[1], s[2]) IN Fits(S.pl, S.lcd)
  <1> DEFINE T == pl_stop(p, l)
             S == pl_play(p, l, s[1], s[2])
  <1>1. T.pl \in Pls /\ T.lcd \in Lcds
    BY StopFits, Zenon DEF Fits
  <1> HIDE DEF T
  <1> DEFINE reset == lcd_reset(T.lcd)
             shown == IF s[1] = "PS_NET" THEN lcd_draw(reset, "LR_STARTUP") ELSE reset
  <1>4. reset \in Lcds /\ reset.error = FALSE
    BY <1>1, TimersTyped, Zenon DEF lcd_reset, Lcds
  <1>5. shown \in Lcds /\ shown.error = FALSE
    <2> HIDE DEF reset
    <2> QED BY <1>4 DEF lcd_draw, Lcds, Pictures
  <1>6. lcd_play(shown) = MediaPicture(shown, "LR_PLAY", Timer)
    <2> HIDE DEF shown
    <2> QED BY <1>5, Zenon DEF lcd_play, lcd_draw, MediaPicture
  <1>7. S.lcd = lcd_play(shown)
    BY DEF pl_play, T
  <1>2. /\ S.pl = [T.pl EXCEPT !.source_type = s[1], !.state = s[2]]
        /\ S.lcd \in Lcds /\ S.lcd.screen = "LR_PLAY" /\ S.lcd.error = FALSE
        /\ S.lcd.media.active
    <2>1. S.pl = [T.pl EXCEPT !.source_type = s[1], !.state = s[2]]
      BY DEF pl_play, T
    <2> HIDE DEF shown, S
    <2>2. "LR_PLAY" \in Pictures
      BY Zenon DEF Pictures
    <2>3. /\ S.lcd \in Lcds /\ S.lcd.screen = "LR_PLAY" /\ S.lcd.error = shown.error
          /\ S.lcd.media = Timer
      BY <1>5, <1>6, <1>7, <2>2, TimersTyped, MediaFields
    <2> QED BY <1>5, <2>1, <2>3, TimersTyped
  <1>3. S.pl \in Pls /\ (Active(S.pl) => S.pl.source_type # "PS_UNKNOWN")
    <2> HIDE DEF S
    <2>1. /\ s[1] \in {"PS_NET", "PS_FILE"}
          /\ s[2] \in {"PL_STOP", "PL_PLAYING", "PL_BUFFERING"}
      BY DEF Sources
    <2> QED BY <1>1, <1>2, <2>1, Zenon DEF Pls, Active
  <1>8. Fits(S.pl, S.lcd)
    <2> HIDE DEF S
    <2> QED BY <1>2, <1>3 DEF Fits, ErrorPictures
  <1> QED BY <1>8, Zenon

LEMMA VolumeFits ==
  ASSUME time \in Times, NEW p, NEW l, Fits(p, l), NEW v \in Int
  PROVE  LET S == pl_volume_set(p, l, v) IN Fits(S.pl, S.lcd)
  <1> DEFINE c == Clamped(v)
  <1>1. c \in 0 .. PL_MAX_VOLUME
    BY Levels DEF Clamped, PL_MIN_VOLUME
  <1> HIDE DEF c
  <1> DEFINE q == [p EXCEPT !.volume = c]
             m == lcd_volume(l, c)
  <1>3. /\ q \in Pls /\ q.volume = c /\ q.state = p.state
        /\ q.source_type = p.source_type
    BY <1>1 DEF Fits, Pls
  <1>4. l \in Lcds /\ l.level \in 0 .. LAST_LEVEL /\ l.error \in BOOLEAN
    BY DEF Fits, Lcds
  <1>5. {"LR_BLANK", "LR_VOLUME"} \subseteq Pictures \ ErrorPictures
    BY DEF Pictures, ErrorPictures
  <1>2. Fits(q, m)
    <2>1. CASE l.error
      <3>1. m = [l EXCEPT !.volume = Timer]
        BY <2>1 DEF lcd_volume, lcd_draw_volume, lcd_draw
      <3>2. m \in Lcds /\ m.screen = l.screen /\ m.error = l.error
        BY <1>4, <3>1, TimersTyped, Zenon DEF Lcds
      <3> HIDE DEF q, m
      <3> QED BY <1>3, <2>1, <3>2 DEF Fits, Active, ErrorPictures
    <2>2. CASE ~l.error /\ c > LAST_LEVEL
      <3>1. m = VolumePicture(l, "LR_BLANK", l.level, Timer)
        BY <1>4, <2>2, Zenon DEF lcd_volume, lcd_draw_volume, lcd_draw, VolumePicture, Lcds
      <3>2. m \in Lcds /\ m.screen = "LR_BLANK" /\ m.volume = Timer /\ m.error = l.error
        <4> HIDE DEF m
        <4> QED BY <1>4, <1>5, <3>1, VolumeFields, TimersTyped
      <3>3. c = PL_MAX_VOLUME
        BY <1>1, <2>2, Levels
      <3> HIDE DEF q, m
      <3> QED BY <1>3, <1>5, <2>2, <3>2, <3>3, TimersTyped DEF Fits, Active
    <2>3. CASE ~l.error /\ ~(c > LAST_LEVEL)
      <3>1. m = VolumePicture(l, "LR_VOLUME", c, Timer)
        BY <1>4, <2>3 DEF lcd_volume, lcd_draw_volume, VolumePicture
      <3>2. c \in 0 .. LAST_LEVEL
        BY <1>1, <2>3, Levels
      <3>3. /\ m \in Lcds /\ m.screen = "LR_VOLUME" /\ m.volume = Timer
            /\ m.error = l.error /\ m.level = c
        <4> HIDE DEF m
        <4> QED BY <1>4, <1>5, <3>1, <3>2, VolumeFields, TimersTyped
      <3> HIDE DEF q, m
      <3> QED BY <1>3, <1>5, <2>3, <3>3, TimersTyped DEF Fits, Active
    <2> QED BY <2>1, <2>2, <2>3, Zenon
  <1> QED BY <1>2 DEF pl_volume_set, c

(* A volume that a command asks for is a number.                           *)
LEMMA CommandVolume ==
  ASSUME NEW p \in Pls, NEW v \in cmd_snd_volume(p) PROVE v \in Int
  <1>1. p.volume \in Int
    BY Levels DEF Pls
  <1>2. PICK w \in {p.volume + 1, p.volume - 1, 0} \cup Volumes : v = Clamped(w)
    BY DEF cmd_snd_volume
  <1>3. w \in Int
    BY <1>1, <1>2
  <1> QED BY <1>2, <1>3, Levels DEF Clamped, PL_MIN_VOLUME

(* pl_poll in each of its outcomes.                                        *)
LEMMA PollFits ==
  ASSUME time \in Times, NEW p, NEW l, Fits(p, l), NEW S \in pl_poll(p, l)
  PROVE  Fits(S.pl, S.lcd)
  <1>1. CASE S = Same(p, l)
    BY <1>1, Zenon DEF Same
  <1>2. ASSUME Active(p), NEW picture \in ErrorPictures,
               S = pl_stop(p, lcd_error(l, picture))
        PROVE  Fits(S.pl, S.lcd)
    <2> DEFINE er == lcd_error(l, picture)
    <2>1. er \in Lcds /\ er.error /\ er.screen \in ErrorPictures
      BY <1>2, Zenon DEF lcd_error, lcd_draw, Fits, Lcds, Active, Pictures
    <2> HIDE DEF er
    <2> QED BY <1>2, <2>1, StopFits, Zenon DEF Fits, er
  <1>3. CASE S = pl_stop(p, l)
    BY <1>3, StopFits, Zenon DEF Fits
  <1>4. ASSUME Active(p), NEW state \in {"PL_PLAYING", "PL_BUFFERING"},
               S = Same([p EXCEPT !.state = state], l)
        PROVE  Fits(S.pl, S.lcd)
    BY <1>4 DEF Fits, Same, Active, Pls
  <1> QED BY <1>1, <1>2, <1>3, <1>4 DEF pl_poll

LEMMA TimerFits ==
  ASSUME time \in Times, NEW p, NEW l, Fits(p, l), ~l.error
  PROVE  Fits(p, lcd_timer(l, p))
  <1> USE TimersTyped DEF ErrorPictures, Pictures
  <1> DEFINE idle == Idle(p)
  <1>1. /\ idle \in {"LR_WELLCOME", "LR_RADIO", "LR_FILE"}
        /\ idle = "LR_RADIO" => Active(p) /\ p.source_type = "PS_NET"
        /\ idle = "LR_FILE" => Active(p) /\ p.source_type = "PS_FILE"
    BY DEF Idle, Fits, Active, Pls
  <1> HIDE DEF idle
  <1>2. CASE Expired(l.volume)
    BY <1>1, <1>2, Zenon DEF lcd_timer, lcd_draw, Fits, Lcds, Off, idle
  <1>3. CASE ~Expired(l.volume) /\ Expired(l.media)
    BY <1>1, <1>3, Zenon DEF lcd_timer, lcd_draw, Fits, Lcds, Off, idle
  <1>4. CASE ~Expired(l.volume) /\ ~Expired(l.media)
    BY <1>4 DEF lcd_timer
  <1> QED BY <1>2, <1>3, <1>4

(***************************************************************************)
(* DisplayInv holds in every reachable state.                              *)
(***************************************************************************)
THEOREM DisplayInvariant == DisplaySpec => []DisplayInv
  <1>1. DisplayInit => DisplayInv
    <2> SUFFICES ASSUME DisplayInit PROVE Fits(pl, lcd) /\ time \in Times /\ lag \in Nat /\ commands \in Nat
      BY InvIsFits
    <2>1. time \in Times
      BY DEF DisplayInit, Times
    <2> QED BY <2>1, TimersTyped, Levels
        DEF DisplayInit, Fits, Pls, Lcds, Pictures, ErrorPictures, Active
  <1>2. DisplayInv /\ [DisplayNext]_display => DisplayInv'
    <2> SUFFICES ASSUME Fits(pl, lcd), time \in Times, lag \in Nat, commands \in Nat,
                        [DisplayNext]_display
                 PROVE  Fits(pl', lcd') /\ time' \in Times /\ lag' \in Nat /\ commands' \in Nat
      BY InvIsFits, Zenon DEF DisplayInv, DisplayTypeOK, ErrorStays, SourceShown,
                       AnnouncementsTimed, Fits, Lcds, Pls
    <2>1. CASE poll_player
      BY <2>1, PollFits DEF poll_player, Becomes
    <2>2. CASE event_play
      <3>1. PICK s \in Sources : Becomes(pl_play(pl, lcd, s[1], s[2]))
        BY <2>2, Zenon DEF event_play
      <3>2. Fits(pl', lcd')
        BY <3>1, PlayFits, Zenon DEF Becomes
      <3> QED BY <2>2, <3>2 DEF event_play, Event
    <2>3. CASE event_stop
      <3>1. Fits(pl_stop(pl, lcd).pl, pl_stop(pl, lcd).lcd)
        BY StopFits, Zenon DEF Fits
      <3>2. Fits(pl', lcd')
        BY <2>3, <3>1, Zenon DEF event_stop, Becomes
      <3> QED BY <2>3, <3>2 DEF event_stop, Event
    <2>4. CASE event_volset
      <3>1. PICK volume \in cmd_snd_volume(pl) : Becomes(pl_volume_set(pl, lcd, volume))
        BY <2>4, Zenon DEF event_volset
      <3>2. volume \in Int
        BY <3>1, CommandVolume DEF Fits
      <3>3. Fits(pl', lcd')
        BY <3>1, <3>2, VolumeFits DEF Becomes
      <3> QED BY <2>4, <3>3 DEF event_volset, Event
    <2>5. CASE event_none
      BY <2>5 DEF event_none
    <2>6. CASE lcd_poll
      BY <2>6, TimerFits DEF lcd_poll
    <2>7. CASE timer_handle_it
      <3>1. time + SYSTEMTICK_PERIOD_MS \in Nat
        BY DEF Times
      <3> QED BY <2>7, <3>1, TimeModulo DEF timer_handle_it
    <2>8. CASE UNCHANGED display
      BY <2>8 DEF display
    <2> QED BY <2>1, <2>2, <2>3, <2>4, <2>5, <2>6, <2>7, <2>8, Zenon DEF DisplayNext, frame
  <1> QED BY <1>1, <1>2, PTL DEF DisplaySpec

(***************************************************************************)
(* An error stays on the screen until the next play, and nothing plays     *)
(* meanwhile.                                                              *)
(***************************************************************************)
THEOREM ErrorKeepsScreen == DisplaySpec => []ErrorStays
  <1>1. DisplayInv => ErrorStays
    BY DEF DisplayInv
  <1> QED BY <1>1, DisplayInvariant, PTL

(***************************************************************************)
(* The screen never shows a source that is not being played.               *)
(***************************************************************************)
THEOREM ScreenShowsSource == DisplaySpec => []SourceShown
  <1>1. DisplayInv => SourceShown
    BY DEF DisplayInv
  <1> QED BY <1>1, DisplayInvariant, PTL

(***************************************************************************)
(* Every announcement has a timer that will take it away.                  *)
(***************************************************************************)
THEOREM AnnouncementsHaveTimers == DisplaySpec => []AnnouncementsTimed
  <1>1. DisplayInv => AnnouncementsTimed
    BY DEF DisplayInv
  <1> QED BY <1>1, DisplayInvariant, PTL
=============================================================================
