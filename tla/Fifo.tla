-------------------------------- MODULE Fifo --------------------------------
(***************************************************************************)
(* What a ring buffer promises its two users: a bounded first-in first-out *)
(* queue, which may be emptied as a whole when a new source is started.    *)
(***************************************************************************)
EXTENDS Naturals, Sequences

CONSTANTS Capacity, Content

VARIABLE queue

TypeOK == queue \in Seq(Content) /\ Len(queue) <= Capacity

Init == queue = << >>

Put(c) == Len(queue) < Capacity /\ queue' = Append(queue, c)

Get == queue # << >> /\ queue' = Tail(queue)

Clear == queue' = << >>

Next == (\E c \in Content : Put(c)) \/ Get \/ Clear

Spec == Init /\ [][Next]_queue
=============================================================================
