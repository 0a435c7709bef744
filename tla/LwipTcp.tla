------------------------------- MODULE LwipTcp -------------------------------
(***************************************************************************)
(* The client side of lwIP's TCP (libs/lwip-2.0.3/core/tcp.c, tcp_in.c and *)
(* memp.c) as far as the life of a protocol control block goes.  A record  *)
(* T = [pcb, free, active, tw] holds what the functions change: the        *)
(* contents of every pcb of the pool, the free list of the pool (last      *)
(* freed first), tcp_active_pcbs and tcp_tw_pcbs.  Of a pcb we keep        *)
(*   state, recv (the callback), whether rcv_wnd is TCP_WND_MAX, whether   *)
(*   data it has sent waits for an acknowledgement, and                    *)
(*   play, the play command it was opened for (history).                   *)
(* Sequence numbers, clocks and the pools of segments and packets are left *)
(* out: a segment of the peer is in order, there is memory for one's own,  *)
(* and the peer's window has room for it.                                  *)
(***************************************************************************)
EXTENDS Naturals, Sequences, FiniteSets, Functions

CONSTANT Pcbs   \* the MEMP_NUM_TCP_PCB blocks of the pool

NULL == "NULL"

(* The pool is finite: its blocks can be numbered.                         *)
ASSUME PcbAssumption ==
  /\ Cardinality(Pcbs) \in Nat /\ ExistsBijection(1 .. Cardinality(Pcbs), Pcbs)
  /\ NULL \notin Pcbs

TcpStates == {"CLOSED", "SYN_SENT", "ESTABLISHED", "CLOSE_WAIT", "FIN_WAIT_1",
              "FIN_WAIT_2", "CLOSING", "LAST_ACK", "TIME_WAIT"}

Callbacks == {"tcp_recv_null", "net_lwip_recv_connect", "net_lwip_recv", NULL}

(* A segment of the peer: an acknowledgement of all that was sent, data,   *)
(* the end of the data.                                                    *)
Payloads == {"none", "audio/mpeg", "other", "long"}

Segments == [ack : BOOLEAN, data : Payloads, fin : BOOLEAN]

IsFree(T, p) == \E k \in DOMAIN T.free : T.free[k] = p

Listed(T) == T.active \cup T.tw

(* tcp_close sets TF_RXCLOSED; a pcb it does not free is then in one of    *)
(* these states.                                                           *)
RxClosed(T, p) ==
  T.pcb[p].state \in {"FIN_WAIT_1", "FIN_WAIT_2", "CLOSING", "LAST_ACK", "TIME_WAIT"}

(* The contents tcp_alloc gives a pcb.                                     *)
NewPcb(play) ==
  [state |-> "CLOSED", recv |-> "tcp_recv_null", full |-> TRUE, unacked |-> FALSE,
   play |-> play]

(* memp_init links every block of the pool into the free list.             *)
memp_init == CHOOSE s \in Bijection(1 .. Cardinality(Pcbs), Pcbs) : TRUE

(* memp_free puts a block at the head of the free list and leaves its      *)
(* contents alone; all but the state is dead, as tcp_alloc zeroes it.      *)
memp_free(T, p) ==
  [T EXCEPT !.free = << p >> \o @,
            !.pcb[p] = [NewPcb(0) EXCEPT !.state = T.pcb[p].state]]

(* TCP_RMV from either list.                                               *)
Unlist(T, p) == [T EXCEPT !.active = @ \ {p}, !.tw = @ \ {p}]

tcp_pcb_remove(T, p) ==
  [Unlist(T, p) EXCEPT !.pcb[p] = [@ EXCEPT !.state = "CLOSED", !.unacked = FALSE]]

(* tcp_abandon: no error callback is ever registered.                      *)
tcp_abandon(T, p) ==
  memp_free(IF T.pcb[p].state = "CLOSED" THEN T ELSE tcp_pcb_remove(T, p), p)

TimeWait(T, p) ==
  [Unlist(T, p) EXCEPT !.pcb[p] = [@ EXCEPT !.state = "TIME_WAIT", !.unacked = FALSE],
                       !.tw = @ \cup {p}]

-----------------------------------------------------------------------------
(* tcp_alloc: the pcbs it may kill when the pool is empty.  Which one of   *)
(* them has been idle longest is left open; all have the same priority.    *)
InState(T, state) == {p \in T.active : T.pcb[p].state = state}

Victims(T) ==
  IF T.tw # {} THEN T.tw
  ELSE IF InState(T, "LAST_ACK") # {} THEN InState(T, "LAST_ACK")
  ELSE IF InState(T, "CLOSING") # {} THEN InState(T, "CLOSING")
  ELSE T.active

Room(T) == IF T.free # << >> THEN {T} ELSE {tcp_abandon(T, v) : v \in Victims(T)}

(* The states tcp_new may leave, with the pcb it returns: at the head of   *)
(* the free list, or NULL if every pcb is allocated and on no list.        *)
tcp_new(T, play) ==
  IF Room(T) = {} THEN {[T |-> T, pcb |-> NULL]}
  ELSE {[T |-> [R EXCEPT !.free = Tail(@), !.pcb[Head(R.free)] = NewPcb(play)],
         pcb |-> Head(R.free)] : R \in Room(T)}

(* tcp_connect: without a route nothing is sent and the pcb stays CLOSED.  *)
tcp_connect(T, p, routed) ==
  IF ~routed THEN T
  ELSE [T EXCEPT !.pcb[p] = [@ EXCEPT !.state = "SYN_SENT", !.full = TRUE, !.unacked = TRUE],
                 !.active = @ \cup {p}]

(* tcp_recv: a NULL pcb is tolerated.                                      *)
tcp_recv(T, p, recv) ==
  IF p = NULL THEN T ELSE [T EXCEPT !.pcb[p] = [@ EXCEPT !.recv = recv]]

(* tcp_recved opens the window, by any amount; tcp_write refuses a pcb     *)
(* that is not connected, and in SYN_SENT the request is unacked already.  *)
tcp_recved(T, p, full) == [T EXCEPT !.pcb[p] = [@ EXCEPT !.full = full]]

tcp_write(T, p) ==
  LET pcb == T.pcb[p]
  IN  [T EXCEPT !.pcb[p] = [pcb EXCEPT
         !.unacked = pcb.unacked \/ pcb.state \in {"ESTABLISHED", "CLOSE_WAIT"}]]

(* tcp_close, whatever the pcb: a reset when data has not been taken, else *)
(* the pcb is freed or a FIN is sent.                                      *)
tcp_close(T, p) ==
  LET pcb == T.pcb[p]
      Fin(state) == [T EXCEPT !.pcb[p] = [pcb EXCEPT !.state = state, !.unacked = TRUE]]
  IN  CASE pcb.state = "ESTABLISHED" /\ ~pcb.full -> TimeWait(T, p)
        [] pcb.state = "CLOSE_WAIT" /\ ~pcb.full -> memp_free(Unlist(T, p), p)
        [] pcb.state = "CLOSED" -> memp_free(T, p)
        [] pcb.state = "SYN_SENT" -> memp_free(tcp_pcb_remove(T, p), p)
        [] pcb.state = "ESTABLISHED" /\ pcb.full -> Fin("FIN_WAIT_1")
        [] pcb.state = "CLOSE_WAIT" /\ pcb.full -> Fin("LAST_ACK")
        [] OTHER -> T

(* The states in which tcp_close changes a pcb: to close a pcb that is not *)
(* allocated in one of them corrupts the pool.                             *)
Closable == {"CLOSED", "SYN_SENT", "ESTABLISHED", "CLOSE_WAIT"}

-----------------------------------------------------------------------------
(* tcp_process in SYN_SENT: the connection request is answered.            *)
SynAck(T, p) ==
  [T EXCEPT !.pcb[p] = [@ EXCEPT !.state = "ESTABLISHED", !.unacked = FALSE]]

(* tcp_input, tcp_process: a reset, which is answered by no callback.      *)
TF_RESET(T, p) == memp_free(tcp_pcb_remove(T, p), p)

(* Which segments the peer may send to a pcb: after its FIN there is only  *)
(* the acknowledgement of ours.                                            *)
MaySend(T, p, seg) ==
  /\ T.pcb[p].state \in {"ESTABLISHED", "FIN_WAIT_1", "FIN_WAIT_2", "CLOSING",
                         "LAST_ACK", "CLOSE_WAIT"}
  /\ T.pcb[p].state \in {"CLOSING", "LAST_ACK", "CLOSE_WAIT"} =>
       seg.data = "none" /\ ~seg.fin

(* The state tcp_process leaves.  LAST_ACK that is acknowledged sets       *)
(* TF_CLOSED and tcp_input_delayed_close frees the pcb.                    *)
tcp_process(T, p, seg) ==
  LET pcb == T.pcb[p]
      state == pcb.state
      To(s) == [T EXCEPT !.pcb[p] = [pcb EXCEPT !.state = s,
                                                !.unacked = pcb.unacked /\ ~seg.ack]]
  IN  CASE state = "ESTABLISHED" /\ seg.fin -> To("CLOSE_WAIT")
        [] state = "FIN_WAIT_1" /\ seg.fin /\ seg.ack -> TimeWait(T, p)
        [] state = "FIN_WAIT_1" /\ seg.fin /\ ~seg.ack -> To("CLOSING")
        [] state = "FIN_WAIT_1" /\ ~seg.fin /\ seg.ack -> To("FIN_WAIT_2")
        [] state = "FIN_WAIT_2" /\ seg.fin -> TimeWait(T, p)
        [] state = "CLOSING" /\ seg.ack -> TimeWait(T, p)
        [] state = "LAST_ACK" /\ seg.ack -> memp_free(tcp_pcb_remove(T, p), p)
        [] OTHER -> To(state)

(* tcp_slowtmr: the pcbs it may find timed out (retransmissions used up,   *)
(* or too long in a state that ends by itself), freed as they are.         *)
MayExpire(T) ==
  T.tw \cup {p \in T.active : T.pcb[p].unacked
                              \/ T.pcb[p].state \in {"FIN_WAIT_2", "LAST_ACK"}}

(* tcp_slowtmr that frees a pcb and leaves it on its list.                 *)
tcp_slowtmr_listed(T, p) == memp_free(T, p)

tcp_slowtmr(T, p) == memp_free(Unlist(T, p), p)
=============================================================================
