-------------------------------- MODULE Board --------------------------------
(***************************************************************************)
(* Playing a radio station on the STM32 board: the player of               *)
(* common/player.c on top of stm32/net.c, which drives lwIP through its    *)
(* callbacks, with the decoder and its allocator as the consumer.  main()  *)
(* calls frame() and net_timers() for ever; pc names the call about to be  *)
(* made, calls that change nothing here are left out (host_fs_open always  *)
(* fails on the board, so fs_poll never finds a file).  The user, the name *)
(* server, the peer of a connection and the lwIP timers are the            *)
(* environment.  The input ring is the FIFO that IoRing is proved to       *)
(* implement; a buffer in it is the play command its connection was opened *)
(* for.  How full the output ring is, the sound device decides.            *)
(***************************************************************************)
EXTENDS LwipTcp, LwipDns, Salloc

CONSTANTS
  MAX_INPUT_BUFFERS,   \* buffers of the input ring
  MaxPlays             \* bound: play commands given

ASSUME BoardAssumption ==
  /\ MAX_INPUT_BUFFERS \in Nat \ {0} /\ MaxPlays \in Nat
  /\ Numeric \subseteq Hosts /\ NoHost \notin Hosts
  /\ DNS_TABLE_SIZE \in Nat /\ Cardinality(Hosts) <= DNS_TABLE_SIZE

VARIABLES
  pl,      \* [state, source_type]
  ns,      \* [link_state, pcb]
  tcp,     \* see LwipTcp
  dns,     \* see LwipDns
  ls,      \* decoder: [state, main_data, overlap], two pointers of the pool
  heap,    \* libmad_alloc
  i,       \* the input ring
  fault,   \* what tcp_close was given instead of a pcb
  pc,
  answer,  \* what dns_call_found is called with: [host, found]
  plays,   \* history: play commands so far, which identifies a play
  late     \* history: did the resolver answer for a play no longer on?

prog == <<pl, ns, tcp, dns, ls, heap, i, fault>>
vars == <<prog, pc, answer, plays, late>>

Prog == [pl |-> pl, ns |-> ns, tcp |-> tcp, dns |-> dns, ls |-> ls, heap |-> heap,
         i |-> i, fault |-> fault]

Becomes(States) ==
  \E S \in States : /\ pl' = S.pl /\ ns' = S.ns /\ tcp' = S.tcp /\ dns' = S.dns
                    /\ ls' = S.ls /\ heap' = S.heap /\ i' = S.i /\ fault' = S.fault

Active(S) == S.pl.state \in {"PL_PLAYING", "PL_BUFFERING"}

(* Sequencing of steps with several outcomes.                              *)
Then(States, Op(_)) == UNION {Op(S) : S \in States}

Link(S, state) == [S EXCEPT !.ns.link_state = state]

NoAnswer == [host |-> NoHost, found |-> FALSE]

-----------------------------------------------------------------------------
(* The decoder and its memory.                                             *)
MAIN_DATA_SIZE == 511 + 2048 + 8
OVERLAP_SIZE == 2 * 32 * 18 * 4

libmad_init(S) ==
  [S EXCEPT !.ls = [state |-> "LM_INIT", main_data |-> NULL_PTR, overlap |-> NULL_PTR]]

(* libmad_done that frees one of the blocks only.                          *)
libmad_done_half(S) ==
  [S EXCEPT !.heap = sa_free(@, S.ls.overlap),
            !.ls = [state |-> "LM_DONE", main_data |-> NULL_PTR, overlap |-> NULL_PTR]]

libmad_done(S) ==
  [S EXCEPT !.heap = sa_free(sa_free(@, S.ls.overlap), S.ls.main_data),
            !.ls = [state |-> "LM_DONE", main_data |-> NULL_PTR, overlap |-> NULL_PTR]]

(* mad_layer_III asks for each block it does not have, main_data first;    *)
(* without it the frame fails, silently.                                   *)
main_data(S) ==
  IF S.ls.main_data # NULL_PTR THEN S
  ELSE [S EXCEPT !.ls.main_data = sa_slot(S.heap, MAIN_DATA_SIZE),
                 !.heap = sa_alloc(@, MAIN_DATA_SIZE)]

overlap(S) ==
  IF S.ls.main_data = NULL_PTR \/ S.ls.overlap # NULL_PTR THEN S
  ELSE [S EXCEPT !.ls.overlap = sa_slot(S.heap, OVERLAP_SIZE),
                 !.heap = sa_alloc(@, OVERLAP_SIZE)]

mad_layer_III(S) == overlap(main_data(S))

-----------------------------------------------------------------------------
(* stm32/net.c.                                                            *)
net_lwip_open(S, play) ==
  UNION {IF new.pcb = NULL
         THEN {[S EXCEPT !.tcp = new.T, !.ns = [link_state |-> "NET_ERROR", pcb |-> NULL]]}
         ELSE {[S EXCEPT !.tcp = tcp_connect(new.T, new.pcb, routed), !.ns.pcb = new.pcb] :
                 routed \in BOOLEAN} :
         new \in tcp_new(S.tcp, play)}

(* net_lwip_close that leaves its receive callback in place.               *)
net_lwip_close_hearing(S) ==
  LET C == Link(S, "NET_CLOSED")
      p == S.ns.pcb
  IN  IF p = NULL THEN {C, [C EXCEPT !.fault = "null_pcb"]}
      ELSE IF IsFree(S.tcp, p) /\ S.tcp.pcb[p].state \in Closable
      THEN {[C EXCEPT !.fault = "bogus_pcb"]}
      ELSE {[C EXCEPT !.tcp = tcp_close(@, p)]}

(* net_lwip_close on a NULL pcb: lwIP writes through the NULL pointer,     *)
(* which the flash there may take as a fault or ignore.  A pcb that has    *)
(* been freed is closed once more if its state still allows it.            *)
net_lwip_close(S) ==
  LET C == Link(S, "NET_CLOSED")
      p == S.ns.pcb
  IN  IF p = NULL THEN {C, [C EXCEPT !.fault = "null_pcb"]}
      ELSE IF IsFree(S.tcp, p) /\ S.tcp.pcb[p].state \in Closable
      THEN {[C EXCEPT !.fault = "bogus_pcb"]}
      ELSE {[C EXCEPT !.tcp = tcp_close(tcp_recv(@, p, NULL), p)]}

(* The callback of the resolver.                                           *)
net_lwip_dns(S, play, found) ==
  IF found THEN net_lwip_open(S, play) ELSE {Link(S, "NET_ERROR")}

host_net_open(S, host, play, ready) ==
  LET result == dns_result(S.dns, host, ready)
      P == Link(S, "NET_PENDING")
  IN  CASE result = "ERR_OK" -> net_lwip_open(P, play)
        [] result = "ERR_INPROGRESS" ->
             {[P EXCEPT !.dns = dns_enqueue(@, host, play)]}
        [] OTHER -> {Link(S, "NET_ERROR")}

(* net_lwip_connected sends the request on ns.pcb, whichever pcb it was    *)
(* called for.                                                             *)
net_lwip_connected(S) ==
  LET p == S.ns.pcb
  IN  IF p = NULL THEN S
      ELSE [S EXCEPT !.tcp = tcp_write(tcp_recv(@, p, "net_lwip_recv_connect"), p)]

(* net_lwip_recv_connect with a packet: more than fits, not an MP3 stream, *)
(* or the stream asked for.                                                *)
net_lwip_recv_connect(S, data) ==
  IF data # "audio/mpeg" THEN Link(S, "NET_ERROR")
  ELSE [Link(S, "NET_OPEN") EXCEPT !.tcp = tcp_recv(@, S.ns.pcb, "net_lwip_recv")]

i_free(S) == MAX_INPUT_BUFFERS - Len(S.i)

(* net_lwip_recv that does not look for a free buffer.                     *)
net_lwip_recv_unasked(S, p, data) ==
  IF data = "long" THEN Link(S, "NET_ERROR")
  ELSE [S EXCEPT !.i = Append(@, S.tcp.pcb[p].play)]

(* net_lwip_recv with a packet; without a free buffer it is lost.          *)
net_lwip_recv(S, p, data) ==
  IF i_free(S) = 0 THEN S
  ELSE IF data = "long" THEN Link(S, "NET_ERROR")
  ELSE [S EXCEPT !.i = Append(@, S.tcp.pcb[p].play)]

(* TCP_EVENT_RECV, and TCP_EVENT_CLOSED at the end of the data.  There the *)
(* callbacks of net.c read the length of a packet through a NULL pointer   *)
(* and tell tcp_recved to open the window by it: full is anything.  Of     *)
(* net_lwip_recv that is all, if there is no free buffer.                  *)
EventRecv(S, p, data) ==
  CASE S.tcp.pcb[p].recv = "net_lwip_recv_connect" -> net_lwip_recv_connect(S, data)
    [] S.tcp.pcb[p].recv = "net_lwip_recv" -> net_lwip_recv(S, p, data)
    [] OTHER -> S

EventClosed(S, p, full) ==
  LET recv == S.tcp.pcb[p].recv
      W == [S EXCEPT !.tcp = tcp_recved(@, p, full)]
  IN  CASE recv = "net_lwip_recv_connect" -> Link(W, "NET_ERROR")
        [] recv = "net_lwip_recv" -> IF i_free(S) = 0 THEN W ELSE Link(W, "NET_ERROR")
        [] recv = "tcp_recv_null" -> [S EXCEPT !.tcp = tcp_close(@, p)]
        [] OTHER -> S

(* tcp_input with a segment for a connected pcb: data on a pcb that was    *)
(* closed aborts the connection, else the callbacks run.                   *)
tcp_input(S, p, seg, full) ==
  LET P == [S EXCEPT !.tcp = tcp_process(@, p, seg)]
      R == IF seg.data = "none" THEN P ELSE EventRecv(P, p, seg.data)
  IN  IF RxClosed(S.tcp, p) /\ seg.data # "none"
      THEN [P EXCEPT !.tcp = tcp_abandon(@, p)]
      ELSE IF seg.fin THEN EventClosed(R, p, full) ELSE R

-----------------------------------------------------------------------------
(* common/player.c.                                                        *)
pl_stop(S) ==
  IF ~Active(S) THEN {S}
  ELSE {[libmad_done(C) EXCEPT !.pl.state = "PL_STOP"] : C \in net_lwip_close(S)}

(* io_init and libmad_init, the first of which keeps the buffers.          *)
Fresh_stale(S) == libmad_init(S)

(* io_init and libmad_init of pl_play.                                     *)
Fresh(S) == libmad_init([S EXCEPT !.i = << >>])

(* pl_play of a station; net_open when pl_stop has not faulted.            *)
pl_play_net(S, host, play, ready) ==
  LET Open(P) == IF P.fault # "none" THEN {P}
                 ELSE {[O EXCEPT !.pl = [state |-> "PL_BUFFERING", source_type |-> "PS_NET"]] :
                         O \in host_net_open(Fresh(P), host, play, ready)}
  IN  Then(pl_stop(S), Open)

(* pl_play of a file, which the board cannot open.                         *)
pl_play_file(S) ==
  {IF P.fault # "none" THEN P ELSE [Fresh(P) EXCEPT !.pl.source_type = "PS_FILE"] :
     P \in pl_stop(S)}

(* pl_poll that forgets the errors of the network.                         *)
pl_failed_local(S, link, broken) == broken \/ S.ls.state = "LM_ERROR"

(* The errors pl_poll acts on; broken: the sound device has failed.        *)
pl_failed(S, link, broken) ==
  link = "NET_ERROR" \/ broken \/ S.ls.state = "LM_ERROR"

(* pl_poll.  The state of the network is read at its start; drained: the   *)
(* output ring is empty.                                                   *)
pl_poll(S, broken, drained) ==
  LET link == S.ns.link_state
      P == IF S.pl.state = "PL_BUFFERING" /\ i_free(S) = 0
           THEN [S EXCEPT !.pl.state = "PL_PLAYING"] ELSE S
      Errors(Q) == IF pl_failed(Q, link, broken) THEN pl_stop(Q) ELSE {Q}
      Closed(Q) == IF link = "NET_CLOSED" THEN pl_stop(Q) ELSE {Q}
      Starve(Q) == {IF Q.pl.state = "PL_PLAYING" /\ Q.i = << >> /\ drained
                    THEN [Q EXCEPT !.pl.state = "PL_BUFFERING"] ELSE Q}
  IN  IF ~Active(S) THEN {S} ELSE Then(Then(Errors(P), Closed), Starve)

-----------------------------------------------------------------------------
Init ==
  /\ pl = [state |-> "PL_STOP", source_type |-> "PS_UNKNOWN"]
  /\ ns = [link_state |-> "NET_CLOSED", pcb |-> NULL]
  /\ tcp = [pcb |-> [p \in Pcbs |-> NewPcb(0)], free |-> memp_init,
            active |-> {}, tw |-> {}]
  /\ dns = dns_init
  /\ ls = [state |-> "LM_UNKNOWN", main_data |-> NULL_PTR, overlap |-> NULL_PTR]
  /\ heap = libmad_alloc
  /\ i = << >>
  /\ fault = "none"
  /\ pc = "libmad_loop"
  /\ answer = NoAnswer
  /\ plays = 0
  /\ late = FALSE

Call(from, to) == fault = "none" /\ pc = from /\ pc' = to

(* libmad_loop: one buffer is decoded if the output has room; it may hold  *)
(* whole Layer III frames or not, and too many errors or none.             *)
libmad_loop ==
  /\ Call("libmad_loop", "pl_poll")
  /\ \/ UNCHANGED prog
     \/ /\ ls.state = "LM_INIT" /\ pl.state # "PL_BUFFERING" /\ i # << >>
        /\ \E frames, errors \in BOOLEAN :
             LET P == [Prog EXCEPT !.i = Tail(@)]
                 D == IF frames THEN mad_layer_III(P) ELSE P
             IN  Becomes({IF errors THEN [D EXCEPT !.ls.state = "LM_ERROR"] ELSE D})
  /\ UNCHANGED <<answer, plays, late>>

poll_player ==
  /\ Call("pl_poll", "event_loop")
  /\ \E broken, drained \in BOOLEAN : Becomes(pl_poll(Prog, broken, drained))
  /\ UNCHANGED <<answer, plays, late>>

(* event_loop: at most one line has been typed since it was called last.   *)
event_play ==
  /\ Call("event_loop", "net_input") /\ plays < MaxPlays
  /\ plays' = plays + 1
  /\ \E host \in Hosts, ready \in BOOLEAN :
       Becomes(pl_play_net(Prog, host, plays + 1, ready))
  /\ UNCHANGED <<answer, late>>

event_play_file ==
  /\ Call("event_loop", "net_input") /\ plays < MaxPlays
  /\ plays' = plays + 1
  /\ Becomes(pl_play_file(Prog))
  /\ UNCHANGED <<answer, late>>

event_stop ==
  /\ Call("event_loop", "net_input") /\ Active(Prog)
  /\ Becomes(pl_stop(Prog))
  /\ UNCHANGED <<answer, plays, late>>

event_none ==
  /\ Call("event_loop", "net_input")
  /\ UNCHANGED <<prog, answer, plays, late>>

-----------------------------------------------------------------------------
(* net_timers: at most one frame is received, then the timers run.         *)
no_frame ==
  /\ Call("net_input", "sys_check_timeouts")
  /\ UNCHANGED <<prog, answer, plays, late>>

(* The answer to the connection request of a pcb.                          *)
syn_ack ==
  /\ Call("net_input", "sys_check_timeouts")
  /\ \E p \in InState(tcp, "SYN_SENT") :
       Becomes({net_lwip_connected([Prog EXCEPT !.tcp = SynAck(@, p)])})
  /\ UNCHANGED <<answer, plays, late>>

segment ==
  /\ Call("net_input", "sys_check_timeouts")
  /\ \E p \in tcp.active, seg \in Segments, full \in BOOLEAN :
       /\ MaySend(tcp, p, seg)
       /\ Becomes({tcp_input(Prog, p, seg, full)})
  /\ UNCHANGED <<answer, plays, late>>

reset ==
  /\ Call("net_input", "sys_check_timeouts")
  /\ \E p \in tcp.active : tcp' = TF_RESET(tcp, p)
  /\ UNCHANGED <<pl, ns, dns, ls, heap, i, fault, answer, plays, late>>

(* dns_recv: the name is resolved or not (net_lwip_dns takes the address   *)
(* 0.0.0.0 for none), and the entry is kept or not.  Whether it is given   *)
(* up before or after the callbacks have run makes no difference to them.  *)
dns_recv ==
  /\ Call("net_input", "dns_call_found")
  /\ \E host \in Hosts, found \in BOOLEAN, state \in {"DNS_STATE_DONE", "DNS_STATE_UNUSED"} :
       /\ dns.table[host] = "DNS_STATE_ASKING"
       /\ dns' = dns_settle(dns, host, state)
       /\ answer' = [host |-> host, found |-> found]
  /\ UNCHANGED <<pl, ns, tcp, ls, heap, i, fault, plays, late>>

(* dns_call_found: one callback, of the first request that waits for the   *)
(* answer.  late: its play was stopped or followed by another.             *)
dns_call_found ==
  /\ fault = "none" /\ pc = "dns_call_found"
  /\ \E r \in Slots :
       /\ IsNext(dns, answer.host, r)
       /\ Becomes(net_lwip_dns([Prog EXCEPT !.dns = dns_flush(@, r)],
                               dns.requests[r].play, answer.found))
       /\ late' = (late \/ ~Active(Prog) \/ dns.requests[r].play # plays)
  /\ UNCHANGED <<pc, answer, plays>>

(* Both callers of dns_call_found leave off for sys_check_timeouts.        *)
dns_call_found_done ==
  /\ Call("dns_call_found", "sys_check_timeouts")
  /\ Waiting(dns, answer.host) = {}
  /\ answer' = NoAnswer
  /\ UNCHANGED <<prog, plays, late>>

(* sys_check_timeouts: in any order tcp_slowtmr, for each pcb that has     *)
(* timed out, and dns_check_entry, for each query without an answer and    *)
(* each name whose time to live is over.                                   *)
timers_done ==
  /\ Call("sys_check_timeouts", "libmad_loop")
  /\ UNCHANGED <<prog, answer, plays, late>>

slowtmr(p) ==
  /\ fault = "none" /\ pc = "sys_check_timeouts"
  /\ p \in MayExpire(tcp) /\ tcp' = tcp_slowtmr(tcp, p)
  /\ UNCHANGED <<pl, ns, dns, ls, heap, i, fault, pc, answer, plays, late>>

dns_check_entry ==
  /\ fault = "none" /\ pc = "sys_check_timeouts"
  /\ \E host \in Hosts :
       /\ dns.table[host] # "DNS_STATE_UNUSED"
       /\ dns' = dns_settle(dns, host, "DNS_STATE_UNUSED")
       /\ IF dns.table[host] = "DNS_STATE_ASKING"
          THEN pc' = "dns_call_found" /\ answer' = [host |-> host, found |-> FALSE]
          ELSE UNCHANGED <<pc, answer>>
  /\ UNCHANGED <<pl, ns, tcp, ls, heap, i, fault, plays, late>>

(* What the board does after a fault is not modelled.                      *)
faulted ==
  /\ fault # "none"
  /\ UNCHANGED vars

net_timers ==
  \/ no_frame \/ syn_ack \/ segment \/ reset \/ dns_recv
  \/ dns_call_found \/ dns_call_found_done
  \/ (\E p \in Pcbs : slowtmr(p)) \/ dns_check_entry \/ timers_done

Next ==
  \/ libmad_loop \/ poll_player
  \/ event_play \/ event_play_file \/ event_stop \/ event_none
  \/ net_timers
  \/ faulted

Spec == Init /\ [][Next]_vars

Returns == Next /\ pc' # pc

(* No call waits: every call of the main loop returns, and the resolver    *)
(* gets through its requests.                                              *)
FairSpec == Spec /\ WF_pc(Returns) /\ WF_vars(dns_call_found)

-----------------------------------------------------------------------------
PcbType == [state : TcpStates, recv : Callbacks, full : BOOLEAN, unacked : BOOLEAN,
            play : Nat]

TcpType == [pcb : [Pcbs -> PcbType], free : Seq(Pcbs), active : SUBSET Pcbs,
            tw : SUBSET Pcbs]

DnsType == [table : [Hosts -> {"DNS_STATE_UNUSED", "DNS_STATE_ASKING", "DNS_STATE_DONE"}],
            requests : [Slots -> [host : Hosts \cup {NoHost}, play : Nat]]]

HeapType == [slots : [1 .. 2 -> [size : Nat, allocated : Nat]], used_slots : Nat]

PlType == [state : {"PL_STOP", "PL_PLAYING", "PL_BUFFERING"},
           source_type : {"PS_UNKNOWN", "PS_NET", "PS_FILE"}]

NsType == [link_state : {"NET_CLOSED", "NET_PENDING", "NET_OPEN", "NET_ERROR"},
           pcb : Pcbs \cup {NULL}]

LsType == [state : {"LM_UNKNOWN", "LM_INIT", "LM_DONE", "LM_ERROR"},
           main_data : 0 .. 2, overlap : 0 .. 2]

InputType == {q \in Seq(1 .. MaxPlays) : Len(q) <= MAX_INPUT_BUFFERS}

ProgType == [pl : PlType, ns : NsType, tcp : TcpType, dns : DnsType, ls : LsType,
             heap : HeapType, i : InputType, fault : {"none", "null_pcb", "bogus_pcb"}]

Calls == {"libmad_loop", "pl_poll", "event_loop", "net_input", "dns_call_found",
          "sys_check_timeouts"}

(* Types of the state; the ring never holds more than its buffers.         *)
TypeOK ==
  /\ Prog \in ProgType
  /\ pc \in Calls
  /\ answer \in [host : Hosts \cup {NoHost}, found : BOOLEAN]
  /\ plays \in 0 .. MaxPlays /\ late \in BOOLEAN

(***************************************************************************)
(* The pool of pcbs is intact until a fault: a pcb is in the free list,    *)
(* once, or on one of the two lists, in a state that fits the list (the    *)
(* assertions of tcp_input and tcp_slowtmr).  One that is neither has been *)
(* refused a route; the player still knows it and will free it.            *)
(***************************************************************************)
PoolIntact ==
  fault = "none" =>
    /\ IsInjective(tcp.free)
    /\ \A p \in Listed(tcp) : ~IsFree(tcp, p)
    /\ \A p \in tcp.active : tcp.pcb[p].state \notin {"CLOSED", "TIME_WAIT"}
    /\ \A p \in tcp.tw : tcp.pcb[p].state = "TIME_WAIT"
    /\ \A p \in Pcbs : ~IsFree(tcp, p) /\ p \notin Listed(tcp) =>
         /\ tcp.pcb[p].state = "CLOSED"
         /\ ~late => p = ns.pcb /\ Active(Prog)

(***************************************************************************)
(* As long as the resolver answers no play that is over, one connection    *)
(* at most can put data into the ring or report an error: the one of the   *)
(* current play, which is on.                                              *)
(***************************************************************************)
OneFeeder ==
  fault = "none" /\ ~late =>
    \A p \in tcp.active :
      tcp.pcb[p].recv \in {"net_lwip_recv_connect", "net_lwip_recv"} =>
        /\ p = ns.pcb /\ tcp.pcb[p].play = plays
        /\ Active(Prog) /\ pl.source_type = "PS_NET"

(***************************************************************************)
(* Then the ring never mixes two stations: all that is in it came over the *)
(* connection of the current play.                                         *)
(***************************************************************************)
StreamNotMixed ==
  fault = "none" /\ ~late => \A k \in DOMAIN i : i[k] = plays

(* used_slots counts the two slots of the pool that are in use.            *)
Held(H, k) == IF k \in UsedSlots(H) THEN 1 ELSE 0

Counted(H) == H.used_slots = Held(H, 1) + Held(H, 2)

(***************************************************************************)
(* The decoder's memory does not leak then either: the slots in use are    *)
(* the two blocks the decoder holds, so that a new play finds both free,   *)
(* and no frame fails for lack of memory.                                  *)
(***************************************************************************)
DecoderMemory ==
  fault = "none" =>
    /\ Counted(heap)
    /\ ~late => UsedSlots(heap) = {ls.main_data, ls.overlap} \ {NULL_PTR}

-----------------------------------------------------------------------------
(***************************************************************************)
(* The inductive invariant behind these properties, about a state S of the *)
(* program, the number n of plays so far and whether the resolver has been *)
(* late.                                                                   *)
(***************************************************************************)

(* A pcb is in the free list, active, waiting or refused a route.          *)
Placed(T, p) ==
  \/ IsFree(T, p) /\ p \notin Listed(T)
  \/ /\ ~IsFree(T, p) /\ p \in T.active \ T.tw
     /\ T.pcb[p].state \notin {"CLOSED", "TIME_WAIT"}
  \/ ~IsFree(T, p) /\ p \in T.tw \ T.active /\ T.pcb[p].state = "TIME_WAIT"
  \/ ~IsFree(T, p) /\ p \notin Listed(T) /\ T.pcb[p].state = "CLOSED"

PoolInv(T, n) ==
  /\ IsInjective(T.free)
  /\ \A p \in Pcbs : Placed(T, p) /\ (~IsFree(T, p) => T.pcb[p].play \in 1 .. n)

(* A request is of some play, which makes no other.                        *)
RequestsInv(D, n) ==
  \A r \in Slots :
    /\ D.requests[r].play <= n
    /\ D.requests[r].play = 0 => D.requests[r].host = NoHost
    /\ D.requests[r].play # 0 =>
         \A q \in Slots \ {r} : D.requests[q].play # D.requests[r].play

(* The decoder's blocks are two different slots in use.                    *)
HeapInv(S) ==
  /\ Counted(S.heap)
  /\ {S.ls.main_data, S.ls.overlap} \ {NULL_PTR} \subseteq UsedSlots(S.heap)
  /\ S.ls.main_data = S.ls.overlap => S.ls.main_data = NULL_PTR

Feeding == {"net_lwip_recv_connect", "net_lwip_recv"}

(* A pcb that is or may come to be the source of data.                     *)
Live(T, p) ==
  \/ p \in T.active /\ (T.pcb[p].state = "SYN_SENT" \/ T.pcb[p].recv \in Feeding)
  \/ ~IsFree(T, p) /\ p \notin Listed(T)

Requested(D, n) == \E r \in Slots : D.requests[r].play = n

(* All that is under way belongs to the current play: its connection, or   *)
(* the request for one, but not both; nothing, if the player has stopped.  *)
CurrentInv(S, n) ==
  /\ \A p \in Pcbs : Live(S.tcp, p) =>
       /\ p = S.ns.pcb /\ S.tcp.pcb[p].play = n
       /\ Active(S) /\ ~Requested(S.dns, n)
  /\ \A k \in DOMAIN S.i : S.i[k] = n
  /\ UsedSlots(S.heap) = {S.ls.main_data, S.ls.overlap} \ {NULL_PTR}
  /\ ~Active(S) => /\ S.ls.main_data = NULL_PTR /\ S.ls.overlap = NULL_PTR
                   /\ S.ls.state = "LM_INIT" => S.i = << >>

ProgInv(S, n, l) ==
  /\ S \in ProgType
  /\ S.fault = "none" =>
       /\ PoolInv(S.tcp, n) /\ RequestsInv(S.dns, n) /\ HeapInv(S)
       /\ Active(S) => S.pl.source_type = "PS_NET"
       /\ ~l => CurrentInv(S, n)

(***************************************************************************)
(* lwIP's pool and the decoder's memory are consistent whatever happens;   *)
(* as long as the resolver has not answered a play that is over, whatever  *)
(* is open, asked for, received or allocated is the current play's.        *)
(***************************************************************************)
BoardInv ==
  /\ TypeOK /\ ProgInv(Prog, plays, late)
  /\ pc = "dns_call_found" => answer.host \in Hosts

(***************************************************************************)
(* A network error, whichever callback reports it, ends the play: pl_poll  *)
(* stops the player before long, or the user starts something else.        *)
(***************************************************************************)
ErrorStops ==
  (fault = "none" /\ Active(Prog) /\ ns.link_state = "NET_ERROR")
    ~> (fault # "none" \/ ~Active(Prog) \/ ns.link_state # "NET_ERROR")

(***************************************************************************)
(* lwIP on tcp_close: it is never called for a pcb that has been freed.    *)
(***************************************************************************)
ClosesOwnPcb == fault # "bogus_pcb"
=============================================================================
