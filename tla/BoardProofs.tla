----------------------------- MODULE BoardProofs -----------------------------
(***************************************************************************)
(* The safety properties of Board for any number of pcbs, names, requests, *)
(* buffers and plays.  BoardParts goes from lwIP's operations on the pool  *)
(* to the callbacks of net.c; this module goes on with the functions of    *)
(* player.c and the resolver that call them, to the steps of the main      *)
(* loop.  BoardInv is what every one of them preserves.                    *)
(***************************************************************************)
EXTENDS BoardParts

-----------------------------------------------------------------------------
(* The player: stopping, starting, polling.                                *)

(* Nothing can come to be the source of data.                              *)
Quiet(T) == \A p \in Pcbs : ~Live(T, p)

SameButNet(U, S) ==
  U.pl = S.pl /\ U.dns = S.dns /\ U.ls = S.ls /\ U.heap = S.heap /\ U.i = S.i

LEMMA CloseInv ==
  ASSUME NEW n \in Nat, NEW S, NEW l, ProgInv(S, n, l), S.fault = "none",
         NEW C \in net_lwip_close(S)
  PROVE  /\ ProgInv(C, n, l) /\ SameButNet(C, S)
         /\ C.fault = "none" /\ ~l => Quiet(C.tcp)
<1> DEFINE L == Link(S, "NET_CLOSED")
           p == S.ns.pcb
<1>1. S \in ProgType /\ p \in Pcbs \cup {NULL}
  <2>1. S \in ProgType
    BY DEF ProgInv
  <2>2. S.ns \in NsType
    BY <2>1, ProgFields
  <2> QED
    BY <2>1, <2>2 DEF NsType
<1>2. /\ ProgInv(L, n, l) /\ L \in ProgType /\ L.ns.pcb = p /\ SameButNet(L, S)
      /\ L.fault = "none" /\ L.tcp = S.tcp
  BY <1>1, LinkInv, LinkFields DEF SameButNet
<1>3. ~l => \A q \in Pcbs : Live(L.tcp, q) => q = p
  BY <1>2, LiveMine DEF Mine
<1>4. L.tcp \in TcpType /\ PoolInv(L.tcp, n)
  BY <1>2, ProgFields DEF ProgInv
<1>5. CASE \E what \in {"null_pcb", "bogus_pcb"} : C = [L EXCEPT !.fault = what]
  <2>1. PICK what \in {"null_pcb", "bogus_pcb"} : C = [L EXCEPT !.fault = what]
    BY <1>5
  <2> HIDE DEF L
  <2>2. C \in ProgType /\ C.fault = what /\ SameButNet(C, L)
    BY <1>2, <2>1, Zenon DEF ProgType, SameButNet
  <2> QED
    BY <1>2, <2>2 DEF ProgInv, SameButNet
<1>6. CASE p = NULL /\ C = L
  <2>1. ~l => Quiet(L.tcp)
    BY <1>3, <1>6, PcbAssumption DEF Quiet
  <2> QED
    BY <1>2, <1>6, <2>1
<1>7. CASE /\ p # NULL /\ ~(IsFree(S.tcp, p) /\ S.tcp.pcb[p].state \in Closable)
           /\ C = [L EXCEPT !.tcp = tcp_close(tcp_recv(@, p, NULL), p)]
  <2> DEFINE A == tcp_recv(L.tcp, p, NULL)
             W == [L EXCEPT !.tcp = A]
             X == tcp_close(A, p)
  <2> HIDE DEF L
  <2>1. p \in Pcbs /\ NULL \in Callbacks /\ NULL \notin Feeding
    BY <1>1, <1>7 DEF Callbacks, Feeding, NULL
  <2>2. /\ ProgInv(W, n, l) /\ SameButPool(W, L) /\ SameLists(W.tcp, L.tcp)
        /\ W.tcp.pcb[p].recv = NULL
    BY <1>2, <1>7, <2>1, SetRecv
  <2>3. W.tcp = A /\ W.fault = "none" /\ W.ns.pcb = p /\ SameButNet(W, S)
    BY <1>2, <2>2, Zenon DEF SameButPool, SameButNet, ProgType
  <2>4. C = [W EXCEPT !.tcp = X]
    BY <1>2, <1>7, SetTcpTwice, Zenon
  <2> HIDE DEF W, A
  <2>5. A \in TcpType /\ PoolInv(A, n)
    BY <2>2, <2>3, ProgFields, Zenon DEF ProgInv
  <2>6. ~IsFree(A, p) \/ A.pcb[p].state \notin Closable
    BY <1>2, <1>7, <2>1, <2>2, <2>3 DEF SameLists, IsFree
  <2>7. Keeps(X, A, p, n) /\ ~Live(X, p)
    BY <2>1, <2>2, <2>3, <2>5, <2>6, Close
  <2> HIDE DEF X
  <2>8. ProgInv(C, n, l) /\ SameButPool(C, W) /\ C.tcp = X
    BY <2>1, <2>2, <2>3, <2>4, <2>7, Silenced
  <2>9. ~l => Quiet(C.tcp)
    BY <2>2, <2>3, <2>7, <2>8, LiveMine DEF Quiet, Keeps, Mine
  <2> QED
    BY <2>3, <2>8, <2>9, Zenon DEF SameButPool, SameButNet
<1> QED
  BY <1>5, <1>6, <1>7 DEF net_lwip_close

(* libmad_done gives both blocks back.                                     *)
LEMMA Done ==
  ASSUME NEW S \in ProgType, HeapInv(S)
  PROVE  LET U == libmad_done(S)
         IN  /\ U \in ProgType /\ HeapInv(U)
             /\ UsedSlots(U.heap) = UsedSlots(S.heap) \ {S.ls.main_data, S.ls.overlap}
             /\ U.ls = [state |-> "LM_DONE", main_data |-> NULL_PTR, overlap |-> NULL_PTR]
             /\ U.pl = S.pl /\ U.ns = S.ns /\ U.tcp = S.tcp /\ U.dns = S.dns /\ U.i = S.i
             /\ U.fault = S.fault
<1> DEFINE H == sa_free(S.heap, S.ls.overlap)
           G == sa_free(H, S.ls.main_data)
           e == [state |-> "LM_DONE", main_data |-> NULL_PTR, overlap |-> NULL_PTR]
           U == [S EXCEPT !.heap = G, !.ls = e]
<1>1. /\ S.heap \in HeapType /\ Counted(S.heap)
      /\ S.ls.overlap \in UsedSlots(S.heap) \cup {NULL_PTR}
      /\ S.ls.main_data \in UsedSlots(S.heap) \cup {NULL_PTR}
      /\ S.ls.main_data = S.ls.overlap => S.ls.main_data = NULL_PTR
  BY ProgFields DEF HeapInv
<1>2. H \in HeapType /\ Counted(H) /\ UsedSlots(H) = UsedSlots(S.heap) \ {S.ls.overlap}
  BY <1>1, SaFree
<1> HIDE DEF H
<1>3. S.ls.main_data \in UsedSlots(H) \cup {NULL_PTR}
  BY <1>1, <1>2
<1>4. G \in HeapType /\ Counted(G) /\ UsedSlots(G) = UsedSlots(H) \ {S.ls.main_data}
  BY <1>2, <1>3, SaFree
<1> HIDE DEF G
<1>5. e \in LsType /\ e.main_data = NULL_PTR /\ e.overlap = NULL_PTR
  BY DEF LsType, NULL_PTR
<1> HIDE DEF e
<1>6. /\ U \in ProgType /\ U.heap = G /\ U.ls = e /\ U.ns = S.ns /\ U.pl = S.pl
      /\ U.tcp = S.tcp /\ U.dns = S.dns /\ U.i = S.i /\ U.fault = S.fault
  BY <1>4, <1>5, Zenon DEF ProgType
<1>7. libmad_done(S) = U
  BY Zenon DEF libmad_done, e, G, H
<1> HIDE DEF U
<1>8. HeapInv(U)
  BY <1>4, <1>5, <1>6 DEF HeapInv
<1>9. UsedSlots(U.heap) = UsedSlots(S.heap) \ {S.ls.main_data, S.ls.overlap}
  BY <1>2, <1>4, <1>6
<1> QED
  BY <1>6, <1>7, <1>8, <1>9 DEF e

LEMMA PlStop ==
  ASSUME NEW n \in Nat, NEW S, NEW l, ProgInv(S, n, l), S.fault = "none",
         NEW U \in pl_stop(S)
  PROVE  ProgInv(U, n, l) /\ U.dns = S.dns /\ ~Active(U)
<1>1. CASE ~Active(S)
  BY <1>1 DEF pl_stop
<1>2. CASE Active(S)
  <2>1. PICK C \in net_lwip_close(S) : U = [libmad_done(C) EXCEPT !.pl.state = "PL_STOP"]
    BY <1>2, Zenon DEF pl_stop
  <2> DEFINE D == libmad_done(C)
  <2>2. /\ ProgInv(C, n, l) /\ SameButNet(C, S) /\ (C.fault = "none" /\ ~l => Quiet(C.tcp))
    BY CloseInv
  <2>3. C \in ProgType /\ HeapInv(C)
    BY <2>2 DEF ProgInv, HeapInv, SameButNet
  <2>4. /\ D \in ProgType /\ HeapInv(D)
        /\ UsedSlots(D.heap) = UsedSlots(C.heap) \ {C.ls.main_data, C.ls.overlap}
        /\ D.ls = [state |-> "LM_DONE", main_data |-> NULL_PTR, overlap |-> NULL_PTR]
        /\ D.tcp = C.tcp /\ D.dns = C.dns /\ D.i = C.i /\ D.fault = C.fault
    BY <2>3, Done
  <2> HIDE DEF D
  <2>5. /\ U \in ProgType /\ U.pl.state = "PL_STOP" /\ U.tcp = D.tcp /\ U.dns = D.dns
        /\ U.ls = D.ls /\ U.heap = D.heap /\ U.i = D.i /\ U.fault = D.fault
    BY <2>1, <2>4, Zenon DEF ProgType, PlType, D
  <2>6. ~Active(U)
    BY <2>5 DEF Active
  <2>7. U.fault = "none" => PoolInv(U.tcp, n) /\ RequestsInv(U.dns, n) /\ HeapInv(U)
    BY <2>2, <2>4, <2>5 DEF ProgInv, HeapInv
  <2>8. U.fault = "none" /\ ~l => CurrentInv(U, n)
    <3> SUFFICES ASSUME U.fault = "none", ~l PROVE CurrentInv(U, n)
      OBVIOUS
    <3>1. Quiet(U.tcp) /\ CurrentInv(C, n)
      BY <2>2, <2>4, <2>5 DEF ProgInv
    <3>2. /\ U.ls.main_data = NULL_PTR /\ U.ls.overlap = NULL_PTR /\ U.ls.state = "LM_DONE"
      BY <2>4, <2>5
    <3>3. UsedSlots(U.heap) = {}
      BY <2>4, <2>5, <3>1 DEF CurrentInv
    <3> QED
      BY <2>4, <2>5, <3>1, <3>2, <3>3 DEF CurrentInv, Quiet
  <2> QED
    BY <2>2, <2>4, <2>5, <2>6, <2>7, <2>8 DEF ProgInv, SameButNet
<1> QED
  BY <1>1, <1>2

(* mad_layer_III takes the blocks it does not have.                        *)
Exact(S) == UsedSlots(S.heap) = {S.ls.main_data, S.ls.overlap} \ {NULL_PTR}

SameButMemory(U, S) ==
  /\ U.ns = S.ns /\ U.tcp = S.tcp /\ U.pl = S.pl /\ U.dns = S.dns /\ U.i = S.i
  /\ U.fault = S.fault /\ U.ls.state = S.ls.state

LEMMA MainData ==
  ASSUME NEW S \in ProgType, HeapInv(S)
  PROVE  LET U == main_data(S)
         IN  U \in ProgType /\ HeapInv(U) /\ SameButMemory(U, S) /\ (Exact(S) => Exact(U))
<1>1. CASE S.ls.main_data # NULL_PTR
  BY <1>1 DEF main_data, SameButMemory
<1>2. CASE S.ls.main_data = NULL_PTR
  <2> DEFINE k == sa_slot(S.heap, MAIN_DATA_SIZE)
             H == sa_alloc(S.heap, MAIN_DATA_SIZE)
             U == [S EXCEPT !.ls.main_data = k, !.heap = H]
  <2>1. S.heap \in HeapType /\ S.ls \in LsType /\ Counted(S.heap) /\ MAIN_DATA_SIZE \in Nat \ {0}
    BY ProgFields DEF HeapInv, MAIN_DATA_SIZE
  <2>2. /\ k \in 0 .. 2 /\ k \notin UsedSlots(S.heap) /\ H \in HeapType /\ Counted(H)
        /\ UsedSlots(H) = UsedSlots(S.heap) \cup ({k} \ {NULL_PTR})
    BY <2>1, SaAlloc
  <2>3. main_data(S) = U
    BY <1>2, Zenon DEF main_data
  <2> HIDE DEF k, H
  <2>4. /\ U \in ProgType /\ SameButMemory(U, S) /\ U.heap = H
        /\ U.ls.main_data = k /\ U.ls.overlap = S.ls.overlap
    BY <2>2, Zenon DEF ProgType, LsType, SameButMemory
  <2> HIDE DEF U
  <2>5. HeapInv(U)
    BY <1>2, <2>2, <2>4 DEF HeapInv
  <2>6. Exact(S) => Exact(U)
    BY <1>2, <2>2, <2>4 DEF Exact
  <2> QED
    BY <2>3, <2>4, <2>5, <2>6, Zenon
<1> QED
  BY <1>1, <1>2

LEMMA Overlap ==
  ASSUME NEW S \in ProgType, HeapInv(S)
  PROVE  LET U == overlap(S)
         IN  U \in ProgType /\ HeapInv(U) /\ SameButMemory(U, S) /\ (Exact(S) => Exact(U))
<1>1. CASE S.ls.main_data = NULL_PTR \/ S.ls.overlap # NULL_PTR
  BY <1>1 DEF overlap, SameButMemory
<1>2. CASE ~(S.ls.main_data = NULL_PTR \/ S.ls.overlap # NULL_PTR)
  <2> DEFINE k == sa_slot(S.heap, OVERLAP_SIZE)
             H == sa_alloc(S.heap, OVERLAP_SIZE)
             U == [S EXCEPT !.ls.overlap = k, !.heap = H]
  <2>1. S.heap \in HeapType /\ S.ls \in LsType /\ Counted(S.heap) /\ OVERLAP_SIZE \in Nat \ {0}
    BY ProgFields DEF HeapInv, OVERLAP_SIZE
  <2>2. /\ k \in 0 .. 2 /\ k \notin UsedSlots(S.heap) /\ H \in HeapType /\ Counted(H)
        /\ UsedSlots(H) = UsedSlots(S.heap) \cup ({k} \ {NULL_PTR})
    BY <2>1, SaAlloc
  <2>3. overlap(S) = U
    BY <1>2, Zenon DEF overlap
  <2> HIDE DEF k, H
  <2>4. /\ U \in ProgType /\ SameButMemory(U, S) /\ U.heap = H
        /\ U.ls.main_data = S.ls.main_data /\ U.ls.overlap = k
    BY <2>2, Zenon DEF ProgType, LsType, SameButMemory
  <2> HIDE DEF U
  <2>5. HeapInv(U)
    BY <1>2, <2>2, <2>4 DEF HeapInv
  <2>6. Exact(S) => Exact(U)
    BY <1>2, <2>2, <2>4 DEF Exact
  <2> QED
    BY <2>3, <2>4, <2>5, <2>6, Zenon
<1> QED
  BY <1>1, <1>2

(* libmad_loop decodes a buffer.  A player that has stopped has none, as   *)
(* long as the resolver is on time.                                        *)
LEMMA LoopInv ==
  ASSUME NEW n, NEW S, NEW l, ProgInv(S, n, l), S.fault = "none",
         S.ls.state = "LM_INIT", S.i # << >>, NEW frames, NEW errors
  PROVE  LET P == [S EXCEPT !.i = Tail(@)]
             D == IF frames THEN mad_layer_III(P) ELSE P
         IN  ProgInv(IF errors THEN [D EXCEPT !.ls.state = "LM_ERROR"] ELSE D, n, l)
<1> DEFINE q == Tail(S.i)
           P == [S EXCEPT !.i = q]
           D == IF frames THEN mad_layer_III(P) ELSE P
           U == IF errors THEN [D EXCEPT !.ls.state = "LM_ERROR"] ELSE D
<1>1. S \in ProgType /\ S.i \in InputType /\ MAX_INPUT_BUFFERS \in Nat
  BY ProgFields, Bounds DEF ProgInv
<1>2. q \in InputType /\ ((\A k \in DOMAIN S.i : S.i[k] = n) => \A k \in DOMAIN q : q[k] = n)
  <2>1. S.i \in Seq(1 .. MaxPlays) /\ Len(S.i) \in Nat /\ Len(S.i) <= MAX_INPUT_BUFFERS
    BY <1>1 DEF InputType
  <2>2. /\ q \in Seq(1 .. MaxPlays) /\ Len(q) = Len(S.i) - 1
        /\ \A k \in 1 .. Len(q) : q[k] = S.i[k + 1]
    BY <2>1, TailFacts, Zenon
  <2>3. DOMAIN q = 1 .. Len(S.i) - 1 /\ DOMAIN S.i = 1 .. Len(S.i)
    BY <2>1, <2>2
  <2> HIDE DEF q
  <2>4. q \in InputType
    BY <1>1, <2>1, <2>2 DEF InputType
  <2>5. \A k \in DOMAIN q : k + 1 \in DOMAIN S.i /\ q[k] = S.i[k + 1]
    BY <2>1, <2>2, <2>3
  <2> QED
    BY <2>4, <2>5, Zenon
<1> HIDE DEF q
<1>3. /\ P \in ProgType /\ P.i = q /\ P.ns = S.ns /\ P.pl = S.pl /\ P.tcp = S.tcp
      /\ P.dns = S.dns /\ P.ls = S.ls /\ P.heap = S.heap /\ P.fault = S.fault
  BY <1>1, <1>2, SetI, Zenon
<1>4. HeapInv(P) /\ (Exact(S) => Exact(P))
  BY <1>3 DEF ProgInv, HeapInv, Exact
<1> HIDE DEF P
<1>5. D \in ProgType /\ HeapInv(D) /\ SameButMemory(D, P) /\ (Exact(P) => Exact(D))
  <2> DEFINE M == main_data(P)
  <2>1. M \in ProgType /\ HeapInv(M) /\ SameButMemory(M, P) /\ (Exact(P) => Exact(M))
    BY <1>3, <1>4, MainData
  <2> HIDE DEF M
  <2>2. LET V == overlap(M)
        IN  V \in ProgType /\ HeapInv(V) /\ SameButMemory(V, M) /\ (Exact(M) => Exact(V))
    BY <2>1, Overlap
  <2>3. SameButMemory(P, P)
    BY DEF SameButMemory
  <2> QED
    BY <1>3, <1>4, <2>1, <2>2, <2>3 DEF mad_layer_III, M, SameButMemory
<1> HIDE DEF D
<1>6. /\ U \in ProgType /\ U.ns = D.ns /\ U.tcp = D.tcp /\ U.pl = D.pl /\ U.dns = D.dns
      /\ U.i = D.i /\ U.fault = D.fault /\ U.heap = D.heap
      /\ U.ls.main_data = D.ls.main_data /\ U.ls.overlap = D.ls.overlap
  <2>1. CASE errors
    BY <1>5, <2>1, Zenon DEF ProgType, LsType
  <2>2. CASE ~errors
    BY <1>5, <2>2
  <2> QED
    BY <2>1, <2>2
<1> HIDE DEF U
<1>7. /\ PoolInv(U.tcp, n) /\ RequestsInv(U.dns, n) /\ HeapInv(U)
      /\ Active(U) => U.pl.source_type = "PS_NET"
  BY <1>3, <1>5, <1>6 DEF ProgInv, HeapInv, Active, SameButMemory
<1>8. ~l => CurrentInv(U, n)
  <2> SUFFICES ASSUME ~l PROVE CurrentInv(U, n)
    OBVIOUS
  <2>1. CurrentInv(S, n) /\ Exact(S) /\ Active(S)
    BY DEF ProgInv, CurrentInv, Exact
  <2>2. U.tcp = S.tcp /\ U.ns = S.ns /\ U.dns = S.dns /\ U.pl = S.pl /\ U.i = q
    BY <1>3, <1>5, <1>6 DEF SameButMemory
  <2>3. UsedSlots(U.heap) = {U.ls.main_data, U.ls.overlap} \ {NULL_PTR}
    BY <1>4, <1>5, <1>6, <2>1 DEF Exact
  <2> QED
    BY <1>2, <2>1, <2>2, <2>3 DEF CurrentInv, Active
<1> QED
  BY <1>6, <1>7, <1>8, Zenon DEF ProgInv, U, D, P, q

(* pl_poll goes on playing.                                                *)
LEMMA Playing ==
  ASSUME NEW n, NEW S, NEW l, ProgInv(S, n, l), Active(S),
         NEW state \in {"PL_PLAYING", "PL_BUFFERING"}
  PROVE  LET U == [S EXCEPT !.pl.state = state]
         IN  ProgInv(U, n, l) /\ U.fault = S.fault
<1> DEFINE U == [S EXCEPT !.pl.state = state]
<1>1. S \in ProgType
  BY DEF ProgInv
<1>2. /\ U \in ProgType /\ U.pl.state = state /\ U.pl.source_type = S.pl.source_type
      /\ U.ns = S.ns /\ U.tcp = S.tcp /\ U.dns = S.dns
      /\ U.ls = S.ls /\ U.heap = S.heap /\ U.i = S.i /\ U.fault = S.fault
  BY <1>1, Zenon DEF ProgType, PlType
<1> HIDE DEF U
<1>3. Active(U)
  BY <1>2 DEF Active
<1>4. U.fault = "none" => /\ PoolInv(U.tcp, n) /\ RequestsInv(U.dns, n) /\ HeapInv(U)
                          /\ U.pl.source_type = "PS_NET" /\ (~l => CurrentInv(U, n))
  BY <1>2, <1>3 DEF ProgInv, HeapInv, CurrentInv
<1> QED
  BY <1>2, <1>4, Zenon DEF ProgInv, U

LEMMA PollInv ==
  ASSUME NEW n \in Nat, NEW S, NEW l, ProgInv(S, n, l), S.fault = "none",
         NEW broken, NEW drained, NEW U \in pl_poll(S, broken, drained)
  PROVE  ProgInv(U, n, l)
<1> DEFINE link == S.ns.link_state
           P == IF S.pl.state = "PL_BUFFERING" /\ i_free(S) = 0
                THEN [S EXCEPT !.pl.state = "PL_PLAYING"] ELSE S
           Errors(Q) == IF pl_failed(Q, link, broken) THEN pl_stop(Q) ELSE {Q}
           Closed(Q) == IF link = "NET_CLOSED" THEN pl_stop(Q) ELSE {Q}
           Starve(Q) == {IF Q.pl.state = "PL_PLAYING" /\ Q.i = << >> /\ drained
                         THEN [Q EXCEPT !.pl.state = "PL_BUFFERING"] ELSE Q}
<1>1. CASE ~Active(S)
  BY <1>1 DEF pl_poll
<1>2. CASE Active(S)
  <2>1. ProgInv(P, n, l) /\ P.fault = "none"
    BY <1>2, Playing, Zenon
  <2>2. U \in UNION {Starve(R) : R \in UNION {Closed(Q) : Q \in Errors(P)}}
    BY <1>2, Zenon DEF pl_poll, Then
  <2> HIDE DEF P, link, Errors, Closed, Starve
  <2>3. PICK Q \in Errors(P) : \E R \in Closed(Q) : U \in Starve(R)
    BY <2>2, Zenon
  <2> PICK R \in Closed(Q) : U \in Starve(R)
    BY <2>3, Zenon
  <2>4. ProgInv(Q, n, l) /\ (Q.fault = "none" \/ ~Active(Q))
    BY <2>1, PlStop DEF Errors
  <2>5. ProgInv(R, n, l)
    <3>1. CASE ~Active(Q)
      BY <2>4, <3>1 DEF pl_stop, Closed
    <3>2. CASE Active(Q)
      BY <2>4, <3>2, PlStop DEF Closed
    <3> QED
      BY <3>1, <3>2
  <2> QED
    <3>1. CASE R.pl.state = "PL_PLAYING" /\ R.i = << >> /\ drained
      <4>1. U = [R EXCEPT !.pl.state = "PL_BUFFERING"] /\ Active(R)
        BY <2>3, <3>1 DEF Starve, Active
      <4> QED
        BY <2>5, <4>1, Playing, Zenon
    <3>2. CASE ~(R.pl.state = "PL_PLAYING" /\ R.i = << >> /\ drained)
      BY <2>3, <2>5, <3>2 DEF Starve
    <3> QED
      BY <3>1, <3>2
<1> QED
  BY <1>1, <1>2

(* net_lwip_open: the one new source of data is the pcb it leaves in ns.   *)
LEMMA NetOpen ==
  ASSUME NEW n \in Nat, NEW S \in ProgType, PoolInv(S.tcp, n), NEW play \in 1 .. n,
         NEW U \in net_lwip_open(S, play)
  PROVE  /\ U \in ProgType /\ PoolInv(U.tcp, n) /\ SameButNet(U, S) /\ U.fault = S.fault
         /\ Quiet(S.tcp) => \A q \in Pcbs : Live(U.tcp, q) =>
                              q = U.ns.pcb /\ U.tcp.pcb[q].play = play
<1> DEFINE Failed(new) == [S EXCEPT !.tcp = new.T,
                                    !.ns = [link_state |-> "NET_ERROR", pcb |-> NULL]]
           Asks(new, routed) == [S EXCEPT !.tcp = tcp_connect(new.T, new.pcb, routed),
                                          !.ns.pcb = new.pcb]
<1>1. PICK new \in tcp_new(S.tcp, play) :
        \/ new.pcb = NULL /\ U = Failed(new)
        \/ new.pcb # NULL /\ \E routed \in BOOLEAN : U = Asks(new, routed)
  BY Zenon DEF net_lwip_open
<1>2. S.tcp \in TcpType /\ NULL \notin Pcbs
  BY ProgFields, PcbAssumption
<1>3. \/ new.pcb = NULL /\ new.T = S.tcp
      \/ /\ new.pcb \in Pcbs /\ Keeps(new.T, S.tcp, new.pcb, n)
         /\ ~IsFree(new.T, new.pcb) /\ new.pcb \notin Listed(new.T)
         /\ new.T.pcb[new.pcb] = NewPcb(play)
  BY <1>2, New
<1>4. CASE new.pcb = NULL
  <2> DEFINE link == [link_state |-> "NET_ERROR", pcb |-> NULL]
  <2>1. link \in NsType
    BY DEF NsType
  <2>2. U = [S EXCEPT !.tcp = S.tcp, !.ns = link]
    BY <1>1, <1>2, <1>3, <1>4, Zenon
  <2> HIDE DEF link
  <2>3. U \in ProgType /\ U.tcp = S.tcp /\ SameButNet(U, S) /\ U.fault = S.fault
    BY <1>2, <2>1, <2>2, Zenon DEF ProgType, SameButNet
  <2> QED
    BY <2>3 DEF Quiet
<1>5. CASE new.pcb # NULL
  <2>1. PICK routed \in BOOLEAN : U = Asks(new, routed)
    BY <1>1, <1>5, Zenon
  <2> HIDE DEF Asks
  <2> DEFINE p == new.pcb
             T == new.T
             C == tcp_connect(T, p, routed)
  <2>2. /\ p \in Pcbs /\ Keeps(T, S.tcp, p, n) /\ ~IsFree(T, p) /\ p \notin Listed(T)
        /\ T.pcb[p].play = play
    BY <1>3, <1>5 DEF NewPcb
  <2>3. T \in TcpType /\ PoolInv(T, n)
    BY <2>2, Zenon DEF Keeps
  <2> HIDE DEF p, T
  <2>4. Keeps(C, T, p, n) /\ C.pcb[p].play = play
    BY <2>2, <2>3, Connect
  <2>5. C \in TcpType /\ PoolInv(C, n)
    BY <2>4, Zenon DEF Keeps
  <2>6. U = [S EXCEPT !.tcp = C, !.ns.pcb = p]
    BY <2>1, Zenon DEF Asks, p, T
  <2> HIDE DEF C
  <2>7. /\ U \in ProgType /\ U.tcp = C /\ U.ns.pcb = p /\ SameButNet(U, S)
        /\ U.fault = S.fault
    BY <2>2, <2>5, <2>6, Zenon DEF ProgType, NsType, SameButNet
  <2>8. Quiet(S.tcp) => \A q \in Pcbs : Live(C, q) => q = p
    BY <2>2, <2>4, Zenon DEF Keeps, Quiet
  <2> QED
    BY <2>4, <2>5, <2>7, <2>8, Zenon
<1> QED
  BY <1>4, <1>5

-----------------------------------------------------------------------------
(* The resolver.                                                           *)
LEMMA Enqueue ==
  ASSUME NEW n \in Nat, NEW D \in DnsType, RequestsInv(D, n), NEW host \in Hosts
  PROVE  LET E == dns_enqueue(D, host, n + 1)
         IN  E \in DnsType /\ RequestsInv(E, n + 1)
<1> DEFINE r == CHOOSE s \in FreeSlots(D) : \A q \in FreeSlots(D) : s <= q
           t == [D.table EXCEPT ![host] = "DNS_STATE_ASKING"]
           w == [host |-> host, play |-> n + 1]
           u == [D.requests EXCEPT ![r] = w]
           E == [table |-> t, requests |-> u]
<1> HIDE DEF r
<1>1. /\ D.table \in [Hosts -> {"DNS_STATE_UNUSED", "DNS_STATE_ASKING", "DNS_STATE_DONE"}]
      /\ D.requests \in [Slots -> [host : Hosts \cup {NoHost}, play : Nat]]
  BY DEF DnsType
<1>2. t \in [Hosts -> {"DNS_STATE_UNUSED", "DNS_STATE_ASKING", "DNS_STATE_DONE"}]
  BY <1>1
<1>3. w \in [host : Hosts \cup {NoHost}, play : Nat] /\ w.play = n + 1
  <2>1. n + 1 \in Nat
    OBVIOUS
  <2> QED
    BY <2>1, Zenon
<1> HIDE DEF w
<1>4. /\ u \in [Slots -> [host : Hosts \cup {NoHost}, play : Nat]]
      /\ \A q \in Slots : u[q] = IF q = r THEN w ELSE D.requests[q]
  BY <1>1, <1>3, Zenon
<1> HIDE DEF u, t
<1>5. E \in DnsType
  BY <1>2, <1>4 DEF DnsType
<1>6. /\ \A q \in Slots : D.requests[q].play \in Nat
      /\ r \in Slots => E.requests[r].play = n + 1
      /\ \A q \in Slots \ {r} : E.requests[q] = D.requests[q]
  BY <1>1, <1>3, <1>4
<1> HIDE DEF E
<1>7. RequestsInv(E, n + 1)
  <2>1. \A q \in Slots : D.requests[q].play \in Nat /\ D.requests[q].play <= n
    BY <1>6 DEF RequestsInv
  <2> SUFFICES ASSUME NEW q \in Slots
               PROVE  /\ E.requests[q].play <= n + 1
                      /\ E.requests[q].play = 0 => E.requests[q].host = NoHost
                      /\ E.requests[q].play # 0 =>
                           \A m \in Slots \ {q} : E.requests[m].play # E.requests[q].play
    BY Zenon DEF RequestsInv
  <2>2. /\ E.requests[q].play <= n + 1
        /\ E.requests[q].play = 0 => E.requests[q].host = NoHost
    BY <1>6, <2>1 DEF RequestsInv
  <2>3. E.requests[q].play # 0 =>
          \A m \in Slots \ {q} : E.requests[m].play # E.requests[q].play
    BY <1>6, <2>1 DEF RequestsInv
  <2> QED
    BY <2>2, <2>3, Zenon
<1> QED
  BY <1>5, <1>7, Zenon DEF dns_enqueue, E, r, t, u, w

LEMMA Flush ==
  ASSUME NEW n \in Nat, NEW D \in DnsType, RequestsInv(D, n), NEW r \in Slots
  PROVE  LET E == dns_flush(D, r)
         IN  /\ E \in DnsType /\ RequestsInv(E, n)
             /\ \A m \in Nat \ {0} : Requested(E, m) =>
                  Requested(D, m) /\ m # D.requests[r].play
<1> DEFINE u == [D.requests EXCEPT ![r] = NoRequest]
           E == [D EXCEPT !.requests[r] = NoRequest]
<1>1. D.requests \in [Slots -> [host : Hosts \cup {NoHost}, play : Nat]]
  BY DEF DnsType
<1>2. NoRequest \in [host : Hosts \cup {NoHost}, play : Nat] /\ NoRequest.play = 0
      /\ NoRequest.host = NoHost
  BY DEF NoRequest
<1>3. /\ u \in [Slots -> [host : Hosts \cup {NoHost}, play : Nat]]
      /\ \A q \in Slots : u[q] = IF q = r THEN NoRequest ELSE D.requests[q]
  BY <1>1, <1>2
<1> HIDE DEF u
<1>4. E \in DnsType /\ E.requests = u
  BY <1>3, Zenon DEF DnsType, u
<1> HIDE DEF E
<1>5. /\ \A q \in Slots : D.requests[q].play \in Nat
      /\ E.requests[r].play = 0 /\ E.requests[r].host = NoHost
      /\ \A q \in Slots \ {r} : E.requests[q] = D.requests[q]
  BY <1>1, <1>2, <1>3, <1>4, Zenon
<1>6. RequestsInv(E, n)
  BY <1>5 DEF RequestsInv
<1>7. \A m \in Nat \ {0} : Requested(E, m) => Requested(D, m) /\ m # D.requests[r].play
  BY <1>5 DEF RequestsInv, Requested
<1> QED
  BY <1>4, <1>6, <1>7, Zenon DEF dns_flush, E

LEMMA Settle ==
  ASSUME NEW D \in DnsType, NEW host \in Hosts,
         NEW state \in {"DNS_STATE_UNUSED", "DNS_STATE_ASKING", "DNS_STATE_DONE"}
  PROVE  LET E == dns_settle(D, host, state)
         IN  E \in DnsType /\ E.requests = D.requests
  BY Zenon DEF dns_settle, DnsType

-----------------------------------------------------------------------------
(* A new play.                                                             *)

(* The invariant but for the player's own state, which pl_play sets last.  *)
Opening(S, n, l) ==
  /\ S \in ProgType /\ S.fault = "none"
  /\ PoolInv(S.tcp, n) /\ RequestsInv(S.dns, n) /\ HeapInv(S)
  /\ ~l => /\ \A p \in Pcbs : Live(S.tcp, p) => /\ p = S.ns.pcb /\ S.tcp.pcb[p].play = n
                                                /\ ~Requested(S.dns, n)
           /\ S.i = << >> /\ Exact(S)

(* io_init and libmad_init, once the player has stopped: nothing is under  *)
(* way, and nothing belongs to the play that begins.                       *)
LEMMA FreshInv ==
  ASSUME NEW n \in Nat, NEW P, NEW l, ProgInv(P, n, l), P.fault = "none", ~Active(P)
  PROVE  LET F == Fresh(P)
         IN  /\ Opening(F, n + 1, l) /\ ~Active(F) /\ (~l => Quiet(F.tcp))
             /\ RequestsInv(F.dns, n) /\ ~Requested(F.dns, n + 1)
             /\ F.ls.main_data = NULL_PTR /\ F.ls.overlap = NULL_PTR
<1> DEFINE e == [state |-> "LM_INIT", main_data |-> NULL_PTR, overlap |-> NULL_PTR]
           q == << >>
           F == [[P EXCEPT !.i = q] EXCEPT !.ls = e]
<1>1. P \in ProgType /\ P.dns \in DnsType
  BY ProgFields DEF ProgInv
<1>2. e \in LsType /\ e.main_data = NULL_PTR /\ e.overlap = NULL_PTR
  BY DEF LsType, NULL_PTR
<1>3. q \in InputType
  BY Bounds DEF InputType
<1> HIDE DEF e, q
<1>4. /\ F \in ProgType /\ F.ls = e /\ F.i = q /\ F.heap = P.heap /\ F.ns = P.ns
      /\ F.pl = P.pl /\ F.tcp = P.tcp /\ F.dns = P.dns /\ F.fault = P.fault
  BY <1>1, <1>2, <1>3, Zenon DEF ProgType
<1>5. Fresh(P) = F
  BY Zenon DEF Fresh, libmad_init, e, q
<1> HIDE DEF F
<1>6. PoolInv(F.tcp, n + 1) /\ RequestsInv(F.dns, n)
  BY <1>4 DEF ProgInv, PoolInv
<1>7. \A r \in Slots : F.dns.requests[r].play \in Nat /\ F.dns.requests[r].play <= n
  BY <1>1, <1>4, <1>6 DEF DnsType, RequestsInv
<1>8. RequestsInv(F.dns, n + 1)
  BY <1>6, <1>7 DEF RequestsInv
<1>9. ~Requested(F.dns, n + 1)
  BY <1>7 DEF Requested
<1>10. ~Active(F) /\ HeapInv(F)
  BY <1>2, <1>4 DEF ProgInv, Active, HeapInv
<1>11. ~l => Quiet(F.tcp) /\ Exact(F)
  BY <1>2, <1>4 DEF ProgInv, CurrentInv, Quiet, Exact
<1> QED
  BY <1>2, <1>4, <1>5, <1>6, <1>8, <1>9, <1>10, <1>11, Zenon DEF Opening, Quiet, q

LEMMA Opened ==
  ASSUME NEW n, NEW S, NEW l, Opening(S, n, l)
  PROVE  ProgInv([S EXCEPT !.pl = [state |-> "PL_BUFFERING", source_type |-> "PS_NET"]], n, l)
<1> DEFINE player == [state |-> "PL_BUFFERING", source_type |-> "PS_NET"]
           U == [S EXCEPT !.pl = player]
<1>1. player \in PlType /\ player.state = "PL_BUFFERING" /\ player.source_type = "PS_NET"
  BY DEF PlType
<1>2. S \in ProgType
  BY DEF Opening
<1> HIDE DEF player
<1>3. /\ U \in ProgType /\ U.pl = player /\ U.ns = S.ns /\ U.tcp = S.tcp /\ U.dns = S.dns
      /\ U.ls = S.ls /\ U.heap = S.heap /\ U.i = S.i
  BY <1>1, <1>2, SetPl, Zenon
<1> HIDE DEF U
<1>4. Active(U) /\ U.pl.source_type = "PS_NET"
  BY <1>1, <1>3 DEF Active
<1>5. PoolInv(U.tcp, n) /\ RequestsInv(U.dns, n) /\ HeapInv(U)
  BY <1>3 DEF Opening, HeapInv
<1>6. ~l => CurrentInv(U, n)
  BY <1>3, <1>4 DEF Opening, CurrentInv, Exact
<1> QED
  BY <1>3, <1>4, <1>5, <1>6, Zenon DEF ProgInv, U, player

LEMMA LinkOpening ==
  ASSUME NEW n, NEW S, NEW l, Opening(S, n, l),
         NEW state \in {"NET_CLOSED", "NET_PENDING", "NET_OPEN", "NET_ERROR"}
  PROVE  LET U == Link(S, state)
         IN  Opening(U, n, l) /\ U.tcp = S.tcp /\ U.dns = S.dns
<1> DEFINE U == Link(S, state)
<1>1. S \in ProgType
  BY DEF Opening
<1>2. U \in ProgType /\ SameButPool(U, S) /\ U.tcp = S.tcp /\ U.dns = S.dns
  BY <1>1, LinkFields, Zenon DEF SameButPool
<1> HIDE DEF U
<1>3. Opening(U, n, l)
  BY <1>2 DEF Opening, SameButPool, HeapInv, Exact
<1> QED
  BY <1>2, <1>3, Zenon DEF U

(* host_net_open: a connection, a request for one, or an error.            *)
LEMMA HostOpen ==
  ASSUME NEW n \in Nat, NEW F, NEW l, Opening(F, n + 1, l), ~l => Quiet(F.tcp),
         RequestsInv(F.dns, n), ~Requested(F.dns, n + 1), NEW host \in Hosts, NEW ready,
         NEW O \in host_net_open(F, host, n + 1, ready)
  PROVE  Opening(O, n + 1, l)
<1> DEFINE L == Link(F, "NET_PENDING")
<1>1. Opening(L, n + 1, l) /\ L.tcp = F.tcp /\ L.dns = F.dns /\ L \in ProgType
  <2>1. Opening(L, n + 1, l) /\ L.tcp = F.tcp /\ L.dns = F.dns
    BY LinkOpening
  <2> QED
    BY <2>1, Zenon DEF Opening
<1>2. Opening(Link(F, "NET_ERROR"), n + 1, l)
  BY LinkOpening
<1> HIDE DEF L
<1>3. CASE O \in net_lwip_open(L, n + 1)
  <2> DEFINE m == n + 1
  <2>1. m \in Nat /\ m \in 1 .. m /\ PoolInv(L.tcp, m) /\ O \in net_lwip_open(L, m)
    BY <1>1, <1>3 DEF Opening
  <2> HIDE DEF m
  <2>2. /\ O \in ProgType /\ PoolInv(O.tcp, m) /\ SameButNet(O, L) /\ O.fault = L.fault
        /\ Quiet(L.tcp) => \A q \in Pcbs : Live(O.tcp, q) =>
                             q = O.ns.pcb /\ O.tcp.pcb[q].play = m
    BY <1>1, <2>1, NetOpen
  <2> USE DEF m
  <2> QED
    BY <1>1, <2>2 DEF Opening, SameButNet, HeapInv, Exact
<1>4. CASE O = [L EXCEPT !.dns = dns_enqueue(@, host, n + 1)]
  <2> DEFINE E == dns_enqueue(L.dns, host, n + 1)
  <2>1. E \in DnsType /\ RequestsInv(E, n + 1)
    BY <1>1, ProgFields, Enqueue
  <2> HIDE DEF E
  <2>2. /\ O \in ProgType /\ O.dns = E /\ O.ns = L.ns /\ O.tcp = L.tcp
        /\ O.ls = L.ls /\ O.heap = L.heap /\ O.i = L.i /\ O.fault = L.fault
    BY <1>1, <1>4, <2>1, Zenon DEF ProgType, E
  <2> QED
    BY <1>1, <2>1, <2>2 DEF Opening, Quiet, HeapInv, Exact
<1>5. CASE O = Link(F, "NET_ERROR")
  BY <1>2, <1>5
<1> QED
  BY <1>3, <1>4, <1>5, Zenon DEF host_net_open, L

LEMMA PlayNet ==
  ASSUME NEW n \in Nat, NEW S, NEW l, ProgInv(S, n, l), S.fault = "none",
         NEW host \in Hosts, NEW ready, NEW U \in pl_play_net(S, host, n + 1, ready)
  PROVE  ProgInv(U, n + 1, l)
<1> DEFINE player == [state |-> "PL_BUFFERING", source_type |-> "PS_NET"]
<1>1. PICK P \in pl_stop(S) :
        U \in IF P.fault # "none" THEN {P}
              ELSE {[O EXCEPT !.pl = player] : O \in host_net_open(Fresh(P), host, n + 1, ready)}
  BY Zenon DEF pl_play_net, Then
<1> HIDE DEF player
<1>2. ProgInv(P, n, l) /\ ~Active(P)
  BY PlStop
<1>3. CASE P.fault # "none"
  BY <1>1, <1>2, <1>3 DEF ProgInv
<1>4. CASE P.fault = "none"
  <2>1. PICK O \in host_net_open(Fresh(P), host, n + 1, ready) : U = [O EXCEPT !.pl = player]
    BY <1>1, <1>4, Zenon
  <2>2. /\ Opening(Fresh(P), n + 1, l) /\ (~l => Quiet(Fresh(P).tcp))
        /\ RequestsInv(Fresh(P).dns, n) /\ ~Requested(Fresh(P).dns, n + 1)
    BY <1>2, <1>4, FreshInv
  <2>3. Opening(O, n + 1, l)
    BY <2>2, HostOpen
  <2> QED
    BY <2>1, <2>3, Opened, Zenon DEF player
<1> QED
  BY <1>3, <1>4

LEMMA PlayFile ==
  ASSUME NEW n \in Nat, NEW S, NEW l, ProgInv(S, n, l), S.fault = "none",
         NEW U \in pl_play_file(S)
  PROVE  ProgInv(U, n + 1, l)
<1>1. PICK P \in pl_stop(S) :
        U = IF P.fault # "none" THEN P ELSE [Fresh(P) EXCEPT !.pl.source_type = "PS_FILE"]
  BY Zenon DEF pl_play_file
<1>2. ProgInv(P, n, l) /\ ~Active(P)
  BY PlStop
<1>3. CASE P.fault # "none"
  BY <1>1, <1>2, <1>3 DEF ProgInv
<1>4. CASE P.fault = "none"
  <2> DEFINE F == Fresh(P)
  <2>1. /\ Opening(F, n + 1, l) /\ ~Active(F) /\ (~l => Quiet(F.tcp))
        /\ F.ls.main_data = NULL_PTR /\ F.ls.overlap = NULL_PTR
    BY <1>2, <1>4, FreshInv
  <2> HIDE DEF F
  <2>2. F \in ProgType
    BY <2>1, Zenon DEF Opening
  <2>3. /\ U \in ProgType /\ U.pl.state = F.pl.state /\ U.ns = F.ns /\ U.tcp = F.tcp
        /\ U.dns = F.dns /\ U.ls = F.ls /\ U.heap = F.heap /\ U.i = F.i
    BY <1>1, <1>4, <2>2, Zenon DEF ProgType, PlType, F
  <2>4. PoolInv(U.tcp, n + 1) /\ RequestsInv(U.dns, n + 1) /\ HeapInv(U) /\ ~Active(U)
    BY <2>1, <2>3 DEF Opening, HeapInv, Active
  <2>5. ~l => CurrentInv(U, n + 1)
    BY <2>1, <2>3 DEF Opening, CurrentInv, Quiet, Exact
  <2> QED
    BY <2>3, <2>4, <2>5, Zenon DEF ProgInv
<1> QED
  BY <1>3, <1>4

(* The resolver answers a request: if that is on time, the request was the *)
(* current play's, so nothing was live and no request is left.             *)
LEMMA FoundInv ==
  ASSUME NEW n \in Nat, NEW S, NEW l, ProgInv(S, n, l), S.fault = "none",
         NEW r \in Slots, S.dns.requests[r].host \in Hosts, NEW found,
         NEW U \in net_lwip_dns([S EXCEPT !.dns = dns_flush(@, r)],
                                S.dns.requests[r].play, found)
  PROVE  ProgInv(U, n, l \/ ~Active(S) \/ S.dns.requests[r].play # n)
<1> DEFINE play == S.dns.requests[r].play
           late1 == l \/ ~Active(S) \/ play # n
           E == dns_flush(S.dns, r)
           F == [S EXCEPT !.dns = E]
<1>1. S \in ProgType /\ S.dns \in DnsType /\ RequestsInv(S.dns, n)
  BY ProgFields DEF ProgInv
<1>2. play \in 1 .. n
  BY <1>1, BoardAssumption DEF RequestsInv, DnsType
<1>3. /\ E \in DnsType /\ RequestsInv(E, n)
      /\ \A m \in Nat \ {0} : Requested(E, m) => Requested(S.dns, m) /\ m # play
  BY <1>1, Flush
<1>4. Requested(S.dns, play)
  BY DEF Requested
<1> HIDE DEF E, play
<1>5. /\ F \in ProgType /\ F.dns = E /\ F.ns = S.ns /\ F.pl = S.pl /\ F.tcp = S.tcp
      /\ F.ls = S.ls /\ F.heap = S.heap /\ F.i = S.i /\ F.fault = S.fault
  BY <1>1, <1>3, SetDns, Zenon
<1>6. U \in net_lwip_dns(F, play, found)
  BY DEF E, play
<1> HIDE DEF F, late1
<1>7. ~late1 => ~l /\ Active(S) /\ play = n /\ ~Requested(E, n) /\ Quiet(S.tcp)
  <2>1. ~late1 => ~l /\ Active(S) /\ play = n /\ CurrentInv(S, n)
    BY DEF late1, ProgInv
  <2> QED
    BY <1>2, <1>3, <1>4, <2>1 DEF CurrentInv, Quiet
<1>8. CASE found
  <2>1. /\ U \in ProgType /\ PoolInv(U.tcp, n) /\ SameButNet(U, F) /\ U.fault = F.fault
        /\ Quiet(F.tcp) => \A q \in Pcbs : Live(U.tcp, q) =>
                             q = U.ns.pcb /\ U.tcp.pcb[q].play = play
    <3>1. U \in net_lwip_open(F, play)
      BY <1>6, <1>8 DEF net_lwip_dns
    <3>2. PoolInv(F.tcp, n)
      BY <1>5 DEF ProgInv
    <3> QED
      BY <1>2, <1>5, <3>1, <3>2, NetOpen
  <2>2. RequestsInv(U.dns, n) /\ HeapInv(U) /\ (Active(U) => U.pl.source_type = "PS_NET")
    BY <1>3, <1>5, <2>1 DEF ProgInv, SameButNet, HeapInv, Active
  <2>3. ~late1 => CurrentInv(U, n)
    BY <1>5, <1>7, <2>1 DEF ProgInv, SameButNet, CurrentInv, Active
  <2> QED
    BY <2>1, <2>2, <2>3, Zenon DEF ProgInv, late1, play
<1>9. CASE ~found
  <2>1. ProgInv(F, n, late1)
    <3>1. /\ PoolInv(F.tcp, n) /\ RequestsInv(F.dns, n) /\ HeapInv(F)
          /\ Active(F) => F.pl.source_type = "PS_NET"
      BY <1>3, <1>5 DEF ProgInv, HeapInv, Active
    <3>2. ~late1 => CurrentInv(F, n)
      BY <1>5, <1>7 DEF ProgInv, CurrentInv, Active, Quiet
    <3> QED
      BY <1>5, <3>1, <3>2, Zenon DEF ProgInv
  <2>2. U = Link(F, "NET_ERROR")
    BY <1>6, <1>9 DEF net_lwip_dns
  <2> QED
    BY <2>1, <2>2, LinkInv DEF late1, play
<1> QED
  BY <1>8, <1>9

-----------------------------------------------------------------------------
(* The steps of main(), and the theorems.                                  *)

LEMMA ProgOf ==
  ASSUME NEW S \in ProgType
  PROVE  S = [pl |-> S.pl, ns |-> S.ns, tcp |-> S.tcp, dns |-> S.dns, ls |-> S.ls,
              heap |-> S.heap, i |-> S.i, fault |-> S.fault]
  BY DEF ProgType

LEMMA BecomesInv ==
  ASSUME NEW States, Becomes(States), NEW n, NEW l, \A S \in States : ProgInv(S, n, l)
  PROVE  ProgInv(Prog', n, l)
<1>1. PICK S \in States : /\ pl' = S.pl /\ ns' = S.ns /\ tcp' = S.tcp /\ dns' = S.dns
                          /\ ls' = S.ls /\ heap' = S.heap /\ i' = S.i /\ fault' = S.fault
  BY Zenon DEF Becomes
<1>2. S \in ProgType /\ ProgInv(S, n, l)
  BY DEF ProgInv
<1>3. Prog' = S
  BY <1>1, <1>2, ProgOf DEF Prog
<1> QED
  BY <1>2, <1>3

LEMMA SameProg ==
  ASSUME UNCHANGED prog
  PROVE  Prog' = Prog
  BY DEF prog, Prog

LEMMA TcpOnly ==
  ASSUME UNCHANGED <<pl, ns, dns, ls, heap, i, fault>>
  PROVE  Prog' = [Prog EXCEPT !.tcp = tcp']
  BY DEF Prog

LEMMA DnsOnly ==
  ASSUME UNCHANGED <<pl, ns, tcp, ls, heap, i, fault>>
  PROVE  Prog' = [Prog EXCEPT !.dns = dns']
  BY DEF Prog

LEMMA InitInv ==
  Init => BoardInv
<1> SUFFICES ASSUME Init PROVE BoardInv
  OBVIOUS
<1>1. /\ Prog.pl = pl /\ Prog.ns = ns /\ Prog.tcp = tcp /\ Prog.dns = dns /\ Prog.ls = ls
      /\ Prog.heap = heap /\ Prog.i = i /\ Prog.fault = fault
  BY DEF Prog
<1>2. /\ pl \in PlType /\ ns \in NsType /\ ls \in LsType /\ fault = "none"
      /\ pl.state = "PL_STOP" /\ ls.main_data = NULL_PTR /\ ls.overlap = NULL_PTR
      /\ plays = 0 /\ late = FALSE
  BY DEF Init, PlType, NsType, LsType, NULL_PTR
<1>3. /\ tcp \in TcpType /\ tcp.active = {} /\ tcp.tw = {} /\ tcp.free = memp_init
  <2>1. NewPcb(0) \in PcbType
    BY DEF NewPcb, PcbType, TcpStates, Callbacks
  <2>2. [p \in Pcbs |-> NewPcb(0)] \in [Pcbs -> PcbType]
    BY <2>1, Zenon
  <2> QED
    BY <2>2, FreeAll, Zenon DEF Init, TcpType
<1>4. dns \in DnsType /\ \A r \in Slots : dns.requests[r] = NoRequest
  BY Zenon DEF Init, dns_init, DnsType, NoRequest
<1>5. heap \in HeapType /\ heap.used_slots = 0 /\ UsedSlots(heap) = {}
  BY DEF Init, libmad_alloc, HeapType, UsedSlots
<1>6. i \in InputType /\ i = << >>
  BY Bounds DEF Init, InputType
<1>7. Prog \in ProgType
  BY <1>2, <1>3, <1>4, <1>5, <1>6, Zenon DEF Prog, ProgType
<1>8. \A p \in Pcbs : IsFree(tcp, p) /\ p \notin Listed(tcp)
  BY <1>3, FreeAll DEF IsFree, Listed
<1>9. PoolInv(tcp, 0)
  BY <1>3, <1>8, FreeAll DEF PoolInv, Placed
<1>10. RequestsInv(dns, 0)
  BY <1>4 DEF RequestsInv, NoRequest
<1>12. HeapInv(Prog)
  BY <1>1, <1>2, <1>5 DEF HeapInv, Counted, Held
<1>13. ~Active(Prog)
  BY <1>1, <1>2 DEF Active
<1>14. CurrentInv(Prog, 0)
  <2>1. \A p \in Pcbs : ~Live(tcp, p)
    BY <1>8 DEF Live, Listed
  <2> QED
    BY <1>1, <1>2, <1>5, <1>6, <2>1 DEF CurrentInv
<1>15. ProgInv(Prog, plays, late)
  BY <1>1, <1>2, <1>7, <1>9, <1>10, <1>12, <1>13, <1>14 DEF ProgInv
<1>16. pc \in Calls /\ pc # "dns_call_found"
  BY DEF Init, Calls
<1>17. answer \in [host : Hosts \cup {NoHost}, found : BOOLEAN]
  BY Zenon DEF Init, NoAnswer
<1>18. plays \in 0 .. MaxPlays /\ late \in BOOLEAN
  <2>1. 0 \in 0 .. MaxPlays
    BY Bounds
  <2> QED
    BY <1>2, <2>1, Zenon
<1> QED
  BY <1>7, <1>15, <1>16, <1>17, <1>18, Zenon DEF BoardInv, TypeOK

(* What every step has to show.                                            *)
LEMMA StepInv ==
  ASSUME BoardInv, ProgInv(Prog', plays', late'), plays' \in 0 .. MaxPlays,
         late' \in BOOLEAN, pc' \in Calls,
         answer' \in [host : Hosts \cup {NoHost}, found : BOOLEAN],
         pc' = "dns_call_found" => answer'.host \in Hosts
  PROVE  BoardInv'
<1>1. Prog' \in ProgType
  BY Zenon DEF ProgInv
<1> QED
  BY <1>1, Zenon DEF BoardInv, TypeOK

LEMMA CallInv ==
  ASSUME BoardInv, ProgInv(Prog', plays, late), UNCHANGED <<answer, plays, late>>,
         pc' \in Calls \ {"dns_call_found"}
  PROVE  BoardInv'
<1>1. /\ plays' = plays /\ late' = late /\ answer' = answer /\ plays \in 0 .. MaxPlays
      /\ late \in BOOLEAN /\ answer \in [host : Hosts \cup {NoHost}, found : BOOLEAN]
  BY Zenon DEF BoardInv, TypeOK
<1> QED
  BY <1>1, StepInv

(* What every action starts from.                                          *)
LEMMA Start ==
  ASSUME BoardInv
  PROVE  /\ ProgInv(Prog, plays, late) /\ plays \in Nat /\ plays \in 0 .. MaxPlays
         /\ late \in BOOLEAN /\ answer \in [host : Hosts \cup {NoHost}, found : BOOLEAN]
         /\ Prog.pl = pl /\ Prog.ns = ns /\ Prog.tcp = tcp /\ Prog.dns = dns /\ Prog.ls = ls
         /\ Prog.heap = heap /\ Prog.i = i /\ Prog.fault = fault /\ Prog \in ProgType
<1>1. /\ ProgInv(Prog, plays, late) /\ plays \in 0 .. MaxPlays /\ late \in BOOLEAN
      /\ answer \in [host : Hosts \cup {NoHost}, found : BOOLEAN] /\ Prog \in ProgType
  BY Zenon DEF BoardInv, TypeOK
<1>2. plays \in Nat
  BY <1>1, Bounds
<1>3. /\ Prog.pl = pl /\ Prog.ns = ns /\ Prog.tcp = tcp /\ Prog.dns = dns /\ Prog.ls = ls
      /\ Prog.heap = heap /\ Prog.i = i /\ Prog.fault = fault
  BY DEF Prog
<1> QED
  BY <1>1, <1>2, <1>3

LEMMA LoopStep ==
  ASSUME BoardInv, libmad_loop
  PROVE  BoardInv'
<1>1. /\ pc' \in Calls \ {"dns_call_found"} /\ fault = "none"
      /\ UNCHANGED <<answer, plays, late>>
  BY Zenon DEF libmad_loop, Call, Calls
<1>2. CASE UNCHANGED prog
  BY <1>1, <1>2, Start, SameProg, CallInv
<1>3. CASE /\ ls.state = "LM_INIT" /\ i # << >>
           /\ \E frames, errors \in BOOLEAN :
                LET P == [Prog EXCEPT !.i = Tail(@)]
                    D == IF frames THEN mad_layer_III(P) ELSE P
                IN  Becomes({IF errors THEN [D EXCEPT !.ls.state = "LM_ERROR"] ELSE D})
  <2> DEFINE P == [Prog EXCEPT !.i = Tail(@)]
             D(frames) == IF frames THEN mad_layer_III(P) ELSE P
             U(frames, errors) == IF errors THEN [D(frames) EXCEPT !.ls.state = "LM_ERROR"]
                                  ELSE D(frames)
  <2>1. PICK frames \in BOOLEAN, errors \in BOOLEAN : Becomes({U(frames, errors)})
    BY <1>3, Zenon
  <2>2. ProgInv(U(frames, errors), plays, late)
    <3>1. /\ ProgInv(Prog, plays, late) /\ Prog.fault = "none" /\ Prog.ls.state = "LM_INIT"
          /\ Prog.i # << >>
      BY <1>1, <1>3, Start, Zenon
    <3> QED
      BY <3>1, LoopInv, Zenon
  <2> HIDE DEF U
  <2>3. ProgInv(Prog', plays, late)
    BY <2>1, <2>2, BecomesInv
  <2> QED
    BY <1>1, <2>3, CallInv
<1> QED
  BY <1>2, <1>3, Zenon DEF libmad_loop

LEMMA PlayerStep ==
  ASSUME BoardInv, poll_player \/ event_stop \/ event_none
  PROVE  BoardInv'
<1>1. /\ pc' \in Calls \ {"dns_call_found"} /\ fault = "none"
      /\ UNCHANGED <<answer, plays, late>>
  BY Zenon DEF poll_player, event_stop, event_none, Call, Calls
<1>2. /\ ProgInv(Prog, plays, late) /\ Prog.fault = "none" /\ plays \in Nat
  BY <1>1, Start, Zenon
<1>3. CASE poll_player
  <2>1. PICK broken, drained \in BOOLEAN : Becomes(pl_poll(Prog, broken, drained))
    BY <1>3, Zenon DEF poll_player
  <2>2. \A U \in pl_poll(Prog, broken, drained) : ProgInv(U, plays, late)
    BY <1>2, PollInv
  <2>3. ProgInv(Prog', plays, late)
    BY <2>1, <2>2, BecomesInv, Zenon
  <2> QED
    BY <1>1, <2>3, CallInv
<1>4. CASE event_stop
  <2>1. Becomes(pl_stop(Prog))
    BY <1>4, Zenon DEF event_stop
  <2>2. \A U \in pl_stop(Prog) : ProgInv(U, plays, late)
    BY <1>2, PlStop
  <2>3. ProgInv(Prog', plays, late)
    BY <2>1, <2>2, BecomesInv, Zenon
  <2> QED
    BY <1>1, <2>3, CallInv
<1>5. CASE event_none
  <2>1. UNCHANGED prog
    BY <1>5, Zenon DEF event_none
  <2> QED
    BY <1>1, <1>2, <2>1, SameProg, CallInv
<1> QED
  BY <1>3, <1>4, <1>5

LEMMA PlayStep ==
  ASSUME BoardInv, event_play \/ event_play_file
  PROVE  BoardInv'
<1>1. /\ pc' \in Calls /\ pc' # "dns_call_found" /\ fault = "none" /\ answer' = answer
      /\ late' = late /\ plays' = plays + 1 /\ plays < MaxPlays
  BY Zenon DEF event_play, event_play_file, Call, Calls
<1>2. /\ ProgInv(Prog, plays, late) /\ Prog.fault = "none" /\ plays \in Nat
      /\ late \in BOOLEAN /\ answer \in [host : Hosts \cup {NoHost}, found : BOOLEAN]
  BY <1>1, Start, Zenon
<1>3. plays + 1 \in 0 .. MaxPlays
  BY <1>1, <1>2, Bounds
<1>4. ProgInv(Prog', plays + 1, late)
  <2>1. CASE event_play
    <3>1. PICK host \in Hosts, ready \in BOOLEAN :
            Becomes(pl_play_net(Prog, host, plays + 1, ready))
      BY <2>1, Zenon DEF event_play
    <3>2. \A U \in pl_play_net(Prog, host, plays + 1, ready) : ProgInv(U, plays + 1, late)
      BY <1>2, PlayNet
    <3> QED
      BY <3>1, <3>2, BecomesInv, Zenon
  <2>2. CASE event_play_file
    <3>1. Becomes(pl_play_file(Prog))
      BY <2>2, Zenon DEF event_play_file
    <3>2. \A U \in pl_play_file(Prog) : ProgInv(U, plays + 1, late)
      BY <1>2, PlayFile
    <3> QED
      BY <3>1, <3>2, BecomesInv, Zenon
  <2> QED
    BY <2>1, <2>2
<1> QED
  BY <1>1, <1>2, <1>3, <1>4, StepInv

LEMMA TcpStep ==
  ASSUME BoardInv, syn_ack \/ segment
  PROVE  BoardInv'
<1>1. /\ pc' \in Calls \ {"dns_call_found"} /\ fault = "none"
      /\ UNCHANGED <<answer, plays, late>>
  BY Zenon DEF syn_ack, segment, Call, Calls
<1>2. /\ ProgInv(Prog, plays, late) /\ Prog.fault = "none" /\ plays \in Nat
      /\ plays \in 0 .. MaxPlays /\ Prog.tcp = tcp
  BY <1>1, Start, Zenon
<1>3. CASE syn_ack
  <2>1. PICK p \in InState(tcp, "SYN_SENT") :
          Becomes({net_lwip_connected([Prog EXCEPT !.tcp = SynAck(@, p)])})
    BY <1>3, Zenon DEF syn_ack
  <2> DEFINE U == net_lwip_connected([Prog EXCEPT !.tcp = SynAck(@, p)])
  <2>2. ProgInv(U, plays, late)
    BY <1>2, Connected
  <2> HIDE DEF U
  <2>3. ProgInv(Prog', plays, late)
    BY <2>1, <2>2, BecomesInv DEF U
  <2> QED
    BY <1>1, <2>3, CallInv
<1>4. CASE segment
  <2>1. PICK p \in tcp.active, seg \in Segments, full \in BOOLEAN :
          MaySend(tcp, p, seg) /\ Becomes({tcp_input(Prog, p, seg, full)})
    BY <1>4, Zenon DEF segment
  <2> DEFINE U == tcp_input(Prog, p, seg, full)
  <2>2. ProgInv(U, plays, late)
    BY <1>2, <2>1, InputInv
  <2> HIDE DEF U
  <2>3. ProgInv(Prog', plays, late)
    BY <2>1, <2>2, BecomesInv DEF U
  <2> QED
    BY <1>1, <2>3, CallInv
<1> QED
  BY <1>3, <1>4

LEMMA FreeStep ==
  ASSUME BoardInv, reset \/ \E p \in Pcbs : slowtmr(p)
  PROVE  BoardInv'
<1>1. /\ fault = "none" /\ UNCHANGED <<answer, plays, late>>
      /\ UNCHANGED <<pl, ns, dns, ls, heap, i, fault>>
      /\ pc' \in Calls \ {"dns_call_found"}
  BY Zenon DEF reset, slowtmr, Call, Calls
<1>2. /\ ProgInv(Prog, plays, late) /\ Prog.fault = "none" /\ plays \in Nat
      /\ Prog.tcp = tcp /\ Prog \in ProgType
  BY <1>1, Start, Zenon
<1>3. tcp \in TcpType /\ PoolInv(tcp, plays)
  BY <1>2, ProgFields DEF ProgInv
<1>4. PICK p \in Pcbs : Keeps(tcp', tcp, p, plays) /\ ~Live(tcp', p)
  <2>1. CASE reset
    <3>1. PICK p \in tcp.active : tcp' = TF_RESET(tcp, p)
      BY <2>1, Zenon DEF reset
    <3>2. p \in Pcbs /\ ~IsFree(tcp, p)
      BY <1>3, ListedTaken DEF Listed
    <3>3. Keeps(tcp', tcp, p, plays) /\ ~Live(tcp', p)
      BY <1>2, <1>3, <3>1, <3>2, RemoveFree DEF TF_RESET
    <3> QED
      BY <3>2, <3>3, Zenon
  <2>2. CASE \E p \in Pcbs : slowtmr(p)
    <3>1. PICK p \in MayExpire(tcp) : tcp' = tcp_slowtmr(tcp, p)
      BY <2>2, Zenon DEF slowtmr
    <3>2. p \in Pcbs /\ ~IsFree(tcp, p)
      BY <1>3, ListedTaken DEF Listed, MayExpire
    <3>3. Keeps(tcp', tcp, p, plays) /\ ~Live(tcp', p)
      BY <1>2, <1>3, <3>1, <3>2, UnlistFree DEF tcp_slowtmr
    <3> QED
      BY <3>2, <3>3, Zenon
  <2> QED
    BY <2>1, <2>2
<1>5. Prog' = [Prog EXCEPT !.tcp = tcp']
  BY <1>1, TcpOnly, Zenon
<1>6. ProgInv(Prog', plays, late)
  BY <1>2, <1>4, <1>5, Silenced, Zenon
<1> QED
  BY <1>1, <1>6, CallInv

(* The state of a name is no part of the invariant.                        *)
LEMMA SettleInv ==
  ASSUME NEW n, NEW S, NEW l, ProgInv(S, n, l), NEW host \in Hosts,
         NEW state \in {"DNS_STATE_UNUSED", "DNS_STATE_ASKING", "DNS_STATE_DONE"}
  PROVE  ProgInv([S EXCEPT !.dns = dns_settle(S.dns, host, state)], n, l)
<1> DEFINE E == dns_settle(S.dns, host, state)
           U == [S EXCEPT !.dns = E]
<1>1. S \in ProgType /\ S.dns \in DnsType
  BY ProgFields DEF ProgInv
<1>2. E \in DnsType /\ E.requests = S.dns.requests
  BY <1>1, Settle, Zenon
<1> HIDE DEF E
<1>3. /\ U \in ProgType /\ U.dns = E /\ U.ns = S.ns /\ U.pl = S.pl /\ U.tcp = S.tcp
      /\ U.ls = S.ls /\ U.heap = S.heap /\ U.i = S.i /\ U.fault = S.fault
  BY <1>1, <1>2, SetDns, Zenon
<1> HIDE DEF U
<1>4. /\ RequestsInv(S.dns, n) => RequestsInv(U.dns, n)
      /\ Requested(U.dns, n) <=> Requested(S.dns, n)
  BY <1>2, <1>3 DEF RequestsInv, Requested
<1>5. U.fault = "none" => /\ PoolInv(U.tcp, n) /\ RequestsInv(U.dns, n) /\ HeapInv(U)
                          /\ Active(U) => U.pl.source_type = "PS_NET"
  BY <1>3, <1>4 DEF ProgInv, HeapInv, Active
<1>6. U.fault = "none" /\ ~l => CurrentInv(U, n)
  BY <1>3, <1>4 DEF ProgInv, CurrentInv, Active
<1> QED
  BY <1>3, <1>5, <1>6, Zenon DEF ProgInv, U, E

LEMMA DnsStep ==
  ASSUME BoardInv, dns_recv \/ dns_check_entry
  PROVE  BoardInv'
<1>1. /\ fault = "none" /\ plays' = plays /\ late' = late
      /\ UNCHANGED <<pl, ns, tcp, ls, heap, i, fault>>
  BY Zenon DEF dns_recv, dns_check_entry, Call
<1>2. /\ ProgInv(Prog, plays, late) /\ Prog.dns = dns /\ plays \in 0 .. MaxPlays
      /\ late \in BOOLEAN /\ answer \in [host : Hosts \cup {NoHost}, found : BOOLEAN]
  BY Start, Zenon
<1>3. PICK host \in Hosts, state \in {"DNS_STATE_UNUSED", "DNS_STATE_ASKING", "DNS_STATE_DONE"} :
        /\ dns' = dns_settle(dns, host, state) /\ pc' \in Calls
        /\ \/ \E found \in BOOLEAN : answer' = [host |-> host, found |-> found]
           \/ pc' # "dns_call_found" /\ answer' = answer
  <2>1. CASE dns_recv
    BY <2>1, Zenon DEF dns_recv, Call, Calls
  <2>2. CASE dns_check_entry
    <3>1. PICK host \in Hosts :
            /\ dns' = dns_settle(dns, host, "DNS_STATE_UNUSED")
            /\ IF dns.table[host] = "DNS_STATE_ASKING"
               THEN pc' = "dns_call_found" /\ answer' = [host |-> host, found |-> FALSE]
               ELSE UNCHANGED <<pc, answer>>
      BY <2>2, Zenon DEF dns_check_entry
    <3>2. pc = "sys_check_timeouts"
      BY <2>2, Zenon DEF dns_check_entry
    <3>3. CASE dns.table[host] = "DNS_STATE_ASKING"
      BY <3>1, <3>3, Zenon DEF Calls
    <3>4. CASE dns.table[host] # "DNS_STATE_ASKING"
      BY <3>1, <3>2, <3>4, Zenon DEF Calls
    <3> QED
      BY <3>3, <3>4
  <2> QED
    BY <2>1, <2>2
<1>4. /\ answer' \in [host : Hosts \cup {NoHost}, found : BOOLEAN]
      /\ pc' = "dns_call_found" => answer'.host \in Hosts
  BY <1>2, <1>3
<1>5. Prog' = [Prog EXCEPT !.dns = dns']
  BY <1>1, DnsOnly, Zenon
<1>6. ProgInv(Prog', plays, late)
  BY <1>2, <1>3, <1>5, SettleInv, Zenon
<1> QED
  BY <1>1, <1>2, <1>3, <1>4, <1>6, StepInv

LEMMA FoundStep ==
  ASSUME BoardInv, dns_call_found
  PROVE  BoardInv'
<1>1. /\ fault = "none" /\ pc' = pc /\ pc = "dns_call_found" /\ answer' = answer
      /\ plays' = plays /\ answer.host \in Hosts
  BY Zenon DEF dns_call_found, BoardInv
<1>2. /\ ProgInv(Prog, plays, late) /\ Prog.dns = dns /\ plays \in 0 .. MaxPlays
      /\ plays \in Nat /\ Prog.fault = "none"
      /\ answer \in [host : Hosts \cup {NoHost}, found : BOOLEAN]
  BY <1>1, Start, Zenon
<1>3. PICK r \in Slots :
        /\ IsNext(dns, answer.host, r)
        /\ Becomes(net_lwip_dns([Prog EXCEPT !.dns = dns_flush(@, r)],
                                dns.requests[r].play, answer.found))
        /\ late' = (late \/ ~Active(Prog) \/ dns.requests[r].play # plays)
  BY Zenon DEF dns_call_found
<1>4. Prog.dns.requests[r].host \in Hosts
  BY <1>1, <1>2, <1>3 DEF IsNext, Waiting
<1>5. \A U \in net_lwip_dns([Prog EXCEPT !.dns = dns_flush(@, r)],
                            dns.requests[r].play, answer.found) : ProgInv(U, plays, late')
  BY <1>2, <1>3, <1>4, FoundInv
<1>6. ProgInv(Prog', plays, late')
  BY <1>3, <1>5, BecomesInv, Zenon
<1>7. late' \in BOOLEAN /\ pc' \in Calls
  BY <1>1, <1>3, Zenon DEF Calls
<1> QED
  BY <1>1, <1>2, <1>6, <1>7, StepInv

LEMMA QuietStep ==
  ASSUME BoardInv, no_frame \/ timers_done \/ dns_call_found_done
  PROVE  BoardInv'
<1>1. /\ UNCHANGED prog /\ plays' = plays /\ late' = late
      /\ pc' \in Calls \ {"dns_call_found"} /\ answer' \in {answer, NoAnswer}
  BY Zenon DEF no_frame, timers_done, dns_call_found_done, Call, Calls
<1>2. NoAnswer \in [host : Hosts \cup {NoHost}, found : BOOLEAN]
  BY Zenon DEF NoAnswer
<1>3. /\ ProgInv(Prog, plays, late) /\ plays \in 0 .. MaxPlays /\ late \in BOOLEAN
      /\ answer \in [host : Hosts \cup {NoHost}, found : BOOLEAN] /\ Prog' = Prog
  BY <1>1, Start, SameProg, Zenon
<1> QED
  BY <1>1, <1>2, <1>3, StepInv

LEMMA NextInv ==
  BoardInv /\ [Next]_vars => BoardInv'
<1> SUFFICES ASSUME BoardInv, [Next]_vars PROVE BoardInv'
  OBVIOUS
<1>1. CASE UNCHANGED vars
  <2>1. UNCHANGED <<pc, answer, plays, late>> /\ UNCHANGED prog
    BY <1>1 DEF vars
  <2>2. Prog' = Prog
    BY <2>1, SameProg
  <2> QED
    BY <2>1, <2>2, Zenon DEF BoardInv, TypeOK
<1>2. CASE Next
  <2>1. CASE libmad_loop
    BY <2>1, LoopStep
  <2>2. CASE poll_player \/ event_stop \/ event_none
    BY <2>2, PlayerStep
  <2>3. CASE event_play \/ event_play_file
    BY <2>3, PlayStep
  <2>4. CASE net_timers
    BY <2>4, TcpStep, FreeStep, DnsStep, FoundStep, QuietStep, Zenon DEF net_timers
  <2>5. CASE faulted
    BY <2>5, <1>1, Zenon DEF faulted
  <2> QED
    BY <1>2, <2>1, <2>2, <2>3, <2>4, <2>5, Zenon DEF Next
<1> QED
  BY <1>1, <1>2

(***************************************************************************)
(* The invariant holds of every run of main(), whatever the user, the      *)
(* name server, the peers and the timers of lwIP do: with any number of    *)
(* pcbs, names, request slots, buffers and plays.                          *)
(***************************************************************************)
THEOREM BoardInvariant == Spec => []BoardInv
<1>1. Init => BoardInv
  BY InitInv
<1>2. BoardInv /\ [Next]_vars => BoardInv'
  BY NextInv
<1> QED
  BY <1>1, <1>2, PTL DEF Spec

(***************************************************************************)
(* Until net_lwip_close is called without a pcb of its own, lwIP's pool is *)
(* intact: memp_free is never given a pcb twice or one that is still on a  *)
(* list, and a pcb on no list is the one the player will close.            *)
(***************************************************************************)
THEOREM PoolStaysIntact == Spec => []PoolIntact
<1>1. BoardInv => PoolIntact
  <2> SUFFICES ASSUME BoardInv, fault = "none" PROVE PoolIntact
    BY Zenon DEF PoolIntact
  <2>1. ProgInv(Prog, plays, late) /\ Prog.tcp = tcp /\ Prog.ns = ns /\ Prog.fault = "none"
    BY Start, Zenon
  <2>2. PoolInv(tcp, plays) /\ tcp \in TcpType
    BY <2>1, ProgFields DEF ProgInv
  <2>3. tcp.active \subseteq Pcbs /\ tcp.tw \subseteq Pcbs
    BY <2>2, TcpFields
  <2>4. /\ IsInjective(tcp.free)
        /\ \A p \in Listed(tcp) : ~IsFree(tcp, p)
        /\ \A p \in tcp.active : tcp.pcb[p].state \notin {"CLOSED", "TIME_WAIT"}
        /\ \A p \in tcp.tw : tcp.pcb[p].state = "TIME_WAIT"
        /\ \A p \in Pcbs : ~IsFree(tcp, p) /\ p \notin Listed(tcp) =>
             tcp.pcb[p].state = "CLOSED"
    BY <2>2, <2>3 DEF PoolInv, Placed, Listed
  <2>5. ASSUME ~late, NEW p \in Pcbs, ~IsFree(tcp, p), p \notin Listed(tcp)
        PROVE  p = ns.pcb /\ Active(Prog)
    <3>1. Live(Prog.tcp, p)
      BY <2>1, <2>5, Zenon DEF Live
    <3> QED
      BY <2>1, <2>5, <3>1, LiveMine DEF Mine
  <2> QED
    BY <2>4, <2>5 DEF PoolIntact
<1> QED
  BY <1>1, BoardInvariant, PTL

(***************************************************************************)
(* As long as the resolver answers no play that is over, only the          *)
(* connection of the current play can call back into the player.           *)
(***************************************************************************)
THEOREM OneConnectionFeeds == Spec => []OneFeeder
<1>1. BoardInv => OneFeeder
  <2> SUFFICES ASSUME BoardInv, fault = "none", ~late, NEW p \in tcp.active,
                      tcp.pcb[p].recv \in {"net_lwip_recv_connect", "net_lwip_recv"}
               PROVE  /\ p = ns.pcb /\ tcp.pcb[p].play = plays
                      /\ Active(Prog) /\ pl.source_type = "PS_NET"
    BY Zenon DEF OneFeeder
  <2>1. /\ ProgInv(Prog, plays, late) /\ Prog.tcp = tcp /\ Prog.ns = ns /\ Prog.pl = pl
        /\ Prog.fault = "none"
    BY Start, Zenon
  <2>2. tcp \in TcpType /\ (Active(Prog) => pl.source_type = "PS_NET")
    BY <2>1, ProgFields DEF ProgInv
  <2>3. p \in Pcbs /\ Live(Prog.tcp, p)
    BY <2>1, <2>2, TcpFields DEF Live, Feeding
  <2> QED
    BY <2>1, <2>2, <2>3, LiveMine DEF Mine
<1> QED
  BY <1>1, BoardInvariant, PTL

(***************************************************************************)
(* Then pl_play, which empties the ring, is enough to keep two stations    *)
(* from being mixed, although the connections of earlier plays may still   *)
(* be closing.                                                             *)
(***************************************************************************)
THEOREM StreamsNeverMix == Spec => []StreamNotMixed
<1>1. BoardInv => StreamNotMixed
  <2>1. ASSUME BoardInv, fault = "none", ~late PROVE \A k \in DOMAIN i : i[k] = plays
    <3>1. ProgInv(Prog, plays, late) /\ Prog.i = i /\ Prog.fault = "none"
      BY <2>1, Start, Zenon
    <3> QED
      BY <2>1, <3>1 DEF ProgInv, CurrentInv
  <2> QED
    BY <2>1, Zenon DEF StreamNotMixed
<1> QED
  BY <1>1, BoardInvariant, PTL

(***************************************************************************)
(* used_slots of the decoder's allocator never goes wrong, and no block    *)
(* leaks: pl_stop gives back what mad_layer_III has taken.                 *)
(***************************************************************************)
THEOREM MemoryAccounted == Spec => []DecoderMemory
<1>1. BoardInv => DecoderMemory
  <2>1. ASSUME BoardInv, fault = "none"
        PROVE  /\ Counted(heap)
               /\ ~late => UsedSlots(heap) = {ls.main_data, ls.overlap} \ {NULL_PTR}
    <3>1. ProgInv(Prog, plays, late) /\ Prog.heap = heap /\ Prog.ls = ls /\ Prog.fault = "none"
      BY <2>1, Start, Zenon
    <3> QED
      BY <3>1 DEF ProgInv, HeapInv, CurrentInv
  <2> QED
    BY <2>1, Zenon DEF DecoderMemory
<1> QED
  BY <1>1, BoardInvariant, PTL
=============================================================================
