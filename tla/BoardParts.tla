----------------------------- MODULE BoardParts ------------------------------
(***************************************************************************)
(* What the operators of Board do: lwIP's on the pool of pcbs, the         *)
(* decoder's on its memory, and net.c's callbacks, which preserve Board's  *)
(* invariant.  Lemmas for BoardProofs.                                     *)
(***************************************************************************)
EXTENDS Board, TLAPS

-----------------------------------------------------------------------------
(* The free list.                                                          *)

LEMMA FreePush ==
  ASSUME NEW s \in Seq(Pcbs), NEW p \in Pcbs, IsInjective(s), \A k \in DOMAIN s : s[k] # p
  PROVE  /\ << p >> \o s \in Seq(Pcbs) /\ IsInjective(<< p >> \o s)
         /\ \A q : (\E k \in DOMAIN (<< p >> \o s) : (<< p >> \o s)[k] = q)
                     <=> q = p \/ \E k \in DOMAIN s : s[k] = q
<1> DEFINE t == << p >> \o s
<1>1. << p >> \in Seq(Pcbs) /\ Len(<< p >>) = 1 /\ << p >>[1] = p
  OBVIOUS
<1>2. /\ t \in Seq(Pcbs) /\ Len(t) = Len(s) + 1
      /\ \A k \in 1 .. Len(s) + 1 : t[k] = IF k <= 1 THEN << p >>[k] ELSE s[k - 1]
  BY <1>1
<1>3. Len(s) \in Nat /\ DOMAIN s = 1 .. Len(s) /\ DOMAIN t = 1 .. Len(s) + 1
  BY <1>2
<1>4. t[1] = p /\ \A k \in DOMAIN s : t[k + 1] = s[k]
  BY <1>1, <1>2, <1>3
<1>5. \A k \in DOMAIN t : k # 1 => k - 1 \in DOMAIN s /\ t[k] = s[k - 1]
  BY <1>1, <1>2, <1>3
<1> HIDE DEF t
<1>6. IsInjective(t)
  BY <1>3, <1>4, <1>5 DEF IsInjective
<1>7. \A q : (\E k \in DOMAIN t : t[k] = q) <=> q = p \/ \E k \in DOMAIN s : s[k] = q
  <2>1. 1 \in DOMAIN t /\ \A k \in DOMAIN s : k + 1 \in DOMAIN t
    BY <1>3
  <2> QED
    BY <1>4, <1>5, <2>1
<1> QED
  BY <1>2, <1>6, <1>7, Zenon DEF t

LEMMA TailFacts ==
  ASSUME NEW A, NEW s \in Seq(A), s # << >>
  PROVE  /\ Head(s) \in A /\ Tail(s) \in Seq(A) /\ Len(Tail(s)) = Len(s) - 1
         /\ \A k \in 1 .. Len(Tail(s)) : Tail(s)[k] = s[k + 1]
  OBVIOUS

LEMMA FreePop ==
  ASSUME NEW s \in Seq(Pcbs), s # << >>, IsInjective(s)
  PROVE  /\ Head(s) \in Pcbs /\ Tail(s) \in Seq(Pcbs) /\ IsInjective(Tail(s))
         /\ \A q : (\E k \in DOMAIN s : s[k] = q)
                     <=> q = Head(s) \/ \E k \in DOMAIN Tail(s) : Tail(s)[k] = q
         /\ \A k \in DOMAIN Tail(s) : Tail(s)[k] # Head(s)
<1> DEFINE t == Tail(s)
<1>1. /\ Head(s) \in Pcbs /\ t \in Seq(Pcbs) /\ Len(t) = Len(s) - 1
      /\ \A k \in 1 .. Len(t) : t[k] = s[k + 1]
  BY TailFacts, Zenon
<1>2. Len(s) \in Nat \ {0} /\ DOMAIN s = 1 .. Len(s) /\ DOMAIN t = 1 .. Len(s) - 1
  BY <1>1
<1>3. s[1] = Head(s) /\ 1 \in DOMAIN s
  BY <1>2
<1>4. \A k \in DOMAIN t : k + 1 \in DOMAIN s /\ t[k] = s[k + 1]
  BY <1>1, <1>2
<1>5. \A k \in DOMAIN s : k # 1 => k - 1 \in DOMAIN t /\ s[k] = t[k - 1]
  BY <1>1, <1>2
<1>6. \A k \in DOMAIN t : k \in Nat /\ k # 0
  BY <1>2
<1> HIDE DEF t
<1>7. IsInjective(t)
  BY <1>4, <1>6 DEF IsInjective
<1>8. \A k \in DOMAIN t : t[k] # Head(s)
  BY <1>3, <1>4, <1>6 DEF IsInjective
<1>9. \A q : (\E k \in DOMAIN s : s[k] = q) <=> q = Head(s) \/ \E k \in DOMAIN t : t[k] = q
  BY <1>3, <1>4, <1>5
<1> QED
  BY <1>1, <1>7, <1>8, <1>9 DEF t

LEMMA FreeAll ==
  /\ memp_init \in Seq(Pcbs) /\ IsInjective(memp_init)
  /\ \A p \in Pcbs : \E k \in DOMAIN memp_init : memp_init[k] = p
<1> DEFINE n == Cardinality(Pcbs)
           s == memp_init
<1>1. n \in Nat /\ ExistsBijection(1 .. n, Pcbs)
  BY PcbAssumption
<1>2. s \in Bijection(1 .. n, Pcbs)
  BY <1>1 DEF memp_init, ExistsBijection
<1>3. s \in [1 .. n -> Pcbs] /\ IsInjective(s) /\ s \in Surjection(1 .. n, Pcbs)
  BY <1>2 DEF Bijection, Injection
<1>4. s \in Seq(Pcbs)
  BY <1>1, <1>3
<1> QED
  BY <1>3, <1>4 DEF Surjection

-----------------------------------------------------------------------------
(* lwIP's operations on the pool of pcbs.  Each of them changes one pcb.   *)

Others(U, T, p) ==
  \A q \in Pcbs \ {p} :
    /\ U.pcb[q] = T.pcb[q] /\ (q \in U.active <=> q \in T.active)
    /\ (q \in U.tw <=> q \in T.tw) /\ (IsFree(U, q) <=> IsFree(T, q))

(* A record of the pool is its four fields.                                *)
LEMMA TcpFields ==
  ASSUME NEW T \in TcpType
  PROVE  /\ T.pcb \in [Pcbs -> PcbType] /\ T.free \in Seq(Pcbs)
         /\ T.active \in SUBSET Pcbs /\ T.tw \in SUBSET Pcbs
         /\ T = [pcb |-> T.pcb, free |-> T.free, active |-> T.active, tw |-> T.tw]
  BY DEF TcpType

LEMMA PcbFields ==
  ASSUME NEW r \in PcbType
  PROVE  /\ r.state \in TcpStates /\ r.recv \in Callbacks /\ r.full \in BOOLEAN
         /\ r.unacked \in BOOLEAN /\ r.play \in Nat
         /\ r = [state |-> r.state, recv |-> r.recv, full |-> r.full,
                 unacked |-> r.unacked, play |-> r.play]
  BY DEF PcbType

(* The invariant of the pool after a change of one pcb.                    *)
LEMMA PoolChange ==
  ASSUME NEW n \in Nat, NEW T, NEW U, NEW p \in Pcbs, PoolInv(T, n), Others(U, T, p),
         IsInjective(U.free), Placed(U, p), ~IsFree(U, p) => U.pcb[p].play \in 1 .. n
  PROVE  PoolInv(U, n) /\ \A q \in Pcbs \ {p} : Live(U, q) <=> Live(T, q)
<1>1. \A q \in Pcbs \ {p} : (Placed(U, q) <=> Placed(T, q)) /\ (Live(U, q) <=> Live(T, q))
  BY DEF Others, Placed, Live, Listed
<1>2. \A q \in Pcbs : Placed(U, q)
  BY <1>1, Zenon DEF PoolInv
<1>3. \A q \in Pcbs : ~IsFree(U, q) => U.pcb[q].play \in 1 .. n
  BY Zenon DEF PoolInv, Others
<1> QED
  BY <1>1, <1>2, <1>3, Zenon DEF PoolInv

(* A change of the contents of one pcb.                                    *)
LEMMA PcbChange ==
  ASSUME NEW T \in TcpType, NEW p \in Pcbs, NEW r \in PcbType, NEW U,
         U.pcb = [T.pcb EXCEPT ![p] = r], U.free = T.free, U.active = T.active, U.tw = T.tw
  PROVE  /\ Others(U, T, p) /\ U.pcb[p] = r
         /\ U.pcb \in [Pcbs -> PcbType]
         /\ IsFree(U, p) <=> IsFree(T, p)
  BY TcpFields DEF Others, IsFree

LEMMA SetPcb ==
  ASSUME NEW T \in TcpType, NEW p \in Pcbs, NEW r \in PcbType
  PROVE  LET U == [T EXCEPT !.pcb[p] = r]
         IN  /\ U \in TcpType /\ U.pcb = [T.pcb EXCEPT ![p] = r]
             /\ U.free = T.free /\ U.active = T.active /\ U.tw = T.tw
  BY DEF TcpType

LEMMA UnlistFields ==
  ASSUME NEW T \in TcpType, NEW p \in Pcbs
  PROVE  LET U == Unlist(T, p)
         IN  /\ U \in TcpType /\ U.pcb = T.pcb /\ U.free = T.free
             /\ U.active = T.active \ {p} /\ U.tw = T.tw \ {p}
  BY Zenon DEF TcpType, Unlist

LEMMA MempFreeFields ==
  ASSUME NEW T \in TcpType, NEW p \in Pcbs, << p >> \o T.free \in Seq(Pcbs)
  PROVE  LET U == memp_free(T, p)
             r == [NewPcb(0) EXCEPT !.state = T.pcb[p].state]
         IN  /\ U \in TcpType /\ r \in PcbType
             /\ U.pcb = [T.pcb EXCEPT ![p] = r] /\ U.free = << p >> \o T.free
             /\ U.active = T.active /\ U.tw = T.tw
             /\ U.pcb[p].recv = "tcp_recv_null"
<1> DEFINE r == [NewPcb(0) EXCEPT !.state = T.pcb[p].state]
<1>1. T.pcb[p] \in PcbType /\ T.pcb \in [Pcbs -> PcbType]
  BY TcpFields
<1>2. r \in PcbType /\ r.recv = "tcp_recv_null"
  BY <1>1, Zenon DEF PcbType, NewPcb, TcpStates, Callbacks
<1> HIDE DEF r
<1>3. [T.pcb EXCEPT ![p] = r] \in [Pcbs -> PcbType] /\ [T.pcb EXCEPT ![p] = r][p] = r
  BY <1>1, <1>2
<1>4. /\ [T EXCEPT !.free = << p >> \o @, !.pcb[p] = r] \in TcpType
  BY <1>2, Zenon DEF TcpType
<1>5. /\ [T EXCEPT !.free = << p >> \o @, !.pcb[p] = r].pcb = [T.pcb EXCEPT ![p] = r]
      /\ [T EXCEPT !.free = << p >> \o @, !.pcb[p] = r].free = << p >> \o T.free
      /\ [T EXCEPT !.free = << p >> \o @, !.pcb[p] = r].active = T.active
      /\ [T EXCEPT !.free = << p >> \o @, !.pcb[p] = r].tw = T.tw
  BY DEF TcpType
<1> QED
  BY <1>2, <1>3, <1>4, <1>5 DEF memp_free, r

(* The pool is intact after a pcb p of T has become a pcb of U.            *)
Keeps(U, T, p, n) ==
  /\ U \in TcpType /\ PoolInv(U, n) /\ Others(U, T, p)
  /\ \A q \in Pcbs \ {p} : Live(U, q) <=> Live(T, q)

(* A pcb off the lists is freed.                                           *)
LEMMA Freed ==
  ASSUME NEW n \in Nat, NEW T \in TcpType, PoolInv(T, n), NEW p \in Pcbs, ~IsFree(T, p),
         NEW V \in TcpType, Others(V, T, p), V.free = T.free, p \notin Listed(V)
  PROVE  LET U == memp_free(V, p)
         IN  /\ Keeps(U, T, p, n) /\ IsFree(U, p) /\ ~Live(U, p)
             /\ U.free # << >> /\ Head(U.free) = p /\ U.pcb[p].recv = "tcp_recv_null"
<1> DEFINE U == memp_free(V, p)
           r == [NewPcb(0) EXCEPT !.state = V.pcb[p].state]
<1>1. T.free \in Seq(Pcbs) /\ IsInjective(T.free) /\ \A k \in DOMAIN T.free : T.free[k] # p
  BY TcpFields DEF PoolInv, IsFree
<1>2. /\ << p >> \o T.free \in Seq(Pcbs) /\ IsInjective(<< p >> \o T.free)
      /\ \A q : (\E k \in DOMAIN (<< p >> \o T.free) : (<< p >> \o T.free)[k] = q)
                  <=> q = p \/ \E k \in DOMAIN T.free : T.free[k] = q
  BY <1>1, FreePush, Zenon
<1>3. /\ U \in TcpType /\ r \in PcbType
      /\ U.pcb = [V.pcb EXCEPT ![p] = r] /\ U.free = << p >> \o T.free
      /\ U.active = V.active /\ U.tw = V.tw /\ U.pcb[p].recv = "tcp_recv_null"
  <2>1. << p >> \o V.free \in Seq(Pcbs) /\ << p >> \o V.free = << p >> \o T.free
    BY <1>2
  <2> QED
    BY <2>1, MempFreeFields, Zenon
<1> HIDE DEF U, r
<1>4. IsInjective(U.free) /\ \A q : IsFree(U, q) <=> q = p \/ IsFree(T, q)
  BY <1>2, <1>3, Zenon DEF IsFree
<1>5. V.pcb \in [Pcbs -> PcbType]
  BY TcpFields
<1>6. Others(U, T, p)
  BY <1>3, <1>4, <1>5 DEF Others
<1>7. Placed(U, p) /\ ~Live(U, p)
  BY <1>3, <1>4 DEF Placed, Live, Listed
<1>8. PoolInv(U, n) /\ \A q \in Pcbs \ {p} : Live(U, q) <=> Live(T, q)
  BY <1>4, <1>6, <1>7, PoolChange
<1>9. U.free # << >> /\ Head(U.free) = p
  BY <1>1, <1>3
<1> QED
  BY <1>3, <1>4, <1>6, <1>7, <1>8, <1>9 DEF U, Keeps

LEMMA UnlistOthers ==
  ASSUME NEW T \in TcpType, NEW p \in Pcbs
  PROVE  Others(Unlist(T, p), T, p) /\ p \notin Listed(Unlist(T, p))
  BY UnlistFields DEF Others, Listed, IsFree

LEMMA PcbRemove ==
  ASSUME NEW T \in TcpType, NEW p \in Pcbs
  PROVE  LET V == tcp_pcb_remove(T, p)
         IN  /\ V \in TcpType /\ Others(V, T, p) /\ V.free = T.free /\ p \notin Listed(V)
             /\ V.pcb[p].state = "CLOSED"
<1> DEFINE W == Unlist(T, p)
           r == [T.pcb[p] EXCEPT !.state = "CLOSED", !.unacked = FALSE]
           V == [W EXCEPT !.pcb[p] = r]
<1>1. T.pcb[p] \in PcbType
  BY TcpFields
<1>2. r \in PcbType /\ r.state = "CLOSED"
  BY <1>1, Zenon DEF PcbType, TcpStates
<1>3. /\ W \in TcpType /\ W.pcb = T.pcb /\ W.free = T.free /\ Others(W, T, p)
      /\ p \notin Listed(W)
  BY UnlistFields, UnlistOthers
<1> HIDE DEF W, r
<1>4. /\ V \in TcpType /\ V.pcb = [W.pcb EXCEPT ![p] = r]
      /\ V.free = W.free /\ V.active = W.active /\ V.tw = W.tw
  BY <1>2, <1>3, SetPcb
<1>5. tcp_pcb_remove(T, p) = V
  BY <1>3, Zenon DEF tcp_pcb_remove, W, r
<1> HIDE DEF V
<1>6. Others(V, W, p) /\ V.pcb[p] = r
  BY <1>2, <1>3, <1>4, PcbChange
<1>7. Others(V, T, p) /\ p \notin Listed(V)
  BY <1>3, <1>4, <1>6 DEF Others, Listed
<1> QED
  BY <1>2, <1>3, <1>4, <1>5, <1>6, <1>7, Zenon

LEMMA TimeWaits ==
  ASSUME NEW n \in Nat, NEW T \in TcpType, PoolInv(T, n), NEW p \in Pcbs, ~IsFree(T, p)
  PROVE  LET U == TimeWait(T, p)
         IN  /\ Keeps(U, T, p, n) /\ ~Live(U, p) /\ ~IsFree(U, p)
             /\ U.pcb[p].recv = T.pcb[p].recv /\ U.pcb[p].play = T.pcb[p].play
<1> DEFINE W == Unlist(T, p)
           r == [T.pcb[p] EXCEPT !.state = "TIME_WAIT", !.unacked = FALSE]
           U == [W EXCEPT !.pcb[p] = r, !.tw = @ \cup {p}]
<1>1. T.pcb[p] \in PcbType
  BY TcpFields
<1>2. /\ r \in PcbType /\ r.state = "TIME_WAIT" /\ r.recv = T.pcb[p].recv
      /\ r.play = T.pcb[p].play
  BY <1>1, Zenon DEF PcbType, TcpStates
<1>3. /\ W \in TcpType /\ W.pcb = T.pcb /\ W.free = T.free
      /\ W.active = T.active \ {p} /\ W.tw = T.tw \ {p}
  BY UnlistFields
<1>4. TimeWait(T, p) = U
  BY <1>3, Zenon DEF TimeWait
<1> HIDE DEF W, r
<1>5. U \in TcpType
  BY <1>2, <1>3, Zenon DEF TcpType
<1>6. /\ U.pcb = [W.pcb EXCEPT ![p] = r] /\ U.free = W.free
      /\ U.active = W.active /\ U.tw = W.tw \cup {p}
  BY <1>3 DEF TcpType
<1>7. W.pcb \in [Pcbs -> PcbType]
  BY <1>3, TcpFields
<1> HIDE DEF U
<1>8. /\ Others(U, T, p) /\ U.pcb[p] = r /\ p \in U.tw \ U.active /\ ~IsFree(U, p)
      /\ IsInjective(U.free)
  BY <1>3, <1>6, <1>7 DEF Others, IsFree, PoolInv
<1>9. Placed(U, p) /\ ~Live(U, p) /\ U.pcb[p].play \in 1 .. n
  BY <1>2, <1>8 DEF Placed, Live, Listed, PoolInv
<1>10. PoolInv(U, n) /\ \A q \in Pcbs \ {p} : Live(U, q) <=> Live(T, q)
  BY <1>8, <1>9, PoolChange
<1> QED
  BY <1>2, <1>4, <1>5, <1>8, <1>9, <1>10 DEF Keeps

(* A pcb changes its state and keeps its list.                             *)
LEMMA PcbGoes ==
  ASSUME NEW n \in Nat, NEW T \in TcpType, PoolInv(T, n), NEW p \in T.active,
         NEW r \in PcbType, r.state \notin {"CLOSED", "TIME_WAIT", "SYN_SENT"},
         r.play = T.pcb[p].play
  PROVE  LET U == [T EXCEPT !.pcb[p] = r]
         IN  /\ Keeps(U, T, p, n) /\ ~IsFree(U, p) /\ p \in U.active
             /\ Live(U, p) => r.recv \in Feeding
             /\ U.pcb[p] = r
<1> DEFINE U == [T EXCEPT !.pcb[p] = r]
<1>1. p \in Pcbs /\ T.pcb[p] \in PcbType
  BY TcpFields
<1>2. /\ U \in TcpType /\ U.pcb = [T.pcb EXCEPT ![p] = r]
      /\ U.free = T.free /\ U.active = T.active /\ U.tw = T.tw
  BY <1>1, SetPcb
<1> HIDE DEF U
<1>3. Others(U, T, p) /\ U.pcb[p] = r /\ (IsFree(U, p) <=> IsFree(T, p))
  BY <1>1, <1>2, PcbChange
<1>4. ~IsFree(T, p) /\ p \notin T.tw /\ IsInjective(T.free) /\ T.pcb[p].play \in 1 .. n
  BY <1>1 DEF PoolInv, Placed, Listed
<1>5. /\ Placed(U, p) /\ (Live(U, p) => r.recv \in Feeding)
      /\ U.pcb[p].play \in 1 .. n /\ IsInjective(U.free)
  BY <1>2, <1>3, <1>4 DEF Placed, Live, Listed
<1>6. PoolInv(U, n) /\ \A q \in Pcbs \ {p} : Live(U, q) <=> Live(T, q)
  BY <1>1, <1>3, <1>5, PoolChange
<1> QED
  BY <1>2, <1>3, <1>4, <1>5, <1>6, Zenon DEF Keeps, U

(* A pcb that is allocated can be removed from its list and freed.         *)
LEMMA RemoveFree ==
  ASSUME NEW n \in Nat, NEW T \in TcpType, PoolInv(T, n), NEW p \in Pcbs, ~IsFree(T, p)
  PROVE  LET U == memp_free(tcp_pcb_remove(T, p), p)
         IN  /\ Keeps(U, T, p, n) /\ IsFree(U, p) /\ ~Live(U, p)
             /\ U.free # << >> /\ Head(U.free) = p /\ U.pcb[p].recv = "tcp_recv_null"
<1> DEFINE V == tcp_pcb_remove(T, p)
<1>1. V \in TcpType /\ Others(V, T, p) /\ V.free = T.free /\ p \notin Listed(V)
  BY PcbRemove, Zenon
<1> HIDE DEF V
<1>2. LET U == memp_free(V, p)
      IN  /\ Keeps(U, T, p, n) /\ IsFree(U, p) /\ ~Live(U, p)
          /\ U.free # << >> /\ Head(U.free) = p /\ U.pcb[p].recv = "tcp_recv_null"
  BY <1>1, Freed
<1> QED
  BY <1>2 DEF V

LEMMA UnlistFree ==
  ASSUME NEW n \in Nat, NEW T \in TcpType, PoolInv(T, n), NEW p \in Pcbs, ~IsFree(T, p)
  PROVE  LET U == memp_free(Unlist(T, p), p)
         IN  /\ Keeps(U, T, p, n) /\ IsFree(U, p) /\ ~Live(U, p)
             /\ U.free # << >> /\ Head(U.free) = p /\ U.pcb[p].recv = "tcp_recv_null"
<1> DEFINE V == Unlist(T, p)
<1>1. V \in TcpType /\ Others(V, T, p) /\ V.free = T.free /\ p \notin Listed(V)
  BY UnlistFields, UnlistOthers, Zenon
<1> HIDE DEF V
<1>2. LET U == memp_free(V, p)
      IN  /\ Keeps(U, T, p, n) /\ IsFree(U, p) /\ ~Live(U, p)
          /\ U.free # << >> /\ Head(U.free) = p /\ U.pcb[p].recv = "tcp_recv_null"
  BY <1>1, Freed
<1> QED
  BY <1>2 DEF V

LEMMA OrphanFree ==
  ASSUME NEW n \in Nat, NEW T \in TcpType, PoolInv(T, n), NEW p \in Pcbs, ~IsFree(T, p),
         T.pcb[p].state = "CLOSED"
  PROVE  LET U == memp_free(T, p)
         IN  /\ Keeps(U, T, p, n) /\ IsFree(U, p) /\ ~Live(U, p)
             /\ U.free # << >> /\ Head(U.free) = p /\ U.pcb[p].recv = "tcp_recv_null"
<1>1. p \notin Listed(T)
  BY DEF PoolInv, Placed
<1>2. Others(T, T, p)
  BY Zenon DEF Others
<1> QED
  BY <1>1, <1>2, Freed

LEMMA Abandon ==
  ASSUME NEW n \in Nat, NEW T \in TcpType, PoolInv(T, n), NEW p \in Pcbs, ~IsFree(T, p)
  PROVE  LET U == tcp_abandon(T, p)
         IN  /\ Keeps(U, T, p, n) /\ IsFree(U, p) /\ ~Live(U, p)
             /\ U.free # << >> /\ Head(U.free) = p
<1>1. CASE T.pcb[p].state = "CLOSED"
  BY <1>1, OrphanFree, Zenon DEF tcp_abandon
<1>2. CASE T.pcb[p].state # "CLOSED"
  BY <1>2, RemoveFree, Zenon DEF tcp_abandon
<1> QED
  BY <1>1, <1>2

(* tcp_close of a pcb whose callback has been cleared, or is lwIP's own:   *)
(* it is never a source of data afterwards.                                *)
LEMMA Close ==
  ASSUME NEW n \in Nat, NEW T \in TcpType, PoolInv(T, n), NEW p \in Pcbs,
         T.pcb[p].recv \notin Feeding,
         ~IsFree(T, p) \/ T.pcb[p].state \notin Closable
  PROVE  LET U == tcp_close(T, p)
         IN  Keeps(U, T, p, n) /\ ~Live(U, p)
<1> DEFINE pcb == T.pcb[p]
           U == tcp_close(T, p)
           Fin(state) == [T EXCEPT !.pcb[p] = [pcb EXCEPT !.state = state, !.unacked = TRUE]]
<1>1. pcb \in PcbType /\ pcb.full \in BOOLEAN /\ pcb.state \in TcpStates
  BY TcpFields, PcbFields
<1>2. CASE pcb.state = "ESTABLISHED" /\ ~pcb.full
  <2>1. U = TimeWait(T, p)
    BY <1>2, Zenon DEF tcp_close
  <2>2. ~IsFree(T, p)
    BY <1>2, Zenon DEF Closable
  <2> QED
    BY <2>1, <2>2, TimeWaits, Zenon
<1>3. CASE pcb.state = "CLOSE_WAIT" /\ ~pcb.full
  <2>1. U = memp_free(Unlist(T, p), p)
    BY <1>3, Zenon DEF tcp_close
  <2>2. ~IsFree(T, p)
    BY <1>3, Zenon DEF Closable
  <2> QED
    BY <2>1, <2>2, UnlistFree, Zenon
<1>4. CASE pcb.state = "CLOSED"
  <2>1. U = memp_free(T, p)
    BY <1>4, Zenon DEF tcp_close
  <2>2. ~IsFree(T, p)
    BY <1>4, Zenon DEF Closable
  <2> QED
    BY <1>4, <2>1, <2>2, OrphanFree, Zenon
<1>5. CASE pcb.state = "SYN_SENT"
  <2>1. U = memp_free(tcp_pcb_remove(T, p), p)
    BY <1>5, Zenon DEF tcp_close
  <2>2. ~IsFree(T, p)
    BY <1>5, Zenon DEF Closable
  <2> QED
    BY <2>1, <2>2, RemoveFree, Zenon
<1>6. ASSUME NEW s \in {"FIN_WAIT_1", "LAST_ACK"}, U = Fin(s),
             pcb.state \in {"ESTABLISHED", "CLOSE_WAIT"}
      PROVE  Keeps(U, T, p, n) /\ ~Live(U, p)
  <2>1. ~IsFree(T, p)
    BY <1>6, Zenon DEF Closable
  <2>2. p \in T.active
    BY <1>6, <2>1 DEF PoolInv, Placed, Listed
  <2> DEFINE r == [pcb EXCEPT !.state = s, !.unacked = TRUE]
  <2>3. r \in PcbType /\ r.state = s /\ r.recv = pcb.recv /\ r.play = pcb.play
    BY <1>1, Zenon DEF PcbType, TcpStates
  <2> HIDE DEF r
  <2>4. Keeps([T EXCEPT !.pcb[p] = r], T, p, n) /\ ~Live([T EXCEPT !.pcb[p] = r], p)
    BY <2>2, <2>3, PcbGoes
  <2> QED
    BY <1>6, <2>4, Zenon DEF r
<1>7. CASE pcb.state = "ESTABLISHED" /\ pcb.full
  BY <1>6, <1>7, Zenon DEF tcp_close
<1>8. CASE pcb.state = "CLOSE_WAIT" /\ pcb.full
  BY <1>6, <1>8, Zenon DEF tcp_close
<1>9. CASE pcb.state \notin Closable
  <2>1. U = T
    BY <1>9, Zenon DEF tcp_close, Closable
  <2>2. ~Live(T, p)
    BY <1>9 DEF Live, PoolInv, Placed, Listed, Closable
  <2>3. Others(T, T, p)
    BY Zenon DEF Others
  <2> QED
    BY <2>1, <2>2, <2>3, Zenon DEF Keeps
<1> QED
  BY <1>1, <1>2, <1>3, <1>4, <1>5, <1>7, <1>8, <1>9, Zenon DEF Closable

(* Two changes of the same pcb.                                            *)
LEMMA KeepsTwice ==
  ASSUME NEW n, NEW T, NEW U, NEW V, NEW p, Keeps(U, T, p, n), Keeps(V, U, p, n)
  PROVE  Keeps(V, T, p, n)
<1>1. Others(V, T, p)
  BY DEF Keeps, Others
<1> QED
  BY <1>1, Zenon DEF Keeps

(* A pcb on a list is not free.                                            *)
LEMMA ListedTaken ==
  ASSUME NEW n, NEW T \in TcpType, PoolInv(T, n), NEW p \in Listed(T)
  PROVE  p \in Pcbs /\ ~IsFree(T, p)
<1>1. p \in Pcbs
  BY TcpFields DEF Listed
<1> QED
  BY <1>1, Zenon DEF PoolInv, Placed, Listed

LEMMA Process ==
  ASSUME NEW n \in Nat, NEW T \in TcpType, PoolInv(T, n), NEW p \in T.active,
         NEW seg \in Segments, MaySend(T, p, seg)
  PROVE  LET U == tcp_process(T, p, seg)
         IN  /\ Keeps(U, T, p, n) /\ (Live(U, p) => T.pcb[p].recv \in Feeding)
             /\ seg.data # "none" \/ seg.fin => ~IsFree(U, p)
             /\ ~IsFree(U, p) =>
                  U.pcb[p].recv = T.pcb[p].recv /\ U.pcb[p].play = T.pcb[p].play
<1> DEFINE state == T.pcb[p].state
           U == tcp_process(T, p, seg)
           To(s) == [T EXCEPT !.pcb[p] = [T.pcb[p] EXCEPT !.state = s,
                                            !.unacked = T.pcb[p].unacked /\ ~seg.ack]]
           Good(V) == /\ Keeps(V, T, p, n) /\ (Live(V, p) => T.pcb[p].recv \in Feeding)
                      /\ seg.data # "none" \/ seg.fin => ~IsFree(V, p)
                      /\ ~IsFree(V, p) =>
                           V.pcb[p].recv = T.pcb[p].recv /\ V.pcb[p].play = T.pcb[p].play
<1>1. p \in Pcbs /\ ~IsFree(T, p) /\ T.pcb[p].unacked \in BOOLEAN
  <2>1. p \in Listed(T) /\ T.pcb \in [Pcbs -> PcbType]
    BY TcpFields DEF Listed
  <2> QED
    BY <2>1, ListedTaken, PcbFields
<1>2. Good(TimeWait(T, p))
  BY <1>1, TimeWaits, Zenon
<1>3. ASSUME NEW s \in TcpStates \ {"CLOSED", "TIME_WAIT", "SYN_SENT"}
      PROVE  Good(To(s))
  <2> DEFINE r == [T.pcb[p] EXCEPT !.state = s, !.unacked = T.pcb[p].unacked /\ ~seg.ack]
             V == [T EXCEPT !.pcb[p] = r]
  <2>1. T.pcb[p] \in PcbType /\ (T.pcb[p].unacked /\ ~seg.ack) \in BOOLEAN
    BY <1>1, TcpFields
  <2>2. r \in PcbType /\ r.state = s /\ r.recv = T.pcb[p].recv /\ r.play = T.pcb[p].play
    BY <2>1, Zenon DEF PcbType
  <2>3. To(s) = V
    BY Zenon
  <2> HIDE DEF r, To
  <2>4. /\ Keeps(V, T, p, n) /\ ~IsFree(V, p) /\ V.pcb[p] = r
        /\ Live(V, p) => r.recv \in Feeding
    BY <2>2, PcbGoes
  <2> HIDE DEF V
  <2>5. Good(V)
    BY <2>2, <2>4
  <2> HIDE DEF Good
  <2> QED
    BY <2>3, <2>5
<1>4. CASE state = "LAST_ACK" /\ seg.ack
  <2>1. U = memp_free(tcp_pcb_remove(T, p), p)
    BY <1>4, Zenon DEF tcp_process
  <2>2. seg.data = "none" /\ ~seg.fin
    BY <1>4, Zenon DEF MaySend
  <2> QED
    BY <1>1, <2>1, <2>2, RemoveFree, Zenon
<1>5. CASE ~(state = "LAST_ACK" /\ seg.ack)
  <2>1. \/ U = TimeWait(T, p)
        \/ \E s \in {state, "CLOSE_WAIT", "CLOSING", "FIN_WAIT_2"} : U = To(s)
    BY <1>5, Zenon DEF tcp_process
  <2>2. {state, "CLOSE_WAIT", "CLOSING", "FIN_WAIT_2"}
          \subseteq TcpStates \ {"CLOSED", "TIME_WAIT", "SYN_SENT"}
    BY DEF MaySend, TcpStates
  <2> HIDE DEF Good, To, U
  <2>3. Good(U)
    BY <1>2, <1>3, <2>1, <2>2
  <2> QED
    BY <2>3 DEF Good, U
<1> QED
  BY <1>4, <1>5

(* A new pcb is taken off the free list.                                   *)
LEMMA Pop ==
  ASSUME NEW n \in Nat, NEW T \in TcpType, PoolInv(T, n), T.free # << >>, NEW play \in 1 .. n
  PROVE  LET p == Head(T.free)
             U == [T EXCEPT !.free = Tail(@), !.pcb[p] = NewPcb(play)]
         IN  /\ p \in Pcbs /\ Keeps(U, T, p, n) /\ ~IsFree(U, p) /\ p \notin Listed(U)
             /\ U.pcb[p] = NewPcb(play)
<1> DEFINE p == Head(T.free)
           r == NewPcb(play)
           t == Tail(T.free)
           U == [T EXCEPT !.free = Tail(@), !.pcb[p] = r]
<1>1. T.free \in Seq(Pcbs) /\ T.pcb \in [Pcbs -> PcbType] /\ IsInjective(T.free)
  BY TcpFields DEF PoolInv
<1>2. /\ p \in Pcbs /\ t \in Seq(Pcbs) /\ IsInjective(t)
      /\ \A q : (\E k \in DOMAIN T.free : T.free[k] = q) <=> q = p \/ \E k \in DOMAIN t : t[k] = q
      /\ \A k \in DOMAIN t : t[k] # p
  BY <1>1, FreePop, Zenon
<1>3. r \in PcbType /\ r.state = "CLOSED" /\ r.play = play
  BY DEF NewPcb, PcbType, TcpStates, Callbacks
<1>4. U = [T EXCEPT !.free = t, !.pcb[p] = r]
  BY Zenon
<1> HIDE DEF p, r, t
<1>5. U \in TcpType
  BY <1>2, <1>3, <1>4, Zenon DEF TcpType
<1>6. U.pcb = [T.pcb EXCEPT ![p] = r] /\ U.free = t /\ U.active = T.active /\ U.tw = T.tw
  BY <1>4, Zenon DEF TcpType
<1> HIDE DEF U
<1>7. ~IsFree(U, p) /\ IsFree(T, p) /\ IsInjective(U.free)
      /\ \A q : q # p => (IsFree(U, q) <=> IsFree(T, q))
  BY <1>2, <1>6, Zenon DEF IsFree
<1>8. Others(U, T, p) /\ U.pcb[p] = r
  BY <1>1, <1>2, <1>6, <1>7 DEF Others
<1>9. p \notin Listed(T)
  BY <1>2, <1>7 DEF PoolInv, Placed, Listed
<1>10. Placed(U, p) /\ p \notin Listed(U) /\ U.pcb[p].play \in 1 .. n
  BY <1>3, <1>6, <1>7, <1>8, <1>9 DEF Placed, Listed
<1>11. PoolInv(U, n) /\ \A q \in Pcbs \ {p} : Live(U, q) <=> Live(T, q)
  BY <1>2, <1>7, <1>8, <1>10, PoolChange
<1> QED
  BY <1>2, <1>5, <1>7, <1>8, <1>10, <1>11, Zenon DEF Keeps, U, p, r

(* tcp_new, which may have to abandon a connection first.                  *)
LEMMA New ==
  ASSUME NEW n \in Nat, NEW T \in TcpType, PoolInv(T, n), NEW play \in 1 .. n,
         NEW new \in tcp_new(T, play)
  PROVE  \/ new.pcb = NULL /\ new.T = T
         \/ /\ new.pcb \in Pcbs /\ Keeps(new.T, T, new.pcb, n)
            /\ ~IsFree(new.T, new.pcb) /\ new.pcb \notin Listed(new.T)
            /\ new.T.pcb[new.pcb] = NewPcb(play)
<1>1. CASE Room(T) = {}
  BY <1>1 DEF tcp_new
<1>2. CASE Room(T) # {}
  <2> DEFINE After(R) == [R EXCEPT !.free = Tail(@), !.pcb[Head(R.free)] = NewPcb(play)]
  <2>1. PICK R \in Room(T) : new = [T |-> After(R), pcb |-> Head(R.free)]
    BY <1>2, Zenon DEF tcp_new
  <2>2. R \in TcpType /\ PoolInv(R, n) /\ R.free # << >>
        /\ (R = T \/ Keeps(R, T, Head(R.free), n))
    <3>1. CASE T.free # << >>
      BY <3>1 DEF Room
    <3>2. CASE T.free = << >>
      <4>1. PICK v \in Victims(T) : R = tcp_abandon(T, v)
        BY <3>2, Zenon DEF Room
      <4>2. v \in Listed(T)
        BY DEF Victims, InState, Listed
      <4>3. v \in Pcbs /\ ~IsFree(T, v)
        BY <4>2, ListedTaken, Zenon
      <4> DEFINE V == tcp_abandon(T, v)
      <4>4. Keeps(V, T, v, n) /\ V.free # << >> /\ Head(V.free) = v
        BY <4>3, Abandon, Zenon
      <4> HIDE DEF V
      <4> QED
        BY <4>1, <4>4 DEF Keeps, V
    <3> QED
      BY <3>1, <3>2
  <2>3. /\ Head(R.free) \in Pcbs /\ Keeps(After(R), R, Head(R.free), n)
        /\ ~IsFree(After(R), Head(R.free)) /\ Head(R.free) \notin Listed(After(R))
        /\ After(R).pcb[Head(R.free)] = NewPcb(play)
    BY <2>2, Pop, Zenon
  <2> HIDE DEF After
  <2>4. Keeps(After(R), T, Head(R.free), n)
    BY <2>2, <2>3, KeepsTwice, Zenon
  <2>5. new.T = After(R) /\ new.pcb = Head(R.free)
    BY <2>1
  <2> QED
    BY <2>3, <2>4, <2>5, Zenon
<1> QED
  BY <1>1, <1>2

LEMMA Connect ==
  ASSUME NEW n \in Nat, NEW T \in TcpType, PoolInv(T, n), NEW p \in Pcbs, ~IsFree(T, p),
         p \notin Listed(T), NEW routed
  PROVE  LET U == tcp_connect(T, p, routed)
         IN  Keeps(U, T, p, n) /\ U.pcb[p].play = T.pcb[p].play
<1> DEFINE r == [T.pcb[p] EXCEPT !.state = "SYN_SENT", !.full = TRUE, !.unacked = TRUE]
           U == [T EXCEPT !.pcb[p] = r, !.active = @ \cup {p}]
<1>1. T.pcb[p] \in PcbType /\ T.pcb \in [Pcbs -> PcbType] /\ T.pcb[p].play \in 1 .. n
  BY TcpFields DEF PoolInv
<1>2. r \in PcbType /\ r.state = "SYN_SENT" /\ r.play = T.pcb[p].play
  BY <1>1, Zenon DEF PcbType, TcpStates
<1>3. CASE ~routed
  <2>1. tcp_connect(T, p, routed) = T /\ Others(T, T, p)
    BY <1>3, Zenon DEF tcp_connect, Others
  <2> QED
    BY <2>1, Zenon DEF Keeps
<1>4. CASE routed
  <2>1. tcp_connect(T, p, routed) = U
    BY <1>4, Zenon DEF tcp_connect
  <2> HIDE DEF r
  <2>2. U \in TcpType
    BY <1>2, Zenon DEF TcpType
  <2>3. /\ U.pcb = [T.pcb EXCEPT ![p] = r] /\ U.free = T.free
        /\ U.active = T.active \cup {p} /\ U.tw = T.tw
    BY DEF TcpType
  <2> HIDE DEF U
  <2>4. Others(U, T, p) /\ U.pcb[p] = r /\ ~IsFree(U, p) /\ IsInjective(U.free)
    BY <1>1, <2>3 DEF Others, IsFree, PoolInv
  <2>5. Placed(U, p) /\ U.pcb[p].play \in 1 .. n
    BY <1>1, <1>2, <2>3, <2>4 DEF Placed, Listed
  <2>6. PoolInv(U, n) /\ \A q \in Pcbs \ {p} : Live(U, q) <=> Live(T, q)
    BY <2>4, <2>5, PoolChange
  <2> QED
    BY <1>2, <2>1, <2>2, <2>4, <2>6, Zenon DEF Keeps
<1> QED
  BY <1>3, <1>4

(* The contents of a pcb change, but not its state.                        *)
LEMMA PcbStays ==
  ASSUME NEW n \in Nat, NEW T \in TcpType, PoolInv(T, n), NEW p \in Pcbs, NEW r \in PcbType,
         r.state = T.pcb[p].state, r.play = T.pcb[p].play
  PROVE  LET U == [T EXCEPT !.pcb[p] = r]
         IN  /\ Keeps(U, T, p, n) /\ U.pcb[p] = r
             /\ U.active = T.active /\ U.tw = T.tw /\ U.free = T.free
<1> DEFINE U == [T EXCEPT !.pcb[p] = r]
<1>1. /\ U \in TcpType /\ U.pcb = [T.pcb EXCEPT ![p] = r]
      /\ U.free = T.free /\ U.active = T.active /\ U.tw = T.tw
  BY SetPcb
<1> HIDE DEF U
<1>2. Others(U, T, p) /\ U.pcb[p] = r /\ (IsFree(U, p) <=> IsFree(T, p))
  BY <1>1, PcbChange
<1>3. /\ Placed(U, p) /\ IsInjective(U.free)
      /\ ~IsFree(U, p) => U.pcb[p].play \in 1 .. n
  BY <1>1, <1>2 DEF PoolInv, Placed, Listed
<1>4. PoolInv(U, n) /\ \A q \in Pcbs \ {p} : Live(U, q) <=> Live(T, q)
  BY <1>2, <1>3, PoolChange
<1> QED
  BY <1>1, <1>2, <1>4, Zenon DEF Keeps, U

-----------------------------------------------------------------------------
(* The decoder's memory.                                                   *)

LEMMA HeapFields ==
  ASSUME NEW H \in HeapType
  PROVE  /\ DOMAIN H.slots = 1 .. 2 /\ Len(H.slots) = 2 /\ H.used_slots \in Nat
         /\ \A k \in 1 .. 2 : H.slots[k].allocated \in Nat /\ H.slots[k].size \in Nat
         /\ UsedSlots(H) \subseteq 1 .. 2
<1>1. /\ DOMAIN H.slots = 1 .. 2 /\ H.used_slots \in Nat
      /\ \A k \in 1 .. 2 : H.slots[k].allocated \in Nat /\ H.slots[k].size \in Nat
  BY DEF HeapType
<1>2. Len(H.slots) = 2
  <2>1. H.slots \in [1 .. 2 -> [size : Nat, allocated : Nat]]
    BY Zenon DEF HeapType
  <2> QED
    BY <2>1
<1>3. UsedSlots(H) \subseteq 1 .. 2
  BY <1>1 DEF UsedSlots
<1> QED
  BY <1>1, <1>2, <1>3

(* One slot changes hands.                                                 *)
LEMMA SlotChange ==
  ASSUME NEW H \in HeapType, NEW U \in HeapType, NEW k \in 1 .. 2,
         \A m \in (1 .. 2) \ {k} : U.slots[m].allocated = H.slots[m].allocated
  PROVE  /\ U.slots[k].allocated = 0 => UsedSlots(U) = UsedSlots(H) \ {k}
         /\ U.slots[k].allocated # 0 => UsedSlots(U) = UsedSlots(H) \cup {k}
<1>1. DOMAIN H.slots = 1 .. 2 /\ DOMAIN U.slots = 1 .. 2
  BY HeapFields
<1> QED
  BY <1>1 DEF UsedSlots

LEMMA SaFree ==
  ASSUME NEW H \in HeapType, Counted(H), NEW ptr \in UsedSlots(H) \cup {NULL_PTR}
  PROVE  LET U == sa_free(H, ptr)
         IN  U \in HeapType /\ Counted(U) /\ UsedSlots(U) = UsedSlots(H) \ {ptr}
<1>1. CASE ptr = NULL_PTR
  <2>1. UsedSlots(H) \ {ptr} = UsedSlots(H)
    BY <1>1, HeapFields DEF NULL_PTR
  <2> QED
    BY <1>1, <2>1 DEF sa_free
<1>2. CASE ptr # NULL_PTR
  <2> DEFINE u == (H.used_slots + 65535) % 65536
             t == [H.slots EXCEPT ![ptr].allocated = 0]
             U == [slots |-> t, used_slots |-> u]
  <2>1. sa_free(H, ptr) = U
    BY <1>2 DEF sa_free
  <2>2. ptr \in UsedSlots(H) /\ ptr \in 1 .. 2
    BY <1>2, HeapFields
  <2>4. H.used_slots \in 1 .. 2
    BY <2>2 DEF Counted, Held
  <2>5. u = H.used_slots - 1 /\ u \in Nat
    BY <2>4
  <2> HIDE DEF u
  <2>6. H.slots \in [1 .. 2 -> [size : Nat, allocated : Nat]]
    BY DEF HeapType
  <2>7. /\ t \in [1 .. 2 -> [size : Nat, allocated : Nat]] /\ t[ptr].allocated = 0
        /\ \A m \in (1 .. 2) \ {ptr} : t[m].allocated = H.slots[m].allocated
    BY <2>2, <2>6
  <2> HIDE DEF t
  <2>8. U \in HeapType /\ U.used_slots = u /\ U.slots = t
    BY <2>5, <2>7 DEF HeapType
  <2> HIDE DEF U
  <2>9. UsedSlots(U) = UsedSlots(H) \ {ptr}
    BY <2>2, <2>7, <2>8, SlotChange
  <2> HIDE DEF U
  <2> QED
    BY <2>1, <2>2, <2>5, <2>8, <2>9 DEF Counted, Held
<1> QED
  BY <1>1, <1>2

LEMMA SaAlloc ==
  ASSUME NEW H \in HeapType, Counted(H), NEW m \in Nat \ {0}
  PROVE  LET U == sa_alloc(H, m)
             k == sa_slot(H, m)
         IN  /\ k \in 0 .. 2 /\ k \notin UsedSlots(H) /\ U \in HeapType /\ Counted(U)
             /\ UsedSlots(U) = UsedSlots(H) \cup ({k} \ {NULL_PTR})
<1> DEFINE k == sa_slot(H, m)
<1>1. k = NULL_PTR \/ k \in Fitting(H, m)
  <2>1. Fitting(H, m) # {} =>
          \E x \in Fitting(H, m) : \A y \in Fitting(H, m) : x <= y
    <3>1. Fitting(H, m) \subseteq {1, 2}
      BY HeapFields DEF Fitting
    <3> QED
      BY <3>1
  <2> DEFINE P(x) == \A y \in Fitting(H, m) : x <= y
  <2>2. Fitting(H, m) # {} => (CHOOSE x \in Fitting(H, m) : P(x)) \in Fitting(H, m)
    BY <2>1, Zenon
  <2> QED
    BY <2>2, Zenon DEF sa_slot
<1>2. k \in Fitting(H, m) => k \in 1 .. 2 /\ k \notin UsedSlots(H)
  BY HeapFields, Zenon DEF Fitting, UsedSlots
<1>3. NULL_PTR \notin UsedSlots(H) /\ NULL_PTR = 0
  BY HeapFields DEF NULL_PTR
<1> HIDE DEF k
<1>4. CASE k = NULL_PTR
  BY <1>3, <1>4 DEF sa_alloc, k
<1>5. CASE k # NULL_PTR
  <2> DEFINE u == H.used_slots + 1
             t == [H.slots EXCEPT ![k].allocated = m]
             U == [slots |-> t, used_slots |-> u]
  <2>1. sa_alloc(H, m) = U
    BY <1>5 DEF sa_alloc, k
  <2>2. k \in 1 .. 2 /\ k \notin UsedSlots(H)
    BY <1>1, <1>2, <1>5
  <2>3. u \in Nat /\ u = H.used_slots + 1
    BY HeapFields
  <2> HIDE DEF u
  <2>4. U \in HeapType /\ U.used_slots = u /\ UsedSlots(U) = UsedSlots(H) \cup {k}
    <3>1. H.slots \in [1 .. 2 -> [size : Nat, allocated : Nat]]
      BY DEF HeapType
    <3>2. /\ t \in [1 .. 2 -> [size : Nat, allocated : Nat]] /\ t[k].allocated = m
          /\ \A x \in (1 .. 2) \ {k} : t[x].allocated = H.slots[x].allocated
      BY <2>2, <3>1
    <3> HIDE DEF t
    <3>3. U \in HeapType /\ U.used_slots = u /\ U.slots = t
      BY <2>3, <3>2 DEF HeapType
    <3> HIDE DEF U
    <3> QED
      BY <2>2, <3>2, <3>3, SlotChange
  <2> HIDE DEF U
  <2>5. Counted(U)
    BY <2>2, <2>3, <2>4 DEF Counted, Held
  <2> QED
    BY <1>3, <2>1, <2>2, <2>4, <2>5 DEF k
<1> QED
  BY <1>4, <1>5

-----------------------------------------------------------------------------
(* The state of the program, and changes of a part of it.                  *)

LEMMA ProgFields ==
  ASSUME NEW S \in ProgType
  PROVE  /\ S.pl \in PlType /\ S.ns \in NsType /\ S.tcp \in TcpType /\ S.dns \in DnsType
         /\ S.ls \in LsType /\ S.heap \in HeapType /\ S.i \in InputType
         /\ S.fault \in {"none", "null_pcb", "bogus_pcb"}
  BY DEF ProgType

LEMMA LinkFields ==
  ASSUME NEW S \in ProgType,
         NEW state \in {"NET_CLOSED", "NET_PENDING", "NET_OPEN", "NET_ERROR"}
  PROVE  LET U == Link(S, state)
         IN  /\ U \in ProgType /\ U.ns.pcb = S.ns.pcb
             /\ U.pl = S.pl /\ U.tcp = S.tcp /\ U.dns = S.dns /\ U.ls = S.ls
             /\ U.heap = S.heap /\ U.i = S.i /\ U.fault = S.fault
  BY Zenon DEF Link, ProgType, NsType

LEMMA SetTcp ==
  ASSUME NEW S \in ProgType, NEW T \in TcpType
  PROVE  LET U == [S EXCEPT !.tcp = T]
         IN  /\ U \in ProgType /\ U.tcp = T /\ U.ns = S.ns /\ U.pl = S.pl /\ U.dns = S.dns
             /\ U.ls = S.ls /\ U.heap = S.heap /\ U.i = S.i /\ U.fault = S.fault
  BY Zenon DEF ProgType

LEMMA SetDns ==
  ASSUME NEW S \in ProgType, NEW D \in DnsType
  PROVE  LET U == [S EXCEPT !.dns = D]
         IN  /\ U \in ProgType /\ U.dns = D /\ U.ns = S.ns /\ U.pl = S.pl /\ U.tcp = S.tcp
             /\ U.ls = S.ls /\ U.heap = S.heap /\ U.i = S.i /\ U.fault = S.fault
  BY Zenon DEF ProgType

LEMMA SetI ==
  ASSUME NEW S \in ProgType, NEW q \in InputType
  PROVE  LET U == [S EXCEPT !.i = q]
         IN  /\ U \in ProgType /\ U.i = q /\ U.ns = S.ns /\ U.pl = S.pl /\ U.tcp = S.tcp
             /\ U.dns = S.dns /\ U.ls = S.ls /\ U.heap = S.heap /\ U.fault = S.fault
  BY Zenon DEF ProgType

LEMMA SetPl ==
  ASSUME NEW S \in ProgType, NEW player \in PlType
  PROVE  LET U == [S EXCEPT !.pl = player]
         IN  /\ U \in ProgType /\ U.pl = player /\ U.ns = S.ns /\ U.tcp = S.tcp
             /\ U.dns = S.dns /\ U.ls = S.ls /\ U.heap = S.heap /\ U.i = S.i
             /\ U.fault = S.fault
  BY Zenon DEF ProgType

-----------------------------------------------------------------------------
(* One pcb of the pool changes, and nothing else of the program.           *)

(* A pcb is the connection of the current play.                            *)
Mine(S, p, n) ==
  p = S.ns.pcb /\ S.tcp.pcb[p].play = n /\ Active(S) /\ ~Requested(S.dns, n)

SameButPool(U, S) ==
  /\ U.ns.pcb = S.ns.pcb /\ U.pl = S.pl /\ U.dns = S.dns /\ U.ls = S.ls
  /\ U.heap = S.heap /\ U.i = S.i /\ U.fault = S.fault

LEMMA LiveMine ==
  ASSUME NEW n, NEW S, NEW l, ProgInv(S, n, l), S.fault = "none", ~l,
         NEW p \in Pcbs, Live(S.tcp, p)
  PROVE  Mine(S, p, n)
  BY Zenon DEF ProgInv, CurrentInv, Mine

LEMMA PoolStep ==
  ASSUME NEW n, NEW S, NEW l, ProgInv(S, n, l), S.fault = "none",
         NEW U \in ProgType, SameButPool(U, S), NEW p \in Pcbs,
         Keeps(U.tcp, S.tcp, p, n), ~l /\ Live(U.tcp, p) => Mine(U, p, n)
  PROVE  ProgInv(U, n, l)
<1>1. /\ PoolInv(U.tcp, n) /\ RequestsInv(U.dns, n) /\ HeapInv(U)
      /\ Active(U) => U.pl.source_type = "PS_NET"
  BY DEF ProgInv, Keeps, SameButPool, HeapInv, Active
<1>2. ASSUME ~l, NEW q \in Pcbs, Live(U.tcp, q)
      PROVE  Mine(U, q, n)
  <2>1. CASE q = p
    BY <1>2, <2>1
  <2>2. CASE q # p
    <3>1. Live(S.tcp, q) /\ U.tcp.pcb[q] = S.tcp.pcb[q]
      BY <1>2, <2>2, Zenon DEF Keeps, Others
    <3> QED
      BY <1>2, <3>1, LiveMine DEF Mine, SameButPool, Active
  <2> QED
    BY <2>1, <2>2
<1>3. ~l => CurrentInv(U, n)
  BY <1>2 DEF ProgInv, CurrentInv, SameButPool, Active, Mine
<1> QED
  BY <1>1, <1>3, Zenon DEF ProgInv

(* The state of the link is no part of the invariant.                      *)
LEMMA LinkInv ==
  ASSUME NEW n, NEW S, NEW l, ProgInv(S, n, l),
         NEW state \in {"NET_CLOSED", "NET_PENDING", "NET_OPEN", "NET_ERROR"}
  PROVE  ProgInv(Link(S, state), n, l)
<1> DEFINE U == Link(S, state)
<1>1. S \in ProgType
  BY DEF ProgInv
<1>2. U \in ProgType /\ SameButPool(U, S) /\ U.tcp = S.tcp
  BY <1>1, LinkFields, Zenon DEF SameButPool
<1> HIDE DEF U
<1>3. U.fault = "none" => /\ PoolInv(U.tcp, n) /\ RequestsInv(U.dns, n) /\ HeapInv(U)
                          /\ Active(U) => U.pl.source_type = "PS_NET"
  BY <1>2 DEF ProgInv, SameButPool, HeapInv, Active
<1>4. U.fault = "none" /\ ~l => CurrentInv(U, n)
  BY <1>2 DEF ProgInv, SameButPool, CurrentInv, Active
<1> QED
  BY <1>2, <1>3, <1>4, Zenon DEF ProgInv, U

(* A pcb with other contents, but in its state and of its play.            *)
LEMMA PcbSet ==
  ASSUME NEW n \in Nat, NEW S, NEW l, ProgInv(S, n, l), S.fault = "none",
         NEW p \in Pcbs, NEW r \in PcbType, r.state = S.tcp.pcb[p].state,
         r.play = S.tcp.pcb[p].play,
         ~l /\ r.recv \in Feeding /\ r.recv # S.tcp.pcb[p].recv => Mine(S, p, n)
  PROVE  LET U == [S EXCEPT !.tcp = [@ EXCEPT !.pcb[p] = r]]
         IN  /\ ProgInv(U, n, l) /\ SameButPool(U, S) /\ U.ns = S.ns
             /\ Keeps(U.tcp, S.tcp, p, n) /\ U.tcp.pcb[p] = r
             /\ U.tcp.active = S.tcp.active /\ U.tcp.tw = S.tcp.tw /\ U.tcp.free = S.tcp.free
<1> DEFINE T == [S.tcp EXCEPT !.pcb[p] = r]
           U == [S EXCEPT !.tcp = T]
<1>1. S \in ProgType /\ S.tcp \in TcpType /\ PoolInv(S.tcp, n)
  BY ProgFields DEF ProgInv
<1>2. /\ Keeps(T, S.tcp, p, n) /\ T.pcb[p] = r
      /\ T.active = S.tcp.active /\ T.tw = S.tcp.tw /\ T.free = S.tcp.free
  BY <1>1, PcbStays
<1>3. T \in TcpType
  BY <1>2, Zenon DEF Keeps
<1> HIDE DEF T
<1>4. U \in ProgType /\ SameButPool(U, S) /\ U.ns = S.ns /\ U.tcp = T
  BY <1>1, <1>3, SetTcp, Zenon DEF SameButPool
<1> HIDE DEF U
<1>5. ~l /\ Live(T, p) => Mine(U, p, n)
  <2> SUFFICES ASSUME ~l, Live(T, p) PROVE Mine(S, p, n)
    BY <1>2, <1>4 DEF Mine, SameButPool, Active
  <2>1. CASE Live(S.tcp, p)
    BY <2>1, LiveMine
  <2>2. CASE ~Live(S.tcp, p)
    BY <2>2, <1>2 DEF Live, Listed, IsFree
  <2> QED
    BY <2>1, <2>2
<1>6. ProgInv(U, n, l)
  BY <1>2, <1>4, <1>5, PoolStep
<1> QED
  BY <1>2, <1>4, <1>6, Zenon DEF U, T

(* The pool with other contents of pcbs, each in its state, of its play.   *)
SameLists(U, T) ==
  /\ U.active = T.active /\ U.tw = T.tw /\ U.free = T.free
  /\ \A q \in Pcbs : U.pcb[q].state = T.pcb[q].state /\ U.pcb[q].play = T.pcb[q].play

(* tcp_recv: a pcb that is made a source of data is the current play's.    *)
LEMMA SetRecv ==
  ASSUME NEW n \in Nat, NEW S, NEW l, ProgInv(S, n, l), S.fault = "none",
         NEW p \in Pcbs \cup {NULL}, NEW recv \in Callbacks,
         ~l /\ recv \in Feeding /\ p # NULL => Mine(S, p, n)
  PROVE  LET U == [S EXCEPT !.tcp = tcp_recv(@, p, recv)]
         IN  /\ ProgInv(U, n, l) /\ SameButPool(U, S) /\ U.ns = S.ns /\ SameLists(U.tcp, S.tcp)
             /\ p # NULL => U.tcp.pcb[p].recv = recv
             /\ \A q \in Pcbs \ {p} : U.tcp.pcb[q] = S.tcp.pcb[q]
<1> DEFINE U == [S EXCEPT !.tcp = tcp_recv(@, p, recv)]
<1>1. S \in ProgType /\ S.tcp \in TcpType
  BY ProgFields DEF ProgInv
<1>2. CASE p = NULL
  <2>1. tcp_recv(S.tcp, p, recv) = S.tcp
    BY <1>2 DEF tcp_recv
  <2>2. U = S
    BY <1>1, <2>1 DEF ProgType
  <2> QED
    BY <1>2, <2>2, Zenon DEF SameButPool, SameLists
<1>3. CASE p # NULL
  <2> DEFINE r == [S.tcp.pcb[p] EXCEPT !.recv = recv]
  <2>1. p \in Pcbs /\ S.tcp.pcb[p] \in PcbType
    BY <1>1, <1>3, TcpFields
  <2>2. /\ r \in PcbType /\ r.recv = recv /\ r.state = S.tcp.pcb[p].state
        /\ r.play = S.tcp.pcb[p].play
    BY <2>1, Zenon DEF PcbType
  <2>3. U = [S EXCEPT !.tcp = [@ EXCEPT !.pcb[p] = r]]
    BY <1>3, Zenon DEF tcp_recv
  <2> HIDE DEF r, U
  <2>4. /\ ProgInv(U, n, l) /\ SameButPool(U, S) /\ U.ns = S.ns
        /\ Keeps(U.tcp, S.tcp, p, n) /\ U.tcp.pcb[p] = r
        /\ U.tcp.active = S.tcp.active /\ U.tcp.tw = S.tcp.tw /\ U.tcp.free = S.tcp.free
    BY <1>3, <2>1, <2>2, <2>3, PcbSet
  <2>5. SameLists(U.tcp, S.tcp) /\ \A q \in Pcbs \ {p} : U.tcp.pcb[q] = S.tcp.pcb[q]
    BY <2>2, <2>4 DEF SameLists, Keeps, Others
  <2> QED
    BY <2>2, <2>4, <2>5, Zenon DEF U
<1> QED
  BY <1>2, <1>3

(* The other calls that change the contents of a pcb only.                 *)
LEMMA SetContents ==
  ASSUME NEW n \in Nat, NEW S, NEW l, ProgInv(S, n, l), S.fault = "none",
         NEW p \in Pcbs, NEW full \in BOOLEAN, NEW T,
         T \in {tcp_recved(S.tcp, p, full), tcp_write(S.tcp, p)}
  PROVE  LET U == [S EXCEPT !.tcp = T]
         IN  ProgInv(U, n, l) /\ SameButPool(U, S)
<1> DEFINE pcb == S.tcp.pcb[p]
<1>1. S \in ProgType /\ S.tcp \in TcpType
  BY ProgFields DEF ProgInv
<1>2. pcb \in PcbType
  BY <1>1, TcpFields
<1>3. PICK r \in PcbType : /\ T = [S.tcp EXCEPT !.pcb[p] = r]
                           /\ r.state = pcb.state /\ r.play = pcb.play /\ r.recv = pcb.recv
  <2>1. CASE T = tcp_recved(S.tcp, p, full)
    <3> DEFINE r == [pcb EXCEPT !.full = full]
    <3>1. r \in PcbType /\ r.state = pcb.state /\ r.play = pcb.play /\ r.recv = pcb.recv
      BY <1>2, Zenon DEF PcbType
    <3>2. T = [S.tcp EXCEPT !.pcb[p] = r]
      BY <2>1, Zenon DEF tcp_recved
    <3> QED
      BY <3>1, <3>2, Zenon
  <2>2. CASE T = tcp_write(S.tcp, p)
    <3> DEFINE b == pcb.unacked \/ pcb.state \in {"ESTABLISHED", "CLOSE_WAIT"}
               r == [pcb EXCEPT !.unacked = b]
    <3>1. b \in BOOLEAN
      OBVIOUS
    <3>2. T = [S.tcp EXCEPT !.pcb[p] = r]
      BY <2>2, Zenon DEF tcp_write
    <3> HIDE DEF b
    <3>3. r \in PcbType /\ r.state = pcb.state /\ r.play = pcb.play /\ r.recv = pcb.recv
      BY <1>2, <3>1, Zenon DEF PcbType
    <3> QED
      BY <3>2, <3>3, Zenon
  <2> QED
    BY <2>1, <2>2
<1> QED
  BY <1>3, PcbSet

LEMMA SetTcpTwice ==
  ASSUME NEW S \in ProgType, NEW T, NEW U
  PROVE  [[S EXCEPT !.tcp = T] EXCEPT !.tcp = U] = [S EXCEPT !.tcp = U]
  BY Zenon DEF ProgType

(* A connection request is answered.                                       *)
LEMMA Connected ==
  ASSUME NEW n \in Nat, NEW S, NEW l, ProgInv(S, n, l), S.fault = "none",
         NEW p \in InState(S.tcp, "SYN_SENT")
  PROVE  ProgInv(net_lwip_connected([S EXCEPT !.tcp = SynAck(@, p)]), n, l)
<1> DEFINE r == [S.tcp.pcb[p] EXCEPT !.state = "ESTABLISHED", !.unacked = FALSE]
           T == SynAck(S.tcp, p)
           V == [S EXCEPT !.tcp = T]
           q == S.ns.pcb
<1>1. S \in ProgType /\ S.tcp \in TcpType /\ PoolInv(S.tcp, n) /\ S.ns \in NsType
  BY ProgFields DEF ProgInv
<1>2. /\ p \in S.tcp.active /\ p \in Pcbs /\ S.tcp.pcb[p] \in PcbType /\ Live(S.tcp, p)
      /\ q \in Pcbs \cup {NULL}
  BY <1>1, TcpFields DEF InState, Live, NsType
<1>3. /\ r \in PcbType /\ r.state = "ESTABLISHED" /\ r.play = S.tcp.pcb[p].play
  BY <1>2, Zenon DEF PcbType, TcpStates
<1>4. T = [S.tcp EXCEPT !.pcb[p] = r]
  BY DEF SynAck
<1> HIDE DEF r, T
<1>5. Keeps(T, S.tcp, p, n) /\ T.pcb[p] = r /\ T \in TcpType
  BY <1>1, <1>2, <1>3, <1>4, PcbGoes DEF Keeps
<1>6. V \in ProgType /\ SameButPool(V, S) /\ V.ns = S.ns /\ V.tcp = T
  BY <1>1, <1>5, SetTcp, Zenon DEF SameButPool
<1> HIDE DEF V
<1>7. ~l => Mine(V, p, n)
  <2>1. ~l => Mine(S, p, n)
    BY <1>2, LiveMine
  <2> QED
    BY <1>3, <1>5, <1>6, <2>1 DEF Mine, SameButPool, Active
<1>8. ProgInv(V, n, l) /\ V.fault = "none"
  BY <1>2, <1>5, <1>6, <1>7, PoolStep DEF SameButPool
<1>9. CASE q = NULL
  BY <1>6, <1>8, <1>9 DEF net_lwip_connected, V, T
<1>10. CASE q # NULL
  <2> DEFINE A == tcp_recv(V.tcp, q, "net_lwip_recv_connect")
             W == [V EXCEPT !.tcp = A]
             X == [W EXCEPT !.tcp = tcp_write(A, q)]
  <2>1. /\ q \in Pcbs /\ "net_lwip_recv_connect" \in Callbacks
        /\ ~l => Mine(V, q, n)
    BY <1>2, <1>6, <1>7, <1>10 DEF Callbacks, Mine
  <2>2. ProgInv(W, n, l) /\ SameButPool(W, V)
    BY <1>2, <1>8, <2>1, SetRecv
  <2>3. W.tcp = A /\ W.fault = "none"
    BY <1>6, <1>8, <2>2, Zenon DEF SameButPool, ProgType
  <2>4. net_lwip_connected(V) = X
    BY <1>6, <1>10, SetTcpTwice, Zenon DEF net_lwip_connected
  <2> HIDE DEF A, W
  <2>5. ProgInv(X, n, l)
    BY <2>1, <2>2, <2>3, SetContents, Zenon
  <2> QED
    BY <2>4, <2>5 DEF V, T
<1> QED
  BY <1>9, <1>10

(* What holds of the pcb whose callback runs.                              *)
Heard(S, p, n, l) ==
  /\ ProgInv(S, n, l) /\ S.fault = "none" /\ ~IsFree(S.tcp, p)
  /\ ~l /\ S.tcp.pcb[p].recv \in Feeding => Mine(S, p, n)

LEMMA Bounds ==
  MAX_INPUT_BUFFERS \in Nat /\ MaxPlays \in Nat
  BY BoardAssumption, Zenon

LEMMA HeardFields ==
  ASSUME NEW n, NEW S, NEW l, NEW p, Heard(S, p, n, l)
  PROVE  /\ S \in ProgType /\ S.i \in InputType /\ S.tcp \in TcpType /\ PoolInv(S.tcp, n)
         /\ S.ns.pcb \in Pcbs \cup {NULL}
<1>1. S \in ProgType /\ PoolInv(S.tcp, n)
  BY DEF Heard, ProgInv
<1>2. S.ns \in NsType /\ S.tcp \in TcpType /\ S.i \in InputType
  BY <1>1, ProgFields
<1> QED
  BY <1>1, <1>2 DEF NsType

LEMMA LinkHeard ==
  ASSUME NEW n, NEW S, NEW l, NEW p, Heard(S, p, n, l),
         NEW state \in {"NET_CLOSED", "NET_PENDING", "NET_OPEN", "NET_ERROR"}
  PROVE  LET U == Link(S, state)
         IN  Heard(U, p, n, l) /\ U.ns.pcb = S.ns.pcb /\ U.tcp = S.tcp
<1> DEFINE U == Link(S, state)
<1>1. S \in ProgType /\ ProgInv(U, n, l)
  BY LinkInv, Zenon DEF Heard, ProgInv
<1>2. /\ U.ns.pcb = S.ns.pcb /\ U.pl = S.pl /\ U.tcp = S.tcp /\ U.dns = S.dns
      /\ U.fault = S.fault
  BY <1>1, LinkFields, Zenon
<1> HIDE DEF U
<1>3. Mine(S, p, n) => Mine(U, p, n)
  BY <1>2, Zenon DEF Mine, Active
<1> QED
  BY <1>1, <1>2, <1>3 DEF Heard, U

(* A packet goes into the ring if there is a free buffer.                  *)
LEMMA RecvInv ==
  ASSUME NEW n \in 0 .. MaxPlays, NEW S, NEW l, NEW p \in Pcbs, Heard(S, p, n, l),
         S.tcp.pcb[p].recv = "net_lwip_recv", NEW data
  PROVE  Heard(net_lwip_recv(S, p, data), p, n, l)
<1>1. /\ S \in ProgType /\ S.i \in InputType /\ PoolInv(S.tcp, n)
      /\ n \in Nat /\ MaxPlays \in Nat /\ MAX_INPUT_BUFFERS \in Nat
  BY HeardFields, Bounds
<1> DEFINE play == S.tcp.pcb[p].play
           q == Append(S.i, play)
           U == [S EXCEPT !.i = q]
<1>2. play \in 1 .. MaxPlays /\ (~l => play = n)
  BY <1>1 DEF PoolInv, Heard, Mine, Feeding
<1> HIDE DEF play
<1>3. CASE i_free(S) # 0 /\ data # "long"
  <2>1. S.i \in Seq(1 .. MaxPlays) /\ Len(S.i) \in Nat /\ Len(S.i) <= MAX_INPUT_BUFFERS
    BY <1>1 DEF InputType
  <2>2. Len(S.i) < MAX_INPUT_BUFFERS
    BY <1>1, <1>3, <2>1 DEF i_free
  <2>3. /\ q \in Seq(1 .. MaxPlays) /\ Len(q) = Len(S.i) + 1
        /\ \A k \in 1 .. Len(S.i) : q[k] = S.i[k]
        /\ q[Len(S.i) + 1] = play
    BY <1>2, <2>1
  <2>4. q \in InputType
    BY <1>1, <2>1, <2>2, <2>3 DEF InputType
  <2>5. (\A k \in DOMAIN S.i : S.i[k] = n) /\ play = n => \A k \in DOMAIN q : q[k] = n
    BY <2>1, <2>3
  <2> HIDE DEF q
  <2>6. /\ U \in ProgType /\ U.i = q /\ U.ns = S.ns /\ U.pl = S.pl /\ U.tcp = S.tcp
        /\ U.dns = S.dns /\ U.ls = S.ls /\ U.heap = S.heap /\ U.fault = S.fault
    BY <1>1, <2>4, SetI, Zenon
  <2>7. net_lwip_recv(S, p, data) = U
    BY <1>3, Zenon DEF net_lwip_recv, q, play
  <2> HIDE DEF U
  <2>8. /\ PoolInv(U.tcp, n) /\ RequestsInv(U.dns, n) /\ HeapInv(U)
        /\ Active(U) => U.pl.source_type = "PS_NET"
    BY <2>6 DEF Heard, ProgInv, HeapInv, Active
  <2>9. ~l => CurrentInv(U, n)
    BY <1>2, <2>5, <2>6 DEF Heard, ProgInv, CurrentInv, Active, Mine, Feeding
  <2>10. Mine(S, p, n) => Mine(U, p, n)
    BY <2>6, Zenon DEF Mine, Active
  <2>11. ProgInv(U, n, l)
    BY <2>6, <2>8, <2>9, Zenon DEF ProgInv
  <2> QED
    BY <2>6, <2>7, <2>10, <2>11 DEF Heard
<1>4. CASE i_free(S) = 0
  BY <1>4 DEF net_lwip_recv
<1>5. CASE i_free(S) # 0 /\ data = "long"
  BY <1>5, LinkHeard DEF net_lwip_recv
<1> QED
  BY <1>3, <1>4, <1>5

LEMMA EventRecvInv ==
  ASSUME NEW n \in 0 .. MaxPlays, NEW S, NEW l, NEW p \in Pcbs, Heard(S, p, n, l), NEW data
  PROVE  Heard(EventRecv(S, p, data), p, n, l)
<1>1. S \in ProgType /\ n \in Nat /\ S.ns.pcb \in Pcbs \cup {NULL}
  BY HeardFields, Bounds
<1>2. CASE S.tcp.pcb[p].recv = "net_lwip_recv_connect"
  <2>1. EventRecv(S, p, data) = net_lwip_recv_connect(S, data)
    BY <1>2 DEF EventRecv
  <2>2. CASE data # "audio/mpeg"
    BY <2>1, <2>2, LinkHeard DEF net_lwip_recv_connect
  <2>3. CASE data = "audio/mpeg"
    <3> DEFINE L == Link(S, "NET_OPEN")
               q == S.ns.pcb
               U == [L EXCEPT !.tcp = tcp_recv(@, q, "net_lwip_recv")]
    <3>1. Heard(L, p, n, l) /\ L.ns.pcb = S.ns.pcb /\ L.tcp = S.tcp
      BY LinkHeard
    <3>2. EventRecv(S, p, data) = U
      BY <2>1, <2>3 DEF net_lwip_recv_connect
    <3> HIDE DEF L
    <3>3. ~l => Mine(L, p, n) /\ p = q
      BY <1>2, <3>1 DEF Heard, Feeding, Mine
    <3>4. ProgInv(U, n, l) /\ SameButPool(U, L) /\ U.ns = L.ns /\ SameLists(U.tcp, L.tcp)
      <4>1. ProgInv(L, n, l) /\ L.fault = "none" /\ (~l => Mine(L, q, n))
        BY <3>1, <3>3 DEF Heard
      <4>2. "net_lwip_recv" \in Callbacks
        BY DEF Callbacks
      <4> HIDE DEF q
      <4> QED
        BY <1>1, <4>1, <4>2, SetRecv DEF q
    <3> HIDE DEF U
    <3>5. ~l => Mine(U, p, n)
      BY <3>3, <3>4 DEF Mine, SameButPool, SameLists, Active
    <3> QED
      BY <3>1, <3>2, <3>4, <3>5 DEF Heard, SameButPool, SameLists, IsFree
  <2> QED
    BY <2>2, <2>3
<1>3. CASE S.tcp.pcb[p].recv = "net_lwip_recv"
  BY <1>3, RecvInv DEF EventRecv
<1>4. CASE S.tcp.pcb[p].recv \notin Feeding
  BY <1>4 DEF EventRecv, Feeding
<1> QED
  BY <1>2, <1>3, <1>4 DEF Feeding

(* A pcb changes and is no source of data any more.                        *)
LEMMA Silenced ==
  ASSUME NEW n, NEW S, NEW l, ProgInv(S, n, l), S.fault = "none",
         NEW T, NEW p \in Pcbs, Keeps(T, S.tcp, p, n), ~Live(T, p)
  PROVE  LET U == [S EXCEPT !.tcp = T]
         IN  ProgInv(U, n, l) /\ SameButPool(U, S) /\ U.tcp = T
<1> DEFINE U == [S EXCEPT !.tcp = T]
<1>1. S \in ProgType /\ T \in TcpType
  BY Zenon DEF ProgInv, Keeps
<1>2. U \in ProgType /\ SameButPool(U, S) /\ U.tcp = T
  BY <1>1, SetTcp, Zenon DEF SameButPool
<1> HIDE DEF U
<1>3. ProgInv(U, n, l)
  BY <1>2, PoolStep
<1> QED
  BY <1>2, <1>3, Zenon DEF U

LEMMA EventClosedInv ==
  ASSUME NEW n \in Nat, NEW S, NEW l, NEW p \in Pcbs, Heard(S, p, n, l),
         NEW full \in BOOLEAN
  PROVE  ProgInv(EventClosed(S, p, full), n, l)
<1> DEFINE recv == S.tcp.pcb[p].recv
           W == [S EXCEPT !.tcp = tcp_recved(@, p, full)]
<1>1. /\ ProgInv(S, n, l) /\ S.fault = "none" /\ ~IsFree(S.tcp, p)
      /\ S.tcp \in TcpType /\ PoolInv(S.tcp, n)
  BY HeardFields, Zenon DEF Heard
<1>2. ProgInv(W, n, l)
  BY <1>1, SetContents
<1> HIDE DEF W
<1>3. ProgInv(Link(W, "NET_ERROR"), n, l)
  BY <1>2, LinkInv
<1>4. CASE recv = "net_lwip_recv_connect"
  BY <1>3, <1>4 DEF EventClosed, W
<1>5. CASE recv = "net_lwip_recv"
  BY <1>2, <1>3, <1>5 DEF EventClosed, W
<1>6. CASE recv = "tcp_recv_null"
  <2>1. EventClosed(S, p, full) = [S EXCEPT !.tcp = tcp_close(@, p)]
    BY <1>6 DEF EventClosed
  <2>2. Keeps(tcp_close(S.tcp, p), S.tcp, p, n) /\ ~Live(tcp_close(S.tcp, p), p)
    BY <1>1, <1>6, Close DEF Feeding
  <2> QED
    BY <1>1, <2>1, <2>2, Silenced
<1>7. CASE recv \notin Feeding \cup {"tcp_recv_null"}
  BY <1>1, <1>7 DEF EventClosed, Feeding
<1> QED
  BY <1>4, <1>5, <1>6, <1>7 DEF Feeding

(* A segment arrives.                                                      *)
LEMMA InputInv ==
  ASSUME NEW n \in 0 .. MaxPlays, NEW S, NEW l, ProgInv(S, n, l), S.fault = "none",
         NEW p \in S.tcp.active, NEW seg \in Segments, MaySend(S.tcp, p, seg),
         NEW full \in BOOLEAN
  PROVE  ProgInv(tcp_input(S, p, seg, full), n, l)
<1> DEFINE T == tcp_process(S.tcp, p, seg)
           P == [S EXCEPT !.tcp = T]
           R == IF seg.data = "none" THEN P ELSE EventRecv(P, p, seg.data)
<1>1. S \in ProgType /\ S.tcp \in TcpType /\ PoolInv(S.tcp, n) /\ n \in Nat
  BY ProgFields, Bounds DEF ProgInv
<1>2. /\ p \in Pcbs
      /\ S.tcp.pcb[p].recv \in Feeding => Live(S.tcp, p)
  BY <1>1, TcpFields DEF Live
<1>3. /\ Keeps(T, S.tcp, p, n) /\ (Live(T, p) => S.tcp.pcb[p].recv \in Feeding)
      /\ seg.data # "none" \/ seg.fin => ~IsFree(T, p)
      /\ ~IsFree(T, p) =>
           T.pcb[p].recv = S.tcp.pcb[p].recv /\ T.pcb[p].play = S.tcp.pcb[p].play
  BY <1>1, Process
<1>4. T \in TcpType /\ PoolInv(T, n)
  BY <1>3, Zenon DEF Keeps
<1>5. Live(T, p) => ~IsFree(T, p)
  BY <1>2, <1>4 DEF Live, PoolInv, Placed, Listed
<1> HIDE DEF T
<1>6. P \in ProgType /\ SameButPool(P, S) /\ P.tcp = T /\ P.fault = "none"
  BY <1>1, <1>4, SetTcp, Zenon DEF SameButPool
<1> HIDE DEF P
<1>7. ~l /\ S.tcp.pcb[p].recv \in Feeding /\ ~IsFree(T, p) => Mine(P, p, n)
  <2>1. ~l /\ S.tcp.pcb[p].recv \in Feeding => Mine(S, p, n)
    BY <1>2, LiveMine
  <2> QED
    BY <1>3, <1>6, <2>1 DEF Mine, SameButPool, Active
<1>8. ProgInv(P, n, l)
  BY <1>2, <1>3, <1>5, <1>6, <1>7, PoolStep
<1>9. seg.data # "none" \/ seg.fin => Heard(P, p, n, l)
  BY <1>3, <1>6, <1>7, <1>8 DEF Heard
<1>10. CASE RxClosed(S.tcp, p) /\ seg.data # "none"
  <2>1. tcp_input(S, p, seg, full) = [P EXCEPT !.tcp = tcp_abandon(@, p)]
    BY <1>10 DEF tcp_input, P, T
  <2>2. Keeps(tcp_abandon(P.tcp, p), P.tcp, p, n) /\ ~Live(tcp_abandon(P.tcp, p), p)
    BY <1>1, <1>2, <1>3, <1>4, <1>6, <1>10, Abandon
  <2> QED
    BY <1>2, <1>6, <1>8, <2>1, <2>2, Silenced
<1>11. CASE ~(RxClosed(S.tcp, p) /\ seg.data # "none")
  <2>1. tcp_input(S, p, seg, full) = IF seg.fin THEN EventClosed(R, p, full) ELSE R
    BY <1>11 DEF tcp_input, P, T
  <2>2. seg.data # "none" => Heard(R, p, n, l)
    BY <1>2, <1>9, EventRecvInv
  <2>3. ProgInv(R, n, l) /\ (seg.fin => Heard(R, p, n, l))
    BY <1>8, <1>9, <2>2 DEF Heard
  <2> HIDE DEF R
  <2>4. seg.fin => ProgInv(EventClosed(R, p, full), n, l)
    BY <1>1, <1>2, <2>3, EventClosedInv
  <2> QED
    BY <2>1, <2>3, <2>4
<1> QED
  BY <1>10, <1>11
=============================================================================
