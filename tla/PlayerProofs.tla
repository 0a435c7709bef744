---------------------------- MODULE PlayerProofs ----------------------------
(***************************************************************************)
(* What the operators of Playback do: the rings, the file layer, the event *)
(* queue and the player, each by itself; the parts of Playback's invariant *)
(* and its initial states.  Lemmas for PlaybackProofs.                     *)
(***************************************************************************)
EXTENDS Playback, TLAPS

-----------------------------------------------------------------------------
(* Rings of four buffers.                                                  *)

(* Buffers less than a round apart lie in different slots.                 *)
LEMMA SlotsDiffer ==
  ASSUME NEW j \in Nat, NEW k \in Nat, j < k, k - j < 4
  PROVE  j % 4 # k % 4
BY SMT

LEMMA SlotInRange ==
  ASSUME NEW k \in Nat
  PROVE  k % 4 \in 0 .. 3
BY SMT

(* The counts are exact while the ring is not overfull.                    *)
LEMMA RingCounts ==
  ASSUME NEW B, NEW r \in Ring(4, B), RingInv(r)
  PROVE  /\ io_used(r) = r.head - r.tail
         /\ io_free(r) = 4 - (r.head - r.tail)
         /\ io_free(r) \in 0 .. 4
<1>1. r.head \in Nat /\ r.tail \in Nat /\ r.max_buffers = 4
  BY DEF Ring
<1>2. r.head - r.tail \in 0 .. 4
  BY <1>1 DEF RingInv
<1>3. ASSUME NEW n \in 0 .. 4 PROVE n % 65536 = n
  BY <1>3, SMT
<1>4. 4 - (r.head - r.tail) \in 0 .. 4
  BY <1>2
<1> QED
  BY <1>1, <1>2, <1>3, <1>4 DEF io_used, io_free, Uint16

(* io_push into a ring with room.                                          *)
LEMMA RingPush ==
  ASSUME NEW B, NEW r \in Ring(4, B), RingInv(r), r.head - r.tail < 4, NEW c \in B
  PROVE  LET p == io_push(r, c)
         IN  /\ p \in Ring(4, B) /\ RingInv(p)
             /\ p.head = r.head + 1 /\ p.tail = r.tail
             /\ At(p, r.head) = c
             /\ \A k \in InRing(p) : \/ k = r.head
                                     \/ k \in InRing(r) /\ k < r.head /\ At(p, k) = At(r, k)
<1> DEFINE p == io_push(r, c)
<1>1. r.head \in Nat /\ r.tail \in Nat /\ r.max_buffers = 4 /\ r.slot \in [0 .. 3 -> B]
  BY DEF Ring
<1>2. p = [head |-> r.head + 1, tail |-> r.tail, max_buffers |-> 4,
           slot |-> [r.slot EXCEPT ![r.head % 4] = c]]
  BY <1>1 DEF io_push, io_full
<1>3. r.head % 4 \in 0 .. 3
  BY <1>1, SlotInRange
<1>4. p \in Ring(4, B) /\ p.head = r.head + 1 /\ p.tail = r.tail /\ p.max_buffers = 4
  BY <1>1, <1>2, <1>3 DEF Ring
<1>5. RingInv(p)
  BY <1>1, <1>4 DEF RingInv
<1>6. At(p, r.head) = c
  BY <1>1, <1>2, <1>3 DEF At
<1>7. ASSUME NEW k \in InRing(p), k # r.head
      PROVE  k \in InRing(r) /\ k < r.head /\ At(p, k) = At(r, k)
  <2>0. k \in InRing(r)
    BY <1>1, <1>4, <1>7 DEF InRing
  <2>1. k \in Nat /\ k < r.head /\ r.head - k < 4
    BY <1>1, <2>0 DEF InRing
  <2>2. k % 4 # r.head % 4 /\ k % 4 \in 0 .. 3
    BY <2>1, <1>1, SlotsDiffer, SlotInRange
  <2> QED
    BY <1>1, <1>2, <2>0, <2>1, <2>2 DEF At
<1> QED
  BY <1>4, <1>5, <1>6, <1>7

(* io_pop of a ring that is not empty.                                     *)
LEMMA RingPop ==
  ASSUME NEW B, NEW r \in Ring(4, B), RingInv(r), r.head # r.tail
  PROVE  LET p == io_pop(r)
         IN  /\ p \in Ring(4, B) /\ RingInv(p)
             /\ p.head = r.head /\ p.tail = r.tail + 1
             /\ io_front(r) = At(r, r.tail) /\ r.tail \in InRing(r) /\ io_front(r) \in B
             /\ \A k \in InRing(p) : k \in InRing(r) /\ k > r.tail /\ At(p, k) = At(r, k)
<1> DEFINE p == io_pop(r)
<1>1. r.head \in Nat /\ r.tail \in Nat /\ r.max_buffers = 4 /\ r.slot \in [0 .. 3 -> B]
  BY DEF Ring
<1>2. r.tail < r.head
  BY <1>1 DEF RingInv
<1>3. p = [r EXCEPT !.tail = r.tail + 1]
  BY <1>1, <1>2 DEF io_pop, io_empty
<1>4. p \in Ring(4, B) /\ p.head = r.head /\ p.tail = r.tail + 1 /\ p.max_buffers = 4
      /\ p.slot = r.slot
  BY <1>1, <1>3 DEF Ring
<1>5. RingInv(p)
  BY <1>1, <1>2, <1>4 DEF RingInv
<1>6. io_front(r) = At(r, r.tail) /\ r.tail \in InRing(r) /\ io_front(r) \in B
  BY <1>1, <1>2, SlotInRange DEF io_front, At, InRing
<1>7. \A k \in InRing(p) : k \in InRing(r) /\ k > r.tail /\ At(p, k) = At(r, k)
  BY <1>1, <1>4 DEF InRing, At
<1> QED
  BY <1>4, <1>5, <1>6, <1>7

LEMMA RingReset ==
  ASSUME NEW B, NEW b \in B
  PROVE  LET p == io_reset(4, b)
         IN  /\ p \in Ring(4, B) /\ RingInv(p) /\ p.head = 0 /\ p.tail = 0 /\ InRing(p) = {}
             /\ p.max_buffers = 4 /\ \A s \in 0 .. 3 : p.slot[s] = b
BY DEF io_reset, Ring, RingInv, InRing

(* A ring that is overfull by one at most stays so: io_push and io_pop.    *)
Loose(r) == r.tail <= r.head /\ r.head - r.tail <= r.max_buffers + 1

LEMMA LoosePush ==
  ASSUME NEW B, NEW r \in Ring(4, B), Loose(r), NEW c \in B
  PROVE  LET p == io_push(r, c)
         IN  /\ p \in Ring(4, B) /\ Loose(p)
             /\ \A s \in 0 .. 3 : p.slot[s] \in {r.slot[s], c}
<1> DEFINE p == io_push(r, c)
           t == IF r.head - r.tail > 4 THEN r.tail + 1 ELSE r.tail
<1>1. r.head \in Nat /\ r.tail \in Nat /\ r.max_buffers = 4 /\ r.slot \in [0 .. 3 -> B]
  BY DEF Ring
<1>2. p = [head |-> r.head + 1, tail |-> t, max_buffers |-> 4,
           slot |-> [r.slot EXCEPT ![r.head % 4] = c]]
  BY <1>1 DEF io_push, io_full
<1>3. t \in Nat /\ t <= r.head + 1 /\ r.head + 1 - t <= 5
  BY <1>1 DEF Loose
<1>4. r.head % 4 \in 0 .. 3
  BY <1>1, SlotInRange
<1> HIDE DEF t
<1>5. p \in Ring(4, B) /\ p.head = r.head + 1 /\ p.tail = t /\ p.max_buffers = 4
  BY <1>1, <1>2, <1>3, <1>4 DEF Ring
<1>6. \A s \in 0 .. 3 : p.slot[s] \in {r.slot[s], c}
  BY <1>1, <1>2, <1>4
<1> QED
  BY <1>1, <1>3, <1>5, <1>6 DEF Loose

LEMMA LoosePop ==
  ASSUME NEW B, NEW r \in Ring(4, B), Loose(r), r.head # r.tail
  PROVE  LET p == io_pop(r)
         IN  /\ p \in Ring(4, B) /\ Loose(p) /\ p.slot = r.slot
             /\ io_front(r) = At(r, r.tail) /\ r.tail \in InRing(r)
             /\ r.tail % 4 \in 0 .. 3 /\ io_front(r) = r.slot[r.tail % 4] /\ io_front(r) \in B
<1> DEFINE p == io_pop(r)
<1>1. r.head \in Nat /\ r.tail \in Nat /\ r.max_buffers = 4 /\ r.slot \in [0 .. 3 -> B]
  BY DEF Ring
<1>2. r.tail < r.head
  BY <1>1 DEF Loose
<1>3. p = [r EXCEPT !.tail = r.tail + 1]
  BY <1>1, <1>2 DEF io_pop, io_empty
<1>4. p \in Ring(4, B) /\ p.head = r.head /\ p.tail = r.tail + 1 /\ p.max_buffers = 4
      /\ p.slot = r.slot
  BY <1>1, <1>3 DEF Ring
<1>5. Loose(p)
  BY <1>1, <1>2, <1>4 DEF Loose
<1>6. r.tail % 4 \in 0 .. 3
  BY <1>1, SlotInRange
<1>7. io_front(r) = r.slot[r.tail % 4] /\ io_front(r) = At(r, r.tail)
  BY <1>1 DEF io_front, At
<1>8. r.tail \in InRing(r)
  BY <1>1, <1>2 DEF InRing
<1>9. r.slot[r.tail % 4] \in B
  BY <1>1, <1>6
<1> QED
  BY <1>4, <1>5, <1>6, <1>7, <1>8, <1>9

-----------------------------------------------------------------------------
(* The file layer.                                                         *)

IsOpen(f, h) == f.handles[h].source = "FSO_HOST"

FileOf(f, h) == f.hfs[f.handles[h].handle]

(* Open handles and FILEs match one to one.                                *)
Paired(f) ==
  /\ \A h \in Handles : IsOpen(f, h) => FileOf(f, h).name # NULL
  /\ \A k \in Handles : f.hfs[k].name # NULL =>
       \E h \in Handles : IsOpen(f, h) /\ f.handles[h].handle = k
  /\ \A h, g \in Handles : IsOpen(f, h) /\ IsOpen(f, g) /\ h # g =>
       f.handles[h].handle # f.handles[g].handle

(* All handles but x belong to Wave files that were left behind.           *)
Leaked(f, x) ==
  \A h \in Handles : IsOpen(f, h) => h = x \/ Leaks(FileOf(f, h).name)

(* A step changes nothing about the open handles but h.                    *)
SameBut(f, g, h) ==
  /\ g.state = f.state /\ g.type = f.type /\ g.fmt = f.fmt /\ g.handle = f.handle
  /\ \A k \in Handles \ {h} : /\ IsOpen(g, k) <=> IsOpen(f, k)
                              /\ IsOpen(f, k) => FileOf(g, k) = FileOf(f, k)

LEMMA Matches ==
  ASSUME fss \in FsType
  PROVE  HandlesMatch <=> /\ Paired(fss) /\ Leaked(fss, fss.handle)
                          /\ fss.handle # -1 => IsOpen(fss, fss.handle)
BY DEF HandlesMatch, Paired, Leaked, IsOpen, FileOf, FsType

LEMMA MinIn ==
  ASSUME NEW S \in SUBSET Handles, S # {}
  PROVE  Min(S) \in S
<1>1. \E x \in S : \A y \in S : x <= y
  <2>1. Handles = {0, 1, 2}
    BY DEF Handles, MAX_OPEN_FILES
  <2>2. CASE 0 \in S
    BY <2>1, <2>2
  <2>3. CASE 0 \notin S /\ 1 \in S
    BY <2>1, <2>3
  <2>4. CASE 0 \notin S /\ 1 \notin S
    <3>1. S = {2}
      BY <2>1, <2>4, Zenon
    <3> QED
      BY <3>1
  <2> QED
    BY <2>2, <2>3, <2>4
<1> QED
  BY <1>1 DEF Min

LEMMA OpenFile ==
  ASSUME NEW f \in FsType, Paired(f), NEW name \in DOMAIN Disk
  PROVE  LET r == fs_open(f, name)
         IN  \/ r.ret = -1 /\ r.f = f
             \/ /\ r.ret \in Handles /\ r.f \in FsType /\ Paired(r.f)
                /\ ~IsOpen(f, r.ret) /\ IsOpen(r.f, r.ret)
                /\ FileOf(r.f, r.ret) = [name |-> name, pos |-> 0]
                /\ SameBut(f, r.f, r.ret)
<1> DEFINE r == fs_open(f, name)
           closed == {h \in Handles : f.handles[h].source = "FSO_CLOSED"}
           free == {h \in Handles : f.hfs[h].name = NULL}
           h == Min(closed)
           k == Min(free)
           g == [f EXCEPT !.hfs = [f.hfs EXCEPT ![k] = [name |-> name, pos |-> 0]],
                          !.handles = [f.handles EXCEPT ![h] =
                                         [source |-> "FSO_HOST", handle |-> k]]]
<1>1. CASE closed = {} \/ free = {} \/ Disk[name].kind = "missing"
  <2>1. -1 \notin Handles
    BY DEF Handles, MAX_OPEN_FILES
  <2> QED
  BY <1>1 DEF fs_open, fs_get_handle, host_fs_open
<1>2. CASE closed # {} /\ free # {} /\ Disk[name].kind # "missing"
  <2>1. h \in closed /\ k \in free
    BY <1>2, MinIn
  <2>2. h \in Handles /\ k \in Handles /\ h # -1 /\ k # -1
    BY <2>1 DEF Handles, MAX_OPEN_FILES
  <2>3. r.ret = h /\ r.f = g
    BY <1>2, <2>2, Zenon DEF fs_open, fs_get_handle, host_fs_open, FsType
  <2> HIDE DEF h, k, r
  <2>4. g \in FsType
    BY <2>2, Zenon DEF FsType
  <2>5. /\ g.handles[h].source = "FSO_HOST" /\ g.handles[h].handle = k
        /\ g.hfs[k] = [name |-> name, pos |-> 0]
        /\ \A x \in Handles \ {h} : g.handles[x] = f.handles[x]
        /\ \A x \in Handles \ {k} : g.hfs[x] = f.hfs[x]
        /\ g.state = f.state /\ g.type = f.type /\ g.fmt = f.fmt /\ g.handle = f.handle
    BY <2>2 DEF FsType
  <2>6. ~IsOpen(f, h) /\ f.hfs[k].name = NULL
    BY <2>1 DEF IsOpen
  <2>7. \A x \in Handles : f.handles[x].handle \in Handles
    BY DEF FsType
  <2>8. \A x \in Handles : IsOpen(f, x) => f.handles[x].handle # k
    BY <2>6 DEF Paired, FileOf
  <2> HIDE DEF g
  <2>9. SameBut(f, g, h)
    BY <2>5, <2>7, <2>8 DEF SameBut, IsOpen, FileOf
  <2>10. name # NULL
    BY DiskAssumption
  <2>11. Paired(g)
    <3>1. ASSUME NEW x \in Handles, IsOpen(g, x) PROVE FileOf(g, x).name # NULL
      BY <3>1, <2>5, <2>7, <2>8, <2>10, SMTT(20) DEF Paired, IsOpen, FileOf
    <3>2. ASSUME NEW y \in Handles, g.hfs[y].name # NULL
          PROVE  \E x \in Handles : IsOpen(g, x) /\ g.handles[x].handle = y
      <4>1. CASE y = k
        BY <4>1, <2>2, <2>5 DEF IsOpen
      <4>2. CASE y # k
        <5>1. PICK x \in Handles : IsOpen(f, x) /\ f.handles[x].handle = y
          BY <4>2, <3>2, <2>5 DEF Paired
        <5>2. x # h
          BY <5>1, <2>6
        <5> QED
          BY <5>1, <5>2, <2>5 DEF IsOpen
      <4> QED
        BY <4>1, <4>2
    <3>3. ASSUME NEW x \in Handles, NEW y \in Handles, IsOpen(g, x), IsOpen(g, y), x # y
          PROVE  g.handles[x].handle # g.handles[y].handle
      BY <3>3, <2>5, <2>8 DEF Paired, IsOpen
    <3> QED
      BY <3>1, <3>2, <3>3 DEF Paired
  <2>12. IsOpen(g, h) /\ FileOf(g, h) = [name |-> name, pos |-> 0]
    BY <2>5 DEF IsOpen, FileOf
  <2> QED
    BY <2>2, <2>3, <2>4, <2>6, <2>9, <2>11, <2>12 DEF r
<1> QED
  BY <1>1, <1>2, Zenon

LEMMA CloseFile ==
  ASSUME NEW f \in FsType, Paired(f), NEW h \in Handles, IsOpen(f, h)
  PROVE  LET g == fs_close(f, h)
         IN  g \in FsType /\ Paired(g) /\ ~IsOpen(g, h) /\ SameBut(f, g, h)
<1> DEFINE k == f.handles[h].handle
           hfs == [f.hfs EXCEPT ![k] = [name |-> NULL, pos |-> f.hfs[k].pos]]
           handles == [f.handles EXCEPT ![h] = [source |-> "FSO_CLOSED", handle |-> k]]
           g == [state |-> f.state, type |-> f.type, fmt |-> f.fmt, handle |-> f.handle,
                 handles |-> handles, hfs |-> hfs]
<1>1. k \in Handles /\ f.hfs[k].name # NULL
  BY DEF Paired, FileOf, FsType
<1>2. h \in Int /\ h >= 0 /\ h <= MAX_OPEN_FILES
  BY DEF Handles, MAX_OPEN_FILES
<1>3. fs_close(f, h) = g
  <2>1. host_fs_close(f, k) = [f EXCEPT !.hfs[k].name = NULL]
    BY <1>1, Zenon DEF host_fs_close
  <2>2. [f EXCEPT !.hfs[k].name = NULL] = [f EXCEPT !.hfs = hfs]
    <3>1. f.hfs[k] = [name |-> f.hfs[k].name, pos |-> f.hfs[k].pos]
      BY <1>1 DEF FsType
    <3> QED
      BY <3>1
  <2>3. fs_close(f, h) = [host_fs_close(f, k) EXCEPT !.handles[h].source = "FSO_CLOSED"]
    BY <1>2 DEF fs_close, IsOpen, MAX_OPEN_FILES
  <2>4. [[f EXCEPT !.hfs = hfs] EXCEPT !.handles[h].source = "FSO_CLOSED"] = g
    <3>1. f.handles[h] = [source |-> f.handles[h].source, handle |-> k]
      BY DEF FsType
    <3>2. [f.handles[h] EXCEPT !.source = "FSO_CLOSED"] =
          [source |-> "FSO_CLOSED", handle |-> k]
      BY <3>1
    <3> DEFINE q == [state |-> f.state, type |-> f.type, fmt |-> f.fmt, handle |-> f.handle,
                     handles |-> f.handles, hfs |-> hfs]
    <3> HIDE DEF hfs
    <3>3. [f EXCEPT !.hfs = hfs] = q
      BY DEF FsType
    <3>4. q.handles = f.handles
      OBVIOUS
    <3>5. [q EXCEPT !.handles = handles] = g
      <4> HIDE DEF handles
      <4> QED
        OBVIOUS
    <3> HIDE DEF q, g
    <3>6. [q EXCEPT !.handles[h].source = "FSO_CLOSED"] = [q EXCEPT !.handles = handles]
      BY <3>2, <3>4
    <3> QED
      BY <3>3, <3>5, <3>6, Zenon
  <2> QED
    BY <2>1, <2>2, <2>3, <2>4, Zenon
<1> HIDE DEF k
<1>4. g \in FsType
  BY <1>1 DEF FsType
<1>5. /\ g.handles[h].source = "FSO_CLOSED" /\ g.hfs[k].name = NULL
      /\ \A x \in Handles \ {h} : g.handles[x] = f.handles[x]
      /\ \A x \in Handles \ {k} : g.hfs[x] = f.hfs[x]
      /\ g.state = f.state /\ g.type = f.type /\ g.fmt = f.fmt /\ g.handle = f.handle
  BY <1>1 DEF FsType
<1>6. \A x \in Handles : f.handles[x].handle \in Handles
  BY DEF FsType
<1>7. \A x \in Handles \ {h} : IsOpen(f, x) => f.handles[x].handle # k
  BY DEF Paired, k
<1> HIDE DEF g
<1>8. SameBut(f, g, h) /\ ~IsOpen(g, h)
  BY <1>5, <1>6, <1>7 DEF SameBut, IsOpen, FileOf
<1>9. Paired(g)
  <2>1. ASSUME NEW x \in Handles, IsOpen(g, x) PROVE FileOf(g, x).name # NULL
    BY <2>1, <1>5, <1>6, <1>7, <1>8, SMTT(20) DEF Paired, IsOpen, FileOf
  <2>2. ASSUME NEW y \in Handles, g.hfs[y].name # NULL
        PROVE  \E x \in Handles : IsOpen(g, x) /\ g.handles[x].handle = y
    <3>1. y # k /\ f.hfs[y].name # NULL
      BY <2>2, <1>5
    <3>2. PICK x \in Handles : IsOpen(f, x) /\ f.handles[x].handle = y
      BY <3>1 DEF Paired
    <3>3. x # h
      BY <3>1, <3>2 DEF k
    <3> QED
      BY <3>2, <3>3, <1>5 DEF IsOpen
  <2>3. ASSUME NEW x \in Handles, NEW y \in Handles, IsOpen(g, x), IsOpen(g, y), x # y
        PROVE  g.handles[x].handle # g.handles[y].handle
    BY <2>3, <1>5, <1>8 DEF Paired, IsOpen
  <2> QED
    BY <2>1, <2>2, <2>3 DEF Paired
<1> QED
  BY <1>3, <1>4, <1>8, <1>9

LEMMA SetFiles ==
  ASSUME NEW f \in FsType, NEW files
  PROVE  [f EXCEPT !.hfs = files] =
           [state |-> f.state, type |-> f.type, fmt |-> f.fmt, handle |-> f.handle,
            handles |-> f.handles, hfs |-> files]
BY DEF FsType

(* fs_read and fs_seek of an open handle change its position alone.        *)
LEMMA MoveFile ==
  ASSUME NEW f \in FsType, Paired(f), NEW h \in Handles, IsOpen(f, h), NEW n \in Nat
  PROVE  LET g == [f EXCEPT !.hfs[f.handles[h].handle].pos = n]
         IN  /\ g \in FsType /\ Paired(g) /\ SameBut(f, g, h)
             /\ IsOpen(g, h) /\ FileOf(g, h) = [name |-> FileOf(f, h).name, pos |-> n]
<1> DEFINE k == f.handles[h].handle
           hfs == [f.hfs EXCEPT ![k] = [name |-> f.hfs[k].name, pos |-> n]]
           g == [state |-> f.state, type |-> f.type, fmt |-> f.fmt, handle |-> f.handle,
                 handles |-> f.handles, hfs |-> hfs]
<1>1. k \in Handles
  BY DEF FsType
<1> HIDE DEF k
<1>0. [f EXCEPT !.hfs[k].pos = n] = g
  <2>1. f.hfs[k] = [name |-> f.hfs[k].name, pos |-> f.hfs[k].pos]
    BY <1>1 DEF FsType
  <2>2. [f.hfs[k] EXCEPT !.pos = n] = [name |-> f.hfs[k].name, pos |-> n]
    BY <2>1
  <2>3. [f EXCEPT !.hfs[k].pos = n] = [f EXCEPT !.hfs = hfs]
    BY <2>2
  <2>4. [f EXCEPT !.hfs = hfs] = g
    BY SetFiles, Zenon
  <2> QED
    BY <2>3, <2>4
<1>2. g \in FsType
  BY <1>1 DEF FsType
<1>3. /\ g.handles = f.handles /\ g.hfs[k] = [name |-> f.hfs[k].name, pos |-> n]
      /\ \A x \in Handles \ {k} : g.hfs[x] = f.hfs[x]
      /\ g.state = f.state /\ g.type = f.type /\ g.fmt = f.fmt /\ g.handle = f.handle
  BY <1>1 DEF FsType
<1>4. \A x \in Handles : f.handles[x].handle \in Handles
  BY DEF FsType
<1>5. \A x \in Handles \ {h} : IsOpen(f, x) => f.handles[x].handle # k
  BY DEF Paired, k
<1> HIDE DEF g
<1>6. SameBut(f, g, h)
  BY <1>3, <1>4, <1>5 DEF SameBut, IsOpen, FileOf
<1>7. \A x \in Handles : g.hfs[x].name = f.hfs[x].name
  BY <1>1, <1>3
<1>8. Paired(g)
  BY <1>3, <1>4, <1>7 DEF Paired, IsOpen, FileOf
<1>9. IsOpen(g, h) /\ FileOf(g, h) = [name |-> FileOf(f, h).name, pos |-> n]
  BY <1>3, Zenon DEF IsOpen, FileOf, k
<1> QED
  BY <1>0, <1>2, <1>6, <1>8, <1>9 DEF k

(* fs_read of an open handle: the next chunk, or nothing.                  *)
LEMMA ReadFile ==
  ASSUME NEW f \in FsType, Paired(f), NEW h \in Handles, IsOpen(f, h), NEW fails
  PROVE  LET r == fs_read(f, h, fails)
         IN  /\ r.f \in FsType /\ Paired(r.f) /\ SameBut(f, r.f, h) /\ IsOpen(r.f, h)
             /\ FileOf(r.f, h).name = FileOf(f, h).name
             /\ \/ r.got = 0
                \/ r.got = FileOf(f, h).pos + 1 /\ FileOf(r.f, h).pos = r.got
             /\ r.got \in Nat
<1> DEFINE k == f.handles[h].handle
           r == fs_read(f, h, fails)
           moved == [f EXCEPT !.hfs[k].pos = f.hfs[k].pos + 1]
<1>1. k \in Handles /\ f.hfs[k].pos \in Nat /\ f.hfs[k] = FileOf(f, h)
  BY DEF FsType, FileOf
<1>2. r = host_fs_read(f, k, fails)
  BY DEF fs_read, IsOpen, Handles, MAX_OPEN_FILES
<1>3. CASE r = [f |-> f, got |-> 0]
  <2>1. SameBut(f, f, h)
    BY DEF SameBut
  <2> QED
    BY <1>3, <2>1
<1>4. CASE r = [f |-> moved, got |-> f.hfs[k].pos + 1]
  <2>0. f.hfs[k].pos + 1 \in Nat
    BY <1>1
  <2>1. /\ moved \in FsType /\ Paired(moved) /\ SameBut(f, moved, h) /\ IsOpen(moved, h)
        /\ FileOf(moved, h) = [name |-> FileOf(f, h).name, pos |-> f.hfs[k].pos + 1]
    BY <2>0, MoveFile, Zenon
  <2> HIDE DEF moved
  <2> QED
    BY <1>1, <1>4, <2>1
<1>5. r = [f |-> f, got |-> 0] \/ r = [f |-> moved, got |-> f.hfs[k].pos + 1]
  <2>1. moved = [f EXCEPT !.hfs[k].pos = @ + 1]
    BY Zenon
  <2> HIDE DEF moved
  <2> QED
    BY <1>2, <2>1, Zenon DEF host_fs_read
<1> QED
  BY <1>3, <1>4, <1>5

LEMMA SeekFile ==
  ASSUME NEW f \in FsType, Paired(f), NEW h \in Handles, IsOpen(f, h)
  PROVE  LET g == fs_seek(f, h)
         IN  /\ g \in FsType /\ Paired(g) /\ SameBut(f, g, h) /\ IsOpen(g, h)
             /\ FileOf(g, h) = [name |-> FileOf(f, h).name, pos |-> 0]
<1> DEFINE k == f.handles[h].handle
<1>1. k \in Handles /\ f.hfs[k].name # NULL
  BY DEF FsType, Paired, FileOf
<1>2. fs_seek(f, h) = [f EXCEPT !.hfs[k].pos = 0]
  BY <1>1 DEF fs_seek, host_fs_seek, IsOpen, Handles, MAX_OPEN_FILES
<1> QED
  BY <1>2, MoveFile

(* What holds of the file layer between two calls.                         *)
FsInv(f) ==
  /\ f \in FsType /\ Paired(f) /\ Leaked(f, f.handle)
  /\ f.handle # -1 => IsOpen(f, f.handle)
  /\ f.state = "FSS_OPEN" <=> f.handle # -1

LEMMA HandleRange == -1 \notin Handles
BY DEF Handles, MAX_OPEN_FILES

LEMMA StopFile ==
  ASSUME NEW f, FsInv(f)
  PROVE  LET g == fs_stop(f)
         IN  /\ FsInv(g) /\ g.handle = -1 /\ g.state = "FSS_CLOSED"
             /\ g.type = f.type /\ g.fmt = f.fmt
<1>1. CASE f.handle = -1
  <2>1. f.state = "FSS_CLOSED"
    BY <1>1 DEF FsInv, FsType
  <2> QED
    BY <1>1, <2>1 DEF fs_stop
<1>2. CASE f.handle # -1
  <2> DEFINE c == fs_close(f, f.handle)
             g == [c EXCEPT !.handle = -1, !.state = "FSS_CLOSED"]
  <2>1. f \in FsType /\ f.handle \in Handles /\ IsOpen(f, f.handle) /\ Paired(f)
    BY <1>2 DEF FsInv, FsType
  <2>2. c \in FsType /\ Paired(c) /\ ~IsOpen(c, f.handle) /\ SameBut(f, c, f.handle)
    BY <2>1, CloseFile
  <2>3. fs_stop(f) = g
    BY <1>2 DEF fs_stop
  <2> HIDE DEF c
  <2>4. /\ g \in FsType /\ g.handles = c.handles /\ g.hfs = c.hfs /\ g.handle = -1
        /\ g.state = "FSS_CLOSED" /\ g.type = c.type /\ g.fmt = c.fmt
    BY <2>2, Zenon DEF FsType
  <2> HIDE DEF g
  <2>5. Paired(g)
    BY <2>2, <2>4 DEF Paired, IsOpen, FileOf
  <2>6. Leaked(g, -1)
    <3>1. Leaked(c, -1)
      BY <2>1, <2>2 DEF FsInv, Leaked, SameBut
    <3> QED
      BY <3>1, <2>4 DEF Leaked, IsOpen, FileOf
  <2> QED
    BY <2>2, <2>3, <2>4, <2>5, <2>6 DEF FsInv, SameBut
<1> QED
  BY <1>1, <1>2

(* A handle that is open becomes the one played.                           *)
LEMMA SetPlayed ==
  ASSUME NEW f \in FsType, Paired(f), NEW h \in Handles, IsOpen(f, h), Leaked(f, h),
         NEW g \in FsType, g.handles = f.handles, g.hfs = f.hfs, g.handle = h,
         g.state = "FSS_OPEN"
  PROVE  FsInv(g) /\ FileOf(g, h) = FileOf(f, h)
<1>2. \A x \in Handles : (IsOpen(g, x) <=> IsOpen(f, x)) /\ FileOf(g, x) = FileOf(f, x)
  BY DEF IsOpen, FileOf
<1>3. Paired(g)
  BY <1>2 DEF Paired
<1>4. Leaked(g, h)
  BY <1>2 DEF Leaked
<1>5. FsInv(g)
  BY <1>2, <1>3, <1>4, HandleRange, Zenon DEF FsInv
<1> QED
  BY <1>2, <1>5

(* A file opened beside those that leak.                                   *)
LEMMA OpenAgain ==
  ASSUME NEW f, FsInv(f), f.handle = -1, NEW name \in DOMAIN Disk
  PROVE  LET r == fs_open(f, name)
         IN  \/ r.ret = -1 /\ r.f = f
             \/ /\ r.ret \in Handles /\ r.f \in FsType /\ Paired(r.f) /\ Leaked(r.f, r.ret)
                /\ IsOpen(r.f, r.ret) /\ FileOf(r.f, r.ret) = [name |-> name, pos |-> 0]
                /\ r.f.handle = -1 /\ r.f.state = f.state /\ r.f.type = f.type
<1> DEFINE r == fs_open(f, name)
<1>1. \/ r.ret = -1 /\ r.f = f
      \/ /\ r.ret \in Handles /\ r.f \in FsType /\ Paired(r.f)
         /\ ~IsOpen(f, r.ret) /\ IsOpen(r.f, r.ret)
         /\ FileOf(r.f, r.ret) = [name |-> name, pos |-> 0]
         /\ SameBut(f, r.f, r.ret)
  BY OpenFile DEF FsInv
<1> HIDE DEF r
<1>2. SameBut(f, r.f, r.ret) => Leaked(r.f, r.ret)
  BY HandleRange DEF SameBut, Leaked, FsInv
<1> QED
  BY <1>1, <1>2, Zenon DEF SameBut, r

LEMMA TypeFile ==
  ASSUME NEW f, FsInv(f), f.handle = -1, NEW name \in DOMAIN Disk, NEW fails
  PROVE  LET t == fs_type(f, name, fails)
         IN  FsInv(t.f) /\ t.f.handle = -1 /\ t.f.type = f.type
<1> DEFINE r == fs_open(f, name)
           d == fs_read(r.f, r.ret, fails)
           c == fs_close(d.f, r.ret)
<1>1. CASE r.ret = -1
  <2>1. fs_type(f, name, fails).f = f
    BY <1>1 DEF fs_type
  <2> QED
    BY <2>1
<1>2. CASE r.ret # -1
  <2>1. /\ r.ret \in Handles /\ r.f \in FsType /\ Paired(r.f) /\ Leaked(r.f, r.ret)
        /\ IsOpen(r.f, r.ret) /\ r.f.handle = -1 /\ r.f.state = f.state /\ r.f.type = f.type
    BY <1>2, OpenAgain, Zenon
  <2>2. /\ d.f \in FsType /\ Paired(d.f) /\ SameBut(r.f, d.f, r.ret) /\ IsOpen(d.f, r.ret)
    BY <2>1, ReadFile, Zenon
  <2>3. c \in FsType /\ Paired(c) /\ ~IsOpen(c, r.ret) /\ SameBut(d.f, c, r.ret)
    BY <2>1, <2>2, CloseFile, Zenon
  <2>4. fs_type(f, name, fails).f = c
    BY <1>2 DEF fs_type
  <2> HIDE DEF c, d, r
  <2>5. Leaked(c, -1)
    BY <2>1, <2>2, <2>3 DEF Leaked, SameBut
  <2>6. c.handle = -1 /\ c.state = f.state /\ c.type = f.type
    BY <2>1, <2>2, <2>3, Zenon DEF SameBut
  <2> QED
    BY <2>3, <2>4, <2>5, <2>6 DEF FsInv
<1> QED
  BY <1>1, <1>2

(* fs_open_riff on a Wave file, whose header may be broken or unreadable.  *)
LEMMA OpenRiff ==
  ASSUME NEW f, FsInv(f), f.handle = -1, NEW name \in DOMAIN Disk,
         Disk[name].kind \in {"riff", "bad_riff"},
         NEW fails \in {FALSE, ReadFaults}, NEW residue \in Residue
  PROVE  LET g == fs_open_riff(f, name, fails, residue)
         IN  /\ FsInv(g)
             /\ g.type = "FST_UNKNOWN" => g.handle = -1
             /\ g.handle # -1 => FileOf(g, g.handle).pos = 0
<1> DEFINE r == fs_open(f, name)
           d == fs_read(r.f, r.ret, fails)
           s == fs_seek(d.f, r.ret)
           buff == IF fails THEN residue ELSE name
           g == fs_open_riff(f, name, fails, residue)
<1>1. \/ r.ret = -1 /\ r.f = f
      \/ /\ r.ret \in Handles /\ r.f \in FsType /\ Paired(r.f) /\ Leaked(r.f, r.ret)
         /\ IsOpen(r.f, r.ret) /\ FileOf(r.f, r.ret) = [name |-> name, pos |-> 0]
         /\ r.f.handle = -1 /\ r.f.state = f.state /\ r.f.type = f.type
  BY OpenAgain
<1>2. CASE r.ret = -1
  <2>1. d.f = f
    BY <1>1, <1>2, HandleRange DEF fs_read
  <2>2. g = fs_stop(d.f)
    BY <1>2 DEF fs_open_riff
  <2>3. g = f
    BY <2>1, <2>2, Zenon DEF fs_stop
  <2> QED
    BY <2>3, Zenon
<1>3. CASE r.ret # -1
  <2>1. /\ r.ret \in Handles /\ r.f \in FsType /\ Paired(r.f) /\ Leaked(r.f, r.ret)
        /\ IsOpen(r.f, r.ret) /\ FileOf(r.f, r.ret) = [name |-> name, pos |-> 0]
        /\ r.f.handle = -1 /\ r.f.state = f.state /\ r.f.type = f.type
    BY <1>1, <1>3, Zenon
  <2>2. /\ d.f \in FsType /\ Paired(d.f) /\ SameBut(r.f, d.f, r.ret)
        /\ IsOpen(d.f, r.ret) /\ FileOf(d.f, r.ret).name = name
    <3>1. /\ d.f \in FsType /\ Paired(d.f) /\ SameBut(r.f, d.f, r.ret)
          /\ IsOpen(d.f, r.ret) /\ FileOf(d.f, r.ret).name = FileOf(r.f, r.ret).name
      <4> HIDE DEF r, s, g, buff
      <4> QED
        BY <2>1, ReadFile
    <3> HIDE DEF d, r
    <3> QED
      BY <2>1, <3>1
  <2>3. d.f.handle = -1 /\ d.f.state = f.state /\ d.f.type = f.type
    BY <2>1, <2>2, Zenon DEF SameBut
  <2>4. CASE buff = NULL \/ Disk[buff].kind # "riff"
    <3>1. g = fs_stop(d.f)
      BY <2>4 DEF fs_open_riff
    <3>2. g = d.f
      BY <2>3, <3>1 DEF fs_stop
    <3>3. Leaks(name)
      <4>1. CASE fails
        BY <4>1, Zenon DEF Leaks
      <4>2. CASE ~fails
        BY <2>4, <4>2, DiskAssumption DEF Leaks
      <4> QED
        BY <4>1, <4>2
    <3> HIDE DEF d, r, g
    <3>4. Leaked(d.f, -1)
      BY <2>1, <2>2, <3>3 DEF Leaked, SameBut
    <3>5. FsInv(d.f)
      BY <2>2, <2>3, <3>4 DEF FsInv
    <3> QED
      BY <2>3, <3>2, <3>5 DEF g
  <2>5. CASE buff # NULL /\ Disk[buff].kind = "riff"
    <3> DEFINE n == Disk[buff].fmt
    <3>1. n \in Nat
      BY <2>5, DiskAssumption DEF Residue
    <3>2. /\ s \in FsType /\ Paired(s) /\ SameBut(d.f, s, r.ret) /\ IsOpen(s, r.ret)
          /\ FileOf(s, r.ret) = [name |-> FileOf(d.f, r.ret).name, pos |-> 0]
      BY <2>1, <2>2, SeekFile, Zenon
    <3>3. g = [s EXCEPT !.type = "FST_RIFF", !.fmt = n, !.state = "FSS_OPEN",
                        !.handle = r.ret]
      BY <1>3, <2>5, Zenon DEF fs_open_riff
    <3> HIDE DEF s, d, r, g, n
    <3>4. Leaked(s, r.ret)
      BY <2>1, <2>2, <3>2 DEF Leaked, SameBut
    <3>5. /\ g \in FsType /\ g.handles = s.handles /\ g.hfs = s.hfs /\ g.handle = r.ret
          /\ g.state = "FSS_OPEN" /\ g.type = "FST_RIFF"
      BY <2>1, <3>1, <3>2, <3>3, Zenon DEF FsType
    <3>6. FsInv(g) /\ FileOf(g, r.ret) = FileOf(s, r.ret)
      BY <2>1, <3>2, <3>4, <3>5, SetPlayed
    <3> QED
      BY <3>2, <3>5, <3>6 DEF g
  <2> QED
    BY <2>4, <2>5, Zenon
<1> QED
  BY <1>2, <1>3

LEMMA OpenMp3 ==
  ASSUME NEW f, FsInv(f), f.handle = -1, NEW name \in DOMAIN Disk
  PROVE  LET g == fs_open_mp3(f, name)
         IN  /\ FsInv(g)
             /\ g.type = "FST_UNKNOWN" => g.handle = -1
             /\ g.handle # -1 => FileOf(g, g.handle).pos = 0
<1> DEFINE r == fs_open(f, name)
           g == fs_open_mp3(f, name)
<1>1. \/ r.ret = -1 /\ r.f = f
      \/ /\ r.ret \in Handles /\ r.f \in FsType /\ Paired(r.f) /\ Leaked(r.f, r.ret)
         /\ IsOpen(r.f, r.ret) /\ FileOf(r.f, r.ret) = [name |-> name, pos |-> 0]
         /\ r.f.handle = -1 /\ r.f.state = f.state /\ r.f.type = f.type
  BY OpenAgain
<1>2. CASE r.ret = -1
  <2>1. g = fs_stop(f)
    BY <1>1, <1>2, HandleRange DEF fs_open_mp3
  <2>2. g = f
    BY <2>1 DEF fs_stop
  <2> QED
    BY <2>2
<1>3. CASE r.ret # -1
  <2>1. g = [r.f EXCEPT !.type = "FST_MP3", !.state = "FSS_OPEN", !.handle = r.ret]
    BY <1>3, Zenon DEF fs_open_mp3
  <2> HIDE DEF r, g
  <2>2. /\ g \in FsType /\ g.handles = r.f.handles /\ g.hfs = r.f.hfs /\ g.handle = r.ret
        /\ g.state = "FSS_OPEN" /\ g.type = "FST_MP3"
    BY <1>1, <1>3, <2>1, Zenon DEF FsType
  <2>3. FsInv(g) /\ FileOf(g, r.ret) = FileOf(r.f, r.ret)
    BY <1>1, <1>3, <2>2, SetPlayed
  <2>4. FileOf(g, g.handle).pos = 0
    BY <1>1, <1>3, <2>2, <2>3
  <2> QED
    BY <2>2, <2>3, <2>4 DEF g
<1> QED
  BY <1>2, <1>3, Zenon

(* fs_play: the file is open at its start, or nothing has been opened that *)
(* does not leak.                                                          *)
LEMMA PlayFile ==
  ASSUME NEW f, FsInv(f), f.handle = -1, NEW name \in DOMAIN Disk, NEW reads \in Reads
  PROVE  LET g == fs_play(f, name, reads)
         IN  /\ FsInv(g)
             /\ g.type = "FST_UNKNOWN" => g.handle = -1
             /\ g.handle # -1 => FileOf(g, g.handle).pos = 0
<1> DEFINE t == fs_type(f, name, reads.type)
           g == fs_play(f, name, reads)
<1>1. FsInv(t.f) /\ t.f.handle = -1 /\ t.f.type = f.type
  BY TypeFile
<1>2. t.type = "FST_RIFF" => Disk[name].kind \in {"riff", "bad_riff"}
  BY DEF fs_type
<1>3. \/ t.type = "FST_RIFF" /\ g = fs_open_riff(t.f, name, reads.header, reads.residue)
      \/ g = fs_open_mp3(t.f, name)
      \/ g = t.f
  <2> HIDE DEF t
  <2> QED
    BY DEF fs_play, t
<1>4. reads.header \in {FALSE, ReadFaults} /\ reads.residue \in Residue
  BY Zenon DEF Reads
<1> HIDE DEF t, g
<1>5. CASE t.type = "FST_RIFF" /\ g = fs_open_riff(t.f, name, reads.header, reads.residue)
  <2> DEFINE h == reads.header
             x == reads.residue
  <2>1. h \in {FALSE, ReadFaults} /\ x \in Residue /\ g = fs_open_riff(t.f, name, h, x)
    BY <1>4, <1>5, Zenon
  <2>2. Disk[name].kind \in {"riff", "bad_riff"}
    BY <1>2, <1>5
  <2> HIDE DEF h, x
  <2>3. LET w == fs_open_riff(t.f, name, h, x)
        IN  /\ FsInv(w)
            /\ w.type = "FST_UNKNOWN" => w.handle = -1
            /\ w.handle # -1 => FileOf(w, w.handle).pos = 0
    BY <1>1, <2>1, <2>2, OpenRiff, Zenon
  <2> QED
    BY <2>1, <2>3 DEF g
<1>6. CASE g = fs_open_mp3(t.f, name)
  BY <1>1, <1>6, OpenMp3 DEF g
<1>7. CASE g = t.f
  BY <1>1, <1>7 DEF g
<1> QED
  BY <1>3, <1>5, <1>6, <1>7

-----------------------------------------------------------------------------
(* The event queue, which holds an event at most.                          *)

QueueType(q) ==
  /\ q = [head |-> q.head, tail |-> q.tail, events |-> q.events]
  /\ q.head \in Nat /\ q.tail \in Nat /\ DOMAIN q.events = 0 .. MAX_EVENTS - 1
  /\ \A k \in 0 .. MAX_EVENTS - 1 : q.events[k].type \in EventType

LEMMA QueuePush ==
  ASSUME NEW q, QueueType(q), q.head = q.tail, NEW type \in EventType, NEW ptr
  PROVE  LET p == event_push(q, type, ptr)
         IN  /\ QueueType(p) /\ p.head - p.tail = 1 /\ p.head # p.tail
             /\ event_front(p).type = type
<1> DEFINE p == event_push(q, type, ptr)
           e == [type |-> type, ptr |-> ptr]
<1>1. q.head \in Nat /\ q.tail \in Nat /\ DOMAIN q.events = 0 .. 7
      /\ \A k \in 0 .. 7 : q.events[k].type \in EventType
  BY DEF QueueType, MAX_EVENTS
<1>2. q.head % 8 \in 0 .. 7
  BY <1>1
<1>3. p = [head |-> q.head + 1, tail |-> q.head, events |-> [q.events EXCEPT ![q.head % 8] = e]]
  BY <1>1 DEF event_push, MAX_EVENTS
<1>4. p.head = q.head + 1 /\ p.tail = q.head
      /\ p.events = [q.events EXCEPT ![q.head % 8] = e]
      /\ p = [head |-> p.head, tail |-> p.tail, events |-> p.events]
  BY <1>3
<1> HIDE DEF p
<1>5. DOMAIN p.events = 0 .. 7 /\ p.events[q.head % 8] = e
      /\ \A k \in (0 .. 7) \ {q.head % 8} : p.events[k] = q.events[k]
  BY <1>1, <1>2, <1>4
<1>6. \A k \in 0 .. 7 : p.events[k].type \in EventType
  BY <1>1, <1>5
<1>7. QueueType(p)
  BY <1>1, <1>4, <1>5, <1>6 DEF QueueType, MAX_EVENTS
<1>8. event_front(p).type = type
  BY <1>1, <1>4, <1>5 DEF event_front, MAX_EVENTS
<1> QED
  BY <1>1, <1>4, <1>7, <1>8 DEF p

LEMMA QueuePop ==
  ASSUME NEW q, QueueType(q), q.head - q.tail = 1
  PROVE  LET p == event_pop(q) IN QueueType(p) /\ p.head = p.tail
<1>1. q.head \in Nat /\ q.tail \in Nat
  BY DEF QueueType
<1>2. event_pop(q) = [head |-> q.head, tail |-> q.tail + 1, events |-> q.events]
  BY <1>1 DEF event_pop, QueueType
<1> QED
  BY <1>1, <1>2 DEF QueueType

LEMMA QueueEmpty ==
  ASSUME NEW q, QueueType(q), q.head = q.tail
  PROVE  event_front(q).type = "E_NONE" /\ q.head - q.tail = 0
BY DEF QueueType, event_front, NoEvent

-----------------------------------------------------------------------------
(* What the operators of the player make of the state.                     *)

Fields == {"pl", "fss", "ns", "ls", "ss", "i", "o"}

IsActive(state) == state \in {"PL_PLAYING", "PL_BUFFERING"}

LEMMA StopFields ==
  ASSUME NEW S, DOMAIN S = Fields
  PROVE  LET T == pl_stop(S)
         IN  /\ DOMAIN T = Fields /\ T.ss = S.ss /\ T.i = S.i /\ T.o = S.o
             /\ IF IsActive(S.pl.state)
                THEN /\ T.pl = [S.pl EXCEPT !.state = "PL_STOP"]
                     /\ T.fss = fs_stop(S.fss) /\ T.ns = host_net_close(S.ns)
                     /\ T.ls = libmad_done(S.ls)
                ELSE T = S
<1> DEFINE T == pl_stop(S)
           x == fs_stop(S.fss)
           y == host_net_close(S.ns)
           z == libmad_done(S.ls)
           w == [S.pl EXCEPT !.state = "PL_STOP"]
<1>1. T = IF IsActive(S.pl.state) THEN [S EXCEPT !.fss = x, !.ns = y, !.ls = z, !.pl = w]
          ELSE S
  BY DEF pl_stop, Active, IsActive
<1>2. ASSUME IsActive(S.pl.state)
      PROVE  /\ DOMAIN T = Fields /\ T.ss = S.ss /\ T.i = S.i /\ T.o = S.o
             /\ T.pl = w /\ T.fss = x /\ T.ns = y /\ T.ls = z
  <2> HIDE DEF T, x, y, z, w
  <2> QED
    BY <1>1, <1>2 DEF Fields
<1> HIDE DEF T
<1> QED
  BY <1>1, <1>2 DEF T

LEMMA ProgFields ==
  /\ DOMAIN Prog = Fields /\ Prog.pl = pl /\ Prog.fss = fss /\ Prog.ns = ns
  /\ Prog.ls = ls /\ Prog.ss = ss /\ Prog.i = i /\ Prog.o = o
BY DEF Prog, Fields

LEMMA BecomesFields ==
  ASSUME NEW S, Becomes(S)
  PROVE  /\ pl' = S.pl /\ fss' = S.fss /\ ns' = S.ns /\ ls' = S.ls
         /\ ss' = S.ss /\ i' = S.i /\ o' = S.o
BY DEF Becomes

(* The effect of pl_stop on a player that is on.                           *)
Stops ==
  /\ IsActive(pl.state)
  /\ pl' = [pl EXCEPT !.state = "PL_STOP"] /\ fss' = fs_stop(fss)
  /\ ns' = host_net_close(ns) /\ ls' = libmad_done(ls)
  /\ UNCHANGED <<ss, i, o>>

LEMMA StopStep ==
  ASSUME Becomes(pl_stop(Prog))
  PROVE  Stops \/ UNCHANGED prog
<1> DEFINE T == pl_stop(Prog)
<1>1. /\ T.ss = ss /\ T.i = i /\ T.o = o
      /\ IF IsActive(pl.state)
         THEN /\ T.pl = [pl EXCEPT !.state = "PL_STOP"]
              /\ T.fss = fs_stop(fss) /\ T.ns = host_net_close(ns)
              /\ T.ls = libmad_done(ls)
         ELSE T.pl = pl /\ T.fss = fss /\ T.ns = ns /\ T.ls = ls
  BY ProgFields, StopFields
<1>2. /\ pl' = T.pl /\ fss' = T.fss /\ ns' = T.ns /\ ls' = T.ls
      /\ ss' = T.ss /\ i' = T.i /\ o' = T.o
  BY BecomesFields
<1> HIDE DEF T
<1> QED
  BY <1>1, <1>2 DEF Stops, prog

(* pl_poll leaves a stopped player alone, stops one whose source has ended *)
(* or failed, or turns between playing and buffering.                      *)
LEMMA PollStep ==
  ASSUME pl \in [state : {"PL_STOP", "PL_PLAYING", "PL_BUFFERING"},
                 source_type : {"PS_UNKNOWN", "PS_NET", "PS_FILE"}],
         Becomes(pl_poll(Prog))
  PROVE  \/ pl.state = "PL_STOP" /\ UNCHANGED prog
         \/ Stops
         \/ /\ IsActive(pl.state)
            /\ pl'.source_type = pl.source_type /\ IsActive(pl'.state)
            /\ pl' = [state |-> pl'.state, source_type |-> pl'.source_type]
            /\ UNCHANGED <<fss, ns, ls, ss, i, o>>
            /\ ns.state # "NET_ERROR" /\ ss.state # "SS_ERROR" /\ ls.state # "LM_ERROR"
            /\ pl.source_type = "PS_FILE" => fss.state # "FSS_CLOSED"
            /\ pl.source_type = "PS_NET" => ns.state # "NET_CLOSED"
<1> DEFINE T == pl_poll(Prog)
           b == pl_buffered(Prog)
           failed == ns.state = "NET_ERROR" \/ ss.state = "SS_ERROR" \/ ls.state = "LM_ERROR"
           c == IF failed THEN pl_stop(b) ELSE b
           ended == \/ pl.source_type = "PS_FILE" /\ fss.state = "FSS_CLOSED"
                    \/ pl.source_type = "PS_NET" /\ ns.state = "NET_CLOSED"
           e == IF Active(c) /\ ended THEN pl_stop(c) ELSE c
           starved == e.pl.state = "PL_PLAYING" /\ io_starving(e.i, e.o)
           Stopped(S) == /\ S.pl = [pl EXCEPT !.state = "PL_STOP"] /\ S.fss = fs_stop(fss)
                         /\ S.ns = host_net_close(ns) /\ S.ls = libmad_done(ls)
                         /\ S.ss = ss /\ S.i = i /\ S.o = o
           On(S) == /\ S.pl.source_type = pl.source_type /\ IsActive(S.pl.state)
                    /\ S.pl = [state |-> S.pl.state, source_type |-> S.pl.source_type]
                    /\ S.fss = fss /\ S.ns = ns /\ S.ls = ls
                    /\ S.ss = ss /\ S.i = i /\ S.o = o
<1>1. /\ pl' = T.pl /\ fss' = T.fss /\ ns' = T.ns /\ ls' = T.ls
      /\ ss' = T.ss /\ i' = T.i /\ o' = T.o
  BY BecomesFields
<1>2. T = IF ~Active(Prog) THEN Prog
          ELSE IF starved THEN [e EXCEPT !.pl.state = "PL_BUFFERING"] ELSE e
  <2>1. (pl_failed(Prog) <=> failed) /\ (pl_ended(Prog) <=> ended)
    BY ProgFields, Zenon DEF pl_failed, pl_ended
  <2> DEFINE c0 == IF pl_failed(Prog) THEN pl_stop(b) ELSE b
             e0 == IF Active(c0) /\ pl_ended(Prog) THEN pl_stop(c0) ELSE c0
  <2>2. T = IF ~Active(Prog) THEN Prog ELSE pl_starved(e0)
    BY DEF pl_poll
  <2> HIDE DEF T, b, failed, ended
  <2>3. c0 = c
    BY <2>1, Zenon
  <2> HIDE DEF c0, c
  <2>4. e0 = e
    BY <2>1, <2>3, Zenon
  <2> HIDE DEF e0, e
  <2> QED
    BY <2>2, <2>4, Zenon DEF pl_starved
<1> HIDE DEF T
<1>3. Active(Prog) <=> IsActive(pl.state)
  BY ProgFields DEF Active, IsActive
<1>4. CASE ~IsActive(pl.state)
  <2>1. T = Prog
    BY <1>2, <1>3, <1>4
  <2>2. pl.state = "PL_STOP"
    BY <1>4 DEF IsActive
  <2> QED
    BY <1>1, <2>1, <2>2, ProgFields, Zenon DEF prog
<1>5. CASE IsActive(pl.state)
  <2>1. DOMAIN b = Fields /\ On(b) /\ [b.pl EXCEPT !.state = "PL_STOP"] = [pl EXCEPT !.state = "PL_STOP"]
    <3>1. CASE pl.state = "PL_BUFFERING" /\ io_free(i) = 0
      <4>1. b = [Prog EXCEPT !.pl = [pl EXCEPT !.state = "PL_PLAYING"]]
        BY <3>1, ProgFields DEF pl_buffered
      <4>2. DOMAIN b = Fields /\ b.pl = [pl EXCEPT !.state = "PL_PLAYING"]
            /\ b.fss = fss /\ b.ns = ns /\ b.ls = ls /\ b.ss = ss /\ b.i = i /\ b.o = o
        <5> HIDE DEF b
        <5> DEFINE q == [pl EXCEPT !.state = "PL_PLAYING"]
        <5> HIDE DEF q
        <5> QED
          BY <4>1, ProgFields DEF Fields, q
      <4> HIDE DEF b
      <4>3. b.pl = [state |-> "PL_PLAYING", source_type |-> pl.source_type]
        BY <4>2
      <4> QED
        BY <4>2, <4>3, Zenon DEF IsActive
    <3>2. CASE ~(pl.state = "PL_BUFFERING" /\ io_free(i) = 0)
      <4>1. b = Prog
        BY <3>2, ProgFields DEF pl_buffered
      <4> HIDE DEF b
      <4> QED
        BY <4>1, <1>5, ProgFields
    <3> QED
      BY <3>1, <3>2
  <2> HIDE DEF b
  <2>2. DOMAIN pl_stop(b) = Fields /\ Stopped(pl_stop(b))
    BY <2>1, StopFields
  <2>3. ASSUME NEW S, Stopped(S) PROVE ~Active(S) /\ S.pl.state = "PL_STOP"
    BY <2>3 DEF Active
  <2>4. ASSUME NEW S, On(S) PROVE Active(S)
    BY <2>4 DEF Active, IsActive
  <2>5. CASE failed \/ ended
    <3>1. DOMAIN e = Fields /\ Stopped(e)
      BY <2>1, <2>2, <2>3, <2>4, <2>5, Zenon
    <3>2. T = e
      BY <1>2, <1>3, <1>5, <2>3, <3>1
    <3> HIDE DEF e
    <3> QED
      BY <1>1, <1>5, <3>1, <3>2 DEF Stops
  <2>6. CASE ~failed /\ ~ended
    <3>1. e = b
      BY <2>6
    <3> HIDE DEF e
    <3>2. CASE starved
      <4>1. T = [b EXCEPT !.pl = [b.pl EXCEPT !.state = "PL_BUFFERING"]]
        BY <1>2, <1>3, <1>5, <3>1, <3>2
      <4>2. b.pl = [state |-> b.pl.state, source_type |-> b.pl.source_type]
        BY <2>1
      <4>3. [b.pl EXCEPT !.state = "PL_BUFFERING"] =
            [state |-> "PL_BUFFERING", source_type |-> b.pl.source_type]
        BY <4>2
      <4>4. T = [b EXCEPT !.pl = [state |-> "PL_BUFFERING", source_type |-> pl.source_type]]
        BY <2>1, <4>1, <4>3
      <4>5. T.pl = [state |-> "PL_BUFFERING", source_type |-> pl.source_type]
            /\ T.fss = fss /\ T.ns = ns /\ T.ls = ls /\ T.ss = ss /\ T.i = i /\ T.o = o
        BY <2>1, <4>4 DEF Fields
      <4>6. On(T)
        BY <4>5 DEF IsActive
      <4> QED
        BY <1>1, <1>5, <2>6, <4>6
    <3>3. CASE ~starved
      <4>1. T = b
        BY <1>2, <1>3, <1>5, <3>1, <3>3
      <4> QED
        BY <1>1, <1>5, <2>1, <2>6, <4>1
    <3> QED
      BY <3>2, <3>3
  <2> QED
    BY <2>5, <2>6
<1> QED
  BY <1>4, <1>5

PlType == [state : {"PL_STOP", "PL_PLAYING", "PL_BUFFERING"},
           source_type : {"PS_UNKNOWN", "PS_NET", "PS_FILE"}]

NsType == [state : {"NET_OPEN", "NET_CLOSED", "NET_ERROR"}]

(* pl_play: rings and decoder are new, and there is one source at most.    *)
LEMMA PlayStep ==
  ASSUME pl \in PlType, ns \in NsType, StoppedReleasesSource, FsInv(fss),
         NEW what, NEW reads \in Reads, NEW fails, Becomes(pl_play(Prog, what, reads, fails))
  PROVE  /\ pl' \in PlType /\ ns' \in NsType /\ FsInv(fss') /\ ss' = ss /\ ls' = libmad_init
         /\ i' = io_reset(4, BlankInput) /\ o' = io_reset(4, BlankOutput)
         /\ pl'.state = "PL_STOP" => fss'.handle = -1 /\ ns'.state = "NET_CLOSED"
         /\ fss'.handle # -1 => /\ ns'.state = "NET_CLOSED"
                                /\ FileOf(fss', fss'.handle).pos = 0
<1> DEFINE s == pl_stop(Prog)
           t == [io_init(s) EXCEPT !.ls = libmad_init]
           T == pl_play(Prog, what, reads, fails)
           Good(S) ==
             /\ S.pl \in PlType /\ S.ns \in NsType /\ FsInv(S.fss) /\ S.ss = ss
             /\ S.ls = libmad_init
             /\ S.i = io_reset(4, BlankInput) /\ S.o = io_reset(4, BlankOutput)
             /\ S.pl.state = "PL_STOP" => S.fss.handle = -1 /\ S.ns.state = "NET_CLOSED"
             /\ S.fss.handle # -1 => /\ S.ns.state = "NET_CLOSED"
                                     /\ FileOf(S.fss, S.fss.handle).pos = 0
<1>1. /\ DOMAIN s = Fields /\ s.ss = ss
      /\ IF IsActive(pl.state)
         THEN /\ s.pl = [pl EXCEPT !.state = "PL_STOP"]
              /\ s.fss = fs_stop(fss) /\ s.ns = host_net_close(ns)
         ELSE s.pl = pl /\ s.fss = fss /\ s.ns = ns
  BY ProgFields, StopFields
<1>2. /\ FsInv(s.fss) /\ s.fss.handle = -1
      /\ s.ns \in NsType /\ s.ns.state = "NET_CLOSED"
      /\ s.pl \in PlType /\ s.pl.state = "PL_STOP"
  <2> HIDE DEF s
  <2>1. CASE IsActive(pl.state)
    <3>1. FsInv(s.fss) /\ s.fss.handle = -1
      BY <1>1, <2>1, StopFile
    <3>2. s.ns \in NsType /\ s.ns.state = "NET_CLOSED"
      BY <1>1, <2>1 DEF host_net_close, NsType
    <3>3. s.pl \in PlType /\ s.pl.state = "PL_STOP"
      BY <1>1, <2>1 DEF PlType
    <3> QED
      BY <3>1, <3>2, <3>3
  <2>2. CASE ~IsActive(pl.state)
    <3>1. pl.state = "PL_STOP"
      BY <2>2 DEF PlType, IsActive
    <3> QED
      BY <1>1, <2>2, <3>1 DEF StoppedReleasesSource
  <2> QED
    BY <2>1, <2>2
<1>3. /\ DOMAIN t = Fields /\ t.pl = s.pl /\ t.fss = s.fss /\ t.ns = s.ns /\ t.ss = ss
      /\ t.ls = libmad_init
      /\ t.i = io_reset(4, BlankInput) /\ t.o = io_reset(4, BlankOutput)
  <2> DEFINE x == io_reset(4, BlankInput)
             y == io_reset(4, BlankOutput)
             u == io_init(s)
  <2>1. u = [s EXCEPT !.i = x, !.o = y]
    BY DEF io_init, MAX_INPUT_BUFFERS, MAX_OUTPUT_BUFFERS
  <2> HIDE DEF s, x, y, u
  <2>2. /\ DOMAIN u = Fields /\ u.pl = s.pl /\ u.fss = s.fss /\ u.ns = s.ns /\ u.ss = ss
        /\ u.i = x /\ u.o = y
    BY <1>1, <2>1 DEF Fields
  <2> DEFINE z == libmad_init
  <2>3. t = [u EXCEPT !.ls = z]
    BY DEF u
  <2> HIDE DEF t, z
  <2>4. /\ DOMAIN t = Fields /\ t.pl = s.pl /\ t.fss = s.fss /\ t.ns = s.ns /\ t.ss = ss
        /\ t.ls = z /\ t.i = x /\ t.o = y
    BY <2>2, <2>3 DEF Fields
  <2> QED
    BY <2>4 DEF x, y, z
<1>4. T = IF what \in DOMAIN Disk THEN pl_play_file(t, what, reads) ELSE pl_play_net(t, fails)
  BY Zenon DEF pl_play
<1> HIDE DEF s, t
<1>5. CASE what \notin DOMAIN Disk
  <2> DEFINE x == [state |-> "PL_BUFFERING", source_type |-> "PS_NET"]
             y == host_net_open(t.ns, fails)
  <2>1. T = [t EXCEPT !.pl = x, !.ns = y]
    BY <1>4, <1>5 DEF pl_play_net
  <2>2. x \in PlType /\ x.state # "PL_STOP"
    BY DEF PlType
  <2>3. y \in NsType
    BY <1>2, <1>3 DEF NsType, host_net_open
  <2> HIDE DEF T, x, y
  <2>4. /\ T.pl = x /\ T.fss = t.fss /\ T.ns = y /\ T.ss = t.ss /\ T.ls = t.ls
        /\ T.i = t.i /\ T.o = t.o
    BY <1>3, <2>1, Zenon DEF Fields
  <2>5. Good(T)
    BY <1>2, <1>3, <2>2, <2>3, <2>4
  <2> QED
    BY <2>5, BecomesFields, Zenon DEF T
<1>6. CASE what \in DOMAIN Disk
  <2> DEFINE f == fs_play(t.fss, what, reads)
             q == [t.pl EXCEPT !.source_type = "PS_FILE"]
             u == [t EXCEPT !.pl.source_type = "PS_FILE", !.fss = fs_play(@, what, reads)]
  <2>1. /\ FsInv(f)
        /\ f.type = "FST_UNKNOWN" => f.handle = -1
        /\ f.handle # -1 => FileOf(f, f.handle).pos = 0
    BY <1>2, <1>3, <1>6, PlayFile, Zenon
  <2>2. q \in PlType /\ q.state = "PL_STOP" /\ q.source_type = "PS_FILE"
    BY <1>2, <1>3 DEF PlType
  <2>3. u = [t EXCEPT !.pl = q, !.fss = f]
    OBVIOUS
  <2>4. T = CASE u.fss.type \in {"FST_UNKNOWN", "FST_NONE"} -> pl_stop(u)
              [] u.fss.type = "FST_RIFF" -> [u EXCEPT !.pl.state = "PL_PLAYING"]
              [] u.fss.type = "FST_MP3" -> [u EXCEPT !.pl.state = "PL_BUFFERING"]
    BY <1>4, <1>6, Zenon DEF pl_play_file
  <2> HIDE DEF T, u, q, f
  <2>5. /\ DOMAIN u = Fields /\ u.pl = q /\ u.fss = f /\ u.ns = t.ns /\ u.ss = t.ss
        /\ u.ls = t.ls /\ u.i = t.i /\ u.o = t.o
    BY <1>3, <2>3 DEF Fields
  <2>6. f.type \in {"FST_UNKNOWN", "FST_RIFF", "FST_MP3"}
    BY <2>1, Zenon DEF FsInv, FsType
  <2>7. CASE f.type = "FST_UNKNOWN"
    <3>1. T = pl_stop(u)
      BY <2>4, <2>5, <2>7
    <3>2. ~IsActive(u.pl.state)
      BY <2>2, <2>5 DEF IsActive
    <3>3. T = u
      BY <3>1, <3>2, <2>5, StopFields, Zenon
    <3>4. Good(T)
      BY <1>2, <1>3, <2>1, <2>2, <2>5, <2>7, <3>3, Zenon
    <3> QED
      BY <3>4, BecomesFields DEF T
  <2>8. ASSUME NEW state \in {"PL_PLAYING", "PL_BUFFERING"}, T = [u EXCEPT !.pl.state = state]
        PROVE  Good(T)
    <3> DEFINE r == [q EXCEPT !.state = state]
    <3>1. T = [u EXCEPT !.pl = r]
      BY <2>5, <2>8
    <3>2. r \in PlType /\ r.state # "PL_STOP"
      BY <2>2, <2>8 DEF PlType
    <3> HIDE DEF r
    <3>3. /\ T.pl = r /\ T.fss = f /\ T.ns = t.ns /\ T.ss = t.ss /\ T.ls = t.ls
          /\ T.i = t.i /\ T.o = t.o
      BY <2>5, <3>1 DEF Fields
    <3> QED
      BY <1>2, <1>3, <2>1, <3>2, <3>3
  <2>9. CASE f.type # "FST_UNKNOWN"
    <3>1. \E state \in {"PL_PLAYING", "PL_BUFFERING"} : T = [u EXCEPT !.pl.state = state]
      <4>1. CASE f.type = "FST_RIFF"
        BY <2>4, <2>5, <4>1
      <4>2. CASE f.type = "FST_MP3"
        BY <2>4, <2>5, <4>2
      <4> QED
        BY <2>6, <2>9, <4>1, <4>2
    <3> QED
      BY <3>1, <2>8, BecomesFields, Zenon DEF T
  <2> QED
    BY <2>7, <2>9, Zenon
<1> QED
  BY <1>5, <1>6

-----------------------------------------------------------------------------
(* The parts of the invariant, and what leaves them alone.                 *)

LsType == [state : {"LM_UNKNOWN", "LM_INIT", "LM_DONE", "LM_ERROR"},
           err_count : Nat, Frames : Nat, play : Nat]

SsType == [state : {"SS_INIT", "SS_PLAYING", "SS_PAUSE", "SS_ERROR"}, fmt : Nat]

ConType == [lock : BOOLEAN, input : Commands \cup {NoLine}]

LEMMA Types ==
  TypeOK <=> /\ pl \in PlType /\ fss \in FsType /\ ns \in NsType /\ ls \in LsType
             /\ ss \in SsType /\ i \in Ring(4, InputBuffer) /\ o \in Ring(4, OutputBuffer)
             /\ QueueType(ev) /\ con \in ConType
             /\ quit \in BOOLEAN /\ pc \in Calls
             /\ burst \in Nat /\ flooded \in BOOLEAN
             /\ plays \in Nat /\ typed \in Nat /\ heard \in OutputBuffer
BY DEF TypeOK, PlType, NsType, LsType, SsType, QueueType, ConType, MAX_INPUT_BUFFERS,
       MAX_OUTPUT_BUFFERS

LEMMA TypesNext ==
  ASSUME pl' \in PlType, fss' \in FsType, ns' \in NsType, ls' \in LsType,
         ss' \in SsType, i' \in Ring(4, InputBuffer), o' \in Ring(4, OutputBuffer),
         QueueType(ev'), con' \in ConType, quit' \in BOOLEAN, pc' \in Calls,
         burst' \in Nat, flooded' \in BOOLEAN, plays' \in Nat, typed' \in Nat, heard' \in OutputBuffer
  PROVE  TypeOK'
BY DEF TypeOK, PlType, NsType, LsType, SsType, QueueType, ConType, MAX_INPUT_BUFFERS,
       MAX_OUTPUT_BUFFERS

LEMMA FilesNow ==
  ASSUME PlaybackInv
  PROVE  FsInv(fss)
<1>1. fss \in FsType
  BY DEF PlaybackInv, TypeOK
<1> QED
  BY <1>1, Matches DEF PlaybackInv, SourceInv, FsInv

LEMMA FilesNext ==
  ASSUME FsInv(fss')
  PROVE  fss' \in FsType /\ HandlesMatch' /\ (fss'.state = "FSS_OPEN" <=> fss'.handle # -1)
BY DEF HandlesMatch, FsInv, Paired, Leaked, IsOpen, FileOf, FsType

LEMMA SameFiles ==
  ASSUME HandlesMatch, UNCHANGED fss
  PROVE  HandlesMatch'
BY Zenon DEF HandlesMatch

LEMMA SameInput ==
  ASSUME RingInv(i), UNCHANGED i
  PROVE  RingInv(i)'
BY DEF RingInv

LEMMA SameQueue ==
  ASSUME QueueInv, UNCHANGED <<ev, con>>,
         \/ pc # "event_loop" /\ pc' \notin {"con_poll", "pl_poll", "done", "exited"}
         \/ pc' = pc
         \/ ev.head = ev.tail
  PROVE  QueueInv'
BY DEF QueueInv, EventsFit

(* Nothing about the order of the buffers changes.                         *)
LEMMA SameOrder ==
  ASSUME CurrentInv, OutputInv, UNCHANGED <<i, o, fss, ns, flooded, plays, heard>>,
         ls'.Frames = ls.Frames, ss'.state = "SS_ERROR" <=> ss.state = "SS_ERROR",
         pc' = "mad_decode" => pc = "mad_decode" /\ burst' = burst
  PROVE  CurrentInv' /\ OutputInv'
<1>1. CurrentInv'
  BY Zenon DEF CurrentInv, InRing, At
<1>2. OrderInv => OrderInv'
  BY Zenon DEF OrderInv, MayDecode, ReadsWave, PlayedFile, Mute, InRing, At
<1>3. (RingInv(o) => RingInv(o)') /\ (BurstInv => BurstInv')
  BY DEF RingInv, BurstInv
<1> QED
  BY <1>1, <1>2, <1>3 DEF OutputInv

(* The order of the buffers after a step, part by part.                    *)
LEMMA OrderNext ==
  ASSUME \A k \in InRing(o') : At(o', k).fmt # 0 => At(o', k).serial = k + 1,
         \A j, k \in InRing(o') : j < k /\ At(o', j).fmt = 0 => At(o', k).fmt = 0,
         MayDecode' => ls'.Frames = o'.head /\ \A k \in InRing(o') : At(o', k).fmt # 0,
         ReadsWave' => /\ i'.head = 0 /\ PlayedFile'.pos = o'.head
                       /\ \A k \in InRing(o') : At(o', k).fmt = fss'.fmt,
         \/ ss'.state = "SS_ERROR" \/ Mute'
         \/ o'.tail = IF heard'.play = plays' THEN heard'.serial ELSE 0
  PROVE  OrderInv'
BY Zenon DEF OrderInv, InRing, At

LEMMA CurrentNext ==
  ASSUME heard'.play <= plays',
         \A k \in InRing(i') : At(i', k).used # 0 => At(i', k).play = plays',
         \A s \in 0 .. 3 : o'.slot[s].fmt # 0 => o'.slot[s].play = plays', Loose(o')
  PROVE  CurrentInv'
<1>1. 0 .. MAX_OUTPUT_BUFFERS - 1 = 0 .. 3
  BY DEF MAX_OUTPUT_BUFFERS
<1> QED
  BY <1>1, Zenon DEF CurrentInv, InRing, At, Loose

LEMMA OutputNext ==
  ASSUME flooded' \/ (RingInv(o') /\ BurstInv' /\ OrderInv')
  PROVE  OutputInv'
BY DEF OutputInv, RingInv

(* The slots of the output ring hold buffers of this play only.            *)
LEMMA CurrentSlots ==
  ASSUME CurrentInv
  PROVE  /\ Loose(o) /\ heard.play <= plays
         /\ \A s \in 0 .. 3 : o.slot[s].fmt # 0 => o.slot[s].play = plays
         /\ \A k \in InRing(i) : At(i, k).used # 0 => At(i, k).play = plays
BY DEF CurrentInv, Loose, MAX_OUTPUT_BUFFERS

(* Without a source there is less to say about the order.                  *)
LEMMA EndedOrder ==
  ASSUME CurrentInv, OutputInv, UNCHANGED <<i, o, flooded, plays, heard, ss>>,
         ls'.Frames = ls.Frames, fss'.handle = -1, ns'.state # "NET_OPEN",
         pc' # "mad_decode"
  PROVE  CurrentInv' /\ OutputInv'
<1>1. MayDecode' => MayDecode
  BY DEF MayDecode
<1>2. ~ReadsWave'
  BY DEF ReadsWave
<1>3. Mute => Mute'
  BY <1>1, <1>2 DEF Mute, InRing, At
<1>4. CurrentInv'
  BY Zenon DEF CurrentInv, InRing, At
<1>5. OrderInv => OrderInv'
  BY <1>1, <1>2, <1>3 DEF OrderInv, InRing, At
<1>6. (RingInv(o) => RingInv(o)') /\ BurstInv'
  BY Zenon DEF RingInv, BurstInv
<1> QED
  BY <1>4, <1>5, <1>6 DEF OutputInv

(* A step of the main loop that touches neither source nor rings.          *)
LEMMA SameSource ==
  ASSUME SourceInv, UNCHANGED <<pl, fss, ns, i>>, ls'.state = ls.state, pc' # "con_poll"
  PROVE  SourceInv'
BY DEF SourceInv, StoppedReleasesSource, SourceOpen

LEMMA Unchanged ==
  ASSUME PlaybackInv, UNCHANGED vars
  PROVE  PlaybackInv'
<1> USE DEF PlaybackInv
<1>1. TypeOK'
  BY Types, TypesNext DEF vars, prog
<1>2. HandlesMatch' /\ RingInv(i)'
  BY SameFiles, SameInput DEF vars, prog
<1>3. QueueInv'
  BY SameQueue, Zenon DEF vars
<1>4. SourceInv'
  BY DEF vars, prog, SourceInv, StoppedReleasesSource, SourceOpen
<1>5. DecoderInv'
  BY DEF vars, prog, DecoderInv
<1>6. CurrentInv' /\ OutputInv'
  BY SameOrder, Zenon DEF vars, prog
<1> QED
  BY <1>1, <1>2, <1>3, <1>4, <1>5, <1>6

-----------------------------------------------------------------------------
(* The invariant holds at the start.                                       *)

LEMMA InitInv ==
  ASSUME Init
  PROVE  PlaybackInv
<1>0. /\ pl = [state |-> "PL_STOP", source_type |-> "PS_UNKNOWN"] /\ pl.state = "PL_STOP"
      /\ ns = [state |-> "NET_CLOSED"] /\ ns.state = "NET_CLOSED"
      /\ fss = fs_init /\ ls = libmad_zero /\ ss \in host_snd_init
      /\ i = io_reset(4, BlankInput) /\ o = io_reset(4, BlankOutput) /\ ev = event_init
      /\ con = [lock |-> FALSE, input |-> NoLine] /\ quit = FALSE /\ pc = "con_poll"
      /\ burst = 0 /\ flooded = FALSE /\ plays = 0 /\ typed = 0 /\ heard = BlankOutput
  BY Zenon DEF Init, MAX_INPUT_BUFFERS, MAX_OUTPUT_BUFFERS
<1>1. /\ i \in Ring(4, InputBuffer) /\ RingInv(i) /\ i.head = 0 /\ i.tail = 0 /\ InRing(i) = {}
      /\ o \in Ring(4, OutputBuffer) /\ RingInv(o) /\ o.head = 0 /\ o.tail = 0 /\ InRing(o) = {}
      /\ o.max_buffers = 4 /\ \A s \in 0 .. 3 : o.slot[s].fmt = 0
  <2>1. BlankInput \in InputBuffer /\ BlankOutput \in OutputBuffer /\ BlankOutput.fmt = 0
    BY SMT DEF BlankInput, BlankOutput, InputBuffer, OutputBuffer
  <2>2. i = io_reset(4, BlankInput) /\ o = io_reset(4, BlankOutput)
    BY <1>0, Zenon
  <2> QED
    BY <2>1, <2>2, RingReset
<1>2. QueueType(ev) /\ ev.head = ev.tail /\ ev.head - ev.tail = 0 /\ event_front(ev).type = "E_NONE"
  <2>1. ev = event_init
    BY <1>0, Zenon
  <2> QED
    BY <2>1 DEF QueueType, event_init, NoEvent, EventType, event_front
<1>3. fss \in FsType /\ fss.handle = -1 /\ fss.state = "FSS_CLOSED" /\ HandlesMatch
  <2>1. 0 \in Handles
    BY DEF Handles, MAX_OPEN_FILES
  <2> QED
    BY <1>0, <2>1, Zenon DEF fs_init, FsType, HandlesMatch
<1>4. ls \in LsType /\ ls.state = "LM_UNKNOWN" /\ ls.Frames = 0
  <2>1. ls = libmad_zero
    BY <1>0, Zenon
  <2> QED
    BY <2>1 DEF libmad_zero, LsType
<1>5. ss \in SsType
  <2>1. ss \in host_snd_init
    BY <1>0, Zenon
  <2> QED
    BY <2>1 DEF host_snd_init, SsType
<1>6. heard \in OutputBuffer /\ heard.play = 0 /\ heard.serial = 0
  BY <1>0, Zenon DEF BlankOutput, OutputBuffer
<1>7. TypeOK
  <2>1. /\ pl \in PlType /\ ns \in NsType /\ con \in ConType /\ quit \in BOOLEAN
        /\ pc \in Calls /\ burst \in Nat /\ flooded \in BOOLEAN
        /\ plays \in Nat /\ typed \in Nat
    BY <1>0, Zenon DEF PlType, NsType, ConType, Calls
  <2> QED
    BY <1>1, <1>2, <1>3, <1>4, <1>5, <1>6, <2>1, Types, Zenon
<1>8. QueueInv
  BY <1>0, <1>2 DEF QueueInv, EventsFit
<1>9. SourceInv
  BY <1>0, <1>1, <1>3, <1>4 DEF SourceInv, StoppedReleasesSource, SourceOpen
<1>10. DecoderInv
  BY <1>0, Zenon DEF DecoderInv
<1>11. OrderInv
  <2>1. ~ReadsWave
    BY <1>3, Zenon DEF ReadsWave
  <2>2. /\ ls.Frames = o.head
        /\ o.tail = IF heard.play = plays THEN heard.serial ELSE 0
    BY <1>0, <1>1, <1>4, <1>6, Zenon
  <2>3. \A k \in InRing(o) : FALSE
    BY <1>1, Zenon
  <2> QED
    BY <2>1, <2>2, <2>3, Zenon DEF OrderInv
<1>12. CurrentInv
  <2>1. \A k \in InRing(i) : FALSE
    BY <1>1, Zenon
  <2>2. heard.play <= plays /\ o.tail <= o.head /\ o.head - o.tail <= o.max_buffers + 1
    BY <1>0, <1>1, <1>6, SMT
  <2>3. \A s \in 0 .. MAX_OUTPUT_BUFFERS - 1 : o.slot[s].fmt = 0
    BY <1>1, SMT DEF MAX_OUTPUT_BUFFERS
  <2> QED
    BY <2>1, <2>2, <2>3, Zenon DEF CurrentInv
<1>13. OutputInv
  BY <1>0, <1>1, <1>11, Zenon DEF OutputInv, BurstInv
<1> QED
  BY <1>1, <1>3, <1>7, <1>8, <1>9, <1>10, <1>12, <1>13, Zenon DEF PlaybackInv
=============================================================================
