---------------------------- MODULE CacheProofs -----------------------------
(***************************************************************************)
(* Proofs about the buffer cache, for any number of processes, buffers and *)
(* blocks.  What the driver and the device do is covered by what they      *)
(* leave alone: DriverStep.                                                *)
(***************************************************************************)
EXTENDS BufferCache, FiniteSetTheorems, WellFoundedInduction, TLAPS

\* struct buf, whatever its data is.
Fields == {"blockno", "valid", "refcnt", "disk", "data"}
Shaped(r) == r = [f \in Fields |-> r[f]]

\* Where a process has the sleep lock of its buffer.
Locked == {"read", "read_full", "reading", "read_done", "hold",
           "write", "write_full", "writing", "write_done"}
Users(b) == {p \in Procs : cur[p] = b}
Pin(b) == IF b \in pinned THEN 1 ELSE 0

Types ==
    /\ pc \in [Procs -> Labels]
    /\ cur \in [Procs -> Bufs \cup {None}]
    /\ lock \in [Bufs -> Procs \cup {None}]
    /\ pinned \subseteq Bufs /\ unpin \subseteq Procs

BufOK ==
    /\ DOMAIN buf = Bufs
    /\ \A b \in Bufs : Shaped(buf[b]) /\ buf[b].refcnt \in Nat

\* The list has every buffer.
ListOK ==
    /\ lru \in [1 .. NBUF -> Bufs]
    /\ \A b \in Bufs : \E j \in 1 .. NBUF : lru[j] = b

CurOK == \A p \in Procs : cur[p] = None <=> pc[p] = "user"

\* The sleep lock is held by who stands between bget() and releasesleep().
LockOK ==
    /\ \A p \in Procs : pc[p] \in Locked => lock[cur[p]] = p
    /\ \A b \in Bufs : lock[b] # None => cur[lock[b]] = b /\ pc[lock[b]] \in Locked

UnpinOK == \A p \in unpin : pc[p] \in Locked /\ cur[p] \in pinned

\* b->refcnt counts the processes that have the buffer, and its pin.
CountOK == \A b \in Bufs : buf[b].refcnt = Cardinality(Users(b)) + Pin(b)

PinsOK == Cardinality(pinned) <= MaxPins

CacheInv == /\ Types /\ BufOK /\ ListOK /\ CurOK /\ LockOK /\ UnpinOK /\ CountOK /\ PinsOK
            /\ OneBuffer /\ LockComes

-----------------------------------------------------------------------------
(***************************************************************************)
(* Facts about the helpers                                                 *)
(***************************************************************************)
\* The sets that are counted are finite.
LEMMA Finite ==
    ASSUME Types
    PROVE  /\ IsFiniteSet(Bufs) /\ Cardinality(Bufs) = NBUF
           /\ \A b : IsFiniteSet(Users(b)) /\ Cardinality(Users(b)) \in Nat
           /\ IsFiniteSet(pinned) /\ Cardinality(pinned) \in Nat
  <1>1. IsFiniteSet(Bufs) /\ Cardinality(Bufs) = NBUF
    <2>1. NBUF \in Nat /\ 1 \in Int /\ NBUF \in Int
      BY CacheSizes
    <2>2. IsFiniteSet(1 .. NBUF) /\ Cardinality(1 .. NBUF) = IF 1 > NBUF THEN 0 ELSE NBUF - 1 + 1
      BY <2>1, FS_Interval, Zenon
    <2> QED
      BY <2>1, <2>2 DEF Bufs
  <1>2. \A b : IsFiniteSet(Users(b)) /\ Cardinality(Users(b)) \in Nat
    <2> TAKE b
    <2>1. Users(b) \subseteq Procs
      BY Zenon DEF Users
    <2> QED
      BY <2>1, CacheSizes, FS_Subset, FS_CardinalityType, Zenon
  <1>3. IsFiniteSet(pinned) /\ Cardinality(pinned) \in Nat
    BY <1>1, FS_Subset, FS_CardinalityType, Zenon DEF Types
  <1> QED
    BY <1>1, <1>2, <1>3, Zenon

\* A nonempty set of positions has a last one: Victim is a buffer.
LEMMA LastPosition ==
    ASSUME NEW S \in SUBSET (1 .. NBUF), S # {}
    PROVE  Max(S) \in S
  <1> DEFINE T == {n \in Nat : NBUF - n \in S}
  <1>0. NBUF \in Nat
    BY CacheSizes, Zenon
  <1>1. PICK s \in S : TRUE
    OBVIOUS
  <1>2. NBUF - s \in T
    <2>1. s \in 1 .. NBUF
      BY <1>1, Zenon
    <2>2. NBUF - s \in Nat /\ NBUF - (NBUF - s) = s
      BY <1>0, <2>1
    <2> QED
      BY <2>2, <1>1, Zenon
  <1>3. PICK n \in T : \A y \in T : ~ (<<y, n>> \in OpToRel(<, Nat))
    <2>1. T \subseteq Nat /\ T # {}
      BY <1>2, Zenon
    <2> HIDE DEF T
    <2> QED
      BY <2>1, NatLessThanWellFounded, WFMin, Zenon
  <1>4. NBUF - n \in S /\ n \in Nat
    BY <1>3, Zenon
  <1>5. \A y \in S : NBUF - n >= y
    <2> TAKE y \in S
    <2>1. y \in 1 .. NBUF
      OBVIOUS
    <2>2. NBUF - y \in Nat /\ NBUF - (NBUF - y) = y
      BY <1>0, <2>1
    <2>3. NBUF - y \in T
      BY <2>2, Zenon
    <2>4. ~ (NBUF - y < n)
      BY <1>3, <1>4, <2>2, <2>3, Zenon DEF OpToRel
    <2> QED
      BY <1>0, <1>4, <2>1, <2>4
  <1>6. \E x \in S : \A y \in S : x >= y
    BY <1>4, <1>5, Zenon
  <1> QED
    BY <1>6, Zenon DEF Max

\* bget() by p of a buffer it did not have: one more process has it.
LEMMA OneMoreUser ==
    ASSUME Types, NEW p \in Procs, NEW b \in Bufs, cur[p] = None, cur' = [cur EXCEPT ![p] = b]
    PROVE  /\ Cardinality(Users(b)') = Cardinality(Users(b)) + 1
           /\ \A c \in Bufs : c # b => Users(c)' = Users(c)
  <1>1. p \notin Users(b) /\ Users(b)' = Users(b) \cup {p}
    BY CacheSizes, Zenon DEF Types, Users
  <1>2. IsFiniteSet(Users(b))
    BY Finite, Zenon
  <1>3. Cardinality(Users(b)') = Cardinality(Users(b)) + 1
    BY <1>1, <1>2, FS_AddElement, Zenon
  <1>4. \A c \in Bufs : c # b => Users(c)' = Users(c)
    BY CacheSizes, Zenon DEF Types, Users
  <1> QED
    BY <1>3, <1>4, Zenon

\* brelse() by p: one process less has the buffer.
LEMMA OneUserLess ==
    ASSUME Types, NEW p \in Procs, NEW b \in Bufs, cur[p] = b, cur' = [cur EXCEPT ![p] = None]
    PROVE  /\ Cardinality(Users(b)') = Cardinality(Users(b)) - 1
           /\ Cardinality(Users(b)') \in Nat
           /\ \A c \in Bufs : c # b => Users(c)' = Users(c)
  <1>1. p \in Users(b) /\ Users(b)' = Users(b) \ {p}
    BY CacheSizes, Zenon DEF Types, Users
  <1>2. IsFiniteSet(Users(b))
    BY Finite, Zenon
  <1>3. IsFiniteSet(Users(b) \ {p}) /\ Cardinality(Users(b) \ {p}) = Cardinality(Users(b)) - 1
    BY <1>1, <1>2, FS_RemoveElement, Zenon
  <1>4. \A c \in Bufs : c # b => Users(c)' = Users(c)
    BY CacheSizes, Zenon DEF Types, Users
  <1> QED
    BY <1>1, <1>3, <1>4, FS_CardinalityType, Zenon

\* brelse() leaves every buffer in the list.
LEMMA MoveKeepsList ==
    ASSUME ListOK, NEW b \in Bufs, lru' = MovedToHead(b)
    PROVE  ListOK'
  <1> DEFINE k == CHOOSE j \in 1 .. NBUF : lru[j] = b
  <1>0. NBUF \in Nat
    BY CacheSizes, Zenon
  <1>1. k \in 1 .. NBUF /\ lru[k] = b
    BY Zenon DEF ListOK
  <1>2. lru' = [j \in 1 .. NBUF |-> IF j = 1 THEN b ELSE IF j <= k THEN lru[j - 1] ELSE lru[j]]
    BY Zenon DEF MovedToHead
  <1> HIDE DEF k
  <1>3. lru' \in [1 .. NBUF -> Bufs]
    <2> SUFFICES ASSUME NEW j \in 1 .. NBUF
                 PROVE  (IF j = 1 THEN b ELSE IF j <= k THEN lru[j - 1] ELSE lru[j]) \in Bufs
      BY <1>2, Zenon
    <2>1. j = 1 \/ j - 1 \in 1 .. NBUF
      BY <1>0
    <2> QED
      BY <2>1, Zenon DEF ListOK
  <1>4. ASSUME NEW c \in Bufs PROVE \E j \in 1 .. NBUF : lru'[j] = c
    <2>1. CASE c = b
      <3>1. 1 \in 1 .. NBUF
        BY <1>0, <1>1
      <3> QED
        BY <3>1, <2>1, <1>2, Zenon
    <2>2. CASE c # b
      <3>1. PICK i \in 1 .. NBUF : lru[i] = c
        BY Zenon DEF ListOK
      <3>2. i # k
        BY <3>1, <1>1, <2>2, Zenon
      <3>3. CASE i < k
        <4>1. i + 1 \in 1 .. NBUF /\ i + 1 # 1 /\ i + 1 <= k /\ (i + 1) - 1 = i
          BY <3>3, <1>0, <1>1
        <4>2. lru'[i + 1] = c
          BY <4>1, <1>2, <3>1, Zenon
        <4> QED
          BY <4>1, <4>2, Zenon
      <3>4. CASE i > k
        <4>1. i # 1 /\ ~ (i <= k)
          BY <3>4, <1>0, <1>1
        <4>2. lru'[i] = c
          BY <4>1, <1>2, <3>1, Zenon
        <4> QED
          BY <4>2, Zenon
      <3> QED
        BY <3>2, <3>3, <3>4, <1>1
    <2> QED
      BY <2>1, <2>2, Zenon
  <1> QED
    BY <1>3, <1>4, Zenon DEF ListOK, Bufs

-----------------------------------------------------------------------------
(***************************************************************************)
(* What the invariant says                                                 *)
(***************************************************************************)
\* A process that is about to call bget() has no buffer, so the others and
\* the pins cannot have them all.
LEMMA SomeUnused ==
    ASSUME CacheInv
    PROVE  BufferLeft
  <1> SUFFICES ASSUME NEW p \in Procs, pc[p] = "user", Unused = {}
               PROVE  FALSE
    BY Zenon DEF BufferLeft
  <1> DEFINE Q == Procs \ {p}
             I == {cur[q] : q \in Q}
             f == [q \in Q |-> cur[q]]
  <1>0. Types /\ CountOK /\ PinsOK /\ ListOK /\ CurOK /\ BufOK
    BY Zenon DEF CacheInv
  <1>1. ASSUME NEW b \in Bufs PROVE b \in I \cup pinned
    <2>1. PICK j \in 1 .. NBUF : lru[j] = b
      BY <1>0, Zenon DEF ListOK
    <2>2. buf[b].refcnt # 0
      BY <2>1, Zenon DEF Unused
    <2>3. b \in pinned \/ Cardinality(Users(b)) # 0
      BY <2>2, <1>0, Finite DEF CountOK, Pin
    <2>4. CASE Cardinality(Users(b)) # 0
      <3>1. PICK q \in Procs : cur[q] = b
        BY <2>4, <1>0, Finite, FS_EmptySet, Zenon DEF Users
      <3>2. q # p
        BY <3>1, <1>0, CacheSizes, Zenon DEF CurOK
      <3> QED
        BY <3>1, <3>2, Zenon
    <2> QED
      BY <2>3, <2>4, Zenon
  <1>2. IsFiniteSet(Q) /\ Cardinality(Q) = Cardinality(Procs) - 1
    BY CacheSizes, FS_RemoveElement, Zenon
  <1>3. f \in Surjection(Q, I)
    BY Zenon DEF Surjection
  <1> HIDE DEF f, Q, I
  <1>4. IsFiniteSet(I) /\ Cardinality(I) <= Cardinality(Q)
    BY <1>2, <1>3, FS_Surjection, Zenon
  <1>5. /\ IsFiniteSet(I \cup pinned)
        /\ Cardinality(I \cup pinned) = Cardinality(I) + Cardinality(pinned) - Cardinality(I \cap pinned)
    BY <1>0, <1>4, Finite, FS_Union, Zenon
  <1>6. IsFiniteSet(I \cap pinned)
    BY <1>4, FS_Subset, Zenon
  <1>7. Cardinality(Bufs) <= Cardinality(I \cup pinned)
    BY <1>1, <1>5, FS_Subset, Zenon
  <1>8. /\ Cardinality(I) \in Nat /\ Cardinality(pinned) \in Nat
        /\ Cardinality(I \cap pinned) \in Nat /\ Cardinality(Procs) \in Nat
    BY <1>0, <1>4, <1>6, Finite, CacheSizes, FS_CardinalityType, Zenon
  <1>9. Cardinality(Bufs) = NBUF
    BY <1>0, Finite, Zenon
  <1> QED
    BY <1>0, <1>2, <1>4, <1>5, <1>7, <1>8, <1>9, CacheSizes DEF PinsOK

\* The buffer bget() recycles is one of the list, and nobody has it.
LEMMA VictimUnused ==
    ASSUME ListOK, Unused # {}
    PROVE  Victim \in Bufs /\ buf[Victim].refcnt = 0
  <1>1. Max(Unused) \in Unused
    BY LastPosition, Zenon DEF Unused
  <1> QED
    BY <1>1, Zenon DEF Unused, Victim, ListOK

-----------------------------------------------------------------------------
(***************************************************************************)
(* The driver and the device                                               *)
(***************************************************************************)
\* Processes that have their buffers' locks have moved from f to g.
Moved(f, g) ==
    /\ g \in [Procs -> Labels]
    /\ \A p \in Procs : g[p] = f[p] \/ {f[p], g[p]} \subseteq Locked

\* What a step of module Virtio leaves alone.  A process that has the sleep
\* lock of its buffer keeps it.
DriverStep ==
    /\ UNCHANGED <<cur, lru, lock, pinned, unpin>>
    /\ DOMAIN buf' = Bufs
    /\ \A b \in Bufs : /\ Shaped(buf'[b])
                       /\ buf'[b].refcnt = buf[b].refcnt /\ buf'[b].blockno = buf[b].blockno
    /\ Moved(pc, pc')

\* wakeup() of who sleeps at such a label,
LEMMA WakeMoves ==
    ASSUME NEW f \in [Procs -> Labels], NEW S, NEW a \in Locked, NEW b \in Locked
    PROVE  Moved(f, Wake(f, S, a, b))
  <1>1. b \in Labels
    BY Zenon DEF Locked, Labels
  <1> QED
    BY <1>1, Zenon DEF Wake, Moved

\* and several such moves in a row.
LEMMA MovedTwice ==
    ASSUME NEW f, NEW g, NEW h, Moved(f, g), Moved(g, h)
    PROVE  Moved(f, h)
  BY DEF Moved

\* Fields other than the reference count and the block number change.
LEMMA OtherFields ==
    ASSUME BufOK, NEW b, NEW v,
           \/ buf' = [buf EXCEPT ![b].disk = v] \/ buf' = [buf EXCEPT ![b].valid = v]
           \/ buf' = [buf EXCEPT ![b].data = v] \/ buf' = buf
    PROVE  /\ DOMAIN buf' = Bufs
           /\ \A c \in Bufs : /\ Shaped(buf'[c]) /\ buf'[c].refcnt = buf[c].refcnt
                              /\ buf'[c].blockno = buf[c].blockno
  <1>1. CASE buf' = [buf EXCEPT ![b].disk = v]
    BY <1>1, SMT DEF BufOK, Shaped, Fields
  <1>2. CASE buf' = [buf EXCEPT ![b].valid = v]
    BY <1>2, SMT DEF BufOK, Shaped, Fields
  <1>3. CASE buf' = [buf EXCEPT ![b].data = v]
    BY <1>3, SMT DEF BufOK, Shaped, Fields
  <1>4. CASE buf' = buf
    BY <1>4, Zenon DEF BufOK
  <1> QED
    BY <1>1, <1>2, <1>3, <1>4, Zenon

\* virtio_disk_rw() moves p, and whom it wakes, within the labels at which
\* the sleep lock is held.
LEMMA RwIsDriver ==
    ASSUME CacheInv, NEW p \in Procs, RwStep(p), UNCHANGED cache
    PROVE  DriverStep
  <1>0. Types /\ BufOK
    BY Zenon DEF CacheInv
  <1>1. UNCHANGED <<lru, lock, pinned, unpin>>
    BY Zenon DEF cache
  <1>l. "read_full" \in Locked /\ "read" \in Locked /\ "write_full" \in Locked /\ "write" \in Locked
    BY Zenon DEF Locked
  <1>2. CASE RwNoDesc(p)
    <2> DEFINE slept == [pc EXCEPT ![p] = IF pc[p] = "read" THEN "read_full" ELSE "write_full"]
    <2>1. PICK S : pc' = Wake(Wake(slept, S, "read_full", "read"), S, "write_full", "write")
      BY <1>2, Zenon DEF RwNoDesc
    <2> DEFINE first == Wake(slept, S, "read_full", "read")
    <2>2. slept \in [Procs -> Labels] /\ Moved(pc, slept)
      BY <1>0, <1>2, Zenon DEF RwNoDesc, Types, Labels, Locked, Moved
    <2> HIDE DEF slept
    <2>3. Moved(slept, first)
      BY <1>l, <2>2, WakeMoves, Zenon
    <2>7. first \in [Procs -> Labels]
      BY <2>3, Zenon DEF Moved
    <2>8. pc' = Wake(first, S, "write_full", "write")
      BY <2>1, Zenon
    <2> HIDE DEF first
    <2>4. Moved(first, pc')
      BY <1>l, <2>7, <2>8, WakeMoves, Zenon
    <2>6. Moved(pc, pc')
      BY <2>2, <2>3, <2>4, MovedTwice, Zenon
    <2>5. buf' = buf /\ cur' = cur
      BY <1>2, Zenon DEF RwNoDesc
    <2> QED
      BY <1>0, <1>1, <2>5, <2>6, OtherFields, Zenon DEF DriverStep
  <1>3. CASE RwSubmit(p)
    <2>1. buf' = [buf EXCEPT ![cur[p]].disk = TRUE] /\ cur' = cur
      BY <1>3, Zenon DEF RwSubmit
    <2>2. Moved(pc, pc')
      BY <1>0, <1>3, Zenon DEF RwSubmit, Types, Labels, Locked, Moved
    <2> QED
      BY <1>0, <1>1, <2>1, <2>2, OtherFields, Zenon DEF DriverStep
  <1>4. CASE RwDone(p)
    <2> DEFINE done == [pc EXCEPT ![p] = "hold"]
    <2>1. pc' = Wake(Wake(done, Procs, "read_full", "read"), Procs, "write_full", "write")
      BY <1>4, Zenon DEF RwDone, FreedWakes
    <2> DEFINE first == Wake(done, Procs, "read_full", "read")
    <2>2. done \in [Procs -> Labels] /\ Moved(pc, done)
      BY <1>0, <1>4, Zenon DEF RwDone, Awaited, Types, Labels, Locked, Moved
    <2> HIDE DEF done
    <2>3. Moved(done, first)
      BY <1>l, <2>2, WakeMoves, Zenon
    <2>7. first \in [Procs -> Labels]
      BY <2>3, Zenon DEF Moved
    <2>8. pc' = Wake(first, Procs, "write_full", "write")
      BY <2>1, Zenon
    <2> HIDE DEF first
    <2>4. Moved(first, pc')
      BY <1>l, <2>7, <2>8, WakeMoves, Zenon
    <2>6. Moved(pc, pc')
      BY <2>2, <2>3, <2>4, MovedTwice, Zenon
    <2>5. buf' = [buf EXCEPT ![cur[p]].valid = TRUE] /\ cur' = cur
      BY <1>4, Zenon DEF RwDone
    <2> QED
      BY <1>0, <1>1, <2>5, <2>6, OtherFields, Zenon DEF DriverStep
  <1> QED
    BY <1>2, <1>3, <1>4, Zenon DEF RwStep

\* The device and virtio_disk_intr() move data and wake who waits for it.
LEMMA DeviceIsDriver ==
    ASSUME CacheInv, DeviceStep \/ HandlerStep, UNCHANGED cache
    PROVE  DriverStep
  <1>0. Types /\ BufOK
    BY Zenon DEF CacheInv
  <1>1. UNCHANGED <<lru, lock, pinned, unpin>>
    BY Zenon DEF cache
  <1>2. ASSUME UNCHANGED <<pc, cur>>, \E b, v : buf' = [buf EXCEPT ![b].data = v] \/ buf' = buf
        PROVE  DriverStep
    <2>1. Moved(pc, pc')
      BY <1>0, <1>2, Zenon DEF Types, Moved
    <2>2. /\ DOMAIN buf' = Bufs
          /\ \A c \in Bufs : /\ Shaped(buf'[c]) /\ buf'[c].refcnt = buf[c].refcnt
                             /\ buf'[c].blockno = buf[c].blockno
      BY <1>0, <1>2, OtherFields, Zenon
    <2> QED
      BY <1>1, <1>2, <2>1, <2>2, Zenon DEF DriverStep
  <1>3. CASE DevFetch \/ IntrStart \/ IntrEnd
    BY <1>2, <1>3, Zenon DEF DevFetch, IntrStart, IntrEnd
  <1>4. ASSUME NEW h \in Descs, DevComplete(h) PROVE DriverStep
    BY <1>2, <1>4, Zenon DEF DevComplete
  <1>5. CASE IntrOne
    <2>1. PICK id : /\ pc' = Wake(Wake(pc, AsleepOn(id), "reading", "read_done"), AsleepOn(id), "writing", "write_done")
                    /\ buf' = [buf EXCEPT ![info[id].b].disk = FALSE]
      BY <1>5, Zenon DEF IntrOne
    <2>2. /\ "reading" \in Locked /\ "read_done" \in Locked
          /\ "writing" \in Locked /\ "write_done" \in Locked
      BY Zenon DEF Locked
    <2>3. pc \in [Procs -> Labels]
      BY <1>0, Zenon DEF Types
    <2> DEFINE first == Wake(pc, AsleepOn(id), "reading", "read_done")
    <2>6. Moved(pc, first)
      BY <2>2, <2>3, WakeMoves, Zenon
    <2>7. pc' = Wake(first, AsleepOn(id), "writing", "write_done")
      BY <2>1, Zenon
    <2>9. first \in [Procs -> Labels]
      BY <2>6, Zenon DEF Moved
    <2> HIDE DEF first
    <2>8. Moved(first, pc')
      BY <2>2, <2>7, <2>9, WakeMoves, Zenon
    <2>4. Moved(pc, pc')
      BY <2>6, <2>8, MovedTwice, Zenon
    <2>5. cur' = cur
      BY <1>5, Zenon DEF IntrOne
    <2> QED
      BY <1>0, <1>1, <2>1, <2>4, <2>5, OtherFields, Zenon DEF DriverStep
  <1> QED
    BY <1>3, <1>4, <1>5, Zenon DEF DeviceStep, HandlerStep

\* Such a step keeps the invariant.
LEMMA DriverKeeps ==
    ASSUME CacheInv, DriverStep
    PROVE  CacheInv'
  <1>0. Types /\ BufOK /\ ListOK /\ CurOK /\ LockOK /\ UnpinOK /\ CountOK /\ PinsOK /\ OneBuffer /\ LockComes
    BY Zenon DEF CacheInv
  <1>u. UNCHANGED <<cur, lru, lock, pinned, unpin>>
    BY Zenon DEF DriverStep
  <1>1. Types'
    BY <1>0, <1>u, Zenon DEF Types, DriverStep, Moved, Bufs, Labels
  <1>2. BufOK'
    BY <1>0, Zenon DEF BufOK, DriverStep, Bufs
  <1>3. ListOK' /\ PinsOK'
    BY <1>0, <1>u, Zenon DEF ListOK, PinsOK, Bufs
  <1>4. CurOK' /\ LockComes'
    <2>1. "user" \notin Locked /\ "lock_sleep" \notin Locked
      BY Zenon DEF Locked
    <2>2. ASSUME NEW p \in Procs
          PROVE  (pc'[p] = "user" <=> pc[p] = "user") /\ (pc'[p] = "lock_sleep" <=> pc[p] = "lock_sleep")
      BY <2>1, Zenon DEF DriverStep, Moved
    <2> QED
      BY <1>0, <1>u, <2>2, Zenon DEF CurOK, LockComes
  <1>5. LockOK' /\ UnpinOK'
    <2>1. ASSUME NEW p \in Procs PROVE pc'[p] \in Locked <=> pc[p] \in Locked
      BY Zenon DEF DriverStep, Moved
    <2>2. \A b \in Bufs : lock[b] # None => lock[b] \in Procs
      BY <1>0, Zenon DEF Types
    <2>3. UnpinOK'
      BY <1>0, <1>u, <2>1, Zenon DEF UnpinOK, Types
    <2>4. LockOK'
      BY <1>0, <1>u, <2>1, <2>2, Zenon DEF LockOK
    <2> QED
      BY <2>3, <2>4, Zenon
  <1>6. CountOK'
    <2>1. ASSUME NEW b \in Bufs PROVE Users(b)' = Users(b) /\ Pin(b)' = Pin(b) /\ buf'[b].refcnt = buf[b].refcnt
      BY <1>u, Zenon DEF Users, Pin, DriverStep
    <2> QED
      BY <1>0, <2>1, Zenon DEF CountOK, Bufs
  <1>7. OneBuffer'
    BY <1>0, Zenon DEF OneBuffer, DriverStep, Bufs
  <1> QED
    BY <1>1, <1>2, <1>3, <1>4, <1>5, <1>6, <1>7, Zenon DEF CacheInv

-----------------------------------------------------------------------------
(***************************************************************************)
(* The actions of the cache                                                *)
(***************************************************************************)
\* A reference count changes.
LEMMA CountSet ==
    ASSUME BufOK, NEW b \in Bufs, NEW n \in Nat, buf' = [buf EXCEPT ![b].refcnt = n]
    PROVE  /\ BufOK' /\ buf'[b].refcnt = n
           /\ \A c \in Bufs : buf'[c].blockno = buf[c].blockno
           /\ \A c \in Bufs : c # b => buf'[c].refcnt = buf[c].refcnt
  BY SMT DEF BufOK, Shaped, Fields, Bufs

\* bget() takes a reference: to a buffer it finds, or to one it recycles.
LEMMA GetKeeps ==
    ASSUME CacheInv, NEW p \in Procs, NEW b \in Bufs, pc[p] = "user",
           cur' = [cur EXCEPT ![p] = b], pc' = [pc EXCEPT ![p] = "lock"], UNCHANGED cache,
           BufOK', OneBuffer', buf'[b].refcnt = buf[b].refcnt + 1,
           \A c \in Bufs : c # b => buf'[c].refcnt = buf[c].refcnt
    PROVE  CacheInv'
  <1>0. Types /\ BufOK /\ ListOK /\ CurOK /\ LockOK /\ UnpinOK /\ CountOK /\ PinsOK /\ LockComes
    BY Zenon DEF CacheInv
  <1>u. UNCHANGED <<lru, lock, pinned, unpin>>
    BY Zenon DEF cache
  <1>c. cur[p] = None
    BY <1>0, Zenon DEF CurOK
  <1>l. "user" \notin Locked /\ "lock" \notin Locked
    BY Zenon DEF Locked
  <1>1. Types'
    BY <1>0, <1>u, Zenon DEF Types, Labels, Bufs
  <1>2. ListOK' /\ PinsOK'
    BY <1>0, <1>u, Zenon DEF ListOK, PinsOK, Bufs
  <1>3. CurOK'
    BY <1>0, CacheSizes, Zenon DEF CurOK, Types
  <1>4. LockComes'
    BY <1>0, <1>u, Zenon DEF LockComes, Types
  <1>5. LockOK' /\ UnpinOK'
    <2>1. \A q \in Procs : pc'[q] \in Locked => pc[q] \in Locked /\ cur'[q] = cur[q]
      BY <1>0, <1>l, Zenon DEF Types
    <2>2. \A q \in Procs : pc[q] \in Locked => pc'[q] \in Locked /\ cur'[q] = cur[q]
      BY <1>0, <1>l, Zenon DEF Types
    <2>3. \A c \in Bufs : lock[c] # None => lock[c] \in Procs
      BY <1>0, Zenon DEF Types
    <2>4. LockOK'
      BY <1>0, <1>u, <2>1, <2>2, <2>3 DEF LockOK
    <2>5. UnpinOK'
      BY <1>0, <1>u, <2>2, Zenon DEF UnpinOK, Types
    <2> QED
      BY <2>4, <2>5, Zenon
  <1>6. CountOK'
    <2> SUFFICES ASSUME NEW c \in Bufs
                 PROVE  buf'[c].refcnt = Cardinality(Users(c)') + Pin(c)'
      BY Zenon DEF CountOK, Bufs
    <2>1. Pin(c)' = Pin(c)
      BY <1>u, Zenon DEF Pin
    <2>2. buf[c].refcnt = Cardinality(Users(c)) + Pin(c)
      BY <1>0, Zenon DEF CountOK
    <2>3. /\ Cardinality(Users(b)') = Cardinality(Users(b)) + 1
          /\ c # b => Users(c)' = Users(c)
      BY <1>0, <1>c, OneMoreUser, Zenon
    <2>4. Cardinality(Users(c)) \in Nat /\ Pin(c) \in Nat
      BY <1>0, Finite, Zenon DEF Pin
    <2>5. CASE c = b
      BY <2>1, <2>2, <2>3, <2>4, <2>5
    <2>6. CASE c # b
      BY <2>1, <2>2, <2>3, <2>6, Zenon
    <2> QED
      BY <2>5, <2>6, Zenon
  <1> QED
    BY <1>1, <1>2, <1>3, <1>4, <1>5, <1>6, Zenon DEF CacheInv

\* bget() finds the block in the cache.
LEMMA HitKeeps ==
    ASSUME CacheInv, NEW p \in Procs, NEW k \in Blocks, BgetHit(p, k)
    PROVE  CacheInv'
  <1>0. BufOK /\ OneBuffer
    BY Zenon DEF CacheInv
  <1>1. PICK b \in Bufs : /\ buf' = [buf EXCEPT ![b].refcnt = buf[b].refcnt + 1]
                          /\ cur' = [cur EXCEPT ![p] = b]
    <2> DEFINE b == CHOOSE b \in Cached(k) : TRUE
    <2>1. b \in Bufs
      BY Zenon DEF BgetHit, Cached
    <2>2. buf' = [buf EXCEPT ![b].refcnt = buf[b].refcnt + 1] /\ cur' = [cur EXCEPT ![p] = b]
      BY Zenon DEF BgetHit
    <2> QED
      BY <2>1, <2>2, Zenon
  <1>2. buf[b].refcnt + 1 \in Nat
    BY <1>0 DEF BufOK
  <1>3. /\ BufOK' /\ buf'[b].refcnt = buf[b].refcnt + 1
        /\ \A c \in Bufs : buf'[c].blockno = buf[c].blockno
        /\ \A c \in Bufs : c # b => buf'[c].refcnt = buf[c].refcnt
    BY <1>0, <1>1, <1>2, CountSet, Zenon
  <1>4. OneBuffer'
    BY <1>0, <1>3, Zenon DEF OneBuffer, Bufs
  <1>5. pc[p] = "user" /\ pc' = [pc EXCEPT ![p] = "lock"] /\ UNCHANGED cache
    BY Zenon DEF BgetHit
  <1> QED
    BY <1>1, <1>3, <1>4, <1>5, GetKeeps, Zenon

\* bget() recycles the least recently used buffer.
LEMMA MissKeeps ==
    ASSUME CacheInv, NEW p \in Procs, NEW k \in Blocks, BgetMiss(p, k)
    PROVE  CacheInv'
  <1>0. BufOK /\ OneBuffer /\ ListOK
    BY Zenon DEF CacheInv
  <1>1. PICK b \in Bufs : /\ b = Victim /\ buf[b].refcnt = 0
    BY <1>0, VictimUnused, Zenon DEF BgetMiss
  <1>2. /\ buf' = [buf EXCEPT ![b].blockno = k, ![b].valid = FALSE, ![b].refcnt = 1]
        /\ cur' = [cur EXCEPT ![p] = b]
        /\ pc[p] = "user" /\ pc' = [pc EXCEPT ![p] = "lock"] /\ UNCHANGED cache
    BY <1>1, Zenon DEF BgetMiss, NotValid
  <1>3. /\ BufOK' /\ buf'[b].refcnt = buf[b].refcnt + 1 /\ buf'[b].blockno = k
        /\ \A c \in Bufs : c # b => buf'[c] = buf[c]
    BY <1>0, <1>1, <1>2, SMT DEF BufOK, Shaped, Fields, Bufs
  <1>4. \A c \in Bufs : buf[c].blockno # k
    BY Zenon DEF BgetMiss, Cached
  <1>5. OneBuffer'
    BY <1>0, <1>3, <1>4, Zenon DEF OneBuffer, Bufs
  <1> QED
    BY <1>2, <1>3, <1>5, GetKeeps, Zenon

\* acquiresleep() takes the lock, or sleeps because another has it.
LEMMA AcquireKeeps ==
    ASSUME CacheInv, NEW p \in Procs, AcquireSleep(p)
    PROVE  CacheInv'
  <1>0. Types /\ BufOK /\ ListOK /\ CurOK /\ LockOK /\ UnpinOK /\ CountOK /\ PinsOK /\ OneBuffer /\ LockComes
    BY Zenon DEF CacheInv
  <1>u. UNCHANGED <<cur, buf, lru, pinned, unpin>> /\ pc[p] = "lock"
    BY Zenon DEF AcquireSleep
  <1>l. /\ "lock" \notin Locked /\ "lock_sleep" \notin Locked /\ "hold" \in Locked /\ "read" \in Locked
    BY Zenon DEF Locked
  <1>c. cur[p] \in Bufs
    BY <1>0, <1>u, Zenon DEF CurOK, Types
  <1>1. BufOK' /\ ListOK' /\ CountOK' /\ PinsOK' /\ OneBuffer'
    BY <1>0, <1>u, Zenon DEF BufOK, ListOK, CountOK, PinsOK, OneBuffer, Users, Pin, Bufs
  <1>2. CASE lock[cur[p]] = None
    <2>1. PICK x \in {"hold", "read"} : pc' = [pc EXCEPT ![p] = x]
      BY <1>2, Zenon DEF AcquireSleep
    <2>2. lock' = [lock EXCEPT ![cur[p]] = p]
      BY <1>2, Zenon DEF AcquireSleep
    <2>3. Types'
      BY <1>0, <1>u, <2>1, <2>2, Zenon DEF Types, Labels, Bufs
    <2>4. CurOK'
      BY <1>0, <1>u, <2>1, Zenon DEF CurOK, Types
    <2>5. LockComes'
      BY <1>0, <1>u, <1>c, <2>1, <2>2, CacheSizes, Zenon DEF LockComes, Types, CurOK
    <2>6. \A q \in Procs : q # p => pc'[q] = pc[q]
      BY <1>0, <2>1, Zenon DEF Types
    <2>7. pc'[p] \in Locked /\ pc[p] \notin Locked
      BY <1>0, <1>u, <1>l, <2>1, Zenon DEF Types
    <2>8. lock'[cur[p]] = p /\ \A b \in Bufs : b # cur[p] => lock'[b] = lock[b]
      BY <1>0, <1>c, <2>2, Zenon DEF Types
    <2>9. UnpinOK'
      BY <1>0, <1>u, <2>6, <2>7, Zenon DEF UnpinOK, Types
    <2>10. ASSUME NEW q \in Procs, pc'[q] \in Locked PROVE lock'[cur'[q]] = q
      <3>1. CASE q = p
        BY <3>1, <1>u, <2>8, Zenon
      <3>2. CASE q # p
        <4>1. pc[q] \in Locked
          BY <3>2, <2>6, <2>10, Zenon
        <4>2. lock[cur[q]] = q /\ cur[q] \in Bufs
          BY <4>1, <1>0 DEF LockOK, CurOK, Types, Locked
        <4>3. cur[q] # cur[p]
          BY <4>2, <1>2, CacheSizes, Zenon
        <4> QED
          BY <4>2, <4>3, <1>u, <2>8, Zenon
      <3> QED
        BY <3>1, <3>2, Zenon
    <2>11. ASSUME NEW b \in Bufs, lock'[b] # None PROVE cur'[lock'[b]] = b /\ pc'[lock'[b]] \in Locked
      <3>1. CASE b = cur[p]
        BY <3>1, <1>u, <2>7, <2>8, Zenon
      <3>2. CASE b # cur[p]
        <4>1. lock'[b] = lock[b] /\ cur[lock[b]] = b /\ pc[lock[b]] \in Locked /\ lock[b] \in Procs
          BY <3>2, <2>8, <2>11, <1>0 DEF LockOK, Types
        <4>2. lock[b] # p
          BY <4>1, <3>2, Zenon
        <4> QED
          BY <4>1, <4>2, <1>u, <2>6, Zenon
      <3> QED
        BY <3>1, <3>2, Zenon
    <2>12. LockOK'
      BY <2>10, <2>11, Zenon DEF LockOK, Bufs, Locked
    <2> QED
      BY <1>1, <2>3, <2>4, <2>5, <2>9, <2>12, Zenon DEF CacheInv
  <1>3. CASE lock[cur[p]] # None
    <2>1. pc' = [pc EXCEPT ![p] = "lock_sleep"] /\ lock' = lock
      BY <1>3, Zenon DEF AcquireSleep
    <2>2. Types'
      BY <1>0, <1>u, <2>1, Zenon DEF Types, Labels, Bufs
    <2>3. CurOK'
      BY <1>0, <1>u, <2>1, Zenon DEF CurOK, Types
    <2>4. LockComes'
      BY <1>0, <1>u, <1>3, <2>1, Zenon DEF LockComes, Types
    <2>5. \A q \in Procs : pc'[q] \in Locked <=> pc[q] \in Locked
      BY <1>0, <1>u, <1>l, <2>1, Zenon DEF Types
    <2>6. \A b \in Bufs : lock[b] # None => lock[b] \in Procs
      BY <1>0, Zenon DEF Types
    <2>7. UnpinOK'
      BY <1>0, <1>u, <2>5, Zenon DEF UnpinOK, Types
    <2>8. LockOK'
      BY <1>0, <1>u, <2>1, <2>5, <2>6, Zenon DEF LockOK
    <2> QED
      BY <1>1, <2>2, <2>3, <2>4, <2>7, <2>8, Zenon DEF CacheInv
  <1> QED
    BY <1>2, <1>3, Zenon

\* bwrite() changes the data and goes on to the driver.
LEMMA BwriteKeeps ==
    ASSUME CacheInv, NEW p \in Procs, NEW v \in Vals, Bwrite(p, v)
    PROVE  CacheInv'
  <1>0. Types /\ BufOK
    BY Zenon DEF CacheInv
  <1>1. buf' = [buf EXCEPT ![cur[p]].data = v] /\ UNCHANGED <<cur, lru, lock, pinned, unpin>>
    BY Zenon DEF Bwrite, cache
  <1>2. Moved(pc, pc')
    BY <1>0, Zenon DEF Bwrite, Moved, Types, Locked, Labels
  <1>3. DriverStep
    BY <1>0, <1>1, <1>2, OtherFields, Zenon DEF DriverStep
  <1> QED
    BY <1>3, DriverKeeps, Zenon

\* install_trans() writes a pinned buffer, and will unpin it.
LEMMA InstallKeeps ==
    ASSUME CacheInv, NEW p \in Procs, Install(p)
    PROVE  CacheInv'
  <1>0. Types /\ BufOK /\ ListOK /\ CurOK /\ LockOK /\ UnpinOK /\ CountOK /\ PinsOK /\ OneBuffer /\ LockComes
    BY Zenon DEF CacheInv
  <1>u. /\ UNCHANGED <<cur, buf, lru, lock, pinned>> /\ unpin' = unpin \cup {p}
        /\ pc[p] = "hold" /\ pc' = [pc EXCEPT ![p] = "write"] /\ cur[p] \in pinned
    BY Zenon DEF Install
  <1>l. "hold" \in Locked /\ "write" \in Locked
    BY Zenon DEF Locked
  <1>1. BufOK' /\ ListOK' /\ CountOK' /\ PinsOK' /\ OneBuffer'
    <2>1. BufOK' /\ ListOK' /\ PinsOK' /\ OneBuffer'
      BY <1>0, <1>u, Zenon DEF BufOK, ListOK, PinsOK, OneBuffer, Bufs
    <2>2. CountOK'
      BY <1>0, <1>u, ZenonT(40) DEF CountOK, Users, Pin, Bufs
    <2> QED
      BY <2>1, <2>2, Zenon
  <1>2. Types'
    BY <1>0, <1>u, Zenon DEF Types, Labels, Bufs
  <1>3. CurOK' /\ LockComes'
    BY <1>0, <1>u, Zenon DEF CurOK, LockComes, Types
  <1>4. \A q \in Procs : pc'[q] \in Locked <=> pc[q] \in Locked
    BY <1>0, <1>u, <1>l, Zenon DEF Types
  <1>5. \A b \in Bufs : lock[b] # None => lock[b] \in Procs
    BY <1>0, Zenon DEF Types
  <1>6. LockOK'
    BY <1>0, <1>u, <1>4, <1>5, Zenon DEF LockOK
  <1>7. UnpinOK'
    BY <1>0, <1>u, <1>l, <1>4, Zenon DEF UnpinOK, Types
  <1> QED
    BY <1>1, <1>2, <1>3, <1>6, <1>7, Zenon DEF CacheInv

\* log_write() changes the data, and pins the buffer unless it is pinned.
LEMMA BpinKeeps ==
    ASSUME CacheInv, NEW p \in Procs, NEW v \in Vals, Bpin(p, v)
    PROVE  CacheInv'
  <1> DEFINE b == cur[p]
             n == IF b \in pinned THEN buf[b].refcnt ELSE buf[b].refcnt + 1
  <1>0. Types /\ BufOK /\ ListOK /\ CurOK /\ LockOK /\ UnpinOK /\ CountOK /\ PinsOK /\ OneBuffer /\ LockComes
    BY Zenon DEF CacheInv
  <1>u. /\ UNCHANGED <<pc, cur, lru, lock, unpin>> /\ pinned' = pinned \cup {b} /\ pc[p] = "hold"
        /\ b \in pinned \/ Cardinality(pinned) < MaxPins
    BY Zenon DEF Bpin
  <1>c. b \in Bufs
    BY <1>0, <1>u, Zenon DEF CurOK, Types
  <1>n. n \in Nat
    BY <1>0, <1>c DEF BufOK
  <1>b. buf' = [buf EXCEPT ![b].data = v, ![b].refcnt = n]
    BY Zenon DEF Bpin, OneReference
  <1> HIDE DEF n
  <1>1. /\ BufOK' /\ buf'[b].refcnt = n
        /\ \A c \in Bufs : buf'[c].blockno = buf[c].blockno
        /\ \A c \in Bufs : c # b => buf'[c].refcnt = buf[c].refcnt
    BY <1>0, <1>c, <1>n, <1>b, SMT DEF BufOK, Shaped, Fields, Bufs
  <1> HIDE DEF b
  <1>2. Types'
    BY <1>0, <1>u, <1>c, Zenon DEF Types, Labels, Bufs
  <1>3. ListOK' /\ CurOK' /\ LockOK' /\ LockComes'
    <2>1. ListOK' /\ CurOK' /\ LockComes'
      BY <1>0, <1>u, Zenon DEF ListOK, CurOK, LockComes, Bufs
    <2>2. LockOK'
      BY <1>0, <1>u, Zenon DEF LockOK
    <2> QED
      BY <2>1, <2>2, Zenon
  <1>4. UnpinOK'
    BY <1>0, <1>u, Zenon DEF UnpinOK, Locked
  <1>5. OneBuffer'
    BY <1>0, <1>1, Zenon DEF OneBuffer, Bufs
  <1>6. PinsOK'
    <2>1. CASE b \in pinned
      <3>1. pinned' = pinned
        BY <2>1, <1>u, Zenon
      <3> QED
        BY <3>1, <1>0, Zenon DEF PinsOK
    <2>2. CASE b \notin pinned
      <3>1. Cardinality(pinned') = Cardinality(pinned) + 1
        BY <2>2, <1>0, <1>u, Finite, FS_AddElement, Zenon
      <3> QED
        BY <3>1, <2>2, <1>0, <1>u, Finite, CacheSizes DEF PinsOK
    <2> QED
      BY <2>1, <2>2, Zenon
  <1>7. CountOK'
    <2> SUFFICES ASSUME NEW c \in Bufs
                 PROVE  buf'[c].refcnt = Cardinality(Users(c)') + Pin(c)'
      BY Zenon DEF CountOK, Bufs
    <2>1. Users(c)' = Users(c)
      BY <1>u, Zenon DEF Users
    <2>2. buf[c].refcnt = Cardinality(Users(c)) + Pin(c) /\ Cardinality(Users(c)) \in Nat
      BY <1>0, Finite, Zenon DEF CountOK
    <2>3. CASE c = b
      BY <2>1, <2>2, <2>3, <1>1, <1>u DEF Pin, n
    <2>4. CASE c # b
      <3>1. Pin(c)' = Pin(c)
        BY <2>4, <1>u, Zenon DEF Pin
      <3> QED
        BY <2>1, <2>2, <2>4, <3>1, <1>1, Zenon
    <2> QED
      BY <2>3, <2>4, Zenon
  <1> QED
    BY <1>1, <1>2, <1>3, <1>4, <1>5, <1>6, <1>7, Zenon DEF CacheInv

\* bunpin() takes the pin away.  No other process can be about to do the
\* same: it would have to have the buffer's lock.
LEMMA BunpinKeeps ==
    ASSUME CacheInv, NEW p \in Procs, Bunpin(p)
    PROVE  CacheInv'
  <1> DEFINE b == cur[p]
  <1>0. Types /\ BufOK /\ ListOK /\ CurOK /\ LockOK /\ UnpinOK /\ CountOK /\ PinsOK /\ OneBuffer /\ LockComes
    BY Zenon DEF CacheInv
  <1>u. /\ UNCHANGED <<pc, cur, lru, lock>> /\ pinned' = pinned \ {b} /\ unpin' = unpin \ {p}
        /\ pc[p] = "hold" /\ p \in unpin
    BY Zenon DEF Bunpin
  <1>b. buf' = [buf EXCEPT ![b].refcnt = buf[b].refcnt - 1]
    BY Zenon DEF Bunpin, DropReference
  <1>c. b \in Bufs /\ b \in pinned
    BY <1>0, <1>u, Zenon DEF UnpinOK, Types
  <1>d. buf[b].refcnt = Cardinality(Users(b)) + 1 /\ Cardinality(Users(b)) \in Nat
    BY <1>0, <1>c, Finite, Zenon DEF CountOK, Pin
  <1>n. buf[b].refcnt - 1 \in Nat
    BY <1>d
  <1> HIDE DEF b
  <1>1. /\ BufOK' /\ buf'[b].refcnt = buf[b].refcnt - 1
        /\ \A c \in Bufs : buf'[c].blockno = buf[c].blockno
        /\ \A c \in Bufs : c # b => buf'[c].refcnt = buf[c].refcnt
    BY <1>0, <1>b, <1>c, <1>n, CountSet, Zenon
  <1>2. Types'
    BY <1>0, <1>u, Zenon DEF Types, Labels, Bufs
  <1>3. ListOK' /\ CurOK' /\ LockOK' /\ LockComes'
    <2>1. ListOK' /\ CurOK' /\ LockComes'
      BY <1>0, <1>u, Zenon DEF ListOK, CurOK, LockComes, Bufs
    <2>2. LockOK'
      BY <1>0, <1>u, Zenon DEF LockOK
    <2> QED
      BY <2>1, <2>2, Zenon
  <1>4. UnpinOK'
    <2> SUFFICES ASSUME NEW q \in unpin, q # p
                 PROVE  pc[q] \in Locked /\ cur[q] \in pinned /\ cur[q] # b
      BY <1>u, Zenon DEF UnpinOK, Locked
    <2>1. pc[q] \in Locked /\ cur[q] \in pinned /\ pc[p] \in Locked
      BY <1>0, <1>u, Zenon DEF UnpinOK
    <2>2. q \in Procs
      BY <1>0, Zenon DEF Types
    <2>3. lock[cur[q]] = q /\ lock[cur[p]] = p
      BY <2>1, <2>2, <1>0, Zenon DEF LockOK
    <2> QED
      BY <2>1, <2>3, Zenon DEF b
  <1>5. OneBuffer'
    BY <1>0, <1>1, Zenon DEF OneBuffer, Bufs
  <1>6. PinsOK'
    <2>1. Cardinality(pinned') = Cardinality(pinned) - 1
      BY <1>0, <1>u, <1>c, Finite, FS_RemoveElement, Zenon
    <2> QED
      BY <2>1, <1>0, Finite, CacheSizes DEF PinsOK
  <1>7. CountOK'
    <2> SUFFICES ASSUME NEW c \in Bufs
                 PROVE  buf'[c].refcnt = Cardinality(Users(c)') + Pin(c)'
      BY Zenon DEF CountOK, Bufs
    <2>1. Users(c)' = Users(c)
      BY <1>u, Zenon DEF Users
    <2>2. CASE c = b
      <3>1. Pin(c)' = 0
        BY <2>2, <1>u, Zenon DEF Pin
      <3> QED
        BY <2>1, <2>2, <3>1, <1>1, <1>d
    <2>3. CASE c # b
      <3>1. Pin(c)' = Pin(c)
        BY <2>3, <1>u, Zenon DEF Pin
      <3> QED
        BY <2>1, <2>3, <3>1, <1>0, <1>1, Zenon DEF CountOK
    <2> QED
      BY <2>2, <2>3, Zenon
  <1> QED
    BY <1>1, <1>2, <1>3, <1>4, <1>5, <1>6, <1>7, Zenon DEF CacheInv

\* releasesleep() frees the lock and wakes everyone who sleeps for it.
LEMMA ReleaseKeeps ==
    ASSUME CacheInv, NEW p \in Procs, ReleaseSleep(p)
    PROVE  CacheInv'
  <1> DEFINE b == cur[p]
  <1>0. Types /\ BufOK /\ ListOK /\ CurOK /\ LockOK /\ UnpinOK /\ CountOK /\ PinsOK /\ OneBuffer /\ LockComes
    BY Zenon DEF CacheInv
  <1>u. /\ UNCHANGED <<cur, buf, lru, pinned, unpin>> /\ pc[p] = "hold" /\ p \notin unpin
        /\ lock' = [lock EXCEPT ![b] = None]
    BY Zenon DEF ReleaseSleep
  <1>w. pc' = [q \in Procs |-> IF cur[q] = b /\ [pc EXCEPT ![p] = "put"][q] = "lock_sleep"
                               THEN "lock" ELSE [pc EXCEPT ![p] = "put"][q]]
    BY DEF ReleaseSleep, Wake, WakesSleepers
  <1>l. /\ "hold" \in Locked /\ "put" \notin Locked /\ "lock" \notin Locked /\ "lock_sleep" \notin Locked
    BY Zenon DEF Locked
  <1>c. b \in Bufs /\ lock[b] = p
    BY <1>0, <1>u, <1>l DEF CurOK, LockOK, Types
  <1>p. pc'[p] = "put"
    BY <1>0, <1>w, Zenon DEF Types
  <1>q. \A q \in Procs : q # p => pc'[q] = pc[q] \/ (pc[q] = "lock_sleep" /\ pc'[q] = "lock" /\ cur[q] = b)
    BY <1>0, <1>w, Zenon DEF Types
  <1>s. \A q \in Procs : pc'[q] = "lock_sleep" => q # p /\ pc[q] = "lock_sleep" /\ cur[q] # b
    BY <1>0, <1>w, Zenon DEF Types
  <1>k. lock'[b] = None /\ \A c \in Bufs : c # b => lock'[c] = lock[c]
    BY <1>0, <1>c, <1>u, Zenon DEF Types
  <1>1. BufOK' /\ ListOK' /\ PinsOK' /\ OneBuffer'
    BY <1>0, <1>u, Zenon DEF BufOK, ListOK, PinsOK, OneBuffer, Bufs
  <1>2. CountOK'
    BY <1>0, <1>u, Zenon DEF CountOK, Users, Pin, Bufs
  <1>3. Types'
    <2>1. pc' \in [Procs -> Labels]
      BY <1>0, <1>w, Zenon DEF Types, Labels
    <2>2. lock' \in [Bufs -> Procs \cup {None}]
      BY <1>0, <1>u, Zenon DEF Types
    <2> QED
      BY <1>0, <1>u, <2>1, <2>2, Zenon DEF Types, Labels, Bufs
  <1> HIDE DEF b
  <1>4. CurOK'
    BY <1>0, <1>p, <1>q, <1>u, Zenon DEF CurOK
  <1>5. LockComes'
    <2> SUFFICES ASSUME NEW q \in Procs, pc'[q] = "lock_sleep" PROVE lock'[cur[q]] # None
      BY <1>u, Zenon DEF LockComes
    <2>1. pc[q] = "lock_sleep" /\ cur[q] # b
      BY <1>s, Zenon
    <2>2. cur[q] \in Bufs /\ lock[cur[q]] # None
      BY <2>1, <1>0, Zenon DEF LockComes, CurOK, Types
    <2> QED
      BY <2>1, <2>2, <1>k, Zenon
  <1>6. \A q \in Procs : q # p => (pc'[q] \in Locked <=> pc[q] \in Locked)
    BY <1>q, <1>l, Zenon
  <1>7. UnpinOK'
    BY <1>0, <1>u, <1>6, Zenon DEF UnpinOK, Types
  <1>8. ASSUME NEW q \in Procs, pc'[q] \in Locked PROVE lock'[cur'[q]] = q
    <2>1. q # p
      BY <1>8, <1>p, <1>l, Zenon
    <2>2. lock[cur[q]] = q /\ cur[q] \in Bufs
      <3>1. pc[q] \in Locked
        BY <2>1, <1>6, <1>8, Zenon
      <3> QED
        BY <3>1, <1>0 DEF LockOK, CurOK, Types, Locked
    <2>3. cur[q] # b
      BY <2>1, <2>2, <1>c, Zenon
    <2> QED
      BY <2>2, <2>3, <1>k, <1>u, Zenon
  <1>9. ASSUME NEW c \in Bufs, lock'[c] # None PROVE cur'[lock'[c]] = c /\ pc'[lock'[c]] \in Locked
    <2>1. c # b /\ lock'[c] = lock[c]
      BY <1>9, <1>k, Zenon
    <2>2. cur[lock[c]] = c /\ pc[lock[c]] \in Locked /\ lock[c] \in Procs
      BY <2>1, <1>9, <1>0 DEF LockOK, Types
    <2>3. lock[c] # p
      BY <2>1, <2>2, Zenon DEF b
    <2> QED
      BY <2>1, <2>2, <2>3, <1>6, <1>u, Zenon
  <1>10. LockOK'
    BY <1>8, <1>9, Zenon DEF LockOK, Bufs, Locked
  <1> QED
    BY <1>1, <1>2, <1>3, <1>4, <1>5, <1>7, <1>10, Zenon DEF CacheInv

\* brelse() gives the reference back.
LEMMA BrelseKeeps ==
    ASSUME CacheInv, NEW p \in Procs, Brelse(p)
    PROVE  CacheInv'
  <1>0. Types /\ BufOK /\ ListOK /\ CurOK /\ LockOK /\ UnpinOK /\ CountOK /\ PinsOK /\ OneBuffer /\ LockComes
    BY Zenon DEF CacheInv
  <1>u. /\ UNCHANGED <<lock, pinned, unpin>> /\ pc[p] = "put"
        /\ cur' = [cur EXCEPT ![p] = None] /\ pc' = [pc EXCEPT ![p] = "user"]
    BY Zenon DEF Brelse
  <1>c. PICK b \in Bufs : cur[p] = b
    BY <1>0, <1>u, Zenon DEF CurOK, Types
  <1>b. buf' = [buf EXCEPT ![b].refcnt = buf[b].refcnt - 1]
    BY <1>c, Zenon DEF Brelse, DropReference
  <1>l. "put" \notin Locked /\ "user" \notin Locked
    BY Zenon DEF Locked
  <1>v. lru' = lru \/ lru' = MovedToHead(b)
    BY <1>c, Zenon DEF Brelse
  <1>d. /\ Cardinality(Users(b)') = Cardinality(Users(b)) - 1
        /\ Cardinality(Users(b)') \in Nat
        /\ \A c \in Bufs : c # b => Users(c)' = Users(c)
    BY <1>0, <1>c, <1>u, OneUserLess, Zenon
  <1>e. /\ buf[b].refcnt = Cardinality(Users(b)) + Pin(b)
        /\ Cardinality(Users(b)) \in Nat /\ Pin(b) \in Nat
    BY <1>0, <1>c, Finite, Zenon DEF CountOK, Pin
  <1>n. buf[b].refcnt - 1 \in Nat
    BY <1>d, <1>e
  <1>1. /\ BufOK' /\ buf'[b].refcnt = buf[b].refcnt - 1
        /\ \A c \in Bufs : buf'[c].blockno = buf[c].blockno
        /\ \A c \in Bufs : c # b => buf'[c].refcnt = buf[c].refcnt
    BY <1>0, <1>b, <1>c, <1>n, CountSet, Zenon
  <1>2. Types'
    BY <1>0, <1>u, Zenon DEF Types, Labels, Bufs
  <1>3. ListOK'
    <2>1. CASE lru' = lru
      BY <2>1, <1>0, Zenon DEF ListOK, Bufs
    <2> QED
      BY <2>1, <1>0, <1>c, <1>v, MoveKeepsList, Zenon
  <1>4. CurOK' /\ LockComes' /\ PinsOK'
    BY <1>0, <1>u, Zenon DEF CurOK, LockComes, PinsOK, Types
  <1>5. OneBuffer'
    BY <1>0, <1>1, Zenon DEF OneBuffer, Bufs
  <1>6. CountOK'
    <2> SUFFICES ASSUME NEW c \in Bufs
                 PROVE  buf'[c].refcnt = Cardinality(Users(c)') + Pin(c)'
      BY Zenon DEF CountOK, Bufs
    <2>1. Pin(c)' = Pin(c)
      BY <1>u, Zenon DEF Pin
    <2>2. CASE c = b
      BY <2>1, <2>2, <1>1, <1>d, <1>e
    <2>3. CASE c # b
      BY <2>1, <2>3, <1>0, <1>1, <1>d, Zenon DEF CountOK
    <2> QED
      BY <2>2, <2>3, Zenon
  <1>7. LockOK' /\ UnpinOK'
    <2>1. \A q \in Procs : pc'[q] \in Locked => pc[q] \in Locked /\ cur'[q] = cur[q]
      BY <1>0, <1>u, <1>l, Zenon DEF Types
    <2>2. \A q \in Procs : pc[q] \in Locked => pc'[q] \in Locked /\ cur'[q] = cur[q]
      BY <1>0, <1>u, <1>l, Zenon DEF Types
    <2>3. \A c \in Bufs : lock[c] # None => lock[c] \in Procs
      BY <1>0, Zenon DEF Types
    <2>4. LockOK'
      BY <1>0, <1>u, <2>1, <2>2, <2>3 DEF LockOK
    <2>5. UnpinOK'
      BY <1>0, <1>u, <2>2, Zenon DEF UnpinOK, Types
    <2> QED
      BY <2>4, <2>5, Zenon
  <1> QED
    BY <1>1, <1>2, <1>3, <1>4, <1>5, <1>6, <1>7, Zenon DEF CacheInv

-----------------------------------------------------------------------------
(***************************************************************************)
(* The theorems                                                            *)
(***************************************************************************)
\* binit().
LEMMA InitHolds ==
    ASSUME Init
    PROVE  CacheInv
  <1>0. NBUF \in Nat /\ None \notin Bufs
    BY CacheSizes, Zenon
  <1>1. Types
    BY Zenon DEF Init, Types, Labels
  <1>2. BufOK /\ OneBuffer
    BY Zenon DEF Init, BufOK, Shaped, Fields, OneBuffer
  <1>3. ListOK
    <2>1. lru = [j \in 1 .. NBUF |-> NBUF + 1 - j]
      BY Zenon DEF Init
    <2>2. lru \in [1 .. NBUF -> Bufs]
      BY <1>0, <2>1 DEF Bufs
    <2>3. ASSUME NEW b \in Bufs PROVE \E j \in 1 .. NBUF : lru[j] = b
      <3>1. NBUF + 1 - b \in 1 .. NBUF /\ NBUF + 1 - (NBUF + 1 - b) = b
        BY <1>0 DEF Bufs
      <3> QED
        BY <3>1, <2>1, Zenon
    <2> QED
      BY <2>2, <2>3, Zenon DEF ListOK
  <1>4. CurOK /\ LockComes /\ LockOK /\ UnpinOK
    BY Zenon DEF Init, CurOK, LockComes, LockOK, UnpinOK, Locked
  <1>5. PinsOK
    <2>1. Cardinality(pinned) = 0
      BY FS_EmptySet, Zenon DEF Init
    <2> QED
      BY <2>1, CacheSizes DEF PinsOK
  <1>6. CountOK
    <2> SUFFICES ASSUME NEW b \in Bufs PROVE buf[b].refcnt = Cardinality(Users(b)) + Pin(b)
      BY Zenon DEF CountOK
    <2>1. Users(b) = {}
      BY <1>0, Zenon DEF Init, Users
    <2>2. Cardinality(Users(b)) = 0
      BY <2>1, FS_EmptySet, Zenon
    <2>3. Pin(b) = 0 /\ buf[b].refcnt = 0
      BY Zenon DEF Init, Pin
    <2> QED
      BY <2>2, <2>3
  <1> QED
    BY <1>1, <1>2, <1>3, <1>4, <1>5, <1>6, Zenon DEF CacheInv

\* Every step keeps the invariant.
LEMMA StepKeeps ==
    ASSUME CacheInv, [Next]_vars
    PROVE  CacheInv'
  <1>1. ASSUME NEW p \in Procs, NEW k \in Blocks, BgetHit(p, k) \/ BgetMiss(p, k) PROVE CacheInv'
    BY <1>1, HitKeeps, MissKeeps, Zenon
  <1>2. ASSUME NEW p \in Procs, NEW v \in Vals, Bwrite(p, v) \/ Bpin(p, v) PROVE CacheInv'
    BY <1>2, BwriteKeeps, BpinKeeps, Zenon
  <1>3. ASSUME NEW p \in Procs,
               AcquireSleep(p) \/ Install(p) \/ Bunpin(p) \/ ReleaseSleep(p) \/ Brelse(p)
        PROVE  CacheInv'
    BY <1>3, AcquireKeeps, InstallKeeps, BunpinKeeps, ReleaseKeeps, BrelseKeeps, Zenon
  <1>4. ASSUME NEW p \in Procs, RwStep(p), UNCHANGED cache PROVE CacheInv'
    BY <1>4, RwIsDriver, DriverKeeps, Zenon
  <1>5. ASSUME DeviceStep \/ HandlerStep, UNCHANGED cache PROVE CacheInv'
    BY <1>5, DeviceIsDriver, DriverKeeps, Zenon
  <1>6. CASE UNCHANGED vars
    <2>1. UNCHANGED <<pc, cur, buf, lru, lock, pinned, unpin>>
      BY <1>6, Zenon DEF vars
    <2>2. DriverStep
      <3>1. Types /\ BufOK
        BY Zenon DEF CacheInv
      <3> QED
        BY <2>1, <3>1, OtherFields, Zenon DEF DriverStep, Moved, Types
    <2> QED
      BY <2>2, DriverKeeps, Zenon
  <1> QED
    BY <1>1, <1>2, <1>3, <1>4, <1>5, <1>6, Zenon DEF Next

\* The invariant holds in every reachable state.
LEMMA Invariant == Spec => []CacheInv
  BY InitHolds, StepKeeps, PTL DEF Spec

\* bget() never panics: with a buffer for every process and every block the
\* log pins, one is unused whenever a process is about to look for one.
THEOREM AlwaysABuffer == Spec => []BufferLeft
  BY Invariant, SomeUnused, PTL

\* bget() never gives a block two buffers.
THEOREM OneBufferPerBlock == Spec => []OneBuffer
  <1>1. CacheInv => OneBuffer
    BY Zenon DEF CacheInv
  <1> QED
    BY <1>1, Invariant, PTL

\* Nobody sleeps in acquiresleep() for a lock that is free: a release between
\* the test and the sleep is never missed.
THEOREM LockNeverForgotten == Spec => []LockComes
  <1>1. CacheInv => LockComes
    BY Zenon DEF CacheInv
  <1> QED
    BY <1>1, Invariant, PTL
=============================================================================
