---------------------------- MODULE BufferCache -----------------------------
(***************************************************************************)
(* The buffer cache (kernel/bio.c) with its sleep locks (sleeplock.c), on  *)
(* top of the disk driver of module Virtio.  A critical section of         *)
(* bcache.lock or of a sleep lock's spin lock is one step.                 *)
(*                                                                         *)
(* Processes use it as log.c and fs.c do: bread() a block, change it and   *)
(* either bwrite() it or bpin() it until a later bwrite() and bunpin(),    *)
(* then brelse() it.                                                       *)
(***************************************************************************)
EXTENDS Virtio

CONSTANTS
    Changed,        \* bound: the blocks that processes change
    MaxPins         \* bound: blocks pinned at a time

ASSUME CacheSizes ==
    /\ Changed \subseteq Blocks
    /\ IsFiniteSet(Procs) /\ NBUF \in Nat /\ MaxPins \in Nat
    /\ NBUF >= Cardinality(Procs) + MaxPins
    /\ None \notin Procs /\ None \notin Bufs

VARIABLES
    lru,            \* the list from head.next (most recent) to head.prev
    lock,           \* b->lock: the process that holds the sleep lock
    pinned,         \* buffers the log has pinned
    unpin           \* processes that have to bunpin() what they wrote

vars == <<pc, cur, buf, driver, used, intr, device, lru, lock, pinned, unpin>>
cache == <<lru, lock, pinned, unpin>>

\* binit()
Init ==
    /\ VirtioInit
    /\ pc = [p \in Procs |-> "user"]
    /\ cur = [p \in Procs |-> None]
    /\ buf = [b \in Bufs |->
          [blockno |-> None, valid |-> FALSE, refcnt |-> 0, disk |-> FALSE, data |-> None]]
    /\ lru = [j \in 1 .. NBUF |-> NBUF + 1 - j]
    /\ lock = [b \in Bufs |-> None]
    /\ pinned = {} /\ unpin = {}

-----------------------------------------------------------------------------
(***************************************************************************)
(* bget() and bread()                                                      *)
(***************************************************************************)
\* Mutant: only buffers in use are looked at.
CachedInUse(k) == {b \in Bufs : buf[b].blockno = k /\ buf[b].refcnt > 0}
Cached(k) == {b \in Bufs : buf[b].blockno = k}
Unused == {j \in 1 .. NBUF : buf[lru[j]].refcnt = 0}

\* Recycle the least recently used unused buffer.
Victim == lru[Max(Unused)]

BgetHit(p, k) ==
    /\ pc[p] = "user" /\ Cached(k) # {}
    /\ LET b == CHOOSE b \in Cached(k) : TRUE IN
       /\ buf' = [buf EXCEPT ![b].refcnt = @ + 1]
       /\ cur' = [cur EXCEPT ![p] = b]
    /\ pc' = [pc EXCEPT ![p] = "lock"]
    /\ UNCHANGED <<driver, used, intr, device, cache>>

\* Mutant: the buffer of another block is believed to be up to date.
StillValid(b) == buf[b].valid
\* b->valid of a recycled buffer.
NotValid(b) == FALSE

BgetMiss(p, k) ==
    /\ pc[p] = "user" /\ Cached(k) = {} /\ Unused # {}
    /\ buf' = [buf EXCEPT ![Victim].blockno = k, ![Victim].valid = NotValid(Victim),
                          ![Victim].refcnt = 1]
    /\ cur' = [cur EXCEPT ![p] = Victim]
    /\ pc' = [pc EXCEPT ![p] = "lock"]
    /\ UNCHANGED <<driver, used, intr, device, cache>>

\* acquiresleep(); bread() then looks at b->valid.
AcquireSleep(p) ==
    LET b == cur[p] IN
    /\ pc[p] = "lock"
    /\ IF lock[b] = None
       THEN /\ lock' = [lock EXCEPT ![b] = p]
            /\ pc' = [pc EXCEPT ![p] = IF buf[b].valid THEN "hold" ELSE "read"]
       ELSE /\ pc' = [pc EXCEPT ![p] = "lock_sleep"]
            /\ UNCHANGED lock
    /\ UNCHANGED <<cur, buf, driver, used, intr, device, lru, pinned, unpin>>

-----------------------------------------------------------------------------
(***************************************************************************)
(* What the holder of a locked buffer does                                 *)
(***************************************************************************)
\* Change the block and bwrite() it.
Bwrite(p, v) ==
    /\ pc[p] = "hold" /\ p \notin unpin /\ buf[cur[p]].blockno \in Changed
    /\ buf' = [buf EXCEPT ![cur[p]].data = v]
    /\ pc' = [pc EXCEPT ![p] = "write"]
    /\ UNCHANGED <<cur, driver, used, intr, device, cache>>

\* Mutant: a pinned buffer is not counted as used.
NoReference(n) == n
OneReference(n) == n + 1

\* Change the block and log_write() it: bpin().
Bpin(p, v) ==
    LET b == cur[p] IN
    /\ pc[p] = "hold" /\ p \notin unpin /\ buf[b].blockno \in Changed
    /\ b \in pinned \/ Cardinality(pinned) < MaxPins
    /\ buf' = [buf EXCEPT ![b].data = v,
          ![b].refcnt = IF b \in pinned THEN buf[b].refcnt ELSE OneReference(buf[b].refcnt)]
    /\ pinned' = pinned \cup {b}
    /\ UNCHANGED <<pc, cur, driver, used, intr, device, lru, lock, unpin>>

\* install_trans(): bwrite() of a pinned block, to be unpinned after it.
Install(p) ==
    /\ pc[p] = "hold" /\ p \notin unpin /\ cur[p] \in pinned
    /\ pc' = [pc EXCEPT ![p] = "write"]
    /\ unpin' = unpin \cup {p}
    /\ UNCHANGED <<cur, buf, driver, used, intr, device, lru, lock, pinned>>

\* Mutant: a reference is never given back.
KeepReference(n) == n
DropReference(n) == n - 1

Bunpin(p) ==
    /\ pc[p] = "hold" /\ p \in unpin
    /\ buf' = [buf EXCEPT ![cur[p]].refcnt = DropReference(@)]
    /\ pinned' = pinned \ {cur[p]}
    /\ unpin' = unpin \ {p}
    /\ UNCHANGED <<pc, cur, driver, used, intr, device, lru, lock>>

\* The list after b has been moved to its head.
MovedToHead(b) ==
    LET k == CHOOSE j \in 1 .. NBUF : lru[j] = b IN
    [j \in 1 .. NBUF |-> IF j = 1 THEN b ELSE IF j <= k THEN lru[j - 1] ELSE lru[j]]

\* Mutant: releasesleep() wakes nobody.
WakesNobody(b) == {}
WakesSleepers(b) == {p \in Procs : cur[p] = b}

\* brelse(): releasesleep() first,
ReleaseSleep(p) ==
    LET b == cur[p] IN
    /\ pc[p] = "hold" /\ p \notin unpin
    /\ lock' = [lock EXCEPT ![b] = None]
    /\ pc' = Wake([pc EXCEPT ![p] = "put"], WakesSleepers(b), "lock_sleep", "lock")
    /\ UNCHANGED <<cur, buf, driver, used, intr, device, lru, pinned, unpin>>

\* then the reference is dropped; an unused buffer becomes the most recent.
Brelse(p) ==
    LET b == cur[p] IN
    /\ pc[p] = "put"
    /\ buf' = [buf EXCEPT ![b].refcnt = DropReference(@)]
    /\ lru' = IF buf'[b].refcnt = 0 THEN MovedToHead(b) ELSE lru
    /\ cur' = [cur EXCEPT ![p] = None]
    /\ pc' = [pc EXCEPT ![p] = "user"]
    /\ UNCHANGED <<driver, used, intr, device, lock, pinned, unpin>>

-----------------------------------------------------------------------------
\* virtio_disk_rw(), called by bread() and by bwrite().
RwStep(p) == RwNoDesc(p) \/ RwSubmit(p) \/ RwDone(p)

Next ==
    \/ \E p \in Procs :
          \/ \E k \in Blocks : BgetHit(p, k) \/ BgetMiss(p, k)
          \/ \E v \in Vals : Bwrite(p, v) \/ Bpin(p, v)
          \/ AcquireSleep(p) \/ Install(p) \/ Bunpin(p) \/ ReleaseSleep(p) \/ Brelse(p)
          \/ RwStep(p) /\ UNCHANGED cache
    \/ (DeviceStep \/ HandlerStep) /\ UNCHANGED cache

Spec == Init /\ [][Next]_vars

-----------------------------------------------------------------------------
Labels == {"user", "lock", "lock_sleep", "read", "read_full", "reading", "read_done",
           "hold", "write", "write_full", "writing", "write_done", "put"}

\* The type invariant.  A reference count is bounded by the processes that can
\* have the buffer and the one pin.
TypeOK ==
    /\ pc \in [Procs -> Labels]
    /\ cur \in [Procs -> Bufs \cup {None}]
    /\ buf \in [Bufs -> [blockno : Blocks \cup {None}, valid : BOOLEAN,
                         refcnt : 0 .. Cardinality(Procs) + 1, disk : BOOLEAN, data : Vals \cup {None}]]
    /\ free \in [Descs -> BOOLEAN] /\ used_idx \in 0 .. W - 1
    /\ disk \in [Blocks -> Vals] /\ inflight \subseteq Descs
    /\ Range(lru) = Bufs /\ Len(lru) = NBUF
    /\ lock \in [Bufs -> Procs \cup {None}]
    /\ pinned \subseteq Bufs /\ unpin \subseteq Procs

\* bget() never makes two buffers for one block, also when two processes
\* miss on it at once.
OneBuffer == \A b, c \in Bufs : buf[b].blockno = buf[c].blockno /\ b # c => buf[b].blockno = None

\* bget() does not panic: with a buffer for every process and every pinned
\* block, one is always unused when it is needed.
BufferLeft == (\E p \in Procs : pc[p] = "user") => Unused # {}

\* Who sleeps in acquiresleep() can count on a wakeup: the lock is held.
LockComes == \A p \in Procs : pc[p] = "lock_sleep" => lock[cur[p]] # None

\* The cache and the driver implement a store of blocks that change only
\* when the process that has them writes them.
Holding == {"hold", "write", "write_full", "writing", "write_done"}
Contents(k) == IF \E b \in Cached(k) : buf[b].valid
               THEN buf[CHOOSE b \in Cached(k) : buf[b].valid].data ELSE disk[k]
Owner(k) == IF \E p \in Procs : pc[p] \in Holding /\ buf[cur[p]].blockno = k
            THEN CHOOSE p \in Procs : pc[p] \in Holding /\ buf[cur[p]].blockno = k ELSE None
Store == INSTANCE BlockStore WITH
    mem <- [k \in Blocks |-> Contents(k)], owner <- [k \in Blocks |-> Owner(k)], Nobody <- None
IsStore == Store!Spec
=============================================================================
