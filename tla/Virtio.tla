------------------------------- MODULE Virtio -------------------------------
(***************************************************************************)
(* The disk driver (kernel/virtio_disk.c) and the device it talks to.  All *)
(* of the driver runs under disk.vdisk_lock, so what a process does from   *)
(* acquiring the lock to sleeping or releasing it is one step.  The device *)
(* does not take the lock: it fetches requests and completes them in any   *)
(* order between any two steps, also between two rounds of the interrupt   *)
(* handler's loop.                                                         *)
(*                                                                         *)
(* The module is part of BufferCache: pc says where each process stands,   *)
(* and buf is the array of struct buf.  A ring slot whose entry has been   *)
(* taken, and what is recorded of a descriptor that is free, are never     *)
(* read before they are written again; here they become None.              *)
(***************************************************************************)
EXTENDS Integers, FiniteSets, Sequences, FiniteSetsExt

CONSTANTS
    Procs,
    NBUF,           \* buffers
    Blocks, Vals,   \* disk blocks and their contents
    None,           \* no block, no buffer, no process, contents never read
    NUM,            \* descriptors (8 in virtio.h)
    W               \* the ring indices are uint16: they count modulo W

ASSUME VirtioSizes == NUM \in Nat /\ NUM >= 3 /\ W \in Nat /\ W % NUM = 0 /\ W >= NUM

Bufs == 1 .. NBUF   \* bcache.buf
Descs == 0 .. NUM - 1

VARIABLES
    pc, cur,                    \* where p stands; the buffer it works on
    buf,                        \* struct buf: blockno, valid, refcnt, disk, data
    free, desc, info,           \* disk.free, disk.desc; disk.info with disk.ops
    avail, used, used_idx,      \* the rings, and how far the driver has looked
    intr,                       \* the interrupt handler holds vdisk_lock
    disk, seen, inflight, irq   \* the device

driver == <<free, desc, info, avail, used_idx>>
device == <<disk, seen, inflight, irq>>

NoDesc == [addr |-> None, write |-> FALSE, more |-> FALSE, next |-> 0]
NoInfo == [b |-> None, status |-> 0, write |-> FALSE, block |-> None]

\* virtio_disk_init(): all descriptors are unused and the rings are empty.
VirtioInit ==
    /\ free = [i \in Descs |-> TRUE]
    /\ desc = [i \in Descs |-> NoDesc]
    /\ info = [i \in Descs |-> NoInfo]
    /\ avail = [ring |-> [i \in Descs |-> None], idx |-> 0]
    /\ used = [ring |-> [i \in Descs |-> None], idx |-> 0]
    /\ used_idx = 0
    /\ intr = FALSE
    /\ disk \in [Blocks -> Vals]
    /\ seen = 0 /\ inflight = {} /\ irq = FALSE

\* wakeup(): the processes of woken leave label from for label to.
Wake(f, woken, from, to) == [q \in Procs |-> IF q \in woken /\ f[q] = from THEN to ELSE f[q]]

-----------------------------------------------------------------------------
(***************************************************************************)
(* Descriptors                                                             *)
(***************************************************************************)
\* alloc_desc() three times: the lowest free descriptors.
Lowest3 ==
    LET first == Min({i \in Descs : free[i]})
        second == Min({i \in Descs : free[i] /\ i > first})
    IN  <<first, second, Min({i \in Descs : free[i] /\ i > second})>>

EnoughDescs == Cardinality({i \in Descs : free[i]}) >= 3

\* The descriptors free_chain(i) visits.
Follow(i) == IF desc[i].more THEN desc[i].next ELSE i
Chain(i) == {i, Follow(i), Follow(Follow(i))}

-----------------------------------------------------------------------------
(***************************************************************************)
(* virtio_disk_rw()                                                        *)
(***************************************************************************)
\* Mutant: the failed attempt keeps the descriptors it got.
KeepPartial == free' = [i \in Descs |-> FALSE]
\* alloc3_desc() gives back what it got when it cannot get three.
UndoPartial == UNCHANGED free

\* Not enough descriptors: p sleeps on disk.free[0].  Freeing a descriptor
\* that was allocated in vain wakes the others that sleep there.
RwNoDesc(p) ==
    /\ pc[p] \in {"read", "write"} /\ ~ intr
    /\ ~ EnoughDescs
    /\ LET others == IF \E i \in Descs : free[i] THEN Procs \ {p} ELSE {}
           slept == [pc EXCEPT ![p] = IF @ = "read" THEN "read_full" ELSE "write_full"]
       IN  pc' = Wake(Wake(slept, others, "read_full", "read"), others, "write_full", "write")
    /\ UndoPartial
    /\ UNCHANGED <<cur, buf, desc, info, avail, used, used_idx, intr, device>>

\* Format the three descriptors, queue the head and sleep on b.
RwSubmit(p) ==
    LET b == cur[p]
        wr == pc[p] = "write"
    IN
    /\ pc[p] \in {"read", "write"} /\ ~ intr
    /\ EnoughDescs
    /\ LET s == Lowest3 IN
       /\ free' = [i \in Descs |-> free[i] /\ i \notin {s[1], s[2], s[3]}]
       /\ desc' = [desc EXCEPT
             ![s[1]] = [addr |-> "op", write |-> FALSE, more |-> TRUE, next |-> s[2]],
             ![s[2]] = [addr |-> b, write |-> ~ wr, more |-> TRUE, next |-> s[3]],
             ![s[3]] = [addr |-> "status", write |-> TRUE, more |-> FALSE, next |-> 0]]
       /\ info' = [info EXCEPT ![s[1]] =
             [b |-> b, status |-> 255, write |-> wr, block |-> buf[b].blockno]]
       /\ avail' = [ring |-> [avail.ring EXCEPT ![avail.idx % NUM] = s[1]], idx |-> (avail.idx + 1) % W]
    /\ buf' = [buf EXCEPT ![b].disk = TRUE]
    /\ pc' = [pc EXCEPT ![p] = IF wr THEN "writing" ELSE "reading"]
    /\ UNCHANGED <<cur, used, used_idx, intr, device>>

\* The head of the chain of p's request; idx[0] of virtio_disk_rw().
Head0(p) == CHOOSE i \in Descs : info[i].b = cur[p]

\* Mutant: the descriptors are freed and nobody is told.
FreedSilently(f) == f
\* free_desc() wakes who waits for descriptors.
FreedWakes(f) == Wake(Wake(f, Procs, "read_full", "read"), Procs, "write_full", "write")

\* Mutant: virtio_disk_rw() does not wait for b->disk to be cleared.
NotAwaited == {"reading", "writing"}
Awaited == {"read_done", "write_done"}

\* virtio_disk_intr() has cleared b->disk: free the chain and return.
RwDone(p) ==
    LET h == Head0(p) IN
    /\ pc[p] \in Awaited /\ ~ intr
    /\ info' = [info EXCEPT ![h] = NoInfo]
    /\ free' = [i \in Descs |-> free[i] \/ i \in Chain(h)]
    /\ desc' = [i \in Descs |-> IF i \in Chain(h) THEN NoDesc ELSE desc[i]]
    /\ pc' = FreedWakes([pc EXCEPT ![p] = "hold"])
    /\ buf' = [buf EXCEPT ![cur[p]].valid = TRUE]     \* bread(); it is set already in bwrite()
    /\ UNCHANGED <<cur, avail, used, used_idx, intr, device>>

-----------------------------------------------------------------------------
(***************************************************************************)
(* virtio_disk_intr(), on any CPU                                          *)
(***************************************************************************)
IntrStart ==
    /\ irq /\ ~ intr
    /\ intr' = TRUE
    /\ irq' = FALSE
    /\ UNCHANGED <<pc, cur, buf, driver, used, disk, seen, inflight>>

\* Mutants: one channel for all requests, and no test of b->disk in a loop;
\* descriptor 0 is taken for no descriptor.
AllAsleep(id) == Procs
NotForZero(id) == {q \in Procs : id # 0 /\ cur[q] = info[id].b}
\* Who sleeps on the buffer of a request, in virtio_disk_rw().
AsleepOn(id) == {q \in Procs : cur[q] = info[id].b}

\* One round of the loop.
IntrOne ==
    LET id == used.ring[used_idx % NUM]
        b == info[id].b
    IN
    /\ intr /\ used_idx # used.idx
    /\ buf' = [buf EXCEPT ![b].disk = FALSE]
    /\ pc' = Wake(Wake(pc, AsleepOn(id), "reading", "read_done"), AsleepOn(id), "writing", "write_done")
    /\ used' = [used EXCEPT !.ring[used_idx % NUM] = None]
    /\ used_idx' = (used_idx + 1) % W
    /\ UNCHANGED <<cur, free, desc, info, avail, intr, device>>

\* Mutant: the handler handles one completion per interrupt.
HandledOne == intr
HandledAll == intr /\ used_idx = used.idx

IntrEnd ==
    /\ HandledAll
    /\ intr' = FALSE
    /\ UNCHANGED <<pc, cur, buf, driver, used, device>>

-----------------------------------------------------------------------------
(***************************************************************************)
(* The device: qemu's virtio-blk.                                          *)
(***************************************************************************)
DevFetch ==
    /\ seen # avail.idx
    /\ inflight' = inflight \cup {avail.ring[seen % NUM]}
    /\ avail' = [avail EXCEPT !.ring[seen % NUM] = None]
    /\ seen' = (seen + 1) % W
    /\ UNCHANGED <<pc, cur, buf, free, desc, info, used, used_idx, intr, disk, irq>>

\* The request headed by h is done: data, status, used ring, interrupt.
DevComplete(h) ==
    LET data == Follow(h)
        b == desc[data].addr
        blk == info[h].block
    IN
    /\ h \in inflight
    /\ IF desc[data].write THEN buf' = [buf EXCEPT ![b].data = disk[blk]] /\ UNCHANGED disk
                           ELSE disk' = [disk EXCEPT ![blk] = buf[b].data] /\ UNCHANGED buf
    /\ info' = [info EXCEPT ![h].status = 0]
    /\ used' = [ring |-> [used.ring EXCEPT ![used.idx % NUM] = h], idx |-> (used.idx + 1) % W]
    /\ inflight' = inflight \ {h}
    /\ irq' = TRUE
    /\ UNCHANGED <<pc, cur, free, desc, avail, used_idx, intr, seen>>

DeviceStep == DevFetch \/ \E h \in Descs : DevComplete(h)
HandlerStep == IntrStart \/ IntrOne \/ IntrEnd

-----------------------------------------------------------------------------
InRw == {"reading", "read_done", "writing", "write_done"}
\* Every descriptor is free or belongs to the chain of exactly one request,
\* so that free_desc() never panics and none is leaked.
Requests == {p \in Procs : pc[p] \in InRw}
Descriptors ==
    /\ \A p \in Requests : \A i \in Chain(Head0(p)) : ~ free[i]
    /\ Cardinality({i \in Descs : ~ free[i]}) = 3 * Cardinality(Requests)
    /\ Cardinality(UNION {Chain(Head0(p)) : p \in Requests}) = 3 * Cardinality(Requests)

\* What the interrupt handler finds in the used ring is a request that has
\* succeeded and whose process still waits for it.
Unhandled == {used.ring[((used_idx + j) % W) % NUM] : j \in 0 .. ((used.idx - used_idx) % W) - 1}
CompletionsMatch == \A id \in Unhandled :
    /\ info[id].status = 0
    /\ info[id].b \in Bufs /\ buf[info[id].b].disk
    /\ \E p \in Procs : cur[p] = info[id].b /\ pc[p] \in {"reading", "writing"}

\* No completion is overlooked: while the used ring holds one, the handler
\* is running or the device's interrupt is pending.
CompletionNoticed == used_idx # used.idx => intr \/ irq

\* Who waits for descriptors can count on a wakeup: a request that will give
\* its own back is under way.
DescriptorsCome == \A p \in Procs : pc[p] \in {"read_full", "write_full"} => Requests # {}

\* When virtio_disk_rw() is told that its request is done, the buffer and
\* the block on the disk are the same.
DataTransferred == \A p \in Procs : pc[p] \in {"read_done", "write_done"} =>
    buf[cur[p]].data = disk[buf[cur[p]].blockno]

\* A request that has been submitted returns.
RequestReturns == \A p \in Procs : pc[p] \in InRw ~> pc[p] \notin InRw
=============================================================================
