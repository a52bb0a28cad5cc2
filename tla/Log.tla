-------------------------------- MODULE Log ---------------------------------
(***************************************************************************)
(* The write-ahead log of the file system (kernel/log.c): concurrent       *)
(* system calls between begin_op() and end_op(), group commit by the last  *)
(* one, a crash between any two disk writes, and recovery, which may crash *)
(* itself.  Every bwrite() is one step: the driver waits for the disk, and *)
(* the disk writes a block atomically.                                     *)
(*                                                                         *)
(* The buffer cache is what the log uses it for: cache[b] is the content a *)
(* bread() of block b returns, and a block with no pin may leave the cache *)
(* at any time and be read again from disk.                                *)
(***************************************************************************)
EXTENDS Integers, Sequences, FiniteSets

CONSTANTS
    Ops,            \* processes that make file system calls
    Blocks,         \* home blocks of the file system
    Vals,           \* block contents
    MAXOPBLOCKS,    \* blocks begin_op() reserves per call (10 in param.h)
    LOGSIZE,        \* blocks in struct logheader (30)
    NLOG,           \* sb.nlog, header block included (mkfs.c: LOGSIZE)
    OpBlocks        \* blocks a call really writes, at most

ASSUME LogSizes ==
    /\ {MAXOPBLOCKS, LOGSIZE, NLOG, OpBlocks} \subseteq Nat \ {0}
    /\ OpBlocks <= MAXOPBLOCKS /\ MAXOPBLOCKS <= LOGSIZE

ASSUME FiniteOps == IsFiniteSet(Ops)    \* NPROC processes

VARIABLES
    pc,             \* where each process stands
    wrote,          \* blocks its current call has logged
    outstanding, committing, lh,    \* struct log; lh is block[0..n-1]
    cache, pins,    \* buffer contents; bpin() count of each block
    phase, tail,    \* progress of commit() or of recovery
    disk, dlog, dhead               \* home blocks, log blocks, log header

callers == <<pc, wrote>>
log == <<outstanding, committing, lh>>
bufs == <<cache, pins>>
ondisk == <<disk, dlog, dhead>>
vars == <<callers, log, bufs, phase, tail, ondisk>>

Range1(s) == {s[k] : k \in 1 .. Len(s)}

Phases == {"idle", "write_log", "write_head", "install", "erase", "done",
           "read_head", "reinstall", "clear"}
Labels == {"user", "begin", "asleep", "in", "commit"}
Recovering == phase \in {"read_head", "reinstall", "clear"}

Init ==
    /\ pc = [o \in Ops |-> "user"]
    /\ wrote = [o \in Ops |-> {}]
    /\ outstanding = 0 /\ committing = FALSE /\ lh = <<>>
    /\ disk \in [Blocks -> Vals]
    /\ cache = disk
    /\ pins = [b \in Blocks |-> 0]
    /\ phase = "read_head" /\ tail = 1
    /\ \E v \in Vals : dlog = [k \in 1 .. NLOG - 1 |-> v]    \* mkfs zeroes it
    /\ dhead = <<>>

-----------------------------------------------------------------------------
(***************************************************************************)
(* begin_op() and end_op(): critical sections of log.lock.                 *)
(***************************************************************************)
\* Mutants: begin_op() reserves no space; it does not wait for a commit.
WaitForCommit == committing
WaitForSpace == Len(lh) + (outstanding + 1) * MAXOPBLOCKS > LOGSIZE

\* The reservation: this call might exhaust log space.
MustWait == committing \/ Len(lh) + (outstanding + 1) * MAXOPBLOCKS > LOGSIZE

BeginOp(o) ==
    /\ ~ Recovering
    /\ pc[o] \in {"user", "begin"}
    /\ IF MustWait
       THEN /\ pc' = [pc EXCEPT ![o] = "asleep"]
            /\ UNCHANGED outstanding
       ELSE /\ pc' = [pc EXCEPT ![o] = "in"]
            /\ outstanding' = outstanding + 1
    /\ UNCHANGED <<wrote, committing, lh, bufs, phase, tail, ondisk>>

\* Mutant: nobody is woken.
WakeNone(o, l) == pc' = [pc EXCEPT ![o] = l]

\* wakeup(&log), with o leaving for label l.
WakeAll(o, l) == pc' = [q \in Ops |-> IF q = o THEN l
                                      ELSE IF pc[q] = "asleep" THEN "begin" ELSE pc[q]]

EndOp(o) ==
    /\ pc[o] = "in"
    /\ outstanding' = outstanding - 1
    /\ wrote' = [wrote EXCEPT ![o] = {}]
    /\ IF outstanding' = 0
       THEN /\ committing' = TRUE
            /\ phase' = IF lh = <<>> THEN "done" ELSE "write_log"
            /\ tail' = 1
            /\ pc' = [pc EXCEPT ![o] = "commit"]
       ELSE /\ WakeAll(o, "user")
            /\ UNCHANGED <<committing, phase, tail>>
    /\ UNCHANGED <<lh, bufs, ondisk>>

\* end_op() after commit() has returned.
EndCommit(o) ==
    /\ pc[o] = "commit"
    /\ phase = "done"
    /\ committing' = FALSE
    /\ phase' = "idle"
    /\ WakeAll(o, "user")
    /\ UNCHANGED <<wrote, outstanding, lh, bufs, tail, ondisk>>

(***************************************************************************)
(* A call modifies block b in the cache and calls log_write().             *)
(***************************************************************************)
LogFull == Len(lh) >= LOGSIZE \/ Len(lh) >= NLOG - 1

\* Mutant: log_write() does not look for the block in the log.
NeverAbsorbed(b) == b \notin Blocks

\* Log absorption: the block is in this transaction already.
Absorbed(b) == b \in Range1(lh)

\* Mutant: the logged buffer is not pinned.
NoPin(b) == b \in Blocks /\ UNCHANGED pins

Pin(b) == pins' = [pins EXCEPT ![b] = @ + 1]

LogWrite(o, b, v) ==
    /\ pc[o] = "in"
    /\ Cardinality(wrote[o] \cup {b}) <= OpBlocks
    /\ ~ LogFull
    /\ cache' = [cache EXCEPT ![b] = v]
    /\ wrote' = [wrote EXCEPT ![o] = @ \cup {b}]
    /\ IF Absorbed(b) THEN UNCHANGED <<lh, pins>>
                      ELSE lh' = Append(lh, b) /\ Pin(b)
    /\ UNCHANGED <<pc, outstanding, committing, phase, tail, ondisk>>

\* bget() may recycle the buffer of a block that nobody pins; the next
\* bread() reads it from disk.
Evict(b) ==
    /\ pins[b] = 0
    /\ ~ Recovering
    /\ cache' = [cache EXCEPT ![b] = disk[b]]
    /\ UNCHANGED <<callers, log, pins, phase, tail, ondisk>>

-----------------------------------------------------------------------------
(***************************************************************************)
(* commit(), run by the process that ended the last call.                  *)
(***************************************************************************)
\* write_log(): one cached block to its place in the log.
WriteLog ==
    /\ phase = "write_log"
    /\ dlog' = [dlog EXCEPT ![tail] = cache[lh[tail]]]
    /\ IF tail = Len(lh) THEN phase' = "write_head" /\ tail' = 1
                         ELSE tail' = tail + 1 /\ UNCHANGED phase
    /\ UNCHANGED <<callers, log, bufs, disk, dhead>>

\* Mutant: the transaction is erased without being installed.
WriteHeadOnly ==
    /\ phase = "write_head"
    /\ dhead' = lh
    /\ phase' = "erase"
    /\ tail' = 1
    /\ UNCHANGED <<callers, log, bufs, disk, dlog>>

\* write_head(): the true point at which the transaction commits.
WriteHead ==
    /\ phase = "write_head"
    /\ dhead' = lh
    /\ phase' = "install"
    /\ tail' = 1
    /\ UNCHANGED <<callers, log, bufs, disk, dlog>>

\* install_trans(0): one block to its home location, and its bunpin().
Install ==
    LET b == lh[tail] IN
    /\ phase = "install"
    /\ cache' = [cache EXCEPT ![b] = dlog[tail]]
    /\ disk' = [disk EXCEPT ![b] = dlog[tail]]
    /\ pins' = [pins EXCEPT ![b] = @ - 1]
    /\ IF tail = Len(lh) THEN phase' = "erase" /\ tail' = 1
                         ELSE tail' = tail + 1 /\ UNCHANGED phase
    /\ UNCHANGED <<callers, log, dlog, dhead>>

\* log.lh.n = 0 and the second write_head().
EraseLog ==
    /\ phase = "erase"
    /\ lh' = <<>>
    /\ dhead' = <<>>
    /\ phase' = "done"
    /\ UNCHANGED <<callers, outstanding, committing, bufs, tail, disk, dlog>>

-----------------------------------------------------------------------------
(***************************************************************************)
(* A crash empties memory; the next boot runs recover_from_log() before    *)
(* any system call.                                                        *)
(***************************************************************************)
Crash ==
    /\ pc' = [o \in Ops |-> "user"]
    /\ wrote' = [o \in Ops |-> {}]
    /\ outstanding' = 0 /\ committing' = FALSE /\ lh' = <<>>
    /\ cache' = disk
    /\ pins' = [b \in Blocks |-> 0]
    /\ phase' = "read_head" /\ tail' = 1
    /\ UNCHANGED ondisk

\* Mutant: recovery reads the header and clears the log.
AfterReadClear == "clear"

\* install_trans(1) has something to do when the log was committed.
AfterRead == IF dhead = <<>> THEN "clear" ELSE "reinstall"

ReadHead ==
    /\ phase = "read_head"
    /\ lh' = dhead
    /\ tail' = 1
    /\ phase' = AfterRead
    /\ UNCHANGED <<callers, outstanding, committing, bufs, ondisk>>

\* install_trans(1)
Reinstall ==
    LET b == lh[tail] IN
    /\ phase = "reinstall"
    /\ cache' = [cache EXCEPT ![b] = dlog[tail]]
    /\ disk' = [disk EXCEPT ![b] = dlog[tail]]
    /\ IF tail = Len(lh) THEN phase' = "clear" /\ tail' = 1
                         ELSE tail' = tail + 1 /\ UNCHANGED phase
    /\ UNCHANGED <<callers, log, pins, dlog, dhead>>

ClearLog ==
    /\ phase = "clear"
    /\ lh' = <<>>
    /\ dhead' = <<>>
    /\ phase' = "idle"
    /\ UNCHANGED <<callers, outstanding, committing, bufs, tail, disk, dlog>>

-----------------------------------------------------------------------------
CommitStep == WriteLog \/ WriteHead \/ Install \/ EraseLog \/ \E o \in Ops : EndCommit(o)
RecoveryStep == ReadHead \/ Reinstall \/ ClearLog

Next ==
    \/ \E o \in Ops : BeginOp(o) \/ EndOp(o)
    \/ \E o \in Ops, b \in Blocks, v \in Vals : LogWrite(o, b, v)
    \/ \E b \in Blocks : Evict(b)
    \/ CommitStep \/ RecoveryStep \/ Crash

Spec == Init /\ [][Next]_vars

\* Every call ends, commit() and recovery proceed.
FairSpec ==
    /\ Spec
    /\ \A o \in Ops : WF_vars(EndOp(o))
    /\ WF_vars(CommitStep) /\ WF_vars(RecoveryStep)

-----------------------------------------------------------------------------
TypeOK ==
    /\ pc \in [Ops -> Labels]
    /\ wrote \in [Ops -> SUBSET Blocks]
    /\ outstanding \in Nat
    /\ committing \in BOOLEAN
    /\ lh \in Seq(Blocks)
    /\ cache \in [Blocks -> Vals]
    /\ pins \in [Blocks -> Nat]
    /\ phase \in Phases
    /\ tail \in Nat
    /\ disk \in [Blocks -> Vals]
    /\ dlog \in [1 .. NLOG - 1 -> Vals]
    /\ dhead \in Seq(Blocks)

\* What the disk will hold after recovery.
Durable == [b \in Blocks |->
    IF \E k \in 1 .. Len(dhead) : dhead[k] = b
    THEN dlog[CHOOSE k \in 1 .. Len(dhead) : dhead[k] = b]
    ELSE disk[b]]

\* The log implements an atomic disk.
Abstract == INSTANCE AtomicDisk WITH
    durable <- Durable,
    mem <- IF Recovering THEN Durable ELSE cache,
    active <- outstanding

Atomic == Abstract!Spec

\* log_write() never panics: a call that may still write finds room.
NoLogPanic == \A o \in Ops : pc[o] = "in" => ~ LogFull

\* When no system call is active and none is committing, all that was
\* written has reached its home location.
Quiescent == phase = "idle" /\ outstanding = 0 => disk = cache /\ dhead = <<>> /\ lh = <<>>

\* A block the log must still write is pinned exactly once; others are not.
PinsMatchLog == phase \in {"idle", "write_log", "write_head", "done"} =>
    \A b \in Blocks : pins[b] = IF b \in Range1(lh) THEN 1 ELSE 0

\* Whoever sleeps in begin_op() has somebody to wake it.
SleeperHasWaker == \A o \in Ops : pc[o] = "asleep" => committing \/ outstanding > 0

\* A call that waits in begin_op() is woken.
SleeperWakes == \A o \in Ops : pc[o] = "asleep" ~> pc[o] # "asleep"

\* end_op()'s panic: nobody commits while a call is active.
CommitAlone == committing => outstanding = 0 /\ \E o \in Ops : pc[o] = "commit"
=============================================================================
