-------------------------------- MODULE Pipe --------------------------------
(***************************************************************************)
(* One pipe (kernel/pipe.c) between processes that read, write, close and  *)
(* are killed.  A process holds pi->lock from "loop" on until it returns   *)
(* or sleeps; one step copies one byte.  sleep() and wakeup() are those of *)
(* Proc: a process that has decided to sleep ("sleep") still holds the     *)
(* lock, and pr->killed is read before that.                               *)
(***************************************************************************)
EXTENDS Integers, Sequences, FiniteSets

CONSTANTS
    Readers, Writers,   \* processes that start with the read / the write end
    PIPESIZE,           \* 512 in the code
    W,                  \* nread and nwrite are uint: they count modulo W
    Bytes,
    MaxN,               \* bound: the largest n of a read or a write
    Killable            \* bound: the processes that may be killed

ASSUME PipeSizes ==
    /\ {PIPESIZE, W, MaxN} \subseteq Nat \ {0}
    /\ W % PIPESIZE = 0 /\ W > PIPESIZE
    /\ Readers \cap Writers = {}

Procs == Readers \cup Writers
NoOne == "nobody"

ASSUME PipeProcs == NoOne \notin Procs

VARIABLES
    nread, nwrite, data, readopen, writeopen,   \* struct pipe
    freed,                                      \* kfree(pi) has been called
    lk,                                         \* holder of pi->lock
    fds,                                        \* processes whose end is open
    pc, left, killed                            \* left is n - i

pipe == <<nread, nwrite, data>>
ends == <<readopen, writeopen, freed, fds>>
vars == <<pipe, ends, lk, pc, left, killed>>

Init ==
    /\ nread = 0 /\ nwrite = 0
    /\ data \in [0 .. PIPESIZE - 1 -> Bytes]
    /\ readopen = TRUE /\ writeopen = TRUE /\ freed = FALSE
    /\ fds = Procs
    /\ lk = NoOne
    /\ pc = [p \in Procs |-> "user"]
    /\ left = [p \in Procs |-> 0]
    /\ killed = [p \in Procs |-> FALSE]

Empty == nread = nwrite
Full == nwrite = (nread + PIPESIZE) % W

\* p goes to l; wakeup() wakes the processes of woken that sleep.
Move(p, l, woken) == pc' = [q \in Procs |->
    IF q = p THEN l ELSE IF q \in woken /\ pc[q] = "asleep" THEN "acquire" ELSE pc[q]]

Leave(p, woken) ==
    /\ Move(p, "user", woken)
    /\ lk' = NoOne
    /\ left' = [left EXCEPT ![p] = 0]
    /\ UNCHANGED <<pipe, ends, killed>>

\* read() or write() of n bytes; usertrap() lets no killed process in.
Enter(p, n) ==
    /\ pc[p] = "user" /\ p \in fds /\ ~ killed[p]
    /\ Move(p, "acquire", {})
    /\ left' = [left EXCEPT ![p] = n]
    /\ UNCHANGED <<pipe, ends, lk, killed>>

Acquire(p) ==
    /\ pc[p] = "acquire" /\ lk = NoOne
    /\ lk' = p
    /\ Move(p, "loop", {})
    /\ UNCHANGED <<pipe, ends, left, killed>>

\* The end of sleep(chan, &pi->lock)'s critical section.
Sleep(p) ==
    /\ pc[p] = "sleep"
    /\ lk' = NoOne
    /\ Move(p, "asleep", {})
    /\ UNCHANGED <<pipe, ends, left, killed>>

-----------------------------------------------------------------------------
(***************************************************************************)
(* pipewrite()                                                             *)
(***************************************************************************)
Writing(p) == p \in Writers /\ pc[p] = "loop"
\* Mutant: the loop runs while i <= n.
OneTooMany(p) == left[p] >= 0
MoreToWrite(p) == left[p] > 0
Refused(p) == ~ readopen \/ killed[p]

\* The reader is gone or the writer is killed: return -1.
WriteRefused(p) ==
    Writing(p) /\ MoreToWrite(p) /\ Refused(p) /\ Leave(p, {})

\* Mutant: a full pipe puts the writer to sleep without waking the readers.
WakeNobody == {}
WokenByFull == Readers

WriteFull(p) ==
    /\ Writing(p) /\ MoreToWrite(p) /\ ~ Refused(p) /\ Full
    /\ Move(p, "sleep", WokenByFull)
    /\ UNCHANGED <<pipe, ends, lk, left, killed>>

\* Mutant: the index is taken after the increment.
SlotAfter == ((nwrite + 1) % W) % PIPESIZE
Slot == nwrite % PIPESIZE

WriteByte(p, b) ==
    /\ Writing(p) /\ MoreToWrite(p) /\ ~ Refused(p) /\ ~ Full
    /\ data' = [data EXCEPT ![Slot] = b]
    /\ nwrite' = (nwrite + 1) % W
    /\ left' = [left EXCEPT ![p] = @ - 1]
    /\ UNCHANGED <<nread, ends, lk, pc, killed>>

\* All is written, or copyin() has failed.
WriteDone(p) ==
    /\ Writing(p)
    /\ ~ MoreToWrite(p) \/ (~ Refused(p) /\ ~ Full)
    /\ Leave(p, Readers)

-----------------------------------------------------------------------------
(***************************************************************************)
(* piperead()                                                              *)
(***************************************************************************)
Reading(p, l) == p \in Readers /\ pc[p] = l

ReadEmpty(p) ==
    /\ Reading(p, "loop") /\ Empty /\ writeopen
    /\ \/ killed[p] /\ Leave(p, {})
       \/ ~ killed[p] /\ Move(p, "sleep", {}) /\ UNCHANGED <<pipe, ends, lk, left, killed>>

ReadStart(p) ==
    /\ Reading(p, "loop") /\ ~ (Empty /\ writeopen)
    /\ Move(p, "copy", {})
    /\ UNCHANGED <<pipe, ends, lk, left, killed>>

\* The byte has left the pipe also when copyout() fails, which ends the loop.
ReadByte(p) ==
    /\ Reading(p, "copy") /\ left[p] > 0 /\ ~ Empty
    /\ nread' = (nread + 1) % W
    /\ \E k \in {left[p] - 1, 0} : left' = [left EXCEPT ![p] = k]
    /\ UNCHANGED <<nwrite, data, ends, lk, pc, killed>>

ReadDone(p) ==
    Reading(p, "copy") /\ (left[p] = 0 \/ Empty) /\ Leave(p, Writers)

-----------------------------------------------------------------------------
\* Mutant: the pipe is freed when either end is closed.
EitherClosed == ~ (readopen' /\ writeopen')
BothClosed == ~ readopen' /\ ~ writeopen'

\* Mutant: closing an end wakes nobody.
WakesNone(p) == {q \in Procs : q = p /\ q # p}
OtherSide(p) == IF p \in Writers THEN Readers ELSE Writers

SameSide(p) == IF p \in Writers THEN Writers ELSE Readers

PipeClose(p) ==
    /\ lk = NoOne
    /\ writeopen' = (writeopen /\ p \notin Writers)
    /\ readopen' = (readopen /\ p \notin Readers)
    /\ freed' = BothClosed
    /\ Move(p, "user", OtherSide(p))

\* close(), or the exit of p; fileclose() calls pipeclose() for the last
\* process that has the end open.
Close(p) ==
    /\ pc[p] = "user" /\ p \in fds
    /\ fds' = fds \ {p}
    /\ IF fds' \cap SameSide(p) = {}
       THEN PipeClose(p)
       ELSE UNCHANGED <<readopen, writeopen, freed, pc>>
    /\ UNCHANGED <<pipe, lk, left, killed>>

Kill(p) ==
    /\ p \in Killable /\ ~ killed[p]
    /\ killed' = [killed EXCEPT ![p] = TRUE]
    /\ pc' = [pc EXCEPT ![p] = IF @ = "asleep" THEN "acquire" ELSE @]
    /\ UNCHANGED <<pipe, ends, lk, left>>

\* The steps of p inside pipewrite() or piperead().
InPipe(p) ==
    \/ Acquire(p) \/ Sleep(p)
    \/ WriteRefused(p) \/ WriteFull(p) \/ WriteDone(p) \/ \E b \in Bytes : WriteByte(p, b)
    \/ ReadEmpty(p) \/ ReadStart(p) \/ ReadByte(p) \/ ReadDone(p)

Next == \E p \in Procs :
    InPipe(p) \/ Close(p) \/ Kill(p) \/ \E n \in 0 .. MaxN : Enter(p, n)

Spec == Init /\ [][Next]_vars

\* A process inside the pipe proceeds, gets the lock (SF) and no other
\* process keeps it; user code owes nothing.
FairSpec ==
    Spec /\ \A p \in Procs : WF_vars(InPipe(p)) /\ SF_vars(Acquire(p))

-----------------------------------------------------------------------------
TypeOK ==
    /\ nread \in 0 .. W - 1 /\ nwrite \in 0 .. W - 1
    /\ data \in [0 .. PIPESIZE - 1 -> Bytes]
    /\ {readopen, writeopen, freed} \subseteq BOOLEAN
    /\ fds \subseteq Procs
    /\ lk \in Procs \cup {NoOne}
    /\ pc \in [Procs -> {"user", "acquire", "loop", "sleep", "asleep", "copy"}]
    /\ left \in [Procs -> 0 .. MaxN]
    /\ killed \in [Procs -> BOOLEAN]

\* The pipe is a first-in first-out queue of PIPESIZE bytes, also when the
\* counters wrap around.
Contents == [k \in 1 .. (nwrite - nread) % W |-> data[((nread + k - 1) % W) % PIPESIZE]]
Queue == INSTANCE Fifo WITH queue <- Contents, Capacity <- PIPESIZE
IsFifo == Queue!Spec

\* A reader sleeps only while the pipe is empty and can still be written;
\* a writer that holds the lock has yet to wake it.
ReaderAwake == \A p \in Readers :
    pc[p] = "asleep" => (Empty /\ writeopen) \/ lk \in Writers

\* A writer sleeps only while the pipe is full and can still be read.
WriterAwake == \A p \in Writers :
    pc[p] = "asleep" => (Full /\ readopen) \/ lk \in Readers

\* Nobody is inside a pipe that has been freed.
NoUseAfterFree == freed => \A p \in Procs : pc[p] = "user"

\* When the last process at the other end is gone, a blocked read or write
\* returns.
HangupReturns == \A p \in Procs :
    (~ readopen \/ ~ writeopen) /\ pc[p] # "user" ~> pc[p] = "user"
=============================================================================
