------------------------------- MODULE Console ------------------------------
(***************************************************************************)
(* The console (kernel/console.c) on the UART driver (kernel/uart.c), with *)
(* the interrupt that drives both (devintr() in trap.c, plic.c) and        *)
(* printf()'s way to the same register (printf.c).                         *)
(*                                                                         *)
(* The processes that read, write and print and the interrupt handler run  *)
(* on CPUs of their own.  A critical section of cons.lock without a wait   *)
(* in it is one action.  A thread that polls the line status register      *)
(* before it writes the transmit register does the two in separate steps,  *)
(* because no common lock keeps others from doing the same meanwhile.      *)
(*                                                                         *)
(* The device is external: a 16550 whose transmit FIFO reads as idle when  *)
(* it is empty.  It interrupts when it becomes empty and when a character  *)
(* arrives; the PLIC remembers one interrupt and hands it to one CPU at a  *)
(* time.  Whether a character has arrived when uartgetc() looks is the     *)
(* environment's choice.  Slots of the ring buffers that hold nothing are  *)
(* None.                                                                   *)
(***************************************************************************)
EXTENDS Integers, Sequences, FiniteSets

CONSTANTS
    Readers,            \* processes that read from the console
    Writers,            \* processes that write to it, and print
    None,
    INPUT_BUF,          \* size of cons.buf
    UART_TX_BUF_SIZE,   \* size of uart_tx_buf
    UINT,               \* the indices are modulo UINT
    FifoSize,           \* characters the UART's transmit FIFO holds
    Sizes,              \* the n of read() and write()
    Written             \* the characters processes write

ASSUME ConsoleAssumption ==
    /\ INPUT_BUF \in Nat \ {0} /\ UART_TX_BUF_SIZE \in Nat \ {0}
    /\ UINT % INPUT_BUF = 0 /\ UINT % UART_TX_BUF_SIZE = 0
    /\ UINT > INPUT_BUF /\ UINT > UART_TX_BUF_SIZE
    /\ FifoSize \in Nat \ {0} /\ Sizes \subseteq Nat \ {0}

VARIABLES
    cons,       \* buf, r, w and e
    conslock,   \* cons.lock is held by the interrupt handler
    tx,         \* uart_tx_buf, uart_tx_r and uart_tx_w: buf, r and w
    txlock,     \* the holder of uart_tx_lock, or None
    prlock,     \* the holder of pr.lock, or None
    thread,     \* pc, the characters still to go (left), n as it was called
                \* with (target), and killed, of each process and the handler
    uart,       \* the number of characters in the UART's transmit FIFO
    irq,        \* the PLIC has an interrupt of the UART pending
    lost        \* a character was written to a full FIFO

vars == <<cons, conslock, tx, txlock, prlock, thread, uart, irq, lost>>

Procs == Readers \cup Writers
Handler == None         \* the interrupt handler, among the threads
Threads == Procs \cup {Handler}
NoLock == "free"
Newline == "nl"
Return == "cr"
Eof == "C-d"
KillLine == "C-u"
Backspace == "C-h"
ListProcs == "C-p"
Nul == "nul"
Keys == {"a", Newline, Return, Eof, KillLine, Backspace, ListProcs, Nul}

Idle == [pc |-> "idle", left |-> 0, target |-> 0, killed |-> FALSE]

\* consoleinit(), uartinit(), plicinit(): empty buffers, interrupts enabled.
Init ==
    /\ cons = [buf |-> [i \in 0 .. INPUT_BUF - 1 |-> None], r |-> 0, w |-> 0, e |-> 0]
    /\ tx = [buf |-> [i \in 0 .. UART_TX_BUF_SIZE - 1 |-> None], r |-> 0, w |-> 0]
    /\ conslock = FALSE /\ txlock = NoLock /\ prlock = NoLock
    /\ thread = [t \in Threads |-> Idle]
    /\ uart = 0
    /\ irq = FALSE /\ lost = FALSE

At(t, pc) == thread[t].pc = pc
Inc(i) == (i + 1) % UINT
Between(a, b) == (b - a) % UINT

-----------------------------------------------------------------------------
(***************************************************************************)
(* The device, and its interrupt.                                          *)
(***************************************************************************)
Drain ==
    /\ uart > 0
    /\ uart' = uart - 1
    /\ irq' = (irq \/ uart = 1)
    /\ UNCHANGED <<cons, conslock, tx, txlock, prlock, thread, lost>>

Arrive ==
    /\ ~irq
    /\ irq' = TRUE
    /\ UNCHANGED <<cons, conslock, tx, txlock, prlock, thread, uart, lost>>

\* Mutant: the FIFOs are not enabled, the transmit register holds one.
NoFifo == 1
\* uartinit() enables the FIFOs.
TxDepth == FifoSize

TxIdle == uart = 0
WriteTHR == IF uart < TxDepth THEN uart' = uart + 1 /\ lost' = lost
                              ELSE uart' = uart /\ lost' = TRUE

\* devintr() claims the interrupt and calls uartintr().
Claim ==
    /\ irq /\ At(Handler, "idle")
    /\ irq' = FALSE
    /\ thread' = [thread EXCEPT ![Handler].pc = "getc"]
    /\ UNCHANGED <<cons, conslock, tx, txlock, prlock, uart, lost>>

-----------------------------------------------------------------------------
(***************************************************************************)
(* Input: uartgetc() and consoleintr().  What consoleintr() does to cons,  *)
(* and the wakeup, take effect when it acquires cons.lock; the characters  *)
(* it echoes follow, and nobody sees cons before it releases the lock.     *)
(***************************************************************************)
Wake(ts, pc, to) == [t \in Threads |-> IF t \in ts /\ thread[t].pc = pc
                                       THEN [thread[t] EXCEPT !.pc = to] ELSE thread[t]]

Room == Between(cons.r, cons.e) < INPUT_BUF

\* Mutant: a full buffer without a newline is not given to readers.
EndsLine(c, e) == c \in {Newline, Eof}
Commits(c, e) == c \in {Newline, Eof} \/ e = (cons.r + INPUT_BUF) % UINT

\* Mutant: end-of-file does not wake readers.
WakesOnNewline(c) == IF c = Newline THEN Procs ELSE {}
Woken(c) == Procs

\* Mutant: the whole buffer is erased.
EraseAll == cons.r
EraseTo == cons.w
Erased(e) == [cons EXCEPT !.e = e,
                          !.buf = [i \in DOMAIN @ |->
                             IF \E k \in 0 .. Between(e, cons.e) - 1 : i = (e + k) % INPUT_BUF
                             THEN None ELSE @[i]]]

Stored(c) == LET e == Inc(cons.e) IN
             [cons EXCEPT !.buf[cons.e % INPUT_BUF] = c, !.e = e,
                          !.w = IF Commits(c, e) THEN e ELSE @]

\* The handler takes cons.lock, changes cons and wakes ts, and has n
\* characters to echo before it releases the lock.
Edit(new, ts, n) ==
    /\ cons' = new
    /\ conslock' = TRUE
    /\ thread' = [Wake(ts, "sleep r", "read") EXCEPT ![Handler].pc = "echo", ![Handler].left = n]

Consoleintr(c) ==
    LET k == IF c = Return THEN Newline ELSE c IN
    \/ c = ListProcs /\ Edit(cons, {}, 1)                     \* procdump()
    \/ c = KillLine /\ Edit(Erased(EraseTo), {}, Between(EraseTo, cons.e))
    \/ c = Backspace /\ cons.e # cons.w /\ Edit(Erased((cons.e - 1) % UINT), {}, 1)
    \/ c = Backspace /\ cons.e = cons.w /\ Edit(cons, {}, 0)
    \/ c \in {"a", Newline, Return, Eof} /\ Room
          /\ Edit(Stored(k), IF Commits(k, Inc(cons.e)) THEN Woken(k) ELSE {}, 1)
    \/ c \in {"a", Newline, Return, Eof} /\ ~Room /\ Edit(cons, {}, 0)
    \/ c = Nul /\ Edit(cons, {}, 0)

\* uartintr()'s loop: uartgetc(), then consoleintr(), until the FIFO is empty.
Getc ==
    /\ At(Handler, "getc")
    /\ \E c \in Keys : Consoleintr(c)
    /\ UNCHANGED <<tx, txlock, prlock, uart, irq, lost>>
GetcNone ==
    /\ At(Handler, "getc")
    /\ thread' = [thread EXCEPT ![Handler].pc = "put"]
    /\ UNCHANGED <<cons, conslock, tx, txlock, prlock, uart, irq, lost>>
EchoDone ==
    /\ At(Handler, "echo") /\ thread[Handler].left = 0
    /\ conslock' = FALSE
    /\ thread' = [thread EXCEPT ![Handler].pc = "getc"]
    /\ UNCHANGED <<cons, tx, txlock, prlock, uart, irq, lost>>

-----------------------------------------------------------------------------
(***************************************************************************)
(* uartputc_sync(), which echo and printf() use: poll, then write.  The    *)
(* three characters that erase one on the screen are counted as one.       *)
(***************************************************************************)
Poll(t) ==
    /\ At(t, "echo") /\ thread[t].left > 0
    /\ TxIdle
    /\ thread' = [thread EXCEPT ![t].pc = "sync"]
    /\ UNCHANGED <<cons, conslock, tx, txlock, prlock, uart, irq, lost>>
PutSync(t) ==
    /\ At(t, "sync")
    /\ WriteTHR
    /\ thread' = [thread EXCEPT ![t].pc = "echo", ![t].left = @ - 1]
    /\ UNCHANGED <<cons, conslock, tx, txlock, prlock, irq>>

\* printf() of n characters, under pr.lock.
Printf(p, n) ==
    /\ At(p, "idle") /\ prlock = NoLock
    /\ prlock' = p
    /\ thread' = [thread EXCEPT ![p].pc = "echo", ![p].left = n]
    /\ UNCHANGED <<cons, conslock, tx, txlock, uart, irq, lost>>
PrintfDone(p) ==
    /\ At(p, "echo") /\ thread[p].left = 0
    /\ prlock' = NoLock
    /\ thread' = [thread EXCEPT ![p] = Idle]
    /\ UNCHANGED <<cons, conslock, tx, txlock, uart, irq, lost>>

-----------------------------------------------------------------------------
(***************************************************************************)
(* consoleread(): from acquiring cons.lock, or waking in sleep(), to the   *)
(* next sleep or the return.  The byte number fault of what it takes       *)
(* cannot be copied out; 0 if all can.                                     *)
(***************************************************************************)
Read(p, n) ==
    /\ At(p, "idle")
    /\ thread' = [thread EXCEPT ![p].pc = "read", ![p].left = n, ![p].target = n]
    /\ UNCHANGED <<cons, conslock, tx, txlock, prlock, uart, irq, lost>>

Available == [i \in 1 .. Between(cons.r, cons.w) |-> cons.buf[(cons.r + i - 1) % INPUT_BUF]]

\* End-of-file as the k-th byte of this turn is left for the next read if
\* the call has something to return.
EofSaved(p, k) == thread[p].left - (k - 1) < thread[p].target

\* Where the loop stops: at end-of-file, a fault, a newline, or when n bytes
\* are copied; 0 if it runs out of input first.
Stop(p, fault) ==
    LET stops == {k \in DOMAIN Available :
                     \/ Available[k] \in {Newline, Eof} \/ k = fault \/ k = thread[p].left} IN
    IF stops = {} THEN 0 ELSE CHOOSE k \in stops : \A j \in stops : k <= j
Taken(p, fault) ==
    LET k == Stop(p, fault) IN
    IF k = 0 THEN Len(Available)
    ELSE IF Available[k] = Eof /\ EofSaved(p, k) THEN k - 1 ELSE k
Consumed(k) == [cons EXCEPT !.r = (@ + k) % UINT,
                            !.buf = [i \in DOMAIN @ |->
                               IF \E j \in 0 .. k - 1 : i = (cons.r + j) % INPUT_BUF THEN None ELSE @[i]]]

ReadReturn(p, fault) ==
    /\ At(p, "read") /\ ~conslock
    /\ Stop(p, fault) # 0
    /\ cons' = Consumed(Taken(p, fault))
    /\ thread' = [thread EXCEPT ![p] = Idle]
    /\ UNCHANGED <<conslock, tx, txlock, prlock, uart, irq, lost>>
ReadSleep(p) ==
    /\ At(p, "read") /\ ~conslock /\ ~thread[p].killed
    /\ Stop(p, 0) = 0
    /\ cons' = Consumed(Len(Available))
    /\ thread' = [thread EXCEPT ![p].pc = "sleep r", ![p].left = @ - Len(Available)]
    /\ UNCHANGED <<conslock, tx, txlock, prlock, uart, irq, lost>>
ReadKilled(p) ==
    /\ At(p, "read") /\ ~conslock /\ thread[p].killed
    /\ Stop(p, 0) = 0
    /\ cons' = Consumed(Len(Available))
    /\ thread' = [thread EXCEPT ![p] = Idle]
    /\ UNCHANGED <<conslock, tx, txlock, prlock, uart, irq, lost>>

\* kill() makes a sleeping process runnable.  The flag is kept only where
\* it is looked at: uartputc() does not.
Kill(p) ==
    /\ ~thread[p].killed
    /\ \/ /\ thread[p].pc \in {"read", "sleep r"}
          /\ thread' = [thread EXCEPT ![p].killed = TRUE, ![p].pc = "read"]
       \/ /\ At(p, "sleep tx")
          /\ thread' = [thread EXCEPT ![p].pc = "put"]
    /\ UNCHANGED <<cons, conslock, tx, txlock, prlock, uart, irq, lost>>

-----------------------------------------------------------------------------
(***************************************************************************)
(* consolewrite() and uartputc(), and uartstart(), which the interrupt     *)
(* handler runs too.                                                       *)
(***************************************************************************)
Write(p, n) ==
    /\ At(p, "idle")
    /\ thread' = [thread EXCEPT ![p].pc = "put", ![p].left = n]
    /\ UNCHANGED <<cons, conslock, tx, txlock, prlock, uart, irq, lost>>

\* either_copyin() of the next character fails.
WriteFault(p) ==
    /\ At(p, "put")
    /\ thread' = [thread EXCEPT ![p] = Idle]
    /\ UNCHANGED <<cons, conslock, tx, txlock, prlock, uart, irq, lost>>

\* Mutant: the buffer is full one character late.
FullLate == Between(tx.r, tx.w) > UART_TX_BUF_SIZE
Full == tx.w = (tx.r + UART_TX_BUF_SIZE) % UINT

\* uartstart() is entered with the lock held and buffer b: it goes on to
\* send, or ends.  At its end the lock is released; the handler completes
\* the interrupt, and a writer goes on with its next character.
Sends(b) == b.w # b.r /\ TxIdle
Ended(t) == IF t = Handler \/ thread[t].left = 1 THEN Idle
            ELSE [thread[t] EXCEPT !.pc = "put", !.left = @ - 1]
Uartstart(t, b) ==
    /\ txlock' = IF Sends(b) THEN t ELSE NoLock
    /\ thread' = [thread EXCEPT ![t] = IF Sends(b) THEN [@ EXCEPT !.pc = "send"] ELSE Ended(t)]

Uartputc(p, c) ==
    LET b == [tx EXCEPT !.buf[tx.w % UART_TX_BUF_SIZE] = c, !.w = Inc(@)] IN
    /\ At(p, "put") /\ txlock = NoLock /\ ~Full
    /\ tx' = b
    /\ Uartstart(p, b)
    /\ UNCHANGED <<cons, conslock, prlock, uart, irq, lost>>
UartputcSleep(p) ==
    /\ At(p, "put") /\ txlock = NoLock /\ Full
    /\ thread' = [thread EXCEPT ![p].pc = "sleep tx"]
    /\ UNCHANGED <<cons, conslock, tx, txlock, prlock, uart, irq, lost>>

\* Mutant: the buffer is looked at only by uartputc().
NotStarted == [tx EXCEPT !.r = tx.w]
Seen == tx
\* uartintr() sends what is buffered after it has read all input.
UartintrStart ==
    /\ At(Handler, "put") /\ txlock = NoLock
    /\ Uartstart(Handler, Seen)
    /\ UNCHANGED <<cons, conslock, tx, prlock, uart, irq, lost>>

UartstartSend(t) ==
    /\ At(t, "send")
    /\ tx' = [tx EXCEPT !.buf[tx.r % UART_TX_BUF_SIZE] = None, !.r = Inc(@)]
    /\ WriteTHR
    /\ thread' = [Wake(Procs, "sleep tx", "put") EXCEPT ![t].pc = "start"]
    /\ UNCHANGED <<cons, conslock, txlock, prlock, irq>>
UartstartAgain(t) ==
    /\ At(t, "start")
    /\ Uartstart(t, tx)
    /\ UNCHANGED <<cons, conslock, tx, prlock, uart, irq, lost>>

Reader(p) ==
    \/ \E n \in Sizes : Read(p, n)
    \/ \E fault \in 0 .. INPUT_BUF : ReadReturn(p, fault)
    \/ ReadSleep(p) \/ ReadKilled(p)

Writer(p) ==
    \/ Printf(p, 1) \/ PrintfDone(p)
    \/ \E n \in Sizes : Write(p, n)
    \/ \E c \in Written : Uartputc(p, c)
    \/ UartputcSleep(p) \/ WriteFault(p)

Next ==
    \/ Drain \/ Arrive
    \/ Claim \/ Getc \/ GetcNone \/ EchoDone \/ UartintrStart
    \/ \E t \in Threads : Poll(t) \/ PutSync(t) \/ UartstartSend(t) \/ UartstartAgain(t)
    \/ \E p \in Readers : Reader(p)
    \/ \E p \in Writers : Writer(p)
    \/ \E p \in Procs : Kill(p)

Spec == Init /\ [][Next]_vars

-----------------------------------------------------------------------------
(***************************************************************************)
(* Properties.                                                             *)
(***************************************************************************)
Queued == [i \in 1 .. Between(tx.r, tx.w) |-> tx.buf[(tx.r + i - 1) % UART_TX_BUF_SIZE]]
Line == [i \in 1 .. Between(cons.w, cons.e) |-> cons.buf[(cons.w + i - 1) % INPUT_BUF]]
T == INSTANCE Terminal WITH
        Typed <- {"a", Newline, Eof}, Ends <- {Newline, Eof},
        InSize <- INPUT_BUF, OutSize <- UART_TX_BUF_SIZE,
        committed <- Available, line <- Line, out <- Queued

\* The ring buffers of console.c and uart.c, with indices that wrap, behave
\* as the line editor and the queue of Terminal: no typed character is lost,
\* doubled or reordered, an erased one is never read, one that is committed
\* is never erased, a read ends at the end of its line, and written
\* characters are sent in order.
IsTerminal == T!Spec

\* The type invariant; the two counts are within the sizes of the buffers.
TypeOK ==
    /\ DOMAIN cons.buf = 0 .. INPUT_BUF - 1 /\ DOMAIN tx.buf = 0 .. UART_TX_BUF_SIZE - 1
    /\ Between(cons.r, cons.w) + Between(cons.w, cons.e) <= INPUT_BUF
    /\ Between(tx.r, tx.w) <= UART_TX_BUF_SIZE
    /\ uart \in 0 .. FifoSize
    /\ txlock \in Threads \cup {NoLock} /\ prlock \in Procs \cup {NoLock}
    /\ \A t \in Threads : thread[t].left \in 0 .. INPUT_BUF

\* Input never wedges: a buffer that takes no more characters holds
\* something a reader may take, although no newline may have been typed, so
\* consoleintr() does not drop characters forever.
FullIsReadable == ~Room => cons.w = cons.e

\* No wakeup is missed: a process asleep in consoleread() has nothing to
\* read and has not been killed, and one asleep in uartputc() has no room.
SleepersWait ==
    \A p \in Procs :
        /\ At(p, "sleep r") => cons.r = cons.w /\ ~thread[p].killed
        /\ At(p, "sleep tx") => Full

\* Output never stalls: while characters wait in uart_tx_buf, the UART is
\* busy and will interrupt, its interrupt is pending, or a thread that will
\* still look at the buffer is on its way, whatever printf() and echo put
\* into the UART meanwhile.
OutputMoves ==
    tx.r # tx.w =>
        \/ uart > 0 \/ irq
        \/ \E t \in Threads : At(t, "send") \/ (At(t, "start") /\ TxIdle) \/ At(t, "sync")
        \/ thread[Handler].pc \in {"getc", "echo", "put"}

\* Although uartputc_sync() and uartstart() poll the UART under different
\* locks, no character is written to a full FIFO: every thread that has
\* seen it idle writes one character, and the FIFO that uartinit() enabled
\* has room for one from each.
NothingLost == ~lost
=============================================================================
