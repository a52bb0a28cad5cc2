-------------------------------- MODULE Proc --------------------------------
(***************************************************************************)
(* The process table of the kernel (kernel/proc.c) with the parts of       *)
(* trap.c and sysproc.c that drive it: fork, exit, wait and wait_stat,     *)
(* kill, sleep and wakeup, the DEFAULT scheduler, yield and the clock      *)
(* interrupt, on NCPU processors.                                          *)
(*                                                                         *)
(* One step is one critical section of a p->lock, or one change of         *)
(* wait_lock or tickslock: acquire() is the guard "the lock is free", and  *)
(* a step that waits for a lock is disabled while another CPU holds it.    *)
(* Loops over the table take one step per slot, because the code releases  *)
(* each p->lock before it takes the next.                                  *)
(*                                                                         *)
(* The clock's counters (ticks, rutime, ...) are not kept here: whether    *)
(* tick % QUANTUM is zero and whether a sleep() has lasted long enough are *)
(* nondeterministic choices.                                               *)
(***************************************************************************)
EXTENDS Integers

CONSTANTS
    NPROC,      \* slots of the process table (64 in param.h)
    NCPU,       \* processors (up to 8; the Makefile starts qemu with CPUS := 1)
    MaxPid,     \* bound: the model forks no process whose pid would exceed it
    KillPids,   \* the pids that processes pass to kill()
    Events      \* bound: the kinds of event the instance lets happen

ASSUME NPROCAssumption == NPROC \in Nat \ {0}
ASSUME NCPUAssumption == NCPU \in Nat \ {0}
ASSUME MaxPidAssumption == MaxPid \in Nat \ {0}
\* exit() panics on initproc, so killing pid 1 halts the kernel by design.
ASSUME KillPidsAssumption == KillPids \subseteq Nat \ {1}
ASSUME EventsAssumption ==
    Events \subseteq {"fork", "exit", "wait", "kill", "sleep", "fault", "clock"}

Slots == 1 .. NPROC
CPUs == 0 .. NCPU - 1
Free == -1              \* an unlocked spinlock; a held one names its CPU
Init1 == 1              \* initproc: userinit() finds the first slot free
NoProc == 0
TicksChan == NPROC + 1  \* &ticks as a sleep channel; slot p is the channel p
Chans == 0 .. TicksChan
Indices == 0 .. NPROC + 1

VARIABLES
    state, pid, parent, chan, killed,   \* struct proc, by slot
    nextpid,
    plock, wait_lock, tickslock,        \* CPU that holds the lock, or Free
    proc,                               \* c->proc, by CPU
    scan,                               \* scheduler()'s loop variable, by CPU
    clk,                                \* progress of clockintr() on CPU 0
    pc,                                 \* where each kernel thread stands
    sw,                                 \* the call of sched() it is inside
    i,                                  \* its loop variable over the table
    kpid,                               \* kill()'s argument
    wk, wchan                           \* wakeup() in progress: slot, channel

table == <<state, pid, parent, chan, killed, nextpid>>
locks == <<plock, wait_lock, tickslock>>
cpus == <<proc, scan, clk>>
locals == <<i, kpid>>
waking == <<wk, wchan>>
vars == <<table, locks, cpus, pc, sw, locals, waking>>

States == {"UNUSED", "USED", "SLEEPING", "RUNNABLE", "RUNNING", "ZOMBIE"}
Switches == {"no", "first", "yield", "sleep", "exit"}
PCs == {"none", "user", "ret", "fork_scan", "fork_ctime", "fork_parent",
        "fork_run", "exit_begin", "exit_reparent", "exit_wake", "exit_zombie",
        "exit_ttime", "wait_begin", "wait_scan", "wait_sleep", "kill_scan",
        "sleep_begin", "sleep_loop", "sleep_sleep"}

-----------------------------------------------------------------------------
(***************************************************************************)
(* Locks and threads.                                                      *)
(***************************************************************************)
\* Mutant: interrupts stay on while locks are held.
HoldsAny(c) == c \in CPUs

HoldsNone(c) ==
    /\ wait_lock # c
    /\ tickslock # c
    /\ \A s \in Slots : plock[s] # c

\* CPU c is not inside clockintr(), which only CPU 0 runs.
NoIntr(c) == c = 0 => clk = 0

\* The kernel thread of p executes on c, outside wakeup().
At(c, p, l) == proc[c] = p /\ sw[p] = "no" /\ wk[p] = 0 /\ pc[p] = l /\ NoIntr(c)

Goto(p, l) == pc' = [pc EXCEPT ![p] = l]
Loop(p, n) == i' = [i EXCEPT ![p] = n]
Acquire(s, c) == plock' = [plock EXCEPT ![s] = c]
Release(s) == plock' = [plock EXCEPT ![s] = Free]

Init ==
    /\ state = [s \in Slots |-> IF s = Init1 THEN "RUNNABLE" ELSE "UNUSED"]
    /\ pid = [s \in Slots |-> IF s = Init1 THEN 1 ELSE 0]
    /\ parent = [s \in Slots |-> NoProc]
    /\ chan = [s \in Slots |-> 0]
    /\ killed = [s \in Slots |-> FALSE]
    /\ nextpid = 2
    /\ plock = [s \in Slots |-> Free]
    /\ wait_lock = Free
    /\ tickslock = Free
    /\ proc = [c \in CPUs |-> NoProc]
    /\ scan = [c \in CPUs |-> 1]
    /\ clk = 0
    /\ pc = [s \in Slots |-> IF s = Init1 THEN "user" ELSE "none"]
    /\ sw = [s \in Slots |-> IF s = Init1 THEN "first" ELSE "no"]
    /\ i = [s \in Slots |-> 0]
    /\ kpid = [s \in Slots |-> 0]
    /\ wk = [s \in Slots |-> 0]
    /\ wchan = [s \in Slots |-> 0]

-----------------------------------------------------------------------------
(***************************************************************************)
(* usertrap(): a system call, or a fault, of the process running on c.     *)
(***************************************************************************)
SyscallFork(p) == nextpid <= MaxPid /\ Goto(p, "fork_scan") /\ Loop(p, 1) /\ UNCHANGED kpid
SyscallExit(p) == p # Init1 /\ Goto(p, "exit_begin") /\ UNCHANGED <<i, kpid>>
SyscallWait(p) == Goto(p, "wait_begin") /\ UNCHANGED <<i, kpid>>
SyscallSleep(p) == Goto(p, "sleep_begin") /\ UNCHANGED <<i, kpid>>
SyscallKill(p) == \E k \in KillPids :
    Goto(p, "kill_scan") /\ Loop(p, 1) /\ kpid' = [kpid EXCEPT ![p] = k]

\* The check of p->killed on the way in, then the system call.
Syscall(c, p) ==
    /\ At(c, p, "user")
    /\ IF killed[p] THEN SyscallExit(p)
       ELSE \/ "fork" \in Events /\ SyscallFork(p)
            \/ "exit" \in Events /\ SyscallExit(p)
            \/ "wait" \in Events /\ SyscallWait(p)
            \/ "sleep" \in Events /\ SyscallSleep(p)
            \/ "kill" \in Events /\ SyscallKill(p)
    /\ UNCHANGED <<table, locks, cpus, sw, waking>>

\* An unexpected scause sets p->killed; the check that follows exits.
Fault(c, p) ==
    /\ "fault" \in Events
    /\ At(c, p, "user")
    /\ p # Init1
    /\ killed' = [killed EXCEPT ![p] = TRUE]
    /\ Goto(p, "ret")
    /\ UNCHANGED <<state, pid, parent, chan, nextpid, locks, cpus, sw, locals, waking>>

\* The check of p->killed on the way out.
TrapRet(c, p) ==
    /\ At(c, p, "ret")
    /\ Goto(p, IF killed[p] THEN "exit_begin" ELSE "user")
    /\ UNCHANGED <<table, locks, cpus, sw, locals, waking>>
-----------------------------------------------------------------------------
(***************************************************************************)
(* fork() and allocproc().                                                 *)
(***************************************************************************)
\* freeproc(s); the thread that lived in the slot is gone with it.
FreeProc(s) ==
    /\ pid' = [pid EXCEPT ![s] = 0]
    /\ parent' = [parent EXCEPT ![s] = NoProc]
    /\ chan' = [chan EXCEPT ![s] = 0]
    /\ killed' = [killed EXCEPT ![s] = FALSE]
    /\ state' = [state EXCEPT ![s] = "UNUSED"]

\* allocproc() looks at slot i[p]; it keeps the lock of a slot it takes.
ForkScan(c, p) ==
    LET s == i[p] IN
    /\ At(c, p, "fork_scan")
    /\ plock[s] = Free
    /\ IF state[s] = "UNUSED"
       THEN /\ Acquire(s, c)
            /\ pid' = [pid EXCEPT ![s] = nextpid]
            /\ nextpid' = nextpid + 1
            /\ state' = [state EXCEPT ![s] = "USED"]
            /\ Goto(p, "fork_ctime")
            /\ UNCHANGED i
       ELSE /\ IF s = NPROC THEN Goto(p, "ret") /\ Loop(p, 0)
                            ELSE Loop(p, s + 1) /\ UNCHANGED pc
            /\ UNCHANGED <<plock, pid, nextpid, state>>
    /\ UNCHANGED <<parent, chan, killed, wait_lock, tickslock, cpus, sw, kpid, waking>>

\* allocproc() reads ticks under tickslock, with the slot's lock held; then
\* the allocations and the copy of the parent, which fork() releases the slot
\* after, or frees it when memory has run out.
ForkCopy(c, p) ==
    LET s == i[p] IN
    /\ At(c, p, "fork_ctime")
    /\ tickslock = Free
    /\ Release(s)
    /\ \/ Goto(p, "fork_parent") /\ UNCHANGED <<state, pid, parent, chan, killed, i>>
       \/ FreeProc(s) /\ Goto(p, "ret") /\ Loop(p, 0)
    /\ UNCHANGED <<nextpid, wait_lock, tickslock, cpus, sw, kpid, waking>>

ForkParent(c, p) ==
    /\ At(c, p, "fork_parent")
    /\ wait_lock = Free
    /\ parent' = [parent EXCEPT ![i[p]] = p]
    /\ Goto(p, "fork_run")
    /\ UNCHANGED <<state, pid, chan, killed, nextpid, locks, cpus, sw, locals, waking>>

\* The child's context makes its first dispatch enter forkret().
ForkRun(c, p) ==
    LET s == i[p] IN
    /\ At(c, p, "fork_run")
    /\ plock[s] = Free
    /\ state' = [state EXCEPT ![s] = "RUNNABLE"]
    /\ pc' = [pc EXCEPT ![p] = "ret", ![s] = "user"]
    /\ sw' = [sw EXCEPT ![s] = "first"]
    /\ Loop(p, 0)
    /\ UNCHANGED <<pid, parent, chan, killed, nextpid, locks, cpus, kpid, waking>>

-----------------------------------------------------------------------------
(***************************************************************************)
(* wakeup(wchan[p]): one slot, under its lock.                             *)
(***************************************************************************)
\* Mutant: wakeup() compares the channel but changes nothing.
WakeNobody(s, ch) == s \in Slots /\ UNCHANGED state

WakeSlot(s, ch) ==
    IF state[s] = "SLEEPING" /\ chan[s] = ch
    THEN state' = [state EXCEPT ![s] = "RUNNABLE"]
    ELSE UNCHANGED state

StartWakeup(p, ch) ==
    /\ wk' = [wk EXCEPT ![p] = 1]
    /\ wchan' = [wchan EXCEPT ![p] = ch]

Wakeup(c, p) ==
    LET s == wk[p] IN
    /\ proc[c] = p
    /\ sw[p] = "no"
    /\ s # 0
    /\ NoIntr(c)
    /\ \/ s = p /\ UNCHANGED state
       \/ s # p /\ plock[s] = Free /\ WakeSlot(s, wchan[p])
    /\ IF s = NPROC
       THEN wk' = [wk EXCEPT ![p] = 0] /\ wchan' = [wchan EXCEPT ![p] = 0]
       ELSE wk' = [wk EXCEPT ![p] = s + 1] /\ UNCHANGED wchan
    /\ UNCHANGED <<pid, parent, chan, killed, nextpid, locks, cpus, pc, sw, locals>>

-----------------------------------------------------------------------------
(***************************************************************************)
(* exit() and reparent().                                                  *)
(***************************************************************************)
ExitBegin(c, p) ==
    /\ At(c, p, "exit_begin")
    /\ wait_lock = Free
    /\ wait_lock' = c
    /\ Goto(p, "exit_reparent")
    /\ Loop(p, 1)
    /\ UNCHANGED <<table, plock, tickslock, cpus, sw, kpid, waking>>

\* Mutant: reparent() overlooks children that have already exited.
AbandonsLive(p, s) == parent[s] = p /\ state[s] # "ZOMBIE"

Abandons(p, s) == parent[s] = p

ExitReparent(c, p) ==
    LET s == i[p] IN
    /\ At(c, p, "exit_reparent")
    /\ IF Abandons(p, s)
       THEN parent' = [parent EXCEPT ![s] = Init1] /\ StartWakeup(p, Init1)
       ELSE UNCHANGED <<parent, waking>>
    /\ IF s = NPROC THEN Goto(p, "exit_wake") /\ Loop(p, 0)
                    ELSE Loop(p, s + 1) /\ UNCHANGED pc
    /\ UNCHANGED <<state, pid, chan, killed, nextpid, locks, cpus, sw, kpid>>

ExitWake(c, p) ==
    /\ At(c, p, "exit_wake")
    /\ StartWakeup(p, parent[p])
    /\ Goto(p, "exit_zombie")
    /\ UNCHANGED <<table, locks, cpus, sw, locals>>

ExitZombie(c, p) ==
    /\ At(c, p, "exit_zombie")
    /\ plock[p] = Free
    /\ Acquire(p, c)
    /\ state' = [state EXCEPT ![p] = "ZOMBIE"]
    /\ Goto(p, "exit_ttime")
    /\ UNCHANGED <<pid, parent, chan, killed, nextpid, wait_lock, tickslock, cpus, sw, locals, waking>>

\* Mutant: exit() enters sched() with wait_lock held.
KeepWaitLock == UNCHANGED wait_lock

DropWaitLock == wait_lock' = Free

\* exit() reads ticks under tickslock, with p->lock and wait_lock held,
\* releases wait_lock and enters sched(), never to return.
ExitSched(c, p) ==
    /\ At(c, p, "exit_ttime")
    /\ tickslock = Free
    /\ DropWaitLock
    /\ sw' = [sw EXCEPT ![p] = "exit"]
    /\ UNCHANGED <<table, plock, tickslock, cpus, pc, locals, waking>>

-----------------------------------------------------------------------------
(***************************************************************************)
(* sleep(ch, lk): the caller releases lk in the same step.  resume is      *)
(* where the thread acquires lk again after it has been woken.             *)
(***************************************************************************)
Sleep(c, p, ch, resume) ==
    /\ plock[p] = Free
    /\ Acquire(p, c)
    /\ chan' = [chan EXCEPT ![p] = ch]
    /\ state' = [state EXCEPT ![p] = "SLEEPING"]
    /\ sw' = [sw EXCEPT ![p] = "sleep"]
    /\ Goto(p, resume)

-----------------------------------------------------------------------------
(***************************************************************************)
(* wait() and wait_stat().                                                 *)
(***************************************************************************)
WaitBegin(c, p) ==
    /\ At(c, p, "wait_begin")
    /\ wait_lock = Free
    /\ wait_lock' = c
    /\ Goto(p, "wait_scan")
    /\ Loop(p, 1)
    /\ UNCHANGED <<table, plock, tickslock, cpus, sw, kpid, waking>>

\* Mutant: wait() looks at a child without its lock.
ChildUnlocked(s) == s \in Slots

\* A child that may be looked at: its lock is free, so that it is not still
\* in exit() or swtch().
ChildLockable(s) == plock[s] = Free

\* A zombie child is freed; or copyout fails, which it cannot for init, whose
\* wait((int *)0) asks for no status.
WaitReap(p, s) ==
    /\ \/ FreeProc(s) /\ pc' = [pc EXCEPT ![p] = "ret", ![s] = "none"]
                      /\ sw' = [sw EXCEPT ![s] = "no"]
       \/ /\ p # Init1
          /\ Goto(p, "ret")
          /\ UNCHANGED <<state, pid, parent, chan, killed, sw>>
    /\ wait_lock' = Free
    /\ Loop(p, 0)

WaitScan(c, p) ==
    LET s == i[p] IN
    /\ At(c, p, "wait_scan")
    /\ s <= NPROC
    /\ parent[s] = p => ChildLockable(s)
    /\ IF parent[s] = p /\ state[s] = "ZOMBIE"
       THEN WaitReap(p, s)
       ELSE Loop(p, s + 1) /\ UNCHANGED <<state, pid, parent, chan, killed, wait_lock, pc, sw>>
    /\ UNCHANGED <<nextpid, plock, tickslock, cpus, kpid, waking>>

\* After the loop.  havekids says whether the loop met a child; parent fields
\* do not change while wait_lock is held.  killed is read without p->lock.
WaitGiveUp(p) == killed[p] \/ \A s \in Slots : parent[s] # p

WaitReturn(c, p) ==
    /\ At(c, p, "wait_scan")
    /\ i[p] = NPROC + 1
    /\ WaitGiveUp(p)
    /\ Goto(p, "ret")
    /\ Loop(p, 0)
    /\ wait_lock' = Free
    /\ UNCHANGED <<table, plock, tickslock, cpus, sw, kpid, waking>>

\* Mutant: sleep() releases wait_lock before it acquires p->lock.
DropWhileDeciding == wait_lock' = Free

KeepWhileDeciding == UNCHANGED wait_lock

\* The decision to sleep, made before sleep() has acquired p->lock; wait_lock
\* stays held until p->lock is.
WaitDecide(c, p) ==
    /\ At(c, p, "wait_scan")
    /\ i[p] = NPROC + 1
    /\ ~ WaitGiveUp(p)
    /\ Goto(p, "wait_sleep")
    /\ Loop(p, 0)
    /\ KeepWhileDeciding
    /\ UNCHANGED <<table, plock, tickslock, cpus, sw, kpid, waking>>

WaitSleep(c, p) ==
    /\ At(c, p, "wait_sleep")
    /\ Sleep(c, p, p, "wait_begin")
    /\ wait_lock' = Free
    /\ UNCHANGED <<pid, parent, killed, nextpid, tickslock, cpus, locals, waking>>

-----------------------------------------------------------------------------
(***************************************************************************)
(* kill().                                                                 *)
(***************************************************************************)
\* Mutant: kill() marks a sleeping process but does not wake it.
KillMarks(s) == killed' = [killed EXCEPT ![s] = TRUE] /\ UNCHANGED state

KillSlot(s) ==
    /\ killed' = [killed EXCEPT ![s] = TRUE]
    /\ state' = [state EXCEPT ![s] = IF @ = "SLEEPING" THEN "RUNNABLE" ELSE @]

KillScan(c, p) ==
    LET s == i[p] IN
    /\ At(c, p, "kill_scan")
    /\ plock[s] = Free
    /\ IF pid[s] = kpid[p] THEN KillSlot(s) ELSE UNCHANGED <<killed, state>>
    /\ IF pid[s] = kpid[p] \/ s = NPROC
       THEN Goto(p, "ret") /\ Loop(p, 0) /\ kpid' = [kpid EXCEPT ![p] = 0]
       ELSE Loop(p, s + 1) /\ UNCHANGED <<pc, kpid>>
    /\ UNCHANGED <<pid, parent, chan, nextpid, locks, cpus, sw, waking>>

-----------------------------------------------------------------------------
(***************************************************************************)
(* sys_sleep(): sleeps on &ticks under tickslock until enough ticks have   *)
(* passed (a free choice here) or the process is killed.                   *)
(***************************************************************************)
SleepBegin(c, p) ==
    /\ At(c, p, "sleep_begin")
    /\ tickslock = Free
    /\ tickslock' = c
    /\ Goto(p, "sleep_loop")
    /\ UNCHANGED <<table, plock, wait_lock, cpus, sw, locals, waking>>

SleepReturn(c, p) ==
    /\ At(c, p, "sleep_loop")
    /\ tickslock' = Free
    /\ Goto(p, "ret")
    /\ UNCHANGED <<table, plock, wait_lock, cpus, sw, locals, waking>>

SleepDecide(c, p) ==
    /\ At(c, p, "sleep_loop")
    /\ ~ killed[p]
    /\ Goto(p, "sleep_sleep")
    /\ UNCHANGED <<table, locks, cpus, sw, locals, waking>>

SleepSleep(c, p) ==
    /\ At(c, p, "sleep_sleep")
    /\ Sleep(c, p, TicksChan, "sleep_begin")
    /\ tickslock' = Free
    /\ UNCHANGED <<pid, parent, killed, nextpid, wait_lock, cpus, locals, waking>>

-----------------------------------------------------------------------------
(***************************************************************************)
(* scheduler() under DEFAULT, swtch() and sched().                         *)
(***************************************************************************)
\* Mutants: the scan runs past the table; the scan starts over each time.
PastTable(s) == s + 1
StartOver(s) == IF s \in Slots THEN 1 ELSE s

NextSlot(s) == IF s = NPROC THEN 1 ELSE s + 1

Runnable(s) == state[s] = "RUNNABLE"

\* The chosen process runs with its own lock held, on behalf of c.
Dispatch(c) ==
    LET s == scan[c] IN
    /\ proc[c] = NoProc
    /\ NoIntr(c)
    /\ plock[s] = Free
    /\ IF Runnable(s)
       THEN /\ state' = [state EXCEPT ![s] = "RUNNING"]
            /\ proc' = [proc EXCEPT ![c] = s]
            /\ Acquire(s, c)
            /\ UNCHANGED scan
       ELSE scan' = [scan EXCEPT ![c] = NextSlot(s)] /\ UNCHANGED <<state, proc, plock>>
    /\ UNCHANGED <<pid, parent, chan, killed, nextpid, wait_lock, tickslock, clk, pc, sw, locals, waking>>

\* The return of swtch() in the thread: the end of yield(), of sleep(), or
\* forkret().  Each releases p->lock; sleep() has cleared p->chan before.
Resume(c, p) ==
    /\ proc[c] = p
    /\ sw[p] # "no"
    /\ state[p] = "RUNNING"
    /\ chan' = [chan EXCEPT ![p] = IF sw[p] = "sleep" THEN 0 ELSE @]
    /\ sw' = [sw EXCEPT ![p] = "no"]
    /\ Release(p)
    /\ UNCHANGED <<state, pid, parent, killed, nextpid, wait_lock, tickslock, cpus, pc, locals, waking>>

\* sched() has switched back to scheduler(), which releases p->lock.
SwitchOut(c, p) ==
    /\ proc[c] = p
    /\ sw[p] # "no"
    /\ state[p] # "RUNNING"
    /\ proc' = [proc EXCEPT ![c] = NoProc]
    /\ scan' = [scan EXCEPT ![c] = NextSlot(@)]
    /\ Release(p)
    /\ UNCHANGED <<table, wait_lock, tickslock, clk, pc, sw, locals, waking>>

-----------------------------------------------------------------------------
(***************************************************************************)
(* The timer.  Spinlocks keep interrupts off (push_off), so a CPU takes    *)
(* the interrupt only while it holds no lock.  CPU 0 runs clockintr(),     *)
(* which keeps tickslock over a loop that visits every slot under its lock *)
(* (clk in 1..NPROC) and over wakeup(&ticks) (clk in NPROC+1..2*NPROC).    *)
(***************************************************************************)
ClockDone == 2 * NPROC + 1
ClockTail == 2 * NPROC + 2

ClockStart ==
    /\ "clock" \in Events
    /\ clk = 0
    /\ HoldsNone(0)
    /\ tickslock = Free
    /\ tickslock' = 0
    /\ clk' = 1
    /\ UNCHANGED <<table, plock, wait_lock, proc, scan, pc, sw, locals, waking>>

ClockCount ==
    /\ clk \in Slots
    /\ plock[clk] = Free
    /\ clk' = clk + 1
    /\ UNCHANGED <<table, locks, proc, scan, pc, sw, locals, waking>>

ClockWake ==
    LET s == clk - NPROC IN
    /\ s \in Slots
    /\ \/ s = proc[0] /\ UNCHANGED state
       \/ s # proc[0] /\ plock[s] = Free /\ WakeSlot(s, TicksChan)
    /\ clk' = clk + 1
    /\ UNCHANGED <<pid, parent, chan, killed, nextpid, locks, proc, scan, pc, sw, locals, waking>>

ClockEnd ==
    /\ clk = ClockDone
    /\ tickslock' = Free
    /\ clk' = ClockTail
    /\ UNCHANGED <<table, plock, wait_lock, proc, scan, pc, sw, locals, waking>>

Yield(c, p) ==
    /\ plock[p] = Free
    /\ Acquire(p, c)
    /\ state' = [state EXCEPT ![p] = "RUNNABLE"]
    /\ sw' = [sw EXCEPT ![p] = "yield"]

\* Mutant: usertrap() checks p->killed after system calls only.
SurvivesTimer(p) == p = NoProc /\ FALSE

\* A killed process that was interrupted in user mode.
Dying(p) == p # NoProc /\ pc[p] = "user" /\ killed[p]

\* usertrap() and kerneltrap() after devintr() has returned 2: a killed
\* process that was in user mode exits; otherwise yield() is called when
\* ticks, read under tickslock, is a multiple of QUANTUM.
TimerTail(c) ==
    LET p == proc[c] IN
    /\ HoldsNone(c)
    /\ IF c = 0 THEN clk = ClockTail /\ clk' = 0 ELSE p # NoProc /\ UNCHANGED clk
    /\ \/ Dying(p) /\ Goto(p, "exit_begin") /\ UNCHANGED <<plock, state, sw>>
       \/ ~ Dying(p) /\ (p = NoProc \/ tickslock = Free) /\ UNCHANGED <<plock, state, sw, pc>>
       \/ p # NoProc /\ ~ Dying(p) /\ tickslock = Free /\ Yield(c, p) /\ UNCHANGED pc
    /\ UNCHANGED <<pid, parent, chan, killed, nextpid, wait_lock, tickslock, proc, scan, locals, waking>>

-----------------------------------------------------------------------------
\* The steps of p's kernel thread once it has entered the kernel.
KernelStep(c, p) ==
    \/ TrapRet(c, p) \/ Wakeup(c, p)
    \/ ForkScan(c, p) \/ ForkCopy(c, p) \/ ForkParent(c, p) \/ ForkRun(c, p)
    \/ ExitBegin(c, p) \/ ExitReparent(c, p) \/ ExitWake(c, p)
    \/ ExitZombie(c, p) \/ ExitSched(c, p)
    \/ WaitBegin(c, p) \/ WaitScan(c, p) \/ WaitReturn(c, p)
    \/ WaitDecide(c, p) \/ WaitSleep(c, p)
    \/ KillScan(c, p)
    \/ SleepBegin(c, p) \/ SleepReturn(c, p) \/ SleepDecide(c, p) \/ SleepSleep(c, p)

Switch(c, p) == Resume(c, p) \/ SwitchOut(c, p)

Clock == ClockCount \/ ClockWake \/ ClockEnd

Next ==
    \/ \E c \in CPUs : Dispatch(c) \/ TimerTail(c)
    \/ \E c \in CPUs, p \in Slots :
          Syscall(c, p) \/ Fault(c, p) \/ KernelStep(c, p) \/ Switch(c, p)
    \/ ClockStart \/ Clock

Spec == Init /\ [][Next]_vars
-----------------------------------------------------------------------------
(***************************************************************************)
(* Properties.                                                             *)
(***************************************************************************)
TypeOK ==
    /\ state \in [Slots -> States]
    /\ pid \in [Slots -> Nat]
    /\ parent \in [Slots -> Slots \cup {NoProc}]
    /\ chan \in [Slots -> Chans]
    /\ killed \in [Slots -> BOOLEAN]
    /\ nextpid \in Nat
    /\ plock \in [Slots -> CPUs \cup {Free}]
    /\ wait_lock \in CPUs \cup {Free}
    /\ tickslock \in CPUs \cup {Free}
    /\ proc \in [CPUs -> Slots \cup {NoProc}]
    /\ scan \in [CPUs -> Slots]
    /\ clk \in 0 .. ClockTail
    /\ pc \in [Slots -> PCs]
    /\ sw \in [Slots -> Switches]
    /\ i \in [Slots -> Indices]
    /\ kpid \in [Slots -> Nat]
    /\ wk \in [Slots -> Slots \cup {0}]
    /\ wchan \in [Slots -> Chans]

\* sched() never panics with "sched p->lock" or "sched locks": a thread inside
\* it holds its own p->lock, and its CPU holds no other lock.
SchedOK == \A c \in CPUs, p \in Slots :
    proc[c] = p /\ sw[p] # "no" =>
        /\ plock[p] = c
        /\ wait_lock # c /\ tickslock # c
        /\ \A s \in Slots \ {p} : plock[s] # c

\* No slot is current on two CPUs, none that has been freed is current, and
\* one whose lock is free is current exactly when it is RUNNING: nobody can
\* dispatch or free a process whose kernel stack is still in use.
OneCPU ==
    /\ \A c, d \in CPUs : proc[c] = proc[d] /\ proc[c] # NoProc => c = d
    /\ \A c \in CPUs : proc[c] # NoProc => state[proc[c]] \notin {"UNUSED", "USED"}
    /\ \A p \in Slots : plock[p] = Free =>
          (state[p] = "RUNNING" <=> \E c \in CPUs : proc[c] = p)

\* Between critical sections of wait_lock every process but init has a parent
\* that can still wait for it, so no zombie is left without a reaper.  A
\* child that fork() has not linked yet is the exception.
ParentAlive == wait_lock = Free =>
    \A s \in Slots \ {Init1} :
        state[s] \in {"SLEEPING", "RUNNABLE", "RUNNING", "ZOMBIE"} =>
            /\ parent[s] # NoProc
            /\ state[parent[s]] \notin {"UNUSED", "USED", "ZOMBIE"}

\* No lost wakeup in wait(): while wait_lock is free, a process asleep in
\* wait() has no zombie child.
NoLostExit == wait_lock = Free =>
    \A p, s \in Slots :
        state[p] = "SLEEPING" /\ chan[p] = p /\ parent[s] = p => state[s] # "ZOMBIE"

\* kill() marks the process with the given pid, so a process starts its life
\* unmarked.
BornUnkilled == [][\A s \in Slots :
    state[s] = "UNUSED" /\ state'[s] = "USED" => ~ killed'[s]]_vars

\* A process that kill() has marked is not left asleep in wait() or sys_sleep().
KilledAwake == \A p \in Slots : killed[p] => state[p] # "SLEEPING"

(***************************************************************************)
(* Spinning.  Locks are numbered: slot s stands for proc[s].lock.          *)
(***************************************************************************)
WaitLockId == NPROC + 1
TicksLockId == NPROC + 2

Holder(l) == IF l = WaitLockId THEN wait_lock
             ELSE IF l = TicksLockId THEN tickslock ELSE plock[l]

\* The lock that a thread's next step acquires, by where the thread stands.
NextLock(p) == {l \in Slots \cup {WaitLockId, TicksLockId} :
    IF wk[p] # 0 THEN l = wk[p] /\ l # p
    ELSE \/ pc[p] \in {"fork_scan", "fork_run", "kill_scan"} /\ l = i[p]
         \/ pc[p] \in {"exit_begin", "wait_begin", "fork_parent"} /\ l = WaitLockId
         \/ pc[p] \in {"fork_ctime", "exit_ttime", "sleep_begin"} /\ l = TicksLockId
         \/ pc[p] \in {"exit_zombie", "wait_sleep", "sleep_sleep"} /\ l = p
         \/ pc[p] = "wait_scan" /\ l = i[p] /\ l \in Slots /\ parent[l] = p}

\* The locks a CPU is about to acquire: in clockintr(), in scheduler(), or in
\* the thread it runs.
Wants(c) ==
    IF ~ NoIntr(c)
    THEN {clk, clk - NPROC} \cap (Slots \ (IF clk > NPROC THEN {proc[0]} ELSE {}))
    ELSE IF proc[c] = NoProc THEN {scan[c]}
    ELSE IF sw[proc[c]] = "no" THEN NextLock(proc[c]) ELSE {}

SpinsOn(c, d) == \E l \in Wants(c) : Holder(l) = d

\* acquire()'s panic never fires: no CPU waits for a lock it holds itself.
NoReacquire == \A c \in CPUs : ~ SpinsOn(c, c)

\* acquire() "Loops (spins) until the lock is acquired": two CPUs never spin
\* on a lock that the other one holds.
NoSpinDeadlock == \A c, d \in CPUs : c # d => ~ (SpinsOn(c, d) /\ SpinsOn(d, c))

(***************************************************************************)
(* Liveness, on one CPU.  A thread in the kernel, or scheduler(), is not   *)
(* interrupted for ever between two of its steps (SF): QUANTUM ticks pass  *)
(* between preemptions.  A timer interrupt stays pending until interrupts  *)
(* are enabled (SF), and every QUANTUM-th one makes its process yield      *)
(* (SF).  The ticks a sleep() asks for do pass (SF).  init calls wait      *)
(* again and again (user/init.c); nothing else is assumed of user code.    *)
(***************************************************************************)
InitWaits == \E c \in CPUs : Syscall(c, Init1) /\ pc'[Init1] = "wait_begin"

TimerYield(c) == TimerTail(c) /\ \E p \in Slots : sw[p] = "no" /\ sw'[p] = "yield"

Fairness ==
    /\ \A c \in CPUs : SF_vars(Dispatch(c)) /\ WF_vars(TimerTail(c)) /\ SF_vars(TimerYield(c))
    /\ \A p \in Slots : /\ SF_vars(\E c \in CPUs : KernelStep(c, p))
                       /\ SF_vars(\E c \in CPUs : SleepReturn(c, p))
                       /\ WF_vars(\E c \in CPUs : Switch(c, p))
    /\ SF_vars(ClockStart) /\ WF_vars(Clock)
    /\ SF_vars(InitWaits)

FairSpec == Spec /\ Fairness

\* scheduler() under DEFAULT starves nobody.
RunnableRuns == \A p \in Slots : state[p] = "RUNNABLE" ~> state[p] = "RUNNING"

\* A zombie whose parent is init, by birth or by reparent(), is reaped.
ZombieReaped == \A s \in Slots : state[s] = "ZOMBIE" /\ parent[s] = Init1 ~> state[s] = "UNUSED"

\* A killed process exits, wherever kill() found it.
KilledExits == \A s \in Slots :
    killed[s] /\ state[s] # "UNUSED" ~> state[s] \in {"ZOMBIE", "UNUSED"}

=============================================================================
