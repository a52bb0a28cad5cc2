------------------------------- MODULE Sched --------------------------------
(***************************************************************************)
(* The scheduling policies FCFS, SRT and CFSD of scheduler() (proc.c), the *)
(* time accounting of clockintr() (trap.c) that they live on.              *)
(*                                                                         *)
(* A pass of scheduler() or of clockintr() over the process table locks    *)
(* one slot at a time, so it is one step per slot; whatever one holder of  *)
(* p->lock does is one step.  tickslock is held during the whole pass of   *)
(* clockintr() on CPU 0, and a step that needs it waits.  (The code waits  *)
(* for it with p->lock held, which clockintr() may need in its turn: that  *)
(* deadlock is NoSpinDeadlock of module Proc.)  The policy is fixed at     *)
(* compile time: Init chooses it.  DEFAULT is in module Proc.              *)
(***************************************************************************)
EXTENDS Integers, FiniteSets, Sequences, FiniteSetsExt

CONSTANTS
    NPROC, NCPU,
    QUANTUM,        \* 5 in param.h
    ALPHA,          \* 50
    Policies,       \* the builds checked
    Priorities,     \* arguments of set_priority()
    MaxTicks,       \* bound: clock interrupts
    MaxQueue        \* bound: queue positions handed out

ASSUME SchedSizes ==
    /\ {NPROC, NCPU, QUANTUM, MaxTicks, MaxQueue} \subseteq Nat \ {0}
    /\ ALPHA \in 0 .. 100
    /\ Policies \subseteq {"FCFS", "SRT", "CFSD"}
    /\ Priorities \subseteq Nat

Slots == 1 .. NPROC
CPUs == 0 .. NCPU - 1
None == 0
initproc == 1

VARIABLES
    policy,
    proc,               \* struct proc: state, chan, the times, queue_location,
                        \* average_bursttime, priority, and the child whose
                        \* fork() p is in the middle of
    queue_counter, ticks,
    clock,              \* progress of clockintr() on CPU 0, 0 when not in it
    cpu,                \* per CPU: c->proc, and the locals of scheduler()
    since,              \* history: the slots RUNNABLE all through c's pass
    born                \* history: ticks when p first became RUNNABLE

vars == <<policy, proc, queue_counter, ticks, clock, cpu, since, born>>

Free == [state |-> "UNUSED", chan |-> "none", ctime |-> 0, ttime |-> 0, stime |-> 0,
         retime |-> 0, rutime |-> 0, average_bursttime |-> 0, queue_location |-> 0,
         priority |-> 0, child |-> None]

\* allocproc()
New == [Free EXCEPT !.state = "USED", !.ctime = ticks,
                    !.average_bursttime = QUANTUM * 100, !.priority = 5]

\* A pass of scheduler() begins.
Pass == [proc |-> None, pos |-> 1, cand |-> None, min |-> None, start |-> 0]

Init ==
    /\ policy \in Policies
    /\ ticks = 0
    /\ queue_counter = 2
    /\ proc = [p \in Slots |->
          IF p = initproc THEN [New EXCEPT !.state = "RUNNABLE", !.queue_location = 1] ELSE Free]
    /\ clock = 0
    /\ cpu = [c \in CPUs |-> Pass]
    /\ since = [c \in CPUs |-> {}]
    /\ born = [p \in Slots |-> 0]

InState(s) == {p \in Slots : proc[p].state = s}

\* clockintr() counts slot `clock', wakes slot `clock - NPROC', and returns.
Counting == clock \in Slots
Waking == clock - NPROC \in Slots
Returning == clock = 2 * NPROC + 1
TicksFree == ~ Counting /\ ~ Waking

\* CPU c is not inside clockintr().
CanRun(c) == c # 0 \/ clock = 0

\* Bound: every process that may still ask for a queue position gets one.
Room == queue_counter + 1 + Cardinality(InState("SLEEPING") \cup InState("USED")) < MaxQueue

\* alloc_queue_counter(), and p RUNNABLE at the end of the queue.
Queued(r) == [r EXCEPT !.state = "RUNNABLE", !.chan = "none", !.queue_location = queue_counter]
Enqueue(p) ==
    /\ proc' = [proc EXCEPT ![p] = Queued(@)]
    /\ queue_counter' = queue_counter + 1

-----------------------------------------------------------------------------
(***************************************************************************)
(* scheduler()                                                             *)
(***************************************************************************)
Ratio(r) == IF r.rutime + r.stime = 0 THEN 0
            ELSE (r.rutime * r.priority) \div (r.rutime + r.stime)

\* What the policy minimises.
Key(p) == CASE policy = "FCFS" -> proc[p].queue_location
            [] policy = "SRT" -> proc[p].average_bursttime
            [] policy = "CFSD" -> Ratio(proc[p])

\* Mutant: the comparison is the wrong way round.
Worse(c, p) == cpu[c].cand = None \/ Key(p) > Key(cpu[c].cand)

\* FCFS and SRT read the candidate's field again, without its lock; CFSD
\* compares with the ratio computed when the candidate was seen.
Better(c, p) ==
    \/ cpu[c].cand = None
    \/ Key(p) < IF policy = "CFSD" THEN cpu[c].min ELSE Key(cpu[c].cand)

\* One slot of the pass.
Scan(c) ==
    LET p == cpu[c].pos IN
    /\ CanRun(c) /\ cpu[c].proc = None /\ p <= NPROC
    /\ cpu' = [cpu EXCEPT ![c] =
          IF proc[p].state = "RUNNABLE" /\ Better(c, p)
          THEN [@ EXCEPT !.pos = p + 1, !.cand = p,
                         !.min = IF policy = "CFSD" THEN Key(p) ELSE cpu[c].min]
          ELSE [@ EXCEPT !.pos = p + 1]]
    /\ since' = IF p = 1 THEN [since EXCEPT ![c] = InState("RUNNABLE")] ELSE since
    /\ UNCHANGED <<policy, proc, queue_counter, ticks, clock, born>>

\* Mutant: the state of the candidate is not checked again.
CandidateAlive(c) == cpu[c].cand # None
CandidateRunnable(c) == cpu[c].cand # None /\ proc[cpu[c].cand].state = "RUNNABLE"

PassDone(c) == CanRun(c) /\ cpu[c].proc = None /\ cpu[c].pos = NPROC + 1

Dispatch(c) ==
    LET p == cpu[c].cand IN
    /\ PassDone(c) /\ CandidateRunnable(c)
    /\ policy # "FCFS" => TicksFree
    /\ proc' = [proc EXCEPT ![p].state = "RUNNING"]
    /\ cpu' = [cpu EXCEPT ![c] = [Pass EXCEPT !.proc = p, !.start = ticks]]
    /\ since' = [d \in CPUs |-> {}]
    /\ UNCHANGED <<policy, queue_counter, ticks, clock, born>>

NothingToRun(c) ==
    /\ PassDone(c) /\ ~ CandidateRunnable(c)
    /\ cpu' = [cpu EXCEPT ![c] = Pass]
    /\ UNCHANGED <<policy, proc, queue_counter, ticks, clock, since, born>>

\* Mutants: the division by 100 covers both terms; the terms are subtracted.
AverageOfBoth(avg, burst) == (ALPHA * burst + (100 - ALPHA) * avg) \div 100
AverageLess(avg, burst) == ALPHA * burst - ((100 - ALPHA) * avg) \div 100
Average(avg, burst) == ALPHA * burst + ((100 - ALPHA) * avg) \div 100

\* The process of c, now r, comes back from swtch(); the burst is accounted.
SwitchTo(c, r) ==
    LET p == cpu[c].proc IN
    /\ policy # "FCFS" => TicksFree
    /\ proc' = [proc EXCEPT ![p] = [r EXCEPT !.average_bursttime =
          IF policy = "FCFS" THEN r.average_bursttime
          ELSE Average(r.average_bursttime, ticks - cpu[c].start)]]
    /\ cpu' = [cpu EXCEPT ![c] = Pass]

-----------------------------------------------------------------------------
(***************************************************************************)
(* What the process on CPU c does.                                         *)
(***************************************************************************)
Running(c) == CanRun(c) /\ cpu[c].proc # None
Self(c) == proc[cpu[c].proc]

\* Mutant: the quantum is never over.
NeverOver == ticks < 0
QuantumOver == ticks % QUANTUM = 0

Yield(c) ==
    /\ SwitchTo(c, Queued(Self(c)))
    /\ queue_counter' = queue_counter + 1
    /\ UNCHANGED <<policy, ticks, since, born>>

\* A timer interrupt on a CPU other than 0, at any time.
Preempt(c) ==
    /\ c # 0 /\ Running(c) /\ Room
    /\ policy # "FCFS" /\ TicksFree /\ QuantumOver
    /\ Yield(c)
    /\ UNCHANGED clock

\* sys_sleep() sleeps on ticks, everything else on some other channel.
Sleep(c, chan) ==
    /\ Running(c) /\ Self(c).child = None /\ Room
    /\ chan = "ticks" => TicksFree
    /\ SwitchTo(c, [Self(c) EXCEPT !.state = "SLEEPING", !.chan = chan])
    /\ UNCHANGED <<policy, queue_counter, ticks, clock, since, born>>

\* fork() up to its first release(&np->lock).
Fork(c) ==
    LET np == Min(InState("UNUSED")) IN
    /\ Running(c) /\ Self(c).child = None /\ InState("UNUSED") # {} /\ Room
    /\ TicksFree
    /\ proc' = [proc EXCEPT ![np] = [New EXCEPT !.priority = Self(c).priority],
                            ![cpu[c].proc].child = np]
    /\ UNCHANGED <<policy, queue_counter, ticks, clock, cpu, since, born>>

\* The rest of fork(): np becomes RUNNABLE.
ForkRun(c) ==
    LET np == Self(c).child IN
    /\ Running(c) /\ np # None
    /\ proc' = [proc EXCEPT ![np] = Queued(proc[np]), ![cpu[c].proc].child = None]
    /\ queue_counter' = queue_counter + 1
    /\ born' = [born EXCEPT ![np] = ticks]
    /\ UNCHANGED <<policy, ticks, clock, cpu, since>>

Exit(c) ==
    /\ Running(c) /\ cpu[c].proc # initproc /\ Self(c).child = None
    /\ TicksFree
    /\ SwitchTo(c, [Self(c) EXCEPT !.state = "ZOMBIE", !.ttime = ticks])
    /\ UNCHANGED <<policy, queue_counter, ticks, clock, since, born>>

\* wait() or wait_stat() frees z; allocproc() and the caller of alloc_queue_counter()
\* set what freeproc() leaves in the slot before it is read again.
Reap(c, z) ==
    /\ Running(c) /\ proc[z].state = "ZOMBIE"
    /\ proc' = [proc EXCEPT ![z] = Free]
    /\ UNCHANGED <<policy, queue_counter, ticks, clock, cpu, since, born>>

SetPriority(c, n) ==
    /\ Running(c)
    /\ proc' = [proc EXCEPT ![cpu[c].proc].priority = n]
    /\ UNCHANGED <<policy, queue_counter, ticks, clock, cpu, since, born>>

\* One slot of a wakeup() by a process or a device interrupt.
Wakeup(p) ==
    /\ proc[p].state = "SLEEPING" /\ proc[p].chan = "io"
    /\ Enqueue(p)
    /\ UNCHANGED <<policy, ticks, clock, cpu, since, born>>

\* kill() wakes the victim whatever it sleeps on.
Kill(p) ==
    /\ proc[p].state = "SLEEPING"
    /\ Enqueue(p)
    /\ UNCHANGED <<policy, ticks, clock, cpu, since, born>>

-----------------------------------------------------------------------------
(***************************************************************************)
(* clockintr() on CPU 0, and the timer interrupt's return.                 *)
(***************************************************************************)
Tick ==
    /\ clock = 0 /\ ticks < MaxTicks /\ Room
    /\ ticks' = ticks + 1
    /\ clock' = 1
    /\ UNCHANGED <<policy, proc, queue_counter, cpu, since, born>>

\* Mutant: only the RUNNING process is looked at; the others are all asleep.
CountedAsAsleep(r) == CASE r.state = "RUNNING" -> [r EXCEPT !.rutime = @ + 1]
                        [] r.state # "RUNNING" -> [r EXCEPT !.stime = @ + 1]
Counted(r) == CASE r.state = "RUNNING" -> [r EXCEPT !.rutime = @ + 1]
                [] r.state = "RUNNABLE" -> [r EXCEPT !.retime = @ + 1]
                [] r.state = "SLEEPING" -> [r EXCEPT !.stime = @ + 1]
                [] OTHER -> r

CountSlot ==
    /\ Counting
    /\ proc' = [proc EXCEPT ![clock] = Counted(@)]
    /\ clock' = clock + 1
    /\ UNCHANGED <<policy, queue_counter, ticks, cpu, since, born>>

WakeSlot ==
    LET p == clock - NPROC IN
    /\ Waking
    /\ IF proc[p].state = "SLEEPING" /\ proc[p].chan = "ticks"
       THEN Enqueue(p) ELSE UNCHANGED <<proc, queue_counter>>
    /\ clock' = clock + 1
    /\ UNCHANGED <<policy, ticks, cpu, since, born>>

\* usertrap() or kerneltrap() after devintr(): the process of CPU 0 yields
\* at the end of a quantum.
TimerReturn ==
    /\ Returning
    /\ clock' = 0
    /\ IF policy # "FCFS" /\ cpu[0].proc # None /\ QuantumOver
       THEN Yield(0)
       ELSE UNCHANGED <<policy, proc, queue_counter, ticks, cpu, since, born>>

-----------------------------------------------------------------------------
Next ==
    \/ \E c \in CPUs : \/ Scan(c) \/ Dispatch(c) \/ NothingToRun(c)
                       \/ Preempt(c) \/ Fork(c) \/ ForkRun(c) \/ Exit(c)
                       \/ \E chan \in {"ticks", "io"} : Sleep(c, chan)
                       \/ \E z \in Slots : Reap(c, z)
                       \/ \E n \in Priorities : SetPriority(c, n)
    \/ \E p \in Slots : Wakeup(p) \/ Kill(p)
    \/ Tick \/ CountSlot \/ WakeSlot \/ TimerReturn

Spec == Init /\ [][Next]_vars

-----------------------------------------------------------------------------
\* The type invariant.  No time, count or average is negative.
TypeOK ==
    /\ policy \in Policies
    /\ \A p \in Slots :
          /\ proc[p].state \in {"UNUSED", "USED", "SLEEPING", "RUNNABLE", "RUNNING", "ZOMBIE"}
          /\ proc[p].chan \in {"none", "ticks", "io"}
          /\ {proc[p].ctime, proc[p].ttime, proc[p].stime, proc[p].retime, proc[p].rutime,
              proc[p].average_bursttime, proc[p].queue_location, proc[p].priority} \subseteq Nat
          /\ proc[p].child \in Slots \cup {None}
    /\ ticks \in 0 .. MaxTicks
    /\ queue_counter \in Nat
    /\ clock \in 0 .. 2 * NPROC + 1
    /\ \A c \in CPUs : /\ cpu[c].proc \in Slots \cup {None} /\ cpu[c].cand \in Slots \cup {None}
                       /\ cpu[c].pos \in 1 .. NPROC + 1

\* A process runs on one CPU at most and exactly when its state is RUNNING,
\* although candidates are chosen before their lock is taken.
OneCPU ==
    /\ \A p \in Slots : proc[p].state = "RUNNING" <=> \E c \in CPUs : cpu[c].proc = p
    /\ \A c, d \in CPUs : cpu[c].proc = cpu[d].proc /\ cpu[c].proc # None => c = d

\* clockintr() counts every tick of a process's life once: none is lost
\* since it first became RUNNABLE, none is counted twice, whatever states it
\* goes through while the pass is on its way.
Accounted(p) == proc[p].stime + proc[p].retime + proc[p].rutime
Pending(p) == IF Counting /\ clock <= p THEN 1 ELSE 0
TicksAddUp ==
    /\ \A p \in InState("RUNNABLE") \cup InState("RUNNING") \cup InState("SLEEPING") :
          /\ Accounted(p) <= ticks - proc[p].ctime
          /\ Accounted(p) >= ticks - born[p] - Pending(p)
    /\ \A p \in InState("ZOMBIE") :
          /\ Accounted(p) <= proc[p].ttime - proc[p].ctime
          /\ Accounted(p) >= proc[p].ttime - born[p]

\* The policy's promise: a process is dispatched before every process that
\* was RUNNABLE all through the pass, unless another CPU took one meanwhile.
PicksMinimum == [][
    \A c \in CPUs : Dispatch(c) =>
        \A q \in since[c] : cpu[c].cand \in since[c] => Key(cpu[c].cand) <= Key(q)]_vars

\* On CPU 0, which counts the ticks, SRT and CFSD let no process run longer
\* than a quantum.
QuantumEnds ==
    policy # "FCFS" /\ cpu[0].proc # None => ticks - cpu[0].start <= QUANTUM

\* average_bursttime is an average in 100ths: it moves from its old value
\* towards the last burst, never past it.
BurstAverage == [][
    \A c \in CPUs : cpu[c].proc # None /\ cpu'[c].proc = None /\ policy # "FCFS" =>
        LET p == cpu[c].proc
            burst == 100 * (ticks - cpu[c].start)
            old == proc[p].average_bursttime
            new == proc'[p].average_bursttime
        IN  Min({old, burst}) - 1 <= new /\ new <= Max({old, burst})]_vars
=============================================================================
