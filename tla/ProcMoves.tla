----------------------------- MODULE ProcMoves ------------------------------
(***************************************************************************)
(* What most steps of Proc have in common, and that steps of each kind     *)
(* preserve the invariant, for every NPROC, NCPU, MaxPid, KillPids and     *)
(* Events; then the steps of a thread inside the kernel, most of them by   *)
(* ThreadStep and SchedStep, and how exit() leaves its CPU.                *)
(***************************************************************************)
EXTENDS ProcInv, TLAPS

\* What the proofs need to know of the sets the table is built from.
LEMMA Sets ==
    /\ Init1 \in Slots /\ NoProc \notin Slots /\ Free \notin CPUs /\ 0 \in CPUs
    /\ Slots \subseteq Nat /\ 0 \notin Slots /\ Slots \subseteq Chans /\ Slots \subseteq Indices
    /\ 0 \in Chans /\ NoProc \in Chans /\ TicksChan \in Chans /\ 0 \in Indices /\ 1 \in Slots
    /\ \A s \in Slots : s + 1 \in Indices /\ s + 1 # 0 /\ (s # NPROC => s + 1 \in Slots)
    /\ \A n \in Indices : n <= NPROC /\ n # 0 => n \in Slots
BY NPROCAssumption, NCPUAssumption DEF Slots, CPUs, Free, Init1, NoProc, TicksChan, Chans, Indices

\* The values the actions assign are among the declared ones.
LEMMA Labels ==
    /\ {"UNUSED", "USED", "SLEEPING", "RUNNABLE", "RUNNING", "ZOMBIE"} \subseteq States
    /\ {"no", "first", "yield", "sleep", "exit"} \subseteq Switches
    /\ {"none", "user", "ret", "fork_scan", "fork_ctime", "fork_parent",
        "fork_run", "exit_begin", "exit_reparent", "exit_wake", "exit_zombie",
        "exit_ttime", "wait_begin", "wait_scan", "wait_sleep", "kill_scan",
        "sleep_begin", "sleep_loop", "sleep_sleep"} \subseteq PCs
BY Zenon DEF States, Switches, PCs

\* A CPU that holds no lock is interrupted with its thread outside every
\* critical section.
LEMMA Interruptible ==
    ASSUME TypeOK, LockInv, NEW c \in CPUs, HoldsNone(c), NEW p \in Slots, proc[c] = p
    PROVE  /\ sw[p] = "no" /\ state[p] = "RUNNING" /\ wk[p] = 0
           /\ pc[p] \notin LockedPCs /\ pc[p] # "none"
<1>1. sw[p] = "no" /\ state[p] = "RUNNING" /\ pc[p] # "none"
  BY DEF LockInv, CurrentOK, HoldsNone
<1>2. pc[p] # "fork_ctime"
  <2> SUFFICES ASSUME pc[p] = "fork_ctime" PROVE FALSE
    OBVIOUS
  <2>1. i[p] \in Slots
    BY Zenon DEF LockInv, IndexOK, LoopPCs, ForkPCs
  <2> QED
    BY <1>1, <2>1 DEF LockInv, CurrentOK, HoldsNone
<1>3. pc[p] \notin LockedPCs
  BY <1>1, <1>2, Zenon DEF LockInv, CurrentOK, HoldsNone, LockedPCs
<1> QED
  BY <1>1, <1>3, Zenon DEF LockInv, ThreadOK, LockedPCs, WaitPCs, WakingPCs

-----------------------------------------------------------------------------
(***************************************************************************)
(* Most steps are those of one thread that moves, perhaps acquiring or     *)
(* releasing wait_lock or tickslock.  ThreadStep says so without naming    *)
(* the action, SchedStep says it of a thread that enters sched(), and      *)
(* ClockStep of clockintr(); each preserves the invariant.                 *)
(***************************************************************************)
\* The lock is held exactly while the thread stands inside its critical section.
WaitStep(c, p) ==
    \/ wait_lock' = wait_lock /\ (pc'[p] \in WaitPCs <=> pc[p] \in WaitPCs)
    \/ wait_lock = Free /\ wait_lock' = c /\ pc'[p] \in WaitPCs
    \/ wait_lock' = Free /\ pc[p] \in WaitPCs /\ pc'[p] \notin WaitPCs

TickStep(c, p) ==
    \/ tickslock' = tickslock /\ (pc'[p] \in TickPCs <=> pc[p] \in TickPCs)
    \/ tickslock = Free /\ tickslock' = c /\ pc'[p] \in TickPCs
    \/ tickslock' = Free /\ pc[p] \in TickPCs /\ pc'[p] \notin TickPCs

\* The CPU is not, or no longer, inside clockintr().
IntrStep(c) ==
    /\ c = 0 => clk' = 0
    /\ clk' = clk \/ (clk = ClockTail /\ clk' = 0)

IndexStep(p) ==
    /\ pc'[p] \in LoopPCs => i'[p] \in Slots
    /\ pc'[p] = "wait_scan" => i'[p] # 0
    /\ pc'[p] \in ForkPCs => pc[p] \in ForkPCs /\ i'[p] = i[p]

OthersStay(p) == \A q \in Slots : q # p =>
    pc'[q] = pc[q] /\ i'[q] = i[q] /\ wk'[q] = wk[q]

Woken == \A s \in Slots :
    state'[s] = state[s] \/ (state[s] = "SLEEPING" /\ state'[s] = "RUNNABLE")

Plain == {"user", "ret", "fork_scan", "fork_parent", "fork_run", "exit_begin",
          "exit_reparent", "exit_wake", "exit_zombie", "wait_begin", "wait_scan",
          "wait_sleep", "kill_scan", "sleep_begin", "sleep_loop", "sleep_sleep"}

ThreadStep(c, p) ==
    /\ proc[c] = p /\ proc' = proc /\ plock' = plock /\ sw[p] = "no" /\ sw' = sw
    /\ pc[p] \in Plain /\ pc'[p] \in Plain
    /\ wk'[p] # 0 => pc'[p] \in WakingPCs
    /\ OthersStay(p) /\ Woken
    /\ WaitStep(c, p) /\ TickStep(c, p) /\ IntrStep(c) /\ IndexStep(p)

SchedStep(c, p) ==
    /\ proc[c] = p /\ proc' = proc /\ sw[p] = "no"
    /\ plock[p] = Free /\ plock' = [plock EXCEPT ![p] = c]
    /\ \A q \in Slots : q # p => sw'[q] = sw[q] /\ state'[q] = state[q]
    /\ sw'[p] \in {"yield", "sleep"} /\ state'[p] \in {"RUNNABLE", "SLEEPING"}
    /\ pc[p] \in Plain /\ pc'[p] \in Plain \ LockedPCs /\ wk'[p] = 0
    /\ OthersStay(p)
    /\ WaitStep(c, p) /\ TickStep(c, p) /\ IntrStep(c) /\ IndexStep(p)

ClockStep ==
    /\ UNCHANGED <<proc, plock, wait_lock, tickslock, pc, sw, i, wk>>
    /\ Woken
    /\ {clk, clk'} \cap {0, ClockTail} = {}

\* A thread that moves preserves the invariant.
LEMMA ThreadStepInv ==
    ASSUME TypeOK, LockInv, NEW c \in CPUs, NEW p \in Slots, ThreadStep(c, p)
    PROVE  LockInv'
<1>0. \A d \in CPUs, q \in Slots : proc[d] = q => (q = p <=> d = c)
  BY Zenon DEF ThreadStep, LockInv, UniqueOK
<1>1. IndexOK'
  BY Zenon DEF ThreadStep, OthersStay, IndexStep, LockInv, IndexOK
<1>2. ThreadOK'
  BY DEF ThreadStep, OthersStay, Woken, LockInv, ThreadOK, Plain, WakingPCs
<1>3. CurrentOK'
  <2> SUFFICES ASSUME NEW d \in CPUs, NEW q \in Slots, proc[d] = q
               PROVE  /\ pc'[q] # "none"
                      /\ state'[q] # "RUNNING" \/ sw'[q] # "no" => plock'[q] = d
                      /\ sw'[q] = "no" /\ pc'[q] \in WaitPCs => wait_lock' = d
                      /\ sw'[q] = "no" /\ pc'[q] \in TickPCs => tickslock' = d
                      /\ sw'[q] = "no" /\ pc'[q] = "fork_ctime" => \A s \in Slots : i'[q] = s => plock'[s] = d
    BY DEF CurrentOK, ThreadStep
  <2>1. CASE q = p
    BY <2>1, <1>0 DEF ThreadStep, Woken, WaitStep, TickStep, Plain, LockInv, CurrentOK
  <2>2. CASE q # p
    <3>1. pc'[q] = pc[q] /\ i'[q] = i[q] /\ sw' = sw /\ plock' = plock /\ d # c
      BY <2>2, <1>0, Zenon DEF ThreadStep, OthersStay
    <3>2. sw[q] = "no" /\ pc[q] \in WaitPCs => wait_lock = d /\ wait_lock' = d
      BY <3>1, <1>0, Sets DEF ThreadStep, WaitStep, LockInv, CurrentOK
    <3>3. sw[q] = "no" /\ pc[q] \in TickPCs => tickslock = d /\ tickslock' = d
      BY <3>1, <1>0, Sets DEF ThreadStep, TickStep, LockInv, CurrentOK
    <3>4. state'[q] # "RUNNING" => state[q] # "RUNNING"
      BY Zenon DEF ThreadStep, Woken
    <3> QED
      BY <3>1, <3>2, <3>3, <3>4 DEF LockInv, CurrentOK
  <2> QED
    BY <2>1, <2>2, Zenon
<1>4. UniqueOK'
  BY Zenon DEF ThreadStep, LockInv, UniqueOK
<1>5. PlockOK'
  BY DEF ThreadStep, OthersStay, Plain, LockInv, PlockOK
<1>6. WaitLockOK'
  BY Sets DEF ThreadStep, OthersStay, WaitStep, LockInv, WaitLockOK
<1>7. TicksLockOK'
  BY Sets DEF ThreadStep, OthersStay, TickStep, IntrStep, LockInv, TicksLockOK
<1>8. ClockOK'
  <2>1. CASE c = 0
    BY <2>1, Zenon DEF ThreadStep, IntrStep, ClockOK
  <2>2. CASE c # 0
    <3>1. tickslock = 0 => tickslock' = 0
      BY <2>2, Sets DEF ThreadStep, TickStep, LockInv, CurrentOK
    <3>2. \A q \in Slots : proc[0] = q => q # p
      BY <2>2, <1>0, Sets, Zenon
    <3> QED
      BY <2>2, <3>1, <3>2, Zenon DEF ThreadStep, IntrStep, OthersStay, LockInv, ClockOK
  <2> QED
    BY <2>1, <2>2, Zenon
<1>9. ForkOK'
  BY DEF ThreadStep, OthersStay, Woken, IndexStep, LockInv, ForkOK
<1> QED
  BY <1>1, <1>2, <1>3, <1>4, <1>5, <1>6, <1>7, <1>8, <1>9, Zenon DEF LockInv

\* A thread that enters sched() preserves the invariant.
LEMMA SchedStepInv ==
    ASSUME TypeOK, LockInv, NEW c \in CPUs, NEW p \in Slots, SchedStep(c, p)
    PROVE  LockInv'
<1>0. \A d \in CPUs, q \in Slots : proc[d] = q => (q = p <=> d = c)
  BY Zenon DEF SchedStep, LockInv, UniqueOK
<1>1. plock'[p] = c /\ \A s \in Slots : s # p => plock'[s] = plock[s]
  BY Zenon DEF SchedStep, TypeOK
<1>2. state[p] = "RUNNING"
  BY Sets DEF SchedStep, LockInv, CurrentOK
<1>3. IndexOK'
  BY DEF SchedStep, OthersStay, IndexStep, LockInv, IndexOK
<1>4. ThreadOK'
  BY <1>2 DEF SchedStep, OthersStay, LockInv, ThreadOK, Plain
<1>5. CurrentOK'
  <2> SUFFICES ASSUME NEW d \in CPUs, NEW q \in Slots, proc[d] = q
               PROVE  /\ pc'[q] # "none"
                      /\ state'[q] # "RUNNING" \/ sw'[q] # "no" => plock'[q] = d
                      /\ sw'[q] = "no" /\ pc'[q] \in WaitPCs => wait_lock' = d
                      /\ sw'[q] = "no" /\ pc'[q] \in TickPCs => tickslock' = d
                      /\ sw'[q] = "no" /\ pc'[q] = "fork_ctime" => \A s \in Slots : i'[q] = s => plock'[s] = d
    BY DEF CurrentOK, SchedStep
  <2>1. CASE q = p
    BY <2>1, <1>0, <1>1, Zenon DEF SchedStep, Plain
  <2>2. CASE q # p
    <3>1. pc'[q] = pc[q] /\ i'[q] = i[q] /\ sw'[q] = sw[q] /\ state'[q] = state[q] /\ d # c
      BY <2>2, <1>0, Zenon DEF SchedStep, OthersStay
    <3>2. sw[q] = "no" /\ pc[q] \in WaitPCs => wait_lock' = d
      BY <3>1, <1>0, Sets, SMTT(30) DEF SchedStep, WaitStep, LockInv, CurrentOK
    <3>3. sw[q] = "no" /\ pc[q] \in TickPCs => tickslock' = d
      BY <3>1, <1>0, Sets, SMTT(30) DEF SchedStep, TickStep, LockInv, CurrentOK
    <3>4. \A s \in Slots : plock[s] = d => plock'[s] = d
      BY <1>1, Sets DEF SchedStep
    <3> QED
      BY <3>1, <3>2, <3>3, <3>4 DEF LockInv, CurrentOK
  <2> QED
    BY <2>1, <2>2, Zenon
<1>6. UniqueOK'
  BY Zenon DEF SchedStep, LockInv, UniqueOK
<1>7. PlockOK'
  BY <1>0, <1>1, Sets DEF SchedStep, OthersStay, Plain, LockInv, PlockOK
<1>8. WaitLockOK'
  BY Sets, SMTT(30) DEF SchedStep, OthersStay, WaitStep, LockInv, WaitLockOK, LockedPCs
<1>9. TicksLockOK'
  BY Sets DEF SchedStep, OthersStay, TickStep, IntrStep, LockInv, TicksLockOK, LockedPCs
<1>10. ClockOK'
  <2>1. CASE c = 0
    BY <2>1, Zenon DEF SchedStep, IntrStep, ClockOK
  <2>2. CASE c # 0
    <3>1. tickslock = 0 => tickslock' = 0
      BY <2>2, Sets, Zenon DEF SchedStep, TickStep, LockInv, CurrentOK
    <3>2. \A q \in Slots : proc[0] = q => q # p
      BY <2>2, <1>0, Sets, Zenon
    <3> QED
      BY <2>2, <3>1, <3>2, Zenon DEF SchedStep, IntrStep, OthersStay, LockInv, ClockOK
  <2> QED
    BY <2>1, <2>2, Zenon
<1>11. ForkOK'
  <2>1. \A s \in Slots : state[s] = "USED" => state'[s] = "USED"
    BY <1>2, Zenon DEF SchedStep
  <2> QED
    BY <2>1 DEF SchedStep, OthersStay, IndexStep, LockInv, ForkOK
<1> QED
  BY <1>3, <1>4, <1>5, <1>6, <1>7, <1>8, <1>9, <1>10, <1>11, Zenon DEF LockInv

\* A step inside clockintr() preserves the invariant.
LEMMA ClockStepInv ==
    ASSUME TypeOK, LockInv, ClockStep
    PROVE  LockInv'
<1>1. IndexOK' /\ UniqueOK' /\ PlockOK' /\ WaitLockOK'
  BY DEF ClockStep, LockInv, IndexOK, UniqueOK, PlockOK, WaitLockOK
<1>2. ThreadOK' /\ CurrentOK' /\ ForkOK'
  BY DEF ClockStep, Woken, LockInv, ThreadOK, CurrentOK, ForkOK
<1>3. TicksLockOK' /\ ClockOK'
  BY Zenon DEF ClockStep, LockInv, TicksLockOK, ClockOK
<1> QED
  BY <1>1, <1>2, <1>3, Zenon DEF LockInv
-----------------------------------------------------------------------------
\* Types after wakeup() has looked at a slot.
LEMMA WakeupType ==
    ASSUME TypeOK, NEW c \in CPUs, NEW p \in Slots, Wakeup(c, p)
    PROVE  TypeOK'
<1>1. PICK s \in Slots : wk[p] = s
  BY Zenon DEF Wakeup, TypeOK
<1>2. state' \in [Slots -> States]
  BY <1>1, Labels DEF Wakeup, WakeSlot, TypeOK
<1>3. wk' \in [Slots -> Slots \cup {0}] /\ wchan' \in [Slots -> Chans]
  BY <1>1, Sets DEF Wakeup, TypeOK
<1> QED
  BY <1>2, <1>3, Zenon DEF Wakeup, TypeOK, locks, cpus, locals

\* Types after kill() has looked at a slot.
LEMMA KillScanType ==
    ASSUME TypeOK, LockInv, NEW c \in CPUs, NEW p \in Slots, KillScan(c, p)
    PROVE  TypeOK'
<1>0. PICK s \in Slots : i[p] = s
  BY Zenon DEF KillScan, At, LockInv, IndexOK, LoopPCs
<1>1. killed' \in [Slots -> BOOLEAN]
  <2>1. killed' = killed \/ killed' = [killed EXCEPT ![s] = TRUE]
    BY <1>0, Zenon DEF KillScan, KillSlot
  <2> QED
    BY <2>1, Zenon DEF TypeOK
<1>2. state' \in [Slots -> States]
  BY <1>0, Labels DEF KillScan, KillSlot, TypeOK
<1>3. pc' \in [Slots -> PCs] /\ i' \in [Slots -> Indices]
  BY <1>0, Sets, Labels DEF KillScan, Goto, Loop, TypeOK
<1>4. kpid' \in [Slots -> Nat]
  BY DEF KillScan, TypeOK
<1> QED
  BY <1>1, <1>2, <1>3, <1>4, Zenon DEF KillScan, TypeOK, locks, cpus, waking

\* Preservation: usertrap() starts a system call.
LEMMA SyscallInv ==
    ASSUME TypeOK, LockInv, NEW c \in CPUs, NEW p \in Slots, Syscall(c, p)
    PROVE  TypeOK' /\ LockInv'
<1> USE DEF table, locks, cpus, locals, waking, At, Goto, Loop, NoIntr
<1>0. PICK l \in {"fork_scan", "exit_begin", "wait_begin", "sleep_begin", "kill_scan"} :
         pc' = [pc EXCEPT ![p] = l]
  BY Zenon DEF Syscall, SyscallFork, SyscallExit, SyscallWait, SyscallSleep, SyscallKill
<1>1. TypeOK'
  BY Sets, Labels, KillPidsAssumption, <1>0, SMTT(30) DEF Syscall, SyscallFork, SyscallExit,
     SyscallWait, SyscallSleep, SyscallKill, TypeOK
<1>2. ThreadStep(c, p)
  BY Sets, <1>0 DEF Syscall, SyscallFork, SyscallExit, SyscallWait, SyscallSleep,
     SyscallKill, TypeOK, ThreadStep, OthersStay, Woken, WaitStep, TickStep, IntrStep,
     IndexStep, Plain, WaitPCs, TickPCs, WakingPCs, LoopPCs, ForkPCs
<1> QED
  BY <1>1, <1>2, ThreadStepInv, Zenon

\* Preservation: usertrap() on a fault.
LEMMA FaultInv ==
    ASSUME TypeOK, LockInv, NEW c \in CPUs, NEW p \in Slots, Fault(c, p)
    PROVE  TypeOK' /\ LockInv'
<1> USE DEF table, locks, cpus, locals, waking, At, Goto, Loop, NoIntr
<1>1. TypeOK'
  BY Sets, Labels, Zenon DEF Fault, TypeOK
<1>2. ThreadStep(c, p)
  BY Sets, Zenon DEF Fault, TypeOK, ThreadStep, OthersStay, Woken, WaitStep, TickStep, IntrStep,
     IndexStep, Plain, WaitPCs, TickPCs, WakingPCs, LoopPCs, ForkPCs
<1> QED
  BY <1>1, <1>2, ThreadStepInv, Zenon

\* Preservation: usertrap() on the way out.
LEMMA TrapRetInv ==
    ASSUME TypeOK, LockInv, NEW c \in CPUs, NEW p \in Slots, TrapRet(c, p)
    PROVE  TypeOK' /\ LockInv'
<1> USE DEF table, locks, cpus, locals, waking, At, Goto, Loop, NoIntr
<1>1. TypeOK'
  BY Sets, Labels, Zenon DEF TrapRet, TypeOK
<1>2. ThreadStep(c, p)
  BY Sets, Zenon DEF TrapRet, TypeOK, ThreadStep, OthersStay, Woken, WaitStep, TickStep, IntrStep,
     IndexStep, Plain, WaitPCs, TickPCs, WakingPCs, LoopPCs, ForkPCs
<1> QED
  BY <1>1, <1>2, ThreadStepInv, Zenon

\* Preservation: wakeup() looks at one slot.
LEMMA WakeupInv ==
    ASSUME TypeOK, LockInv, NEW c \in CPUs, NEW p \in Slots, Wakeup(c, p)
    PROVE  TypeOK' /\ LockInv'
<1> USE DEF table, locks, cpus, locals, waking, At, Goto, Loop, NoIntr
<1>0. PICK s \in Slots : wk[p] = s
  BY Zenon DEF Wakeup, TypeOK
<1>1. TypeOK'
  BY WakeupType, Zenon
<1>2. ThreadStep(c, p)
  BY Sets, <1>0 DEF Wakeup, WakeSlot, LockInv, ThreadOK, IndexOK, TypeOK, ThreadStep,
     OthersStay, Woken, WaitStep, TickStep, IntrStep, IndexStep, Plain, WaitPCs, TickPCs,
     WakingPCs, LoopPCs, ForkPCs
<1> QED
  BY <1>1, <1>2, ThreadStepInv, Zenon

\* Preservation: fork() links the child to its parent.
LEMMA ForkParentInv ==
    ASSUME TypeOK, LockInv, NEW c \in CPUs, NEW p \in Slots, ForkParent(c, p)
    PROVE  TypeOK' /\ LockInv'
<1> USE DEF table, locks, cpus, locals, waking, At, Goto, Loop, NoIntr
<1>0. PICK s \in Slots : i[p] = s
  BY Zenon DEF ForkParent, LockInv, IndexOK, LoopPCs, ForkPCs
<1>1. TypeOK'
  BY Sets, Labels, <1>0, Zenon DEF ForkParent, TypeOK
<1>2. ThreadStep(c, p)
  BY Sets, <1>0, Zenon DEF ForkParent, TypeOK, ThreadStep, OthersStay, Woken, WaitStep, TickStep,
     IntrStep, IndexStep, Plain, WaitPCs, TickPCs, WakingPCs, LoopPCs, ForkPCs
<1> QED
  BY <1>1, <1>2, ThreadStepInv, Zenon

\* Preservation: exit() takes wait_lock.
LEMMA ExitBeginInv ==
    ASSUME TypeOK, LockInv, NEW c \in CPUs, NEW p \in Slots, ExitBegin(c, p)
    PROVE  TypeOK' /\ LockInv'
<1> USE DEF table, locks, cpus, locals, waking, At, Goto, Loop, NoIntr
<1>1. TypeOK'
  BY Sets, Labels, Zenon DEF ExitBegin, TypeOK
<1>2. ThreadStep(c, p)
  BY Sets, Zenon DEF ExitBegin, TypeOK, ThreadStep, OthersStay, Woken, WaitStep, TickStep,
     IntrStep, IndexStep, Plain, WaitPCs, TickPCs, WakingPCs, LoopPCs, ForkPCs
<1> QED
  BY <1>1, <1>2, ThreadStepInv, Zenon

\* Preservation: reparent() looks at one slot.
LEMMA ExitReparentInv ==
    ASSUME TypeOK, LockInv, NEW c \in CPUs, NEW p \in Slots, ExitReparent(c, p)
    PROVE  TypeOK' /\ LockInv'
<1> USE DEF table, locks, cpus, locals, waking, At, Goto, Loop, NoIntr
<1>0. PICK s \in Slots : i[p] = s
  BY Zenon DEF ExitReparent, LockInv, IndexOK, LoopPCs, ForkPCs
<1>1. TypeOK'
  BY Sets, Labels, <1>0, SMTT(30) DEF ExitReparent, StartWakeup, TypeOK
<1>2. ThreadStep(c, p)
  BY Sets, <1>0 DEF ExitReparent, StartWakeup, TypeOK, ThreadStep, OthersStay, Woken,
     WaitStep, TickStep, IntrStep, IndexStep, Plain, WaitPCs, TickPCs, WakingPCs, LoopPCs,
     ForkPCs
<1> QED
  BY <1>1, <1>2, ThreadStepInv, Zenon

\* Preservation: exit() calls wakeup(p->parent).
LEMMA ExitWakeInv ==
    ASSUME TypeOK, LockInv, NEW c \in CPUs, NEW p \in Slots, ExitWake(c, p)
    PROVE  TypeOK' /\ LockInv'
<1> USE DEF table, locks, cpus, locals, waking, At, Goto, Loop, NoIntr
<1>0. PICK ch \in Chans : parent[p] = ch
  BY Sets, Zenon DEF TypeOK
<1>1. TypeOK'
  BY Sets, Labels, <1>0, Zenon DEF ExitWake, StartWakeup, TypeOK
<1>2. ThreadStep(c, p)
  BY Sets, Zenon DEF ExitWake, StartWakeup, TypeOK, ThreadStep, OthersStay, Woken, WaitStep,
     TickStep, IntrStep, IndexStep, Plain, WaitPCs, TickPCs, WakingPCs, LoopPCs, ForkPCs
<1> QED
  BY <1>1, <1>2, ThreadStepInv, Zenon

\* Preservation: wait() takes wait_lock.
LEMMA WaitBeginInv ==
    ASSUME TypeOK, LockInv, NEW c \in CPUs, NEW p \in Slots, WaitBegin(c, p)
    PROVE  TypeOK' /\ LockInv'
<1> USE DEF table, locks, cpus, locals, waking, At, Goto, Loop, NoIntr
<1>1. TypeOK'
  BY Sets, Labels, Zenon DEF WaitBegin, TypeOK
<1>2. ThreadStep(c, p)
  BY Sets, Zenon DEF WaitBegin, TypeOK, ThreadStep, OthersStay, Woken, WaitStep, TickStep,
     IntrStep, IndexStep, Plain, WaitPCs, TickPCs, WakingPCs, LoopPCs, ForkPCs
<1> QED
  BY <1>1, <1>2, ThreadStepInv, Zenon

\* Preservation: wait() gives up.
LEMMA WaitReturnInv ==
    ASSUME TypeOK, LockInv, NEW c \in CPUs, NEW p \in Slots, WaitReturn(c, p)
    PROVE  TypeOK' /\ LockInv'
<1> USE DEF table, locks, cpus, locals, waking, At, Goto, Loop, NoIntr
<1>1. TypeOK'
  BY Sets, Labels, Zenon DEF WaitReturn, TypeOK
<1>2. ThreadStep(c, p)
  BY Sets, Zenon DEF WaitReturn, TypeOK, ThreadStep, OthersStay, Woken, WaitStep, TickStep,
     IntrStep, IndexStep, Plain, WaitPCs, TickPCs, WakingPCs, LoopPCs, ForkPCs
<1> QED
  BY <1>1, <1>2, ThreadStepInv, Zenon

\* Preservation: wait() decides to sleep.
LEMMA WaitDecideInv ==
    ASSUME TypeOK, LockInv, NEW c \in CPUs, NEW p \in Slots, WaitDecide(c, p)
    PROVE  TypeOK' /\ LockInv'
<1> USE DEF table, locks, cpus, locals, waking, At, Goto, Loop, NoIntr
<1>1. TypeOK'
  BY Sets, Labels, Zenon DEF WaitDecide, KeepWhileDeciding, TypeOK
<1>2. ThreadStep(c, p)
  BY Sets, Zenon DEF WaitDecide, KeepWhileDeciding, TypeOK, ThreadStep, OthersStay, Woken,
     WaitStep, TickStep, IntrStep, IndexStep, Plain, WaitPCs, TickPCs, WakingPCs, LoopPCs,
     ForkPCs
<1> QED
  BY <1>1, <1>2, ThreadStepInv, Zenon

\* Preservation: kill() looks at one slot.
LEMMA KillScanInv ==
    ASSUME TypeOK, LockInv, NEW c \in CPUs, NEW p \in Slots, KillScan(c, p)
    PROVE  TypeOK' /\ LockInv'
<1> USE DEF table, locks, cpus, locals, waking, At, Goto, Loop, NoIntr
<1>0. PICK s \in Slots : i[p] = s
  BY Zenon DEF KillScan, LockInv, IndexOK, LoopPCs, ForkPCs
<1>1. TypeOK'
  BY KillScanType, Zenon
<1>2. ThreadStep(c, p)
  BY Sets, <1>0 DEF KillScan, KillSlot, TypeOK, ThreadStep, OthersStay, Woken, WaitStep,
     TickStep, IntrStep, IndexStep, Plain, WaitPCs, TickPCs, WakingPCs, LoopPCs, ForkPCs
<1> QED
  BY <1>1, <1>2, ThreadStepInv, Zenon

\* Preservation: sys_sleep() takes tickslock.
LEMMA SleepBeginInv ==
    ASSUME TypeOK, LockInv, NEW c \in CPUs, NEW p \in Slots, SleepBegin(c, p)
    PROVE  TypeOK' /\ LockInv'
<1> USE DEF table, locks, cpus, locals, waking, At, Goto, Loop, NoIntr
<1>1. TypeOK'
  BY Sets, Labels, Zenon DEF SleepBegin, TypeOK
<1>2. ThreadStep(c, p)
  BY Sets, Zenon DEF SleepBegin, TypeOK, ThreadStep, OthersStay, Woken, WaitStep, TickStep,
     IntrStep, IndexStep, Plain, WaitPCs, TickPCs, WakingPCs, LoopPCs, ForkPCs
<1> QED
  BY <1>1, <1>2, ThreadStepInv, Zenon

\* Preservation: sys_sleep() returns.
LEMMA SleepReturnInv ==
    ASSUME TypeOK, LockInv, NEW c \in CPUs, NEW p \in Slots, SleepReturn(c, p)
    PROVE  TypeOK' /\ LockInv'
<1> USE DEF table, locks, cpus, locals, waking, At, Goto, Loop, NoIntr
<1>1. TypeOK'
  BY Sets, Labels, Zenon DEF SleepReturn, TypeOK
<1>2. ThreadStep(c, p)
  BY Sets, Zenon DEF SleepReturn, TypeOK, ThreadStep, OthersStay, Woken, WaitStep, TickStep,
     IntrStep, IndexStep, Plain, WaitPCs, TickPCs, WakingPCs, LoopPCs, ForkPCs
<1> QED
  BY <1>1, <1>2, ThreadStepInv, Zenon

\* Preservation: sys_sleep() decides to sleep.
LEMMA SleepDecideInv ==
    ASSUME TypeOK, LockInv, NEW c \in CPUs, NEW p \in Slots, SleepDecide(c, p)
    PROVE  TypeOK' /\ LockInv'
<1> USE DEF table, locks, cpus, locals, waking, At, Goto, Loop, NoIntr
<1>1. TypeOK'
  BY Sets, Labels, Zenon DEF SleepDecide, TypeOK
<1>2. ThreadStep(c, p)
  BY Sets, Zenon DEF SleepDecide, TypeOK, ThreadStep, OthersStay, Woken, WaitStep, TickStep,
     IntrStep, IndexStep, Plain, WaitPCs, TickPCs, WakingPCs, LoopPCs, ForkPCs
<1> QED
  BY <1>1, <1>2, ThreadStepInv, Zenon

\* Preservation: wait() sleeps.
LEMMA WaitSleepInv ==
    ASSUME TypeOK, LockInv, NEW c \in CPUs, NEW p \in Slots, WaitSleep(c, p)
    PROVE  TypeOK' /\ LockInv'
<1> USE DEF table, locks, cpus, locals, waking, At, Goto, Loop, NoIntr
<1>1. TypeOK'
  BY Sets, Labels, Zenon DEF WaitSleep, Sleep, Acquire, TypeOK
<1>2. SchedStep(c, p)
  BY Sets, Zenon DEF WaitSleep, Sleep, Acquire, TypeOK, SchedStep, OthersStay, WaitStep, TickStep,
     IntrStep, IndexStep, LockedPCs, Plain, WaitPCs, TickPCs, WakingPCs, LoopPCs, ForkPCs
<1> QED
  BY <1>1, <1>2, SchedStepInv, Zenon

\* Preservation: sys_sleep() sleeps.
LEMMA SleepSleepInv ==
    ASSUME TypeOK, LockInv, NEW c \in CPUs, NEW p \in Slots, SleepSleep(c, p)
    PROVE  TypeOK' /\ LockInv'
<1> USE DEF table, locks, cpus, locals, waking, At, Goto, Loop, NoIntr
<1>1. TypeOK'
  BY Sets, Labels, Zenon DEF SleepSleep, Sleep, Acquire, TypeOK
<1>2. SchedStep(c, p)
  BY Sets, Zenon DEF SleepSleep, Sleep, Acquire, TypeOK, SchedStep, OthersStay, WaitStep, TickStep,
     IntrStep, IndexStep, LockedPCs, Plain, WaitPCs, TickPCs, WakingPCs, LoopPCs, ForkPCs
<1> QED
  BY <1>1, <1>2, SchedStepInv, Zenon

\* Preservation: exit() makes the process a zombie.
LEMMA ExitZombieInv ==
    ASSUME TypeOK, LockInv, NEW c \in CPUs, NEW p \in Slots, ExitZombie(c, p)
    PROVE  TypeOK' /\ LockInv'
<1> USE DEF table, locks, cpus, locals, waking, At, Goto, Loop, NoIntr, Acquire, Release
<1>1. TypeOK'
  BY Sets, Labels, Zenon DEF ExitZombie, TypeOK
<1>2. /\ proc[c] = p /\ sw[p] = "no" /\ wk[p] = 0 /\ pc[p] = "exit_zombie" /\ (c = 0 => clk = 0)
      /\ plock[p] = Free /\ UNCHANGED <<proc, sw, wk, i, wait_lock, tickslock, clk>>
  BY Zenon DEF ExitZombie
<1>3. /\ plock'[p] = c /\ state'[p] = "ZOMBIE" /\ pc'[p] = "exit_ttime"
      /\ \A q \in Slots : q # p => plock'[q] = plock[q] /\ state'[q] = state[q] /\ pc'[q] = pc[q]
  BY Zenon DEF ExitZombie, TypeOK
<1>4. \A d \in CPUs, q \in Slots : proc[d] = q => (q = p <=> d = c)
  BY <1>2, Zenon DEF LockInv, UniqueOK
<1>5. state[p] # "USED"
  BY <1>2, Zenon DEF LockInv, ThreadOK
<1>6. IndexOK'
  BY <1>2, <1>3, SMTT(30) DEF LockInv, IndexOK, LoopPCs, ForkPCs
<1>7. ThreadOK'
  BY <1>2, <1>3, SMTT(30) DEF LockInv, ThreadOK
<1>8. CurrentOK'
  BY <1>2, <1>3, <1>4, Sets DEF LockInv, CurrentOK, WaitPCs, TickPCs
<1>9. UniqueOK'
  BY <1>2, <1>3, Zenon DEF LockInv, UniqueOK
<1>10. PlockOK'
  BY <1>2, <1>3, <1>4, Sets DEF LockInv, PlockOK
<1>11. WaitLockOK'
  BY <1>2, <1>3, Zenon DEF LockInv, WaitLockOK, WaitPCs
<1>12. TicksLockOK'
  BY <1>2, <1>3, Zenon DEF LockInv, TicksLockOK, TickPCs
<1>13. ClockOK'
  BY <1>2, <1>3, <1>4, Sets, ZenonT(40) DEF LockInv, ClockOK
<1>14. ForkOK'
  BY <1>2, <1>3, <1>5 DEF LockInv, ForkOK, ForkPCs
<1> QED
  BY <1>1, <1>6, <1>7, <1>8, <1>9, <1>10, <1>11, <1>12, <1>13, <1>14, Zenon DEF LockInv

\* Preservation: exit() enters sched().
LEMMA ExitSchedInv ==
    ASSUME TypeOK, LockInv, NEW c \in CPUs, NEW p \in Slots, ExitSched(c, p)
    PROVE  TypeOK' /\ LockInv'
<1> USE DEF table, locks, cpus, locals, waking, At, Goto, Loop, NoIntr, Acquire, Release
<1>1. TypeOK'
  BY Sets, Labels, Zenon DEF ExitSched, DropWaitLock, TypeOK
<1>2. /\ proc[c] = p /\ sw[p] = "no" /\ wk[p] = 0 /\ pc[p] = "exit_ttime" /\ (c = 0 => clk = 0)
      /\ wait_lock' = Free /\ UNCHANGED <<state, proc, plock, pc, wk, i, tickslock, clk>>
      /\ sw'[p] = "exit" /\ \A q \in Slots : q # p => sw'[q] = sw[q]
  BY Zenon DEF ExitSched, DropWaitLock, TypeOK
<1>3. \A d \in CPUs, q \in Slots : proc[d] = q => (q = p <=> d = c)
  BY <1>2, Zenon DEF LockInv, UniqueOK
<1>4. wait_lock = c /\ plock[p] = c
  BY <1>2 DEF LockInv, CurrentOK, ThreadOK, WaitPCs
<1>5. IndexOK'
  BY <1>2, Zenon DEF LockInv, IndexOK
<1>6. ThreadOK'
  BY <1>2, SMTT(30) DEF LockInv, ThreadOK
<1>7. CurrentOK'
  BY <1>2, <1>3, <1>4 DEF LockInv, CurrentOK
<1>8. UniqueOK'
  BY <1>2, Zenon DEF LockInv, UniqueOK
<1>9. PlockOK'
  BY <1>2, <1>3 DEF LockInv, PlockOK
<1>10. WaitLockOK'
  BY <1>2, Sets, Zenon DEF LockInv, WaitLockOK
<1>11. TicksLockOK'
  BY <1>2, Zenon DEF LockInv, TicksLockOK, TickPCs
<1>12. ClockOK'
  BY <1>2, <1>3, Sets DEF LockInv, ClockOK
<1>13. ForkOK'
  BY <1>2, Zenon DEF LockInv, ForkOK
<1> QED
  BY <1>1, <1>5, <1>6, <1>7, <1>8, <1>9, <1>10, <1>11, <1>12, <1>13, Zenon DEF LockInv
=============================================================================
