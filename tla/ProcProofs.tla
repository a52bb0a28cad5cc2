----------------------------- MODULE ProcProofs -----------------------------
(***************************************************************************)
(* The steps of scheduler(), swtch() and the timer preserve LockInv; then  *)
(* the invariants of the process table and what follows from them, for     *)
(* every NPROC, NCPU, MaxPid, KillPids and Events.                         *)
(***************************************************************************)
EXTENDS ProcSlots, ProcFamily

\* Types after scheduler() has looked at a slot.
LEMMA DispatchType ==
    ASSUME TypeOK, NEW c \in CPUs, Dispatch(c)
    PROVE  TypeOK'
<1>1. PICK s \in Slots : scan[c] = s
  BY Zenon DEF TypeOK
<1>2. NextSlot(s) \in Slots
  BY Sets, Zenon DEF NextSlot
<1>3. scan' \in [CPUs -> Slots]
  BY <1>1, <1>2, Zenon DEF Dispatch, TypeOK
<1>4. /\ state' \in [Slots -> States] /\ proc' \in [CPUs -> Slots \cup {NoProc}]
      /\ plock' \in [Slots -> CPUs \cup {Free}]
  BY <1>1, Labels, SMTT(30) DEF Dispatch, Acquire, TypeOK
<1> QED
  BY <1>3, <1>4, Zenon DEF Dispatch, TypeOK, locals, waking

\* Preservation: scheduler() looks at one slot, and runs it if it is runnable.
LEMMA DispatchInv ==
    ASSUME TypeOK, LockInv, NEW c \in CPUs, Dispatch(c)
    PROVE  TypeOK' /\ LockInv'
<1> USE DEF table, locks, cpus, locals, waking, At, Goto, Loop, NoIntr, Acquire, Release
<1>0. PICK s \in Slots : scan[c] = s
  BY Zenon DEF TypeOK
<1>1. TypeOK'
  BY DispatchType, Zenon
<1>2. /\ proc[c] = NoProc /\ (c = 0 => clk = 0) /\ plock[s] = Free
      /\ UNCHANGED <<pc, sw, wk, i, wait_lock, tickslock, clk>>
  BY <1>0, ZenonT(40) DEF Dispatch
<1>3. CASE ~ Runnable(s)
  <2>1. UNCHANGED <<state, proc, plock>>
    BY <1>0, <1>3, Zenon DEF Dispatch
  <2> QED
    BY <1>1, <1>2, <2>1, SMTT(30) DEF LockInv, IndexOK, ThreadOK, CurrentOK, UniqueOK, PlockOK,
       WaitLockOK, TicksLockOK, ClockOK, ForkOK
<1>4. CASE Runnable(s)
  <2>1. /\ state[s] = "RUNNABLE" /\ state'[s] = "RUNNING" /\ proc'[c] = s /\ plock'[s] = c
        /\ \A q \in Slots : q # s => state'[q] = state[q] /\ plock'[q] = plock[q]
        /\ \A d \in CPUs : d # c => proc'[d] = proc[d]
    BY <1>0, <1>4, Zenon DEF Dispatch, Runnable, TypeOK
  <2>2. sw[s] # "no" /\ pc[s] # "none" /\ \A d \in CPUs : proc[d] # s
    BY <1>2, <2>1, Sets, SMTT(30) DEF LockInv, ThreadOK, CurrentOK
  <2>3. s # NoProc /\ c # Free
    BY Sets, Zenon
  <2>4. IndexOK'
    BY <1>2, <2>1, <2>2, Zenon DEF LockInv, IndexOK
  <2>5. ThreadOK'
    BY <1>2, <2>1, <2>2, Sets, SMTT(30) DEF LockInv, ThreadOK
  <2>6. CurrentOK'
    BY <1>2, <2>1, <2>2, Sets, SMTT(30) DEF LockInv, CurrentOK
  <2>7. UniqueOK'
    BY <1>2, <2>1, <2>2 DEF LockInv, UniqueOK
  <2>8. PlockOK'
    BY <1>2, <2>1, <2>2, <2>3, SMTT(30) DEF LockInv, PlockOK
  <2>9. WaitLockOK'
    BY <1>2, <2>1, <2>2, SMTT(30) DEF LockInv, WaitLockOK
  <2>10. TicksLockOK'
    BY <1>2, <2>1, <2>2 DEF LockInv, TicksLockOK
  <2>11. ClockOK'
    BY <1>2, <2>1, <2>2, Sets, Zenon DEF LockInv, ClockOK
  <2>12. ForkOK'
    BY <1>2, <2>1, <2>2, SMTT(30) DEF LockInv, ForkOK
  <2> QED
    BY <1>1, <2>4, <2>5, <2>6, <2>7, <2>8, <2>9, <2>10, <2>11, <2>12, Zenon DEF LockInv
<1> QED
  BY <1>3, <1>4, Zenon

\* Preservation: the end of a timer interrupt.
LEMMA TimerTailInv ==
    ASSUME TypeOK, LockInv, NEW c \in CPUs, TimerTail(c)
    PROVE  TypeOK' /\ LockInv'
<1> USE DEF table, locks, cpus, locals, waking, At, Goto, Loop, NoIntr, Acquire, Release
<1>0. HoldsNone(c) /\ IntrStep(c)
  BY Zenon DEF TimerTail, IntrStep
<1>1. TypeOK'
  BY Sets, Labels, SMTT(30) DEF TimerTail, Yield, Dying, TypeOK, ClockTail
<1>2. CASE proc[c] = NoProc
  <2>1. UNCHANGED <<state, plock, wait_lock, tickslock, proc, pc, sw, i, wk>>
    BY <1>2, Zenon DEF TimerTail, Dying
  <2>2. TicksLockOK' /\ ClockOK'
    BY <1>0, <2>1, Zenon DEF IntrStep, LockInv, TicksLockOK, ClockOK
  <2> QED
    BY <1>1, <2>1, <2>2, SMTT(30) DEF LockInv, IndexOK, ThreadOK, CurrentOK, UniqueOK, PlockOK,
       WaitLockOK, ForkOK
<1>3. CASE proc[c] # NoProc
  <2>0. PICK p \in Slots : proc[c] = p
    BY <1>3, Zenon DEF TypeOK
  <2>1. /\ sw[p] = "no" /\ state[p] = "RUNNING" /\ wk[p] = 0
        /\ pc[p] \notin LockedPCs /\ pc[p] # "none"
    BY <1>0, <2>0, Interruptible, Zenon
  <2>2. pc[p] \in Plain \ LockedPCs
    BY <2>1, Zenon DEF TypeOK, PCs, Plain, LockedPCs, WaitPCs
  <2>3. /\ pc[p] \in LoopPCs => i[p] \in Slots
        /\ pc[p] # "wait_scan"
    BY <2>1, Zenon DEF LockInv, IndexOK, LockedPCs, WaitPCs
  <2>4. UNCHANGED <<wait_lock, tickslock, proc, i, wk>>
    BY Zenon DEF TimerTail
  <2>5. CASE Dying(p)
    <3>1. pc'[p] = "exit_begin" /\ UNCHANGED <<plock, state, sw>> /\ \A q \in Slots : q # p => pc'[q] = pc[q]
      BY <2>0, <2>5, Zenon DEF TimerTail, TypeOK
    <3>2. ThreadStep(c, p)
      BY <1>0, <2>0, <2>1, <2>2, <2>4, <3>1, Zenon DEF LockedPCs, ThreadStep, OthersStay, Woken,
         WaitStep, TickStep, IntrStep, IndexStep, Plain, WaitPCs, TickPCs, WakingPCs, LoopPCs,
         ForkPCs
    <3> QED
      BY <1>1, <3>2, ThreadStepInv, Zenon
  <2>6. CASE UNCHANGED <<plock, state, sw, pc>>
    <3>1. ThreadStep(c, p)
      BY <1>0, <2>0, <2>1, <2>2, <2>3, <2>4, <2>6, SMTT(30) DEF ThreadStep, OthersStay, Woken, WaitStep,
         TickStep, IndexStep
    <3> QED
      BY <1>1, <3>1, ThreadStepInv, Zenon
  <2>7. CASE Yield(c, p) /\ UNCHANGED pc
    <3>1. SchedStep(c, p)
      BY <1>0, <2>0, <2>1, <2>2, <2>3, <2>4, <2>7, SMTT(30) DEF Yield, TypeOK, SchedStep, OthersStay,
         WaitStep, TickStep, IndexStep
    <3> QED
      BY <1>1, <3>1, SchedStepInv, Zenon
  <2> QED
    BY <2>0, <2>5, <2>6, <2>7, Zenon DEF TimerTail
<1> QED
  BY <1>2, <1>3, Zenon

\* Preservation: swtch() returns in the thread.
LEMMA ResumeInv ==
    ASSUME TypeOK, LockInv, NEW c \in CPUs, NEW p \in Slots, Resume(c, p)
    PROVE  TypeOK' /\ LockInv'
<1> USE DEF table, locks, cpus, locals, waking, At, Goto, Loop, NoIntr, Acquire, Release
<1>1. TypeOK'
  BY Sets, Labels, Zenon DEF Resume, TypeOK
<1>2. /\ proc[c] = p /\ sw[p] # "no" /\ state[p] = "RUNNING"
      /\ UNCHANGED <<state, wait_lock, tickslock, proc, clk, pc, i, wk>>
      /\ sw'[p] = "no" /\ plock'[p] = Free
      /\ \A q \in Slots : q # p => sw'[q] = sw[q] /\ plock'[q] = plock[q]
  BY Zenon DEF Resume, TypeOK
<1>3. pc[p] \notin LockedPCs /\ plock[p] = c
  BY <1>2, SMTT(30) DEF LockInv, ThreadOK, CurrentOK, TypeOK, Switches
<1>4. \A d \in CPUs, q \in Slots : proc[d] = q => (q = p <=> d = c)
  BY <1>2, Zenon DEF LockInv, UniqueOK
<1>5. IndexOK'
  BY <1>2, Zenon DEF LockInv, IndexOK
<1>6. ThreadOK'
  BY <1>2, <1>3, SMTT(30) DEF LockInv, ThreadOK
<1>7. CurrentOK'
  BY <1>2, <1>3, <1>4, SMTT(30) DEF LockInv, CurrentOK, LockedPCs
<1>8. UniqueOK'
  BY <1>2, Zenon DEF LockInv, UniqueOK
<1>9. PlockOK'
  BY <1>2, <1>3, <1>4, Sets, SMTT(30) DEF LockInv, PlockOK
<1>10. WaitLockOK'
  BY <1>2, Zenon DEF LockInv, WaitLockOK
<1>11. TicksLockOK'
  BY <1>2, Zenon DEF LockInv, TicksLockOK
<1>12. ClockOK'
  BY <1>2, Zenon DEF LockInv, ClockOK
<1>13. ForkOK'
  BY <1>2, SMTT(30) DEF LockInv, ForkOK
<1> QED
  BY <1>1, <1>5, <1>6, <1>7, <1>8, <1>9, <1>10, <1>11, <1>12, <1>13, Zenon DEF LockInv

\* Preservation: swtch() returns in scheduler().
LEMMA SwitchOutInv ==
    ASSUME TypeOK, LockInv, NEW c \in CPUs, NEW p \in Slots, SwitchOut(c, p)
    PROVE  TypeOK' /\ LockInv'
<1> USE DEF table, locks, cpus, locals, waking, At, Goto, Loop, NoIntr, Acquire, Release
<1>1. TypeOK'
  BY Sets, Zenon DEF SwitchOut, NextSlot, TypeOK
<1>2. /\ proc[c] = p /\ sw[p] # "no" /\ state[p] # "RUNNING"
      /\ UNCHANGED <<state, wait_lock, tickslock, clk, pc, sw, i, wk>>
      /\ proc'[c] = NoProc /\ plock'[p] = Free
      /\ \A d \in CPUs : d # c => proc'[d] = proc[d]
      /\ \A q \in Slots : q # p => plock'[q] = plock[q]
  BY Zenon DEF SwitchOut, TypeOK
<1>3. \A d \in CPUs, q \in Slots : proc[d] = q => (q = p <=> d = c)
  BY <1>2, Zenon DEF LockInv, UniqueOK
<1>4. plock[p] = c
  BY <1>2 DEF LockInv, CurrentOK
<1>5. IndexOK'
  BY <1>2, Zenon DEF LockInv, IndexOK
<1>6. ThreadOK'
  BY <1>2, SMTT(30) DEF LockInv, ThreadOK
<1>7. CurrentOK'
  BY <1>2, <1>3, <1>4, Sets, SMTT(30) DEF LockInv, CurrentOK
<1>8. UniqueOK'
  BY <1>2, Sets, SMTT(30) DEF LockInv, UniqueOK
<1>9. PlockOK'
  BY <1>2, <1>3, <1>4, Sets, SMTT(30) DEF LockInv, PlockOK
<1>10. WaitLockOK'
  BY <1>2 DEF LockInv, WaitLockOK
<1>11. TicksLockOK'
  BY <1>2 DEF LockInv, TicksLockOK
<1>12. ClockOK'
  BY <1>2, Sets, Zenon DEF LockInv, ClockOK
<1>13. ForkOK'
  BY <1>2, Zenon DEF LockInv, ForkOK
<1> QED
  BY <1>1, <1>5, <1>6, <1>7, <1>8, <1>9, <1>10, <1>11, <1>12, <1>13, Zenon DEF LockInv

\* Preservation: clockintr() takes tickslock.
LEMMA ClockStartInv ==
    ASSUME TypeOK, LockInv, ClockStart
    PROVE  TypeOK' /\ LockInv'
<1> USE DEF table, locks, cpus, locals, waking, At, Goto, Loop, NoIntr, Acquire, Release
<1>0. \A p \in Slots : proc[0] = p => sw[p] = "no" /\ pc[p] \notin LockedPCs
  BY Sets, Interruptible, Zenon DEF ClockStart
<1>1. TypeOK'
  BY NPROCAssumption, Sets DEF ClockStart, TypeOK, ClockTail
<1>2. /\ clk' # 0 /\ clk' # ClockTail /\ tickslock = Free /\ tickslock' = 0
      /\ UNCHANGED <<state, plock, wait_lock, proc, pc, sw, i, wk>>
  BY NPROCAssumption, SMTT(30) DEF ClockStart, ClockTail
<1>3. IndexOK' /\ ThreadOK' /\ UniqueOK' /\ PlockOK' /\ WaitLockOK' /\ ForkOK'
  BY <1>2, SMTT(30) DEF LockInv, IndexOK, ThreadOK, UniqueOK, PlockOK, WaitLockOK, ForkOK
<1>4. CurrentOK'
  BY <1>2, Sets, SMTT(30) DEF LockInv, CurrentOK
<1>5. TicksLockOK' /\ ClockOK'
  BY <1>0, <1>2, Sets, Zenon DEF LockInv, TicksLockOK, ClockOK
<1> QED
  BY <1>1, <1>3, <1>4, <1>5, Zenon DEF LockInv

\* Preservation: clockintr() counts one slot.
LEMMA ClockCountInv ==
    ASSUME TypeOK, LockInv, ClockCount
    PROVE  TypeOK' /\ LockInv'
<1> USE DEF table, locks, cpus, locals, waking, At, Goto, Loop, NoIntr, Acquire, Release
<1>1. /\ clk \in Slots /\ clk' = clk + 1 /\ clk' \in 0 .. ClockTail
      /\ {clk, clk'} \cap {0, ClockTail} = {}
  BY NPROCAssumption DEF ClockCount, Slots, ClockTail, TypeOK
<1>2. TypeOK'
  BY <1>1, Labels, Zenon DEF ClockCount, TypeOK
<1>3. ClockStep
  BY <1>1, ZenonT(40) DEF ClockCount, TypeOK, ClockStep, Woken
<1> QED
  BY <1>2, <1>3, ClockStepInv, Zenon

\* Preservation: clockintr()'s wakeup() looks at one slot.
LEMMA ClockWakeInv ==
    ASSUME TypeOK, LockInv, ClockWake
    PROVE  TypeOK' /\ LockInv'
<1> USE DEF table, locks, cpus, locals, waking, At, Goto, Loop, NoIntr, Acquire, Release
<1>1. /\ clk - NPROC \in Slots /\ clk' = clk + 1 /\ clk' \in 0 .. ClockTail
      /\ {clk, clk'} \cap {0, ClockTail} = {}
  BY NPROCAssumption, SMTT(30) DEF ClockWake, Slots, ClockTail, TypeOK
<1>2. TypeOK'
  BY <1>1, Labels, Zenon DEF ClockWake, WakeSlot, TypeOK
<1>3. ClockStep
  BY <1>1, ZenonT(40) DEF ClockWake, WakeSlot, TypeOK, ClockStep, Woken
<1> QED
  BY <1>2, <1>3, ClockStepInv, Zenon

\* Preservation: clockintr() releases tickslock, on which no thread relies.
LEMMA ClockEndInv ==
    ASSUME TypeOK, LockInv, ClockEnd
    PROVE  TypeOK' /\ LockInv'
<1> USE DEF table, locks, cpus, locals, waking, At, Goto, Loop, NoIntr, Acquire, Release
<1>1. TypeOK'
  BY NPROCAssumption DEF ClockEnd, TypeOK, ClockTail
<1>2. /\ clk # 0 /\ clk # ClockTail /\ clk' = ClockTail /\ tickslock' = Free
      /\ UNCHANGED <<state, plock, wait_lock, proc, pc, sw, i, wk>>
  BY NPROCAssumption, SMTT(30) DEF ClockEnd, ClockDone, ClockTail
<1>3. IndexOK' /\ ThreadOK' /\ UniqueOK' /\ PlockOK' /\ WaitLockOK' /\ ForkOK'
  BY <1>2, SMTT(30) DEF LockInv, IndexOK, ThreadOK, UniqueOK, PlockOK, WaitLockOK, ForkOK
<1>4. \A c \in CPUs, p \in Slots : proc[c] = p => ~ (sw[p] = "no" /\ pc[p] \in TickPCs)
  BY <1>2, SMTT(30) DEF LockInv, ClockOK, CurrentOK, LockedPCs
<1>5. CurrentOK'
  BY <1>2, <1>4, SMTT(30) DEF LockInv, CurrentOK
<1>6. TicksLockOK' /\ ClockOK'
  BY <1>2, Sets, Zenon DEF LockInv, TicksLockOK, ClockOK
<1> QED
  BY <1>1, <1>3, <1>5, <1>6, Zenon DEF LockInv

\* The boot state, after userinit(), satisfies the invariant.
LEMMA InitInv == Init => TypeOK /\ LockInv
<1> SUFFICES ASSUME Init PROVE TypeOK /\ LockInv
  OBVIOUS
<1>1. /\ state \in [Slots -> States] /\ pid \in [Slots -> Nat] /\ parent \in [Slots -> Slots \cup {NoProc}]
      /\ chan \in [Slots -> Chans] /\ nextpid \in Nat
  BY Sets, Labels, Zenon DEF Init
<1>2. killed \in [Slots -> BOOLEAN]
  BY Zenon DEF Init
<1>3. /\ plock \in [Slots -> CPUs \cup {Free}] /\ wait_lock \in CPUs \cup {Free}
      /\ tickslock \in CPUs \cup {Free} /\ proc \in [CPUs -> Slots \cup {NoProc}]
      /\ scan \in [CPUs -> Slots]
  BY Sets, Zenon DEF Init
<1>4. clk \in 0 .. ClockTail
  BY NPROCAssumption DEF Init, ClockTail
<1>5. /\ pc \in [Slots -> PCs] /\ sw \in [Slots -> Switches] /\ i \in [Slots -> Indices]
      /\ kpid \in [Slots -> Nat] /\ wk \in [Slots -> Slots \cup {0}] /\ wchan \in [Slots -> Chans]
  BY Sets, Labels, Zenon DEF Init
<1>6. TypeOK
  BY <1>1, <1>2, <1>3, <1>4, <1>5, Zenon DEF TypeOK
<1>7. \A p \in Slots : pc[p] \in {"none", "user"} /\ sw[p] \in {"no", "first"} /\ wk[p] = 0
  BY Zenon DEF Init
<1>8. IndexOK /\ ForkOK
  BY <1>7, Zenon DEF IndexOK, ForkOK, LoopPCs, ForkPCs
<1>9. ThreadOK
  BY <1>7, Zenon DEF Init, ThreadOK, LockedPCs, WaitPCs, TickPCs
<1>10. CurrentOK /\ UniqueOK /\ PlockOK /\ WaitLockOK /\ TicksLockOK /\ ClockOK
  BY Sets, Zenon DEF Init, CurrentOK, UniqueOK, PlockOK, WaitLockOK, TicksLockOK, ClockOK
<1> QED
  BY <1>6, <1>8, <1>9, <1>10, Zenon DEF LockInv

\* Preservation: the steps of a thread inside the kernel.
LEMMA KernelStepInv ==
    ASSUME TypeOK, LockInv, NEW c \in CPUs, NEW p \in Slots, KernelStep(c, p)
    PROVE  TypeOK' /\ LockInv'
BY TrapRetInv, WakeupInv, ForkScanInv, ForkCopyInv, ForkParentInv,
   ForkRunInv, ExitBeginInv, ExitReparentInv, ExitWakeInv, ExitZombieInv,
   ExitSchedInv, WaitBeginInv, WaitScanInv, WaitReturnInv, WaitDecideInv,
   WaitSleepInv, KillScanInv, SleepBeginInv, SleepReturnInv, SleepDecideInv,
   SleepSleepInv, SMTT(30)
   DEF KernelStep

\* Every step of the kernel, and every stuttering step, preserves the invariant.
LEMMA StepInv == TypeOK /\ LockInv /\ [Next]_vars => TypeOK' /\ LockInv'
<1> SUFFICES ASSUME TypeOK, LockInv, [Next]_vars
             PROVE  TypeOK' /\ LockInv'
  OBVIOUS
<1>1. CASE UNCHANGED vars
  <2>1. TypeOK'
    BY <1>1, SMTT(30) DEF vars, table, locks, cpus, locals, waking, TypeOK
  <2>2. LockInv'
    BY <1>1, SMTT(30) DEF vars, table, locks, cpus, locals, waking, LockInv, IndexOK, ThreadOK, CurrentOK,
       UniqueOK, PlockOK, WaitLockOK, TicksLockOK, ClockOK, ForkOK
  <2> QED
    BY <2>1, <2>2, Zenon
<1>2. ASSUME NEW c \in CPUs, Dispatch(c) \/ TimerTail(c)
      PROVE  TypeOK' /\ LockInv'
  BY <1>2, DispatchInv, TimerTailInv, Zenon
<1>3. ASSUME NEW c \in CPUs, NEW p \in Slots,
             Syscall(c, p) \/ Fault(c, p) \/ KernelStep(c, p) \/ Switch(c, p)
      PROVE  TypeOK' /\ LockInv'
  BY <1>3, SyscallInv, FaultInv, KernelStepInv, ResumeInv, SwitchOutInv, Zenon DEF Switch
<1>4. ASSUME ClockStart \/ Clock
      PROVE  TypeOK' /\ LockInv'
  BY <1>4, ClockStartInv, ClockCountInv, ClockWakeInv, ClockEndInv, Zenon DEF Clock
<1> QED
  BY <1>1, <1>2, <1>3, <1>4, Zenon DEF Next

\* What LockInv says of a thread inside sched().
LEMMA SchedFromLocks == TypeOK /\ LockInv => SchedOK
<1> SUFFICES ASSUME TypeOK, LockInv, NEW c \in CPUs, NEW p \in Slots, proc[c] = p, sw[p] # "no"
             PROVE  /\ plock[p] = c /\ wait_lock # c /\ tickslock # c
                    /\ \A s \in Slots \ {p} : plock[s] # c
  BY Zenon DEF SchedOK
<1>1. plock[p] = c
  BY Zenon DEF LockInv, CurrentOK
<1>2. wait_lock # c
  BY Zenon DEF LockInv, WaitLockOK
<1>3. tickslock # c
  BY Zenon DEF LockInv, TicksLockOK, ClockOK
<1>4. \A s \in Slots \ {p} : plock[s] # c
  BY DEF LockInv, PlockOK
<1> QED
  BY <1>1, <1>2, <1>3, <1>4, Zenon

\* What LockInv says of the threads on CPUs.
LEMMA OneCPUFromLocks == TypeOK /\ LockInv => OneCPU
<1> SUFFICES ASSUME TypeOK, LockInv PROVE OneCPU
  OBVIOUS
<1>1. \A c, d \in CPUs : proc[c] = proc[d] /\ proc[c] # NoProc => c = d
  BY ZenonT(40) DEF TypeOK, LockInv, UniqueOK
<1>2. \A c \in CPUs : proc[c] # NoProc => state[proc[c]] \notin {"UNUSED", "USED"}
  BY SMTT(30) DEF TypeOK, LockInv, CurrentOK, ThreadOK
<1>3. ASSUME NEW p \in Slots, plock[p] = Free
      PROVE  state[p] = "RUNNING" <=> \E c \in CPUs : proc[c] = p
  BY <1>3, Sets, SMTT(30) DEF LockInv, CurrentOK, ThreadOK
<1> QED
  BY <1>1, <1>2, <1>3, Zenon DEF OneCPU

\* What LockInv says of the next lock a CPU takes: it is not one it holds.
LEMMA ReacquireFromLocks == TypeOK /\ LockInv => NoReacquire
<1> SUFFICES ASSUME TypeOK, LockInv, NEW c \in CPUs, NEW l \in Wants(c), Holder(l) = c
             PROVE  FALSE
  BY Zenon DEF NoReacquire, SpinsOn
<1>1. \A s \in Slots : Holder(s) = plock[s]
  BY NPROCAssumption DEF Holder, Slots, WaitLockId, TicksLockId
<1>2. Holder(WaitLockId) = wait_lock /\ Holder(TicksLockId) = tickslock
  BY NPROCAssumption DEF Holder, WaitLockId, TicksLockId
<1>3. CASE ~ NoIntr(c)
  <2>1. c = 0 /\ clk # 0 /\ l \in Slots /\ plock[l] = 0
    BY <1>1, <1>3, Zenon DEF Wants, NoIntr
  <2>2. PICK p \in Slots : proc[c] = p
    <3>1. proc[c] # NoProc
      BY <2>1, Zenon DEF LockInv, PlockOK
    <3> QED
      BY <3>1, Zenon DEF TypeOK
  <2>3. pc[p] \notin LockedPCs /\ sw[p] = "no"
    BY <2>1, <2>2, ZenonT(40) DEF LockInv, ClockOK
  <2> QED
    BY <2>1, <2>2, <2>3, Sets, SMTT(30) DEF LockInv, PlockOK, LockedPCs, WaitPCs
<1>4. CASE NoIntr(c) /\ proc[c] = NoProc
  BY <1>1, <1>4, SMTT(30) DEF Wants, TypeOK, LockInv, PlockOK
<1>5. CASE NoIntr(c) /\ proc[c] # NoProc
  <2>1. PICK p \in Slots : proc[c] = p
    BY <1>5, Zenon DEF TypeOK
  <2>2. sw[p] = "no" /\ l \in NextLock(p)
    BY <1>5, <2>1, Zenon DEF Wants
  <2>3. CASE l \in Slots
    <3>1. (l = p /\ pc[p] = "exit_ttime") \/ pc[p] = "fork_ctime"
      BY <1>1, <2>1, <2>2, <2>3, SMTT(30) DEF LockInv, PlockOK
    <3>2. wk[p] = 0
      BY <2>1, <2>2, <2>3, <3>1, Zenon DEF LockInv, ThreadOK, NextLock, WakingPCs
    <3> QED
      BY NPROCAssumption, <2>2, <2>3, <3>1, <3>2, SMTT(30) DEF NextLock, WaitLockId, TicksLockId, Slots
  <2>4. CASE l = WaitLockId
    <3>1. pc[p] \in WaitPCs
      BY <1>2, <2>1, <2>4, Zenon DEF LockInv, WaitLockOK
    <3>2. l \notin Slots /\ l # TicksLockId
      BY NPROCAssumption, <2>4, SMTT(30) DEF WaitLockId, TicksLockId, Slots
    <3> QED
      BY <2>2, <3>1, <3>2, Zenon DEF NextLock, WaitPCs, TypeOK, LockInv, IndexOK, LoopPCs
  <2>5. CASE l = TicksLockId
    <3>1. pc[p] \in TickPCs
      BY <1>2, <1>5, <2>1, <2>5, Zenon DEF LockInv, TicksLockOK, NoIntr
    <3>2. l \notin Slots /\ l # WaitLockId
      BY NPROCAssumption, <2>5 DEF WaitLockId, TicksLockId, Slots
    <3> QED
      BY <2>2, <3>1, <3>2, SMTT(30) DEF NextLock, TickPCs, TypeOK, LockInv, IndexOK, LoopPCs
  <2> QED
    BY <2>2, <2>3, <2>4, <2>5, Zenon DEF NextLock
<1> QED
  BY <1>3, <1>4, <1>5, Zenon

\* The invariant holds in every reachable state.
LEMMA InvAlways == Spec => [](TypeOK /\ LockInv)
BY InitInv, StepInv, PTL DEF Spec

\* Every reachable state is well typed: no step stores a value outside the
\* domain of a field, a lock or an index of the table.
THEOREM TypeCorrect == Spec => []TypeOK
BY InvAlways, PTL

\* The locks held, the positions of the kernel threads and the CPUs agree in
\* every reachable state.
THEOREM LocksCorrect == Spec => []LockInv
BY InvAlways, PTL

\* sched() never panics with "sched p->lock" or "sched locks".
THEOREM SchedNeverPanics == Spec => []SchedOK
BY InvAlways, SchedFromLocks, PTL

\* scheduler() and wait() never touch a process whose kernel stack another CPU
\* is using.
THEOREM NeverOnTwoCPUs == Spec => []OneCPU
BY InvAlways, OneCPUFromLocks, PTL

\* acquire() never panics because its CPU holds the lock already, also not in
\* a clock interrupt.
THEOREM AcquireNeverPanics == Spec => []NoReacquire
BY InvAlways, ReacquireFromLocks, PTL

\* What reparent(), exit() and wait() keep of parents, children and sleepers
\* holds in every reachable state.
LEMMA FamilyAlways == Spec => []FamilyInv
BY InvAlways, InitFamily, FamilyStep, PTL DEF Spec

\* No process outlives the parent that could wait for it: exit() hands its
\* children to init before it becomes a zombie, and init never exits.
THEOREM ParentsCanWait == Spec => []ParentAlive
BY InvAlways, FamilyAlways, FamilyParents, PTL

\* wait() never sleeps through the exit() of a child: while wait_lock is free
\* no process asleep in it has a zombie child.
THEOREM ExitNeverLost == Spec => []NoLostExit
BY InvAlways, FamilyAlways, FamilyAwake, PTL
=============================================================================
