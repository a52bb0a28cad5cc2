----------------------------- MODULE ProcFamily -----------------------------
(***************************************************************************)
(* Parents and children: every step of Proc preserves FamilyInv, given the *)
(* lock invariant, which ProcProofs shows to hold always.                  *)
(*                                                                         *)
(* The argument turns on wait_lock.  reparent(), the wakeup() of the       *)
(* parent and the change to ZOMBIE happen in one critical section of it,   *)
(* and so do the scan of wait() and its decision to sleep; so a thread at  *)
(* one of these places knows that no other is at any of them.              *)
(***************************************************************************)
EXTENDS ProcInv, TLAPS

\* What is needed of the slots and of the channels.
LEMMA SlotFacts ==
    /\ Slots \subseteq Nat /\ Init1 \in Slots /\ Init1 = 1 /\ NoProc = 0
    /\ 0 \notin Slots /\ TicksChan \notin Slots /\ Free \notin CPUs
    /\ \A s \in Slots : 1 <= s /\ s <= NPROC
    /\ \A s \in Slots : s # NPROC => s + 1 \in Slots
BY NPROCAssumption, NCPUAssumption DEF Slots, CPUs, Init1, NoProc, TicksChan, Free

\* The order of the slots, which the loops over the table follow.
LEMMA SlotOrder ==
    \A s, t \in Slots :
        /\ s <= t /\ s # t => s < t /\ s # NPROC /\ s + 1 <= t /\ s + 1 # 0
        /\ s < t + 1 => s <= t
        /\ s < NPROC + 1
BY NPROCAssumption DEF Slots

\* A thread that executes outside sched(), and is no zombie, is RUNNING.
LEMMA OnCpu ==
    ASSUME TypeOK, LockInv, NEW c \in CPUs, NEW p \in Slots,
           proc[c] = p, sw[p] = "no", pc[p] # "exit_ttime"
    PROVE  state[p] = "RUNNING"
<1>1. pc[p] # "none"
  BY DEF LockInv, CurrentOK
<1>2. state[p] \in States
  BY Zenon DEF TypeOK
<1> QED
  BY <1>1, <1>2, Zenon DEF LockInv, ThreadOK, States

\* A thread inside a critical section of wait_lock holds it.
LEMMA HoldsWaitLock ==
    ASSUME TypeOK, LockInv, NEW p \in Slots, pc[p] \in WaitPCs \ {"exit_ttime"}
    PROVE  /\ \E c \in CPUs : proc[c] = p /\ wait_lock = c
           /\ state[p] = "RUNNING"
<1>1. sw[p] = "no"
  <2>1. sw[p] \in Switches
    BY Zenon DEF TypeOK
  <2> QED
    BY <2>1, Zenon DEF Switches, LockInv, ThreadOK, LockedPCs
<1>2. state[p] = "RUNNING"
  <2>1. state[p] \in States
    BY Zenon DEF TypeOK
  <2> QED
    BY <1>1, <2>1, Zenon DEF States, LockInv, ThreadOK, WaitPCs
<1>3. PICK c \in CPUs : proc[c] = p
  BY <1>2, Zenon DEF LockInv, ThreadOK
<1> QED
  BY <1>1, <1>2, <1>3, Zenon DEF LockInv, CurrentOK

\* At most one thread is inside a critical section of wait_lock.
LEMMA WaitLockAlone ==
    ASSUME TypeOK, LockInv, NEW p \in Slots, NEW q \in Slots,
           pc[p] \in WaitPCs \ {"exit_ttime"}, pc[q] \in WaitPCs \ {"exit_ttime"}
    PROVE  p = q
<1>1. PICK c \in CPUs : proc[c] = p /\ wait_lock = c
  BY HoldsWaitLock, Zenon
<1>2. PICK d \in CPUs : proc[d] = q /\ wait_lock = d
  BY HoldsWaitLock, Zenon
<1> QED
  BY <1>1, <1>2, Zenon

\* While wait_lock is free nobody is inside.
LEMMA WaitLockFree ==
    ASSUME TypeOK, LockInv, wait_lock = Free, NEW p \in Slots
    PROVE  pc[p] \notin WaitPCs \ {"exit_ttime"}
BY HoldsWaitLock, SlotFacts, Zenon

-----------------------------------------------------------------------------
(***************************************************************************)
(* Most steps link no child, end no process and put nobody to sleep in     *)
(* wait(); the one thread that moves enters no place where FamilyInv says  *)
(* more of it than it said before.                                         *)
(***************************************************************************)
InitKept ==
    /\ pid'[Init1] = pid[Init1] /\ ~ killed'[Init1] /\ pc'[Init1] \notin ExitPCs
    /\ \A q \in Slots : pc'[q] = "kill_scan" => kpid'[q] # 1

OthersKept(p) == \A q \in Slots : q # p =>
    pc'[q] = pc[q] /\ i'[q] = i[q] /\ wk'[q] = wk[q] /\ wchan'[q] = wchan[q]

\* The thread keeps the place it has in FamilyInv, or leaves it.
PlaceKept(p) ==
    /\ pc'[p] \in GonePCs => pc'[p] = pc[p]
    /\ pc'[p] = "exit_reparent" => i'[p] = 1 \/ (pc[p] = "exit_reparent" /\ i'[p] = i[p])
    /\ pc'[p] = "fork_run" => pc[p] = "fork_run" /\ i'[p] = i[p]
    /\ pc'[p] = "wait_scan" => i'[p] = 1 \/ (pc[p] = "wait_scan" /\ i'[p] = i[p])
    /\ pc'[p] = "wait_sleep" => pc[p] = "wait_sleep"
    /\ wk[p] # 0 => pc'[p] = pc[p] /\ wk'[p] = wk[p] /\ wchan'[p] = wchan[p]

StatesKept == \A s \in Slots :
    /\ state'[s] \in DeadStates <=> state[s] \in DeadStates
    /\ state'[s] = "ZOMBIE" <=> state[s] = "ZOMBIE"
    /\ state'[s] = "SLEEPING" /\ chan'[s] = s => state[s] = "SLEEPING" /\ chan[s] = s

Keeps(p) == parent' = parent /\ InitKept /\ OthersKept(p) /\ PlaceKept(p) /\ StatesKept

\* Such a step preserves the invariant.
LEMMA KeepsFamily ==
    ASSUME TypeOK, LockInv, FamilyInv, NEW p \in Slots, Keeps(p)
    PROVE  FamilyInv'
<1>1. InitOK'
  BY SlotFacts, Zenon DEF Keeps, InitKept, StatesKept, FamilyInv, InitOK
<1>2. ChildlessOK'
  BY SlotFacts DEF Keeps, OthersKept, PlaceKept, FamilyInv, ChildlessOK
<1>3. ParentOK'
  <2>1. \A s \in Slots : state'[s] \in {"UNUSED", "USED"} <=> state[s] \in {"UNUSED", "USED"}
    BY Zenon DEF Keeps, StatesKept, DeadStates
  <2> QED
    BY <2>1 DEF Keeps, OthersKept, PlaceKept, StatesKept, FamilyInv, ParentOK
<1>4. ScanOK'
  BY SlotFacts DEF Keeps, OthersKept, PlaceKept, StatesKept, FamilyInv, ScanOK
<1>5. WakeOK'
  <2>1. \A r, q \in Slots : WillWake(r, q) => WillWake(r, q)'
    BY Zenon DEF Keeps, OthersKept, PlaceKept, WillWake
  <2>2. \A q \in Slots : InWait(q)' => InWait(q)
    BY Zenon DEF Keeps, StatesKept, InWait
  <2>3. \A r \in Slots : pc'[r] = "exit_zombie" => pc[r] = "exit_zombie"
    BY Zenon DEF Keeps, OthersKept, PlaceKept, GonePCs
  <2>4. \A s \in Slots : parent'[s] = parent[s] /\ (state'[s] = "ZOMBIE" => state[s] = "ZOMBIE")
    BY Zenon DEF Keeps, StatesKept
  <2> QED
    BY <2>1, <2>2, <2>3, <2>4, Zenon DEF FamilyInv, WakeOK
<1> QED
  BY <1>1, <1>2, <1>3, <1>4, <1>5, Zenon DEF FamilyInv

-----------------------------------------------------------------------------
(***************************************************************************)
(* The steps that keep.                                                    *)
(***************************************************************************)
\* Where a thread may go without FamilyInv saying anything of it there.
Elsewhere == {"user", "ret", "fork_scan", "fork_ctime", "fork_parent", "exit_begin",
              "wait_begin", "kill_scan", "sleep_begin", "sleep_loop", "sleep_sleep"}

\* A thread outside wakeup() goes there, while states are kept.
Goes(p, l) ==
    /\ l \in Elsewhere /\ pc' = [pc EXCEPT ![p] = l] /\ (l = "exit_begin" => p # Init1)
    /\ wk[p] = 0 /\ UNCHANGED <<parent, wk, wchan>>
    /\ StatesKept /\ pid'[Init1] = pid[Init1] /\ ~ killed'[Init1]
    /\ \A q \in Slots : q # p => i'[q] = i[q] /\ kpid'[q] = kpid[q]
    /\ l = "kill_scan" => kpid'[p] # 1

\* A thread that goes to such a label keeps the family.
LEMMA GoesElsewhere ==
    ASSUME TypeOK, LockInv, FamilyInv, NEW p \in Slots, NEW l, Goes(p, l)
    PROVE  FamilyInv'
<1>1. pc'[p] = l /\ \A q \in Slots : q # p => pc'[q] = pc[q]
  BY Zenon DEF TypeOK, Goes
<1>2. OthersKept(p)
  BY <1>1, Zenon DEF OthersKept, Goes
<1>3. PlaceKept(p)
  BY <1>1, Zenon DEF PlaceKept, Elsewhere, GonePCs, Goes
<1>4. pc'[Init1] \notin ExitPCs
  BY <1>1, SlotFacts, Zenon DEF Elsewhere, ExitPCs, FamilyInv, InitOK, Goes
<1>5. \A q \in Slots : pc'[q] = "kill_scan" => kpid'[q] # 1
  BY <1>1, Zenon DEF FamilyInv, InitOK, Goes
<1> QED
  BY <1>2, <1>3, <1>4, <1>5, KeepsFamily, Zenon DEF Keeps, InitKept, Goes

\* States that do not change are kept.
LEMMA SameStates == UNCHANGED <<state, chan>> => StatesKept
BY Zenon DEF StatesKept

\* The system calls and the faults of usertrap(), and its return.
LEMMA TrapFamily ==
    ASSUME TypeOK, LockInv, FamilyInv, NEW c \in CPUs, NEW p \in Slots,
           Syscall(c, p) \/ Fault(c, p) \/ TrapRet(c, p)
    PROVE  FamilyInv'
<1>0. /\ wk[p] = 0 /\ ~ killed[Init1] /\ UNCHANGED <<parent, pid, wk, wchan>> /\ StatesKept
      /\ pc[p] \in {"user", "ret"}
  BY SameStates, Zenon DEF Syscall, Fault, TrapRet, At, table, waking, FamilyInv, InitOK
<1>1. CASE Syscall(c, p)
  <2>1. UNCHANGED killed
    BY <1>1, Zenon DEF Syscall, table
  <2>2. SyscallExit(p) => Goes(p, "exit_begin")
    BY <1>0, <2>1, Zenon DEF SyscallExit, Goto, Goes, Elsewhere
  <2>3. SyscallFork(p) => Goes(p, "fork_scan")
    BY <1>0, <2>1, Zenon DEF SyscallFork, Goto, Loop, Goes, Elsewhere, TypeOK
  <2>4. SyscallWait(p) => Goes(p, "wait_begin")
    BY <1>0, <2>1, Zenon DEF SyscallWait, Goto, Goes, Elsewhere
  <2>5. SyscallSleep(p) => Goes(p, "sleep_begin")
    BY <1>0, <2>1, Zenon DEF SyscallSleep, Goto, Goes, Elsewhere
  <2>6. SyscallKill(p) => Goes(p, "kill_scan")
    BY <1>0, <2>1, KillPidsAssumption DEF SyscallKill, Goto, Loop, Goes, Elsewhere, TypeOK
  <2>7. \/ SyscallExit(p) \/ SyscallFork(p) \/ SyscallWait(p) \/ SyscallSleep(p) \/ SyscallKill(p)
    BY <1>1, Zenon DEF Syscall
  <2> QED
    BY <2>2, <2>3, <2>4, <2>5, <2>6, <2>7, GoesElsewhere, Zenon
<1>2. CASE Fault(c, p)
  <2>1. ~ killed'[Init1]
    BY <1>0, <1>2, SlotFacts, Zenon DEF Fault, TypeOK
  <2>2. Goes(p, "ret")
    BY <1>0, <1>2, <2>1, Zenon DEF Fault, Goto, Goes, Elsewhere, locals
  <2> QED
    BY <2>2, GoesElsewhere, Zenon
<1>3. CASE TrapRet(c, p)
  <2>1. Goes(p, IF killed[p] THEN "exit_begin" ELSE "user")
    BY <1>0, <1>3, Zenon DEF TrapRet, Goto, Goes, Elsewhere, locals, table
  <2> QED
    BY <2>1, GoesElsewhere, Zenon
<1> QED
  BY <1>1, <1>2, <1>3, Zenon

\* fork() up to the release of the new slot, when it takes it or gives up.
LEMMA ForkScanFamily ==
    ASSUME TypeOK, LockInv, FamilyInv, NEW c \in CPUs, NEW p \in Slots, ForkScan(c, p)
    PROVE  FamilyInv'
<1>0. /\ wk[p] = 0 /\ pc[p] = "fork_scan" /\ UNCHANGED <<parent, chan, killed, kpid, wk, wchan>>
      /\ ~ killed[Init1]
  BY Zenon DEF ForkScan, At, waking, FamilyInv, InitOK
<1>1. i[p] \in Slots
  BY <1>0, Zenon DEF LockInv, IndexOK, LoopPCs
<1>2. CASE state[i[p]] = "UNUSED"
  <2>1. i[p] # Init1
    BY <1>2, Zenon DEF FamilyInv, InitOK, DeadStates
  <2>2. pid'[Init1] = pid[Init1]
    BY <1>1, <1>2, <2>1, SlotFacts, Zenon DEF ForkScan, TypeOK
  <2>3. StatesKept
    BY <1>0, <1>1, <1>2, Zenon DEF ForkScan, StatesKept, DeadStates, TypeOK
  <2>4. Goes(p, "fork_ctime")
    BY <1>0, <1>2, <2>2, <2>3, Zenon DEF ForkScan, Goto, Goes, Elsewhere
  <2> QED
    BY <2>4, GoesElsewhere, Zenon
<1>3. CASE state[i[p]] # "UNUSED"
  <2>1. StatesKept /\ UNCHANGED pid /\ \A q \in Slots : q # p => i'[q] = i[q]
    BY <1>0, <1>3, SameStates, Zenon DEF ForkScan, Loop, TypeOK
  <2>2. PICK l \in {"ret", "fork_scan"} : pc' = [pc EXCEPT ![p] = l]
    BY <1>0, <1>3, Zenon DEF ForkScan, Goto, TypeOK
  <2>3. Goes(p, l)
    BY <1>0, <2>1, <2>2, Zenon DEF Goes, Elsewhere
  <2> QED
    BY <2>3, GoesElsewhere, Zenon
<1> QED
  BY <1>2, <1>3, Zenon

\* kill(), whoever it finds: it never finds init.
LEMMA KillFamily ==
    ASSUME TypeOK, LockInv, FamilyInv, NEW c \in CPUs, NEW p \in Slots, KillScan(c, p)
    PROVE  FamilyInv'
<1>0. /\ wk[p] = 0 /\ pc[p] = "kill_scan" /\ kpid[p] # 1
      /\ UNCHANGED <<pid, parent, chan, wk, wchan>>
  BY Zenon DEF KillScan, At, waking, FamilyInv, InitOK
<1>1. i[p] \in Slots
  BY <1>0, Zenon DEF LockInv, IndexOK, LoopPCs
<1>2. \A s \in Slots : \/ state'[s] = state[s]
                       \/ state[s] = "SLEEPING" /\ state'[s] = "RUNNABLE"
  BY <1>1, Zenon DEF KillScan, KillSlot, TypeOK
<1>3. StatesKept
  BY <1>0, <1>2, Zenon DEF StatesKept, DeadStates
<1>4. ~ killed'[Init1]
  <2>1. pid[Init1] = 1 /\ ~ killed[Init1]
    BY Zenon DEF FamilyInv, InitOK
  <2>2. i[p] = Init1 => UNCHANGED killed
    BY <1>0, <2>1, Zenon DEF KillScan
  <2>3. UNCHANGED killed \/ killed' = [killed EXCEPT ![i[p]] = TRUE]
    BY Zenon DEF KillScan, KillSlot
  <2> QED
    BY <2>1, <2>2, <2>3, SlotFacts, Zenon DEF TypeOK
<1>5. /\ \A q \in Slots : q # p => i'[q] = i[q] /\ kpid'[q] = kpid[q]
      /\ kpid'[p] # 1
  BY <1>0 DEF KillScan, Loop, TypeOK
<1>6. PICK l \in {"ret", "kill_scan"} : pc' = [pc EXCEPT ![p] = l]
  BY <1>0, Zenon DEF KillScan, Goto, TypeOK
<1>7. Goes(p, l)
  BY <1>0, <1>3, <1>4, <1>5, <1>6, Zenon DEF Goes, Elsewhere
<1> QED
  BY <1>7, GoesElsewhere, Zenon

\* sys_sleep(): its channel is nobody's slot.
LEMMA SleepFamily ==
    ASSUME TypeOK, LockInv, FamilyInv, NEW c \in CPUs, NEW p \in Slots,
           SleepBegin(c, p) \/ SleepReturn(c, p) \/ SleepDecide(c, p) \/ SleepSleep(c, p)
    PROVE  FamilyInv'
<1>0. /\ wk[p] = 0 /\ UNCHANGED <<pid, parent, killed, i, kpid, wk, wchan>> /\ ~ killed[Init1]
      /\ proc[c] = p /\ sw[p] = "no" /\ pc[p] # "exit_ttime"
  BY Zenon DEF SleepBegin, SleepReturn, SleepDecide, SleepSleep, At, table, locals, waking, FamilyInv, InitOK
<1>1. StatesKept
  <2>1. CASE UNCHANGED <<state, chan>>
    BY <2>1, SameStates, Zenon
  <2>2. CASE SleepSleep(c, p)
    <3>1. state[p] = "RUNNING"
      BY <1>0, OnCpu, Zenon
    <3>2. state'[p] = "SLEEPING" /\ chan'[p] = TicksChan
      BY <2>2, Zenon DEF SleepSleep, Sleep, TypeOK
    <3>3. \A q \in Slots : q # p => state'[q] = state[q] /\ chan'[q] = chan[q]
      BY <2>2, Zenon DEF SleepSleep, Sleep, TypeOK
    <3> QED
      BY <3>1, <3>2, <3>3, SlotFacts, Zenon DEF StatesKept, DeadStates
  <2> QED
    BY <2>1, <2>2, Zenon DEF SleepBegin, SleepReturn, SleepDecide, table
<1>2. PICK l \in {"sleep_loop", "ret", "sleep_sleep", "sleep_begin"} : pc' = [pc EXCEPT ![p] = l]
  BY Zenon DEF SleepBegin, SleepReturn, SleepDecide, SleepSleep, Sleep, Goto
<1>3. Goes(p, l)
  BY <1>0, <1>1, <1>2, Zenon DEF Goes, Elsewhere
<1> QED
  BY <1>3, GoesElsewhere, Zenon

\* The steps that enter or leave a critical section of wait_lock.
LEMMA EnterLeaveFamily ==
    ASSUME TypeOK, LockInv, FamilyInv, NEW c \in CPUs, NEW p \in Slots,
           ExitBegin(c, p) \/ ExitSched(c, p) \/ WaitBegin(c, p) \/ WaitReturn(c, p)
    PROVE  FamilyInv'
<1>0. wk[p] = 0 /\ UNCHANGED <<parent, pid, killed, wk, wchan, kpid>> /\ StatesKept
  BY SameStates, Zenon DEF ExitBegin, ExitSched, WaitBegin, WaitReturn, At, table, locals, waking
<1>1. \A q \in Slots : q # p => pc'[q] = pc[q] /\ i'[q] = i[q]
  BY Zenon DEF ExitBegin, ExitSched, WaitBegin, WaitReturn, Goto, Loop, locals, TypeOK
<1>2. \/ pc[p] = "exit_begin" /\ pc'[p] = "exit_reparent" /\ i'[p] = 1
      \/ pc'[p] = pc[p] /\ i'[p] = i[p]
      \/ pc'[p] = "wait_scan" /\ i'[p] = 1
      \/ pc'[p] = "ret"
  BY Zenon DEF ExitBegin, ExitSched, WaitBegin, WaitReturn, At, Goto, Loop, locals, TypeOK
<1>3. OthersKept(p)
  BY <1>0, <1>1, Zenon DEF OthersKept
<1>4. PlaceKept(p)
  BY <1>0, <1>2, Zenon DEF PlaceKept, GonePCs
<1>5. InitKept
  BY <1>0, <1>1, <1>2, SlotFacts DEF InitKept, FamilyInv, InitOK, ExitPCs
<1> QED
  BY <1>0, <1>3, <1>4, <1>5, KeepsFamily, Zenon DEF Keeps

\* Steps of scheduler(), of swtch() and of the timer, which move no thread.
LEMMA IdleFamily ==
    ASSUME TypeOK, LockInv, FamilyInv, UNCHANGED <<parent, pid, killed, pc, i, kpid, wk, wchan>>,
           StatesKept
    PROVE  FamilyInv'
<1>1. InitKept /\ OthersKept(Init1) /\ PlaceKept(Init1)
  BY SlotFacts, Zenon DEF InitKept, OthersKept, PlaceKept, FamilyInv, InitOK
<1> QED
  BY <1>1, SlotFacts, KeepsFamily, Zenon DEF Keeps

\* scheduler(), the return of swtch() on either side, and clockintr().
LEMMA SwitchFamily ==
    ASSUME TypeOK, LockInv, FamilyInv, NEW c \in CPUs, NEW p \in Slots,
           \/ Dispatch(c) \/ Resume(c, p) \/ SwitchOut(c, p)
           \/ ClockStart \/ ClockCount \/ ClockWake \/ ClockEnd
    PROVE  FamilyInv'
<1>0. UNCHANGED <<parent, pid, killed, pc, i, kpid, wk, wchan>>
  BY Zenon DEF Dispatch, Resume, SwitchOut, ClockStart, ClockCount, ClockWake, ClockEnd, table, locals, waking
<1>1. StatesKept
  <2>1. CASE UNCHANGED <<state, chan>>
    BY <2>1, SameStates, Zenon
  <2>2. CASE Dispatch(c)
    <3>1. scan[c] \in Slots
      BY Zenon DEF TypeOK
    <3>2. chan' = chan /\ \A s \in Slots :
             state'[s] = state[s] \/ (state[s] = "RUNNABLE" /\ state'[s] = "RUNNING")
      BY <2>2, <3>1, Zenon DEF Dispatch, Runnable, TypeOK
    <3> QED
      BY <3>2, Zenon DEF StatesKept, DeadStates
  <2>3. CASE Resume(c, p)
    <3>1. state' = state /\ state[p] = "RUNNING" /\ \A s \in Slots : s # p => chan'[s] = chan[s]
      BY <2>3, Zenon DEF Resume, TypeOK
    <3> QED
      BY <3>1, Zenon DEF StatesKept
  <2>4. CASE ClockWake
    <3>1. chan' = chan /\ \A s \in Slots :
             state'[s] = state[s] \/ (state[s] = "SLEEPING" /\ state'[s] = "RUNNABLE")
      BY <2>4, Zenon DEF ClockWake, WakeSlot, TypeOK
    <3> QED
      BY <3>1, Zenon DEF StatesKept, DeadStates
  <2> QED
    BY <2>1, <2>2, <2>3, <2>4, Zenon DEF SwitchOut, ClockStart, ClockCount, ClockEnd, table
<1> QED
  BY <1>0, <1>1, IdleFamily, Zenon

\* The timer interrupt's return: a killed process in user mode exits, which
\* init never is; another may yield.
LEMMA TimerFamily ==
    ASSUME TypeOK, LockInv, FamilyInv, NEW c \in CPUs, TimerTail(c)
    PROVE  FamilyInv'
<1>0. UNCHANGED <<parent, pid, chan, killed, i, kpid, wk, wchan>> /\ HoldsNone(c) /\ ~ killed[Init1]
  BY Zenon DEF TimerTail, locals, waking, FamilyInv, InitOK
<1>1. CASE Dying(proc[c]) /\ Goto(proc[c], "exit_begin") /\ UNCHANGED <<plock, state, sw>>
  <2>1. proc[c] \in Slots /\ pc[proc[c]] = "user" /\ proc[c] # Init1
    BY <1>0, <1>1, SlotFacts, Zenon DEF Dying, TypeOK
  <2>2. wk[proc[c]] = 0
    BY <2>1, Zenon DEF LockInv, ThreadOK, WakingPCs
  <2>3. StatesKept
    BY <1>0, <1>1, SameStates, Zenon
  <2>4. Goes(proc[c], "exit_begin")
    BY <1>0, <1>1, <2>1, <2>2, <2>3, Zenon DEF Goes, Goto, Elsewhere
  <2> QED
    BY <2>1, <2>4, GoesElsewhere, Zenon
<1>2. CASE UNCHANGED <<plock, state, sw, pc>>
  <2>1. StatesKept
    BY <1>0, <1>2, SameStates, Zenon
  <2> QED
    BY <1>0, <1>2, <2>1, IdleFamily, Zenon
<1>3. CASE proc[c] # NoProc /\ Yield(c, proc[c]) /\ UNCHANGED pc
  <2>1. proc[c] \in Slots
    BY <1>3, Zenon DEF TypeOK
  <2>2. state[proc[c]] = "RUNNING"
    <3>1. plock[proc[c]] # c
      BY <1>0, <2>1, Zenon DEF HoldsNone
    <3> QED
      BY <2>1, <3>1, Zenon DEF LockInv, CurrentOK
  <2>3. \A s \in Slots : state'[s] = IF s = proc[c] THEN "RUNNABLE" ELSE state[s]
    BY <1>3, <2>1, Zenon DEF Yield, TypeOK
  <2>4. StatesKept
    BY <1>0, <2>2, <2>3, Zenon DEF StatesKept, DeadStates
  <2> QED
    BY <1>0, <1>3, <2>4, IdleFamily, Zenon
<1> QED
  BY <1>1, <1>2, <1>3, Zenon DEF TimerTail

-----------------------------------------------------------------------------
(***************************************************************************)
(* The steps that link, free or start a child.                             *)
(***************************************************************************)
\* The slot that a fork() is filling belongs to it alone.
LEMMA ForkSlot ==
    ASSUME TypeOK, LockInv, FamilyInv, NEW p \in Slots, pc[p] \in ForkPCs
    PROVE  /\ i[p] \in Slots /\ state[i[p]] = "USED" /\ pc[i[p]] = "none" /\ i[p] # Init1
           /\ \A q \in Slots : pc[q] \in ForkPCs /\ i[q] = i[p] => q = p
<1>1. i[p] \in Slots
  BY Zenon DEF LockInv, IndexOK, LoopPCs
<1> QED
  BY <1>1 DEF LockInv, ForkOK, ThreadOK, FamilyInv, InitOK, DeadStates

\* Freeing a slot that has no thread, or a zombie's, leaves nobody waiting:
\* what the invariant needs when slot s becomes UNUSED and p moves to "ret".
Frees(p, s) ==
    /\ s # Init1 /\ s # p /\ state[s] \in {"USED", "ZOMBIE"}
    /\ wk[p] = 0 /\ pc[p] \in {"fork_ctime", "wait_scan"}
    /\ pc'[p] = "ret" /\ pc'[s] \in {pc[s], "none"}
    /\ pid'[Init1] = pid[Init1] /\ killed'[Init1] = killed[Init1]
    /\ UNCHANGED <<wk, wchan, kpid>>
    /\ parent'[s] = NoProc /\ state'[s] = "UNUSED"
    /\ \A q \in Slots : q # s => parent'[q] = parent[q] /\ state'[q] = state[q] /\ chan'[q] = chan[q]
    /\ \A q \in Slots : q \notin {s, p} => pc'[q] = pc[q] /\ i'[q] = i[q]
    /\ i'[s] = i[s]
    /\ \A q \in Slots : pc[q] = "fork_run" => i[q] # s

\* freeproc() of a slot whose process is gone keeps the family.
LEMMA FreesFamily ==
    ASSUME TypeOK, LockInv, FamilyInv, NEW p \in Slots, NEW s \in Slots, Frees(p, s)
    PROVE  FamilyInv'
<1>0. pc[s] \in {"none", "exit_ttime"} /\ state[s] \in DeadStates
  BY Zenon DEF Frees, LockInv, ThreadOK, DeadStates
<1>1. \A q \in Slots : \/ pc'[q] = pc[q] /\ i'[q] = i[q]
                       \/ pc'[q] \in {"ret", "none"}
  BY Zenon DEF Frees
<1>2. InitOK'
  <2>1. pc'[Init1] \notin ExitPCs
    BY <1>1, SlotFacts, Zenon DEF ExitPCs, FamilyInv, InitOK
  <2>2. \A q \in Slots : pc'[q] = "kill_scan" => kpid'[q] # 1
    BY <1>1, Zenon DEF Frees, FamilyInv, InitOK
  <2> QED
    BY <2>1, <2>2, SlotFacts, Zenon DEF Frees, FamilyInv, InitOK
<1>3. \A q, x \in Slots : parent'[x] = q => x # s /\ parent[x] = q /\ q # s
  BY <1>0, SlotFacts DEF Frees, FamilyInv, ParentOK
<1>4. ChildlessOK'
  BY <1>1, <1>3, Zenon DEF FamilyInv, ChildlessOK, GonePCs
<1>5. ParentOK'
  <2>1. \A q, x \in Slots : parent'[x] = q => state'[q] \notin DeadStates
    BY <1>3 DEF Frees, FamilyInv, ParentOK
  <2>2. \A x \in Slots \ {Init1} : state'[x] \notin {"UNUSED", "USED"} => parent'[x] # NoProc
    BY Zenon DEF Frees, FamilyInv, ParentOK
  <2>3. \A q, x \in Slots : pc'[q] = "fork_run" /\ i'[q] = x => parent'[x] # NoProc
    BY <1>1 DEF Frees, FamilyInv, ParentOK
  <2> QED
    BY <2>1, <2>2, <2>3, Zenon DEF ParentOK
<1>6. ScanOK'
  BY <1>1, <1>3 DEF Frees, FamilyInv, ScanOK
<1>7. WakeOK'
  <2>1. \A q \in Slots : InWait(q)' => InWait(q)
    BY Zenon DEF Frees, InWait
  <2>2. \A r, q \in Slots : WillWake(r, q) => WillWake(r, q)'
    BY <1>0, Zenon DEF Frees, WillWake, WakingPCs
  <2>3. \A q, x \in Slots : parent'[x] = q /\ state'[x] = "ZOMBIE" =>
           parent[x] = q /\ state[x] = "ZOMBIE"
    BY <1>3, Zenon DEF Frees
  <2>4. \A r, q \in Slots : pc'[r] = "exit_zombie" /\ parent'[r] = q =>
           pc[r] = "exit_zombie" /\ parent[r] = q
    BY <1>1, <1>3, Zenon
  <2> QED
    BY <2>1, <2>2, <2>3, <2>4 DEF FamilyInv, WakeOK
<1> QED
  BY <1>2, <1>4, <1>5, <1>6, <1>7, Zenon DEF FamilyInv

\* fork() after it has copied the parent, or has run out of memory.
LEMMA ForkCopyFamily ==
    ASSUME TypeOK, LockInv, FamilyInv, NEW c \in CPUs, NEW p \in Slots, ForkCopy(c, p)
    PROVE  FamilyInv'
<1>0. /\ wk[p] = 0 /\ pc[p] = "fork_ctime" /\ proc[c] = p /\ sw[p] = "no"
      /\ UNCHANGED <<kpid, wk, wchan>>
  BY Zenon DEF ForkCopy, At, waking
<1>1. /\ i[p] \in Slots /\ state[i[p]] = "USED" /\ i[p] # Init1
      /\ \A q \in Slots : pc[q] \in ForkPCs /\ i[q] = i[p] => q = p
  BY <1>0, ForkSlot, Zenon DEF ForkPCs
<1>2. state[p] = "RUNNING"
  BY <1>0, OnCpu, Zenon
<1>3. CASE Goto(p, "fork_parent") /\ UNCHANGED <<state, pid, parent, chan, killed, i>>
  <2>1. Goes(p, "fork_parent")
    BY <1>0, <1>3, SameStates, Zenon DEF Goes, Goto, Elsewhere, FamilyInv, InitOK
  <2> QED
    BY <2>1, GoesElsewhere, Zenon
<1>4. CASE FreeProc(i[p]) /\ Goto(p, "ret") /\ Loop(p, 0)
  <2>1. /\ \A q \in Slots : q # i[p] =>
              /\ parent'[q] = parent[q] /\ state'[q] = state[q] /\ chan'[q] = chan[q]
              /\ pid'[q] = pid[q] /\ killed'[q] = killed[q]
        /\ parent'[i[p]] = NoProc /\ state'[i[p]] = "UNUSED"
    BY <1>1, <1>4, Zenon DEF FreeProc, TypeOK
  <2>2. pc'[p] = "ret" /\ \A q \in Slots : q # p => pc'[q] = pc[q] /\ i'[q] = i[q]
    BY <1>4, Zenon DEF Goto, Loop, TypeOK
  <2>3. i[p] # p
    BY <1>1, <1>2, Zenon
  <2>4. \A q \in Slots : pc[q] = "fork_run" => i[q] # i[p]
    BY <1>0, <1>1, Zenon DEF ForkPCs
  <2>5. Frees(p, i[p])
    BY <1>0, <1>1, <2>1, <2>2, <2>3, <2>4, SlotFacts DEF Frees
  <2> QED
    BY <1>1, <2>5, FreesFamily, Zenon
<1> QED
  BY <1>3, <1>4, Zenon DEF ForkCopy

\* fork() links the child to its parent, under wait_lock.
LEMMA ForkParentFamily ==
    ASSUME TypeOK, LockInv, FamilyInv, NEW c \in CPUs, NEW p \in Slots, ForkParent(c, p)
    PROVE  FamilyInv'
<1>0. /\ wk[p] = 0 /\ pc[p] = "fork_parent" /\ proc[c] = p /\ sw[p] = "no" /\ wait_lock = Free
      /\ UNCHANGED <<state, pid, chan, killed, i, kpid, wk, wchan>>
  BY Zenon DEF ForkParent, At, locals, waking
<1>1. /\ i[p] \in Slots /\ state[i[p]] = "USED" /\ pc[i[p]] = "none" /\ i[p] # Init1
      /\ \A q \in Slots : pc[q] \in ForkPCs /\ i[q] = i[p] => q = p
  BY <1>0, ForkSlot, Zenon DEF ForkPCs
<1>2. state[p] = "RUNNING"
  BY <1>0, OnCpu, Zenon
<1>3. pc'[p] = "fork_run" /\ \A q \in Slots : q # p => pc'[q] = pc[q]
  BY Zenon DEF ForkParent, Goto, TypeOK
<1>4. parent'[i[p]] = p /\ \A s \in Slots : s # i[p] => parent'[s] = parent[s]
  BY <1>1, Zenon DEF ForkParent, TypeOK
<1>5. InitOK'
  BY <1>0, <1>1, <1>3, <1>4, SlotFacts DEF FamilyInv, InitOK, ExitPCs
<1>6. ChildlessOK'
  BY <1>0, <1>3, <1>4 DEF FamilyInv, ChildlessOK, GonePCs
<1>7. ParentOK'
  <2>1. \A q, x \in Slots : parent'[x] = q => state'[q] \notin DeadStates
    BY <1>0, <1>2, <1>4, Zenon DEF FamilyInv, ParentOK, DeadStates
  <2>2. \A x \in Slots \ {Init1} : state'[x] \notin {"UNUSED", "USED"} => parent'[x] # NoProc
    BY <1>0, <1>4, SlotFacts DEF FamilyInv, ParentOK
  <2>3. \A q, x \in Slots : pc'[q] = "fork_run" /\ i'[q] = x => parent'[x] # NoProc
    BY <1>0, <1>3, <1>4, SlotFacts DEF FamilyInv, ParentOK
  <2> QED
    BY <2>1, <2>2, <2>3, Zenon DEF ParentOK
<1>8. ScanOK'
  BY <1>0, <1>1, <1>3, <1>4, SMTT(30) DEF FamilyInv, ScanOK
<1>9. WakeOK'
  <2>1. \A q \in Slots : InWait(q)' <=> InWait(q)
    BY <1>0, Zenon DEF InWait
  <2>2. \A r, q \in Slots : WillWake(r, q) => WillWake(r, q)'
    BY <1>0, <1>3, Zenon DEF WillWake, WakingPCs
  <2> QED
    BY <1>0, <1>1, <1>3, <1>4, <2>1, <2>2 DEF FamilyInv, WakeOK
<1> QED
  BY <1>5, <1>6, <1>7, <1>8, <1>9, Zenon DEF FamilyInv

\* fork() makes the child RUNNABLE.
LEMMA ForkRunFamily ==
    ASSUME TypeOK, LockInv, FamilyInv, NEW c \in CPUs, NEW p \in Slots, ForkRun(c, p)
    PROVE  FamilyInv'
<1>0. /\ wk[p] = 0 /\ pc[p] = "fork_run" /\ proc[c] = p /\ sw[p] = "no"
      /\ UNCHANGED <<parent, pid, chan, killed, kpid, wk, wchan>>
  BY Zenon DEF ForkRun, At, waking
<1>1. /\ i[p] \in Slots /\ state[i[p]] = "USED" /\ pc[i[p]] = "none" /\ i[p] # Init1
      /\ \A q \in Slots : pc[q] \in ForkPCs /\ i[q] = i[p] => q = p
  BY <1>0, ForkSlot, Zenon DEF ForkPCs
<1>2. i[p] # p
  BY <1>0, <1>1, Zenon
<1>3. /\ pc'[p] = "ret" /\ pc'[i[p]] = "user" /\ i'[i[p]] = i[i[p]]
      /\ \A q \in Slots : q \notin {p, i[p]} => pc'[q] = pc[q] /\ i'[q] = i[q]
  BY <1>1, <1>2, Zenon DEF ForkRun, Loop, TypeOK
<1>4. state'[i[p]] = "RUNNABLE" /\ \A s \in Slots : s # i[p] => state'[s] = state[s]
  BY <1>1, Zenon DEF ForkRun, TypeOK
<1>5. \A q \in Slots : \/ pc'[q] = pc[q] /\ i'[q] = i[q]
                       \/ pc'[q] \in {"ret", "user"}
  BY <1>3, Zenon
<1>6. InitOK'
  <2>1. pc'[Init1] \notin ExitPCs /\ \A q \in Slots : pc'[q] = "kill_scan" => kpid'[q] # 1
    BY <1>0, <1>5, SlotFacts DEF FamilyInv, InitOK, ExitPCs
  <2> QED
    BY <1>0, <1>1, <1>4, <2>1, SlotFacts, Zenon DEF FamilyInv, InitOK
<1>7. ChildlessOK'
  BY <1>0, <1>5, Zenon DEF FamilyInv, ChildlessOK, GonePCs
<1>8. ParentOK'
  <2>1. \A q, x \in Slots : parent'[x] = q => state'[q] \notin DeadStates
    BY <1>0, <1>4, Zenon DEF FamilyInv, ParentOK, DeadStates
  <2>2. \A x \in Slots \ {Init1} : state'[x] \notin {"UNUSED", "USED"} => parent'[x] # NoProc
    BY <1>0, <1>1, <1>4, Zenon DEF FamilyInv, ParentOK
  <2>3. \A q, x \in Slots : pc'[q] = "fork_run" /\ i'[q] = x => parent'[x] # NoProc
    BY <1>0, <1>5, Zenon DEF FamilyInv, ParentOK
  <2> QED
    BY <2>1, <2>2, <2>3, Zenon DEF ParentOK
<1>9. ScanOK'
  BY <1>0, <1>4, <1>5 DEF FamilyInv, ScanOK
<1>10. WakeOK'
  <2>1. \A q \in Slots : InWait(q)' => InWait(q)
    BY <1>0, <1>4, Zenon DEF InWait
  <2>2. \A r, q \in Slots : WillWake(r, q) => WillWake(r, q)'
    BY <1>0, <1>1, <1>3, Zenon DEF WillWake, WakingPCs
  <2> QED
    BY <1>0, <1>4, <1>5, <2>1, <2>2 DEF FamilyInv, WakeOK
<1> QED
  BY <1>6, <1>7, <1>8, <1>9, <1>10, Zenon DEF FamilyInv

-----------------------------------------------------------------------------
(***************************************************************************)
(* exit(): the children go to init, the parent is woken, and only then is  *)
(* the process a zombie.                                                   *)
(***************************************************************************)
\* One slot of wakeup(): a sleeper it passes is awake.
LEMMA WakeupFamily ==
    ASSUME TypeOK, LockInv, FamilyInv, NEW c \in CPUs, NEW p \in Slots, Wakeup(c, p)
    PROVE  FamilyInv'
<1>0. /\ proc[c] = p /\ sw[p] = "no" /\ wk[p] # 0
      /\ UNCHANGED <<parent, pid, chan, killed, pc, i, kpid>>
  BY Zenon DEF Wakeup, locals
<1>1. wk[p] \in Slots /\ pc[p] \in WakingPCs
  BY <1>0 DEF TypeOK, LockInv, ThreadOK
<1>2. state[p] = "RUNNING"
  BY <1>0, <1>1, OnCpu, Zenon DEF WakingPCs
<1>3. \A s \in Slots : \/ state'[s] = state[s]
                       \/ state[s] = "SLEEPING" /\ state'[s] = "RUNNABLE"
  BY <1>1, Zenon DEF Wakeup, WakeSlot, TypeOK
<1>4. wk[p] # p /\ state[wk[p]] = "SLEEPING" /\ chan[wk[p]] = wchan[p] => state'[wk[p]] = "RUNNABLE"
  BY <1>1, Zenon DEF Wakeup, WakeSlot, TypeOK
<1>5. \A r \in Slots : r # p => wk'[r] = wk[r] /\ wchan'[r] = wchan[r]
  BY Zenon DEF Wakeup, TypeOK
<1>6. wk[p] # NPROC => wk'[p] = wk[p] + 1 /\ wchan'[p] = wchan[p]
  BY Zenon DEF Wakeup, TypeOK
<1>7. \A q \in Slots : InWait(q)' => InWait(q)
  BY <1>0, <1>3, Zenon DEF InWait
<1>8. \A r, q \in Slots : WillWake(r, q) /\ InWait(q)' => WillWake(r, q)'
  <2> SUFFICES ASSUME NEW r \in Slots, NEW q \in Slots, WillWake(r, q), InWait(q)'
               PROVE  WillWake(r, q)'
    OBVIOUS
  <2>1. CASE r # p
    BY <1>0, <1>5, <2>1, Zenon DEF WillWake
  <2>2. CASE r = p
    <3>1. wk[p] # q
      BY <1>2, <1>4, <1>7, <2>2, Zenon DEF WillWake, InWait
    <3>2. wk[p] < q /\ wk[p] # NPROC
      BY <1>1, <2>2, <3>1, SlotOrder, Zenon DEF WillWake
    <3>3. wk[p] + 1 <= q /\ wk[p] + 1 # 0
      BY <1>1, <2>2, <3>1, SlotOrder, Zenon DEF WillWake
    <3> QED
      BY <1>0, <1>6, <2>2, <3>2, <3>3, Zenon DEF WillWake
  <2> QED
    BY <2>1, <2>2, Zenon
<1>9. InitOK' /\ ChildlessOK'
  BY <1>0, <1>3, SlotFacts, Zenon DEF FamilyInv, InitOK, ChildlessOK, DeadStates
<1>10. ParentOK'
  BY <1>0, <1>3, Zenon DEF FamilyInv, ParentOK, DeadStates
<1>11. ScanOK'
  BY <1>0, <1>3, Zenon DEF FamilyInv, ScanOK
<1>12. WakeOK'
  BY <1>0, <1>3, <1>7, <1>8 DEF FamilyInv, WakeOK
<1> QED
  BY <1>9, <1>10, <1>11, <1>12, Zenon DEF FamilyInv

\* One slot of reparent(): an abandoned zombie gets init, and init a wakeup().
LEMMA ExitReparentFamily ==
    ASSUME TypeOK, LockInv, FamilyInv, NEW c \in CPUs, NEW p \in Slots, ExitReparent(c, p)
    PROVE  FamilyInv'
<1>0. /\ wk[p] = 0 /\ pc[p] = "exit_reparent"
      /\ UNCHANGED <<state, pid, chan, killed, kpid>>
  BY Zenon DEF ExitReparent, At
<1>1. i[p] \in Slots /\ p # Init1
  BY <1>0, Zenon DEF LockInv, IndexOK, LoopPCs, FamilyInv, InitOK, ExitPCs
<1>2. \A q \in Slots : pc[q] \in WaitPCs \ {"exit_ttime"} => q = p
  BY <1>0, WaitLockAlone, Zenon DEF WaitPCs
<1>3. \A q \in Slots : q # p => pc'[q] = pc[q] /\ i'[q] = i[q] /\ wk'[q] = wk[q] /\ wchan'[q] = wchan[q]
  BY DEF ExitReparent, Goto, Loop, StartWakeup, waking, TypeOK
<1>4. \/ pc'[p] = "exit_wake" /\ i[p] = NPROC
      \/ pc'[p] = "exit_reparent" /\ i'[p] = i[p] + 1
  BY <1>0, ZenonT(40) DEF ExitReparent, Goto, Loop, TypeOK
<1>5. /\ \A s \in Slots : s # i[p] => parent'[s] = parent[s]
      /\ parent'[i[p]] = IF parent[i[p]] = p THEN Init1 ELSE parent[i[p]]
      /\ parent[i[p]] = p => wk'[p] = 1 /\ wchan'[p] = Init1
  BY <1>1 DEF ExitReparent, Abandons, StartWakeup, TypeOK
<1>6. InitOK'
  BY <1>0, <1>1, <1>3, <1>4, <1>5, SlotFacts DEF FamilyInv, InitOK
<1>7. ChildlessOK'
  <2>1. \A s \in Slots : s <= i[p] => parent'[s] # p
    <3> SUFFICES ASSUME NEW s \in Slots, s <= i[p] PROVE parent'[s] # p
      OBVIOUS
    <3>1. CASE s = i[p]
      BY <1>1, <1>5, <3>1, Zenon
    <3>2. CASE s # i[p]
      <4>1. s < i[p]
        BY <1>1, <3>2, SlotOrder, Zenon
      <4> QED
        BY <1>0, <1>5, <3>2, <4>1, Zenon DEF FamilyInv, ChildlessOK
    <3> QED
      BY <3>1, <3>2, Zenon
  <2>2. \A s \in Slots : /\ pc'[p] \in GonePCs => parent'[s] # p
                         /\ pc'[p] = "exit_reparent" /\ s < i'[p] => parent'[s] # p
    <3>1. \A s \in Slots : i[p] = NPROC => s <= i[p]
      BY SlotFacts, Zenon
    <3>2. \A s \in Slots : s < i[p] + 1 => s <= i[p]
      BY <1>1, SlotOrder, Zenon
    <3> QED
      BY <1>4, <2>1, <3>1, <3>2, Zenon DEF GonePCs
  <2>3. \A q, s \in Slots : q # p /\ pc[q] \in GonePCs => parent'[s] # q
    BY <1>5 DEF FamilyInv, ChildlessOK, InitOK, GonePCs, ExitPCs
  <2>4. \A q \in Slots : q # p => pc[q] # "exit_reparent"
    BY <1>2, Zenon DEF WaitPCs
  <2> QED
    BY <1>3, <2>2, <2>3, <2>4, Zenon DEF ChildlessOK
<1>8. ParentOK'
  <2>1. \A s \in Slots : parent[s] # NoProc => parent'[s] # NoProc
    BY <1>1, <1>5, SlotFacts, Zenon
  <2>2. \A q, s \in Slots : parent'[s] = q => parent[s] = q \/ q = Init1
    BY <1>5, Zenon
  <2> QED
    BY <1>0, <1>3, <1>4, <2>1, <2>2 DEF FamilyInv, ParentOK, InitOK
<1>9. ScanOK'
  BY <1>2, <1>3, <1>4, Zenon DEF ScanOK, WaitPCs
<1>10. WakeOK'
  <2>1. \A q, s \in Slots : InWait(q)' /\ parent'[s] = q /\ state'[s] = "ZOMBIE" =>
           \E r \in Slots : WillWake(r, q)'
    <3> SUFFICES ASSUME NEW q \in Slots, NEW s \in Slots, InWait(q)', parent'[s] = q, state'[s] = "ZOMBIE"
                 PROVE  \E r \in Slots : WillWake(r, q)'
      OBVIOUS
    <3>1. CASE parent[s] = q
      <4>1. PICK r \in Slots : WillWake(r, q)
        BY <1>0, <3>1, Zenon DEF FamilyInv, WakeOK, InWait
      <4>2. r # p
        BY <1>0, <4>1, Zenon DEF WillWake
      <4> QED
        BY <1>3, <4>1, <4>2, Zenon DEF WillWake
    <3>2. CASE parent[s] # q
      <4>1. s = i[p] /\ parent[s] = p /\ q = Init1
        BY <1>5, <3>2, Zenon
      <4>2. WillWake(p, q)'
        BY <1>4, <1>5, <4>1, SlotFacts, Zenon DEF WillWake, WakingPCs
      <4> QED
        BY <4>2, Zenon
    <3> QED
      BY <3>1, <3>2, Zenon
  <2>2. \A r \in Slots : pc'[r] # "exit_zombie"
    BY <1>2, <1>3, <1>4, Zenon DEF WaitPCs
  <2> QED
    BY <2>1, <2>2, Zenon DEF WakeOK
<1> QED
  BY <1>6, <1>7, <1>8, <1>9, <1>10, Zenon DEF FamilyInv

\* exit() begins to wake its parent.
LEMMA ExitWakeFamily ==
    ASSUME TypeOK, LockInv, FamilyInv, NEW c \in CPUs, NEW p \in Slots, ExitWake(c, p)
    PROVE  FamilyInv'
<1>0. /\ wk[p] = 0 /\ pc[p] = "exit_wake" /\ UNCHANGED <<state, parent, pid, chan, killed, i, kpid>>
  BY Zenon DEF ExitWake, At, table, locals
<1>1. /\ pc'[p] = "exit_zombie" /\ wk'[p] = 1 /\ wchan'[p] = parent[p]
      /\ \A q \in Slots : q # p => pc'[q] = pc[q] /\ wk'[q] = wk[q] /\ wchan'[q] = wchan[q]
  BY Zenon DEF ExitWake, Goto, StartWakeup, TypeOK
<1>2. InitOK' /\ ChildlessOK' /\ ParentOK' /\ ScanOK'
  BY <1>0, <1>1, SlotFacts DEF FamilyInv, InitOK, ChildlessOK, ParentOK, ScanOK, ExitPCs, GonePCs
<1>3. \A r, q \in Slots : WillWake(r, q) => WillWake(r, q)'
  BY <1>0, <1>1, Zenon DEF WillWake
<1>4. \A q \in Slots : parent[p] = q => WillWake(p, q)'
  BY <1>1, SlotFacts, ZenonT(40) DEF WillWake, WakingPCs
<1>5. \A q \in Slots : InWait(q)' <=> InWait(q)
  BY <1>0, Zenon DEF InWait
<1>6. WakeOK'
  BY <1>0, <1>1, <1>3, <1>4, <1>5 DEF FamilyInv, WakeOK
<1> QED
  BY <1>2, <1>6, Zenon DEF FamilyInv

\* exit() makes the process a zombie; its parent has been woken.
LEMMA ExitZombieFamily ==
    ASSUME TypeOK, LockInv, FamilyInv, NEW c \in CPUs, NEW p \in Slots, ExitZombie(c, p)
    PROVE  FamilyInv'
<1>0. /\ wk[p] = 0 /\ pc[p] = "exit_zombie" /\ proc[c] = p /\ sw[p] = "no"
      /\ UNCHANGED <<parent, pid, chan, killed, i, kpid, wk, wchan>>
  BY Zenon DEF ExitZombie, At, locals, waking
<1>1. state[p] = "RUNNING" /\ p # Init1
  BY <1>0, OnCpu, Zenon DEF FamilyInv, InitOK, ExitPCs
<1>2. \A q \in Slots : pc[q] \in WaitPCs \ {"exit_ttime"} => q = p
  BY <1>0, WaitLockAlone, Zenon DEF WaitPCs
<1>3. /\ pc'[p] = "exit_ttime" /\ state'[p] = "ZOMBIE"
      /\ \A q \in Slots : q # p => pc'[q] = pc[q] /\ state'[q] = state[q]
  BY Zenon DEF ExitZombie, Goto, TypeOK
<1>4. InitOK' /\ ChildlessOK'
  BY <1>0, <1>1, <1>3, SlotFacts DEF FamilyInv, InitOK, ChildlessOK, GonePCs
<1>5. ParentOK'
  <2>1. \A s \in Slots : parent[s] # p
    BY <1>0, Zenon DEF FamilyInv, ChildlessOK, GonePCs
  <2> QED
    BY <1>0, <1>1, <1>3, <2>1, Zenon DEF FamilyInv, ParentOK
<1>6. ScanOK'
  BY <1>2, <1>3, Zenon DEF ScanOK, WaitPCs
<1>7. WakeOK'
  <2>1. \A q \in Slots : InWait(q)' => InWait(q)
    BY <1>0, <1>3, Zenon DEF InWait
  <2>2. \A r, q \in Slots : WillWake(r, q) => WillWake(r, q)'
    BY <1>0, <1>3, Zenon DEF WillWake
  <2>3. \A q \in Slots : parent[p] = q => ~ InWait(q)
    BY <1>0, Zenon DEF FamilyInv, WakeOK, WillWake
  <2> QED
    BY <1>0, <1>3, <2>1, <2>2, <2>3, Zenon DEF FamilyInv, WakeOK
<1> QED
  BY <1>4, <1>5, <1>6, <1>7, Zenon DEF FamilyInv

-----------------------------------------------------------------------------
(***************************************************************************)
(* wait(): the scan, the decision to sleep, and sleep().                   *)
(***************************************************************************)
LEMMA WaitScanFamily ==
    ASSUME TypeOK, LockInv, FamilyInv, NEW c \in CPUs, NEW p \in Slots, WaitScan(c, p)
    PROVE  FamilyInv'
<1>0. /\ wk[p] = 0 /\ pc[p] = "wait_scan" /\ proc[c] = p /\ sw[p] = "no"
      /\ UNCHANGED <<kpid, wk, wchan>>
  BY Zenon DEF WaitScan, At, waking
<1>1. i[p] \in Slots
  <2>1. i[p] \in Indices /\ i[p] # 0 /\ i[p] <= NPROC
    BY <1>0, Zenon DEF WaitScan, TypeOK, LockInv, IndexOK
  <2> QED
    BY <2>1, NPROCAssumption DEF Indices, Slots
<1>2. state[p] = "RUNNING"
  BY <1>0, OnCpu, Zenon
<1>3. ASSUME parent[i[p]] = p, state[i[p]] = "ZOMBIE", FreeProc(i[p]),
             pc' = [pc EXCEPT ![p] = "ret", ![i[p]] = "none"], Loop(p, 0)
      PROVE  FamilyInv'
  <2>1. i[p] # p /\ i[p] # Init1
    BY <1>2, <1>3, SlotFacts, Zenon DEF FamilyInv, InitOK
  <2>2. /\ \A q \in Slots : q # i[p] =>
              /\ parent'[q] = parent[q] /\ state'[q] = state[q] /\ chan'[q] = chan[q]
              /\ pid'[q] = pid[q] /\ killed'[q] = killed[q]
        /\ parent'[i[p]] = NoProc /\ state'[i[p]] = "UNUSED"
    BY <1>1, <1>3, Zenon DEF FreeProc, TypeOK
  <2>3. /\ pc'[p] = "ret" /\ pc'[i[p]] = "none" /\ i'[i[p]] = i[i[p]]
        /\ \A q \in Slots : q \notin {p, i[p]} => pc'[q] = pc[q] /\ i'[q] = i[q]
    BY <1>1, <1>3, <2>1, Zenon DEF Loop, TypeOK
  <2>4. \A q \in Slots : pc[q] = "fork_run" => i[q] # i[p]
    BY <1>1, <1>3, Zenon DEF LockInv, ForkOK, ForkPCs
  <2>5. Frees(p, i[p])
    BY <1>0, <1>3, <2>1, <2>2, <2>3, <2>4, SlotFacts, ZenonT(40) DEF Frees
  <2> QED
    BY <1>1, <2>5, FreesFamily, Zenon
<1>4. ASSUME Goto(p, "ret"), UNCHANGED <<state, pid, parent, chan, killed, sw>>, Loop(p, 0)
      PROVE  FamilyInv'
  <2>1. \A q \in Slots : q # p => i'[q] = i[q]
    BY <1>4, Zenon DEF Loop, TypeOK
  <2>2. Goes(p, "ret")
    BY <1>0, <1>4, <2>1, SameStates, Zenon DEF Goes, Goto, Elsewhere, FamilyInv, InitOK
  <2> QED
    BY <2>2, GoesElsewhere, Zenon
<1>5. ASSUME ~ (parent[i[p]] = p /\ state[i[p]] = "ZOMBIE"),
             Loop(p, i[p] + 1), UNCHANGED <<state, pid, parent, chan, killed, pc>>
      PROVE  FamilyInv'
  <2>1. i'[p] = i[p] + 1 /\ \A q \in Slots : q # p => i'[q] = i[q]
    BY <1>5, Zenon DEF Loop, TypeOK
  <2>2. InitOK' /\ ChildlessOK' /\ ParentOK'
    BY <1>0, <1>5, <2>1 DEF FamilyInv, InitOK, ChildlessOK, ParentOK
  <2>3. \A s \in Slots : s < i[p] + 1 => s = i[p] \/ s < i[p]
    BY <1>1, SlotOrder, Zenon
  <2>4. ScanOK'
    BY <1>0, <1>5, <2>1, <2>3 DEF FamilyInv, ScanOK
  <2>5. WakeOK'
    BY <1>0, <1>5 DEF FamilyInv, WakeOK, InWait, WillWake
  <2> QED
    BY <2>2, <2>4, <2>5, Zenon DEF FamilyInv
<1> QED
  BY <1>3, <1>4, <1>5, Zenon DEF WaitScan, WaitReap

\* The loop has met no zombie child, and none can become one meanwhile.
LEMMA WaitDecideFamily ==
    ASSUME TypeOK, LockInv, FamilyInv, NEW c \in CPUs, NEW p \in Slots, WaitDecide(c, p)
    PROVE  FamilyInv'
<1>0. /\ wk[p] = 0 /\ pc[p] = "wait_scan" /\ i[p] = NPROC + 1
      /\ UNCHANGED <<state, parent, pid, chan, killed, kpid, wk, wchan>>
  BY Zenon DEF WaitDecide, At, table, waking
<1>1. pc'[p] = "wait_sleep" /\ \A q \in Slots : q # p => pc'[q] = pc[q] /\ i'[q] = i[q]
  BY Zenon DEF WaitDecide, Goto, Loop, TypeOK
<1>2. InitOK' /\ ChildlessOK' /\ ParentOK'
  BY <1>0, <1>1, SlotFacts DEF FamilyInv, InitOK, ChildlessOK, ParentOK, ExitPCs, GonePCs
<1>3. ScanOK'
  BY <1>0, <1>1, SlotOrder DEF FamilyInv, ScanOK
<1>4. WakeOK'
  BY <1>0, <1>1 DEF FamilyInv, WakeOK, InWait, WillWake, WakingPCs
<1> QED
  BY <1>2, <1>3, <1>4, Zenon DEF FamilyInv

\* wait() falls asleep, and gives wait_lock up, with no zombie child.
LEMMA WaitSleepFamily ==
    ASSUME TypeOK, LockInv, FamilyInv, NEW c \in CPUs, NEW p \in Slots, WaitSleep(c, p)
    PROVE  FamilyInv'
<1>0. /\ wk[p] = 0 /\ pc[p] = "wait_sleep" /\ proc[c] = p /\ sw[p] = "no"
      /\ UNCHANGED <<parent, pid, killed, i, kpid, wk, wchan>>
  BY Zenon DEF WaitSleep, At, locals, waking
<1>1. state[p] = "RUNNING"
  BY <1>0, OnCpu, Zenon
<1>2. \A q \in Slots : pc[q] \in WaitPCs \ {"exit_ttime"} => q = p
  BY <1>0, WaitLockAlone, Zenon DEF WaitPCs
<1>3. /\ pc'[p] = "wait_begin" /\ state'[p] = "SLEEPING"
      /\ \A q \in Slots : q # p => pc'[q] = pc[q] /\ state'[q] = state[q] /\ chan'[q] = chan[q]
  BY Zenon DEF WaitSleep, Sleep, Goto, TypeOK
<1>4. InitOK' /\ ChildlessOK'
  BY <1>0, <1>3, SlotFacts DEF FamilyInv, InitOK, ChildlessOK, ExitPCs, GonePCs, DeadStates
<1>5. ParentOK'
  BY <1>0, <1>1, <1>3, ZenonT(40) DEF FamilyInv, ParentOK, DeadStates
<1>6. ScanOK'
  BY <1>2, <1>3, Zenon DEF ScanOK, WaitPCs
<1>7. WakeOK'
  <2>1. \A s \in Slots : parent[s] = p => state'[s] # "ZOMBIE"
    BY <1>0, <1>3, Zenon DEF FamilyInv, ScanOK
  <2>2. \A r \in Slots : pc'[r] # "exit_zombie"
    BY <1>2, <1>3, <1>0, Zenon DEF WaitPCs
  <2>3. \A q \in Slots : q # p /\ InWait(q)' => InWait(q)
    BY <1>3, Zenon DEF InWait
  <2>4. \A r, q \in Slots : WillWake(r, q) => WillWake(r, q)'
    BY <1>0, <1>3, Zenon DEF WillWake, WakingPCs
  <2> QED
    BY <1>0, <1>3, <2>1, <2>2, <2>3, <2>4 DEF FamilyInv, WakeOK
<1> QED
  BY <1>4, <1>5, <1>6, <1>7, Zenon DEF FamilyInv

-----------------------------------------------------------------------------
\* userinit(): init alone, awake and without a parent.
LEMMA InitFamily == Init => FamilyInv
<1> SUFFICES ASSUME Init PROVE FamilyInv
  OBVIOUS
<1>1. /\ \A s \in Slots : parent[s] = NoProc /\ pc[s] \in {"none", "user"}
      /\ \A s \in Slots : state[s] \notin {"ZOMBIE", "SLEEPING"}
      /\ \A s \in Slots : s # Init1 => state[s] = "UNUSED"
  BY Zenon DEF Init
<1>2. InitOK
  BY <1>1, SlotFacts, Zenon DEF Init, InitOK, DeadStates, ExitPCs
<1>3. ChildlessOK /\ ParentOK /\ ScanOK /\ WakeOK
  BY <1>1, SlotFacts, Zenon DEF ChildlessOK, ParentOK, ScanOK, WakeOK, InWait, GonePCs
<1> QED
  BY <1>2, <1>3, Zenon DEF FamilyInv

\* Every step of the kernel, and every stuttering step, preserves FamilyInv.
LEMMA FamilyStep == TypeOK /\ LockInv /\ FamilyInv /\ [Next]_vars => FamilyInv'
<1> SUFFICES ASSUME TypeOK, LockInv, FamilyInv, [Next]_vars
             PROVE  FamilyInv'
  OBVIOUS
<1>1. CASE UNCHANGED vars
  <2>1. UNCHANGED <<state, parent, pid, chan, killed, pc, i, kpid, wk, wchan>>
    BY <1>1, Zenon DEF vars, table, locals, waking
  <2> QED
    BY <2>1, SameStates, IdleFamily, Zenon
<1>2. ASSUME NEW c \in CPUs, Dispatch(c) \/ TimerTail(c)
      PROVE  FamilyInv'
  BY <1>2, SwitchFamily, TimerFamily, SlotFacts, Zenon
<1>3. ASSUME NEW c \in CPUs, NEW p \in Slots, KernelStep(c, p)
      PROVE  FamilyInv'
  BY <1>3, TrapFamily, WakeupFamily, ForkScanFamily, ForkCopyFamily, ForkParentFamily,
     ForkRunFamily, EnterLeaveFamily, ExitReparentFamily, ExitWakeFamily, ExitZombieFamily,
     WaitScanFamily, WaitDecideFamily, WaitSleepFamily, KillFamily, SleepFamily, Zenon
     DEF KernelStep
<1>4. ASSUME NEW c \in CPUs, NEW p \in Slots, Syscall(c, p) \/ Fault(c, p) \/ Switch(c, p)
      PROVE  FamilyInv'
  BY <1>4, TrapFamily, SwitchFamily, Zenon DEF Switch
<1>5. ASSUME ClockStart \/ Clock
      PROVE  FamilyInv'
  <2>1. 0 \in CPUs
    BY NCPUAssumption DEF CPUs
  <2> QED
    BY <1>5, <2>1, SlotFacts, SwitchFamily, Zenon DEF Clock
<1> QED
  BY <1>1, <1>2, <1>3, <1>4, <1>5, Zenon DEF Next

\* A parent can wait: the first conjunct of ParentOK and the second say it.
LEMMA FamilyParents == TypeOK /\ FamilyInv => ParentAlive
<1> SUFFICES ASSUME TypeOK, FamilyInv, NEW s \in Slots \ {Init1},
                    state[s] \in {"SLEEPING", "RUNNABLE", "RUNNING", "ZOMBIE"}
             PROVE  parent[s] # NoProc /\ state[parent[s]] \notin {"UNUSED", "USED", "ZOMBIE"}
  BY Zenon DEF ParentAlive
<1>1. parent[s] # NoProc
  BY Zenon DEF FamilyInv, ParentOK
<1>2. parent[s] \in Slots
  BY <1>1 DEF TypeOK
<1> QED
  BY <1>1, <1>2, Zenon DEF FamilyInv, ParentOK, DeadStates

\* While wait_lock is free no wakeup() of exit() is under way.
LEMMA FamilyAwake == TypeOK /\ LockInv /\ FamilyInv => NoLostExit
<1> SUFFICES ASSUME TypeOK, LockInv, FamilyInv, wait_lock = Free, NEW p \in Slots, NEW s \in Slots,
                    state[p] = "SLEEPING", chan[p] = p, parent[s] = p, state[s] = "ZOMBIE"
             PROVE  FALSE
  BY Zenon DEF NoLostExit
<1>1. PICK r \in Slots : WillWake(r, p)
  BY Zenon DEF FamilyInv, WakeOK, InWait
<1>2. pc[r] \in WaitPCs \ {"exit_ttime"}
  BY <1>1, Zenon DEF WillWake, WakingPCs, WaitPCs
<1> QED
  BY <1>2, WaitLockFree, Zenon
=============================================================================
