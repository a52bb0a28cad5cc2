------------------------------ MODULE ProcInv -------------------------------
(***************************************************************************)
(* The inductive invariant behind the safety properties of Proc: which     *)
(* locks a kernel thread holds is a function of where it stands, and only  *)
(* the thread that is current on a CPU can hold a lock on its behalf.      *)
(***************************************************************************)
EXTENDS Proc

WaitPCs == {"exit_reparent", "exit_wake", "exit_zombie", "exit_ttime", "wait_scan", "wait_sleep"}
TickPCs == {"sleep_loop", "sleep_sleep"}
WakingPCs == {"exit_reparent", "exit_wake", "exit_zombie"}
ForkPCs == {"fork_ctime", "fork_parent", "fork_run"}
LockedPCs == WaitPCs \cup TickPCs \cup {"fork_ctime"}
LoopPCs == ForkPCs \cup {"fork_scan", "exit_reparent", "kill_scan"}

IndexOK == \A p \in Slots :
    /\ pc[p] \in LoopPCs => i[p] \in Slots
    /\ pc[p] = "wait_scan" => i[p] # 0

\* A thread off its CPU is inside sched() and left no lock behind.
ThreadOK == \A p \in Slots :
    /\ state[p] \in {"UNUSED", "USED"} <=> pc[p] = "none"
    /\ state[p] = "ZOMBIE" <=> pc[p] = "exit_ttime"
    /\ pc[p] = "none" => sw[p] = "no"
    /\ state[p] \in {"RUNNABLE", "SLEEPING"} => sw[p] # "no"
    /\ sw[p] \in {"first", "yield", "sleep"} => pc[p] \notin LockedPCs
    /\ sw[p] = "exit" => pc[p] = "exit_ttime"
    /\ wk[p] # 0 => sw[p] = "no" /\ pc[p] \in WakingPCs
    /\ state[p] = "RUNNING" => \E c \in CPUs : proc[c] = p

\* The locks that the thread current on a CPU must hold.
CurrentOK == \A c \in CPUs, p \in Slots : proc[c] = p =>
    /\ pc[p] # "none"
    /\ state[p] # "RUNNING" \/ sw[p] # "no" => plock[p] = c
    /\ sw[p] = "no" /\ pc[p] \in WaitPCs => wait_lock = c
    /\ sw[p] = "no" /\ pc[p] \in TickPCs => tickslock = c
    /\ sw[p] = "no" /\ pc[p] = "fork_ctime" => \A s \in Slots : i[p] = s => plock[s] = c

UniqueOK == \A c, d \in CPUs, p \in Slots : proc[c] = p /\ proc[d] = p => c = d

\* Conversely, why a lock that is held is held.
PlockOK == \A c \in CPUs, s \in Slots : plock[s] = c =>
    /\ proc[c] # NoProc
    /\ \A p \in Slots : proc[c] = p =>
          \/ s = p /\ (sw[p] # "no" \/ pc[p] = "exit_ttime")
          \/ sw[p] = "no" /\ pc[p] = "fork_ctime" /\ i[p] = s

WaitLockOK == \A c \in CPUs : wait_lock = c =>
    /\ proc[c] # NoProc
    /\ \A p \in Slots : proc[c] = p => sw[p] = "no" /\ pc[p] \in WaitPCs

TicksLockOK == \A c \in CPUs : tickslock = c =>
    \/ c = 0 /\ clk # 0 /\ clk # ClockTail
    \/ /\ proc[c] # NoProc
       /\ \A p \in Slots : proc[c] = p => sw[p] = "no" /\ pc[p] \in TickPCs

\* clockintr() interrupts a CPU that holds no lock.
ClockOK ==
    /\ clk # 0 => \A p \in Slots : proc[0] = p => sw[p] = "no" /\ pc[p] \notin LockedPCs
    /\ clk # 0 /\ clk # ClockTail => tickslock = 0

\* A slot that fork() is filling belongs to one fork().
ForkOK ==
    /\ \A p, s \in Slots : pc[p] \in ForkPCs /\ i[p] = s => state[s] = "USED"
    /\ \A p, q, s \in Slots :
          pc[p] \in ForkPCs /\ pc[q] \in ForkPCs /\ i[p] = s /\ i[q] = s => p = q

\* The locks held, the thread positions and the CPUs agree.
LockInv ==
    /\ IndexOK /\ ThreadOK /\ CurrentOK /\ UniqueOK /\ PlockOK
    /\ WaitLockOK /\ TicksLockOK /\ ClockOK /\ ForkOK

-----------------------------------------------------------------------------
(***************************************************************************)
(* Parents and children, on top of LockInv.                                *)
(***************************************************************************)
ExitPCs == {"exit_begin", "exit_reparent", "exit_wake", "exit_zombie", "exit_ttime"}
GonePCs == {"exit_wake", "exit_zombie", "exit_ttime"}
DeadStates == {"UNUSED", "USED", "ZOMBIE"}

\* init is the process that never exits: kill() cannot reach it.
InitOK ==
    /\ pid[Init1] = 1 /\ parent[Init1] = NoProc /\ ~ killed[Init1]
    /\ state[Init1] \notin DeadStates /\ pc[Init1] \notin ExitPCs
    /\ \A p \in Slots : pc[p] = "kill_scan" => kpid[p] # 1

\* A process that has passed slot s in reparent() has no child there.
ChildlessOK == \A p, s \in Slots :
    /\ pc[p] \in GonePCs => parent[s] # p
    /\ pc[p] = "exit_reparent" /\ s < i[p] => parent[s] # p

\* A parent can wait, and a process that fork() has linked has a parent.
ParentOK ==
    /\ \A p, s \in Slots : parent[s] = p => state[p] \notin DeadStates
    /\ \A s \in Slots \ {Init1} : state[s] \notin {"UNUSED", "USED"} => parent[s] # NoProc
    /\ \A p, s \in Slots : pc[p] = "fork_run" /\ i[p] = s => parent[s] # NoProc

\* The scan of wait() has left no zombie child behind.
ScanOK == \A p, s \in Slots : parent[s] = p =>
    /\ pc[p] = "wait_scan" /\ s < i[p] => state[s] # "ZOMBIE"
    /\ pc[p] = "wait_sleep" => state[s] # "ZOMBIE"

\* q sleeps in wait(), and the wakeup() of p will still come to its slot.
InWait(q) == state[q] = "SLEEPING" /\ chan[q] = q
WillWake(p, q) == pc[p] \in WakingPCs /\ wk[p] # 0 /\ wk[p] <= q /\ wchan[p] = q

\* A sleeping parent with a zombie child, or with one about to be a zombie,
\* is about to be woken.
WakeOK ==
    /\ \A q, s \in Slots : InWait(q) /\ parent[s] = q /\ state[s] = "ZOMBIE" =>
          \E p \in Slots : WillWake(p, q)
    /\ \A p, q \in Slots : pc[p] = "exit_zombie" /\ parent[p] = q /\ InWait(q) => WillWake(p, q)

FamilyInv == InitOK /\ ChildlessOK /\ ParentOK /\ ScanOK /\ WakeOK
=============================================================================
