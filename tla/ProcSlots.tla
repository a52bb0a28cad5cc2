----------------------------- MODULE ProcSlots ------------------------------
(***************************************************************************)
(* The steps of wait() and fork() that free a slot or fill it.             *)
(***************************************************************************)
EXTENDS ProcMoves

\* freeproc() keeps the types of the fields it resets.
LEMMA FreeProcType ==
    ASSUME TypeOK, NEW s \in Slots, FreeProc(s)
    PROVE  /\ state' \in [Slots -> States] /\ pid' \in [Slots -> Nat]
           /\ parent' \in [Slots -> Slots \cup {NoProc}] /\ chan' \in [Slots -> Chans]
           /\ killed' \in [Slots -> BOOLEAN]
<1>1. state' \in [Slots -> States] /\ pid' \in [Slots -> Nat]
  BY Labels, Zenon DEF FreeProc, TypeOK
<1>2. parent' \in [Slots -> Slots \cup {NoProc}] /\ chan' \in [Slots -> Chans]
  BY Sets, Zenon DEF FreeProc, TypeOK
<1>3. killed' \in [Slots -> BOOLEAN]
  BY Zenon DEF FreeProc, TypeOK
<1> QED
  BY <1>1, <1>2, <1>3, Zenon

\* Types after wait() has looked at a slot.
LEMMA WaitScanType ==
    ASSUME TypeOK, LockInv, NEW c \in CPUs, NEW p \in Slots, WaitScan(c, p)
    PROVE  TypeOK'
<1>0. PICK s \in Slots : i[p] = s
  BY Sets, Zenon DEF WaitScan, LockInv, IndexOK, TypeOK, At
<1>1. wait_lock' \in CPUs \cup {Free}
  BY Zenon DEF WaitScan, WaitReap, TypeOK
<1>2. /\ pc' \in [Slots -> PCs]
      /\ i' \in [Slots -> Indices]
  <2>1. pc' \in [Slots -> PCs]
    BY <1>0, Labels DEF WaitScan, WaitReap, Goto, TypeOK
  <2>2. i' \in [Slots -> Indices]
    BY <1>0, Sets DEF WaitScan, WaitReap, Loop, TypeOK
  <2> QED
    BY <2>1, <2>2, Zenon
<1>3. sw' \in [Slots -> Switches]
  BY <1>0, Labels DEF WaitScan, WaitReap, TypeOK
<1>4. FreeProc(s) \/ UNCHANGED <<state, pid, parent, chan, killed>>
  BY <1>0, Zenon DEF WaitScan, WaitReap
<1>5. /\ state' \in [Slots -> States] /\ pid' \in [Slots -> Nat]
      /\ parent' \in [Slots -> Slots \cup {NoProc}] /\ chan' \in [Slots -> Chans]
      /\ killed' \in [Slots -> BOOLEAN]
  <2>1. CASE FreeProc(s)
    BY <2>1, FreeProcType, Zenon
  <2>2. CASE UNCHANGED <<state, pid, parent, chan, killed>>
    BY <2>2, Zenon DEF TypeOK
  <2> QED
    BY <1>4, <2>1, <2>2, Zenon
<1> QED
  BY <1>1, <1>2, <1>3, <1>5, Zenon DEF WaitScan, TypeOK, cpus, waking

\* Preservation: wait() looks at one slot, and frees a zombie child.
LEMMA WaitScanInv ==
    ASSUME TypeOK, LockInv, NEW c \in CPUs, NEW p \in Slots, WaitScan(c, p)
    PROVE  TypeOK' /\ LockInv'
<1> USE DEF table, locks, cpus, locals, waking, At, Goto, Loop, NoIntr, Acquire, Release
<1>0. PICK s \in Slots : i[p] = s
  BY Sets, Zenon DEF WaitScan, LockInv, IndexOK, TypeOK
<1>1. TypeOK'
  BY WaitScanType, Zenon
<1>2. /\ proc[c] = p /\ sw[p] = "no" /\ wk[p] = 0 /\ pc[p] = "wait_scan" /\ (c = 0 => clk = 0)
      /\ UNCHANGED <<proc, plock, wk, tickslock, clk>>
  BY Zenon DEF WaitScan
<1>3. \A q \in Slots : q # p => i'[q] = i[q]
  BY Zenon DEF WaitScan, WaitReap, TypeOK
<1>4. CASE state' = state
  <2>1. ThreadStep(c, p)
    BY <1>0, <1>4, Sets DEF WaitScan, WaitReap, FreeProc, TypeOK, ThreadStep, OthersStay,
       Woken, WaitStep, TickStep, IntrStep, IndexStep, Plain, WaitPCs, TickPCs, WakingPCs,
       LoopPCs, ForkPCs
  <2> QED
    BY <1>1, <2>1, ThreadStepInv, Zenon
<1>5. CASE state' # state
  <2>1. /\ plock[s] = Free /\ state[s] = "ZOMBIE" /\ wait_lock' = Free
        /\ state' = [state EXCEPT ![s] = "UNUSED"] /\ sw' = [sw EXCEPT ![s] = "no"]
        /\ pc' = [pc EXCEPT ![p] = "ret", ![s] = "none"]
    BY <1>0, <1>5, Zenon DEF WaitScan, WaitReap, FreeProc, ChildLockable
  <2>2. pc[s] = "exit_ttime" /\ s # p
    BY <1>2, <2>1, Zenon DEF LockInv, ThreadOK
  <2>3. /\ plock[s] = Free /\ state[s] = "ZOMBIE" /\ wait_lock' = Free
        /\ state'[s] = "UNUSED" /\ sw'[s] = "no" /\ pc'[s] = "none" /\ pc'[p] = "ret"
        /\ \A q \in Slots : q # s => state'[q] = state[q] /\ sw'[q] = sw[q]
        /\ \A q \in Slots : q # s /\ q # p => pc'[q] = pc[q]
    BY <2>1, <2>2, Zenon DEF TypeOK
  <2>4. wk[s] = 0 /\ \A d \in CPUs : proc[d] # s
    BY <2>1, <2>2, Sets DEF LockInv, CurrentOK, ThreadOK, WakingPCs
  <2>5. \A d \in CPUs, q \in Slots : proc[d] = q => (q = p <=> d = c)
    BY <1>2, Zenon DEF LockInv, UniqueOK
  <2>6. wait_lock = c
    BY <1>2, Zenon DEF LockInv, CurrentOK, WaitPCs
  <2>7. IndexOK'
    BY <1>2, <1>3, <2>2, <2>3, <2>4, SMTT(30) DEF LockInv, IndexOK, LoopPCs, ForkPCs
  <2>8. ThreadOK'
    BY <1>2, <1>3, <2>2, <2>3, <2>4, SMTT(30) DEF LockInv, ThreadOK, LockedPCs, WaitPCs, TickPCs,
       WakingPCs
  <2>9. CurrentOK'
    BY <1>2, <1>3, <2>2, <2>3, <2>4, <2>5, <2>6, SMTT(30) DEF LockInv, CurrentOK, WaitPCs, TickPCs
  <2>10. UniqueOK'
    BY <1>2, <1>3, <2>2, <2>3, <2>4, Zenon DEF LockInv, UniqueOK
  <2>11. PlockOK'
    BY <1>2, <1>3, <2>2, <2>3, <2>4 DEF LockInv, PlockOK
  <2>12. WaitLockOK'
    BY <1>2, <1>3, <2>2, <2>3, <2>4, Sets, Zenon DEF LockInv, WaitLockOK, WaitPCs
  <2>13. TicksLockOK'
    BY <1>2, <1>3, <2>2, <2>3, <2>4, SMTT(30) DEF LockInv, TicksLockOK, TickPCs
  <2>14. ClockOK'
    BY <1>2, <1>3, <2>2, <2>3, <2>4, <2>5, Sets, SMTT(30) DEF LockInv, ClockOK
  <2>15. ForkOK'
    BY <1>2, <1>3, <2>2, <2>3, <2>4 DEF LockInv, ForkOK, ForkPCs
  <2> QED
    BY <1>1, <2>7, <2>8, <2>9, <2>10, <2>11, <2>12, <2>13, <2>14, <2>15, Zenon DEF LockInv
<1> QED
  BY <1>1, <1>4, <1>5, Zenon

\* Types after fork()'s copy, which frees the slot when it fails.
LEMMA ForkCopyType ==
    ASSUME TypeOK, LockInv, NEW c \in CPUs, NEW p \in Slots, ForkCopy(c, p)
    PROVE  TypeOK'
<1>0. PICK s \in Slots : i[p] = s
  BY Zenon DEF ForkCopy, At, LockInv, IndexOK, LoopPCs, ForkPCs
<1>1. plock' \in [Slots -> CPUs \cup {Free}]
  BY <1>0, Zenon DEF ForkCopy, Release, TypeOK
<1>2. pc' \in [Slots -> PCs] /\ i' \in [Slots -> Indices]
  BY Sets, Labels DEF ForkCopy, Goto, Loop, TypeOK
<1>3. FreeProc(s) \/ UNCHANGED <<state, pid, parent, chan, killed>>
  BY <1>0, Zenon DEF ForkCopy
<1>4. /\ state' \in [Slots -> States] /\ pid' \in [Slots -> Nat]
      /\ parent' \in [Slots -> Slots \cup {NoProc}] /\ chan' \in [Slots -> Chans]
      /\ killed' \in [Slots -> BOOLEAN]
  <2>1. CASE FreeProc(s)
    BY <2>1, FreeProcType, Zenon
  <2>2. CASE UNCHANGED <<state, pid, parent, chan, killed>>
    BY <2>2, Zenon DEF TypeOK
  <2> QED
    BY <1>3, <2>1, <2>2, Zenon
<1> QED
  BY <1>1, <1>2, <1>4, Zenon DEF ForkCopy, TypeOK, cpus, waking

\* Preservation: allocproc() looks at one slot, and takes it if it is free.
LEMMA ForkScanInv ==
    ASSUME TypeOK, LockInv, NEW c \in CPUs, NEW p \in Slots, ForkScan(c, p)
    PROVE  TypeOK' /\ LockInv'
<1> USE DEF table, locks, cpus, locals, waking, At, Goto, Loop, NoIntr, Acquire, Release
<1>0. PICK s \in Slots : i[p] = s
  BY Zenon DEF ForkScan, LockInv, IndexOK, LoopPCs
<1>1. TypeOK'
  <2>1. state' \in [Slots -> States] /\ pid' \in [Slots -> Nat] /\ nextpid' \in Nat
    BY Labels, <1>0 DEF ForkScan, TypeOK
  <2>2. plock' \in [Slots -> CPUs \cup {Free}]
    BY <1>0, SMTT(30) DEF ForkScan, TypeOK
  <2>3. pc' \in [Slots -> PCs]
    BY Labels, SMTT(30) DEF ForkScan, TypeOK
  <2>4. i' \in [Slots -> Indices]
    BY Sets, <1>0, SMTT(30) DEF ForkScan, TypeOK
  <2> QED
    BY <2>1, <2>2, <2>3, <2>4, Zenon DEF ForkScan, TypeOK
<1>2. CASE state[s] # "UNUSED"
  <2>1. ThreadStep(c, p)
    BY <1>0, <1>2, Sets, SMTT(30) DEF ForkScan, TypeOK, ThreadStep, OthersStay, Woken, WaitStep,
       TickStep, IntrStep, IndexStep, Plain, WaitPCs, TickPCs, WakingPCs, LoopPCs, ForkPCs
  <2> QED
    BY <1>1, <2>1, ThreadStepInv, Zenon
<1>3. CASE state[s] = "UNUSED"
  <2>1. /\ proc[c] = p /\ sw[p] = "no" /\ wk[p] = 0 /\ pc[p] = "fork_scan" /\ (c = 0 => clk = 0)
        /\ pc'[p] = "fork_ctime" /\ \A q \in Slots : q # p => pc'[q] = pc[q]
        /\ UNCHANGED <<proc, sw, wk, i, wait_lock, tickslock, clk>>
    BY <1>0, <1>3, Zenon DEF ForkScan, TypeOK
  <2>2. /\ plock[s] = Free /\ plock'[s] = c /\ state'[s] = "USED"
        /\ \A q \in Slots : q # s => plock'[q] = plock[q] /\ state'[q] = state[q]
    BY <1>0, <1>3 DEF ForkScan, TypeOK
  <2>3. \A d \in CPUs, q \in Slots : proc[d] = q => (q = p <=> d = c)
    BY <2>1, Zenon DEF LockInv, UniqueOK
  <2>4. pc[s] = "none" /\ p # s
    BY <1>3, <2>1, Zenon DEF LockInv, ThreadOK
  <2>5. IndexOK'
    BY <1>0, <2>1, <2>2, SMTT(30) DEF LockInv, IndexOK, LoopPCs
  <2>6. ThreadOK'
    BY <1>0, <2>1, <2>2, <2>4, SMTT(30) DEF LockInv, ThreadOK, WakingPCs, LockedPCs, WaitPCs, TickPCs
  <2>7. CurrentOK'
    BY <1>0, <2>1, <2>2, <2>3, <2>4, Sets, SMTT(30) DEF LockInv, CurrentOK, WaitPCs, TickPCs
  <2>8. UniqueOK'
    BY <1>0, <2>1, <2>2, Zenon DEF LockInv, UniqueOK
  <2>9. PlockOK'
    BY <1>0, <2>1, <2>2, <2>3, Sets DEF LockInv, PlockOK
  <2>10. WaitLockOK'
    BY <1>0, <2>1, <2>2 DEF LockInv, WaitLockOK, WaitPCs
  <2>11. TicksLockOK'
    BY <1>0, <2>1, <2>2 DEF LockInv, TicksLockOK, TickPCs
  <2>12. ClockOK'
    BY <1>0, <2>1, <2>2, <2>3, Sets, SMTT(30) DEF LockInv, ClockOK
  <2>13. ForkOK'
    BY <1>0, <2>1, <2>2, <1>3, SMTT(30) DEF LockInv, ForkOK, ForkPCs
  <2> QED
    BY <1>1, <2>5, <2>6, <2>7, <2>8, <2>9, <2>10, <2>11, <2>12, <2>13, Zenon DEF LockInv
<1> QED
  BY <1>1, <1>2, <1>3, Zenon

\* Preservation: the rest of allocproc() and the copy in fork().
LEMMA ForkCopyInv ==
    ASSUME TypeOK, LockInv, NEW c \in CPUs, NEW p \in Slots, ForkCopy(c, p)
    PROVE  TypeOK' /\ LockInv'
<1> USE DEF table, locks, cpus, locals, waking, At, Goto, Loop, NoIntr, Acquire, Release
<1>0. PICK s \in Slots : i[p] = s
  BY Zenon DEF ForkCopy, LockInv, IndexOK, LoopPCs, ForkPCs
<1>1. TypeOK'
  BY ForkCopyType, Zenon
<1>2. /\ proc[c] = p /\ sw[p] = "no" /\ wk[p] = 0 /\ pc[p] = "fork_ctime" /\ (c = 0 => clk = 0)
      /\ UNCHANGED <<proc, sw, wk, wait_lock, tickslock, clk>>
      /\ plock'[s] = Free /\ \A q \in Slots : q # s => plock'[q] = plock[q]
  BY <1>0, Zenon DEF ForkCopy, TypeOK
<1>3. /\ \A q \in Slots : q # p => pc'[q] = pc[q] /\ i'[q] = i[q]
      /\ \A q \in Slots : q # s => state'[q] = state[q]
      /\ \/ pc'[p] = "fork_parent" /\ i'[p] = s /\ state'[s] = state[s]
         \/ pc'[p] = "ret" /\ i'[p] = 0 /\ state'[s] = "UNUSED"
  BY <1>0, SMTT(30) DEF ForkCopy, FreeProc, TypeOK
<1>4. /\ state[s] = "USED" /\ pc[s] = "none" /\ plock[s] = c
      /\ \A q \in Slots : pc[q] \in ForkPCs /\ i[q] = s => q = p
  BY <1>0, <1>2 DEF LockInv, ForkOK, ThreadOK, CurrentOK, ForkPCs
<1>5. \A d \in CPUs, q \in Slots : proc[d] = q => (q = p <=> d = c)
  BY <1>2, Zenon DEF LockInv, UniqueOK
<1>6. IndexOK'
  BY <1>0, <1>2, <1>3, <1>4, SMTT(30) DEF LockInv, IndexOK, LoopPCs, ForkPCs
<1>7. ThreadOK'
  BY <1>0, <1>2, <1>3, <1>4, SMTT(30) DEF LockInv, ThreadOK, LockedPCs
<1>8. CurrentOK'
  BY <1>0, <1>2, <1>3, <1>4, <1>5, SMTT(30) DEF LockInv, CurrentOK, ForkPCs, WaitPCs, TickPCs
<1>9. UniqueOK'
  BY <1>0, <1>2, <1>3, <1>4, Zenon DEF LockInv, UniqueOK
<1>10. PlockOK'
  BY <1>0, <1>2, <1>3, <1>4, <1>5, Sets, SMTT(30) DEF LockInv, PlockOK
<1>11. WaitLockOK'
  BY <1>0, <1>2, <1>3, <1>4 DEF LockInv, WaitLockOK, WaitPCs
<1>12. TicksLockOK'
  BY <1>0, <1>2, <1>3, <1>4, SMTT(30) DEF LockInv, TicksLockOK, TickPCs
<1>13. ClockOK'
  BY <1>0, <1>2, <1>3, <1>4, <1>5, Sets, SMTT(30) DEF LockInv, ClockOK
<1>14. ForkOK'
  BY <1>0, <1>2, <1>3, <1>4, SMTT(30) DEF LockInv, ForkOK, ForkPCs
<1> QED
  BY <1>1, <1>6, <1>7, <1>8, <1>9, <1>10, <1>11, <1>12, <1>13, <1>14, Zenon DEF LockInv

\* Preservation: fork() makes the child runnable.
LEMMA ForkRunInv ==
    ASSUME TypeOK, LockInv, NEW c \in CPUs, NEW p \in Slots, ForkRun(c, p)
    PROVE  TypeOK' /\ LockInv'
<1> USE DEF table, locks, cpus, locals, waking, At, Goto, Loop, NoIntr, Acquire, Release
<1>0. PICK s \in Slots : i[p] = s
  BY Zenon DEF ForkRun, LockInv, IndexOK, LoopPCs, ForkPCs
<1>1. state[s] = "USED" /\ pc[s] = "none" /\ s # p /\ \A q \in Slots : pc[q] \in ForkPCs /\ i[q] = s => q = p
  BY <1>0 DEF ForkRun, LockInv, ForkOK, ThreadOK, ForkPCs
<1>2. TypeOK'
  BY Sets, Labels, <1>0, Zenon DEF ForkRun, TypeOK
<1>3. /\ proc[c] = p /\ sw[p] = "no" /\ wk[p] = 0 /\ pc[p] = "fork_run" /\ (c = 0 => clk = 0)
      /\ plock[s] = Free
      /\ UNCHANGED <<proc, plock, wk, wait_lock, tickslock, clk>>
  BY <1>0, Zenon DEF ForkRun
<1>4. /\ state'[s] = "RUNNABLE" /\ sw'[s] = "first" /\ pc'[s] = "user" /\ pc'[p] = "ret" /\ i'[p] = 0
      /\ \A q \in Slots : q # s => state'[q] = state[q] /\ sw'[q] = sw[q]
      /\ \A q \in Slots : q # s /\ q # p => pc'[q] = pc[q]
      /\ \A q \in Slots : q # p => i'[q] = i[q]
  BY <1>0, <1>1, Zenon DEF ForkRun, TypeOK
<1>5. \A d \in CPUs : proc[d] # s
  BY <1>1 DEF LockInv, CurrentOK
<1>6. \A d \in CPUs, q \in Slots : proc[d] = q => (q = p <=> d = c)
  BY <1>3, Zenon DEF LockInv, UniqueOK
<1>7. IndexOK'
  BY <1>1, <1>3, <1>4 DEF LockInv, IndexOK, LoopPCs, ForkPCs
<1>8. ThreadOK'
  BY <1>1, <1>3, <1>4, SMTT(30) DEF LockInv, ThreadOK, LockedPCs, WaitPCs, TickPCs, WakingPCs
<1>9. CurrentOK'
  BY <1>1, <1>3, <1>4, <1>5, <1>6 DEF LockInv, CurrentOK, WaitPCs, TickPCs
<1>10. UniqueOK'
  BY <1>1, <1>3, <1>4, Zenon DEF LockInv, UniqueOK
<1>11. PlockOK'
  BY <1>1, <1>3, <1>4, <1>0, <1>5, SMTT(30) DEF LockInv, PlockOK
<1>12. WaitLockOK'
  BY <1>1, <1>3, <1>4, <1>5 DEF LockInv, WaitLockOK, WaitPCs
<1>13. TicksLockOK'
  BY <1>1, <1>3, <1>4, <1>5 DEF LockInv, TicksLockOK, TickPCs
<1>14. ClockOK'
  BY <1>1, <1>3, <1>4, <1>5, <1>6, Sets, SMTT(30) DEF LockInv, ClockOK
<1>15. ForkOK'
  BY <1>1, <1>3, <1>4, <1>0 DEF LockInv, ForkOK, ForkPCs
<1> QED
  BY <1>2, <1>7, <1>8, <1>9, <1>10, <1>11, <1>12, <1>13, <1>14, <1>15, Zenon DEF LockInv
=============================================================================
