---------------------------- MODULE SchedProofs -----------------------------
(***************************************************************************)
(* Proofs about Sched, for every number of processes and CPUs, every       *)
(* quantum, weight and priority: the time accounting of clockintr() adds   *)
(* up, a process is on one CPU, and the policies pick the minimum.         *)
(***************************************************************************)
EXTENDS Sched, WellFoundedInduction, TLAPS

States == {"UNUSED", "USED", "SLEEPING", "RUNNABLE", "RUNNING", "ZOMBIE"}
Live == {"SLEEPING", "RUNNABLE", "RUNNING"}
Process ==
    [state : States, chan : {"none", "ticks", "io"}, ctime : Nat, ttime : Nat, stime : Nat,
     retime : Nat, rutime : Nat, average_bursttime : Nat, queue_location : Nat,
     priority : Nat, child : Slots \cup {None}]
PassState ==
    [proc : Slots \cup {None}, pos : 1 .. NPROC + 1, cand : Slots \cup {None},
     min : Nat, start : Nat]

\* The types, with every field of the records.
Types ==
    /\ policy \in Policies
    /\ proc \in [Slots -> Process]
    /\ queue_counter \in Nat
    /\ ticks \in 0 .. MaxTicks
    /\ clock \in 0 .. 2 * NPROC + 1
    /\ cpu \in [CPUs -> PassState]
    /\ since \in [CPUs -> SUBSET Slots]
    /\ born \in [Slots -> Nat]

\* The child of an unfinished fork() is USED, and nobody else's.
ChildOK ==
    /\ \A p \in Slots : proc[p].child # None =>
          proc[p].state \in {"RUNNING", "RUNNABLE"} /\ proc[proc[p].child].state = "USED"
    /\ \A p, q \in Slots : proc[p].child = proc[q].child /\ proc[p].child # None => p = q

\* No burst begins in the future.
StartOK == \A c \in CPUs : cpu[c].start <= ticks

\* Every tick is accounted once, or is still to be counted by the pass of
\* clockintr() that is on its way.
TimesOK ==
    \A p \in Slots :
       /\ proc[p].state \in Live \cup {"USED"} => Accounted(p) + Pending(p) <= ticks - proc[p].ctime
       /\ proc[p].state = "USED" => Accounted(p) = 0
       /\ proc[p].state \in Live => Accounted(p) + Pending(p) >= ticks - born[p]
       /\ proc[p].state = "ZOMBIE" => /\ Accounted(p) <= proc[p].ttime - proc[p].ctime
                                      /\ Accounted(p) >= proc[p].ttime - born[p]

\* While nobody is dispatched, a pass has seen nothing better than its
\* candidate, which is still RUNNABLE with the key it had.
CandOK ==
    \A c \in CPUs :
       /\ since[c] \subseteq InState("RUNNABLE")
       /\ \A k \in Slots : since[c] # {} /\ cpu[c].cand = k =>
             /\ proc[k].state = "RUNNABLE"
             /\ policy = "CFSD" => cpu[c].min = Key(k)
             /\ \A q \in since[c] : q < cpu[c].pos => Key(k) <= Key(q)
       /\ cpu[c].cand = None => \A q \in since[c] : q >= cpu[c].pos
       /\ cpu[c].pos = 1 => cpu[c].cand = None

SchedInv == Types /\ OneCPU /\ ChildOK /\ StartOK /\ TimesOK /\ CandOK

-----------------------------------------------------------------------------
(***************************************************************************)
(* The operators.                                                          *)
(***************************************************************************)
\* A set of slots that is not empty has a first one, which allocproc() finds.
LEMMA MinFound ==
    ASSUME NEW S \in SUBSET Nat, S # {}
    PROVE  Min(S) \in S
<1>1. IsWellFoundedOn({ss \in Nat \X Nat : ss[1] < ss[2]}, Nat)
  BY NatLessThanWellFounded, Zenon DEF OpToRel
<1>2. PICK x \in S : \A y \in S : <<y, x>> \notin {ss \in Nat \X Nat : ss[1] < ss[2]}
  BY <1>1, WFMin, Zenon
<1>3. ASSUME NEW y \in S, y < x  PROVE FALSE
  <2>1. <<y, x>> \in Nat \X Nat /\ <<y, x>>[1] < <<y, x>>[2]
    BY <1>3, Zenon
  <2> QED
    BY <1>2, <2>1, Zenon
<1>4. \A y \in S : x <= y
  BY <1>3
<1> QED
  BY <1>4, Zenon DEF Min

\* What the assumptions say of the constants.
LEMMA Sizes ==
    /\ NPROC \in Nat \ {0} /\ NCPU \in Nat \ {0} /\ QUANTUM \in Nat \ {0} /\ MaxTicks \in Nat \ {0}
    /\ ALPHA \in Nat /\ 100 - ALPHA \in Nat
    /\ Slots \subseteq Nat \ {0} /\ None \notin Slots /\ initproc \in Slots /\ 0 \in CPUs
  BY SchedSizes DEF Slots, CPUs, None, initproc

\* The average of scheduler() is not negative.
LEMMA AverageType ==
    ASSUME NEW avg \in Nat, NEW burst \in Nat
    PROVE  Average(avg, burst) \in Nat
<1>1. \A a, b \in Nat : a * b \in Nat
  OBVIOUS
<1>2. ALPHA * burst \in Nat /\ (100 - ALPHA) * avg \in Nat
  BY <1>1, Sizes, Zenon
<1>3. \A n \in Nat : n \div 100 \in Nat
  OBVIOUS
<1> QED
  BY <1>2, <1>3 DEF Average

\* The ratio of CFSD is a number: a process that never ran has ratio 0.
LEMMA RatioType ==
    ASSUME NEW r \in Process
    PROVE  Ratio(r) \in Nat
<1>1. \A a, b \in Nat : a * b \in Nat
  OBVIOUS
<1>2. \A a \in Nat, b \in Nat \ {0} : a \div b \in Nat
  OBVIOUS
<1>3. r.rutime \in Nat /\ r.stime \in Nat /\ r.priority \in Nat
  BY Zenon DEF Process
<1>4. r.rutime * r.priority \in Nat /\ r.rutime + r.stime \in Nat
  BY <1>1, <1>3
<1> QED
  BY <1>2, <1>4, Zenon DEF Ratio

\* The key of a slot is a number under every policy.
LEMMA KeyType ==
    ASSUME Types, NEW p \in Slots
    PROVE  Key(p) \in Nat
<1>1. policy \in {"FCFS", "SRT", "CFSD"}
  BY SchedSizes, Zenon DEF Types
<1>2. proc[p] \in Process
  BY Zenon DEF Types
<1>3. proc[p].queue_location \in Nat /\ proc[p].average_bursttime \in Nat
  BY <1>2, Zenon DEF Process
<1>4. Ratio(proc[p]) \in Nat
  BY <1>2, RatioType, Zenon
<1> QED
  BY <1>1, <1>3, <1>4, Zenon DEF Key

-----------------------------------------------------------------------------
(***************************************************************************)
(* The records that the actions write.                                     *)
(***************************************************************************)
LEMMA QueuedType ==
    ASSUME Types, NEW r \in Process
    PROVE  /\ Queued(r) \in Process
           /\ Queued(r).state = "RUNNABLE" /\ Queued(r).chan = "none"
           /\ Queued(r).queue_location = queue_counter
           /\ Queued(r).ctime = r.ctime /\ Queued(r).ttime = r.ttime
           /\ Queued(r).stime = r.stime /\ Queued(r).retime = r.retime /\ Queued(r).rutime = r.rutime
           /\ Queued(r).average_bursttime = r.average_bursttime
           /\ Queued(r).priority = r.priority /\ Queued(r).child = r.child
  BY Zenon DEF Queued, Types, Process, States

\* freeproc() leaves an UNUSED slot.
LEMMA FreeType ==
    /\ Free \in Process
    /\ Free.state = "UNUSED" /\ Free.child = None
    /\ Free.stime = 0 /\ Free.retime = 0 /\ Free.rutime = 0
  BY Zenon DEF Free, Process, States

\* A new process has used no time.
LEMMA NewRecord ==
    ASSUME ticks \in Nat
    PROVE  /\ New \in Process /\ New.state = "USED" /\ New.child = None /\ New.ctime = ticks
           /\ New.stime = 0 /\ New.retime = 0 /\ New.rutime = 0
<1>1. PICK f \in Process : f = Free
  BY FreeType, Zenon
<1>2. PICK a \in Nat : a = QUANTUM * 100
  BY Sizes
<1>3. New = [f EXCEPT !.state = "USED", !.ctime = ticks, !.average_bursttime = a, !.priority = 5]
  BY <1>1, <1>2, Zenon DEF New
<1>4. f.child = None /\ f.stime = 0 /\ f.retime = 0 /\ f.rutime = 0
  BY <1>1, FreeType, Zenon
<1> QED
  BY <1>3, <1>4, Zenon DEF Process, States

\* The child of fork(), with the priority of its parent.
LEMMA NewType ==
    ASSUME Types, NEW n \in Nat
    PROVE  /\ [New EXCEPT !.priority = n] \in Process
           /\ [New EXCEPT !.priority = n].state = "USED"
           /\ [New EXCEPT !.priority = n].child = None
           /\ [New EXCEPT !.priority = n].ctime = ticks
           /\ [New EXCEPT !.priority = n].stime = 0
           /\ [New EXCEPT !.priority = n].retime = 0
           /\ [New EXCEPT !.priority = n].rutime = 0
<1>1. ticks \in Nat
  BY Sizes DEF Types
<1> QED
  BY <1>1, NewRecord, Zenon DEF Process

\* clockintr() adds a tick to a live process; waiting changes no key.
LEMMA CountedType ==
    ASSUME NEW r \in Process
    PROVE  /\ Counted(r) \in Process
           /\ Counted(r).state = r.state /\ Counted(r).child = r.child
           /\ Counted(r).ctime = r.ctime /\ Counted(r).ttime = r.ttime
           /\ Counted(r).stime + Counted(r).retime + Counted(r).rutime =
                r.stime + r.retime + r.rutime + (IF r.state \in Live THEN 1 ELSE 0)
           /\ r.state = "RUNNABLE" =>
                /\ Counted(r).queue_location = r.queue_location
                /\ Counted(r).average_bursttime = r.average_bursttime
                /\ Counted(r).rutime = r.rutime /\ Counted(r).stime = r.stime
                /\ Counted(r).priority = r.priority
<1>1. r.state \in States
  BY Zenon DEF Process
<1>2. CASE r.state = "RUNNING"
  BY <1>2 DEF Counted, Process, Live
<1>3. CASE r.state = "RUNNABLE"
  BY <1>3 DEF Counted, Process, Live
<1>4. CASE r.state = "SLEEPING"
  BY <1>4 DEF Counted, Process, Live
<1>5. CASE r.state \in {"UNUSED", "USED", "ZOMBIE"}
  BY <1>5 DEF Counted, Process, Live
<1> QED
  BY <1>1, <1>2, <1>3, <1>4, <1>5, Zenon DEF States

\* A pass begins with the first slot and no candidate.
LEMMA PassType ==
    /\ Pass \in PassState
    /\ Pass.proc = None /\ Pass.pos = 1 /\ Pass.cand = None /\ Pass.start = 0
  BY Sizes DEF Pass, PassState, None

\* A slot whose record is replaced.
LEMMA ReplaceType ==
    ASSUME Types, NEW p \in Slots, NEW r \in Process, proc' = [proc EXCEPT ![p] = r]
    PROVE  /\ proc' \in [Slots -> Process]
           /\ proc'[p] = r /\ \A q \in Slots : q # p => proc'[q] = proc[q]
  BY Zenon DEF Types

\* A CPU whose locals are replaced.
LEMMA CpuType ==
    ASSUME Types, NEW c \in CPUs, NEW s \in PassState, cpu' = [cpu EXCEPT ![c] = s]
    PROVE  /\ cpu' \in [CPUs -> PassState]
           /\ cpu'[c] = s /\ \A d \in CPUs : d # c => cpu'[d] = cpu[d]
  BY Zenon DEF Types

-----------------------------------------------------------------------------
(***************************************************************************)
(* What the actions do to the slots and the CPUs, and their types.         *)
(***************************************************************************)
Others(p) == \A q \in Slots : q # p => proc'[q] = proc[q]
OtherCpus(c) == \A d \in CPUs : d # c => cpu'[d] = cpu[d]
SameTimes(p) ==
    /\ proc'[p].ctime = proc[p].ctime /\ proc'[p].stime = proc[p].stime
    /\ proc'[p].retime = proc[p].retime /\ proc'[p].rutime = proc[p].rutime

\* A look at a slot changes the locals of scheduler() only.
LEMMA ScanMoves ==
    ASSUME Types, NEW c \in CPUs, Scan(c)
    PROVE  LET p == cpu[c].pos IN
           /\ Types' /\ OtherCpus(c) /\ p \in Slots
           /\ cpu[c].proc = None /\ cpu'[c].proc = None
           /\ cpu'[c].pos = p + 1 /\ cpu'[c].start = cpu[c].start
           /\ \/ /\ proc[p].state = "RUNNABLE" /\ Better(c, p)
                 /\ cpu'[c].cand = p /\ (policy = "CFSD" => cpu'[c].min = Key(p))
              \/ /\ ~ (proc[p].state = "RUNNABLE" /\ Better(c, p))
                 /\ cpu'[c].cand = cpu[c].cand /\ cpu'[c].min = cpu[c].min
<1> DEFINE p == cpu[c].pos
           found == proc[p].state = "RUNNABLE" /\ Better(c, p)
           s == IF found
                THEN [cpu[c] EXCEPT !.pos = p + 1, !.cand = p,
                                    !.min = IF policy = "CFSD" THEN Key(p) ELSE @]
                ELSE [cpu[c] EXCEPT !.pos = p + 1]
<1>1. cpu[c] \in PassState
  BY Zenon DEF Types
<1>2. p \in Slots /\ p + 1 \in 1 .. NPROC + 1
  BY <1>1, Sizes DEF Scan, PassState, Slots
<1>3. Key(p) \in Nat
  BY <1>2, KeyType, Zenon
<1>4. cpu' = [cpu EXCEPT ![c] = s]
  BY Zenon DEF Scan
<1> HIDE DEF found
<1>5. s \in PassState
  BY <1>1, <1>2, <1>3, Zenon DEF PassState
<1>6. cpu' \in [CPUs -> PassState] /\ cpu'[c] = s /\ OtherCpus(c)
  BY <1>4, <1>5, CpuType, Zenon DEF OtherCpus
<1>7. since' \in [CPUs -> SUBSET Slots]
  BY Zenon DEF Scan, Types, InState
<1>8. Types'
  BY <1>6, <1>7, Zenon DEF Scan, Types
<1>9. /\ s.proc = cpu[c].proc /\ s.pos = p + 1 /\ s.start = cpu[c].start
      /\ found => s.cand = p /\ (policy = "CFSD" => s.min = Key(p))
      /\ ~ found => s.cand = cpu[c].cand /\ s.min = cpu[c].min
  BY <1>1, Zenon DEF PassState
<1>10. cpu[c].proc = None
  BY Zenon DEF Scan
<1> HIDE DEF s
<1> QED
  BY <1>2, <1>6, <1>8, <1>9, <1>10, Zenon DEF found

\* The candidate of a pass that is over is dispatched.
LEMMA DispatchMoves ==
    ASSUME Types, NEW c \in CPUs, Dispatch(c)
    PROVE  LET p == cpu[c].cand IN
           /\ Types' /\ OtherCpus(c) /\ Others(p) /\ p \in Slots
           /\ proc[p].state = "RUNNABLE" /\ proc'[p].state = "RUNNING"
           /\ proc'[p].child = proc[p].child /\ proc'[p].ttime = proc[p].ttime /\ SameTimes(p)
           /\ cpu[c].proc = None /\ cpu'[c].proc = p /\ cpu'[c].start = ticks
           /\ cpu'[c].cand = None /\ cpu'[c].pos = 1
           /\ since' = [d \in CPUs |-> {}]
<1> DEFINE p == cpu[c].cand
           r == [proc[p] EXCEPT !.state = "RUNNING"]
           s == [Pass EXCEPT !.proc = p, !.start = ticks]
<1>1. cpu[c] \in PassState
  BY Zenon DEF Types
<1>2. p \in Slots /\ proc[p].state = "RUNNABLE"
  BY <1>1, Zenon DEF Dispatch, CandidateRunnable, PassState
<1>3. proc[p] \in Process
  BY <1>2, Zenon DEF Types
<1>4. proc' = [proc EXCEPT ![p] = r]
  BY <1>2, <1>3, Zenon DEF Dispatch, Types
<1>5. cpu' = [cpu EXCEPT ![c] = s] /\ since' = [d \in CPUs |-> {}] /\ cpu[c].proc = None
  BY Zenon DEF Dispatch, PassDone
<1>6. /\ r \in Process /\ r.state = "RUNNING" /\ r.child = proc[p].child
      /\ r.ctime = proc[p].ctime /\ r.ttime = proc[p].ttime /\ r.stime = proc[p].stime
      /\ r.retime = proc[p].retime /\ r.rutime = proc[p].rutime
  BY <1>3, Zenon DEF Process, States
<1>7. ticks \in Nat
  BY Sizes DEF Types
<1>8. s \in PassState /\ s.proc = p /\ s.start = ticks /\ s.cand = None /\ s.pos = 1
  <2>1. PICK k \in PassState : k = Pass /\ k.pos = 1 /\ k.cand = None
    BY PassType, Zenon
  <2> QED
    BY <1>2, <1>7, <2>1, Zenon DEF PassState
<1> HIDE DEF r, s
<1>9. proc' \in [Slots -> Process] /\ proc'[p] = r /\ Others(p)
  BY <1>2, <1>4, <1>6, ReplaceType, Zenon DEF Others
<1>10. cpu' \in [CPUs -> PassState] /\ cpu'[c] = s /\ OtherCpus(c)
  BY <1>5, <1>8, CpuType, Zenon DEF OtherCpus
<1>11. since' \in [CPUs -> SUBSET Slots]
  BY <1>5, Zenon
<1>12. Types'
  BY <1>9, <1>10, <1>11, Zenon DEF Types, Dispatch
<1> QED
  BY <1>2, <1>5, <1>6, <1>8, <1>9, <1>10, <1>12, Zenon DEF SameTimes

\* A pass that found nothing, or whose candidate is gone.
LEMMA NothingMoves ==
    ASSUME Types, NEW c \in CPUs, NothingToRun(c)
    PROVE  /\ Types' /\ OtherCpus(c) /\ proc' = proc
           /\ cpu[c].proc = None /\ cpu'[c] = Pass
<1>1. cpu' = [cpu EXCEPT ![c] = Pass] /\ cpu[c].proc = None
  BY Zenon DEF NothingToRun, PassDone
<1>2. cpu' \in [CPUs -> PassState] /\ cpu'[c] = Pass /\ OtherCpus(c)
  BY <1>1, PassType, CpuType, Zenon DEF OtherCpus
<1> QED
  BY <1>1, <1>2, Zenon DEF NothingToRun, Types

\* The process of c, RUNNING so far, leaves the CPU in state s.
Leaves(c, s) ==
    LET p == cpu[c].proc IN
    /\ p \in Slots /\ proc[p].state = "RUNNING" /\ Others(p)
    /\ proc'[p].state = s /\ proc'[p].child = proc[p].child /\ SameTimes(p)
    /\ cpu'[c] = Pass /\ OtherCpus(c)
    /\ proc' \in [Slots -> Process] /\ cpu' \in [CPUs -> PassState]

\* swtch() back to scheduler(), which then accounts the burst.
LEMMA SwitchMoves ==
    ASSUME Types, OneCPU, StartOK, NEW c \in CPUs, cpu[c].proc # None, NEW r \in Process,
           SwitchTo(c, r), r.child = Self(c).child, r.ctime = Self(c).ctime,
           r.stime = Self(c).stime, r.retime = Self(c).retime, r.rutime = Self(c).rutime
    PROVE  Leaves(c, r.state) /\ proc'[cpu[c].proc].ttime = r.ttime
<1> DEFINE p == cpu[c].proc
           a == IF policy = "FCFS" THEN r.average_bursttime
                ELSE Average(r.average_bursttime, ticks - cpu[c].start)
           n == [r EXCEPT !.average_bursttime = a]
<1>1. cpu[c] \in PassState
  BY Zenon DEF Types
<1>2. p \in Slots /\ proc[p].state = "RUNNING"
  BY <1>1, Zenon DEF PassState, OneCPU
<1>3. r.average_bursttime \in Nat
  BY Zenon DEF Process
<1>4. ticks - cpu[c].start \in Nat
  BY <1>1, Sizes DEF PassState, StartOK, Types
<1>5. a \in Nat
  BY <1>3, <1>4, AverageType, Zenon
<1>6. proc' = [proc EXCEPT ![p] = n] /\ cpu' = [cpu EXCEPT ![c] = Pass]
  BY Zenon DEF SwitchTo
<1> HIDE DEF a
<1>7. /\ n \in Process /\ n.state = r.state /\ n.child = r.child /\ n.ctime = r.ctime
      /\ n.ttime = r.ttime /\ n.stime = r.stime /\ n.retime = r.retime /\ n.rutime = r.rutime
  BY <1>5, Zenon DEF Process
<1> HIDE DEF n
<1>8. proc' \in [Slots -> Process] /\ proc'[p] = n /\ Others(p)
  BY <1>2, <1>6, <1>7, ReplaceType, Zenon DEF Others
<1>9. cpu' \in [CPUs -> PassState] /\ cpu'[c] = Pass /\ OtherCpus(c)
  BY <1>6, PassType, CpuType, Zenon DEF OtherCpus
<1> QED
  BY <1>2, <1>7, <1>8, <1>9, Zenon DEF Leaves, SameTimes, Self

\* yield() queues the process of c again.
LEMMA YieldMoves ==
    ASSUME Types, OneCPU, StartOK, NEW c \in CPUs, cpu[c].proc # None, Yield(c)
    PROVE  Leaves(c, "RUNNABLE") /\ queue_counter' \in Nat
<1>1. cpu[c] \in PassState
  BY Zenon DEF Types
<1>2. Self(c) \in Process
  BY <1>1, Zenon DEF PassState, Types, Self
<1>3. SwitchTo(c, Queued(Self(c))) /\ queue_counter' = queue_counter + 1
  BY Zenon DEF Yield
<1>4. Leaves(c, Queued(Self(c)).state)
  BY <1>2, <1>3, QueuedType, SwitchMoves, Zenon
<1>5. Leaves(c, "RUNNABLE")
  BY <1>2, <1>4, QueuedType, Zenon
<1> QED
  BY <1>3, <1>5 DEF Types

\* A timer interrupt on another CPU than 0 preempts its process.
LEMMA PreemptMoves ==
    ASSUME Types, OneCPU, StartOK, NEW c \in CPUs, Preempt(c)
    PROVE  Types' /\ Leaves(c, "RUNNABLE")
<1>1. Leaves(c, "RUNNABLE") /\ queue_counter' \in Nat
  BY YieldMoves, Zenon DEF Preempt, Running
<1> QED
  BY <1>1, Zenon DEF Preempt, Yield, Leaves, Types

\* sleep(): the process of c, which is not in fork(), leaves.
LEMMA SleepMoves ==
    ASSUME Types, OneCPU, StartOK, NEW c \in CPUs, NEW k \in {"ticks", "io"}, Sleep(c, k)
    PROVE  Types' /\ Leaves(c, "SLEEPING") /\ proc[cpu[c].proc].child = None
<1> DEFINE r == [Self(c) EXCEPT !.state = "SLEEPING", !.chan = k]
<1>1. cpu[c] \in PassState /\ cpu[c].proc # None /\ Self(c).child = None
  BY Zenon DEF Types, Sleep, Running
<1>2. Self(c) \in Process
  BY <1>1, Zenon DEF PassState, Types, Self
<1>3. /\ r \in Process /\ r.state = "SLEEPING" /\ r.child = Self(c).child /\ r.ctime = Self(c).ctime
      /\ r.stime = Self(c).stime /\ r.retime = Self(c).retime /\ r.rutime = Self(c).rutime
  BY <1>2, Zenon DEF Process, States
<1>4. SwitchTo(c, r)
  BY Zenon DEF Sleep
<1> HIDE DEF r
<1>5. Leaves(c, r.state)
  BY <1>1, <1>3, <1>4, SwitchMoves, Zenon
<1> QED
  BY <1>1, <1>3, <1>5, Zenon DEF Sleep, Leaves, Types, Self

\* exit() stamps ttime and leaves a zombie.
LEMMA ExitMoves ==
    ASSUME Types, OneCPU, StartOK, NEW c \in CPUs, Exit(c)
    PROVE  /\ Types' /\ Leaves(c, "ZOMBIE") /\ proc[cpu[c].proc].child = None
           /\ proc'[cpu[c].proc].ttime = ticks
<1> DEFINE r == [Self(c) EXCEPT !.state = "ZOMBIE", !.ttime = ticks]
<1>1. cpu[c] \in PassState /\ cpu[c].proc # None /\ Self(c).child = None
  BY Zenon DEF Types, Exit, Running
<1>2. Self(c) \in Process
  BY <1>1, Zenon DEF PassState, Types, Self
<1>3. ticks \in Nat
  BY Sizes DEF Types
<1>4. /\ r \in Process /\ r.state = "ZOMBIE" /\ r.child = Self(c).child /\ r.ctime = Self(c).ctime
      /\ r.stime = Self(c).stime /\ r.retime = Self(c).retime /\ r.rutime = Self(c).rutime
      /\ r.ttime = ticks
  BY <1>2, <1>3, Zenon DEF Process, States
<1>5. SwitchTo(c, r)
  BY Zenon DEF Exit
<1> HIDE DEF r
<1>6. Leaves(c, r.state) /\ proc'[cpu[c].proc].ttime = r.ttime
  BY <1>1, <1>4, <1>5, SwitchMoves, Zenon
<1> QED
  BY <1>1, <1>4, <1>6, Zenon DEF Exit, Leaves, Types, Self

\* The timer interrupt of CPU 0 returns, or its process yields.
LEMMA TimerReturnMoves ==
    ASSUME Types, OneCPU, StartOK, TimerReturn
    PROVE  Types' /\ (Leaves(0, "RUNNABLE") \/ UNCHANGED <<proc, cpu>>)
<1>1. clock' \in 0 .. 2 * NPROC + 1
  BY Sizes DEF TimerReturn
<1>2. CASE policy # "FCFS" /\ cpu[0].proc # None /\ QuantumOver
  <2>1. Yield(0)
    BY <1>2, Zenon DEF TimerReturn
  <2>2. Leaves(0, "RUNNABLE") /\ queue_counter' \in Nat
    BY <1>2, <2>1, Sizes, YieldMoves, Zenon
  <2> QED
    BY <1>1, <2>1, <2>2, Zenon DEF Yield, Leaves, Types
<1>3. CASE ~ (policy # "FCFS" /\ cpu[0].proc # None /\ QuantumOver)
  BY <1>1, <1>3, Zenon DEF TimerReturn, Types
<1> QED
  BY <1>2, <1>3, Zenon

\* Slot p, SLEEPING, becomes RUNNABLE.
Wakes(p) ==
    /\ p \in Slots /\ proc[p].state = "SLEEPING" /\ Others(p) /\ proc' \in [Slots -> Process]
    /\ proc'[p].state = "RUNNABLE" /\ proc'[p].child = proc[p].child /\ SameTimes(p)
    /\ queue_counter' \in Nat

\* A sleeper is queued.
LEMMA EnqueueMoves ==
    ASSUME Types, NEW p \in Slots, proc[p].state = "SLEEPING", Enqueue(p)
    PROVE  Wakes(p)
<1>1. proc[p] \in Process
  BY Zenon DEF Types
<1>2. proc' = [proc EXCEPT ![p] = Queued(proc[p])] /\ queue_counter' = queue_counter + 1
  BY Zenon DEF Enqueue
<1>3. proc' \in [Slots -> Process] /\ proc'[p] = Queued(proc[p]) /\ Others(p)
  BY <1>1, <1>2, QueuedType, ReplaceType, Zenon DEF Others
<1>4. proc'[p].state = "RUNNABLE" /\ proc'[p].child = proc[p].child /\ SameTimes(p)
  BY <1>1, <1>3, QueuedType DEF SameTimes
<1>5. queue_counter' \in Nat
  BY <1>2 DEF Types
<1> QED
  BY <1>3, <1>4, <1>5, Zenon DEF Wakes

\* wakeup() and kill() queue a sleeper.
LEMMA WakeupMoves ==
    ASSUME Types, NEW p \in Slots, Wakeup(p) \/ Kill(p)
    PROVE  Types' /\ Wakes(p) /\ UNCHANGED <<ticks, clock, cpu, since, born, policy>>
<1>1. Wakes(p)
  BY EnqueueMoves, Zenon DEF Wakeup, Kill
<1> QED
  BY <1>1, Zenon DEF Wakeup, Kill, Wakes, Types

\* clockintr() wakes who sleeps on ticks, after all is counted.
LEMMA WakeSlotMoves ==
    ASSUME Types, WakeSlot
    PROVE  /\ Types' /\ ((\E p \in Slots : Wakes(p)) \/ proc' = proc)
           /\ UNCHANGED <<ticks, cpu, since, born, policy>> /\ ~ Counting /\ ~ Counting'
<1>1. clock - NPROC \in Slots /\ clock' = clock + 1
  BY Zenon DEF WakeSlot, Waking
<1>2. clock' \in 0 .. 2 * NPROC + 1 /\ ~ Counting /\ ~ Counting'
  BY <1>1, Sizes DEF Counting, Slots, Types
<1>3. CASE proc[clock - NPROC].state = "SLEEPING" /\ proc[clock - NPROC].chan = "ticks"
  <2>1. Wakes(clock - NPROC)
    BY <1>1, <1>3, EnqueueMoves, Zenon DEF WakeSlot
  <2> QED
    BY <1>1, <1>2, <2>1, Zenon DEF WakeSlot, Wakes, Types
<1>4. CASE ~ (proc[clock - NPROC].state = "SLEEPING" /\ proc[clock - NPROC].chan = "ticks")
  BY <1>2, <1>4, Zenon DEF WakeSlot, Types
<1> QED
  BY <1>3, <1>4, Zenon

\* fork() fills slot n for the process p, which is on a CPU.
LEMMA ForkMoves ==
    ASSUME Types, OneCPU, NEW c \in CPUs, Fork(c)
    PROVE  \E n \in Slots, p \in Slots :
           /\ Types' /\ p = cpu[c].proc /\ n # p
           /\ proc[n].state = "UNUSED" /\ proc[p].state = "RUNNING" /\ proc[p].child = None
           /\ proc'[n].state = "USED" /\ proc'[n].child = None /\ proc'[n].ctime = ticks
           /\ proc'[n].stime = 0 /\ proc'[n].retime = 0 /\ proc'[n].rutime = 0
           /\ proc'[p].state = "RUNNING" /\ proc'[p].child = n /\ SameTimes(p)
           /\ \A q \in Slots : q # n /\ q # p => proc'[q] = proc[q]
<1> DEFINE n == Min(InState("UNUSED"))
           p == cpu[c].proc
           new == [New EXCEPT !.priority = Self(c).priority]
           r == [proc[p] EXCEPT !.child = n]
<1>1. n \in InState("UNUSED")
  <2>1. InState("UNUSED") \in SUBSET Nat /\ InState("UNUSED") # {}
    BY Sizes, Zenon DEF InState, Fork
  <2> QED
    BY <2>1, MinFound, Zenon
<1>2. n \in Slots /\ proc[n].state = "UNUSED"
  BY <1>1, Zenon DEF InState
<1>3. p \in Slots /\ p # None
  BY Zenon DEF Types, Fork, Running, PassState
<1>4. proc[p].state = "RUNNING" /\ proc[p] \in Process /\ proc[p].child = None
  BY <1>3, Zenon DEF OneCPU, Types, Fork, Self
<1>5. n # p
  BY <1>2, <1>4, Zenon
<1>6. Self(c).priority \in Nat
  BY <1>4, Zenon DEF Self, Process
<1>7. /\ new \in Process /\ new.state = "USED" /\ new.child = None /\ new.ctime = ticks
      /\ new.stime = 0 /\ new.retime = 0 /\ new.rutime = 0
  BY <1>6, NewType, Zenon
<1> HIDE DEF n
<1>8. /\ r \in Process /\ r.state = proc[p].state /\ r.child = n /\ r.ctime = proc[p].ctime
      /\ r.stime = proc[p].stime /\ r.retime = proc[p].retime /\ r.rutime = proc[p].rutime
  BY <1>2, <1>4, Zenon DEF Process
<1>9. proc' = [proc EXCEPT ![n] = new, ![p].child = n]
  BY Zenon DEF Fork, n
<1> HIDE DEF new
<1>10. /\ proc' \in [Slots -> Process] /\ proc'[n] = new /\ proc'[p] = r
       /\ \A q \in Slots : q # n /\ q # p => proc'[q] = proc[q]
  BY <1>2, <1>3, <1>4, <1>5, <1>7, <1>8, <1>9, Zenon DEF Types
<1>11. Types'
  BY <1>10, Zenon DEF Types, Fork
<1> HIDE DEF p, r
<1> QED
  BY <1>2, <1>3, <1>4, <1>5, <1>7, <1>8, <1>10, <1>11, ZenonT(40) DEF SameTimes, p

\* The end of fork(): the child n of p becomes RUNNABLE.
LEMMA ForkRunMoves ==
    ASSUME Types, OneCPU, ChildOK, NEW c \in CPUs, ForkRun(c)
    PROVE  \E n \in Slots, p \in Slots :
           /\ Types' /\ p = cpu[c].proc /\ n = proc[p].child /\ n # p
           /\ proc[n].state = "USED" /\ proc[p].state = "RUNNING"
           /\ proc'[n].state = "RUNNABLE" /\ proc'[n].child = proc[n].child /\ SameTimes(n)
           /\ proc'[p].state = "RUNNING" /\ proc'[p].child = None /\ SameTimes(p)
           /\ \A q \in Slots : q # n /\ q # p => proc'[q] = proc[q]
           /\ born' = [born EXCEPT ![n] = ticks]
<1> DEFINE p == cpu[c].proc
           n == proc[p].child
           r == [proc[p] EXCEPT !.child = None]
<1>1. p \in Slots /\ p # None
  BY Zenon DEF Types, ForkRun, Running, PassState
<1>2. proc[p].state = "RUNNING" /\ proc[p] \in Process /\ n # None
  BY <1>1, Zenon DEF OneCPU, Types, ForkRun, Self
<1>3. n \in Slots /\ proc[n].state = "USED"
  BY <1>1, <1>2, Zenon DEF ChildOK, Process
<1>4. n # p /\ proc[n] \in Process
  BY <1>2, <1>3, Zenon DEF Types
<1>5. /\ r \in Process /\ r.state = proc[p].state /\ r.child = None /\ r.ctime = proc[p].ctime
      /\ r.stime = proc[p].stime /\ r.retime = proc[p].retime /\ r.rutime = proc[p].rutime
  BY <1>2, Zenon DEF Process
<1>6. /\ proc' = [proc EXCEPT ![n] = Queued(proc[n]), ![p].child = None]
      /\ born' = [born EXCEPT ![n] = ticks] /\ queue_counter' = queue_counter + 1
  BY Zenon DEF ForkRun, Self
<1>7. Queued(proc[n]) \in Process
  BY <1>4, QueuedType, Zenon
<1> HIDE DEF n
<1>8. /\ proc' \in [Slots -> Process] /\ proc'[n] = Queued(proc[n]) /\ proc'[p] = r
      /\ \A q \in Slots : q # n /\ q # p => proc'[q] = proc[q]
  BY <1>1, <1>2, <1>3, <1>4, <1>5, <1>6, <1>7, Zenon DEF Types
<1>9. proc'[n].state = "RUNNABLE" /\ proc'[n].child = proc[n].child /\ SameTimes(n)
  BY <1>4, <1>8, QueuedType DEF SameTimes
<1>10. born' \in [Slots -> Nat] /\ queue_counter' \in Nat
  BY <1>3, <1>6, Sizes DEF Types
<1>11. Types'
  BY <1>8, <1>10, Zenon DEF Types, ForkRun
<1>12. proc'[p].state = "RUNNING" /\ proc'[p].child = None /\ SameTimes(p)
  BY <1>2, <1>5, <1>8, Zenon DEF SameTimes
<1>13. n = proc[p].child /\ p = cpu[c].proc
  BY Zenon DEF n
<1> HIDE DEF p, r
<1> QED
  BY <1>1, <1>2, <1>3, <1>4, <1>6, <1>8, <1>9, <1>11, <1>12, <1>13, Zenon

\* wait() frees a zombie.
LEMMA ReapMoves ==
    ASSUME Types, NEW c \in CPUs, NEW z \in Slots, Reap(c, z)
    PROVE  /\ Types' /\ Others(z) /\ proc[z].state = "ZOMBIE"
           /\ proc'[z].state = "UNUSED" /\ proc'[z].child = None
<1>1. proc' = [proc EXCEPT ![z] = Free] /\ proc[z].state = "ZOMBIE"
  BY Zenon DEF Reap
<1>2. proc' \in [Slots -> Process] /\ proc'[z] = Free /\ Others(z)
  BY <1>1, FreeType, ReplaceType, Zenon DEF Others
<1> QED
  BY <1>1, <1>2, FreeType, Zenon DEF Reap, Types

\* set_priority() touches the running process alone.
LEMMA SetPriorityMoves ==
    ASSUME Types, OneCPU, NEW c \in CPUs, NEW n \in Priorities, SetPriority(c, n)
    PROVE  LET p == cpu[c].proc IN
           /\ Types' /\ Others(p) /\ p \in Slots /\ proc[p].state = "RUNNING" /\ SameTimes(p)
           /\ proc'[p].state = proc[p].state /\ proc'[p].child = proc[p].child
<1> DEFINE p == cpu[c].proc
           r == [proc[p] EXCEPT !.priority = n]
<1>1. p \in Slots /\ p # None /\ n \in Nat
  BY SchedSizes, Zenon DEF Types, SetPriority, Running, PassState
<1>2. proc[p].state = "RUNNING" /\ proc[p] \in Process
  BY <1>1, Zenon DEF OneCPU, Types
<1>3. /\ r \in Process /\ r.state = proc[p].state /\ r.child = proc[p].child
      /\ r.ctime = proc[p].ctime /\ r.stime = proc[p].stime
      /\ r.retime = proc[p].retime /\ r.rutime = proc[p].rutime
  BY <1>1, <1>2, Zenon DEF Process
<1>4. proc' = [proc EXCEPT ![p] = r]
  BY <1>1, <1>2, Zenon DEF SetPriority, Types
<1> HIDE DEF r
<1>5. proc' \in [Slots -> Process] /\ proc'[p] = r /\ Others(p)
  BY <1>1, <1>3, <1>4, ReplaceType, Zenon DEF Others
<1> QED
  BY <1>1, <1>2, <1>3, <1>5, Zenon DEF SetPriority, Types, SameTimes

\* clockintr() counts for the slot under its pass.
LEMMA CountMoves ==
    ASSUME Types, CountSlot
    PROVE  /\ Types' /\ Others(clock) /\ clock \in Slots /\ clock' = clock + 1
           /\ proc[clock] \in Process /\ proc'[clock] = Counted(proc[clock])
<1>1. /\ proc' = [proc EXCEPT ![clock] = Counted(proc[clock])]
      /\ clock \in Slots /\ clock' = clock + 1
  BY Zenon DEF CountSlot, Counting
<1>2. proc[clock] \in Process /\ Counted(proc[clock]) \in Process
  BY <1>1, CountedType, Zenon DEF Types
<1>3. proc' \in [Slots -> Process] /\ proc'[clock] = Counted(proc[clock]) /\ Others(clock)
  BY <1>1, <1>2, ReplaceType, Zenon DEF Others
<1>4. clock' \in 0 .. 2 * NPROC + 1
  BY <1>1, Sizes DEF Slots
<1> QED
  BY <1>1, <1>2, <1>3, <1>4, Zenon DEF CountSlot, Types

\* A clock interrupt begins.
LEMMA TickMoves ==
    ASSUME Types, Tick
    PROVE  Types' /\ ticks' = ticks + 1 /\ ticks \in Nat
<1>1. ticks' \in 0 .. MaxTicks /\ clock' \in 0 .. 2 * NPROC + 1 /\ ticks' = ticks + 1 /\ ticks \in Nat
  BY Sizes DEF Tick, Types
<1> QED
  BY <1>1, Zenon DEF Tick, Types

-----------------------------------------------------------------------------
(***************************************************************************)
(* A process is on one CPU, and an unfinished fork() owns its child.       *)
(***************************************************************************)
RolesOK == OneCPU /\ ChildOK
SameRoles ==
    /\ \A p \in Slots : proc'[p].state = proc[p].state /\ proc'[p].child = proc[p].child
    /\ \A c \in CPUs : cpu'[c].proc = cpu[c].proc

\* A child and the process of a CPU are slots.
LEMMA ChildType ==
    ASSUME Types
    PROVE  /\ \A p \in Slots : proc[p].child # None => proc[p].child \in Slots
           /\ \A c \in CPUs : cpu[c].proc # None => cpu[c].proc \in Slots
  BY Zenon DEF Types, Process, PassState

\* Where no state, child or CPU changes, the roles are kept.
LEMMA SameRolesOK ==
    ASSUME Types, RolesOK, SameRoles
    PROVE  RolesOK'
<1>1. OneCPU'
  BY DEF RolesOK, SameRoles, OneCPU
<1>2. ChildOK'
  BY ChildType DEF RolesOK, SameRoles, ChildOK
<1> QED
  BY <1>1, <1>2, Zenon DEF RolesOK

\* The process that leaves a CPU in the middle of fork() is RUNNABLE.
LEMMA LeavesRoles ==
    ASSUME Types, RolesOK, NEW c \in CPUs, NEW s \in {"RUNNABLE", "SLEEPING", "ZOMBIE"},
           Leaves(c, s), s = "RUNNABLE" \/ proc[cpu[c].proc].child = None
    PROVE  RolesOK'
<1> DEFINE p == cpu[c].proc
<1>1. /\ p \in Slots /\ p # None /\ proc[p].state = "RUNNING" /\ proc'[p].state = s
      /\ proc'[p].child = proc[p].child /\ s # "RUNNING"
      /\ \A q \in Slots : q # p => proc'[q] = proc[q]
      /\ cpu'[c].proc = None /\ \A d \in CPUs : d # c => cpu'[d] = cpu[d]
  BY PassType, Sizes, Zenon DEF Leaves, Others, OtherCpus
<1>2. ASSUME NEW q \in Slots  PROVE proc'[q].state = "RUNNING" <=> \E d \in CPUs : cpu'[d].proc = q
  <2>1. CASE q = p
    BY <1>1, <2>1 DEF RolesOK, OneCPU
  <2>2. CASE q # p
    BY <1>1, <2>2, Sizes DEF RolesOK, OneCPU
  <2> QED
    BY <2>1, <2>2, Zenon
<1>3. \A d, e \in CPUs : cpu'[d].proc = cpu'[e].proc /\ cpu'[d].proc # None => d = e
  BY <1>1 DEF RolesOK, OneCPU
<1>4. OneCPU'
  BY <1>2, <1>3, Zenon DEF OneCPU
<1>5. \A q \in Slots : proc'[q].child = proc[q].child
  BY <1>1, Zenon
<1>6. ASSUME NEW q \in Slots, proc'[q].child # None
      PROVE  proc'[q].state \in {"RUNNING", "RUNNABLE"} /\ proc'[proc'[q].child].state = "USED"
  <2>1. proc[q].child \in Slots /\ proc[q].state \in {"RUNNING", "RUNNABLE"} /\ proc[proc[q].child].state = "USED"
    BY <1>5, <1>6, ChildType, Zenon DEF RolesOK, ChildOK
  <2>2. proc[q].child # p
    BY <1>1, <2>1, Zenon
  <2> QED
    BY <1>1, <1>5, <1>6, <2>1, <2>2, Zenon
<1>7. ChildOK'
  BY <1>5, <1>6 DEF RolesOK, ChildOK
<1> QED
  BY <1>4, <1>7, Zenon DEF RolesOK

\* A process that wakes up is on no CPU and in no fork().
LEMMA WakesRoles ==
    ASSUME Types, RolesOK, NEW p, Wakes(p), cpu' = cpu
    PROVE  RolesOK'
<1>1. /\ p \in Slots /\ proc[p].state = "SLEEPING" /\ proc'[p].state = "RUNNABLE"
      /\ proc'[p].child = proc[p].child /\ \A q \in Slots : q # p => proc'[q] = proc[q]
  BY Zenon DEF Wakes, Others
<1>2. \A q \in Slots : proc'[q].state = "RUNNING" <=> proc[q].state = "RUNNING"
  BY <1>1, Zenon
<1>3. OneCPU'
  BY <1>2, Zenon DEF RolesOK, OneCPU
<1>4. \A q \in Slots : proc'[q].child = proc[q].child
  BY <1>1, Zenon
<1>5. ASSUME NEW q \in Slots, proc'[q].child # None
      PROVE  proc'[q].state \in {"RUNNING", "RUNNABLE"} /\ proc'[proc'[q].child].state = "USED"
  <2>1. proc[q].child \in Slots /\ proc[q].state \in {"RUNNING", "RUNNABLE"} /\ proc[proc[q].child].state = "USED"
    BY <1>4, <1>5, ChildType, Zenon DEF RolesOK, ChildOK
  <2>2. proc[q].child # p
    BY <1>1, <2>1, Zenon
  <2> QED
    BY <1>1, <1>4, <1>5, <2>1, <2>2, Zenon
<1>6. ChildOK'
  BY <1>4, <1>5 DEF RolesOK, ChildOK
<1> QED
  BY <1>3, <1>6, Zenon DEF RolesOK

\* A dispatched process was RUNNABLE, hence on no CPU.
LEMMA DispatchRoles ==
    ASSUME Types, RolesOK, NEW c \in CPUs, Dispatch(c)
    PROVE  RolesOK'
<1> DEFINE p == cpu[c].cand
<1>1. /\ p \in Slots /\ proc[p].state = "RUNNABLE" /\ proc'[p].state = "RUNNING"
      /\ proc'[p].child = proc[p].child /\ \A q \in Slots : q # p => proc'[q] = proc[q]
      /\ cpu[c].proc = None /\ cpu'[c].proc = p /\ \A d \in CPUs : d # c => cpu'[d] = cpu[d]
  BY DispatchMoves, Zenon DEF Others, OtherCpus
<1> HIDE DEF p
<1>2. \A d \in CPUs : cpu[d].proc # p
  BY <1>1, Zenon DEF RolesOK, OneCPU
<1>3. ASSUME NEW q \in Slots  PROVE proc'[q].state = "RUNNING" <=> \E d \in CPUs : cpu'[d].proc = q
  <2>1. CASE q = p
    BY <1>1, <2>1, Zenon
  <2>2. CASE q # p
    BY <1>1, <2>2, Sizes DEF RolesOK, OneCPU
  <2> QED
    BY <2>1, <2>2, Zenon
<1>4. \A d, e \in CPUs : cpu'[d].proc = cpu'[e].proc /\ cpu'[d].proc # None => d = e
  BY <1>1, <1>2 DEF RolesOK, OneCPU
<1>5. OneCPU'
  BY <1>3, <1>4, Zenon DEF OneCPU
<1>6. \A q \in Slots : proc'[q].child = proc[q].child
  BY <1>1, Zenon
<1>7. ASSUME NEW q \in Slots, proc'[q].child # None
      PROVE  proc'[q].state \in {"RUNNING", "RUNNABLE"} /\ proc'[proc'[q].child].state = "USED"
  <2>1. proc[q].child \in Slots /\ proc[q].state \in {"RUNNING", "RUNNABLE"} /\ proc[proc[q].child].state = "USED"
    BY <1>6, <1>7, ChildType, Zenon DEF RolesOK, ChildOK
  <2>2. proc[q].child # p
    BY <1>1, <2>1, Zenon
  <2> QED
    BY <1>1, <1>6, <1>7, <2>1, <2>2, Zenon
<1>8. ChildOK'
  BY <1>6, <1>7 DEF RolesOK, ChildOK
<1> QED
  BY <1>5, <1>8, Zenon DEF RolesOK

\* fork() takes a slot that is nobody's child.
LEMMA ForkRoles ==
    ASSUME Types, RolesOK, NEW c \in CPUs, Fork(c)
    PROVE  RolesOK'
<1>1. cpu' = cpu
  BY Zenon DEF Fork
<1>2. PICK n \in Slots, p \in Slots :
        /\ n # p /\ proc[n].state = "UNUSED" /\ proc[p].state = "RUNNING" /\ proc[p].child = None
        /\ proc'[n].state = "USED" /\ proc'[n].child = None
        /\ proc'[p].state = "RUNNING" /\ proc'[p].child = n
        /\ \A q \in Slots : q # n /\ q # p => proc'[q] = proc[q]
  BY ForkMoves, ZenonT(40) DEF RolesOK
<1>3. \A q \in Slots : proc'[q].state = "RUNNING" <=> proc[q].state = "RUNNING"
  BY <1>2, Zenon
<1>4. OneCPU'
  BY <1>1, <1>3, Zenon DEF RolesOK, OneCPU
<1>5. \A q \in Slots : proc[q].child # None => proc[q].child # n /\ proc[q].child # p
  BY <1>2, Zenon DEF RolesOK, ChildOK
<1>6. ASSUME NEW q \in Slots, proc'[q].child # None
      PROVE  proc'[q].state \in {"RUNNING", "RUNNABLE"} /\ proc'[proc'[q].child].state = "USED"
  <2>1. CASE q = p
    BY <1>2, <2>1, Zenon
  <2>2. CASE q # p
    <3>1. q # n /\ proc'[q] = proc[q] /\ proc[q].child \in Slots
      BY <1>2, <1>6, <2>2, ChildType, Zenon
    <3>2. proc'[proc[q].child] = proc[proc[q].child]
      BY <1>2, <1>5, <1>6, <3>1, Zenon
    <3> QED
      BY <1>6, <3>1, <3>2 DEF RolesOK, ChildOK
  <2> QED
    BY <2>1, <2>2, Zenon
<1>7. ASSUME NEW q \in Slots, NEW r \in Slots, proc'[q].child = proc'[r].child, proc'[q].child # None
      PROVE  q = r
  <2>1. q # n /\ r # n
    BY <1>2, <1>7, Zenon
  <2>2. CASE q = p \/ r = p
    BY <1>2, <1>5, <1>7, <2>1, <2>2, Sizes, Zenon
  <2>3. CASE q # p /\ r # p
    BY <1>2, <1>7, <2>1, <2>3 DEF RolesOK, ChildOK
  <2> QED
    BY <2>2, <2>3, Zenon
<1> QED
  BY <1>4, <1>6, <1>7, Zenon DEF RolesOK, ChildOK

\* The child that becomes RUNNABLE is on no CPU and has no child.
LEMMA ForkRunRoles ==
    ASSUME Types, RolesOK, NEW c \in CPUs, ForkRun(c)
    PROVE  RolesOK'
<1>1. cpu' = cpu
  BY Zenon DEF ForkRun
<1>2. PICK n \in Slots, p \in Slots :
        /\ n = proc[p].child /\ n # p /\ proc[n].state = "USED" /\ proc[p].state = "RUNNING"
        /\ proc'[n].state = "RUNNABLE" /\ proc'[n].child = proc[n].child
        /\ proc'[p].state = "RUNNING" /\ proc'[p].child = None
        /\ \A q \in Slots : q # n /\ q # p => proc'[q] = proc[q]
  BY ForkRunMoves, ZenonT(40) DEF RolesOK
<1>3. \A q \in Slots : proc'[q].state = "RUNNING" <=> proc[q].state = "RUNNING"
  BY <1>2, Zenon
<1>4. OneCPU'
  BY <1>1, <1>3, Zenon DEF RolesOK, OneCPU
<1>5. proc[n].child = None
  BY <1>2, Zenon DEF RolesOK, ChildOK
<1>6. ASSUME NEW q \in Slots, proc'[q].child # None
      PROVE  /\ q # p /\ q # n /\ proc'[q] = proc[q]
             /\ proc'[q].state \in {"RUNNING", "RUNNABLE"} /\ proc'[proc'[q].child].state = "USED"
  <2>1. q # p /\ q # n /\ proc'[q] = proc[q] /\ proc[q].child \in Slots
    BY <1>2, <1>5, <1>6, ChildType, Zenon
  <2>2. proc[q].child # n /\ proc[q].child # p
    BY <1>2, <1>6, <2>1, Sizes DEF RolesOK, ChildOK
  <2>3. proc'[proc[q].child] = proc[proc[q].child]
    BY <1>2, <2>1, <2>2, Zenon
  <2> QED
    BY <1>6, <2>1, <2>3 DEF RolesOK, ChildOK
<1> QED
  BY <1>4, <1>6 DEF RolesOK, ChildOK

\* A zombie is on no CPU and nobody's unfinished child.
LEMMA ReapRoles ==
    ASSUME Types, RolesOK, NEW c \in CPUs, NEW z \in Slots, Reap(c, z)
    PROVE  RolesOK'
<1>1. cpu' = cpu
  BY Zenon DEF Reap
<1>2. /\ proc[z].state = "ZOMBIE" /\ proc'[z].state = "UNUSED" /\ proc'[z].child = None
      /\ \A q \in Slots : q # z => proc'[q] = proc[q]
  BY ReapMoves, Zenon DEF Others
<1>3. \A q \in Slots : proc'[q].state = "RUNNING" <=> proc[q].state = "RUNNING"
  BY <1>2, Zenon
<1>4. OneCPU'
  BY <1>1, <1>3, Zenon DEF RolesOK, OneCPU
<1>5. ASSUME NEW q \in Slots, proc'[q].child # None
      PROVE  /\ q # z /\ proc'[q] = proc[q]
             /\ proc'[q].state \in {"RUNNING", "RUNNABLE"} /\ proc'[proc'[q].child].state = "USED"
  <2>1. q # z /\ proc'[q] = proc[q] /\ proc[q].child \in Slots
    BY <1>2, <1>5, ChildType, Zenon
  <2>2. proc[q].child # z
    BY <1>2, <1>5, <2>1, Zenon DEF RolesOK, ChildOK
  <2>3. proc'[proc[q].child] = proc[proc[q].child]
    BY <1>2, <2>1, <2>2, Zenon
  <2> QED
    BY <1>5, <2>1, <2>3 DEF RolesOK, ChildOK
<1> QED
  BY <1>4, <1>5 DEF RolesOK, ChildOK

\* The actions that move no process and no CPU.
LEMMA ScanRoles ==
    ASSUME Types, RolesOK, NEW c \in CPUs, Scan(c) \/ NothingToRun(c)
    PROVE  SameRoles
<1>1. proc' = proc
  BY Zenon DEF Scan, NothingToRun
<1>2. cpu'[c].proc = cpu[c].proc /\ OtherCpus(c)
  BY ScanMoves, NothingMoves, PassType, Zenon
<1> QED
  BY <1>1, <1>2, Zenon DEF SameRoles, OtherCpus

\* set_priority() moves nobody.
LEMMA PriorityRoles ==
    ASSUME Types, RolesOK, NEW c \in CPUs, NEW n \in Priorities, SetPriority(c, n)
    PROVE  SameRoles
<1>1. cpu' = cpu
  BY Zenon DEF SetPriority
<1>2. /\ Others(cpu[c].proc)
      /\ proc'[cpu[c].proc].state = proc[cpu[c].proc].state
      /\ proc'[cpu[c].proc].child = proc[cpu[c].proc].child
  BY SetPriorityMoves, Zenon DEF RolesOK
<1> QED
  BY <1>1, <1>2, Zenon DEF SameRoles, Others

\* Counting moves nobody.
LEMMA CountRoles ==
    ASSUME Types, RolesOK, CountSlot
    PROVE  SameRoles
<1>1. cpu' = cpu
  BY Zenon DEF CountSlot
<1>2. Others(clock) /\ proc'[clock].state = proc[clock].state /\ proc'[clock].child = proc[clock].child
  BY CountMoves, CountedType DEF RolesOK
<1> QED
  BY <1>1, <1>2, Zenon DEF SameRoles, Others

\* A burst begins at the present tick, and ticks only grows.
LEMMA StartStep ==
    ASSUME Types, RolesOK, StartOK, Types', Next
    PROVE  StartOK'
<1>1. ticks \in Nat /\ ticks' \in Nat /\ ticks <= ticks'
  <2>1. ticks' = ticks \/ ticks' = ticks + 1
    BY Zenon DEF Next, Scan, Dispatch, NothingToRun, Preempt, Fork, ForkRun, Exit, Sleep, Reap, SetPriority,
           Wakeup, Kill, Tick, CountSlot, WakeSlot, TimerReturn, Yield
  <2> QED
    BY <2>1, Sizes DEF Types
<1>2. ASSUME NEW c \in CPUs  PROVE cpu'[c].start \in {cpu[c].start, 0, ticks}
  <2>1. CASE cpu' = cpu
    BY <2>1, Zenon
  <2>2. ASSUME NEW d \in CPUs, Scan(d)  PROVE cpu'[c].start \in {cpu[c].start, 0, ticks}
    BY <2>2, ScanMoves, Zenon DEF OtherCpus
  <2>3. ASSUME NEW d \in CPUs, Dispatch(d)  PROVE cpu'[c].start \in {cpu[c].start, 0, ticks}
    BY <2>3, DispatchMoves, Zenon DEF OtherCpus
  <2>4. ASSUME NEW d \in CPUs, cpu' = [cpu EXCEPT ![d] = Pass]
        PROVE  cpu'[c].start \in {cpu[c].start, 0, ticks}
    BY <2>4, PassType, CpuType, Zenon DEF OtherCpus
  <2>5. \/ cpu' = cpu
        \/ \E d \in CPUs : Scan(d) \/ Dispatch(d) \/ cpu' = [cpu EXCEPT ![d] = Pass]
    BY Sizes, Zenon DEF Next, NothingToRun, Preempt, Fork, ForkRun, Exit, Sleep, Reap, SetPriority,
           Wakeup, Kill, Tick, CountSlot, WakeSlot, TimerReturn, Yield, SwitchTo
  <2> QED
    BY <2>1, <2>2, <2>3, <2>4, <2>5, Zenon
<1>3. \A c \in CPUs : cpu[c].start \in Nat /\ cpu'[c].start \in Nat
  BY Zenon DEF Types, PassState
<1> QED
  BY <1>1, <1>2, <1>3 DEF StartOK

\* Every step keeps the types and the roles.
LEMMA RolesStep ==
    ASSUME Types, RolesOK, StartOK, Next
    PROVE  Types' /\ RolesOK' /\ StartOK'
<1>1. OneCPU /\ ChildOK
  BY Zenon DEF RolesOK
<1>2. ASSUME NEW c \in CPUs, Scan(c) \/ NothingToRun(c)  PROVE Types' /\ RolesOK'
  BY <1>2, ScanMoves, NothingMoves, ScanRoles, SameRolesOK, Zenon
<1>3. ASSUME NEW c \in CPUs, Dispatch(c)  PROVE Types' /\ RolesOK'
  BY <1>3, DispatchMoves, DispatchRoles, Zenon
<1>4. ASSUME NEW c \in CPUs, Preempt(c)  PROVE Types' /\ RolesOK'
  BY <1>1, <1>4, PreemptMoves, LeavesRoles, Zenon
<1>5. ASSUME NEW c \in CPUs, Fork(c)  PROVE Types' /\ RolesOK'
  BY <1>1, <1>5, ForkMoves, ForkRoles, Zenon
<1>6. ASSUME NEW c \in CPUs, ForkRun(c)  PROVE Types' /\ RolesOK'
  BY <1>1, <1>6, ForkRunMoves, ForkRunRoles, Zenon
<1>7. ASSUME NEW c \in CPUs, Exit(c)  PROVE Types' /\ RolesOK'
  BY <1>1, <1>7, ExitMoves, LeavesRoles, Zenon
<1>8. ASSUME NEW c \in CPUs, NEW k \in {"ticks", "io"}, Sleep(c, k)  PROVE Types' /\ RolesOK'
  BY <1>1, <1>8, SleepMoves, LeavesRoles, Zenon
<1>9. ASSUME NEW c \in CPUs, NEW z \in Slots, Reap(c, z)  PROVE Types' /\ RolesOK'
  BY <1>9, ReapMoves, ReapRoles, Zenon
<1>10. ASSUME NEW c \in CPUs, NEW n \in Priorities, SetPriority(c, n)  PROVE Types' /\ RolesOK'
  BY <1>1, <1>10, SetPriorityMoves, PriorityRoles, SameRolesOK, Zenon
<1>11. ASSUME NEW p \in Slots, Wakeup(p) \/ Kill(p)  PROVE Types' /\ RolesOK'
  BY <1>11, WakeupMoves, WakesRoles, Zenon
<1>12. ASSUME Tick  PROVE Types' /\ RolesOK'
  <2>1. SameRoles
    BY <1>12, Zenon DEF Tick, SameRoles
  <2> QED
    BY <1>12, <2>1, TickMoves, SameRolesOK, Zenon
<1>13. ASSUME CountSlot  PROVE Types' /\ RolesOK'
  BY <1>13, CountMoves, CountRoles, SameRolesOK, Zenon
<1>14. ASSUME WakeSlot  PROVE Types' /\ RolesOK'
  <2>1. CASE proc' = proc
    BY <1>14, <2>1, WakeSlotMoves, SameRolesOK, Zenon DEF SameRoles
  <2>2. CASE \E p \in Slots : Wakes(p)
    BY <1>14, <2>2, WakeSlotMoves, WakesRoles, Zenon
  <2> QED
    BY <1>14, <2>1, <2>2, WakeSlotMoves, Zenon
<1>15. ASSUME TimerReturn  PROVE Types' /\ RolesOK'
  <2>1. CASE UNCHANGED <<proc, cpu>>
    BY <1>1, <1>15, <2>1, TimerReturnMoves, SameRolesOK, Zenon DEF SameRoles
  <2>2. CASE Leaves(0, "RUNNABLE")
    BY <1>1, <1>15, <2>2, Sizes, TimerReturnMoves, LeavesRoles, Zenon
  <2> QED
    BY <1>1, <1>15, <2>1, <2>2, TimerReturnMoves, Zenon
<1>16. Types' /\ RolesOK'
  BY <1>2, <1>3, <1>4, <1>5, <1>6, <1>7, <1>8, <1>9, <1>10, <1>11, <1>12, <1>13, <1>14, <1>15,
     Zenon DEF Next
<1> QED
  BY <1>16, StartStep, Zenon

-----------------------------------------------------------------------------
(***************************************************************************)
(* Every tick of a process's life is counted once.                         *)
(***************************************************************************)
\* What TimesOK says of one slot.
TimeOK(p) ==
    /\ proc[p].state \in Live \cup {"USED"} => Accounted(p) + Pending(p) <= ticks - proc[p].ctime
    /\ proc[p].state = "USED" => Accounted(p) = 0
    /\ proc[p].state \in Live => Accounted(p) + Pending(p) >= ticks - born[p]
    /\ proc[p].state = "ZOMBIE" => /\ Accounted(p) <= proc[p].ttime - proc[p].ctime
                                   /\ Accounted(p) >= proc[p].ttime - born[p]

\* The times are numbers.
LEMMA TimeType ==
    ASSUME Types, NEW p \in Slots
    PROVE  /\ Accounted(p) \in Nat /\ Pending(p) \in {0, 1} /\ ticks \in Nat /\ born[p] \in Nat
           /\ proc[p].ctime \in Nat /\ proc[p].ttime \in Nat /\ proc[p].state \in States
<1>1. proc[p] \in Process
  BY Zenon DEF Types
<1>2. /\ proc[p].stime \in Nat /\ proc[p].retime \in Nat /\ proc[p].rutime \in Nat
      /\ proc[p].ctime \in Nat /\ proc[p].ttime \in Nat /\ proc[p].state \in States
  BY <1>1, Zenon DEF Process
<1>3. Accounted(p) \in Nat
  BY <1>2 DEF Accounted
<1>4. Pending(p) \in {0, 1}
  BY Zenon DEF Pending
<1>5. ticks \in Nat /\ born[p] \in Nat
  BY Sizes DEF Types
<1> QED
  BY <1>2, <1>3, <1>4, <1>5, Zenon

SameKind(p) ==
    /\ proc[p].state \in Live <=> proc'[p].state \in Live
    /\ proc[p].state = "USED" <=> proc'[p].state = "USED"
    /\ proc[p].state = "ZOMBIE" <=> proc'[p].state = "ZOMBIE"

\* A slot that stays alive, while nothing is counted.
LEMMA TimeKept ==
    ASSUME NEW p \in Slots, TimeOK(p), ticks' = ticks, born' = born, Pending(p)' = Pending(p),
           \/ proc'[p] = proc[p]
           \/ SameTimes(p) /\ SameKind(p) /\ proc[p].state # "ZOMBIE"
    PROVE  TimeOK(p)'
<1>1. Accounted(p)' = Accounted(p) /\ proc'[p].ctime = proc[p].ctime
  BY Zenon DEF Accounted, SameTimes
<1>2. CASE proc'[p] = proc[p]
  BY <1>1, <1>2, Zenon DEF TimeOK
<1>3. CASE SameKind(p) /\ proc[p].state # "ZOMBIE"
  BY <1>1, <1>3, Zenon DEF TimeOK, SameKind
<1> QED
  BY <1>2, <1>3, Zenon

\* Leaving a CPU costs and gains no tick.
LEMMA LeavesTimes ==
    ASSUME Types, TimesOK, NEW c \in CPUs, NEW s \in {"RUNNABLE", "SLEEPING"}, Leaves(c, s),
           ticks' = ticks, born' = born, \A p \in Slots : Pending(p)' = Pending(p)
    PROVE  TimesOK'
<1>1. SUFFICES ASSUME NEW p \in Slots  PROVE TimeOK(p)'
  BY Zenon DEF TimesOK, TimeOK
<1>2. TimeOK(p)
  BY Zenon DEF TimesOK, TimeOK
<1>3. CASE p = cpu[c].proc
  <2>1. SameTimes(p) /\ SameKind(p) /\ proc[p].state # "ZOMBIE"
    BY <1>3, Zenon DEF Leaves, SameKind, Live
  <2> QED
    BY <1>2, <2>1, TimeKept, Zenon
<1>4. CASE p # cpu[c].proc
  BY <1>2, <1>4, TimeKept, Zenon DEF Leaves, Others
<1> QED
  BY <1>3, <1>4, Zenon

\* Waking up costs and gains no tick.
LEMMA WakesTimes ==
    ASSUME Types, TimesOK, NEW w, Wakes(w),
           ticks' = ticks, born' = born, \A p \in Slots : Pending(p)' = Pending(p)
    PROVE  TimesOK'
<1>1. SUFFICES ASSUME NEW p \in Slots  PROVE TimeOK(p)'
  BY Zenon DEF TimesOK, TimeOK
<1>2. TimeOK(p)
  BY Zenon DEF TimesOK, TimeOK
<1>3. CASE p = w
  <2>1. SameTimes(p) /\ SameKind(p) /\ proc[p].state # "ZOMBIE"
    BY <1>3, Zenon DEF Wakes, SameKind, Live
  <2> QED
    BY <1>2, <2>1, TimeKept, Zenon
<1>4. CASE p # w
  BY <1>2, <1>4, TimeKept, Zenon DEF Wakes, Others
<1> QED
  BY <1>3, <1>4, Zenon

\* exit() takes tickslock, so no pass of clockintr() is under way.
LEMMA ExitTimes ==
    ASSUME Types, RolesOK, StartOK, TimesOK, NEW c \in CPUs, Exit(c)
    PROVE  TimesOK'
<1>1. SUFFICES ASSUME NEW p \in Slots  PROVE TimeOK(p)'
  BY Zenon DEF TimesOK, TimeOK
<1>2. TimeOK(p)
  BY Zenon DEF TimesOK, TimeOK
<1>3. ticks' = ticks /\ born' = born /\ Pending(p)' = Pending(p) /\ Pending(p) = 0
  BY Zenon DEF Exit, Pending, Counting, TicksFree
<1>4. Types' /\ Leaves(c, "ZOMBIE") /\ proc'[cpu[c].proc].ttime = ticks
  BY ExitMoves, Zenon DEF RolesOK
<1>5. CASE p = cpu[c].proc
  <2>1. /\ SameTimes(p) /\ proc'[p].ttime = ticks
        /\ proc[p].state = "RUNNING" /\ proc'[p].state = "ZOMBIE"
    BY <1>4, <1>5, Zenon DEF Leaves
  <2>2. Accounted(p)' = Accounted(p) /\ proc'[p].ctime = proc[p].ctime
    BY <2>1, Zenon DEF SameTimes, Accounted
  <2>3. Accounted(p) <= ticks - proc[p].ctime /\ Accounted(p) >= ticks - born[p]
    BY <1>2, <1>3, <2>1, TimeType DEF TimeOK, Live
  <2>4. "ZOMBIE" \notin Live \cup {"USED"} /\ "ZOMBIE" # "USED"
    BY Zenon DEF Live
  <2> QED
    BY <1>3, <2>1, <2>2, <2>3, <2>4, Zenon DEF TimeOK
<1>6. CASE p # cpu[c].proc
  BY <1>2, <1>3, <1>4, <1>6, TimeKept, Zenon DEF Leaves, Others
<1> QED
  BY <1>5, <1>6, Zenon

\* fork() stamps ctime under tickslock: the child owes no tick.
LEMMA ForkTimes ==
    ASSUME Types, RolesOK, TimesOK, NEW c \in CPUs, Fork(c)
    PROVE  TimesOK'
<1>1. SUFFICES ASSUME NEW q \in Slots  PROVE TimeOK(q)'
  BY Zenon DEF TimesOK, TimeOK
<1>2. TimeOK(q)
  BY Zenon DEF TimesOK, TimeOK
<1>3. ticks' = ticks /\ born' = born /\ Pending(q)' = Pending(q) /\ Pending(q) = 0
  BY Zenon DEF Fork, Pending, Counting, TicksFree
<1>4. PICK n \in Slots, p \in Slots :
        /\ n # p /\ proc[p].state = "RUNNING"
        /\ proc'[n].state = "USED" /\ proc'[n].ctime = ticks
        /\ proc'[n].stime = 0 /\ proc'[n].retime = 0 /\ proc'[n].rutime = 0
        /\ proc'[p].state = "RUNNING" /\ SameTimes(p)
        /\ \A x \in Slots : x # n /\ x # p => proc'[x] = proc[x]
  BY ForkMoves, ZenonT(40) DEF RolesOK
<1>5. CASE q = n
  <2>1. proc'[q].stime = 0 /\ proc'[q].retime = 0 /\ proc'[q].rutime = 0 /\ proc'[q].ctime = ticks
    BY <1>4, <1>5, Zenon
  <2>2. Accounted(q)' = 0
    BY <2>1 DEF Accounted
  <2>3. 0 + 0 <= ticks - ticks
    BY Sizes DEF Types
  <2>4. "USED" \notin Live /\ "USED" # "ZOMBIE"
    BY Zenon DEF Live
  <2> QED
    BY <1>3, <1>4, <1>5, <2>1, <2>2, <2>3, <2>4, Zenon DEF TimeOK
<1>6. CASE q = p
  <2>1. SameTimes(q) /\ SameKind(q) /\ proc[q].state # "ZOMBIE"
    BY <1>4, <1>6, Zenon DEF SameKind
  <2> QED
    BY <1>2, <1>3, <2>1, TimeKept, Zenon
<1>7. CASE q # n /\ q # p
  BY <1>2, <1>3, <1>4, <1>7, TimeKept, Zenon
<1> QED
  BY <1>5, <1>6, <1>7, Zenon

\* The child becomes RUNNABLE, perhaps in the middle of a pass of clockintr().
LEMMA ForkRunTimes ==
    ASSUME Types, RolesOK, TimesOK, NEW c \in CPUs, ForkRun(c)
    PROVE  TimesOK'
<1>1. SUFFICES ASSUME NEW q \in Slots  PROVE TimeOK(q)'
  BY Zenon DEF TimesOK, TimeOK
<1>2. TimeOK(q)
  BY Zenon DEF TimesOK, TimeOK
<1>3. ticks' = ticks /\ Pending(q)' = Pending(q)
  BY Zenon DEF ForkRun, Pending, Counting
<1>4. PICK n \in Slots, p \in Slots :
        /\ n # p /\ proc[n].state = "USED" /\ proc[p].state = "RUNNING"
        /\ proc'[n].state = "RUNNABLE" /\ SameTimes(n)
        /\ proc'[p].state = "RUNNING" /\ SameTimes(p)
        /\ \A x \in Slots : x # n /\ x # p => proc'[x] = proc[x]
        /\ born' = [born EXCEPT ![n] = ticks]
  BY ForkRunMoves, Zenon DEF RolesOK
<1>5. CASE q = n
  <2>1. Accounted(q)' = Accounted(q) /\ proc'[q].ctime = proc[q].ctime /\ born'[q] = ticks
    BY <1>4, <1>5, Zenon DEF SameTimes, Accounted, Types
  <2>2. /\ Accounted(q) + Pending(q) <= ticks - proc[q].ctime
        /\ Accounted(q) + Pending(q) >= ticks - ticks
    BY <1>2, <1>4, <1>5, TimeType DEF TimeOK
  <2>3. "RUNNABLE" # "USED" /\ "RUNNABLE" # "ZOMBIE"
    OBVIOUS
  <2> QED
    BY <1>3, <1>4, <1>5, <2>1, <2>2, <2>3, Zenon DEF TimeOK
<1>6. CASE q # n
  <2>1. born'[q] = born[q] /\ proc'[q].ctime = proc[q].ctime /\ Accounted(q)' = Accounted(q)
    BY <1>4, <1>6, Zenon DEF Types, SameTimes, Accounted
  <2>2. CASE q = p
    BY <1>2, <1>3, <1>4, <2>1, <2>2, Zenon DEF TimeOK
  <2>3. CASE q # p
    BY <1>2, <1>3, <1>4, <1>6, <2>1, <2>3, Zenon DEF TimeOK
  <2> QED
    BY <2>2, <2>3, Zenon
<1> QED
  BY <1>5, <1>6, Zenon

\* A freed slot owes nothing.
LEMMA ReapTimes ==
    ASSUME Types, TimesOK, NEW c \in CPUs, NEW z \in Slots, Reap(c, z)
    PROVE  TimesOK'
<1>1. SUFFICES ASSUME NEW q \in Slots  PROVE TimeOK(q)'
  BY Zenon DEF TimesOK, TimeOK
<1>2. TimeOK(q)
  BY Zenon DEF TimesOK, TimeOK
<1>3. ticks' = ticks /\ born' = born /\ Pending(q)' = Pending(q)
  BY Zenon DEF Reap, Pending, Counting
<1>4. CASE q = z
  <2>1. proc'[q].state = "UNUSED"
    BY <1>4, ReapMoves, Zenon
  <2> QED
    BY <2>1, Zenon DEF TimeOK, Live
<1>5. CASE q # z
  BY <1>2, <1>3, <1>5, ReapMoves, TimeKept, Zenon DEF Others
<1> QED
  BY <1>4, <1>5, Zenon

\* A dispatch costs and gains no tick.
LEMMA DispatchTimes ==
    ASSUME Types, TimesOK, NEW c \in CPUs, Dispatch(c)
    PROVE  TimesOK'
<1>1. SUFFICES ASSUME NEW q \in Slots  PROVE TimeOK(q)'
  BY Zenon DEF TimesOK, TimeOK
<1>2. TimeOK(q)
  BY Zenon DEF TimesOK, TimeOK
<1>3. ticks' = ticks /\ born' = born /\ Pending(q)' = Pending(q)
  BY Zenon DEF Dispatch, Pending, Counting
<1>4. CASE q = cpu[c].cand
  <2>1. SameTimes(q) /\ proc[q].state = "RUNNABLE" /\ proc'[q].state = "RUNNING"
    BY <1>4, DispatchMoves, Zenon
  <2>2. SameKind(q) /\ proc[q].state # "ZOMBIE"
    BY <2>1, Zenon DEF SameKind, Live
  <2> QED
    BY <1>2, <1>3, <2>1, <2>2, TimeKept, Zenon
<1>5. CASE q # cpu[c].cand
  BY <1>2, <1>3, <1>5, DispatchMoves, TimeKept, Zenon DEF Others
<1> QED
  BY <1>4, <1>5, Zenon

\* set_priority() leaves the times alone.
LEMMA PriorityTimes ==
    ASSUME Types, RolesOK, TimesOK, NEW c \in CPUs, NEW n \in Priorities, SetPriority(c, n)
    PROVE  TimesOK'
<1>1. SUFFICES ASSUME NEW q \in Slots  PROVE TimeOK(q)'
  BY Zenon DEF TimesOK, TimeOK
<1>2. TimeOK(q)
  BY Zenon DEF TimesOK, TimeOK
<1>3. ticks' = ticks /\ born' = born /\ Pending(q)' = Pending(q)
  BY Zenon DEF SetPriority, Pending, Counting
<1>4. CASE q = cpu[c].proc
  <2>1. SameTimes(q) /\ proc[q].state = "RUNNING" /\ proc'[q].state = proc[q].state
    BY <1>4, SetPriorityMoves, Zenon DEF RolesOK
  <2>2. SameKind(q) /\ proc[q].state # "ZOMBIE"
    BY <2>1, Zenon DEF SameKind
  <2> QED
    BY <1>2, <1>3, <2>1, <2>2, TimeKept, Zenon
<1>5. CASE q # cpu[c].proc
  BY <1>2, <1>3, <1>5, SetPriorityMoves, TimeKept, Zenon DEF Others, RolesOK
<1> QED
  BY <1>4, <1>5, Zenon

\* A new tick is owed to every slot.
LEMMA TickTimes ==
    ASSUME Types, TimesOK, Tick
    PROVE  TimesOK'
<1>1. SUFFICES ASSUME NEW q \in Slots  PROVE TimeOK(q)'
  BY Zenon DEF TimesOK, TimeOK
<1>2. TimeOK(q)
  BY Zenon DEF TimesOK, TimeOK
<1>3. proc' = proc /\ born' = born /\ ticks' = ticks + 1 /\ clock = 0 /\ clock' = 1
  BY Zenon DEF Tick
<1>4. Pending(q) = 0 /\ Pending(q)' = 1
  BY <1>3, Sizes DEF Pending, Counting, Slots
<1>5. Accounted(q)' = Accounted(q)
  BY <1>3, Zenon DEF Accounted
<1> QED
  BY <1>2, <1>3, <1>4, <1>5, TimeType DEF TimeOK

\* The slot under the pass gets its tick; the others owe what they owed.
LEMMA CountTimes ==
    ASSUME Types, TimesOK, CountSlot
    PROVE  TimesOK'
<1>1. SUFFICES ASSUME NEW q \in Slots  PROVE TimeOK(q)'
  BY Zenon DEF TimesOK, TimeOK
<1>2. TimeOK(q)
  BY Zenon DEF TimesOK, TimeOK
<1>3. ticks' = ticks /\ born' = born /\ clock \in Slots /\ clock' = clock + 1 /\ Others(clock)
  BY CountMoves, Zenon DEF CountSlot
<1>4. CASE q = clock
  <2>1. Pending(q) = 1 /\ Pending(q)' = 0
    BY <1>3, <1>4, Sizes DEF Pending, Counting, Slots
  <2>2. proc[q] \in Process /\ proc'[q] = Counted(proc[q])
    BY <1>4, CountMoves, Zenon
  <2>3. /\ proc'[q].state = proc[q].state
        /\ proc'[q].ctime = proc[q].ctime /\ proc'[q].ttime = proc[q].ttime
        /\ Accounted(q)' = Accounted(q) + (IF proc[q].state \in Live THEN 1 ELSE 0)
    BY <2>2, CountedType DEF Accounted
  <2>4. "USED" \notin Live /\ "ZOMBIE" \notin Live
    BY Zenon DEF Live
  <2>5. CASE proc[q].state \in Live
    <3>1. Accounted(q)' + Pending(q)' = Accounted(q) + Pending(q)
      BY <2>1, <2>3, <2>5, TimeType
    <3> QED
      BY <1>2, <1>3, <2>3, <2>4, <2>5, <3>1, Zenon DEF TimeOK
  <2>6. CASE proc[q].state \notin Live
    <3>1. Accounted(q)' = Accounted(q)
      BY <2>3, <2>6, TimeType
    <3>2. Accounted(q) + Pending(q) <= ticks - proc[q].ctime => Accounted(q) + 0 <= ticks - proc[q].ctime
      BY <2>1, TimeType
    <3> QED
      BY <1>2, <1>3, <2>1, <2>3, <2>6, <3>1, <3>2, Zenon DEF TimeOK
  <2> QED
    BY <2>5, <2>6, Zenon
<1>5. CASE q # clock
  <2>1. Pending(q)' = Pending(q)
    BY <1>3, <1>5, Sizes DEF Pending, Counting, Slots
  <2> QED
    BY <1>2, <1>3, <1>5, <2>1, TimeKept, Zenon DEF Others
<1> QED
  BY <1>4, <1>5, Zenon

\* Every step keeps the accounts.
LEMMA TimesStep ==
    ASSUME Types, RolesOK, StartOK, TimesOK, Next
    PROVE  TimesOK'
<1>1. OneCPU
  BY Zenon DEF RolesOK
<1>2. ASSUME proc' = proc, ticks' = ticks, born' = born, \A p \in Slots : Pending(p)' = Pending(p)
      PROVE  TimesOK'
  BY <1>2, TimeKept, Zenon DEF TimesOK, TimeOK
<1>3. ASSUME clock' = clock  PROVE \A p \in Slots : Pending(p)' = Pending(p)
  BY <1>3, Zenon DEF Pending, Counting
<1>4. ASSUME NEW c \in CPUs, Scan(c) \/ NothingToRun(c)  PROVE TimesOK'
  BY <1>2, <1>3, <1>4, Zenon DEF Scan, NothingToRun
<1>5. ASSUME NEW c \in CPUs, Dispatch(c)  PROVE TimesOK'
  BY <1>5, DispatchTimes, Zenon
<1>6. ASSUME NEW c \in CPUs, Preempt(c)  PROVE TimesOK'
  <2>1. ticks' = ticks /\ born' = born /\ clock' = clock
    BY <1>6, Zenon DEF Preempt, Yield
  <2> QED
    BY <1>1, <1>3, <1>6, <2>1, PreemptMoves, LeavesTimes, Zenon
<1>7. ASSUME NEW c \in CPUs, Fork(c)  PROVE TimesOK'
  BY <1>7, ForkTimes, Zenon
<1>8. ASSUME NEW c \in CPUs, ForkRun(c)  PROVE TimesOK'
  BY <1>8, ForkRunTimes, Zenon
<1>9. ASSUME NEW c \in CPUs, Exit(c)  PROVE TimesOK'
  BY <1>9, ExitTimes, Zenon
<1>10. ASSUME NEW c \in CPUs, NEW k \in {"ticks", "io"}, Sleep(c, k)  PROVE TimesOK'
  <2>1. ticks' = ticks /\ born' = born /\ clock' = clock
    BY <1>10, Zenon DEF Sleep
  <2> QED
    BY <1>1, <1>3, <1>10, <2>1, SleepMoves, LeavesTimes, Zenon
<1>11. ASSUME NEW c \in CPUs, NEW z \in Slots, Reap(c, z)  PROVE TimesOK'
  BY <1>11, ReapTimes, Zenon
<1>12. ASSUME NEW c \in CPUs, NEW n \in Priorities, SetPriority(c, n)  PROVE TimesOK'
  BY <1>12, PriorityTimes, Zenon
<1>13. ASSUME NEW p \in Slots, Wakeup(p) \/ Kill(p)  PROVE TimesOK'
  BY <1>3, <1>13, WakeupMoves, WakesTimes, Zenon
<1>14. ASSUME WakeSlot  PROVE TimesOK'
  <2>1. \A p \in Slots : Pending(p)' = Pending(p)
    BY <1>14, WakeSlotMoves, Zenon DEF Pending
  <2> QED
    BY <1>2, <1>14, <2>1, WakeSlotMoves, WakesTimes, Zenon
<1>15. ASSUME TimerReturn  PROVE TimesOK'
  <2>1. ~ Counting /\ ~ Counting'
    BY <1>15, Sizes DEF TimerReturn, Returning, Counting, Slots
  <2>2. \A p \in Slots : Pending(p)' = Pending(p)
    BY <2>1, Zenon DEF Pending
  <2>3. ticks' = ticks /\ born' = born
    BY <1>15, Zenon DEF TimerReturn, Yield
  <2>4. Leaves(0, "RUNNABLE") \/ UNCHANGED <<proc, cpu>>
    BY <1>1, <1>15, TimerReturnMoves, Zenon
  <2> QED
    BY <1>2, <2>2, <2>3, <2>4, Sizes, LeavesTimes, Zenon
<1> QED
  BY <1>4, <1>5, <1>6, <1>7, <1>8, <1>9, <1>10, <1>11, <1>12, <1>13, <1>14, <1>15,
     TickTimes, CountTimes, Zenon DEF Next

-----------------------------------------------------------------------------
(***************************************************************************)
(* The candidate of a pass stays the best one seen.                        *)
(***************************************************************************)
\* What CandOK says of one CPU.
BestOK(c) ==
    /\ since[c] \subseteq InState("RUNNABLE")
    /\ \A k \in Slots : since[c] # {} /\ cpu[c].cand = k =>
          /\ proc[k].state = "RUNNABLE"
          /\ policy = "CFSD" => cpu[c].min = Key(k)
          /\ \A q \in since[c] : q < cpu[c].pos => Key(k) <= Key(q)
    /\ cpu[c].cand = None => \A q \in since[c] : q >= cpu[c].pos
    /\ cpu[c].pos = 1 => cpu[c].cand = None

\* No RUNNABLE slot is dispatched, and none changes its key.
KeysKept ==
    /\ policy' = policy
    /\ \A p \in Slots : proc[p].state = "RUNNABLE" => proc'[p].state = "RUNNABLE" /\ Key(p)' = Key(p)

\* The key of a RUNNABLE slot does not depend on what clockintr() counts.
LEMMA RunnableKey ==
    ASSUME Types, policy' = policy, NEW p \in Slots, proc[p].state = "RUNNABLE",
           \/ proc'[p] = proc[p]
           \/ p = clock /\ CountSlot
    PROVE  proc'[p].state = "RUNNABLE" /\ Key(p)' = Key(p)
<1>1. CASE proc'[p] = proc[p]
  BY <1>1, Zenon DEF Key
<1>2. CASE p = clock /\ CountSlot
  <2>1. proc[p] \in Process /\ proc'[p] = Counted(proc[p])
    BY <1>2, CountMoves, Zenon
  <2>2. /\ proc'[p].state = proc[p].state /\ proc'[p].queue_location = proc[p].queue_location
        /\ proc'[p].average_bursttime = proc[p].average_bursttime
        /\ proc'[p].rutime = proc[p].rutime /\ proc'[p].stime = proc[p].stime
        /\ proc'[p].priority = proc[p].priority
    BY <2>1, CountedType
  <2>3. Ratio(proc[p])' = Ratio(proc[p])
    BY <2>2, Zenon DEF Ratio
  <2> QED
    BY <2>2, <2>3, Zenon DEF Key
<1> QED
  BY <1>1, <1>2, Zenon

\* The locals of a pass are slots and numbers.
LEMMA SinceType ==
    ASSUME Types, NEW c \in CPUs
    PROVE  /\ since[c] \subseteq Slots /\ (cpu[c].cand # None => cpu[c].cand \in Slots)
           /\ cpu[c].pos \in Nat \ {0} /\ cpu[c].min \in Nat
<1>1. cpu[c] \in PassState /\ since[c] \subseteq Slots
  BY Zenon DEF Types
<1>2. cpu[c].pos \in 1 .. NPROC + 1 /\ cpu[c].min \in Nat
  BY <1>1, Zenon DEF PassState
<1>3. cpu[c].pos \in Nat \ {0}
  BY <1>2
<1> QED
  BY <1>1, <1>2, <1>3, Zenon DEF PassState

\* A pass that does not move keeps the best candidate, or starts again.
LEMMA BestKept ==
    ASSUME Types, NEW c \in CPUs, BestOK(c), KeysKept, since'[c] = since[c],
           \/ cpu'[c] = Pass
           \/ /\ cpu'[c].cand = cpu[c].cand /\ cpu'[c].pos = cpu[c].pos
              /\ cpu'[c].min = cpu[c].min
    PROVE  BestOK(c)'
<1>1. since'[c] \subseteq InState("RUNNABLE")'
  BY Zenon DEF BestOK, KeysKept, InState
<1>2. CASE cpu'[c] = Pass
  <2>1. cpu'[c].cand = None /\ cpu'[c].pos = 1
    BY <1>2, PassType, Zenon
  <2>2. \A q \in Slots : q >= 1
    BY Sizes
  <2>3. None \notin Slots /\ \A q \in since'[c] : q \in Slots
    BY SinceType, Sizes, Zenon
  <2> QED
    BY <1>1, <2>1, <2>2, <2>3, Zenon DEF BestOK
<1>3. CASE cpu'[c].cand = cpu[c].cand /\ cpu'[c].pos = cpu[c].pos /\ cpu'[c].min = cpu[c].min
  <2>1. ASSUME NEW k \in Slots, since'[c] # {}, cpu'[c].cand = k
        PROVE  /\ proc'[k].state = "RUNNABLE"
               /\ policy' = "CFSD" => cpu'[c].min = Key(k)'
               /\ \A q \in since'[c] : q < cpu'[c].pos => Key(k)' <= Key(q)'
    <3>1. /\ proc[k].state = "RUNNABLE"
          /\ policy = "CFSD" => cpu[c].min = Key(k)
          /\ \A q \in since[c] : q < cpu[c].pos => Key(k) <= Key(q)
      BY <1>3, <2>1, Zenon DEF BestOK
    <3>2. \A q \in since[c] : Key(q)' = Key(q)
      BY Zenon DEF BestOK, KeysKept, InState
    <3>3. proc'[k].state = "RUNNABLE" /\ Key(k)' = Key(k) /\ policy' = policy
      BY <3>1, Zenon DEF KeysKept
    <3> QED
      BY <1>3, <3>1, <3>2, <3>3, Zenon
  <2> QED
    BY <1>1, <1>3, <2>1, Zenon DEF BestOK
<1> QED
  BY <1>2, <1>3, Zenon

\* Slots are ordered like numbers from 1.
LEMMA SlotOrder ==
    \A p, q \in Slots : /\ q < p + 1 => q < p \/ q = p
                        /\ q >= p /\ q # p => q >= p + 1
                        /\ q < p => ~ (q >= p)
                        /\ q >= 1 /\ p + 1 # 1 /\ p # None
  BY SchedSizes DEF Slots, None

\* The pass looks at one more slot.
LEMMA ScanBest ==
    ASSUME Types, NEW c \in CPUs, BestOK(c), Scan(c)
    PROVE  BestOK(c)'
<1>1. PICK p \in Slots : p = cpu[c].pos
  BY ScanMoves, Zenon
<1>2. /\ Types' /\ cpu'[c].pos = p + 1
      /\ \/ /\ proc[p].state = "RUNNABLE" /\ Better(c, p)
            /\ cpu'[c].cand = p /\ (policy = "CFSD" => cpu'[c].min = Key(p))
         \/ /\ ~ (proc[p].state = "RUNNABLE" /\ Better(c, p))
            /\ cpu'[c].cand = cpu[c].cand /\ cpu'[c].min = cpu[c].min
  BY <1>1, ScanMoves, Zenon
<1>3. /\ proc' = proc /\ policy' = policy
      /\ since'[c] = IF p = 1 THEN InState("RUNNABLE") ELSE since[c]
  BY <1>1, Zenon DEF Scan, Types
<1>4. \A q \in Slots : Key(q)' = Key(q) /\ Key(q) \in Nat
  BY <1>3, KeyType, Zenon DEF Key
<1>5. /\ since'[c] \subseteq InState("RUNNABLE") /\ since'[c] \subseteq InState("RUNNABLE")'
      /\ since'[c] \subseteq Slots
  BY <1>3, Zenon DEF BestOK, InState
<1>6. p = 1 => cpu[c].cand = None
  BY <1>1, Zenon DEF BestOK
\* Either all slots below p are worse than the candidate, or there is none.
<1>7. cpu[c].cand = None => \A q \in since'[c] : q >= p
  <2>1. CASE p = 1
    BY <1>5, <2>1, SlotOrder, Zenon
  <2>2. CASE p # 1
    BY <1>1, <1>3, <2>2, Zenon DEF BestOK
  <2> QED
    BY <2>1, <2>2, Zenon
<1>8. ASSUME NEW k \in Slots, cpu[c].cand = k, since'[c] # {}
      PROVE  /\ p # 1 /\ proc[k].state = "RUNNABLE"
             /\ Key(k) = IF policy = "CFSD" THEN cpu[c].min ELSE Key(k)
             /\ \A q \in since'[c] : q < p => Key(k) <= Key(q)
  <2>1. p # 1
    BY <1>6, <1>8, SlotOrder, Zenon
  <2> QED
    BY <1>1, <1>3, <1>8, <2>1, Zenon DEF BestOK
<1>9. CASE proc[p].state = "RUNNABLE" /\ Better(c, p)
  <2>1. cpu'[c].cand = p /\ (policy = "CFSD" => cpu'[c].min = Key(p))
    BY <1>2, <1>9, Zenon
  <2>2. ASSUME NEW q \in since'[c], q < p + 1  PROVE Key(p) <= Key(q)
    <3>1. CASE q = p
      BY <1>4, <3>1
    <3>2. CASE q # p
      <4>1. q \in Slots /\ q < p
        BY <1>5, <2>2, <3>2, SlotOrder, Zenon
      <4>2. PICK k \in Slots : cpu[c].cand = k
        <5>1. cpu[c].cand # None
          BY <1>7, <4>1, SlotOrder, Zenon
        <5> QED
          BY <5>1, SinceType, Zenon
      <4>3. Key(k) <= Key(q) /\ Key(k) = IF policy = "CFSD" THEN cpu[c].min ELSE Key(k)
        BY <1>8, <4>1, <4>2, Zenon
      <4>4. Key(p) < IF policy = "CFSD" THEN cpu[c].min ELSE Key(k)
        BY <1>9, <4>2, SlotOrder, Zenon DEF Better
      <4> QED
        BY <1>4, <4>1, <4>3, <4>4
    <3> QED
      BY <3>1, <3>2, Zenon
  <2>3. p + 1 # 1 /\ p # None
    BY SlotOrder, Zenon
  <2> QED
    BY <1>2, <1>3, <1>4, <1>5, <1>9, <2>1, <2>2, <2>3, Zenon DEF BestOK
<1>10. CASE ~ (proc[p].state = "RUNNABLE" /\ Better(c, p))
  <2>1. cpu'[c].cand = cpu[c].cand /\ cpu'[c].min = cpu[c].min
    BY <1>2, <1>10, Zenon
  <2>2. p \in since'[c] => ~ Better(c, p)
    BY <1>5, <1>10, Zenon DEF InState
  <2>3. ASSUME cpu'[c].cand = None, NEW q \in since'[c]  PROVE q >= p + 1
    <3>1. q >= p /\ q # p /\ q \in Slots
      BY <1>5, <1>7, <2>1, <2>2, <2>3, Zenon DEF Better
    <3> QED
      BY <3>1, SlotOrder, Zenon
  <2>4. ASSUME NEW k \in Slots, since'[c] # {}, cpu'[c].cand = k
        PROVE  /\ proc[k].state = "RUNNABLE" /\ p # 1
               /\ policy = "CFSD" => cpu'[c].min = Key(k)
               /\ \A q \in since'[c] : q < p + 1 => Key(k) <= Key(q)
    <3>1. /\ proc[k].state = "RUNNABLE" /\ p # 1
          /\ Key(k) = IF policy = "CFSD" THEN cpu[c].min ELSE Key(k)
          /\ \A q \in since'[c] : q < p => Key(k) <= Key(q)
      BY <1>8, <2>1, <2>4, Zenon
    <3>2. ASSUME p \in since'[c]  PROVE Key(k) <= Key(p)
      <4>1. ~ (Key(p) < IF policy = "CFSD" THEN cpu[c].min ELSE Key(k))
        BY <2>1, <2>2, <2>4, <3>2, Zenon DEF Better
      <4> QED
        BY <1>4, <3>1, <4>1
    <3>3. \A q \in since'[c] : q < p + 1 => q < p \/ q = p
      BY <1>5, SlotOrder, Zenon
    <3> QED
      BY <2>1, <3>1, <3>2, <3>3, Zenon
  <2>5. p + 1 # 1
    BY SlotOrder, Zenon
  <2> QED
    BY <1>2, <1>3, <1>4, <1>5, <2>1, <2>3, <2>4, <2>5, Zenon DEF BestOK
<1> QED
  BY <1>9, <1>10, Zenon

\* Between two dispatches the keys of the RUNNABLE slots stand still.
LEMMA KeysStep ==
    ASSUME Types, RolesOK, StartOK, Next, \A c \in CPUs : ~ Dispatch(c)
    PROVE  KeysKept
<1>1. OneCPU /\ ChildOK
  BY Zenon DEF RolesOK
<1>2. policy' = policy
  BY Zenon DEF Next, Scan, NothingToRun, Preempt, Fork, ForkRun, Exit, Sleep, Reap, SetPriority,
         Wakeup, Kill, Tick, CountSlot, WakeSlot, TimerReturn, Yield
<1>3. SUFFICES ASSUME NEW p \in Slots, proc[p].state = "RUNNABLE"
               PROVE  proc'[p] = proc[p] \/ (p = clock /\ CountSlot)
  BY <1>2, RunnableKey, Zenon DEF KeysKept
<1>4. ASSUME NEW c \in CPUs, NEW s, Leaves(c, s)  PROVE proc'[p] = proc[p]
  BY <1>3, <1>4, Zenon DEF Leaves, Others
<1>5. ASSUME NEW w, Wakes(w)  PROVE proc'[p] = proc[p]
  BY <1>3, <1>5, Zenon DEF Wakes, Others
<1>6. ASSUME NEW c \in CPUs, Scan(c) \/ NothingToRun(c)  PROVE proc'[p] = proc[p]
  BY <1>6, Zenon DEF Scan, NothingToRun
<1>7. ASSUME NEW c \in CPUs, Preempt(c)  PROVE proc'[p] = proc[p]
  BY <1>1, <1>4, <1>7, PreemptMoves, Zenon
<1>8. ASSUME NEW c \in CPUs, Fork(c)  PROVE proc'[p] = proc[p]
  BY <1>1, <1>3, <1>8, ForkMoves, Zenon
<1>9. ASSUME NEW c \in CPUs, ForkRun(c)  PROVE proc'[p] = proc[p]
  BY <1>1, <1>3, <1>9, ForkRunMoves, Zenon
<1>10. ASSUME NEW c \in CPUs, Exit(c)  PROVE proc'[p] = proc[p]
  BY <1>1, <1>4, <1>10, ExitMoves, Zenon
<1>11. ASSUME NEW c \in CPUs, NEW k \in {"ticks", "io"}, Sleep(c, k)  PROVE proc'[p] = proc[p]
  BY <1>1, <1>4, <1>11, SleepMoves, Zenon
<1>12. ASSUME NEW c \in CPUs, NEW z \in Slots, Reap(c, z)  PROVE proc'[p] = proc[p]
  BY <1>3, <1>12, ReapMoves, Zenon DEF Others
<1>13. ASSUME NEW c \in CPUs, NEW n \in Priorities, SetPriority(c, n)  PROVE proc'[p] = proc[p]
  BY <1>1, <1>3, <1>13, SetPriorityMoves, Zenon DEF Others
<1>14. ASSUME NEW w \in Slots, Wakeup(w) \/ Kill(w)  PROVE proc'[p] = proc[p]
  BY <1>5, <1>14, WakeupMoves, Zenon
<1>15. ASSUME Tick  PROVE proc'[p] = proc[p]
  BY <1>15, Zenon DEF Tick
<1>16. ASSUME CountSlot  PROVE proc'[p] = proc[p] \/ p = clock
  BY <1>16, CountMoves, Zenon DEF Others
<1>17. ASSUME WakeSlot  PROVE proc'[p] = proc[p]
  BY <1>5, <1>17, WakeSlotMoves, Zenon
<1>18. ASSUME TimerReturn  PROVE proc'[p] = proc[p]
  BY <1>1, <1>4, <1>18, Sizes, TimerReturnMoves, Zenon
<1> QED
  BY <1>3, <1>6, <1>7, <1>8, <1>9, <1>10, <1>11, <1>12, <1>13, <1>14, <1>15, <1>16, <1>17, <1>18,
     Zenon DEF Next

\* Every step keeps the candidates.
LEMMA CandStep ==
    ASSUME Types, RolesOK, StartOK, CandOK, Next
    PROVE  CandOK'
<1>1. SUFFICES ASSUME NEW c \in CPUs  PROVE BestOK(c)'
  BY Zenon DEF CandOK, BestOK
<1>2. BestOK(c)
  BY Zenon DEF CandOK, BestOK
<1>3. ASSUME NEW d \in CPUs, Dispatch(d)  PROVE BestOK(c)'
  <2>1. since'[c] = {} /\ (cpu'[c].pos = 1 => cpu'[c].cand = None)
    BY <1>2, <1>3, DispatchMoves, Zenon DEF OtherCpus, BestOK
  <2> QED
    BY <2>1, Zenon DEF BestOK
<1>4. CASE \A d \in CPUs : ~ Dispatch(d)
  <2>1. KeysKept
    BY <1>4, KeysStep, Zenon
  <2>2. CASE Scan(c)
    BY <1>2, <2>2, ScanBest, Zenon
  <2>3. ASSUME NEW d \in CPUs, d # c, Scan(d)  PROVE BestOK(c)'
    <3>1. since'[c] = since[c] /\ cpu'[c] = cpu[c]
      BY <2>3, ScanMoves, Zenon DEF Scan, OtherCpus, Types
    <3> QED
      BY <1>2, <2>1, <3>1, BestKept, Zenon
  <2>4. ASSUME since' = since, cpu' = cpu  PROVE BestOK(c)'
    BY <1>2, <2>1, <2>4, BestKept, Zenon
  <2>5. ASSUME NEW d \in CPUs, since' = since, cpu' = [cpu EXCEPT ![d] = Pass]  PROVE BestOK(c)'
    <3>1. cpu'[c] = Pass \/ cpu'[c] = cpu[c]
      BY <2>5, Zenon DEF Types
    <3> QED
      BY <1>2, <2>1, <2>5, <3>1, BestKept, Zenon
  <2>6. \/ \E d \in CPUs : Scan(d)
        \/ since' = since /\ cpu' = cpu
        \/ since' = since /\ \E d \in CPUs : cpu' = [cpu EXCEPT ![d] = Pass]
    BY <1>4, Sizes, ZenonT(40) DEF Next, NothingToRun, Preempt, Fork, ForkRun, Exit, Sleep, Reap, SetPriority,
           Wakeup, Kill, Tick, CountSlot, WakeSlot, TimerReturn, Yield, SwitchTo
  <2> QED
    BY <2>2, <2>3, <2>4, <2>5, <2>6, Zenon
<1> QED
  BY <1>3, <1>4, Zenon

-----------------------------------------------------------------------------
(***************************************************************************)
(* The invariant.                                                          *)
(***************************************************************************)
LEMMA InitInv == Init => SchedInv
<1> SUFFICES ASSUME Init PROVE SchedInv
  OBVIOUS
<1> DEFINE first == [New EXCEPT !.state = "RUNNABLE", !.queue_location = 1]
<1>1. ticks = 0
  BY Zenon DEF Init
<1>2. /\ first \in Process /\ first.state = "RUNNABLE" /\ first.child = None /\ first.ctime = 0
      /\ first.stime = 0 /\ first.retime = 0 /\ first.rutime = 0
  <2>1. ticks \in Nat
    BY <1>1, Zenon
  <2>2. PICK n \in Process : n = New
    BY <2>1, NewRecord, Zenon
  <2>3. n.child = None /\ n.ctime = 0 /\ n.stime = 0 /\ n.retime = 0 /\ n.rutime = 0
    BY <1>1, <2>1, <2>2, NewRecord, Zenon
  <2>4. first = [n EXCEPT !.state = "RUNNABLE", !.queue_location = 1]
    BY <2>2, Zenon
  <2> QED
    BY <2>3, <2>4, Zenon DEF Process, States
<1>3. /\ proc \in [Slots -> Process]
      /\ proc[initproc] = first /\ \A p \in Slots : p # initproc => proc[p] = Free
  <2> HIDE DEF first
  <2>1. proc = [p \in Slots |-> IF p = initproc THEN first ELSE Free]
    BY Zenon DEF Init, first
  <2> QED
    BY <1>2, <2>1, FreeType, Sizes, Zenon
<1> HIDE DEF first
<1>4. Types
  <2>1. cpu \in [CPUs -> PassState] /\ since \in [CPUs -> SUBSET Slots] /\ born \in [Slots -> Nat]
    BY PassType, Zenon DEF Init
  <2>2. queue_counter \in Nat /\ ticks \in 0 .. MaxTicks /\ clock \in 0 .. 2 * NPROC + 1
    BY Sizes DEF Init
  <2> QED
    BY <1>3, <2>1, <2>2, Zenon DEF Init, Types
<1>5. /\ \A c \in CPUs : cpu[c] = Pass /\ since[c] = {}
      /\ \A p \in Slots : proc[p].state \in {"RUNNABLE", "UNUSED"} /\ proc[p].child = None
  BY <1>2, <1>3, FreeType, Zenon DEF Init
<1>6. OneCPU /\ ChildOK
  BY <1>5, PassType, Sizes, Zenon DEF OneCPU, ChildOK
<1>7. StartOK
  BY <1>1, <1>5, PassType DEF StartOK
<1>8. CandOK
  BY <1>5, PassType, Sizes, Zenon DEF CandOK
<1>9. TimesOK
  <2>1. SUFFICES ASSUME NEW p \in Slots  PROVE TimeOK(p)
    BY Zenon DEF TimesOK, TimeOK
  <2>2. CASE p = initproc
    <3>1. proc[p].state = "RUNNABLE" /\ proc[p].ctime = 0 /\ Accounted(p) = 0
      BY <1>2, <1>3, <2>2 DEF Accounted
    <3>2. Pending(p) = 0 /\ born[p] = 0
      BY Sizes, Zenon DEF Init, Pending, Counting
    <3> QED
      BY <1>1, <3>1, <3>2 DEF TimeOK
  <2>3. CASE p # initproc
    <3>1. proc[p].state = "UNUSED"
      BY <1>3, <2>3, FreeType, Zenon
    <3> QED
      BY <3>1, Zenon DEF TimeOK, Live
  <2> QED
    BY <2>2, <2>3, Zenon
<1> QED
  BY <1>4, <1>6, <1>7, <1>8, <1>9, Zenon DEF SchedInv

\* Every step keeps the invariant.
LEMMA StepInv == SchedInv /\ [Next]_vars => SchedInv'
<1> SUFFICES ASSUME SchedInv, [Next]_vars PROVE SchedInv'
  OBVIOUS
<1>1. Types /\ RolesOK /\ StartOK /\ TimesOK /\ CandOK
  BY Zenon DEF SchedInv, RolesOK
<1>2. CASE Next
  BY <1>1, <1>2, RolesStep, TimesStep, CandStep, Zenon DEF SchedInv, RolesOK
<1>3. CASE UNCHANGED vars
  <2>1. /\ policy' = policy /\ proc' = proc /\ queue_counter' = queue_counter /\ ticks' = ticks
        /\ clock' = clock /\ cpu' = cpu /\ since' = since /\ born' = born
    BY <1>3, Zenon DEF vars
  <2>2. Types' /\ StartOK'
    BY <1>1, <2>1, Zenon DEF Types, StartOK
  <2>3. RolesOK'
    BY <1>1, <2>1, SameRolesOK, Zenon DEF SameRoles
  <2>4. TimesOK'
    BY <1>1, <2>1, Zenon DEF TimesOK, Accounted, Pending, Counting
  <2>5. CandOK'
    BY <1>1, <2>1, Zenon DEF CandOK, InState, Key
  <2> QED
    BY <2>2, <2>3, <2>4, <2>5, Zenon DEF SchedInv, RolesOK
<1> QED
  BY <1>2, <1>3, Zenon

\* The inductive invariant holds in every reachable state.
LEMMA InvAlways == Spec => []SchedInv
  BY InitInv, StepInv, PTL DEF Spec

-----------------------------------------------------------------------------
(***************************************************************************)
(* The theorems.                                                           *)
(***************************************************************************)
\* A process runs on one CPU at most, and exactly when it is RUNNING, under
\* every policy: the candidate that scheduler() chose without its lock is
\* checked again under the lock before swtch().
THEOREM RunsOnOneCPU == Spec => []OneCPU
<1>1. SchedInv => OneCPU
  BY Zenon DEF SchedInv
<1> QED
  BY <1>1, InvAlways, PTL

\* The times that wait_stat() reports add up: clockintr() counts each tick
\* of a process's life once, for every interleaving of its pass with the
\* processes that change state under it.
THEOREM EveryTickCounted == Spec => []TicksAddUp
<1>1. SchedInv => TicksAddUp
  <2> SUFFICES ASSUME SchedInv PROVE TicksAddUp
    OBVIOUS
  <2>1. ASSUME NEW p \in Slots, proc[p].state \in Live
        PROVE  Accounted(p) <= ticks - proc[p].ctime /\ Accounted(p) >= ticks - born[p] - Pending(p)
    <3>1. /\ Accounted(p) + Pending(p) <= ticks - proc[p].ctime
          /\ Accounted(p) + Pending(p) >= ticks - born[p]
      BY <2>1, Zenon DEF SchedInv, TimesOK
    <3> QED
      BY <3>1, TimeType DEF SchedInv
  <2>2. ASSUME NEW p \in Slots, proc[p].state = "ZOMBIE"
        PROVE  /\ Accounted(p) <= proc[p].ttime - proc[p].ctime
               /\ Accounted(p) >= proc[p].ttime - born[p]
    BY <2>2, Zenon DEF SchedInv, TimesOK
  <2> QED
    BY <2>1, <2>2, Zenon DEF TicksAddUp, InState, Live
<1> QED
  BY <1>1, InvAlways, PTL

\* The policy's promise: unless another CPU dispatched somebody during the
\* pass, scheduler() dispatches a process whose key is minimal among those
\* that were RUNNABLE all through the pass.
THEOREM PolicyKept == Spec => PicksMinimum
<1>1. SchedInv /\ [Next]_vars =>
        [\A c \in CPUs : Dispatch(c) =>
            \A q \in since[c] : cpu[c].cand \in since[c] => Key(cpu[c].cand) <= Key(q)]_vars
  <2> SUFFICES ASSUME SchedInv, NEW c \in CPUs, Dispatch(c), NEW q \in since[c]
               PROVE  Key(cpu[c].cand) <= Key(q)
    BY Zenon
  <2>1. Types /\ BestOK(c)
    BY Zenon DEF SchedInv, CandOK, BestOK
  <2>2. PICK k \in Slots : k = cpu[c].cand
    BY <2>1, DispatchMoves, Zenon
  <2>3. q \in Slots /\ q < cpu[c].pos
    <3>1. q \in Slots /\ cpu[c].pos = NPROC + 1
      BY <2>1, SinceType, Zenon DEF Dispatch, PassDone
    <3> QED
      BY <3>1, Sizes DEF Slots
  <2> QED
    BY <2>1, <2>2, <2>3, Zenon DEF BestOK
<1> QED
  BY <1>1, InvAlways, PTL DEF Spec, PicksMinimum

=============================================================================
