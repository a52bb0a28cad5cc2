------------------------------ MODULE LogProofs ------------------------------
(***************************************************************************)
(* Proofs about Log, for every number of processes and blocks and every    *)
(* size of the log: the log is never full, commit() runs alone, nobody     *)
(* sleeps in begin_op() forgotten, and a crash finds all of a transaction  *)
(* or nothing of it.                                                       *)
(***************************************************************************)
EXTENDS Log, FiniteSetTheorems, TLAPS

-----------------------------------------------------------------------------
(***************************************************************************)
(* The first invariant: who is where, and what begin_op() has reserved.    *)
(* Room has one element for each block that an active call may still log   *)
(* out of the MAXOPBLOCKS reserved for it.                                 *)
(***************************************************************************)
In == {o \in Ops : pc[o] = "in"}
Room == {x \in In \X (1 .. MAXOPBLOCKS) : x[2] > Cardinality(wrote[x[1]])}

InCommit == {"write_log", "write_head", "install", "erase", "done"}

CallsOK ==
    /\ outstanding = Cardinality(In)
    /\ committing => outstanding = 0
    /\ committing <=> phase \in InCommit
    /\ committing <=> \E o \in Ops : pc[o] = "commit"
    /\ \A o, p \in Ops : pc[o] = "commit" /\ pc[p] = "commit" => o = p
    /\ Recovering => \A o \in Ops : pc[o] = "user"
    /\ \A o \in Ops : pc[o] = "asleep" => committing \/ outstanding > 0

WroteOK == \A o \in Ops :
    /\ pc[o] # "in" => wrote[o] = {}
    /\ wrote[o] \subseteq Range1(lh)
    /\ IsFiniteSet(wrote[o]) /\ Cardinality(wrote[o]) <= OpBlocks

RoomOK == Recovering \/ Len(lh) + Cardinality(Room) <= LOGSIZE

\* A call that is alone has logged all there is in the log, or those that
\* were active with it have left something of their reservations unused.
AloneOK == \A o \in Ops : In = {o} =>
    \/ Len(lh) <= Cardinality(wrote[o])
    \/ Len(lh) + Cardinality(Room) + (MAXOPBLOCKS - OpBlocks) <= LOGSIZE

CallInv == TypeOK /\ CallsOK /\ WroteOK /\ RoomOK /\ AloneOK

-----------------------------------------------------------------------------
(***************************************************************************)
(* The second invariant: what the header, the log blocks, the home blocks  *)
(* and the cache hold in each phase.                                       *)
(***************************************************************************)
Distinct(s) == \A j, k \in 1 .. Len(s) : s[j] = s[k] => j = k

HeadOK ==
    /\ Distinct(lh) /\ Distinct(dhead)
    /\ Len(lh) < NLOG /\ Len(dhead) < NLOG
    /\ phase \in {"write_log", "install", "reinstall"} => tail \in 1 .. Len(lh)
    /\ phase \in {"idle", "write_log", "write_head", "done"} => dhead = <<>>
    /\ phase = "done" => lh = <<>>
    /\ phase = "read_head" => lh = <<>>
    /\ phase = "write_head" => lh # <<>>
    /\ phase = "idle" /\ outstanding = 0 => lh = <<>>
    /\ phase \in {"install", "erase", "reinstall", "clear"} => dhead = lh

CacheOK ==
    /\ \A b \in Blocks : b \notin Range1(lh) => cache[b] = disk[b]
    /\ Recovering \/ phase = "erase" => cache = disk

Logged(k) == (phase = "write_log" /\ k < tail) \/ phase \in {"write_head", "install", "erase"}
Installed(k) == (phase \in {"install", "reinstall"} /\ k < tail) \/ phase \in {"erase", "clear"}

DataOK == \A k \in 1 .. Len(lh) :
    /\ Logged(k) => dlog[k] = cache[lh[k]]
    /\ Installed(k) => disk[lh[k]] = dlog[k]

Pinned == IF phase = "install" THEN {lh[k] : k \in tail .. Len(lh)}
          ELSE IF phase \in {"idle", "write_log", "write_head", "done"} THEN Range1(lh) ELSE {}

PinsOK == \A b \in Blocks : pins[b] = IF b \in Pinned THEN 1 ELSE 0

DiskInv == HeadOK /\ CacheOK /\ DataOK /\ PinsOK

Inv == CallInv /\ DiskInv

-----------------------------------------------------------------------------
(***************************************************************************)
(* Counting                                                                *)
(***************************************************************************)
LEMMA Finite ==
    /\ \A S \in SUBSET Ops : IsFiniteSet(S) /\ Cardinality(S) \in Nat
    /\ \A S \in SUBSET (Ops \X (1 .. MAXOPBLOCKS)) : IsFiniteSet(S) /\ Cardinality(S) \in Nat
<1>1. IsFiniteSet(1 .. MAXOPBLOCKS)
  BY LogSizes, FS_Interval
<1>2. IsFiniteSet(Ops \X (1 .. MAXOPBLOCKS))
  BY <1>1, FiniteOps, FS_Product, Zenon
<1> QED
  BY <1>2, FiniteOps, FS_Subset, FS_CardinalityType, Zenon

\* The pairs of one call are as many as the numbers of the range.
LEMMA Column ==
    ASSUME NEW o, NEW m \in Int, NEW n \in Int, m <= n + 1
    PROVE  IsFiniteSet({o} \X (m .. n)) /\ Cardinality({o} \X (m .. n)) = n - m + 1
<1> DEFINE S == {o}
           T == m .. n
<1>1. IsFiniteSet(S) /\ Cardinality(S) = 1
  BY FS_Singleton, Zenon
<1>2. IsFiniteSet(T) /\ Cardinality(T) = n - m + 1
  BY FS_Interval
<1> HIDE DEF S, T
<1>3. IsFiniteSet(S \X T) /\ Cardinality(S \X T) = Cardinality(S) * Cardinality(T)
  BY <1>1, <1>2, FS_Product, Zenon
<1>4. Cardinality(S \X T) = n - m + 1
  BY <1>1, <1>2, <1>3
<1> QED
  BY <1>3, <1>4, Zenon DEF S, T

\* Room is a set of pairs of a call and a block number.
LEMMA RoomType == Room \subseteq Ops \X (1 .. MAXOPBLOCKS) /\ In \subseteq Ops
BY Zenon DEF Room, In

\* While a call is active, nobody commits and recovery is over.
LEMMA ActiveIdle ==
    ASSUME TypeOK, CallsOK, NEW o \in Ops, pc[o] = "in"
    PROVE  outstanding > 0 /\ ~ committing /\ phase = "idle" /\ ~ Recovering
<1>1. In # {} /\ In \subseteq Ops
  BY Zenon DEF In
<1>2. Cardinality(In) \in Nat /\ Cardinality(In) # 0
  BY <1>1, Finite, FS_EmptySet, Zenon
<1>3. outstanding > 0
  BY <1>2 DEF CallsOK
<1>4. ~ committing /\ ~ Recovering
  BY <1>3 DEF CallsOK
<1> QED
  BY <1>3, <1>4, Zenon DEF CallsOK, Recovering, InCommit, TypeOK, Phases

\* Nobody is active when the counter is zero.
LEMMA NobodyActive ==
    ASSUME CallsOK, WroteOK, outstanding = 0
    PROVE  In = {} /\ Room = {} /\ \A o \in Ops : pc[o] # "in" /\ wrote[o] = {}
<1>1. In \subseteq Ops
  BY Zenon DEF In
<1>2. In = {}
  BY <1>1, Finite, FS_EmptySet, Zenon DEF CallsOK
<1> QED
  BY <1>2, Zenon DEF In, Room, WroteOK

\* What an active call reserves and never uses.
LEMMA SpareRoom ==
    ASSUME WroteOK, NEW o \in In
    PROVE  LET Spare == {o} \X (OpBlocks + 1 .. MAXOPBLOCKS)
           IN  IsFiniteSet(Spare) /\ Cardinality(Spare) = MAXOPBLOCKS - OpBlocks /\ Spare \in SUBSET Room
<1>1. OpBlocks \in Nat /\ OpBlocks + 1 \in Int /\ MAXOPBLOCKS \in Int /\ OpBlocks + 1 <= MAXOPBLOCKS + 1
  BY LogSizes
<1> DEFINE Spare == {o} \X (OpBlocks + 1 .. MAXOPBLOCKS)
<1>2. IsFiniteSet(Spare) /\ Cardinality(Spare) = MAXOPBLOCKS - (OpBlocks + 1) + 1
  BY <1>1, Column, Zenon
<1>3. IsFiniteSet(wrote[o]) /\ Cardinality(wrote[o]) <= OpBlocks
  BY Zenon DEF WroteOK, In
<1>4. Cardinality(wrote[o]) \in Nat
  BY <1>3, FS_CardinalityType, Zenon
<1>5. \A k \in OpBlocks + 1 .. MAXOPBLOCKS : k \in 1 .. MAXOPBLOCKS /\ k > Cardinality(wrote[o])
  BY <1>1, <1>3, <1>4
<1>6. Spare \in SUBSET Room
  BY <1>5, Zenon DEF Room
<1> HIDE DEF Spare
<1>7. Cardinality(Spare) = MAXOPBLOCKS - OpBlocks
  BY <1>1, <1>2
<1> QED
  BY <1>2, <1>6, <1>7, Zenon DEF Spare

\* The blocks reserved by active calls, at most.
LEMMA RoomReserved == Cardinality(Room) <= Cardinality(In) * MAXOPBLOCKS
<1>1. IsFiniteSet(In) /\ IsFiniteSet(1 .. MAXOPBLOCKS) /\ Cardinality(1 .. MAXOPBLOCKS) = MAXOPBLOCKS
  <2>1. MAXOPBLOCKS \in Nat \ {0}
    BY LogSizes, Zenon
  <2>2. IsFiniteSet(In)
    BY Finite, RoomType, Zenon
  <2> QED
    BY <2>1, <2>2, FS_Interval
<1>2. IsFiniteSet(In \X (1 .. MAXOPBLOCKS)) /\ Cardinality(In \X (1 .. MAXOPBLOCKS)) = Cardinality(In) * MAXOPBLOCKS
  BY <1>1, FS_Product, Zenon
<1>3. Room \in SUBSET (In \X (1 .. MAXOPBLOCKS))
  BY Zenon DEF Room
<1> QED
  BY <1>2, <1>3, FS_Subset, Zenon

\* log_write() adds one block to the header.
LEMMA AppendBlock ==
    ASSUME NEW s \in Seq(Blocks), NEW b \in Blocks
    PROVE  /\ Range1(Append(s, b)) = Range1(s) \cup {b}
           /\ Distinct(s) /\ b \notin Range1(s) => Distinct(Append(s, b))
<1>1. /\ Len(Append(s, b)) = Len(s) + 1 /\ Append(s, b)[Len(s) + 1] = b /\ Len(s) \in Nat
      /\ \A k \in 1 .. Len(s) : Append(s, b)[k] = s[k]
  OBVIOUS
<1>2. \A k \in 1 .. Len(s) + 1 : k \in 1 .. Len(s) \/ k = Len(s) + 1
  BY <1>1
<1>3. 1 .. Len(s) \subseteq 1 .. Len(s) + 1 /\ Len(s) + 1 \in 1 .. Len(s) + 1
  BY <1>1
<1> QED
  BY <1>1, <1>2, <1>3, Zenon DEF Range1, Distinct

-----------------------------------------------------------------------------
(***************************************************************************)
(* Types                                                                   *)
(***************************************************************************)
LEMMA InitType == Init => TypeOK
<1> SUFFICES ASSUME Init PROVE TypeOK
  OBVIOUS
<1>1. pc \in [Ops -> Labels] /\ wrote \in [Ops -> SUBSET Blocks] /\ phase \in Phases
  BY Zenon DEF Init, Labels, Phases
<1>2. PICK v \in Vals : dlog = [k \in 1 .. NLOG - 1 |-> v]
  BY Zenon DEF Init
<1>3. dlog \in [1 .. NLOG - 1 -> Vals] /\ pins \in [Blocks -> Nat]
  BY <1>2, Zenon DEF Init
<1>4. disk \in [Blocks -> Vals] /\ cache \in [Blocks -> Vals] /\ lh \in Seq(Blocks) /\ dhead \in Seq(Blocks)
  BY DEF Init
<1>5. outstanding \in Nat /\ tail \in Nat
  BY Zenon DEF Init
<1>6. committing \in BOOLEAN
  BY Zenon DEF Init
<1> QED
  BY <1>1, <1>3, <1>4, <1>5, <1>6, Zenon DEF TypeOK

\* Every step of the log keeps the types.
LEMMA TypeStep == Inv /\ [Next]_vars => TypeOK'
<1> SUFFICES ASSUME Inv, [Next]_vars PROVE TypeOK'
  OBVIOUS
<1>0. TypeOK
  BY Zenon DEF Inv, CallInv
<1> USE DEF TypeOK
<1>1. CASE UNCHANGED vars
  BY <1>0, <1>1, Zenon DEF vars, callers, log, bufs, ondisk
<1>2. ASSUME NEW o \in Ops, BeginOp(o) PROVE TypeOK'
  <2>1. pc' \in [Ops -> Labels]
    BY <1>0, <1>2, Zenon DEF BeginOp, Labels
  <2>2. outstanding' \in Nat
    BY <1>0, <1>2 DEF BeginOp
  <2> QED
    BY <1>0, <1>2, <2>1, <2>2, Zenon DEF BeginOp, bufs, ondisk
<1>3. ASSUME NEW o \in Ops, EndOp(o) PROVE TypeOK'
  <2>1. outstanding - 1 \in Nat
    BY <1>0, <1>3, ActiveIdle DEF EndOp, Inv, CallInv
  <2>2. pc' \in [Ops -> Labels]
    BY <1>0, <1>3, Zenon DEF EndOp, WakeAll, Labels
  <2>3. wrote' \in [Ops -> SUBSET Blocks]
    BY <1>0, <1>3, Zenon DEF EndOp
  <2>4. phase' \in Phases
    BY <1>0, <1>3, Zenon DEF EndOp, Phases
  <2>5. tail' \in Nat
    BY <1>0, <1>3 DEF EndOp
  <2>6. committing' \in BOOLEAN
    BY <1>0, <1>3, Zenon DEF EndOp
  <2> QED
    BY <1>0, <1>3, <2>1, <2>2, <2>3, <2>4, <2>5, <2>6, Zenon DEF EndOp, bufs, ondisk
<1>4. ASSUME NEW o \in Ops, NEW b \in Blocks, NEW v \in Vals, LogWrite(o, b, v) PROVE TypeOK'
  <2>1. wrote' \in [Ops -> SUBSET Blocks]
    BY <1>0, <1>4, Zenon DEF LogWrite
  <2>2. cache' \in [Blocks -> Vals]
    BY <1>0, <1>4, Zenon DEF LogWrite
  <2>3. lh' \in Seq(Blocks)
    <3>1. lh' = lh \/ lh' = Append(lh, b)
      BY <1>4, Zenon DEF LogWrite
    <3>2. lh \in Seq(Blocks)
      BY <1>0, Zenon
    <3> QED
      BY <3>1, <3>2
  <2>4. pins' \in [Blocks -> Nat]
    <3>1. pins' = pins \/ pins' = [pins EXCEPT ![b] = @ + 1]
      BY <1>4, Zenon DEF LogWrite, Pin
    <3>2. pins \in [Blocks -> Nat]
      BY <1>0, Zenon
    <3> QED
      BY <3>1, <3>2
  <2> QED
    BY <1>0, <1>4, <2>1, <2>2, <2>3, <2>4, Zenon DEF LogWrite, ondisk
<1>5. ASSUME NEW b \in Blocks, Evict(b) PROVE TypeOK'
  BY <1>0, <1>5, Zenon DEF Evict, callers, log, ondisk
<1>6. CASE WriteLog
  <2>1. cache[lh[tail]] \in Vals
    BY <1>0, <1>6 DEF WriteLog, Inv, DiskInv, HeadOK
  <2>2. dlog' \in [1 .. NLOG - 1 -> Vals]
    BY <1>0, <1>6, <2>1, Zenon DEF WriteLog
  <2>3. phase' \in Phases /\ tail' \in Nat
    BY <1>0, <1>6 DEF WriteLog, Phases
  <2> QED
    BY <1>0, <1>6, <2>2, <2>3, Zenon DEF WriteLog, callers, log, bufs
<1>7. CASE WriteHead
  BY <1>0, <1>7, Zenon DEF WriteHead, callers, log, bufs, Phases
<1>8. CASE Install
  <2>1. tail \in 1 .. Len(lh) /\ tail \in 1 .. NLOG - 1
    BY <1>0, <1>8, LogSizes DEF Install, Inv, DiskInv, HeadOK
  <2>2. lh[tail] \in Blocks /\ dlog[tail] \in Vals
    BY <1>0, <2>1
  <2>3. pins[lh[tail]] = 1
    BY <1>0, <1>8, <2>1, <2>2 DEF Install, Inv, DiskInv, PinsOK, Pinned
  <2>4. pins' \in [Blocks -> Nat]
    BY <1>0, <1>8, <2>2, <2>3 DEF Install
  <2>5. cache' \in [Blocks -> Vals] /\ disk' \in [Blocks -> Vals]
    BY <1>0, <1>8, <2>2, Zenon DEF Install
  <2>6. phase' \in Phases /\ tail' \in Nat
    BY <1>0, <1>8 DEF Install, Phases
  <2> QED
    BY <1>0, <1>8, <2>4, <2>5, <2>6, Zenon DEF Install, callers, log
<1>9. CASE EraseLog
  BY <1>0, <1>9 DEF EraseLog, callers, bufs, Phases
<1>10. ASSUME NEW o \in Ops, EndCommit(o) PROVE TypeOK'
  <2>1. pc' \in [Ops -> Labels]
    BY <1>0, <1>10, Zenon DEF EndCommit, WakeAll, Labels
  <2> QED
    BY <1>0, <1>10, <2>1, Zenon DEF EndCommit, bufs, ondisk, Phases
<1>11. CASE ReadHead
  BY <1>0, <1>11, Zenon DEF ReadHead, AfterRead, callers, bufs, ondisk, Phases
<1>12. CASE Reinstall
  <2>1. tail \in 1 .. Len(lh) /\ tail \in 1 .. NLOG - 1
    BY <1>0, <1>12, LogSizes DEF Reinstall, Inv, DiskInv, HeadOK
  <2>2. lh[tail] \in Blocks /\ dlog[tail] \in Vals
    BY <1>0, <2>1
  <2>3. cache' \in [Blocks -> Vals] /\ disk' \in [Blocks -> Vals]
    BY <1>0, <1>12, <2>2, Zenon DEF Reinstall
  <2>4. phase' \in Phases /\ tail' \in Nat
    BY <1>0, <1>12 DEF Reinstall, Phases
  <2> QED
    BY <1>0, <1>12, <2>3, <2>4, Zenon DEF Reinstall, callers, log
<1>13. CASE ClearLog
  BY <1>0, <1>13 DEF ClearLog, callers, bufs, Phases
<1>14. CASE Crash
  <2>1. pc' \in [Ops -> Labels] /\ wrote' \in [Ops -> SUBSET Blocks] /\ pins' \in [Blocks -> Nat]
    BY <1>14, Zenon DEF Crash, Labels
  <2>2. phase' \in Phases /\ tail' \in Nat /\ outstanding' \in Nat /\ lh' \in Seq(Blocks) /\ cache' \in [Blocks -> Vals]
    BY <1>0, <1>14 DEF Crash, Phases
  <2>3. committing' \in BOOLEAN
    BY <1>14, Zenon DEF Crash
  <2> QED
    BY <1>0, <1>14, <2>1, <2>2, <2>3, Zenon DEF Crash, ondisk
<1> QED
  BY <1>1, <1>2, <1>3, <1>4, <1>5, <1>6, <1>7, <1>8, <1>9, <1>10, <1>11, <1>12, <1>13, <1>14, Zenon
  DEF Next, CommitStep, RecoveryStep

-----------------------------------------------------------------------------
(***************************************************************************)
(* CallInv is an invariant.                                                *)
(***************************************************************************)
LEMMA InitCalls == Init => CallInv
<1> SUFFICES ASSUME Init PROVE CallInv
  OBVIOUS
<1>1. In = {} /\ Room = {}
  BY Zenon DEF Init, In, Room
<1>2. CallsOK
  BY <1>1, FS_EmptySet, Zenon DEF Init, CallsOK, InCommit, Recovering
<1>3. WroteOK
  BY LogSizes, FS_EmptySet DEF Init, WroteOK
<1>4. RoomOK
  BY Zenon DEF Init, RoomOK, Recovering
<1>5. AloneOK
  BY <1>1, Zenon DEF AloneOK
<1> QED
  BY <1>2, <1>3, <1>4, <1>5, InitType, Zenon DEF CallInv

\* A step that moves no call and reserves nothing keeps CallInv.
LEMMA CallsKept ==
    ASSUME CallInv, UNCHANGED <<pc, wrote, outstanding, committing, lh>>,
           phase' \in InCommit <=> phase \in InCommit, Recovering' <=> Recovering
    PROVE  CallsOK' /\ WroteOK' /\ RoomOK' /\ AloneOK'
<1>1. In' = In /\ Room' = Room
  BY Zenon DEF In, Room
<1>2. CallsOK'
  BY <1>1, Zenon DEF CallInv, CallsOK
<1>3. WroteOK' /\ RoomOK' /\ AloneOK'
  BY <1>1, Zenon DEF CallInv, WroteOK, RoomOK, AloneOK, Range1
<1> QED
  BY <1>2, <1>3, Zenon

\* The log may change when no call is active.
LEMMA LogChanged ==
    ASSUME CallInv, UNCHANGED <<pc, wrote, outstanding, committing>>, outstanding = 0,
           phase' \in InCommit <=> phase \in InCommit, Recovering' => Recovering,
           Recovering' \/ lh' = <<>>
    PROVE  CallsOK' /\ WroteOK' /\ RoomOK' /\ AloneOK'
<1>0. In = {} /\ Room = {} /\ \A o \in Ops : wrote[o] = {}
  BY NobodyActive, Zenon DEF CallInv
<1>1. In' = In /\ Room' = {}
  BY <1>0, Zenon DEF In, Room
<1>2. CallsOK'
  BY <1>1, Zenon DEF CallInv, CallsOK
<1>3. WroteOK'
  BY <1>0, Zenon DEF CallInv, WroteOK
<1>4. RoomOK'
  BY <1>1, LogSizes, FS_EmptySet DEF RoomOK
<1>5. AloneOK'
  BY <1>0, <1>1, Zenon DEF AloneOK
<1> QED
  BY <1>2, <1>3, <1>4, <1>5, Zenon

\* begin_op() lets a call in only when MAXOPBLOCKS blocks are free for it,
\* and makes it sleep only when somebody will wake it.
LEMMA BeginOpCalls ==
    ASSUME Inv, NEW o \in Ops, BeginOp(o), TypeOK'
    PROVE  CallsOK' /\ WroteOK' /\ RoomOK' /\ AloneOK'
<1>0. /\ TypeOK /\ CallsOK /\ WroteOK /\ RoomOK /\ AloneOK /\ HeadOK
      /\ UNCHANGED <<wrote, committing, lh, phase>> /\ ~ Recovering /\ ~ Recovering'
      /\ pc[o] \in {"user", "begin"} /\ o \notin In /\ pc \in [Ops -> Labels]
  BY Zenon DEF Inv, CallInv, DiskInv, BeginOp, TypeOK, In, Recovering
<1>1. CASE MustWait /\ pc' = [pc EXCEPT ![o] = "asleep"] /\ outstanding' = outstanding
  <2>1. In' = In
    BY <1>0, <1>1, Zenon DEF In
  <2>2. Room' = Room
    BY <1>0, <2>1, Zenon DEF Room
  <2>3. committing \/ outstanding > 0
    <3> SUFFICES ASSUME ~ committing, ~ outstanding > 0 PROVE FALSE
      OBVIOUS
    <3>1. outstanding = 0
      BY <1>0 DEF TypeOK
    <3>2. phase = "idle"
      BY <1>0, Zenon DEF CallsOK, InCommit, Recovering, TypeOK, Phases
    <3>3. Len(lh) = 0
      BY <1>0, <3>1, <3>2 DEF HeadOK
    <3> QED
      BY <1>1, <3>1, <3>3, LogSizes DEF MustWait
  <2>4. CallsOK'
    BY <1>0, <1>1, <2>1, <2>3, Zenon DEF CallsOK
  <2>5. WroteOK'
    BY <1>0, <1>1, Zenon DEF WroteOK
  <2> QED
    BY <1>0, <2>1, <2>2, <2>4, <2>5, Zenon DEF RoomOK, AloneOK
<1>2. CASE ~ MustWait /\ pc' = [pc EXCEPT ![o] = "in"] /\ outstanding' = outstanding + 1
  <2>1. In' = In \cup {o}
    BY <1>0, <1>2, Zenon DEF In
  <2>2. Cardinality(In') = Cardinality(In) + 1
    BY <1>0, <2>1, Finite, RoomType, FS_AddElement, Zenon
  <2>3. CallsOK'
    BY <1>0, <1>2, <2>2 DEF CallsOK, MustWait, TypeOK
  <2>4. WroteOK'
    BY <1>0, <1>2, Zenon DEF WroteOK
  <2>5. Room' \subseteq Room \cup ({o} \X (1 .. MAXOPBLOCKS))
    BY <1>0, <2>1, Zenon DEF Room
  <2>6. RoomOK'
    <3> DEFINE New == {o} \X (1 .. MAXOPBLOCKS)
    <3>1. MAXOPBLOCKS \in Nat \ {0} /\ LOGSIZE \in Nat /\ Len(lh) \in Nat /\ outstanding \in Nat
      BY <1>0, LogSizes DEF TypeOK
    <3>2. IsFiniteSet(New) /\ Cardinality(New) = MAXOPBLOCKS - 1 + 1
      <4>1. 1 \in Int /\ MAXOPBLOCKS \in Int /\ 1 <= MAXOPBLOCKS + 1
        BY <3>1
      <4> QED
        BY <4>1, Column, Zenon
    <3>3. IsFiniteSet(New) /\ Cardinality(New) = MAXOPBLOCKS
      BY <3>1, <3>2
    <3> HIDE DEF New
    <3>4. IsFiniteSet(Room) /\ Cardinality(Room) \in Nat
      BY Finite, RoomType, Zenon
    <3>5. IsFiniteSet(Room \cup New) /\ Cardinality(Room \cup New) = Cardinality(Room) + Cardinality(New) - Cardinality(Room \cap New)
      BY <3>3, <3>4, FS_Union, Zenon
    <3>6. Cardinality(Room \cap New) \in Nat
      BY <3>4, FS_Intersection, FS_CardinalityType, Zenon
    <3>7. Cardinality(Room') \in Nat /\ Cardinality(Room') <= Cardinality(Room \cup New)
      BY <2>5, <3>5, FS_Subset, FS_CardinalityType, Zenon DEF New
    <3>8. Cardinality(Room) <= outstanding * MAXOPBLOCKS
      BY <1>0, RoomReserved, Zenon DEF CallsOK
    <3>9. Len(lh) + (outstanding + 1) * MAXOPBLOCKS <= LOGSIZE
      BY <1>2, <3>1 DEF MustWait
    <3>10. (outstanding + 1) * MAXOPBLOCKS = outstanding * MAXOPBLOCKS + MAXOPBLOCKS
      BY <3>1
    <3>11. outstanding * MAXOPBLOCKS \in Nat
      BY <3>1
    <3>12. Len(lh) + Cardinality(Room') <= LOGSIZE
      BY <3>1, <3>3, <3>4, <3>5, <3>6, <3>7, <3>8, <3>9, <3>10, <3>11, SMTT(30)
    <3> QED
      BY <1>0, <3>12, Zenon DEF RoomOK
  <2>7. AloneOK'
    <3> SUFFICES ASSUME NEW p \in Ops, In' = {p} PROVE Len(lh') <= Cardinality(wrote'[p])
      BY Zenon DEF AloneOK
    <3>1. p = o /\ In = {}
      BY <1>0, <2>1, Zenon
    <3>2. outstanding = 0
      BY <1>0, <3>1, FS_EmptySet, Zenon DEF CallsOK
    <3>3. phase = "idle"
      BY <1>0, <1>2, Zenon DEF CallsOK, InCommit, Recovering, TypeOK, Phases, MustWait
    <3>4. Len(lh') = 0
      BY <1>0, <3>2, <3>3, Zenon DEF HeadOK
    <3>5. Cardinality(wrote'[p]) = 0
      BY <1>0, <3>1, FS_EmptySet, Zenon DEF WroteOK
    <3> QED
      BY <3>4, <3>5
  <2> QED
    BY <2>3, <2>4, <2>6, <2>7, Zenon
<1> QED
  BY <1>1, <1>2, Zenon DEF BeginOp

\* A call that ends gives its reservation back.
LEMMA EndOpCalls ==
    ASSUME Inv, NEW o \in Ops, EndOp(o), TypeOK'
    PROVE  CallsOK' /\ WroteOK' /\ RoomOK' /\ AloneOK'
<1>0. /\ TypeOK /\ CallsOK /\ WroteOK /\ RoomOK
      /\ lh' = lh /\ pc[o] = "in" /\ outstanding' = outstanding - 1 /\ wrote' = [wrote EXCEPT ![o] = {}]
      /\ pc \in [Ops -> Labels] /\ wrote \in [Ops -> SUBSET Blocks] /\ outstanding \in Nat
  BY Zenon DEF Inv, CallInv, EndOp, TypeOK
<1>1. outstanding > 0 /\ ~ committing /\ phase = "idle" /\ ~ Recovering
  BY <1>0, ActiveIdle, Zenon
<1>2. /\ pc'[o] = IF outstanding' = 0 THEN "commit" ELSE "user"
      /\ \A q \in Ops \ {o} : pc'[q] = IF pc[q] = "asleep" /\ outstanding' # 0 THEN "begin" ELSE pc[q]
  BY <1>0, Zenon DEF EndOp, WakeAll
<1>3. In' = In \ {o} /\ o \in In
  BY <1>0, <1>2, Zenon DEF In
<1>4. Cardinality(In') = Cardinality(In) - 1
  BY <1>3, Finite, RoomType, FS_RemoveElement, Zenon
<1>5. \A q \in Ops : pc[q] # "commit"
  BY <1>0, <1>1, Zenon DEF CallsOK
<1>6. committing' <=> outstanding' = 0
  BY <1>1, Zenon DEF EndOp
<1>7. phase' \in InCommit <=> outstanding' = 0
  BY <1>0, <1>1, Zenon DEF EndOp, InCommit
<1>8. ~ Recovering'
  BY <1>0, <1>1, Zenon DEF EndOp, Recovering
<1>9. CallsOK'
  <2>1. outstanding' = Cardinality(In')
    BY <1>0, <1>4, Zenon DEF CallsOK
  <2>2. committing' <=> \E q \in Ops : pc'[q] = "commit"
    BY <1>2, <1>5, <1>6, Zenon
  <2>3. \A p, q \in Ops : pc'[p] = "commit" /\ pc'[q] = "commit" => p = q
    BY <1>2, <1>5, Zenon
  <2>4. \A q \in Ops : pc'[q] = "asleep" => committing' \/ outstanding' > 0
    BY <1>0, <1>1, <1>6
  <2> QED
    BY <1>6, <1>7, <1>8, <2>1, <2>2, <2>3, <2>4, Zenon DEF CallsOK
<1>10. WroteOK'
  <2>1. \A q \in Ops : wrote'[q] = IF q = o THEN {} ELSE wrote[q]
    BY <1>0, Zenon
  <2>2. \A q \in Ops : pc'[q] # "in" => wrote'[q] = {}
    BY <1>0, <1>2, <2>1, Zenon DEF WroteOK
  <2> QED
    BY <1>0, <2>1, <2>2, FS_EmptySet, LogSizes DEF WroteOK
<1>11. Len(lh) + Cardinality(Room') + (MAXOPBLOCKS - OpBlocks) <= LOGSIZE
  <2> DEFINE Spare == {o} \X (OpBlocks + 1 .. MAXOPBLOCKS)
  <2>1. IsFiniteSet(Spare) /\ Cardinality(Spare) = MAXOPBLOCKS - OpBlocks /\ Spare \in SUBSET Room
    BY <1>0, <1>3, SpareRoom, Zenon
  <2>2. Room' \in SUBSET (Room \ Spare)
    BY <1>0, <1>3, Zenon DEF Room, In
  <2> HIDE DEF Spare
  <2>3. Room \cap Spare = Spare
    BY <2>1, Zenon
  <2>4. IsFiniteSet(Room) /\ Cardinality(Room) \in Nat
    BY Finite, RoomType, Zenon
  <2>5. IsFiniteSet(Room \ Spare) /\ Cardinality(Room \ Spare) = Cardinality(Room) - Cardinality(Room \cap Spare)
    BY <2>4, FS_Difference, Zenon
  <2>6. Cardinality(Room') <= Cardinality(Room \ Spare) /\ Cardinality(Room') \in Nat
    BY <2>2, <2>5, FS_Subset, FS_CardinalityType, Zenon
  <2>7. Len(lh) + Cardinality(Room) <= LOGSIZE /\ Len(lh) \in Nat
    BY <1>0, <1>1 DEF RoomOK, TypeOK
  <2>8. Cardinality(Room \cap Spare) = MAXOPBLOCKS - OpBlocks
    BY <2>1, <2>3, Zenon
  <2> QED
    BY <2>4, <2>5, <2>6, <2>7, <2>8, LogSizes
<1>12. Len(lh) + Cardinality(Room') <= LOGSIZE
  <2>1. Room' \in SUBSET (Ops \X (1 .. MAXOPBLOCKS))
    BY <1>3, Zenon DEF Room, In
  <2>2. Cardinality(Room') \in Nat
    BY <2>1, Finite, Zenon
  <2> QED
    BY <1>0, <1>11, <2>2, LogSizes, SMTT(30) DEF TypeOK
<1> QED
  BY <1>0, <1>9, <1>10, <1>11, <1>12, Zenon DEF RoomOK, AloneOK

\* A new block in the log is taken from the reservation of the call.
LEMMA LogWriteCalls ==
    ASSUME Inv, NEW o \in Ops, NEW b \in Blocks, NEW v \in Vals, LogWrite(o, b, v), TypeOK'
    PROVE  CallsOK' /\ WroteOK' /\ RoomOK' /\ AloneOK'
<1>0. /\ TypeOK /\ CallsOK /\ WroteOK /\ RoomOK /\ AloneOK
      /\ pc[o] = "in" /\ UNCHANGED <<pc, outstanding, committing, phase>>
      /\ wrote' = [wrote EXCEPT ![o] = @ \cup {b}] /\ Cardinality(wrote[o] \cup {b}) <= OpBlocks
      /\ wrote \in [Ops -> SUBSET Blocks] /\ lh \in Seq(Blocks)
  BY Zenon DEF Inv, CallInv, LogWrite, TypeOK
<1>1. In' = In /\ o \in In
  BY <1>0, Zenon DEF In
<1>2. CallsOK' /\ ~ Recovering /\ ~ Recovering'
  BY <1>0, <1>1, ActiveIdle, Zenon DEF CallsOK, Recovering
<1>3. \A q \in Ops : wrote'[q] = IF q = o THEN wrote[o] \cup {b} ELSE wrote[q]
  BY <1>0, Zenon
<1>4. IsFiniteSet(wrote[o]) /\ Cardinality(wrote[o]) \in Nat /\ IsFiniteSet(wrote[o] \cup {b})
  BY <1>0, FS_AddElement, FS_CardinalityType, Zenon DEF WroteOK
<1>5. Cardinality(wrote[o] \cup {b}) = IF b \in wrote[o] THEN Cardinality(wrote[o]) ELSE Cardinality(wrote[o]) + 1
  BY <1>4, FS_AddElement, Zenon
<1>6. (Absorbed(b) /\ lh' = lh) \/ (~ Absorbed(b) /\ lh' = Append(lh, b))
  BY Zenon DEF LogWrite
<1>7. Range1(lh') = Range1(lh) \cup {b} /\ Len(lh') = IF Absorbed(b) THEN Len(lh) ELSE Len(lh) + 1
  <2>1. Range1(lh') = Range1(lh) \cup {b}
    BY <1>0, <1>6, AppendBlock, Zenon DEF Absorbed
  <2>2. Len(lh') = IF Absorbed(b) THEN Len(lh) ELSE Len(lh) + 1
    BY <1>0, <1>6
  <2> QED
    BY <2>1, <2>2, Zenon
<1>8. WroteOK'
  BY <1>0, <1>3, <1>4, <1>7, Zenon DEF WroteOK
<1>9. Cardinality(Room) \in Nat /\ IsFiniteSet(Room) /\ Cardinality(Room') \in Nat /\ IsFiniteSet(Room')
  BY <1>1, Finite, RoomType, Zenon DEF Room
<1>10. Room' \subseteq Room
  <2>1. \A q \in Ops, k \in 1 .. MAXOPBLOCKS : k > Cardinality(wrote'[q]) => k > Cardinality(wrote[q])
    BY <1>3, <1>4, <1>5
  <2> QED
    BY <1>1, <2>1, Zenon DEF Room, In
<1>11. ASSUME Absorbed(b) PROVE Len(lh') + Cardinality(Room') <= Len(lh) + Cardinality(Room)
  <2>1. Cardinality(Room') <= Cardinality(Room)
    BY <1>9, <1>10, FS_Subset, Zenon
  <2> QED
    BY <1>0, <1>7, <1>9, <1>11, <2>1
<1>12. ASSUME ~ Absorbed(b) PROVE Len(lh') + Cardinality(Room') <= Len(lh) + Cardinality(Room)
  <2> DEFINE x == <<o, Cardinality(wrote[o]) + 1>>
  <2>1. b \notin wrote[o]
    BY <1>0, <1>12, Zenon DEF WroteOK, Absorbed
  <2>2. x \in Room /\ x \notin Room'
    BY <1>0, <1>1, <1>3, <1>4, <1>5, <2>1, LogSizes DEF Room
  <2> HIDE DEF x
  <2>3. Room' \in SUBSET (Room \ {x})
    BY <1>10, <2>2, Zenon
  <2>4. IsFiniteSet(Room \ {x}) /\ Cardinality(Room \ {x}) = Cardinality(Room) - 1
    BY <1>9, <2>2, FS_RemoveElement, Zenon
  <2>5. Cardinality(Room') <= Cardinality(Room) - 1
    BY <1>9, <2>3, <2>4, FS_Subset
  <2> QED
    BY <1>0, <1>7, <1>9, <1>12, <2>5
<1>13. Len(lh') + Cardinality(Room') <= Len(lh) + Cardinality(Room) /\ Len(lh) \in Nat /\ Len(lh') \in Nat
  BY <1>0, <1>7, <1>11, <1>12
<1>14. RoomOK'
  BY <1>0, <1>2, <1>9, <1>13, LogSizes DEF RoomOK
<1>15. AloneOK'
  <2> SUFFICES ASSUME NEW p \in Ops, In' = {p}
               PROVE  \/ Len(lh') <= Cardinality(wrote'[p])
                      \/ Len(lh') + Cardinality(Room') + (MAXOPBLOCKS - OpBlocks) <= LOGSIZE
    BY Zenon DEF AloneOK
  <2>1. p = o /\ In = {o}
    BY <1>1, Zenon
  <2>2. CASE Len(lh) + Cardinality(Room) + (MAXOPBLOCKS - OpBlocks) <= LOGSIZE
    BY <1>9, <1>13, <2>2, LogSizes, SMTT(30)
  <2>3. CASE Len(lh) <= Cardinality(wrote[o])
    <3>1. Len(lh') <= Cardinality(wrote[o] \cup {b})
      BY <1>0, <1>4, <1>5, <1>7, <2>3 DEF WroteOK, Absorbed
    <3> QED
      BY <1>3, <2>1, <3>1, Zenon
  <2> QED
    BY <1>0, <2>1, <2>2, <2>3, Zenon DEF AloneOK
<1> QED
  BY <1>2, <1>8, <1>14, <1>15, Zenon

\* end_op() after commit() wakes whoever waits for it.
LEMMA EndCommitCalls ==
    ASSUME Inv, NEW o \in Ops, EndCommit(o)
    PROVE  CallsOK' /\ WroteOK' /\ RoomOK' /\ AloneOK'
<1>0. /\ TypeOK /\ CallsOK /\ WroteOK /\ RoomOK
      /\ pc[o] = "commit" /\ phase' = "idle" /\ ~ committing' /\ UNCHANGED <<wrote, outstanding, lh>>
      /\ phase = "done"
  BY Zenon DEF Inv, CallInv, EndCommit
<1>1. committing /\ outstanding = 0
  BY <1>0, Zenon DEF CallsOK
<1>2. In = {} /\ Room = {} /\ \A q \in Ops : pc[q] # "in" /\ wrote[q] = {}
  BY <1>0, <1>1, NobodyActive, Zenon
<1>3. \A q \in Ops : pc'[q] \notin {"in", "commit", "asleep"}
  BY <1>0, <1>2, Zenon DEF EndCommit, WakeAll, CallsOK
<1>4. In' = {} /\ Room' = {}
  BY <1>3, Zenon DEF In, Room
<1>5. ~ Recovering /\ ~ Recovering'
  BY <1>0, Zenon DEF Recovering
<1>6. CallsOK'
  BY <1>0, <1>1, <1>3, <1>4, <1>5, FS_EmptySet, Zenon DEF CallsOK, InCommit
<1>7. WroteOK'
  BY <1>0, <1>2, Zenon DEF WroteOK
<1>8. RoomOK'
  BY <1>0, <1>2, <1>4, <1>5, Zenon DEF RoomOK
<1> QED
  BY <1>4, <1>6, <1>7, <1>8, Zenon DEF AloneOK

\* A crash ends every call: after the reboot none is active.
LEMMA CrashCalls ==
    ASSUME Crash
    PROVE  CallsOK' /\ WroteOK' /\ RoomOK' /\ AloneOK'
<1>1. In' = {} /\ Recovering'
  BY Zenon DEF Crash, In, Recovering
<1>2. CallsOK'
  BY <1>1, FS_EmptySet, Zenon DEF Crash, CallsOK, InCommit
<1>3. WroteOK'
  BY FS_EmptySet, LogSizes DEF Crash, WroteOK
<1> QED
  BY <1>1, <1>2, <1>3, Zenon DEF RoomOK, AloneOK

\* Every step keeps CallInv.
LEMMA CallStep == Inv /\ [Next]_vars => CallInv'
<1> SUFFICES ASSUME Inv, [Next]_vars PROVE CallsOK' /\ WroteOK' /\ RoomOK' /\ AloneOK'
  BY TypeStep, Zenon DEF CallInv
<1>0. TypeOK' /\ CallInv /\ CallsOK
  BY TypeStep, Zenon DEF Inv, CallInv
<1>1. CASE UNCHANGED vars
  BY <1>0, <1>1, CallsKept, Zenon DEF vars, callers, log, Recovering
<1>2. ASSUME NEW b \in Blocks, Evict(b) PROVE CallsOK' /\ WroteOK' /\ RoomOK' /\ AloneOK'
  BY <1>0, <1>2, CallsKept, Zenon DEF Evict, callers, log, Recovering
<1>3. CASE WriteLog \/ WriteHead \/ Install
  <2>1. UNCHANGED <<pc, wrote, outstanding, committing, lh>>
    BY <1>3, Zenon DEF WriteLog, WriteHead, Install, callers, log
  <2>2. phase \in InCommit /\ phase' \in InCommit
    BY <1>3, Zenon DEF WriteLog, WriteHead, Install, InCommit
  <2> QED
    BY <1>0, <2>1, <2>2, CallsKept, Zenon DEF InCommit, Recovering
<1>4. CASE Reinstall
  BY <1>0, <1>4, CallsKept, Zenon DEF Reinstall, callers, log, Recovering, InCommit
<1>5. CASE EraseLog
  <2>1. phase \in InCommit /\ phase' \in InCommit /\ lh' = <<>> /\ ~ Recovering'
    BY <1>5, Zenon DEF EraseLog, InCommit, Recovering
  <2>2. outstanding = 0
    BY <1>0, <2>1, Zenon DEF CallsOK
  <2> QED
    BY <1>0, <1>5, <2>1, <2>2, LogChanged, Zenon DEF EraseLog, callers
<1>6. CASE ReadHead \/ ClearLog
  <2>1. /\ UNCHANGED <<pc, wrote, outstanding, committing>>
        /\ Recovering /\ (Recovering' \/ lh' = <<>>) /\ phase \notin InCommit /\ phase' \notin InCommit
    BY <1>6, Zenon DEF ReadHead, ClearLog, AfterRead, callers, Recovering, InCommit
  <2>2. In = {}
    BY <1>0, <2>1, Zenon DEF CallsOK, In
  <2>3. outstanding = 0
    BY <1>0, <2>2, FS_EmptySet, Zenon DEF CallsOK
  <2> QED
    BY <1>0, <2>1, <2>3, LogChanged, Zenon
<1> QED
  BY <1>0, <1>1, <1>2, <1>3, <1>4, <1>5, <1>6, BeginOpCalls, EndOpCalls, LogWriteCalls, EndCommitCalls, CrashCalls, Zenon
  DEF Next, CommitStep, RecoveryStep


-----------------------------------------------------------------------------
(***************************************************************************)
(* DiskInv is an invariant.                                                *)
(***************************************************************************)
LEMMA InitDisk == Init => DiskInv
<1> SUFFICES ASSUME Init PROVE DiskInv
  OBVIOUS
<1>1. HeadOK
  BY LogSizes DEF Init, HeadOK, Distinct
<1>2. CacheOK /\ DataOK
  BY DEF Init, CacheOK, DataOK
<1>3. PinsOK
  BY Zenon DEF Init, PinsOK, Pinned
<1> QED
  BY <1>1, <1>2, <1>3, Zenon DEF DiskInv

\* A step that touches neither header, log, home blocks nor cache.
LEMMA DiskKept ==
    ASSUME DiskInv, UNCHANGED <<lh, phase, tail, bufs, ondisk>>,
           phase = "idle" /\ outstanding' = 0 => outstanding = 0
    PROVE  DiskInv'
<1>1. HeadOK'
  BY DEF DiskInv, HeadOK, Distinct, ondisk
<1>2. CacheOK'
  BY Zenon DEF DiskInv, CacheOK, bufs, ondisk, Range1, Recovering
<1>3. DataOK'
  BY Zenon DEF DiskInv, DataOK, Logged, Installed, bufs, ondisk
<1>4. PinsOK'
  BY Zenon DEF DiskInv, PinsOK, Pinned, Range1, bufs
<1> QED
  BY <1>1, <1>2, <1>3, <1>4, Zenon DEF DiskInv

\* What commit() writes to the log is what the cache holds, and a block that
\* bget() may recycle is the same on disk.
LEMMA EvictNothing ==
    ASSUME Inv, NEW b \in Blocks, Evict(b)
    PROVE  cache' = cache
<1>0. /\ TypeOK /\ CallsOK /\ HeadOK /\ CacheOK /\ DataOK /\ PinsOK
      /\ pins[b] = 0 /\ ~ Recovering /\ cache' = [cache EXCEPT ![b] = disk[b]]
      /\ cache \in [Blocks -> Vals] /\ lh \in Seq(Blocks)
  BY Zenon DEF Inv, CallInv, DiskInv, Evict, TypeOK
<1>1. b \notin Pinned
  BY <1>0 DEF PinsOK
<1>2. CASE b \notin Range1(lh)
  BY <1>0, <1>2, Zenon DEF CacheOK
<1>3. CASE phase = "erase"
  BY <1>0, <1>3, Zenon DEF CacheOK
<1>4. CASE phase = "install" /\ b \in Range1(lh)
  <2>1. PICK k \in 1 .. Len(lh) : b = lh[k]
    BY <1>4, Zenon DEF Range1
  <2>2. k < tail
    <3>1. k \notin tail .. Len(lh)
      BY <1>1, <1>4, <2>1, Zenon DEF Pinned
    <3>2. tail \in Nat /\ Len(lh) \in Nat
      BY <1>0 DEF TypeOK
    <3> QED
      BY <3>1, <3>2
  <2>3. dlog[k] = cache[b] /\ disk[b] = dlog[k]
    BY <1>0, <1>4, <2>1, <2>2, Zenon DEF DataOK, Logged, Installed
  <2> QED
    BY <1>0, <2>3, Zenon
<1>5. phase \in {"idle", "write_log", "write_head", "done", "install", "erase"}
  BY <1>0, Zenon DEF TypeOK, Phases, Recovering
<1> QED
  BY <1>1, <1>2, <1>3, <1>4, <1>5, Zenon DEF Pinned

\* end_op() of the last call starts the commit.
LEMMA EndOpDisk ==
    ASSUME Inv, NEW o \in Ops, EndOp(o)
    PROVE  DiskInv'
<1>0. /\ TypeOK /\ CallsOK /\ DiskInv /\ HeadOK /\ CacheOK /\ DataOK /\ PinsOK
      /\ pc[o] = "in" /\ lh \in Seq(Blocks) /\ UNCHANGED <<lh, bufs, ondisk>>
  BY Zenon DEF Inv, CallInv, DiskInv, EndOp, TypeOK
<1>1. phase = "idle" /\ outstanding > 0
  BY <1>0, ActiveIdle, Zenon
<1>2. CASE outstanding' # 0
  BY <1>0, <1>2, DiskKept, Zenon DEF EndOp
<1>3. CASE outstanding' = 0
  <2>1. tail' = 1 /\ phase' = IF lh = <<>> THEN "done" ELSE "write_log"
    BY <1>3, Zenon DEF EndOp
  <2>2. lh = <<>> \/ 1 \in 1 .. Len(lh)
    BY <1>0
  <2>3. HeadOK'
    BY <1>0, <1>1, <2>1, <2>2 DEF HeadOK, Distinct, ondisk
  <2>4. CacheOK'
    BY <1>0, <1>1, <2>1, Zenon DEF CacheOK, bufs, ondisk, Range1, Recovering
  <2>5. DataOK'
    BY <1>0, <2>1 DEF DataOK, Logged, Installed
  <2>6. PinsOK'
    BY <1>0, <1>1, <2>1, Zenon DEF PinsOK, Pinned, Range1, bufs
  <2> QED
    BY <2>3, <2>4, <2>5, <2>6, Zenon DEF DiskInv
<1> QED
  BY <1>2, <1>3, Zenon

\* log_write() records the block in the header in memory, once.
LEMMA LogWriteDisk ==
    ASSUME Inv, NEW o \in Ops, NEW b \in Blocks, NEW v \in Vals, LogWrite(o, b, v)
    PROVE  DiskInv'
<1>0. /\ TypeOK /\ CallsOK /\ HeadOK /\ CacheOK /\ DataOK /\ PinsOK
      /\ pc[o] = "in" /\ lh \in Seq(Blocks) /\ UNCHANGED <<phase, tail, outstanding, disk, dhead>>
      /\ cache' = [cache EXCEPT ![b] = v] /\ cache \in [Blocks -> Vals] /\ pins \in [Blocks -> Nat]
  BY Zenon DEF Inv, CallInv, DiskInv, LogWrite, TypeOK, ondisk
<1>1. phase = "idle" /\ outstanding > 0
  BY <1>0, ActiveIdle, Zenon
<1>2. \/ b \in Range1(lh) /\ lh' = lh /\ pins' = pins
      \/ b \notin Range1(lh) /\ lh' = Append(lh, b) /\ pins' = [pins EXCEPT ![b] = @ + 1]
  BY Zenon DEF LogWrite, Absorbed, Pin
<1>3. Range1(lh') = Range1(lh) \cup {b}
  BY <1>0, <1>2, AppendBlock, Zenon
<1>4. Len(lh) < NLOG - 1
  BY <1>0, LogSizes DEF LogWrite, LogFull
<1>5. Distinct(lh')
  BY <1>0, <1>2, AppendBlock, Zenon DEF HeadOK
<1>6. HeadOK'
  BY <1>0, <1>1, <1>2, <1>4, <1>5, LogSizes DEF HeadOK, Distinct
<1>7. CacheOK'
  BY <1>0, <1>1, <1>3, Zenon DEF CacheOK, Recovering
<1>8. DataOK'
  BY <1>0, <1>1, Zenon DEF DataOK, Logged, Installed
<1>9. PinsOK'
  BY <1>0, <1>1, <1>2, <1>3 DEF PinsOK, Pinned
<1> QED
  BY <1>6, <1>7, <1>8, <1>9, Zenon DEF DiskInv

\* write_log() copies the next block from the cache to the log.
LEMMA WriteLogDisk ==
    ASSUME Inv, WriteLog
    PROVE  DiskInv'
<1>0. /\ TypeOK /\ HeadOK /\ CacheOK /\ DataOK /\ PinsOK /\ phase = "write_log" /\ tail \in 1 .. Len(lh)
      /\ lh \in Seq(Blocks) /\ UNCHANGED <<lh, outstanding, cache, pins, disk, dhead>>
      /\ dlog' = [dlog EXCEPT ![tail] = cache[lh[tail]]] /\ dlog \in [1 .. NLOG - 1 -> Vals]
  BY Zenon DEF Inv, CallInv, DiskInv, HeadOK, WriteLog, TypeOK, log, bufs
<1>1. \/ tail = Len(lh) /\ phase' = "write_head" /\ tail' = 1
      \/ tail # Len(lh) /\ phase' = "write_log" /\ tail' = tail + 1
  BY <1>0, Zenon DEF WriteLog
<1>2. HeadOK'
  BY <1>0, <1>1 DEF HeadOK, Distinct
<1>3. CacheOK'
  BY <1>0, <1>1, Zenon DEF CacheOK, Range1, Recovering
<1>4. \A k \in 1 .. Len(lh) : dlog'[k] = IF k = tail THEN cache[lh[k]] ELSE dlog[k]
  BY <1>0, LogSizes DEF HeadOK
<1>5. DataOK'
  BY <1>0, <1>1, <1>4 DEF DataOK, Logged, Installed
<1>6. PinsOK'
  BY <1>0, <1>1, Zenon DEF PinsOK, Pinned, Range1
<1> QED
  BY <1>2, <1>3, <1>5, <1>6, Zenon DEF DiskInv

\* write_head(): the commit point.
LEMMA WriteHeadDisk ==
    ASSUME Inv, WriteHead
    PROVE  DiskInv'
<1>0. /\ TypeOK /\ HeadOK /\ CacheOK /\ DataOK /\ PinsOK /\ phase = "write_head"
      /\ lh \in Seq(Blocks) /\ UNCHANGED <<lh, outstanding, cache, pins, disk, dlog>>
      /\ dhead' = lh /\ phase' = "install" /\ tail' = 1
  BY Zenon DEF Inv, CallInv, DiskInv, WriteHead, TypeOK, log, bufs
<1>1. 1 \in 1 .. Len(lh)
  BY <1>0 DEF HeadOK
<1>2. HeadOK'
  BY <1>0, <1>1 DEF HeadOK, Distinct
<1>3. CacheOK'
  BY <1>0, Zenon DEF CacheOK, Range1, Recovering
<1>4. DataOK'
  BY <1>0 DEF DataOK, Logged, Installed
<1>5. PinsOK'
  BY <1>0, Zenon DEF PinsOK, Pinned, Range1
<1> QED
  BY <1>2, <1>3, <1>4, <1>5, Zenon DEF DiskInv

\* Installing the block at tail, by commit() or by recovery.
LEMMA InstallData ==
    ASSUME TypeOK, HeadOK, tail \in 1 .. Len(lh), UNCHANGED <<lh, dlog>>,
           disk' = [disk EXCEPT ![lh[tail]] = dlog[tail]]
    PROVE  /\ \A k \in 1 .. Len(lh) : disk'[lh[k]] = IF k = tail THEN dlog[tail] ELSE disk[lh[k]]
           /\ \A b \in Blocks : b # lh[tail] => disk'[b] = disk[b]
BY SMTT(30) DEF TypeOK, HeadOK, Distinct

\* install_trans() copies a block of the log to its home.
LEMMA InstallDisk ==
    ASSUME Inv, Install
    PROVE  DiskInv' /\ cache' = cache
<1>0. /\ TypeOK /\ HeadOK /\ CacheOK /\ DataOK /\ PinsOK /\ phase = "install" /\ tail \in 1 .. Len(lh)
      /\ lh \in Seq(Blocks) /\ UNCHANGED <<lh, outstanding, dlog, dhead>> /\ lh[tail] \in Blocks
      /\ disk' = [disk EXCEPT ![lh[tail]] = dlog[tail]] /\ cache' = [cache EXCEPT ![lh[tail]] = dlog[tail]]
      /\ pins' = [pins EXCEPT ![lh[tail]] = @ - 1] /\ cache \in [Blocks -> Vals] /\ disk \in [Blocks -> Vals]
  BY DEF Inv, CallInv, DiskInv, HeadOK, Install, TypeOK, log
<1>1. \/ tail = Len(lh) /\ phase' = "erase" /\ tail' = 1
      \/ tail # Len(lh) /\ phase' = "install" /\ tail' = tail + 1
  BY <1>0, Zenon DEF Install
<1>2. cache' = cache
  BY <1>0, Zenon DEF DataOK, Logged
<1>3. HeadOK'
  BY <1>0, <1>1 DEF HeadOK, Distinct
<1>4. /\ \A k \in 1 .. Len(lh) : disk'[lh[k]] = IF k = tail THEN dlog[tail] ELSE disk[lh[k]]
      /\ \A b \in Blocks : b # lh[tail] => disk'[b] = disk[b]
  BY <1>0, InstallData, Zenon
<1>5. DataOK'
  BY <1>0, <1>1, <1>2, <1>4 DEF DataOK, Logged, Installed
<1>6. \A b \in Blocks : b \notin Range1(lh) => cache'[b] = disk'[b]
  BY <1>0, <1>2, <1>4, Zenon DEF CacheOK, Range1
<1>7. ASSUME phase' = "erase" PROVE cache' = disk'
  <2>1. \A k \in 1 .. Len(lh) : cache'[lh[k]] = disk'[lh[k]]
    BY <1>0, <1>5, <1>7 DEF DataOK, Logged, Installed
  <2>2. \A b \in Blocks : cache'[b] = disk'[b]
    BY <1>6, <2>1 DEF Range1
  <2> QED
    BY <1>0, <1>2, <2>2, Zenon
<1>8. CacheOK'
  BY <1>0, <1>1, <1>6, <1>7 DEF CacheOK, Range1, Recovering
<1>9. PinsOK'
  <2>1. Pinned' = Pinned \ {lh[tail]}
    <3>1. \A k \in tail .. Len(lh) : k = tail \/ k \in tail + 1 .. Len(lh)
      BY <1>0
    <3>2. Pinned = {lh[k] : k \in tail + 1 .. Len(lh)} \cup {lh[tail]}
      BY <1>0, <3>1 DEF Pinned
    <3>3. \A k \in tail + 1 .. Len(lh) : lh[k] # lh[tail]
      BY <1>0 DEF HeadOK, Distinct
    <3>4. CASE tail = Len(lh)
      BY <1>0, <1>1, <3>2, <3>4 DEF Pinned
    <3> QED
      BY <1>0, <1>1, <3>2, <3>3, <3>4 DEF Pinned
  <2>2. \A b \in Blocks : pins'[b] = IF b = lh[tail] THEN pins[b] - 1 ELSE pins[b]
    BY <1>0, Zenon DEF TypeOK
  <2>3. lh[tail] \in Pinned
    BY <1>0 DEF Pinned
  <2> QED
    BY <1>0, <2>1, <2>2, <2>3, SMTT(30) DEF PinsOK
<1> QED
  BY <1>2, <1>3, <1>5, <1>8, <1>9, Zenon DEF DiskInv

\* recover_from_log() installs a block again after a crash.
LEMMA ReinstallDisk ==
    ASSUME Inv, Reinstall
    PROVE  DiskInv'
<1>0. /\ TypeOK /\ HeadOK /\ CacheOK /\ DataOK /\ PinsOK /\ phase = "reinstall" /\ tail \in 1 .. Len(lh)
      /\ lh \in Seq(Blocks) /\ UNCHANGED <<lh, outstanding, pins, dlog, dhead>> /\ lh[tail] \in Blocks
      /\ disk' = [disk EXCEPT ![lh[tail]] = dlog[tail]] /\ cache' = [cache EXCEPT ![lh[tail]] = dlog[tail]]
  BY DEF Inv, CallInv, DiskInv, HeadOK, Reinstall, TypeOK, log
<1>1. \/ tail = Len(lh) /\ phase' = "clear" /\ tail' = 1
      \/ tail # Len(lh) /\ phase' = "reinstall" /\ tail' = tail + 1
  BY <1>0, Zenon DEF Reinstall
<1>2. cache' = disk'
  BY <1>0, Zenon DEF CacheOK, Recovering
<1>3. HeadOK'
  BY <1>0, <1>1 DEF HeadOK, Distinct
<1>4. \A k \in 1 .. Len(lh) : disk'[lh[k]] = IF k = tail THEN dlog[tail] ELSE disk[lh[k]]
  BY <1>0, InstallData, Zenon
<1>5. DataOK'
  BY <1>0, <1>1, <1>4 DEF DataOK, Logged, Installed
<1>6. PinsOK'
  BY <1>0, <1>1, Zenon DEF PinsOK, Pinned
<1> QED
  BY <1>2, <1>3, <1>5, <1>6, Zenon DEF DiskInv, CacheOK

\* EraseLog, EndCommit, ReadHead, ClearLog and Crash move no data.
LEMMA HeadDisk ==
    ASSUME Inv, EraseLog \/ ReadHead \/ ClearLog \/ Crash \/ \E o \in Ops : EndCommit(o)
    PROVE  DiskInv'
<1>0. /\ TypeOK /\ HeadOK /\ CacheOK /\ DataOK /\ PinsOK /\ dhead \in Seq(Blocks)
  BY Zenon DEF Inv, CallInv, DiskInv, TypeOK
<1>1. CASE EraseLog \/ ClearLog
  <2>1. /\ phase \in {"erase", "clear"} /\ phase' \in {"done", "idle"} /\ lh' = <<>> /\ dhead' = <<>>
        /\ UNCHANGED <<bufs, disk, dlog>>
    BY <1>1, Zenon DEF EraseLog, ClearLog
  <2>2. HeadOK'
    BY <2>1, LogSizes DEF HeadOK, Distinct
  <2>3. CacheOK' /\ DataOK'
    BY <1>0, <2>1 DEF CacheOK, DataOK, Recovering, bufs
  <2>4. PinsOK'
    BY <1>0, <2>1 DEF PinsOK, Pinned, Range1, bufs
  <2> QED
    BY <2>2, <2>3, <2>4, Zenon DEF DiskInv
<1>2. CASE ReadHead
  <2>1. /\ phase = "read_head" /\ lh' = dhead /\ tail' = 1 /\ UNCHANGED <<bufs, ondisk>> /\ lh = <<>>
        /\ phase' = IF dhead = <<>> THEN "clear" ELSE "reinstall"
    BY <1>0, <1>2, Zenon DEF ReadHead, AfterRead, HeadOK
  <2>2. dhead = <<>> \/ 1 \in 1 .. Len(dhead)
    BY <1>0
  <2>3. HeadOK'
    BY <1>0, <2>1, <2>2 DEF HeadOK, Distinct, ondisk
  <2>4. CacheOK' /\ DataOK'
    BY <1>0, <2>1 DEF CacheOK, DataOK, Logged, Installed, Recovering, bufs, ondisk
  <2>5. PinsOK'
    BY <1>0, <2>1, Zenon DEF PinsOK, Pinned, bufs
  <2> QED
    BY <2>3, <2>4, <2>5, Zenon DEF DiskInv
<1>3. CASE Crash
  <2>1. HeadOK'
    BY <1>0, <1>3, LogSizes DEF Crash, HeadOK, Distinct, ondisk
  <2>2. CacheOK' /\ DataOK'
    BY <1>3 DEF Crash, CacheOK, DataOK, ondisk
  <2>3. PinsOK'
    BY <1>3, Zenon DEF Crash, PinsOK, Pinned
  <2> QED
    BY <2>1, <2>2, <2>3, Zenon DEF DiskInv
<1>4. ASSUME NEW o \in Ops, EndCommit(o) PROVE DiskInv'
  <2>1. phase = "done" /\ phase' = "idle" /\ lh = <<>> /\ lh' = <<>> /\ UNCHANGED <<tail, bufs, ondisk>>
    BY <1>0, <1>4, Zenon DEF EndCommit, HeadOK
  <2>2. HeadOK'
    BY <1>0, <2>1 DEF HeadOK, Distinct, ondisk
  <2>3. CacheOK' /\ DataOK'
    BY <1>0, <2>1 DEF CacheOK, DataOK, Recovering, bufs, ondisk
  <2>4. PinsOK'
    BY <1>0, <2>1, Zenon DEF PinsOK, Pinned, bufs
  <2> QED
    BY <2>2, <2>3, <2>4, Zenon DEF DiskInv
<1> QED
  BY <1>1, <1>2, <1>3, <1>4, Zenon

\* Every step keeps DiskInv.
LEMMA DiskStep == Inv /\ [Next]_vars => DiskInv'
<1> SUFFICES ASSUME Inv, [Next]_vars PROVE DiskInv'
  OBVIOUS
<1>0. DiskInv
  BY Zenon DEF Inv
<1>1. CASE UNCHANGED vars
  BY <1>0, <1>1, DiskKept, Zenon DEF vars, log
<1>2. ASSUME NEW b \in Blocks, Evict(b) PROVE DiskInv'
  BY <1>0, <1>2, EvictNothing, DiskKept, Zenon DEF Evict, log, bufs
<1>3. ASSUME NEW o \in Ops, BeginOp(o) PROVE DiskInv'
  <2>1. outstanding' = 0 => outstanding = 0
    BY <1>3 DEF BeginOp, Inv, CallInv, TypeOK
  <2> QED
    BY <1>0, <1>3, <2>1, DiskKept, Zenon DEF BeginOp
<1> QED
  BY <1>1, <1>2, <1>3, EndOpDisk, LogWriteDisk, WriteLogDisk, WriteHeadDisk, InstallDisk, ReinstallDisk, HeadDisk, Zenon
  DEF Next, CommitStep, RecoveryStep

\* The inductive invariant holds in every reachable state.
LEMMA InvAlways == Spec => []Inv
<1>1. Init => Inv
  BY InitCalls, InitDisk, Zenon DEF Inv
<1>2. Inv /\ [Next]_vars => Inv'
  BY CallStep, DiskStep, Zenon DEF Inv
<1> QED
  BY <1>1, <1>2, PTL DEF Spec

-----------------------------------------------------------------------------
(***************************************************************************)
(* What the invariants give.                                               *)
(***************************************************************************)
\* log_write() never panics with "too big a transaction", provided that a
\* call logs fewer blocks than begin_op() reserves for it, that one call
\* fits in the log, and that the log on disk, whose first block is the
\* header, is not smaller than LOGSIZE.  The reservation counts the header
\* as a block of the log, and this is enough: a call that is alone started
\* with an empty log or has outlived another one, and of two that are
\* active each leaves a block of its reservation unused.
THEOREM LogNeverFull ==
    ASSUME OpBlocks < MAXOPBLOCKS, OpBlocks < NLOG - 1, LOGSIZE <= NLOG
    PROVE  Spec => []NoLogPanic
<1>1. ASSUME Inv PROVE NoLogPanic
  <2> SUFFICES ASSUME NEW o \in Ops, pc[o] = "in" PROVE ~ LogFull
    BY Zenon DEF NoLogPanic
  <2> DEFINE d == MAXOPBLOCKS - OpBlocks
             Spare(p) == {p} \X (OpBlocks + 1 .. MAXOPBLOCKS)
  <2>1. /\ MAXOPBLOCKS \in Nat /\ OpBlocks \in Nat /\ LOGSIZE \in Nat /\ NLOG \in Nat /\ Len(lh) \in Nat
        /\ MAXOPBLOCKS <= LOGSIZE
    BY <1>1, LogSizes DEF Inv, CallInv, TypeOK
  <2>2. o \in In /\ In \subseteq Ops
    BY Zenon DEF In
  <2>3. IsFiniteSet(Room) /\ Cardinality(Room) \in Nat
    BY Finite, RoomType, Zenon
  <2>4. \A p \in In : IsFiniteSet(Spare(p)) /\ Cardinality(Spare(p)) = d /\ Spare(p) \in SUBSET Room
    BY <1>1, SpareRoom, Zenon DEF Inv, CallInv
  <2>5. Len(lh) + Cardinality(Room) <= LOGSIZE
    BY <1>1, ActiveIdle, Zenon DEF Inv, CallInv, RoomOK
  <2>6. Len(lh) + 2 * d <= LOGSIZE \/ Len(lh) <= OpBlocks
    <3>1. CASE In = {o}
      <4>1. Len(lh) <= Cardinality(wrote[o]) \/ Len(lh) + Cardinality(Room) + d <= LOGSIZE
        BY <1>1, <3>1, Zenon DEF Inv, CallInv, AloneOK
      <4>2. IsFiniteSet(wrote[o]) /\ Cardinality(wrote[o]) <= OpBlocks
        BY <1>1, Zenon DEF Inv, CallInv, WroteOK
      <4>3. Cardinality(wrote[o]) \in Nat
        BY <4>2, FS_CardinalityType, Zenon
      <4> HIDE DEF Spare
      <4>4. Cardinality(Room) >= d
        BY <2>2, <2>3, <2>4, FS_Subset
      <4> QED
        BY <2>1, <2>3, <4>1, <4>2, <4>3, <4>4
    <3>2. CASE In # {o}
      <4>1. PICK p \in In : p # o
        BY <2>2, <3>2, Zenon
      <4>2. Spare(o) \cap Spare(p) = {}
        BY <4>1, Zenon
      <4> HIDE DEF Spare
      <4>3. IsFiniteSet(Spare(o)) /\ IsFiniteSet(Spare(p)) /\ Cardinality(Spare(o)) = d /\ Cardinality(Spare(p)) = d
        BY <2>2, <2>4, Zenon
      <4>4. Cardinality(Spare(o) \cup Spare(p)) = d + d - 0
        BY <4>2, <4>3, FS_Union, FS_EmptySet
      <4>5. Spare(o) \cup Spare(p) \in SUBSET Room
        BY <2>2, <2>4, Zenon
      <4>6. Cardinality(Spare(o) \cup Spare(p)) <= Cardinality(Room)
        BY <2>3, <4>5, FS_Subset, Zenon
      <4> QED
        BY <2>1, <2>3, <2>5, <4>4, <4>6
    <3> QED
      BY <3>1, <3>2, Zenon
  <2> QED
    BY <2>1, <2>6 DEF LogFull
<1> QED
  BY <1>1, InvAlways, PTL

\* end_op() never panics with "log.committing", and commit() runs alone.
THEOREM CommitsAlone == Spec => []CommitAlone
<1>1. Inv => CommitAlone
  BY Zenon DEF Inv, CallInv, CallsOK, CommitAlone
<1> QED
  BY <1>1, InvAlways, PTL

\* A process that sleeps in begin_op() waits for a commit or for a call
\* whose end_op() will wake it.
THEOREM SleeperNeverForgotten == Spec => []SleeperHasWaker
<1>1. Inv => SleeperHasWaker
  BY Zenon DEF Inv, CallInv, CallsOK, SleeperHasWaker
<1> QED
  BY <1>1, InvAlways, PTL

\* When no call is active and no commit runs, the home blocks are current
\* and the log is empty.
THEOREM IdleIsClean == Spec => []Quiescent
<1>1. ASSUME Inv PROVE Quiescent
  <2> SUFFICES ASSUME phase = "idle", outstanding = 0 PROVE disk = cache /\ dhead = <<>> /\ lh = <<>>
    BY Zenon DEF Quiescent
  <2>1. lh = <<>> /\ dhead = <<>>
    BY <1>1, Zenon DEF Inv, DiskInv, HeadOK
  <2>2. \A b \in Blocks : cache[b] = disk[b]
    BY <1>1, <2>1 DEF Inv, DiskInv, CacheOK, Range1
  <2> QED
    BY <1>1, <2>1, <2>2 DEF Inv, CallInv, TypeOK
<1> QED
  BY <1>1, InvAlways, PTL

-----------------------------------------------------------------------------
(***************************************************************************)
(* The log implements AtomicDisk.                                          *)
(***************************************************************************)
Recovered(d, l, h) == [b \in Blocks |->
    IF \E k \in 1 .. Len(h) : h[k] = b THEN l[CHOOSE k \in 1 .. Len(h) : h[k] = b] ELSE d[b]]

\* What recovery would install, block by block.
LEMMA RecoveredAt ==
    ASSUME NEW d, NEW l, NEW h \in Seq(Blocks), Distinct(h)
    PROVE  /\ \A k \in 1 .. Len(h) : Recovered(d, l, h)[h[k]] = l[k]
           /\ \A b \in Blocks : b \notin Range1(h) => Recovered(d, l, h)[b] = d[b]
<1>1. ASSUME NEW k \in 1 .. Len(h) PROVE Recovered(d, l, h)[h[k]] = l[k]
  <2> DEFINE j == CHOOSE i \in 1 .. Len(h) : h[i] = h[k]
  <2>1. j \in 1 .. Len(h) /\ h[j] = h[k]
    OBVIOUS
  <2>2. j = k
    BY <2>1, Zenon DEF Distinct
  <2>3. h[k] \in Blocks
    OBVIOUS
  <2>4. Recovered(d, l, h)[h[k]] = l[j]
    BY <2>1, <2>3, Zenon DEF Recovered
  <2> QED
    BY <2>2, <2>4, Zenon
<1>2. \A b \in Blocks : b \notin Range1(h) => Recovered(d, l, h)[b] = d[b]
  BY Zenon DEF Recovered, Range1
<1> QED
  BY <1>1, <1>2, Zenon

\* ... and nothing else has these blocks.
LEMMA RecoveredIs ==
    ASSUME NEW d, NEW l, NEW h \in Seq(Blocks), Distinct(h), NEW f, f = [b \in Blocks |-> f[b]],
           \A k \in 1 .. Len(h) : f[h[k]] = l[k],
           \A b \in Blocks : b \notin Range1(h) => f[b] = d[b]
    PROVE  Recovered(d, l, h) = f
<1>1. \A b \in Blocks : Recovered(d, l, h)[b] = f[b]
  BY RecoveredAt DEF Range1
<1>2. Recovered(d, l, h) = [b \in Blocks |-> Recovered(d, l, h)[b]]
  BY Zenon DEF Recovered
<1> QED
  BY <1>1, <1>2, Zenon

Mem == IF Recovering THEN Durable ELSE cache

\* An empty header recovers the disk as it is.
LEMMA NothingToRecover ==
    ASSUME NEW d \in [Blocks -> Vals], NEW l
    PROVE  Recovered(d, l, <<>>) = d
BY DEF Recovered

\* The initial states are initial states of AtomicDisk.
LEMMA InitAtomic == Init => Abstract!Init
<1> SUFFICES ASSUME Init PROVE Abstract!Init
  OBVIOUS
<1>1. Durable = Recovered(disk, dlog, <<>>) /\ disk \in [Blocks -> Vals]
  BY Zenon DEF Init, Durable, Recovered
<1>2. Durable \in [Blocks -> Vals]
  BY <1>1, NothingToRecover, Zenon
<1> QED
  BY <1>2, Zenon DEF Abstract!Init, Init, Recovering

\* The steps that change what a crash would leave: the commit point alone.
\* Installing and erasing a committed transaction change nothing.
LEMMA DurableStep ==
    ASSUME Inv, [Next]_vars
    PROVE  Durable' = Durable \/ (WriteHead /\ Durable' = cache)
<1>0. /\ HeadOK /\ CacheOK /\ DataOK /\ lh \in Seq(Blocks) /\ dhead \in Seq(Blocks) /\ Distinct(dhead) /\ Distinct(lh)
      /\ disk \in [Blocks -> Vals] /\ cache \in [Blocks -> Vals]
      /\ Durable = Recovered(disk, dlog, dhead) /\ Durable' = Recovered(disk', dlog', dhead')
  BY Zenon DEF Inv, CallInv, TypeOK, DiskInv, HeadOK, Durable, Recovered
<1>1. CASE UNCHANGED ondisk
  BY <1>0, <1>1, Zenon DEF ondisk
<1>2. CASE WriteLog
  <2>1. dhead = <<>> /\ dhead' = <<>> /\ disk' = disk
    BY <1>0, <1>2, Zenon DEF WriteLog, HeadOK
  <2> QED
    BY <1>0, <2>1, NothingToRecover, Zenon
<1>3. CASE WriteHead
  <2>1. dhead' = lh /\ disk' = disk /\ dlog' = dlog /\ phase = "write_head"
    BY <1>3, Zenon DEF WriteHead
  <2>2. /\ \A k \in 1 .. Len(lh) : cache[lh[k]] = dlog[k]
        /\ \A b \in Blocks : b \notin Range1(lh) => cache[b] = disk[b]
        /\ cache = [b \in Blocks |-> cache[b]]
    BY <1>0, <2>1, Zenon DEF DataOK, Logged, CacheOK
  <2>3. Recovered(disk, dlog, lh) = cache
    BY <1>0, <2>2, RecoveredIs
  <2> QED
    BY <1>0, <1>3, <2>1, <2>3, Zenon
<1>4. CASE Install \/ Reinstall
  <2>1. /\ phase \in {"install", "reinstall"} /\ dhead = lh /\ tail \in 1 .. Len(lh)
        /\ UNCHANGED <<lh, dlog, dhead>> /\ disk' = [disk EXCEPT ![lh[tail]] = dlog[tail]]
    BY <1>0, <1>4, Zenon DEF Install, Reinstall, HeadOK, log
  <2>2. \A b \in Blocks : b \notin Range1(dhead) => disk'[b] = disk[b]
    BY <1>0, <2>1, Zenon DEF Range1
  <2>3. /\ \A k \in 1 .. Len(dhead) : Durable[dhead[k]] = dlog[k]
        /\ \A b \in Blocks : b \notin Range1(dhead) => Durable[b] = disk'[b]
    BY <1>0, <2>2, RecoveredAt
  <2>4. Durable = [b \in Blocks |-> Durable[b]]
    BY Zenon DEF Durable
  <2>5. dhead \in Seq(Blocks) /\ Distinct(dhead)
    BY <1>0, Zenon
  <2>6. Recovered(disk', dlog, dhead) = Durable
    BY <2>3, <2>4, <2>5, RecoveredIs
  <2> QED
    BY <1>0, <2>1, <2>6, Zenon
<1>5. CASE EraseLog \/ ClearLog
  <2>1. phase \in {"erase", "clear"} /\ dhead = lh /\ dhead' = <<>> /\ UNCHANGED <<disk, dlog>>
    BY <1>0, <1>5, Zenon DEF EraseLog, ClearLog, HeadOK
  <2>2. \A k \in 1 .. Len(lh) : disk[lh[k]] = dlog[k]
    BY <1>0, <2>1, Zenon DEF DataOK, Installed
  <2>3. disk = [b \in Blocks |-> disk[b]]
    BY <1>0, Zenon
  <2>4. Recovered(disk, dlog, lh) = disk
    BY <1>0, <2>2, <2>3, RecoveredIs
  <2> QED
    BY <1>0, <2>1, <2>4, NothingToRecover, Zenon
<1> QED
  BY <1>1, <1>2, <1>3, <1>4, <1>5, Zenon
  DEF Next, CommitStep, RecoveryStep, vars, BeginOp, EndOp, LogWrite, Evict, EndCommit, ReadHead, Crash

\* At the end of recovery the cache shows what was recovered.
LEMMA MemStep ==
    ASSUME Inv, ReadHead \/ Reinstall \/ ClearLog, Durable' = Durable
    PROVE  UNCHANGED <<Mem, outstanding>>
<1>1. CASE ReadHead \/ Reinstall
  BY <1>1, Zenon DEF ReadHead, Reinstall, AfterRead, Mem, Recovering, log
<1>2. CASE ClearLog
  <2>1. /\ Recovering /\ ~ Recovering' /\ cache' = cache /\ dhead' = <<>> /\ disk' = disk /\ outstanding' = outstanding
        /\ cache = disk /\ disk \in [Blocks -> Vals]
    BY <1>2, Zenon DEF ClearLog, Recovering, bufs, Inv, DiskInv, CacheOK, CallInv, TypeOK
  <2>2. Durable' = Recovered(disk, dlog', <<>>)
    BY <2>1, Zenon DEF Durable, Recovered
  <2>3. Durable' = cache
    BY <2>1, <2>2, NothingToRecover, Zenon
  <2> QED
    BY <2>1, <2>3, Zenon DEF Mem
<1> QED
  BY <1>1, <1>2, Zenon

\* Every step of the log begins or ends a call, writes in memory, commits,
\* crashes, or changes nothing that AtomicDisk sees.
LEMMA StepAtomic == Inv /\ [Next]_vars => [Abstract!Next]_(Abstract!dvars)
<1> SUFFICES ASSUME Inv, [Next]_vars PROVE [Abstract!Next]_(Abstract!dvars)
  OBVIOUS
<1> DEFINE Same == UNCHANGED <<Durable, Mem, outstanding>>
<1>0. Same => UNCHANGED Abstract!dvars
  BY Zenon DEF Abstract!dvars, Mem
<1>1. Durable' = Durable \/ (WriteHead /\ Durable' = cache)
  BY DurableStep, Zenon
<1>2. CASE UNCHANGED vars
  BY <1>0, <1>2, Zenon DEF vars, log, bufs, ondisk, Mem, Durable, Recovering
<1>3. ASSUME NEW o \in Ops, BeginOp(o) PROVE Same \/ Abstract!Begin
  BY <1>1, <1>3, Zenon DEF BeginOp, Abstract!Begin, Mem, Recovering, bufs, WriteHead, callers
<1>4. ASSUME NEW o \in Ops, EndOp(o) PROVE Abstract!End
  <2>1. outstanding > 0 /\ ~ Recovering /\ phase = "idle"
    BY <1>4, ActiveIdle, Zenon DEF EndOp, Inv, CallInv
  <2>2. ~ Recovering' /\ cache' = cache /\ outstanding' = outstanding - 1
    BY <1>4, <2>1, Zenon DEF EndOp, Recovering, bufs
  <2>3. Durable' = Durable
    BY <1>1, <2>1, Zenon DEF WriteHead
  <2> QED
    BY <2>1, <2>2, <2>3, Zenon DEF Abstract!End
<1>5. ASSUME NEW o \in Ops, NEW b \in Blocks, NEW v \in Vals, LogWrite(o, b, v) PROVE Abstract!Write(b, v)
  <2>1. outstanding > 0 /\ ~ Recovering /\ phase = "idle"
    BY <1>5, ActiveIdle, Zenon DEF LogWrite, Inv, CallInv
  <2>2. ~ Recovering' /\ cache' = [cache EXCEPT ![b] = v] /\ outstanding' = outstanding
    BY <1>5, <2>1, Zenon DEF LogWrite, Recovering
  <2>3. Durable' = Durable
    BY <1>1, <2>1, Zenon DEF WriteHead
  <2> QED
    BY <2>1, <2>2, <2>3, Zenon DEF Abstract!Write
<1>6. ASSUME NEW b \in Blocks, Evict(b) PROVE Same
  <2>1. cache' = cache /\ UNCHANGED <<phase, outstanding, ondisk>>
    BY <1>6, EvictNothing, Zenon DEF Evict, log
  <2> QED
    BY <2>1, Zenon DEF Mem, Durable, Recovering, ondisk
<1>7. CASE WriteLog \/ EraseLog \/ Install \/ \E o \in Ops : EndCommit(o)
  <2>1. cache' = cache /\ outstanding' = outstanding /\ ~ Recovering /\ ~ Recovering' /\ phase # "write_head"
    BY <1>7, InstallDisk, Zenon DEF WriteLog, EraseLog, Install, EndCommit, Recovering, log, bufs
  <2>2. Durable' = Durable
    BY <1>1, <2>1, Zenon DEF WriteHead
  <2> QED
    BY <1>0, <2>1, <2>2, Zenon DEF Mem
<1>8. CASE WriteHead
  <2>1. outstanding = 0
    BY <1>8, Zenon DEF WriteHead, Inv, CallInv, CallsOK, InCommit
  <2>2. ~ Recovering /\ ~ Recovering' /\ cache' = cache /\ outstanding' = outstanding
    BY <1>8, Zenon DEF WriteHead, Recovering, log, bufs
  <2>3. Durable' = cache \/ Same
    BY <1>1, <2>2, Zenon DEF Mem
  <2> QED
    BY <1>0, <2>1, <2>2, <2>3, Zenon DEF Abstract!Next, Abstract!Commit
<1>9. CASE ReadHead \/ Reinstall \/ ClearLog
  <2>1. Durable' = Durable
    BY <1>1, <1>9, Zenon DEF WriteHead, ReadHead, Reinstall, ClearLog
  <2> QED
    BY <1>0, <1>9, <2>1, MemStep, Zenon
<1>10. CASE Crash
  <2>1. Durable' = Durable /\ outstanding' = 0 /\ Recovering'
    BY <1>10, Zenon DEF Crash, ondisk, Durable, Recovering
  <2> QED
    BY <2>1, Zenon DEF Abstract!Next, Abstract!Crash
<1> QED
  BY <1>0, <1>2, <1>3, <1>4, <1>5, <1>6, <1>7, <1>8, <1>9, <1>10, Zenon
  DEF Next, CommitStep, RecoveryStep, Abstract!Next

\* The log makes the updates of a group of calls atomic: whatever the
\* interleaving of calls and however often the machine crashes, also while
\* recovery runs, the disk after recovery holds all of a committed group of
\* calls and nothing of an uncommitted one.
THEOREM LogIsAtomic == Spec => Atomic
BY InitAtomic, StepAtomic, InvAlways, PTL DEF Spec, Atomic, Abstract!Spec
=============================================================================
