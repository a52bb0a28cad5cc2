----------------------------- MODULE PipeProofs -----------------------------
(***************************************************************************)
(* What a pipe guarantees, for every number of readers and writers, every  *)
(* PIPESIZE, width W of the counters, MaxN and Killable.                   *)
(***************************************************************************)
EXTENDS Pipe, TLAPS

-----------------------------------------------------------------------------
(***************************************************************************)
(* Arithmetic of the counters, which are taken modulo W and index a buffer *)
(* of PIPESIZE bytes.                                                      *)
(***************************************************************************)
LEMMA Division ==
    ASSUME NEW w \in Nat \ {0}, NEW a \in Int
    PROVE  a \div w \in Int /\ a % w \in 0 .. w - 1 /\ a = w * (a \div w) + (a % w)
<1>1. a \div w \in Int /\ a % w \in 0 .. w - 1
  OBVIOUS
<1>2. a = w * (a \div w) + (a % w)
  OBVIOUS
<1> QED
  BY <1>1, <1>2

\* A remainder is unique.
LEMMA Remainder ==
    ASSUME NEW w \in Nat \ {0}, NEW q \in Int, NEW r \in 0 .. w - 1, NEW a \in Int, a = w * q + r
    PROVE  a % w = r
OBVIOUS

\* A counter that has wrapped around gives the same index.
LEMMA IndexOfCounter ==
    ASSUME NEW a \in Int
    PROVE  (a % W) % PIPESIZE = a % PIPESIZE
<1>0. W \in Nat \ {0} /\ PIPESIZE \in Nat \ {0} /\ W % PIPESIZE = 0
  BY PipeSizes
<1> DEFINE m == W \div PIPESIZE
           q == a \div W
           n == (a % W) \div PIPESIZE
           r == (a % W) % PIPESIZE
<1>1. m \in Int /\ W = PIPESIZE * m
  BY <1>0, Division
<1>2. q \in Int /\ a % W \in Int /\ a = W * q + (a % W)
  BY <1>0, Division
<1>3. n \in Int /\ r \in 0 .. PIPESIZE - 1 /\ a % W = PIPESIZE * n + r
  BY <1>0, <1>2, Division
<1> HIDE DEF m, q, n, r
<1>4. a = (PIPESIZE * m) * q + (PIPESIZE * n + r)
  BY <1>1, <1>2, <1>3
<1>5. (PIPESIZE * m) * q + (PIPESIZE * n + r) = PIPESIZE * (m * q + n) + r
  <2>1. (PIPESIZE * m) * q = PIPESIZE * (m * q)
    BY <1>0, <1>1, <1>2
  <2>2. \A x \in Int : PIPESIZE * x + (PIPESIZE * n + r) = PIPESIZE * (x + n) + r
    BY <1>0, <1>3
  <2>3. m * q \in Int
    BY <1>1, <1>2
  <2> QED
    BY <2>1, <2>2, <2>3
<1>6. PICK k \in Int : k = m * q + n
  BY <1>1, <1>2, <1>3
<1>7. a = PIPESIZE * k + r
  BY <1>4, <1>5, <1>6
<1>8. a % PIPESIZE = r
  BY <1>0, <1>3, <1>7, Remainder
<1> QED
  BY <1>8 DEF r

\* One lap of the counters changes no index.
LEMMA OneLap ==
    ASSUME NEW a \in Int
    PROVE  (a + W) % PIPESIZE = a % PIPESIZE
<1>0. W \in Nat \ {0}
  BY PipeSizes
<1>1. PICK q \in Int, r \in 0 .. W - 1 : a = W * q + r
  BY <1>0, Division
<1>2. a + W = W * (q + 1) + r /\ q + 1 \in Int /\ a + W \in Int
  BY <1>0, <1>1
<1>3. a % W = r
  BY <1>0, <1>1, Remainder
<1>4. (a + W) % W = r
  BY <1>0, <1>1, <1>2, Remainder
<1> QED
  BY <1>2, <1>3, <1>4, IndexOfCounter

\* Counters less than PIPESIZE apart index different bytes.
LEMMA DifferentIndex ==
    ASSUME NEW a \in Int, NEW b \in Int, a < b, b < a + PIPESIZE
    PROVE  a % PIPESIZE # b % PIPESIZE
<1>0. PIPESIZE \in Nat \ {0}
  BY PipeSizes
<1> SUFFICES ASSUME a % PIPESIZE = b % PIPESIZE PROVE FALSE
  OBVIOUS
<1> DEFINE q == a \div PIPESIZE
           n == b \div PIPESIZE
           r == a % PIPESIZE
<1>1. q \in Int /\ n \in Int /\ r \in Int /\ a = PIPESIZE * q + r /\ b = PIPESIZE * n + r
  BY <1>0, Division
<1> HIDE DEF q, n, r
<1>2. b - a = PIPESIZE * (n - q) /\ n - q \in Int
  BY <1>0, <1>1
<1>3. n - q >= 1
  <2> SUFFICES ASSUME n - q <= 0 PROVE FALSE
    BY <1>2
  <2>1. PIPESIZE * (n - q) <= 0
    BY <1>0, <1>2
  <2> QED
    BY <1>2, <2>1
<1>4. PIPESIZE * (n - q) >= PIPESIZE
  BY <1>0, <1>2, <1>3
<1> QED
  BY <1>0, <1>2, <1>4

\* The number of bytes in the pipe, and what adding and taking one does.
Count == (nwrite - nread) % W

\* The difference of nwrite and nread, taken modulo their width, is the fill.
\* The difference of the counters, modulo their width, is the fill.
LEMMA CountOfCounters ==
    ASSUME NEW r \in 0 .. W - 1, NEW w \in 0 .. W - 1
    PROVE  /\ (w - r) % W = IF w >= r THEN w - r ELSE w - r + W
           /\ (w + 1) % W = IF w = W - 1 THEN 0 ELSE w + 1
           /\ (r + PIPESIZE) % W = IF r + PIPESIZE >= W THEN r + PIPESIZE - W ELSE r + PIPESIZE
<1>0. W \in Nat \ {0} /\ PIPESIZE \in Nat \ {0} /\ PIPESIZE < W
  BY PipeSizes
<1>1. (w + 1) % W = IF w = W - 1 THEN 0 ELSE w + 1
  BY <1>0
<1>2. (r + PIPESIZE) % W = IF r + PIPESIZE >= W THEN r + PIPESIZE - W ELSE r + PIPESIZE
  BY <1>0
<1>3. (w - r) % W = IF w >= r THEN w - r ELSE w - r + W
  <2>1. CASE w >= r
    BY <1>0, <2>1
  <2>2. CASE w < r
    BY <1>0, <2>2
  <2> QED
    BY <2>1, <2>2
<1> QED
  BY <1>1, <1>2, <1>3
-----------------------------------------------------------------------------
(***************************************************************************)
(* The inductive invariant.  The process that holds pi->lock is the one    *)
(* inside; who is inside has its end open; and whoever sleeps does so for  *)
(* a reason that still holds, or that the holder of the lock will announce *)
(* when it leaves.  Only a writer that has been killed leaves without      *)
(* announcing what it wrote.                                               *)
(***************************************************************************)
LockOK == \A p \in Procs : lk = p <=> pc[p] \in {"loop", "sleep", "copy"}

OpenOK ==
    /\ \A p \in Procs : pc[p] # "user" => p \in fds
    /\ \A p \in Procs : killed[p] => p \in Killable
    /\ readopen \/ \A p \in Readers : p \notin fds
    /\ writeopen \/ \A p \in Writers : p \notin fds
    /\ freed => ~ readopen /\ ~ writeopen

SpaceOK == Count <= PIPESIZE

ReaderOK == \A p \in Readers :
    /\ pc[p] = "sleep" => Empty /\ writeopen
    /\ pc[p] = "asleep" => (Empty /\ writeopen) \/ \E w \in Writers : pc[w] = "loop" \/ killed[w]

WriterOK == \A p \in Writers :
    /\ pc[p] # "copy"
    /\ pc[p] = "sleep" => Full /\ readopen
    /\ pc[p] = "asleep" => (Full /\ readopen) \/ \E r \in Readers : pc[r] = "copy"

Inv == TypeOK /\ LockOK /\ OpenOK /\ SpaceOK /\ ReaderOK /\ WriterOK

\* Full and Empty, which compare the counters, say what they mean.
LEMMA FullEmpty ==
    ASSUME TypeOK
    PROVE  /\ Count \in 0 .. W - 1
           /\ Empty <=> Count = 0
           /\ Full <=> Count = PIPESIZE
<1>0. W \in Nat \ {0} /\ PIPESIZE \in Nat \ {0} /\ PIPESIZE < W /\ nread \in 0 .. W - 1 /\ nwrite \in 0 .. W - 1
  BY PipeSizes DEF TypeOK
<1>1. Count = IF nwrite >= nread THEN nwrite - nread ELSE nwrite - nread + W
  BY <1>0, CountOfCounters DEF Count
<1>2. (nread + PIPESIZE) % W = IF nread + PIPESIZE >= W THEN nread + PIPESIZE - W ELSE nread + PIPESIZE
  BY <1>0, CountOfCounters
<1> QED
  BY <1>0, <1>1, <1>2 DEF Full, Empty

\* A byte more, a byte less.
LEMMA PutGetCount ==
    ASSUME TypeOK
    PROVE  /\ nwrite' = (nwrite + 1) % W /\ nread' = nread /\ Count < PIPESIZE =>
                 Count' = Count + 1 /\ nwrite' \in 0 .. W - 1
           /\ nread' = (nread + 1) % W /\ nwrite' = nwrite /\ Count > 0 =>
                 Count' = Count - 1 /\ nread' \in 0 .. W - 1
<1>0. W \in Nat \ {0} /\ PIPESIZE \in Nat \ {0} /\ PIPESIZE < W /\ nread \in 0 .. W - 1 /\ nwrite \in 0 .. W - 1
  BY PipeSizes DEF TypeOK
<1>1. Count = IF nwrite >= nread THEN nwrite - nread ELSE nwrite - nread + W
  BY <1>0, CountOfCounters DEF Count
<1>2. (nwrite + 1) % W = IF nwrite = W - 1 THEN 0 ELSE nwrite + 1
  BY <1>0, CountOfCounters
<1>3. (nread + 1) % W = IF nread = W - 1 THEN 0 ELSE nread + 1
  BY <1>0, CountOfCounters
<1>4. ASSUME nread' \in 0 .. W - 1, nwrite' \in 0 .. W - 1
      PROVE  Count' = IF nwrite' >= nread' THEN nwrite' - nread' ELSE nwrite' - nread' + W
  BY <1>0, <1>4, CountOfCounters DEF Count
<1>5. CASE nwrite' = (nwrite + 1) % W /\ nread' = nread /\ Count < PIPESIZE
  <2>1. nread' \in 0 .. W - 1 /\ nwrite' \in 0 .. W - 1
    BY <1>0, <1>2, <1>5
  <2> QED
    BY <1>0, <1>1, <1>2, <1>4, <1>5, <2>1
<1>6. CASE nread' = (nread + 1) % W /\ nwrite' = nwrite /\ Count > 0
  <2>1. nread' \in 0 .. W - 1 /\ nwrite' \in 0 .. W - 1
    BY <1>0, <1>3, <1>6
  <2> QED
    BY <1>0, <1>1, <1>3, <1>4, <1>6, <2>1
<1> QED
  BY <1>5, <1>6

-----------------------------------------------------------------------------
(***************************************************************************)
(* Every action preserves the invariant.                                   *)
(***************************************************************************)
LEMMA InitInv == Init => Inv
<1> SUFFICES ASSUME Init PROVE Inv
  OBVIOUS
<1>1. TypeOK
  <2>1. nread \in 0 .. W - 1 /\ nwrite \in 0 .. W - 1 /\ left \in [Procs -> 0 .. MaxN]
    BY PipeSizes DEF Init
  <2>2. {readopen, writeopen, freed} \subseteq BOOLEAN /\ killed \in [Procs -> BOOLEAN]
    BY DEF Init
  <2>3. pc \in [Procs -> {"user", "acquire", "loop", "sleep", "asleep", "copy"}] /\ lk \in Procs \cup {NoOne}
    BY DEF Init
  <2> QED
    BY <2>1, <2>2, <2>3 DEF Init, TypeOK
<1>2. Count = 0
  BY <1>1, FullEmpty DEF Init, Empty
<1>3. SpaceOK
  BY <1>2, PipeSizes DEF SpaceOK
<1>4. LockOK /\ OpenOK /\ ReaderOK /\ WriterOK
  BY PipeProcs DEF Init, LockOK, OpenOK, ReaderOK, WriterOK, Procs
<1> QED
  BY <1>1, <1>3, <1>4 DEF Inv

\* The bytes stay as they are: so does what is said of them.
LEMMA PipeKept ==
    ASSUME UNCHANGED pipe
    PROVE  /\ Count' = Count /\ (Full' <=> Full) /\ (Empty' <=> Empty)
           /\ nread' = nread /\ nwrite' = nwrite /\ data' = data
BY DEF pipe, Count, Full, Empty

\* read(), write(), acquire() and the end of sleep().
LEMMA EnterInv ==
    ASSUME Inv, NEW p \in Procs, NEW n \in 0 .. MaxN, Enter(p, n)
    PROVE  Inv'
<1>1. TypeOK'
  BY PipeKept DEF Inv, Enter, Move, TypeOK, ends
<1>2. LockOK' /\ OpenOK' /\ SpaceOK' /\ ReaderOK' /\ WriterOK'
  BY PipeKept DEF Inv, Enter, Move, TypeOK, ends, LockOK, OpenOK, SpaceOK, ReaderOK, WriterOK, Procs
<1> QED
  BY <1>1, <1>2 DEF Inv

\* acquire() of the pipe's lock keeps the invariant.
LEMMA AcquireInv ==
    ASSUME Inv, NEW p \in Procs, Acquire(p)
    PROVE  Inv'
<1>1. TypeOK'
  BY PipeKept, PipeProcs, PipeSizes DEF Inv, Acquire, Move, TypeOK, ends
<1>2. LockOK' /\ OpenOK'
  BY PipeKept, PipeProcs, PipeSizes DEF Inv, Acquire, Move, TypeOK, ends, LockOK, OpenOK, Procs
<1>3. SpaceOK' /\ ReaderOK' /\ WriterOK'
  BY PipeKept, PipeProcs, PipeSizes DEF Inv, Acquire, Move, TypeOK, ends, LockOK, OpenOK, SpaceOK, ReaderOK, WriterOK, Procs
<1> QED
  BY <1>1, <1>2, <1>3 DEF Inv

\* sleep() releases the lock and waits.
LEMMA SleepInv ==
    ASSUME Inv, NEW p \in Procs, Sleep(p)
    PROVE  Inv'
<1>1. TypeOK'
  BY PipeKept, PipeProcs, PipeSizes, SMTT(30) DEF Inv, Sleep, Move, TypeOK, ends
<1>2. LockOK' /\ OpenOK'
  BY PipeKept, PipeProcs, PipeSizes DEF Inv, Sleep, Move, TypeOK, ends, LockOK, OpenOK, Procs
<1>3. SpaceOK' /\ ReaderOK' /\ WriterOK'
  BY PipeKept, PipeProcs, PipeSizes, SMTT(30) DEF Inv, Sleep, Move, TypeOK, ends, LockOK, OpenOK, SpaceOK, ReaderOK, WriterOK, Procs
<1> QED
  BY <1>1, <1>2, <1>3 DEF Inv

\* pipewrite() returns -1: no reader, or killed.
LEMMA WriteRefusedInv ==
    ASSUME Inv, NEW p \in Procs, WriteRefused(p)
    PROVE  Inv'
<1>1. TypeOK'
  BY PipeKept, PipeProcs, PipeSizes DEF Inv, WriteRefused, Writing, MoreToWrite, Refused, Leave, Move, TypeOK, ends
<1>2. LockOK' /\ OpenOK'
  BY PipeKept, PipeProcs, PipeSizes DEF Inv, WriteRefused, Writing, MoreToWrite, Refused, Leave, Move, TypeOK, ends, LockOK, OpenOK, Procs
<1>3. SpaceOK' /\ ReaderOK' /\ WriterOK'
  BY PipeKept, PipeProcs, PipeSizes DEF Inv, WriteRefused, Writing, MoreToWrite, Refused, Leave, Move, TypeOK, ends, LockOK, OpenOK, SpaceOK, ReaderOK, WriterOK, Procs
<1> QED
  BY <1>1, <1>2, <1>3 DEF Inv

\* pipewrite() finds the pipe full, wakes the readers and sleeps.
LEMMA WriteFullInv ==
    ASSUME Inv, NEW p \in Procs, WriteFull(p)
    PROVE  Inv'
<1>1. TypeOK'
  BY PipeKept, PipeProcs, PipeSizes DEF Inv, WriteFull, Writing, MoreToWrite, Refused, WokenByFull, Move, TypeOK, ends
<1>2. LockOK' /\ OpenOK'
  BY PipeKept, PipeProcs, PipeSizes DEF Inv, WriteFull, Writing, MoreToWrite, Refused, WokenByFull, Move, TypeOK, ends, LockOK, OpenOK, Procs
<1>3. SpaceOK' /\ ReaderOK' /\ WriterOK'
  BY PipeKept, PipeProcs, PipeSizes DEF Inv, WriteFull, Writing, MoreToWrite, Refused, WokenByFull, Move, TypeOK, ends, LockOK, OpenOK, SpaceOK, ReaderOK, WriterOK, Procs
<1> QED
  BY <1>1, <1>2, <1>3 DEF Inv

\* pipewrite() wakes the readers and returns.
LEMMA WriteDoneInv ==
    ASSUME Inv, NEW p \in Procs, WriteDone(p)
    PROVE  Inv'
<1>1. TypeOK'
  BY PipeKept, PipeProcs, PipeSizes DEF Inv, WriteDone, Writing, MoreToWrite, Refused, Leave, Move, TypeOK, ends
<1>2. LockOK' /\ OpenOK'
  BY PipeKept, PipeProcs, PipeSizes DEF Inv, WriteDone, Writing, MoreToWrite, Refused, Leave, Move, TypeOK, ends, LockOK, OpenOK, Procs
<1>3. SpaceOK' /\ ReaderOK' /\ WriterOK'
  BY PipeKept, PipeProcs, PipeSizes DEF Inv, WriteDone, Writing, MoreToWrite, Refused, Leave, Move, TypeOK, ends, LockOK, OpenOK, SpaceOK, ReaderOK, WriterOK, Procs
<1> QED
  BY <1>1, <1>2, <1>3 DEF Inv

\* piperead() finds the pipe empty.
LEMMA ReadEmptyInv ==
    ASSUME Inv, NEW p \in Procs, ReadEmpty(p)
    PROVE  Inv'
<1>1. CASE Leave(p, {})
  <2>1. TypeOK'
    BY <1>1, PipeKept, PipeSizes DEF Inv, Leave, Move, TypeOK, ends
  <2>2. LockOK' /\ OpenOK'
    BY <1>1, PipeKept, PipeProcs DEF Inv, ReadEmpty, Reading, Leave, Move, TypeOK, ends, LockOK, OpenOK, Procs
  <2>3. SpaceOK' /\ ReaderOK' /\ WriterOK'
    BY <1>1, PipeKept, PipeProcs, PipeSizes
       DEF Inv, ReadEmpty, Reading, Leave, Move, TypeOK, ends, LockOK, OpenOK, SpaceOK, ReaderOK, WriterOK, Procs
  <2> QED
    BY <2>1, <2>2, <2>3 DEF Inv
<1>2. CASE Move(p, "sleep", {}) /\ UNCHANGED <<pipe, ends, lk, left, killed>>
  <2>1. TypeOK'
    BY <1>2, PipeKept DEF Inv, Move, TypeOK, ends
  <2>2. LockOK' /\ OpenOK'
    BY <1>2, PipeKept, PipeProcs DEF Inv, ReadEmpty, Reading, Move, TypeOK, ends, LockOK, OpenOK, Procs
  <2>3. SpaceOK' /\ ReaderOK' /\ WriterOK'
    BY <1>2, PipeKept, PipeProcs, PipeSizes
       DEF Inv, ReadEmpty, Reading, Move, TypeOK, ends, LockOK, OpenOK, SpaceOK, ReaderOK, WriterOK, Procs
  <2> QED
    BY <2>1, <2>2, <2>3 DEF Inv
<1> QED
  BY <1>1, <1>2 DEF ReadEmpty

\* piperead() begins to copy.
LEMMA ReadStartInv ==
    ASSUME Inv, NEW p \in Procs, ReadStart(p)
    PROVE  Inv'
<1>1. TypeOK'
  BY PipeKept, PipeProcs, PipeSizes DEF Inv, ReadStart, Reading, Move, TypeOK, ends
<1>2. LockOK' /\ OpenOK'
  BY PipeKept, PipeProcs, PipeSizes DEF Inv, ReadStart, Reading, Move, TypeOK, ends, LockOK, OpenOK, Procs
<1>3. SpaceOK' /\ ReaderOK' /\ WriterOK'
  BY PipeKept, PipeProcs, PipeSizes DEF Inv, ReadStart, Reading, Move, TypeOK, ends, LockOK, OpenOK, SpaceOK, ReaderOK, WriterOK, Procs
<1> QED
  BY <1>1, <1>2, <1>3 DEF Inv

\* piperead() wakes the writers and returns.
LEMMA ReadDoneInv ==
    ASSUME Inv, NEW p \in Procs, ReadDone(p)
    PROVE  Inv'
<1>1. TypeOK'
  BY PipeKept, PipeProcs, PipeSizes DEF Inv, ReadDone, Reading, Leave, Move, TypeOK, ends
<1>2. LockOK' /\ OpenOK'
  BY PipeKept, PipeProcs, PipeSizes DEF Inv, ReadDone, Reading, Leave, Move, TypeOK, ends, LockOK, OpenOK, Procs
<1>3. SpaceOK' /\ ReaderOK' /\ WriterOK'
  BY PipeKept, PipeProcs, PipeSizes DEF Inv, ReadDone, Reading, Leave, Move, TypeOK, ends, LockOK, OpenOK, SpaceOK, ReaderOK, WriterOK, Procs
<1> QED
  BY <1>1, <1>2, <1>3 DEF Inv

\* kill() sets p->killed and wakes the victim.
LEMMA KillInv ==
    ASSUME Inv, NEW p \in Procs, Kill(p)
    PROVE  Inv'
<1>1. TypeOK'
  BY PipeKept, PipeProcs, PipeSizes DEF Inv, Kill, Move, TypeOK, ends
<1>2. LockOK' /\ OpenOK'
  BY PipeKept, PipeProcs, PipeSizes DEF Inv, Kill, Move, TypeOK, ends, LockOK, OpenOK, Procs
<1>3. SpaceOK' /\ ReaderOK' /\ WriterOK'
  BY PipeKept, PipeProcs, PipeSizes DEF Inv, Kill, Move, TypeOK, ends, LockOK, OpenOK, SpaceOK, ReaderOK, WriterOK, Procs
<1> QED
  BY <1>1, <1>2, <1>3 DEF Inv

\* The holder of the lock moves a byte: the pipe is not empty, or not full,
\* any more, which it will announce when it is done.
LEMMA WriteByteInv ==
    ASSUME Inv, NEW p \in Procs, NEW b \in Bytes, WriteByte(p, b)
    PROVE  Inv'
<1>1. Count < PIPESIZE /\ Count' = Count + 1 /\ nwrite' \in 0 .. W - 1
  BY FullEmpty, PutGetCount, PipeSizes DEF Inv, SpaceOK, WriteByte
<1>2. TypeOK'
  <2>1. left' \in [Procs -> 0 .. MaxN]
    BY PipeSizes, SMTT(30) DEF Inv, TypeOK, WriteByte, MoreToWrite
  <2>2. data' \in [0 .. PIPESIZE - 1 -> Bytes]
    BY DEF Inv, TypeOK, WriteByte
  <2> QED
    BY <1>1, <2>1, <2>2 DEF Inv, TypeOK, WriteByte, ends
<1>3. SpaceOK'
  BY <1>1, FullEmpty, PipeSizes DEF Inv, SpaceOK
<1>4. LockOK' /\ OpenOK'
  BY DEF Inv, TypeOK, WriteByte, ends, LockOK, OpenOK
<1>5. ReaderOK' /\ WriterOK'
  BY PipeProcs, PipeSizes, SMTT(30) DEF Inv, TypeOK, WriteByte, Writing, Refused, ends, LockOK, ReaderOK, WriterOK, Procs
<1> QED
  BY <1>2, <1>3, <1>4, <1>5 DEF Inv

\* piperead() takes one byte.
LEMMA ReadByteInv ==
    ASSUME Inv, NEW p \in Procs, ReadByte(p)
    PROVE  Inv'
<1>1. Count > 0 /\ Count' = Count - 1 /\ nread' \in 0 .. W - 1
  BY FullEmpty, PutGetCount, PipeSizes DEF Inv, ReadByte
<1>2. TypeOK'
  BY <1>1, PipeSizes, SMTT(30) DEF Inv, TypeOK, ReadByte, ends
<1>3. SpaceOK'
  BY <1>1, FullEmpty, PipeSizes DEF Inv, SpaceOK
<1>4. LockOK' /\ OpenOK'
  BY DEF Inv, TypeOK, ReadByte, ends, LockOK, OpenOK
<1>5. ReaderOK' /\ WriterOK'
  BY PipeProcs, PipeSizes, SMTT(30) DEF Inv, TypeOK, ReadByte, Reading, ends, LockOK, ReaderOK, WriterOK, Procs
<1> QED
  BY <1>2, <1>3, <1>4, <1>5 DEF Inv

\* pipeclose() wakes the other side before the end it closes is missed.
LEMMA CloseInv ==
    ASSUME Inv, NEW p \in Procs, Close(p)
    PROVE  Inv'
<1>0. /\ UNCHANGED <<pipe, lk, left, killed>> /\ pc[p] = "user" /\ fds' = fds \ {p}
  BY DEF Close
<1>1. CASE UNCHANGED <<readopen, writeopen, freed, pc>>
  <2>1. TypeOK'
    BY <1>0, <1>1, PipeKept DEF Inv, TypeOK
  <2>2. LockOK' /\ OpenOK' /\ SpaceOK'
    BY <1>0, <1>1, PipeKept, SMTT(30) DEF Inv, TypeOK, LockOK, OpenOK, SpaceOK
  <2>3. ReaderOK' /\ WriterOK'
    BY <1>0, <1>1, PipeKept DEF Inv, ReaderOK, WriterOK
  <2> QED
    BY <2>1, <2>2, <2>3 DEF Inv
<1>2. CASE fds' \cap SameSide(p) = {} /\ PipeClose(p)
  <2>1. TypeOK'
    BY <1>0, <1>2, PipeKept DEF Inv, TypeOK, PipeClose, BothClosed, Move
  <2>2. LockOK' /\ SpaceOK'
    BY <1>0, <1>2, PipeKept, PipeProcs DEF Inv, TypeOK, LockOK, SpaceOK, PipeClose, Move
  <2>3. OpenOK'
    BY <1>0, <1>2, PipeSizes DEF Inv, TypeOK, OpenOK, PipeClose, BothClosed, Move, SameSide, Procs
  <2>4. lk = NoOne /\ \A q \in Procs : pc[q] \notin {"loop", "sleep", "copy"}
    BY <1>2, PipeProcs DEF Inv, LockOK, PipeClose
  <2>5. ASSUME p \in Writers PROVE \A q \in Procs : pc'[q] # "asleep"
    <3>1. \A q \in Procs : pc'[q] = "asleep" => q \notin Readers /\ q # p /\ pc[q] = "asleep"
      BY <1>2, <2>5, PipeSizes, SMTT(30) DEF Inv, TypeOK, PipeClose, Move, OtherSide
    <3>2. \A q \in Procs : pc'[q] = "asleep" => q \notin Writers
      BY <1>0, <1>2, <2>5, <3>1 DEF Inv, OpenOK, SameSide
    <3> QED
      BY <3>1, <3>2 DEF Procs
  <2>6. ASSUME p \notin Writers PROVE \A q \in Procs : pc'[q] # "asleep"
    <3>1. \A q \in Procs : pc'[q] = "asleep" => q \notin Writers /\ q # p /\ pc[q] = "asleep"
      BY <1>2, <2>6 DEF Inv, TypeOK, PipeClose, Move, OtherSide
    <3>2. \A q \in Procs : pc'[q] = "asleep" => q \notin Readers
      BY <1>0, <1>2, <2>6, <3>1 DEF Inv, OpenOK, SameSide
    <3> QED
      BY <3>1, <3>2 DEF Procs
  <2>7. \A q \in Procs : pc'[q] \notin {"asleep", "sleep", "copy"}
    BY <1>2, <2>4, <2>5, <2>6 DEF PipeClose, Move
  <2>8. ReaderOK' /\ WriterOK'
    BY <2>7 DEF ReaderOK, WriterOK, Procs
  <2> QED
    BY <2>1, <2>2, <2>3, <2>8 DEF Inv
<1> QED
  BY <1>1, <1>2 DEF Close

\* Every step keeps the invariant.
LEMMA StepInv == Inv /\ [Next]_vars => Inv'
<1> SUFFICES ASSUME Inv, [Next]_vars PROVE Inv'
  OBVIOUS
<1>1. CASE UNCHANGED vars
  <2>1. TypeOK' /\ LockOK' /\ OpenOK'
    BY <1>1, SMTT(30) DEF Inv, vars, pipe, ends, TypeOK, LockOK, OpenOK
  <2>2. SpaceOK' /\ ReaderOK' /\ WriterOK'
    BY <1>1, PipeKept DEF Inv, vars, ends, SpaceOK, ReaderOK, WriterOK
  <2> QED
    BY <2>1, <2>2 DEF Inv
<1>2. ASSUME NEW p \in Procs, InPipe(p) PROVE Inv'
  BY <1>2, AcquireInv, SleepInv, WriteRefusedInv, WriteFullInv, WriteDoneInv, WriteByteInv,
     ReadEmptyInv, ReadStartInv, ReadByteInv, ReadDoneInv DEF InPipe
<1>3. ASSUME NEW p \in Procs, Close(p) \/ Kill(p) \/ \E n \in 0 .. MaxN : Enter(p, n) PROVE Inv'
  BY <1>3, CloseInv, KillInv, EnterInv
<1> QED
  BY <1>1, <1>2, <1>3 DEF Next

\* The inductive invariant holds in every reachable state.
LEMMA InvAlways == Spec => []Inv
BY InitInv, StepInv, PTL DEF Spec
-----------------------------------------------------------------------------
(***************************************************************************)
(* What the invariant gives.                                               *)
(***************************************************************************)
\* Only the holder of pi->lock is at "loop" or "copy".
LEMMA HolderInside ==
    ASSUME LockOK, NEW p \in Procs, pc[p] \in {"loop", "copy"}
    PROVE  lk = p
BY DEF LockOK

\* A reader sleeps for a reason that holds, or the writer inside the pipe
\* has yet to wake it; a killed writer is the one exception: pipewrite()
\* then returns -1 without the wakeup.
THEOREM ReaderAwakeUnlessKilled == Spec => [](ReaderAwake \/ \E w \in Writers : killed[w])
<1>1. Inv => ReaderAwake \/ \E w \in Writers : killed[w]
  BY HolderInside DEF Inv, ReaderOK, ReaderAwake, Procs
<1> QED
  BY <1>1, InvAlways, PTL

\* piperead()'s sleep misses no wakeup when no writer is killed.
THEOREM ReaderNeverMissesWakeup ==
    ASSUME Killable \cap Writers = {}
    PROVE  Spec => []ReaderAwake
<1>1. Inv => ReaderAwake
  BY HolderInside DEF Inv, OpenOK, ReaderOK, ReaderAwake, Procs
<1> QED
  BY <1>1, InvAlways, PTL

\* pipewrite()'s sleep misses no wakeup, whoever is killed: piperead() and
\* pipeclose() always announce the room they make.
THEOREM WriterNeverMissesWakeup == Spec => []WriterAwake
<1>1. Inv => WriterAwake
  BY HolderInside DEF Inv, WriterOK, WriterAwake, Procs
<1> QED
  BY <1>1, InvAlways, PTL

\* pipeclose() frees the pipe only when nobody is inside it.
THEOREM FreedPipeUnused == Spec => []NoUseAfterFree
<1>1. Inv => NoUseAfterFree
  BY DEF Inv, OpenOK, NoUseAfterFree, Procs
<1> QED
  BY <1>1, InvAlways, PTL

-----------------------------------------------------------------------------
(***************************************************************************)
(* The pipe implements Fifo.                                               *)
(***************************************************************************)
Ring(r, w, d) == [k \in 1 .. (w - r) % W |-> d[((r + k - 1) % W) % PIPESIZE]]

\* The k-th byte of the pipe is at index nread + k - 1, wrapped.
LEMMA RingAt ==
    ASSUME NEW r \in 0 .. W - 1, NEW w \in 0 .. W - 1, NEW d \in [0 .. PIPESIZE - 1 -> Bytes]
    PROVE  /\ Ring(r, w, d) \in Seq(Bytes) /\ Len(Ring(r, w, d)) = (w - r) % W
           /\ \A k \in 1 .. (w - r) % W : Ring(r, w, d)[k] = d[(r + k - 1) % PIPESIZE]
<1>0. W \in Nat \ {0} /\ PIPESIZE \in Nat \ {0}
  BY PipeSizes
<1>1. \A i \in Int : (i % W) % PIPESIZE = i % PIPESIZE
  BY IndexOfCounter
<1>2. \A i \in Int : i % PIPESIZE \in 0 .. PIPESIZE - 1
  BY <1>0
<1>3. PICK n \in Nat : n = (w - r) % W
  BY <1>0
<1>4. \A k \in 1 .. n : r + k - 1 \in Int
  OBVIOUS
<1>5. \A k \in 1 .. n : Ring(r, w, d)[k] = d[(r + k - 1) % PIPESIZE]
  BY <1>1, <1>3, <1>4 DEF Ring
<1>6. \A k \in 1 .. n : d[(r + k - 1) % PIPESIZE] \in Bytes
  BY <1>2, <1>4
<1>7. Ring(r, w, d) = [k \in 1 .. n |-> Ring(r, w, d)[k]]
  BY <1>3 DEF Ring
<1>8. Ring(r, w, d) \in [1 .. n -> Bytes]
  BY <1>5, <1>6, <1>7
<1> QED
  BY <1>3, <1>5, <1>8

\* pipewrite() puts its byte behind the others.
LEMMA RingPut ==
    ASSUME NEW r \in 0 .. W - 1, NEW w \in 0 .. W - 1, NEW d \in [0 .. PIPESIZE - 1 -> Bytes], NEW b \in Bytes,
           (w - r) % W < PIPESIZE
    PROVE  Ring(r, (w + 1) % W, [d EXCEPT ![w % PIPESIZE] = b]) = Append(Ring(r, w, d), b)
<1>0. W \in Nat \ {0} /\ PIPESIZE \in Nat \ {0} /\ PIPESIZE < W
  BY PipeSizes
<1> DEFINE v == (w + 1) % W
           e == [d EXCEPT ![w % PIPESIZE] = b]
           n == (w - r) % W
<1>1. n \in Nat /\ n < PIPESIZE /\ v \in 0 .. W - 1 /\ (v - r) % W = n + 1
  <2>1. n = IF w >= r THEN w - r ELSE w - r + W
    BY CountOfCounters
  <2>2. v = IF w = W - 1 THEN 0 ELSE w + 1
    BY CountOfCounters
  <2>3. v \in 0 .. W - 1
    BY <1>0, <2>2
  <2>4. (v - r) % W = IF v >= r THEN v - r ELSE v - r + W
    BY <2>3, CountOfCounters, SMTT(30)
  <2> HIDE DEF v
  <2> QED
    BY <1>0, <2>1, <2>2, <2>3, <2>4
<1>2. w % PIPESIZE = (r + n) % PIPESIZE
  <2>1. r + n = w \/ r + n = w + W
    BY <1>0, CountOfCounters
  <2> QED
    BY <2>1, OneLap
<1>3. \A i \in Int : i % PIPESIZE \in 0 .. PIPESIZE - 1
  BY <1>0
<1>4. e \in [0 .. PIPESIZE - 1 -> Bytes] /\ e[w % PIPESIZE] = b
  BY <1>3
<1>5. \A i \in 0 .. PIPESIZE - 1 : i # w % PIPESIZE => e[i] = d[i]
  OBVIOUS
<1> HIDE DEF v, e, n
<1>6. \A k \in 1 .. n : (r + k - 1) % PIPESIZE # (r + n) % PIPESIZE
  <2> TAKE k \in 1 .. n
  <2>1. r + k - 1 \in Int /\ r + n \in Int /\ r + k - 1 < r + n /\ r + n < r + k - 1 + PIPESIZE
    BY <1>0, <1>1
  <2> QED
    BY <2>1, DifferentIndex
<1>7. /\ Ring(r, w, d) \in Seq(Bytes) /\ Len(Ring(r, w, d)) = n
      /\ \A k \in 1 .. n : Ring(r, w, d)[k] = d[(r + k - 1) % PIPESIZE]
  BY RingAt DEF n
<1>8. /\ Ring(r, v, e) \in Seq(Bytes) /\ Len(Ring(r, v, e)) = n + 1
      /\ \A k \in 1 .. n + 1 : Ring(r, v, e)[k] = e[(r + k - 1) % PIPESIZE]
  <2>1. /\ Ring(r, v, e) \in Seq(Bytes) /\ Len(Ring(r, v, e)) = (v - r) % W
        /\ \A k \in 1 .. (v - r) % W : Ring(r, v, e)[k] = e[(r + k - 1) % PIPESIZE]
    BY <1>1, <1>4, RingAt, Zenon
  <2> QED
    BY <1>1, <2>1, Zenon
<1>9. \A k \in 1 .. n : Ring(r, v, e)[k] = Ring(r, w, d)[k]
  <2> TAKE k \in 1 .. n
  <2>1. r + k - 1 \in Int /\ k \in 1 .. n + 1
    BY <1>1
  <2> QED
    BY <1>2, <1>3, <1>5, <1>6, <1>7, <1>8, <2>1
<1>10. Ring(r, v, e)[n + 1] = b
  <2>1. n + 1 \in 1 .. n + 1 /\ r + (n + 1) - 1 = r + n
    BY <1>1
  <2> QED
    BY <1>2, <1>4, <1>8, <2>1
<1>11. Ring(r, v, e) = Append(Ring(r, w, d), b)
  BY <1>1, <1>7, <1>8, <1>9, <1>10
<1> QED
  BY <1>11 DEF v, e

\* piperead() takes the first byte.
LEMMA RingGet ==
    ASSUME NEW r \in 0 .. W - 1, NEW w \in 0 .. W - 1, NEW d \in [0 .. PIPESIZE - 1 -> Bytes], r # w
    PROVE  Ring(r, w, d) # <<>> /\ Ring((r + 1) % W, w, d) = Tail(Ring(r, w, d))
<1>0. W \in Nat \ {0} /\ PIPESIZE \in Nat \ {0} /\ PIPESIZE < W
  BY PipeSizes
<1> DEFINE s == (r + 1) % W
           n == (w - r) % W
<1>1. n \in Nat \ {0} /\ s \in 0 .. W - 1 /\ (w - s) % W = n - 1
  <2>1. n = IF w >= r THEN w - r ELSE w - r + W
    BY CountOfCounters
  <2>2. s = IF r = W - 1 THEN 0 ELSE r + 1
    BY CountOfCounters
  <2>3. s \in 0 .. W - 1
    BY <1>0, <2>2
  <2>4. (w - s) % W = IF w >= s THEN w - s ELSE w - s + W
    BY <2>3, CountOfCounters, SMTT(30)
  <2> HIDE DEF s
  <2> QED
    BY <1>0, <2>1, <2>2, <2>3, <2>4
<1>2. \A k \in Nat : (s + k - 1) % PIPESIZE = (r + k) % PIPESIZE
  <2> TAKE k \in Nat
  <2>1. s + k - 1 = r + k \/ s + k - 1 + W = r + k
    BY <1>0, CountOfCounters
  <2>2. s + k - 1 \in Int /\ r + k \in Int
    BY <1>0
  <2>3. (s + k - 1 + W) % PIPESIZE = (s + k - 1) % PIPESIZE
    BY <2>2, OneLap
  <2> QED
    BY <2>1, <2>3
<1>3. /\ Ring(r, w, d) \in Seq(Bytes) /\ Len(Ring(r, w, d)) = n
      /\ \A k \in 1 .. n : Ring(r, w, d)[k] = d[(r + k - 1) % PIPESIZE]
  BY RingAt
<1> HIDE DEF s, n
<1>4. /\ Ring(s, w, d) \in Seq(Bytes) /\ Len(Ring(s, w, d)) = n - 1
      /\ \A k \in 1 .. n - 1 : Ring(s, w, d)[k] = d[(s + k - 1) % PIPESIZE]
  <2>1. /\ Ring(s, w, d) \in Seq(Bytes) /\ Len(Ring(s, w, d)) = (w - s) % W
        /\ \A k \in 1 .. (w - s) % W : Ring(s, w, d)[k] = d[(s + k - 1) % PIPESIZE]
    BY <1>1, RingAt, Zenon
  <2> QED
    BY <1>1, <2>1, Zenon
<1>5. \A k \in 1 .. n - 1 : Ring(s, w, d)[k] = Ring(r, w, d)[k + 1]
  <2> TAKE k \in 1 .. n - 1
  <2>1. k \in Nat /\ k + 1 \in 1 .. n /\ r + (k + 1) - 1 = r + k
    BY <1>1
  <2>2. (s + k - 1) % PIPESIZE = (r + (k + 1) - 1) % PIPESIZE
    BY <1>2, <2>1, Zenon
  <2>3. Ring(s, w, d)[k] = d[(s + k - 1) % PIPESIZE]
    BY <1>4, Zenon
  <2>4. Ring(r, w, d)[k + 1] = d[(r + (k + 1) - 1) % PIPESIZE]
    BY <1>3, <2>1, Zenon
  <2> QED
    BY <2>2, <2>3, <2>4, Zenon
<1>6. Ring(r, w, d) # <<>> /\ Ring(s, w, d) = Tail(Ring(r, w, d))
  BY <1>1, <1>3, <1>4, <1>5, SMTT(30)
<1> QED
  BY <1>6 DEF s

\* A new pipe is an empty queue.
LEMMA InitFifo == Init => Queue!Init
<1> SUFFICES ASSUME Init PROVE Contents = <<>>
  BY DEF Queue!Init
<1>1. (nwrite - nread) % W = 0
  BY PipeSizes, CountOfCounters DEF Init
<1> QED
  BY <1>1 DEF Contents

\* Every step of the pipe puts a byte, takes one or leaves the bytes alone.
LEMMA StepFifo == Inv /\ [Next]_vars => [Queue!Next]_Contents
<1> SUFFICES ASSUME Inv, [Next]_vars PROVE [Queue!Next]_Contents
  OBVIOUS
<1>0. /\ nread \in 0 .. W - 1 /\ nwrite \in 0 .. W - 1 /\ data \in [0 .. PIPESIZE - 1 -> Bytes]
      /\ Contents = Ring(nread, nwrite, data) /\ Contents' = Ring(nread', nwrite', data')
  BY DEF Inv, TypeOK, Contents, Ring
<1>1. CASE UNCHANGED pipe
  BY <1>1 DEF pipe, Contents
<1>2. ASSUME NEW p \in Procs, NEW b \in Bytes, WriteByte(p, b) PROVE Queue!Next
  <2>1. nread' = nread /\ nwrite' = (nwrite + 1) % W /\ data' = [data EXCEPT ![nwrite % PIPESIZE] = b]
    BY <1>2 DEF WriteByte, Slot
  <2>2. (nwrite - nread) % W < PIPESIZE
    BY <1>2, FullEmpty, PipeSizes DEF WriteByte, Inv, SpaceOK, Count
  <2>3. Contents' = Append(Contents, b)
    BY <1>0, <2>1, <2>2, RingPut
  <2>4. Len(Contents) < PIPESIZE
    BY <1>0, <2>2, RingAt
  <2> QED
    BY <2>3, <2>4 DEF Queue!Next, Queue!Put
<1>3. ASSUME NEW p \in Procs, ReadByte(p) PROVE Queue!Next
  <2>1. nread' = (nread + 1) % W /\ nwrite' = nwrite /\ data' = data /\ nread # nwrite
    BY <1>3 DEF ReadByte, Empty
  <2> QED
    BY <1>0, <2>1, RingGet DEF Queue!Next, Queue!Get
<1>4. ASSUME NEW p \in Procs, InPipe(p) PROVE UNCHANGED pipe \/ ReadByte(p) \/ \E b \in Bytes : WriteByte(p, b)
  BY <1>4 DEF InPipe, Acquire, Sleep, WriteRefused, WriteFull, WriteDone, ReadEmpty, ReadStart, ReadDone, Leave
<1>5. ASSUME NEW p \in Procs, Close(p) \/ Kill(p) \/ \E n \in 0 .. MaxN : Enter(p, n) PROVE UNCHANGED pipe
  BY <1>5 DEF Close, Kill, Enter
<1>6. CASE UNCHANGED vars
  BY <1>1, <1>6 DEF vars
<1> QED
  BY <1>1, <1>2, <1>3, <1>4, <1>5, <1>6 DEF Next

\* A pipe is a first-in first-out queue of at most PIPESIZE bytes, whatever
\* the number of its readers and writers and however often the counters
\* have wrapped around: pipewrite() appends, piperead() takes the first.
THEOREM PipeIsFifo == Spec => IsFifo
BY InitFifo, StepFifo, InvAlways, PTL DEF Spec, IsFifo, Queue!Spec
=============================================================================
