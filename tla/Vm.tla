--------------------------------- MODULE Vm ---------------------------------
(***************************************************************************)
(* User memory (kernel/kalloc.c, vm.c, exec.c and the memory side of       *)
(* proc.c): the free list of pages, the page table of each process with    *)
(* its own page-table pages, and the calls that build, grow, copy, replace *)
(* and free an address space, each with every allocation that may fail in  *)
(* it.                                                                     *)
(*                                                                         *)
(* Pages are counted, not named: one freed twice, or lost, shows as a      *)
(* count of free and owned pages that is no longer NPAGES.  A call is one  *)
(* action.  What other CPUs allocate while it runs is its budget: the      *)
(* number of kalloc() that succeed before the list is found empty.         *)
(*                                                                         *)
(* A user page table has, above the pages it maps, a root, the two         *)
(* page-table pages of TRAMPOLINE and TRAPFRAME, one level-1 page for user *)
(* addresses and one level-0 page for each FANOUT user pages.              *)
(***************************************************************************)
EXTENDS Integers, Sequences, FiniteSets

LOCAL INSTANCE FiniteSetsExt

CONSTANTS
    Procs,              \* slots of the process table
    First,              \* the slot of the first process
    NPAGES,             \* physical pages that kinit() puts on the free list
    KernelTables,       \* pages of the kernel's page table
    PGSIZE,             \* bytes of a page
    FANOUT,             \* entries of a page-table page
    MaxPage,            \* user pages of an address space the model can hold
    UINT,               \* uint arithmetic is modulo UINT
    MaxBudget,          \* allocations a call makes, at most
    Increments,         \* the arguments of sbrk()
    Programs,           \* executables, each a sequence of segments to load
    ArgCounts, ArgSize  \* numbers of arguments of exec(), bytes each takes

ASSUME VmAssumption ==
    /\ First \in Procs
    /\ {NPAGES, KernelTables, PGSIZE, FANOUT, MaxPage, UINT, MaxBudget, ArgSize} \subseteq Nat \ {0}
    /\ Increments \subseteq Int /\ ArgCounts \subseteq Nat
    /\ Programs \subseteq Seq([vaddr : Nat, memsz : Nat, filesz : Nat])

VARIABLES
    free,       \* the length of kmem.freelist
    proc,       \* trapframe, pagetable and sz of each slot
    last,       \* the call that ended last: its process, whether it succeeded,
                \* and the inodes it left locked inside a log operation
    panic       \* the message of a panic(), or ""

vars == <<free, proc, last, panic>>

UserPages == 0 .. MaxPage - 1
Empty == [root |-> FALSE, hi |-> 0, lo |-> FALSE, low |-> {}, tramp |-> FALSE,
          frame |-> FALSE, page |-> [i \in UserPages |-> "none"]]
Unused == [trapframe |-> FALSE, pagetable |-> Empty, sz |-> 0]

PGROUNDUP(n) == PGSIZE * ((n + PGSIZE - 1) \div PGSIZE)
PagesOf(n) == PGROUNDUP(n) \div PGSIZE

-----------------------------------------------------------------------------
(***************************************************************************)
(* kalloc(), kfree() and the operations on a page table, as functions on a *)
(* record: free and panic as above, the budget, the table pt worked on,    *)
(* and ok, FALSE from the allocation that failed on.                       *)
(***************************************************************************)
Panic(s, why) == [s EXCEPT !.panic = IF @ = "" THEN why ELSE @]
Kalloc(s) == IF s.free > 0 /\ s.budget > 0
             THEN [s EXCEPT !.free = @ - 1, !.budget = @ - 1]
             ELSE [s EXCEPT !.ok = FALSE]
Kfree(s, n) == [s EXCEPT !.free = @ + n]

\* walk(..., 1) of user page i: the page-table pages on the way, allocated
\* one by one.  Those it got before it failed stay in the table.
AddLevel1(a) == [a EXCEPT !.pt.lo = a.ok]
WalkLevel1(s) == IF s.pt.lo THEN s ELSE AddLevel1(Kalloc(s))
AddLevel0(a, i) == IF a.ok THEN [a EXCEPT !.pt.low = @ \cup {i \div FANOUT}] ELSE a
WalkLevel0(s, i) == IF ~s.ok \/ i \div FANOUT \in s.pt.low THEN s ELSE AddLevel0(Kalloc(s), i)
WalkUser(s, i) == WalkLevel0(WalkLevel1(s), i)

\* mappages() of one user page.
SetPte(w, i, perm) ==
    IF ~w.ok THEN w
    ELSE IF w.pt.page[i] # "none" THEN Panic(w, "remap")
    ELSE [w EXCEPT !.pt.page[i] = perm]
Mappages(s, i, perm) == SetPte(WalkUser(s, i), i, perm)

\* Mutant: the page is lost when it cannot be mapped.
LostPage(m) == m
OrFreed(m) == IF m.ok THEN m ELSE Kfree(m, 1)
\* A page from kalloc(), mapped as user page i, and freed if it cannot be.
MapNew(a, i, perm) == IF a.ok THEN OrFreed(Mappages(a, i, perm)) ELSE a
NewPage(s, i, perm) == MapNew(Kalloc(s), i, perm)

\* uvmunmap(..., do_free) of user pages from .. to - 1.
Uvmunmap(s, from, to) ==
    IF \E i \in from .. to - 1 : s.pt.page[i] = "none" THEN Panic(s, "uvmunmap: not mapped")
    ELSE Kfree([s EXCEPT !.pt.page = [i \in UserPages |-> IF i \in from .. to - 1 THEN "none" ELSE @[i]]],
               IF to > from THEN to - from ELSE 0)

\* The loop of uvmalloc() and uvmcopy(): pages from .. to - 1, up to the
\* first that cannot be had.  next is that page, or to; perm gives the
\* permission of each.
TookPage(n, i) == [s |-> n, next |-> IF n.ok THEN i + 1 ELSE i]
NextPage(r, i, perm) == IF r.s.ok THEN TookPage(NewPage(r.s, i, perm), i) ELSE r
NewPages(s, from, to, perm) ==
    LET loop[i \in from .. to] ==
            IF i = from THEN [s |-> s, next |-> from] ELSE NextPage(loop[i - 1], i - 1, perm[i - 1])
    IN  IF to > from THEN loop[to] ELSE [s |-> s, next |-> from]

\* Mutant: an allocation that fails half way keeps the pages it got.
KeepPages(r, from) == r.s
\* Their error path: the pages of this call are unmapped and freed.
UndoPages(r, from) == IF r.s.ok THEN r.s ELSE Uvmunmap(r.s, from, r.next)

\* uvmalloc(); the size it returns is Grown.
Uvmalloc(s, oldsz, newsz) ==
    IF newsz < oldsz THEN s
    ELSE UndoPages(NewPages(s, PagesOf(oldsz), PagesOf(newsz), [i \in UserPages |-> "user"]), PagesOf(oldsz))
Grown(oldsz, newsz) == IF newsz < oldsz THEN oldsz ELSE newsz

\* Mutant: the partly used last page is freed too.
RoundDown(n) == n \div PGSIZE
FirstDropped(newsz) == PagesOf(newsz)
\* uvmdealloc(); the size it returns is Shrunk.
Uvmdealloc(s, oldsz, newsz) ==
    IF newsz >= oldsz \/ PagesOf(newsz) >= PagesOf(oldsz) THEN s
    ELSE Uvmunmap(s, FirstDropped(newsz), PagesOf(oldsz))
\* Mutant: the size is taken over even when it has wrapped around.
ShrunkAlways(oldsz, newsz) == newsz
Shrunk(oldsz, newsz) == IF newsz >= oldsz THEN oldsz ELSE newsz

Mapped(t) == {i \in UserPages : t.page[i] # "none"}
TablePages(t) == (IF t.root THEN 1 ELSE 0) + t.hi + (IF t.lo THEN 1 ELSE 0) + Cardinality(t.low)

\* freewalk() and uvmfree().
Freewalk(s) ==
    IF Mapped(s.pt) # {} \/ s.pt.tramp \/ s.pt.frame THEN Panic(s, "freewalk: leaf")
    ELSE Kfree([s EXCEPT !.pt = Empty], TablePages(s.pt))
Uvmfree(s, sz) == Freewalk(Uvmunmap(s, 0, PagesOf(sz)))

-----------------------------------------------------------------------------
(***************************************************************************)
(* proc_pagetable(): uvmcreate(), then TRAMPOLINE and TRAPFRAME mapped.    *)
(* The two are neighbours, so only the first needs page-table pages.       *)
(***************************************************************************)
AddRoot(a) == [a EXCEPT !.pt.root = a.ok]
Uvmcreate(s) == AddRoot(Kalloc([s EXCEPT !.pt = Empty]))
AddHigh(a) == IF a.ok THEN [a EXCEPT !.pt.hi = @ + 1] ELSE a
WalkHigh(s) == IF s.ok THEN AddHigh(Kalloc(s)) ELSE s
SetHigh(w) == IF w.ok THEN [w EXCEPT !.pt.tramp = TRUE, !.pt.frame = TRUE] ELSE Uvmfree(w, 0)
MapHigh(c) == IF c.ok THEN SetHigh(WalkHigh(WalkHigh(c))) ELSE c
ProcPagetable(s) == MapHigh(Uvmcreate(s))

ProcFreepagetable(s, sz) ==
    IF ~s.pt.tramp \/ ~s.pt.frame THEN Panic(s, "uvmunmap: not mapped")
    ELSE Uvmfree([s EXCEPT !.pt.tramp = FALSE, !.pt.frame = FALSE], sz)

\* freeproc(): the trapframe, then the page table if there is one.
FreeTable(f, sz) == IF f.pt.root THEN ProcFreepagetable(f, sz) ELSE f
Freeproc(s, trapframe, sz) == FreeTable(Kfree(s, IF trapframe THEN 1 ELSE 0), sz)

\* allocproc() of an unused slot: a trapframe and an empty page table.
OrFreeproc(s, sz) == IF s.ok THEN s ELSE Freeproc(s, TRUE, sz)
AddTable(t) == IF t.ok THEN OrFreeproc(ProcPagetable(t), 0) ELSE t
Allocproc(s) == AddTable(Kalloc(s))

\* uvmcopy() of a table old into the table of s.
Uvmcopy(s, old, sz) ==
    IF \E i \in 0 .. PagesOf(sz) - 1 : old.page[i] = "none" THEN Panic(s, "uvmcopy: page not present")
    ELSE UndoPages(NewPages(s, 0, PagesOf(sz), old.page), 0)

-----------------------------------------------------------------------------
(***************************************************************************)
(* The system calls.  Work is the record they start from.                  *)
(***************************************************************************)
Work(t, budget) == [free |-> free, budget |-> budget, pt |-> t, ok |-> TRUE, panic |-> panic]
InUse(p) == proc[p].trapframe
Running(p) == panic = "" /\ InUse(p)
Finish(p, s, locks) ==
    /\ free' = s.free
    /\ panic' = s.panic
    /\ last' = [proc |-> p, ok |-> s.ok, locks |-> locks]

\* kinit() puts every page on the free list.  kvmmake() takes the pages of
\* the kernel's page table, which proc_mapstacks() extends with a stack for
\* each slot; without memory for them it panics.
Kinit == [free |-> NPAGES, budget |-> NPAGES, pt |-> Empty, ok |-> TRUE, panic |-> ""]
ProcMapstacks(s) == IF s.free < Cardinality(Procs) THEN Panic(s, "kalloc")
                    ELSE [s EXCEPT !.free = @ - Cardinality(Procs)]
Kvmmake(s) == IF s.free < KernelTables THEN Panic(s, "kvmmap")
              ELSE ProcMapstacks([s EXCEPT !.free = @ - KernelTables])
\* uvminit(): one page for initcode.
Uvminit(s) == NewPage(s, 0, "user")

\* userinit(): allocproc() and uvminit(), when memory is plenty.
Init ==
    LET a == Uvminit(Allocproc(Kvmmake(Kinit))) IN
        /\ free = a.free
        /\ proc = [p \in Procs |-> IF p = First
                                   THEN [trapframe |-> TRUE, pagetable |-> a.pt, sz |-> PGSIZE]
                                   ELSE Unused]
        /\ last = [proc |-> First, ok |-> TRUE, locks |-> 0]
        /\ panic = a.panic

\* growproc() by n keeps the size in an uint: the memory and the size.
GrowMemory(w, sz, n) ==
    CASE n > 0 -> Uvmalloc(w, sz, (sz + n) % UINT)
      [] n < 0 -> Uvmdealloc(w, sz, (sz + n) % UINT)
      [] OTHER -> w
GrowSize(sz, n) ==
    CASE n > 0 -> Grown(sz, (sz + n) % UINT)
      [] n < 0 -> Shrunk(sz, (sz + n) % UINT)
      [] OTHER -> sz
Growproc(p, s, n) ==
    /\ proc' = [proc EXCEPT ![p].pagetable = s.pt, ![p].sz = IF s.ok THEN GrowSize(@, n) ELSE @]
    /\ Finish(p, s, 0)

\* sys_sbrk().  The model has room for MaxPage pages only.
Sbrk(p, n, budget) ==
    /\ Running(p)
    /\ n > 0 => PagesOf((proc[p].sz + n) % UINT) <= MaxPage
    /\ Growproc(p, GrowMemory(Work(proc[p].pagetable, budget), proc[p].sz, n), n)

\* Mutant: the child has its size before it has its memory.
SizeOfParent(p) == proc[p].sz
SizeOnFailure(p) == 0
\* fork() into the free slot c.
ForkCopy(p, a) ==
    IF a.ok THEN OrFreeproc(Uvmcopy(a, proc[p].pagetable, proc[p].sz), SizeOnFailure(p)) ELSE a
ForkEnd(p, c, s) ==
    /\ proc' = [proc EXCEPT ![c] = IF s.ok THEN [trapframe |-> TRUE, pagetable |-> s.pt, sz |-> proc[p].sz]
                                           ELSE @]
    /\ Finish(p, s, 0)
Fork(p, c, budget) ==
    /\ Running(p) /\ ~InUse(c)
    /\ ForkEnd(p, c, ForkCopy(p, Allocproc(Work(Empty, budget))))

\* exit() and the wait() that reaps: the first process never exits.
Exit(p) ==
    LET s == Freeproc(Work(proc[p].pagetable, 0), TRUE, proc[p].sz) IN
    /\ Running(p) /\ p # First
    /\ proc' = [proc EXCEPT ![p] = Unused]
    /\ Finish(First, s, 0)

-----------------------------------------------------------------------------
(***************************************************************************)
(* sys_exec() and exec().  fault is the read that fails: that of the file  *)
(* name or of the header, of a segment, or none.  exec() works on a record *)
(* x of the work record s, the size sz built so far, whether its local ip  *)
(* is set, and the number of inodes it has locked in a log operation.      *)
(***************************************************************************)
NoFault == <<"none", 0>>
Faults(prog) == {"path", "elf"} \X {0} \cup {"segment"} \X (1 .. Len(prog))
Fail(x) == [x EXCEPT !.s.ok = FALSE]

\* loadseg(): every page it fills has been allocated.
Loadseg(s, seg) ==
    IF \E i \in PagesOf(seg.vaddr) .. PagesOf(seg.vaddr + seg.filesz) - 1 : s.pt.page[i] # "user"
    THEN Panic(s, "loadseg: address should exist")
    ELSE s

\* One segment: what it needs to be well formed, its memory, its contents.
\* uvmalloc() returns 0, which is failure, for an empty image as well.
LoadContents(u, seg, readable) ==
    IF ~u.s.ok \/ u.sz = 0 \/ seg.vaddr % PGSIZE # 0 \/ ~readable THEN Fail(u)
    ELSE [u EXCEPT !.s = Loadseg(@, seg)]
GrowTo(x, s, sz) == [x EXCEPT !.s = s, !.sz = IF s.ok THEN Grown(@, sz) ELSE @]
LoadSegment(x, seg, readable) ==
    IF ~x.s.ok THEN x
    ELSE IF seg.memsz < seg.filesz THEN Fail(x)
    ELSE LoadContents(GrowTo(x, Uvmalloc(x.s, x.sz, seg.vaddr + seg.memsz), seg.vaddr + seg.memsz), seg, readable)
LoadSegments(x, prog, fault) ==
    LET loop[k \in 0 .. Len(prog)] ==
            IF k = 0 THEN x ELSE LoadSegment(loop[k - 1], prog[k], fault # <<"segment", k>>)
    IN  loop[Len(prog)]

\* Mutant: ip stays set after the inode is released.
StaysSet(x) == x.ip
Cleared(x) == FALSE
Iunlockput(x) == [x EXCEPT !.locks = @ - 1]
LoadDone(x) == IF ~x.s.ok THEN x ELSE [Iunlockput(x) EXCEPT !.ip = Cleared(x)]

\* uvmclear(): page i is out of the user's reach.
Uvmclear(s, i) == IF s.pt.page[i] = "none" THEN Panic(s, "uvmclear") ELSE [s EXCEPT !.pt.page[i] = "guard"]

\* The two stack pages above base, the lower one a guard.
Guard(s, base) == IF s.ok THEN Uvmclear(s, base \div PGSIZE) ELSE s
StackAt(x, s, base) == [x EXCEPT !.s = Guard(s, base), !.sz = IF s.ok THEN base + 2 * PGSIZE ELSE base]
Stack(x) ==
    LET base == PGROUNDUP(x.sz) IN
    IF x.s.ok THEN StackAt(x, Uvmalloc(x.s, base, base + 2 * PGSIZE), base) ELSE x

\* The argument strings and the array of pointers to them fit on the stack.
ArgsFit(argc) == argc * ArgSize + argc + 1 <= PGSIZE
PushArgs(x, argc) == IF x.s.ok /\ ~ArgsFit(argc) THEN Fail(x) ELSE x

\* The label bad frees what was built, with the size reached so far, and
\* releases the inode if it is still locked.
Bad(x) == [x EXCEPT !.s = FreeTable(@, x.sz), !.locks = IF x.ip THEN @ - 1 ELSE @]
OrBad(x) == IF x.s.ok THEN x ELSE Bad(x)

\* exec() on the work record s: the new table, if it succeeds, is in s.pt.
Opened(s) == [s |-> s, sz |-> 0, ip |-> TRUE, locks |-> 1]
Image(s, prog, argc, fault) ==
    CASE fault[1] = "path" -> [Fail(Opened(s)) EXCEPT !.locks = 0]
      [] fault[1] = "elf"  -> Bad(Fail(Opened(s)))
      [] OTHER -> OrBad(PushArgs(Stack(LoadDone(LoadSegments(Opened(ProcPagetable(s)), prog, fault))), argc))

\* The end of exec(): p has the new image, and the old one is freed.  Its
\* trapframe stays.
CommitImage(p, x) == ProcFreepagetable([x.s EXCEPT !.pt = proc[p].pagetable], proc[p].sz)

\* sys_exec() with argc arguments: a page for each, exec(), the pages freed.
NextArg(r) == IF r.ok THEN Kalloc(r) ELSE r
ArgPages(s, argc) ==
    LET loop[k \in 0 .. argc] == IF k = 0 THEN s ELSE NextArg(loop[k - 1]) IN loop[argc]
ExecEnd(p, x, args) ==
    IF x.s.ok
    THEN /\ proc' = [proc EXCEPT ![p].pagetable = x.s.pt, ![p].sz = x.sz]
         /\ Finish(p, Kfree(CommitImage(p, x), args), x.locks)
    ELSE UNCHANGED proc /\ Finish(p, Kfree(x.s, args), x.locks)
ExecArgs(p, a, prog, argc, fault) ==
    IF a.ok THEN ExecEnd(p, Image(a, prog, argc, fault), free - a.free)
    ELSE UNCHANGED proc /\ Finish(p, Kfree(a, free - a.free), 0)
Exec(p, prog, argc, fault, budget) ==
    Running(p) /\ ExecArgs(p, ArgPages(Work(Empty, budget), argc), prog, argc, fault)

\* What fails in exec(), and when memory runs out.  The first failure ends it,
\* so that it is enough if there is one.
Failures(prog) == {NoFault} \X (0 .. MaxBudget) \cup Faults(prog) \X {MaxBudget}
Next == \E p \in Procs :
    \/ \E n \in Increments, budget \in 0 .. MaxBudget : Sbrk(p, n, budget)
    \/ \E c \in Procs, budget \in 0 .. MaxBudget : Fork(p, c, budget)
    \/ \E prog \in Programs, argc \in ArgCounts :
          \E f \in Failures(prog) : Exec(p, prog, argc, f[1], f[2])
    \/ Exit(p)

Spec == Init /\ [][Next]_vars

-----------------------------------------------------------------------------
(***************************************************************************)
(* walkaddr(), and the loops of copyout(), copyin() and copyinstr() over   *)
(* the pages of a user buffer.  A loop runs at most once for each byte.    *)
(***************************************************************************)
Walkaddr(t, i) == i \in UserPages /\ t.page[i] = "user"

\* Mutant: a whole page is taken from wherever the buffer starts.
WholePage(va, len) == IF PGSIZE > len THEN len ELSE PGSIZE
InPage(va, len) == LET n == PGSIZE - (va % PGSIZE) IN IF n > len THEN len ELSE n

CopyPage(t, c) ==
    IF ~c.ok \/ c.len = 0 THEN c
    ELSE IF ~Walkaddr(t, c.va \div PGSIZE) THEN [c EXCEPT !.ok = FALSE]
    ELSE LET n == InPage(c.va, c.len) IN
         [c EXCEPT !.va = (c.va \div PGSIZE + 1) * PGSIZE, !.len = @ - n,
                   !.moved = @ \cup (c.va .. c.va + n - 1)]
Copy(t, va, len) ==
    LET loop[k \in 0 .. len] ==
            IF k = 0 THEN [va |-> va, len |-> len, ok |-> TRUE, moved |-> {}] ELSE CopyPage(t, loop[k - 1])
    IN  loop[len]

\* copyinstr() with the first NUL at or after va at address nul.
StringPage(t, c, nul) ==
    IF ~c.ok \/ c.nul \/ c.len = 0 THEN c
    ELSE IF ~Walkaddr(t, c.va \div PGSIZE) THEN [c EXCEPT !.ok = FALSE]
    ELSE LET n == InPage(c.va, c.len) IN
         [c EXCEPT !.va = (c.va \div PGSIZE + 1) * PGSIZE,
                   !.nul = nul \in c.va .. c.va + n - 1, !.len = @ - n]
Copyinstr(t, va, max, nul) ==
    LET loop[k \in 0 .. max] ==
            IF k = 0 THEN [va |-> va, len |-> max, ok |-> TRUE, nul |-> FALSE]
            ELSE StringPage(t, loop[k - 1], nul)
    IN  loop[max].ok /\ loop[max].nul

\* either_copyout() and either_copyin(): kernel addresses need no table.
EitherCopy(user, t, va, len) == IF user THEN Copy(t, va, len).ok ELSE TRUE

\* fetchstr(): the length of the string at addr, or -1.
Fetchstr(p, addr, max, nul) == IF Copyinstr(proc[p].pagetable, addr, max, nul) THEN nul - addr ELSE -1

\* fetchaddr() of a word of w bytes.
Fetchaddr(p, addr, w) ==
    /\ addr < proc[p].sz /\ addr + w <= proc[p].sz
    /\ Copy(proc[p].pagetable, addr, w).ok

-----------------------------------------------------------------------------
(***************************************************************************)
(* Properties.                                                             *)
(***************************************************************************)
Tables == [root : BOOLEAN, hi : 0 .. 2, lo : BOOLEAN, low : SUBSET (0 .. (MaxPage - 1) \div FANOUT),
           tramp : BOOLEAN, frame : BOOLEAN, page : [UserPages -> {"none", "user", "guard"}]]

\* The type invariant.  The sizes that growproc() keeps in an uint and the
\* free list stay in their ranges.
TypeOK ==
    /\ free \in 0 .. NPAGES
    /\ proc \in [Procs -> [trapframe : BOOLEAN, pagetable : Tables, sz : 0 .. MaxPage * PGSIZE]]
    /\ last \in [proc : Procs, ok : BOOLEAN, locks : Int]
    /\ panic \in STRING

\* Every page that kinit() put on the free list is on it, or is one
\* process's trapframe, page-table page or memory: no error path of fork(),
\* exec() or sbrk() loses a page or frees one twice (uvmalloc, uvmcopy,
\* proc_pagetable, freeproc and the label bad of exec).
Owned(p) == (IF proc[p].trapframe THEN 1 ELSE 0) + TablePages(proc[p].pagetable)
               + Cardinality(Mapped(proc[p].pagetable))
KernelPages == KernelTables + Cardinality(Procs)
PagesConserved == free + KernelPages + MapThenSumSet(Owned, Procs) = NPAGES

\* No call reaches a panic() of vm.c or exec.c: nothing is mapped twice,
\* unmapped while it is not mapped, or left in a page table that freewalk()
\* frees, whichever allocation failed before.
NoPanic == panic = ""

\* The memory of a process is exactly what its size says, which uvmcopy(),
\* uvmfree() and copyout() rely on: the pages below sz are mapped and no
\* other is, with the page-table pages over them, after any sequence of
\* sbrk(), exec() and fork() calls that succeeded or failed.
ImageMatchesSize ==
    \A p \in Procs : LET t == proc[p].pagetable IN
        /\ Mapped(t) = 0 .. PagesOf(proc[p].sz) - 1
        /\ \A i \in Mapped(t) : t.lo /\ i \div FANOUT \in t.low
        /\ InUse(p) <=> t.root /\ t.tramp /\ t.frame /\ t.hi = 2

\* exec() ends with its inode unlocked and its log operation closed exactly
\* once, on each of the paths to the label bad, before and after ip = 0.
InodeReleasedOnce == last.locks = 0

\* A call that fails changes no address space: the caller's size and pages
\* are as before it, and no other process is touched.  (sbrk() may leave
\* empty page-table pages behind, which the caller owns.)
SameMemory(p) == /\ proc'[p].sz = proc[p].sz
                 /\ proc'[p].pagetable.page = proc[p].pagetable.page
                 /\ proc'[p].trapframe = proc[p].trapframe
FailureUndone ==
    [][~last'.ok => /\ SameMemory(last'.proc)
                    /\ \A p \in Procs \ {last'.proc} : proc'[p] = proc[p]]_vars

\* copyout() and copyin() succeed exactly when every byte of the buffer is
\* in a page the user may touch, and then move all of it; a buffer that runs
\* into the stack guard or past the end of memory fails.  fetchstr() gives
\* the length exactly when the NUL comes within max bytes and every byte up
\* to it may be touched (copyout, copyin, copyinstr and their callers).
Accessible(t, a, b) == \A x \in a .. b : Walkaddr(t, x \div PGSIZE)
CopyExact ==
    \A p \in {q \in Procs : InUse(q)}, va \in 0 .. 2 * PGSIZE - 1, len \in 0 .. PGSIZE + 2 :
        LET t == proc[p].pagetable
            c == Copy(t, va, len)
        IN  /\ c.ok <=> Accessible(t, va, va + len - 1)
            /\ c.ok => c.moved = va .. va + len - 1
            /\ EitherCopy(TRUE, t, va, len) => Accessible(t, va, va + len - 1)
            /\ \A nul \in va .. va + PGSIZE + 2 :
                  Fetchstr(p, va, len, nul) =
                     IF nul < va + len /\ Accessible(t, va, nul) THEN nul - va ELSE -1
            /\ Fetchaddr(p, va, 2) => Accessible(t, va, va + 1)
=============================================================================
