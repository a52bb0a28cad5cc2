------------------------------- MODULE Files --------------------------------
(***************************************************************************)
(* The file table (kernel/file.c) and the calls on file descriptors of     *)
(* kernel/sysfile.c - open, pipe, dup, read, write, close - with what fork *)
(* and exit do to descriptors, over the file contents of FileData.         *)
(*                                                                         *)
(* A step is what runs under ftable.lock or under one ilock().  Names are  *)
(* the subject of module Names and what is inside a pipe of module Pipe.   *)
(***************************************************************************)
EXTENDS FileData

CONSTANTS
    Procs,
    NFILE, NOFILE,      \* files in the system, descriptors per process
    NINODE,             \* files on disk
    MAXOPBLOCKS,        \* blocks a transaction may write
    Vals,               \* bytes written
    WriteSizes, ReadSizes,
    Faults,             \* blocks of a file at which copying from the user may fail
    MaxCalls            \* bound: calls of open, dup, pipe and write

FileSlots == 1 .. NFILE
Fds == 0 .. NOFILE - 1
Inodes == 1 .. NINODE
None == 0

VARIABLES
    ftable,         \* ref, type, readable, writable, off and ip
    ofile,          \* p->ofile
    alive,          \* processes that exist
    pr,             \* what a process is in the middle of: a write or closes
    pipe,           \* readopen and writeopen of the only pipe, and allocated
    iref,           \* ip->ref
    ip,             \* addrs and size of each inode
    used, data, ptrs,
    chunk,          \* history: how many blocks the last transaction wrote
    content,        \* history: what each file should hold
    calls           \* calls so far that the bound counts

table == <<ftable, ofile>>
disk == <<ip, used, data, ptrs, chunk, content>>
vars == <<table, alive, pr, pipe, iref, disk, calls>>

NoFile == [ref |-> 0, type |-> "NONE", readable |-> FALSE, writable |-> FALSE, off |-> 0, ip |-> None]
Ready == [pc |-> "user", f |-> None, left |-> 0, v |-> 0, closing |-> <<>>, ff |-> NoFile]

Init ==
    /\ ftable = [f \in FileSlots |-> NoFile]
    /\ ofile = [p \in Procs |-> [fd \in Fds |-> None]]
    /\ \E p \in Procs : alive = {p}
    /\ pr = [p \in Procs |-> Ready]
    /\ pipe = [kept |-> FALSE, readopen |-> FALSE, writeopen |-> FALSE]
    /\ iref = [i \in Inodes |-> 0]
    /\ ip = [i \in Inodes |-> [addrs |-> NoAddrs, size |-> 0]]
    /\ used = {} /\ data = [b \in Blks |-> Zeros] /\ ptrs = [b \in Blks |-> NoPtrs]
    /\ chunk = 0 /\ content = [i \in Inodes |-> <<>>] /\ calls = 0

-----------------------------------------------------------------------------
(***************************************************************************)
(* Files and descriptors                                                   *)
(***************************************************************************)
Quiet(p) == pr[p] = Ready
User(p) == p \in alive /\ Quiet(p)

\* argfd(): the descriptor is open.
Argfd(p, fd) == ofile[p][fd] # None

\* filealloc() and fdalloc() take the first that is free.
FreeFiles == {f \in FileSlots : ftable[f].ref = 0}
FreeFds(p) == {fd \in Fds : ofile[p][fd] = None}
NewFile == Min(FreeFiles)
NewFd(p) == Min(FreeFds(p))

\* The record FileData works on.
View(i) == [addrs |-> ip[i].addrs, size |-> ip[i].size, used |-> used, data |-> data,
            ptrs |-> ptrs, logged |-> {}]
SetDisk(i, s) ==
    /\ ip' = [ip EXCEPT ![i] = [addrs |-> s.addrs, size |-> s.size]]
    /\ used' = s.used /\ data' = s.data /\ ptrs' = s.ptrs /\ chunk' = Cardinality(s.logged)

\* open() of inode i, found or created; it is locked meanwhile.  Without a
\* file or a descriptor it gives back what it has, before it truncates.
Open(p, i, rd, wr, trunc) ==
    /\ User(p) /\ calls < MaxCalls /\ FreeFiles # {} /\ FreeFds(p) # {}
    /\ ftable' = [ftable EXCEPT ![NewFile] =
          [ref |-> 1, type |-> "INODE", readable |-> rd, writable |-> wr, off |-> 0, ip |-> i]]
    /\ ofile' = [ofile EXCEPT ![p][NewFd(p)] = NewFile]
    /\ iref' = [iref EXCEPT ![i] = @ + 1]
    /\ IF trunc THEN SetDisk(i, Itrunc(View(i))) /\ content' = [content EXCEPT ![i] = <<>>]
                ELSE UNCHANGED disk
    /\ calls' = calls + 1
    /\ UNCHANGED <<alive, pr, pipe>>

\* dup()
Dup(p, fd) ==
    LET f == ofile[p][fd] IN
    /\ User(p) /\ calls < MaxCalls /\ Argfd(p, fd) /\ FreeFds(p) # {}
    /\ ofile' = [ofile EXCEPT ![p][NewFd(p)] = f]
    /\ ftable' = [ftable EXCEPT ![f].ref = @ + 1]
    /\ calls' = calls + 1
    /\ UNCHANGED <<alive, pr, pipe, iref, disk>>

\* close() and exit() clear the descriptors and have files left to close.
Close(p, fd) ==
    /\ User(p) /\ Argfd(p, fd)
    /\ ofile' = [ofile EXCEPT ![p][fd] = None]
    /\ pr' = [pr EXCEPT ![p].closing = <<ofile[p][fd]>>]
    /\ UNCHANGED <<ftable, alive, pipe, iref, disk, calls>>

\* Mutant: the child's copies are not counted.
Uncounted(f, n) == f
Counted(f, n) == [f EXCEPT !.ref = @ + n]

\* fork(): the child gets every descriptor, by filedup().
Fork(p, q) ==
    /\ User(p) /\ q \notin alive /\ Quiet(q)
    /\ alive' = alive \cup {q}
    /\ ofile' = [ofile EXCEPT ![q] = ofile[p]]
    /\ ftable' = [f \in FileSlots |->
          Counted(ftable[f], Cardinality({fd \in Fds : ofile[p][fd] = f}))]
    /\ UNCHANGED <<pr, pipe, iref, disk, calls>>

Exit(p) ==
    /\ User(p) /\ alive # {p}
    /\ alive' = alive \ {p}
    /\ ofile' = [ofile EXCEPT ![p] = [fd \in Fds |-> None]]
    /\ pr' = [pr EXCEPT ![p].closing =
          SelectSeq([k \in 1 .. NOFILE |-> ofile[p][k - 1]], LAMBDA f : f # None)]
    /\ UNCHANGED <<ftable, pipe, iref, disk, calls>>

\* pipe(): two files, then two descriptors; without them, or when the copy
\* of their numbers to the user fails, both files are closed again.
Pipe(p, copied) ==
    LET rf == NewFile
        wf == Min(FreeFiles \ {rf})
        fd0 == NewFd(p)
        fd1 == Min(FreeFds(p) \ {fd0})
    IN
    /\ User(p) /\ calls < MaxCalls /\ Cardinality(FreeFiles) >= 2 /\ ~ pipe.kept
    /\ pipe' = [kept |-> TRUE, readopen |-> TRUE, writeopen |-> TRUE]
    /\ ftable' = [ftable EXCEPT
          ![rf] = [NoFile EXCEPT !.ref = 1, !.type = "PIPE", !.readable = TRUE],
          ![wf] = [NoFile EXCEPT !.ref = 1, !.type = "PIPE", !.writable = TRUE]]
    /\ IF copied /\ Cardinality(FreeFds(p)) >= 2
       THEN ofile' = [ofile EXCEPT ![p][fd0] = rf, ![p][fd1] = wf] /\ UNCHANGED pr
       ELSE pr' = [pr EXCEPT ![p].closing = <<rf, wf>>] /\ UNCHANGED ofile
    /\ calls' = calls + 1
    /\ UNCHANGED <<alive, iref, disk>>

\* fileclose(), under ftable.lock;
Fileclose(p) ==
    LET f == Head(pr[p].closing) IN
    /\ pr[p].closing # <<>> /\ pr[p].ff = NoFile
    /\ IF ftable[f].ref > 1
       THEN /\ ftable' = [ftable EXCEPT ![f].ref = @ - 1]
            /\ pr' = [pr EXCEPT ![p].closing = Tail(@)]
       ELSE /\ ftable' = [ftable EXCEPT ![f] = NoFile]
            /\ pr' = [pr EXCEPT ![p].closing = Tail(@), ![p].ff = ftable[f]]
    /\ UNCHANGED <<ofile, alive, pipe, iref, disk, calls>>

\* Mutant: the write side is never closed.
ReadSide(w) == FALSE
WriteSide(w) == w

\* then, with a copy of the file, pipeclose() or iput().
Release(p) ==
    LET ff == pr[p].ff
        left == [pipe EXCEPT !.readopen = @ /\ WriteSide(ff.writable),
                             !.writeopen = @ /\ ~ WriteSide(ff.writable)]
    IN
    /\ ff # NoFile
    /\ pr' = [pr EXCEPT ![p].ff = NoFile]
    /\ IF ff.type = "PIPE"
       THEN /\ pipe' = [left EXCEPT !.kept = left.readopen \/ left.writeopen]
            /\ UNCHANGED iref
       ELSE /\ iref' = [iref EXCEPT ![ff.ip] = @ - 1]
            /\ UNCHANGED pipe
    /\ UNCHANGED <<table, alive, disk, calls>>

-----------------------------------------------------------------------------
(***************************************************************************)
(* read() and write() of files on disk                                     *)
(***************************************************************************)
\* fileread() of n bytes; n is an int, negative ones are large to readi().
Fileread(f, n, copied) ==
    /\ ftable[f].readable /\ ftable[f].type = "INODE"
    /\ ftable' = [ftable EXCEPT ![f].off =
          IF copied THEN @ + ReadCount(View(ftable[f].ip), @, n) ELSE @]

\* filewrite() of n bytes v begins.
Filewrite(p, f, n, v) ==
    /\ ftable[f].writable /\ ftable[f].type = "INODE"
    /\ pr' = [pr EXCEPT ![p] = [Ready EXCEPT !.pc = "write", !.f = f, !.left = n, !.v = v]]

\* sys_read() and sys_write(), which keep the file without a reference: its
\* descriptor is the caller's own.
Read(p, fd, n, copied) ==
    /\ User(p) /\ Argfd(p, fd)
    /\ Fileread(ofile[p][fd], n, copied)
    /\ UNCHANGED <<ofile, alive, pr, pipe, iref, disk, calls>>
Write(p, fd, n, v) ==
    /\ User(p) /\ Argfd(p, fd) /\ calls < MaxCalls
    /\ Filewrite(p, ofile[p][fd], n, v)
    /\ calls' = calls + 1
    /\ UNCHANGED <<table, alive, pipe, iref, disk>>

\* Mutant: no blocks are set aside for what a write needs beside its data.
AllBlocks == MAXOPBLOCKS * BSIZE
MaxChunk == ((MAXOPBLOCKS - 1 - 1 - 2) \div 2) * BSIZE

\* The bytes [off, off + n) of c become v.
Overwrite(c, off, n, v) ==
    [k \in 1 .. Max({Len(c), off + n}) |-> IF k \in off + 1 .. off + n THEN v ELSE c[k]]

\* One transaction of filewrite()'s loop; copying from the user may fail at
\* block fault of the file.
WriteChunk(p, fault) ==
    LET r == pr[p]
        i == ftable[r.f].ip
        off == ftable[r.f].off
        n1 == Min({r.left, MaxChunk})
        s == Writei(View(i), off, n1, r.v, fault)
        n == Max({0, s.tot})
    IN
    /\ r.pc = "write"
    /\ SetDisk(i, s)
    /\ content' = [content EXCEPT ![i] = IF n = 0 THEN @ ELSE Overwrite(@, off, n, r.v)]
    /\ ftable' = [ftable EXCEPT ![r.f].off = @ + n]
    /\ pr' = [pr EXCEPT ![p] = IF s.tot # n1 \/ r.left = n1 THEN Ready ELSE [r EXCEPT !.left = @ - n1]]
    /\ UNCHANGED <<ofile, alive, pipe, iref, calls>>

-----------------------------------------------------------------------------
Next == \E p \in Procs :
    \/ \E i \in Inodes, wr, trunc \in BOOLEAN : Open(p, i, TRUE, wr, trunc)
    \/ \E fd \in Fds : Dup(p, fd) \/ Close(p, fd)
    \/ \E fd \in Fds, n \in ReadSizes, copied \in BOOLEAN : Read(p, fd, n, copied)
    \/ \E fd \in Fds, n \in WriteSizes, v \in Vals : Write(p, fd, n, v)
    \/ \E fault \in Faults \cup {MAXFILE} : WriteChunk(p, fault)
    \/ \E q \in Procs : Fork(p, q)
    \/ \E copied \in BOOLEAN : Pipe(p, copied)
    \/ Exit(p) \/ Fileclose(p) \/ Release(p)

Spec == Init /\ [][Next]_vars

-----------------------------------------------------------------------------
(***************************************************************************)
(* Properties                                                              *)
(***************************************************************************)
\* The type invariant.  Offsets stay within the largest file: the int n of
\* read(), negative or not, never moves one past it.
TypeOK ==
    /\ \A f \in FileSlots : /\ ftable[f].ref \in Nat /\ ftable[f].off \in 0 .. MAXFILE * BSIZE
                            /\ ftable[f].type \in {"NONE", "INODE", "PIPE"}
    /\ ofile \in [Procs -> [Fds -> FileSlots \cup {None}]]
    /\ alive \subseteq Procs /\ alive # {}
    /\ iref \in [Inodes -> Nat]
    /\ used \subseteq Blks
    /\ \A i \in Inodes : ip[i].size \in 0 .. MAXFILE * BSIZE

\* f->ref counts the descriptors that name the file, and the closes that
\* have cleared theirs and not yet come to fileclose(): no file is closed
\* under a descriptor, and none stays open without one.
Uses(f) ==
    Cardinality({x \in Procs \X Fds : ofile[x[1]][x[2]] = f})
    + MapThenSumSet(LAMBDA p : Len(SelectSeq(pr[p].closing, LAMBDA g : g = f)), Procs)
FilesCounted == \A f \in FileSlots : ftable[f].ref = Uses(f)

\* What a file stands for is released once, by the last close: an end of
\* the pipe is open, and an inode referenced, as long as an open file needs
\* it, and the pipe is freed with its second end.
Backing == {ftable[f] : f \in FileSlots} \cup {pr[p].ff : p \in Procs}
OpenEnd(w) == \E f \in Backing : f.type = "PIPE" /\ f.writable = w
OpenOn(i) == Cardinality({f \in FileSlots : ftable[f].ip = i}) + Cardinality({p \in Procs : pr[p].ff.ip = i})
ReleasedOnce ==
    /\ pipe.readopen = OpenEnd(FALSE) /\ pipe.writeopen = OpenEnd(TRUE)
    /\ pipe.kept = (pipe.readopen \/ pipe.writeopen)
    /\ \A i \in Inodes : iref[i] = OpenOn(i)

\* The bitmap marks exactly the blocks some file uses, and no block is used
\* twice, also after writes that failed halfway (balloc, bmap, itrunc).
BlocksOf(i) == (Direct(View(i)) \cup Indirect(View(i))) \ {NoBlock}
BlockCount(i) ==
    LET v == View(i) IN
    Cardinality({k \in 0 .. NDIRECT : v.addrs[k] # NoBlock})
    + (IF v.addrs[NDIRECT] = NoBlock THEN 0
       ELSE Cardinality({k \in 0 .. NINDIRECT - 1 : v.ptrs[v.addrs[NDIRECT]][k] # NoBlock}))
BitmapExact ==
    /\ used = UNION {BlocksOf(i) : i \in Inodes}
    /\ Cardinality(used) = MapThenSumSet(BlockCount, Inodes)

\* The bytes found through the block map are those that were written, through
\* direct and indirect blocks, by chunks that interleave (bmap, writei).
ContentRight == \A i \in Inodes :
    /\ Len(content[i]) = ip[i].size
    /\ \A k \in 1 .. Len(content[i]) :
          LET b == BlockOf(View(i), (k - 1) \div BSIZE) IN
          b # NoBlock /\ data[b][(k - 1) % BSIZE] = content[i][k]

\* A transaction of write() fits in what begin_op() reserves for it: the
\* inode, the indirect block, the bitmap blocks and the slop of filewrite().
ChunkFits == chunk <= MAXOPBLOCKS

\* The offset of a file never passes its end, unless the file was truncated
\* after it was reached, so what is read was written (fileread, readi).
OffsetMoves == [][\A f \in FileSlots :
    ftable'[f].off > ftable[f].off => ftable'[f].off <= ip'[ftable[f].ip].size]_vars
=============================================================================
