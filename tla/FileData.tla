------------------------------ MODULE FileData ------------------------------
(***************************************************************************)
(* The contents of files (kernel/fs.c): the free bitmap, the block map of  *)
(* an inode with its direct and indirect addresses, and what writei() and  *)
(* itrunc() make of them.  They are functions on a record                  *)
(*                                                                         *)
(*     addrs   ip->addrs of the inode worked on; addrs[NDIRECT] indirect   *)
(*     size    ip->size                                                    *)
(*     used    the bitmap: blocks that are not free                        *)
(*     data    the bytes of each block                                     *)
(*     ptrs    the addresses in each block, if it is an indirect one       *)
(*     logged  the blocks given to log_write()                             *)
(***************************************************************************)
EXTENDS Integers, Sequences, FiniteSets, FiniteSetsExt

LOCAL INSTANCE SequencesExt

CONSTANTS
    BSIZE, NDIRECT, NINDIRECT,
    NBLOCKS,            \* data blocks on the disk
    UINT                \* uint arithmetic is modulo UINT

MAXFILE == NDIRECT + NINDIRECT
Blks == 1 .. NBLOCKS
NoBlock == 0
BITMAP == -1            \* the block of the bitmap, and that of the inode
INODE == -2
Zeros == [k \in 0 .. BSIZE - 1 |-> 0]
NoPtrs == [k \in 0 .. NINDIRECT - 1 |-> NoBlock]
NoAddrs == [k \in 0 .. NDIRECT |-> NoBlock]

\* Mutant: the bit is not set.
ForgetBit(s, b) == s.used
SetBit(s, b) == s.used \cup {b}

\* balloc(): the first free block, zeroed.  It panics when there is none.
FirstFree(s) == Min(Blks \ s.used)
Balloc(s) ==
    LET b == FirstFree(s) IN
    [s EXCEPT !.used = SetBit(s, b), !.data[b] = Zeros, !.ptrs[b] = NoPtrs,
              !.logged = @ \cup {BITMAP, b}]

\* bmap() of block bn of the file: the disk block it is, if any,
BlockOf(s, bn) ==
    IF bn < NDIRECT THEN s.addrs[bn]
    ELSE IF s.addrs[NDIRECT] = NoBlock THEN NoBlock ELSE s.ptrs[s.addrs[NDIRECT]][bn - NDIRECT]

\* and what is allocated if it has none.
BmapDirect(s, k) == IF s.addrs[k] # NoBlock THEN s ELSE [Balloc(s) EXCEPT !.addrs[k] = FirstFree(s)]
BmapIndirect(s, k) ==
    LET a == s.addrs[NDIRECT] IN
    IF s.ptrs[a][k] # NoBlock THEN s
    ELSE [Balloc(s) EXCEPT !.ptrs[a][k] = FirstFree(s), !.logged = @ \cup {a}]
Bmap(s, bn) == IF bn < NDIRECT THEN BmapDirect(s, bn)
               ELSE BmapIndirect(BmapDirect(s, NDIRECT), bn - NDIRECT)

\* Mutant: every block is written from its start.
FromStart(off, bn) == 0
\* Where in block bn a transfer to [off, off + n) starts and ends.
Lo(off, bn) == IF bn = off \div BSIZE THEN off % BSIZE ELSE 0
Hi(end, bn) == Min({BSIZE, end - bn * BSIZE})

\* One round of writei()'s loop: n bytes v at off; copying into block bn fails,
\* before its first byte, if bn = fault, after bmap() has been called.
WriteBlock(s, off, n, v, fault, bn) ==
    LET t == Bmap(s, bn)
        b == BlockOf(t, bn)
        lo == Lo(off, bn)
        hi == Hi(off + n, bn)
    IN  IF s.stopped THEN s
        ELSE IF bn = fault THEN [t EXCEPT !.stopped = TRUE]
        ELSE [t EXCEPT !.data[b] = [k \in 0 .. BSIZE - 1 |-> IF k \in lo .. hi - 1 THEN v ELSE @[k]],
                       !.tot = @ + (hi - lo), !.logged = @ \cup {b}]

\* off > ip->size || off + n < off
OutOfRange(s, off, n) == off > s.size \/ (off + n) % UINT < off

\* writei(); tot is -1 if it refuses.
Writei(s, off, n, v, fault) ==
    LET blocks == [k \in 1 .. (off + n - 1) \div BSIZE - (off \div BSIZE) + 1 |-> off \div BSIZE + k - 1]
        start == s @@ [tot |-> 0, stopped |-> FALSE]
        done == FoldLeft(LAMBDA t, bn : WriteBlock(t, off, n, v, fault, bn), start, blocks)
    IN  IF OutOfRange(s, off, n) \/ off + n > MAXFILE * BSIZE THEN s @@ [tot |-> -1, stopped |-> FALSE]
        ELSE [done EXCEPT !.size = Max({@, off + done.tot}), !.logged = @ \cup {INODE}]

\* Mutant: only the sum that has wrapped around is compared with the size.
ReadWrapped(s, off, n) == IF (off + n) % UINT > s.size THEN s.size - off ELSE n
\* How many bytes readi() delivers of n at off.
ReadCount(s, off, n) == IF OutOfRange(s, off, n) THEN 0
                        ELSE IF off + n > s.size THEN s.size - off ELSE n

\* bfree() in itrunc(): the direct blocks, the indirect one and those it names.
\* What is in a free block is never read; here it becomes zero.
Direct(s) == {s.addrs[k] : k \in 0 .. NDIRECT}
Indirect(s) == IF s.addrs[NDIRECT] = NoBlock THEN {}
               ELSE {s.ptrs[s.addrs[NDIRECT]][k] : k \in 0 .. NINDIRECT - 1}
Freed(s) == (Direct(s) \cup Indirect(s)) \ {NoBlock}
Itrunc(s) == [s EXCEPT !.used = @ \ Freed(s), !.addrs = NoAddrs, !.size = 0,
                       !.data = [b \in Blks |-> IF b \in Freed(s) THEN Zeros ELSE @[b]],
                       !.ptrs = [b \in Blks |-> IF b \in Freed(s) THEN NoPtrs ELSE @[b]]]
=============================================================================
