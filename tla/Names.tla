------------------------------- MODULE Names --------------------------------
(***************************************************************************)
(* The inode table and the directories (kernel/fs.c), under the system     *)
(* calls that work on names (kernel/sysfile.c): open, mkdir, mknod, link,  *)
(* unlink, chdir and close, by several processes at once.                  *)
(*                                                                         *)
(* A step is what a process does between two points where another could    *)
(* see a difference: it acquires an inode's sleep lock, or does one        *)
(* operation under itable.lock, and whatever follows of reading, writing   *)
(* and unlocking inodes it has locked.  iput() is several steps.           *)
(*                                                                         *)
(* An entry of the inode table is named by its inode number: iget() keeps  *)
(* them unique.  Paths and the names in them are those of module Path.     *)
(* Transactions are the subject of module Log.                             *)
(***************************************************************************)
EXTENDS Path, FiniteSets, FiniteSetsExt

CONSTANTS
    Procs,
    NINODES,        \* sb.ninodes - 1
    Names,          \* file names
    Calls,          \* the calls made: [op, path, to]; to is link()'s second path
    MaxLinks        \* bound: links of a file when link() is called

ASSUME NamesSizes == {NINODES, MaxLinks} \subseteq Nat \ {0} /\ {Dot, DotDot} \cap Names = {}

Inums == 1 .. NINODES
ROOTINO == 1
None == 0

VARIABLES
    dinode,         \* on disk: type and nlink
    ents,           \* the entries of each directory: name |-> inum, 0 if none
    inode,          \* itable: ref, valid, and the copy of type and nlink
    lock,           \* ip->lock: its holder
    pr,             \* what each process is doing
    cwd, fd,        \* p->cwd; the inode of p's only open file
    lost            \* history: inodes named in a directory when it was truncated

vars == <<dinode, ents, inode, lock, pr, cwd, fd, lost>>

AllNames == Names \cup {Dot, DotDot}
NoEntries == [n \in AllNames |-> None]
\* The entries of a directory i made in directory d.
Dots(i, d) == [NoEntries EXCEPT ![Dot] = i, ![DotDot] = d]
Empty == [ref |-> 0, valid |-> FALSE, type |-> "free", nlink |-> 0]
Idle == [pc |-> "idle", op |-> "none", path |-> <<>>, to |-> <<>>, name |-> Dot,
         ip |-> None, dp |-> None, old |-> None, todo |-> <<>>]

\* mkfs has made the root directory; every process starts in it.
Init ==
    /\ dinode = [i \in Inums |-> IF i = ROOTINO THEN [type |-> "DIR", nlink |-> 1]
                                                ELSE [type |-> "free", nlink |-> 0]]
    /\ ents = [i \in Inums |-> IF i = ROOTINO THEN Dots(i, ROOTINO) ELSE NoEntries]
    /\ inode = [i \in Inums |-> IF i = ROOTINO THEN [Empty EXCEPT !.ref = Cardinality(Procs)] ELSE Empty]
    /\ lock = [i \in Inums |-> None]
    /\ pr = [p \in Procs |-> Idle]
    /\ cwd = [p \in Procs |-> ROOTINO]
    /\ fd = [p \in Procs |-> None]
    /\ lost = {}

-----------------------------------------------------------------------------
(***************************************************************************)
(* Inodes                                                                  *)
(***************************************************************************)
\* iget() and idup(), on the table t.
Iget(t, i) == [t EXCEPT ![i] = IF @.ref = 0 THEN [Empty EXCEPT !.ref = 1]
                                            ELSE [@ EXCEPT !.ref = @ + 1]]

\* ilock() reads the inode from disk if that has not been done.
Loaded(i) == IF inode[i].valid THEN inode[i]
             ELSE [inode[i] EXCEPT !.valid = TRUE, !.type = dinode[i].type, !.nlink = dinode[i].nlink]
Ilock(i) == [inode EXCEPT ![i] = Loaded(i)]

\* iupdate() of every inode that a step changes in the table t.
Iupdate(t, changed) == [i \in Inums |->
    IF i \in changed THEN [type |-> t[i].type, nlink |-> t[i].nlink] ELSE dinode[i]]

\* dirlookup(): the inode of a name in the directory i, None if there is none.
Dirlookup(i, name) == ents[i][name]

At(p, pc) == pr[p].pc = pc /\ pr[p].todo = <<>>
Go(p, r) == pr' = [pr EXCEPT ![p] = r]

\* Mutant: the copy in the table stays valid after the inode is freed.
StaysValid(e) == e
Invalidated(e) == [e EXCEPT !.valid = FALSE]

\* Mutant: the last link and not the last reference frees the inode.
NoLink(e) == e.valid /\ e.nlink = 0
LastUse(e) == e.ref = 1 /\ e.valid /\ e.nlink = 0

\* What is left to do of iunlock() and iput() calls: the head of todo.
Iunlock(p) ==
    LET d == Head(pr[p].todo) IN
    /\ pr[p].todo # <<>> /\ d[1] = "iunlock"
    /\ lock' = [lock EXCEPT ![d[2]] = None]
    /\ Go(p, [pr[p] EXCEPT !.todo = Tail(@)])
    /\ UNCHANGED <<dinode, ents, inode, cwd, fd, lost>>

Iput(p) ==
    LET i == Head(pr[p].todo)[2] IN
    /\ pr[p].todo # <<>> /\ Head(pr[p].todo)[1] = "iput"
    /\ IF LastUse(inode[i])
       THEN /\ lock[i] = None
            /\ lock' = [lock EXCEPT ![i] = p]
            /\ Go(p, [pr[p] EXCEPT !.todo[1][1] = "free"])
            /\ UNCHANGED inode
       ELSE /\ inode' = [inode EXCEPT ![i] = IF @.ref = 1 THEN Empty ELSE [@ EXCEPT !.ref = @ - 1]]
            /\ Go(p, [pr[p] EXCEPT !.todo = Tail(@)])
            /\ UNCHANGED lock
    /\ UNCHANGED <<dinode, ents, cwd, fd, lost>>

\* itrunc(), type = 0 and iupdate(): from here ialloc() may take the inode.
IputFree(p) ==
    LET i == Head(pr[p].todo)[2] IN
    /\ pr[p].todo # <<>> /\ Head(pr[p].todo)[1] = "free"
    /\ lost' = (lost \cup {ents[i][n] : n \in Names}) \ {None, i}
    /\ ents' = [ents EXCEPT ![i] = NoEntries]
    /\ inode' = [inode EXCEPT ![i].type = "free"]
    /\ dinode' = Iupdate(inode', {i})
    /\ Go(p, [pr[p] EXCEPT !.todo[1][1] = "freed"])
    /\ UNCHANGED <<lock, cwd, fd>>

\* valid = 0 and releasesleep(); the reference is dropped under itable.lock.
IputFreed(p) ==
    LET i == Head(pr[p].todo)[2] IN
    /\ pr[p].todo # <<>> /\ Head(pr[p].todo)[1] = "freed"
    /\ inode' = [inode EXCEPT ![i] = Invalidated(@)]
    /\ lock' = [lock EXCEPT ![i] = None]
    /\ Go(p, [pr[p] EXCEPT !.todo[1][1] = "drop"])
    /\ UNCHANGED <<dinode, ents, cwd, fd, lost>>

IputDrop(p) ==
    LET i == Head(pr[p].todo)[2] IN
    /\ pr[p].todo # <<>> /\ Head(pr[p].todo)[1] = "drop"
    /\ inode' = [inode EXCEPT ![i] = IF @.ref = 1 THEN Empty ELSE [@ EXCEPT !.ref = @ - 1]]
    /\ Go(p, [pr[p] EXCEPT !.todo = Tail(@)])
    /\ UNCHANGED <<dinode, ents, lock, cwd, fd, lost>>

\* Mutant: the inode is unlocked, and its reference kept.
PutNothing(i) == <<"iunlock", i>>
Put(i) == <<"iput", i>>
Unlock(i) == <<"iunlock", i>>

\* The call has done what it had to, but for todo.
Return(p, todo) == Go(p, [Idle EXCEPT !.todo = todo])

-----------------------------------------------------------------------------
(***************************************************************************)
(* namex(): one element of the path at a time.  The inode reached is       *)
(* referenced; it is locked only while it is looked at.                    *)
(***************************************************************************)
Start(p, path) == IF path # <<>> /\ Head(path) = Slash THEN ROOTINO ELSE cwd[p]

\* Bound: a call that may create a file begins when there is an inode for it;
\* ialloc() panics when there is none; link() begins while nlinks are small.
Creators == {"creat", "mkdir", "mknod"}
FreeInodes == {i \in Inums : dinode[i].type = "free"}
Room(c) ==
    /\ c.op \in Creators => Cardinality(FreeInodes) >
          Cardinality({p \in Procs : pr[p].op \in Creators /\ pr[p].pc # "create_new"})
    /\ c.op = "link" => \A i \in Inums : dinode[i].type # "DIR" => dinode[i].nlink < MaxLinks

\* A system call begins.
Begin(p, c) ==
    /\ At(p, "idle") /\ Room(c)
    /\ inode' = Iget(inode, Start(p, c.path))
    /\ Go(p, [Idle EXCEPT !.pc = "walk", !.op = c.op, !.path = c.path, !.to = c.to,
                          !.ip = Start(p, c.path)])
    /\ UNCHANGED <<dinode, ents, lock, cwd, fd, lost>>

\* nameiparent() is wanted, of link() for its second path only.
Parent(r) == r.op \in Creators \cup {"unlink"} \/ r.old # None

\* The lookup has failed: only link() has something to undo.
WalkFailed(p) ==
    LET r == pr[p] IN
    IF r.old = None THEN Return(p, <<Put(r.ip)>>)
    ELSE Go(p, [Idle EXCEPT !.pc = "link_bad", !.old = r.old, !.todo = <<Put(r.ip)>>])

\* No element is left.
WalkEnd(p) ==
    LET r == pr[p] IN
    /\ At(p, "walk") /\ ~ Skipelem(r.path).ok
    /\ IF Parent(r) THEN WalkFailed(p) ELSE Go(p, [r EXCEPT !.pc = r.op])
    /\ UNCHANGED <<dinode, ents, inode, lock, cwd, fd, lost>>

\* ilock(ip), look at the element, iunlock(ip).
WalkStep(p) ==
    LET r == pr[p]
        i == r.ip
        elem == Skipelem(r.path)
        next == Dirlookup(i, elem.name)
        early == Parent(r) /\ elem.rest = <<>>      \* stop one level early
    IN
    /\ At(p, "walk") /\ elem.ok /\ lock[i] = None
    /\ \/ /\ Loaded(i).type # "DIR" \/ (next = None /\ ~ early)
          /\ WalkFailed(p)
          /\ inode' = Ilock(i)
       \/ /\ Loaded(i).type = "DIR" /\ early
          /\ Go(p, [r EXCEPT !.pc = r.op, !.ip = None, !.dp = i, !.name = elem.name, !.path = <<>>])
          /\ inode' = Ilock(i)
       \/ /\ Loaded(i).type = "DIR" /\ next # None /\ ~ early
          /\ Go(p, [r EXCEPT !.ip = next, !.path = elem.rest, !.todo = <<Put(i)>>])
          /\ inode' = Iget(Ilock(i), next)
    /\ UNCHANGED <<dinode, ents, lock, cwd, fd, lost>>

-----------------------------------------------------------------------------
(***************************************************************************)
(* open() without O_CREATE, close() and chdir()                            *)
(***************************************************************************)
\* The inode i, locked by p, becomes an open file if there is room for one;
\* a device may have a number no driver has.
OpenFile(p, i, todo) ==
    \/ fd[p] = None /\ fd' = [fd EXCEPT ![p] = i] /\ Return(p, todo)
    \/ /\ fd[p] # None \/ Loaded(i).type = "DEVICE"
       /\ UNCHANGED fd /\ Return(p, todo \o <<Put(i)>>)

\* "openw" is open() for writing.
Open(p) ==
    LET r == pr[p] IN
    /\ At(p, r.op) /\ r.op \in {"open", "openw"} /\ lock[r.ip] = None
    /\ inode' = Ilock(r.ip)
    /\ IF Loaded(r.ip).type = "DIR" /\ r.op = "openw"
       THEN UNCHANGED fd /\ Return(p, <<Put(r.ip)>>)
       ELSE OpenFile(p, r.ip, <<>>)
    /\ UNCHANGED <<dinode, ents, lock, cwd, lost>>

\* fileclose() of the last reference to the file.
Close(p) ==
    /\ At(p, "idle") /\ fd[p] # None
    /\ fd' = [fd EXCEPT ![p] = None]
    /\ Return(p, <<Put(fd[p])>>)
    /\ UNCHANGED <<dinode, ents, inode, lock, cwd, lost>>

Chdir(p) ==
    LET i == pr[p].ip IN
    /\ At(p, "chdir") /\ lock[i] = None
    /\ inode' = Ilock(i)
    /\ IF Loaded(i).type = "DIR"
       THEN cwd' = [cwd EXCEPT ![p] = i] /\ Return(p, <<Put(cwd[p])>>)
       ELSE UNCHANGED cwd /\ Return(p, <<Put(i)>>)
    /\ UNCHANGED <<dinode, ents, lock, fd, lost>>

-----------------------------------------------------------------------------
(***************************************************************************)
(* link()                                                                  *)
(***************************************************************************)
\* Mutant: the link is counted once it is there.
CountLater(n) == n
CountFirst(n) == n + 1

\* The old name's inode gets its link first, then the new name is looked up.
Link(p) ==
    LET r == pr[p]
        i == r.ip
    IN
    /\ At(p, "link") /\ r.old = None /\ lock[i] = None
    /\ IF Loaded(i).type = "DIR"
       THEN /\ inode' = Ilock(i)
            /\ Return(p, <<Put(i)>>)
       ELSE /\ inode' = Iget([Ilock(i) EXCEPT ![i].nlink = CountFirst(@)], Start(p, r.to))
            /\ Go(p, [r EXCEPT !.pc = "walk", !.path = r.to, !.old = i, !.ip = Start(p, r.to)])
    /\ dinode' = Iupdate(inode', {i})
    /\ UNCHANGED <<ents, lock, cwd, fd, lost>>

\* dirlink(): the name must not be there.  If it is, its inode has a link, and
\* the reference that dirlookup() took is given back at once to no effect.
LinkName(p) ==
    LET r == pr[p]
        d == r.dp
    IN
    /\ At(p, "link") /\ r.old # None /\ lock[d] = None
    /\ inode' = Ilock(d)
    /\ IF Dirlookup(d, r.name) # None
       THEN /\ Go(p, [Idle EXCEPT !.pc = "link_bad", !.old = r.old, !.todo = <<Put(d)>>])
            /\ UNCHANGED ents
       ELSE /\ ents' = [ents EXCEPT ![d][r.name] = r.old]
            /\ Return(p, <<Put(d), Put(r.old)>>)
    /\ UNCHANGED <<dinode, lock, cwd, fd, lost>>

LinkBad(p) ==
    LET i == pr[p].old IN
    /\ At(p, "link_bad") /\ lock[i] = None
    /\ inode' = [Ilock(i) EXCEPT ![i].nlink = @ - 1]
    /\ dinode' = Iupdate(inode', {i})
    /\ Return(p, <<Put(i)>>)
    /\ UNCHANGED <<ents, lock, cwd, fd, lost>>

-----------------------------------------------------------------------------
(***************************************************************************)
(* unlink(): dp and ip are locked at the same time.                        *)
(***************************************************************************)
Unlink(p) ==
    LET r == pr[p]
        d == r.dp
        i == Dirlookup(d, r.name)
    IN
    /\ At(p, "unlink") /\ lock[d] = None
    /\ IF r.name \in {Dot, DotDot} \/ i = None
       THEN /\ inode' = Ilock(d)
            /\ Return(p, <<Put(d)>>)
            /\ UNCHANGED lock
       ELSE /\ inode' = Iget(Ilock(d), i)
            /\ lock' = [lock EXCEPT ![d] = p]
            /\ Go(p, [r EXCEPT !.pc = "unlink_ip", !.ip = i])
    /\ UNCHANGED <<dinode, ents, cwd, fd, lost>>

IsDirEmpty(i) == \A n \in Names : ents[i][n] = None

UnlinkName(p) ==
    LET r == pr[p]
        d == r.dp
        i == r.ip
        dir == Loaded(i).type = "DIR"
    IN
    /\ At(p, "unlink_ip") /\ lock[i] = None
    /\ IF dir /\ ~ IsDirEmpty(i)
       THEN /\ inode' = Ilock(i)
            /\ Return(p, <<Put(i), Unlock(d), Put(d)>>)
            /\ UNCHANGED <<dinode, ents, lock>>
       ELSE /\ ents' = [ents EXCEPT ![d][r.name] = None]
            /\ inode' = [Ilock(i) EXCEPT ![d].nlink = IF dir THEN @ - 1 ELSE @]
            /\ dinode' = Iupdate(inode', {d})
            /\ lock' = [lock EXCEPT ![d] = None, ![i] = p]
            /\ Go(p, [r EXCEPT !.pc = "unlink_done", !.dp = None, !.todo = <<Put(d)>>])
    /\ UNCHANGED <<cwd, fd, lost>>

UnlinkDone(p) ==
    LET i == pr[p].ip IN
    /\ At(p, "unlink_done")
    /\ inode' = [inode EXCEPT ![i].nlink = @ - 1]
    /\ dinode' = Iupdate(inode', {i})
    /\ lock' = [lock EXCEPT ![i] = None]
    /\ Return(p, <<Put(i)>>)
    /\ UNCHANGED <<ents, cwd, fd, lost>>

-----------------------------------------------------------------------------
(***************************************************************************)
(* create(), for open(O_CREATE), mkdir() and mknod()                       *)
(***************************************************************************)
NewType(op) == CASE op = "creat" -> "FILE" [] op = "mkdir" -> "DIR" [] op = "mknod" -> "DEVICE"

\* dirlookup(); ialloc() takes the first free inode.
Create(p) ==
    LET r == pr[p]
        d == r.dp
        found == Dirlookup(d, r.name)
        i == Min(FreeInodes)
    IN
    /\ At(p, r.op) /\ r.op \in Creators /\ lock[d] = None
    /\ IF found # None
       THEN /\ inode' = Iget(Ilock(d), found)
            /\ Go(p, [r EXCEPT !.pc = "create_found", !.ip = found, !.dp = None, !.todo = <<Put(d)>>])
            /\ UNCHANGED <<dinode, lock>>
       ELSE /\ dinode' = [dinode EXCEPT ![i] = [type |-> NewType(r.op), nlink |-> 0]]
            /\ inode' = Iget(Ilock(d), i)
            /\ lock' = [lock EXCEPT ![d] = p]
            /\ Go(p, [r EXCEPT !.pc = "create_new", !.ip = i])
    /\ UNCHANGED <<ents, cwd, fd, lost>>

CreateFound(p) ==
    LET r == pr[p]
        i == r.ip
    IN
    /\ At(p, "create_found") /\ lock[i] = None
    /\ inode' = Ilock(i)
    /\ IF r.op = "creat" /\ Loaded(i).type \in {"FILE", "DEVICE"}
       THEN OpenFile(p, i, <<>>)
       ELSE UNCHANGED fd /\ Return(p, <<Put(i)>>)
    /\ UNCHANGED <<dinode, ents, lock, cwd, lost>>

\* The new inode is locked and gets its name; dp is put, then ip, which is
\* an open file or put as well, is unlocked.
CreateNew(p) ==
    LET r == pr[p]
        d == r.dp
        i == r.ip
        dir == r.op = "mkdir"
    IN
    /\ At(p, "create_new") /\ lock[i] = None
    /\ inode' = [Ilock(i) EXCEPT ![i].nlink = 1, ![d].nlink = IF dir THEN @ + 1 ELSE @]
    /\ dinode' = Iupdate(inode', {i, d})
    /\ ents' = [ents EXCEPT ![i] = IF dir THEN Dots(i, d) ELSE @, ![d][r.name] = i]
    /\ lock' = [lock EXCEPT ![d] = None, ![i] = p]
    /\ IF r.op = "creat" THEN OpenFile(p, i, <<Put(d), Unlock(i)>>)
                         ELSE UNCHANGED fd /\ Return(p, <<Put(d), Unlock(i), Put(i)>>)
    /\ UNCHANGED <<cwd, lost>>

-----------------------------------------------------------------------------
Step(p) ==
    \/ Iunlock(p) \/ Iput(p) \/ IputFree(p) \/ IputFreed(p) \/ IputDrop(p)
    \/ WalkEnd(p) \/ WalkStep(p)
    \/ Open(p) \/ Chdir(p)
    \/ Link(p) \/ LinkName(p) \/ LinkBad(p)
    \/ Unlink(p) \/ UnlinkName(p) \/ UnlinkDone(p)
    \/ Create(p) \/ CreateFound(p) \/ CreateNew(p)

Next == \E p \in Procs : Step(p) \/ Close(p) \/ \E c \in Calls : Begin(p, c)

Spec == Init /\ [][Next]_vars

-----------------------------------------------------------------------------
(***************************************************************************)
(* Properties.                                                             *)
(***************************************************************************)
Kinds == {"free", "FILE", "DIR", "DEVICE"}
\* The type invariant: nlink, in the table and on disk, is never negative.
TypeOK ==
    /\ dinode \in [Inums -> [type : Kinds, nlink : Nat]]
    /\ ents \in [Inums -> [AllNames -> Inums \cup {None}]]
    /\ inode \in [Inums -> [ref : Nat, valid : BOOLEAN, type : Kinds, nlink : Nat]]
    /\ lock \in [Inums -> Procs \cup {None}]
    /\ cwd \in [Procs -> Inums] /\ fd \in [Procs -> Inums \cup {None}]
    /\ \A p \in Procs : {pr[p].ip, pr[p].dp, pr[p].old} \subseteq Inums \cup {None}

\* While namex() walks, skipelem() takes the next part of the path between
\* slashes, shortened to DIRSIZ, however many slashes there are before, between
\* and after the parts; and it leaves nothing exactly after the last, by which
\* namex() knows that it has come to the parent of a new name.
PathSplit ==
    \A p \in Procs : At(p, "walk") =>
        LET parts == Components(pr[p].path)
            elem == Skipelem(pr[p].path)
        IN  /\ elem.ok <=> parts # <<>>
            /\ elem.ok => <<elem.name>> \o Components(elem.rest) = parts /\ (elem.rest = <<>> <=> Len(parts) = 1)

\* ip->ref counts the references in use: current directories, open files and
\* what the calls under way have to put.
Freeing(d) == d[1] \in {"free", "freed", "drop"}
Refs(p, i) ==
    Cardinality({k \in 1 .. Len(pr[p].todo) : pr[p].todo[k][2] = i /\ pr[p].todo[k][1] # "iunlock"})
    + Cardinality({x \in {"cwd", "fd", "ip", "dp", "old"} :
          i = CASE x = "cwd" -> cwd[p] [] x = "fd" -> fd[p] [] x = "ip" -> pr[p].ip
                [] x = "dp" -> pr[p].dp [] x = "old" -> pr[p].old})
RefsCounted == \A i \in Inums : inode[i].ref = MapThenSumSet(LAMBDA p : Refs(p, i), Procs)

\* "ip->ref == 1 means no other process can have ip locked, so this
\* acquiresleep() won't block": iput() holds itable.lock when it gets there.
PutNeverBlocks == \A p \in Procs :
    pr[p].todo # <<>> /\ Head(pr[p].todo)[1] = "iput" =>
        LET i == Head(pr[p].todo)[2] IN LastUse(inode[i]) => lock[i] = None

\* Whoever has an inode in hand has one that is allocated on disk, so that
\* ilock() never panics: it is not freed, nor given to another file, under
\* its users.
InHand(p) ==
    ({cwd[p], fd[p], pr[p].ip, pr[p].dp, pr[p].old}
     \cup {pr[p].todo[k][2] : k \in {k \in 1 .. Len(pr[p].todo) : ~ Freeing(pr[p].todo[k])}}) \ {None}
HeldAllocated == \A p \in Procs : \A i \in InHand(p) : dinode[i].type # "free"

\* nlink is the number of names of the inode, plus one for every directory
\* in it, once the calls under way are done; only names in a directory that
\* was removed while it was in use can be lost.
TrueLinks(i) == IF inode[i].valid THEN inode[i].nlink ELSE dinode[i].nlink
NamesOf(i) == Cardinality({x \in Inums \X Names : ents[x[1]][x[2]] = i})
Subdirs(i) == Cardinality({n \in Names : ents[i][n] # None /\ dinode[ents[i][n]].type = "DIR"})
UnderWay(i) == Cardinality({p \in Procs :
    pr[p].old = i \/ (pr[p].ip = i /\ pr[p].pc = "unlink_done")})
LinkCounts == \A i \in Inums \ lost :
    dinode[i].type # "free" =>
        TrueLinks(i) = NamesOf(i) + Subdirs(i) + UnderWay(i) + (IF i = ROOTINO THEN 1 ELSE 0)

\* No space is lost to a race: an inode without links is in use by someone.
NoOrphan == \A i \in Inums : dinode[i].type # "free" /\ TrueLinks(i) = 0 => inode[i].ref > 0
=============================================================================
