------------------------------- MODULE Shell --------------------------------
(***************************************************************************)
(* The shell (user/sh.c), which init (user/init.c) starts again when it    *)
(* ends: the parser, and the processes that runcmd() makes of a command,   *)
(* with the descriptors each of them has open.                             *)
(*                                                                         *)
(* A line is a sequence of tokens, as gettoken() makes them; a command is  *)
(* the tree that parsecmd() builds.  The calls fork, pipe, dup, close,     *)
(* wait and exec have the effect the kernel gives them; what a process     *)
(* does to its own descriptors between two forks is one step.  A program   *)
(* that was executed is what matters to a pipeline: whether it reads its   *)
(* input to the end and whether it writes more than a pipe holds.          *)
(***************************************************************************)
EXTENDS Integers, Sequences, FiniteSets

LOCAL INSTANCE FiniteSetsExt
LOCAL INSTANCE SequencesExt

CONSTANTS
    NPROC,          \* processes there can be, beside init
    NOFILE,         \* descriptors of a process
    MAXARGS,        \* words of a command, and one
    Commands,       \* the trees whose lines are typed
    BadLines,       \* other lines that are typed
    MaxLines,       \* bound: how many lines are typed
    Found,          \* the programs that there are
    Reading, Writing    \* those that read all input, that write much

ASSUME ShellAssumption == {NPROC, NOFILE, MAXARGS, MaxLines} \subseteq Nat \ {0} /\ NOFILE > 4

-----------------------------------------------------------------------------
(***************************************************************************)
(* Trees and lines.                                                        *)
(***************************************************************************)
EXEC(argv) == [type |-> "EXEC", argv |-> argv]
REDIR(c, fd, file) == [type |-> "REDIR", cmd |-> c, fd |-> fd, file |-> file]
PIPE(l, r) == [type |-> "PIPE", left |-> l, right |-> r]
LIST(l, r) == [type |-> "LIST", left |-> l, right |-> r]
BACK(c) == [type |-> "BACK", cmd |-> c]

Symbols == {"<", "|", ">", ">>", "&", ";", "(", ")"}
Peek(s, toks) == s # <<>> /\ Head(s) \in toks
IsWord(s) == s # <<>> /\ Head(s) \notin Symbols

\* What a parsing function returns: the tree, the rest of the line, and
\* whether it has called panic() instead.
Parsed(c, s) == [cmd |-> c, rest |-> s, ok |-> TRUE]
Syntax == [cmd |-> EXEC(<<>>), rest |-> <<>>, ok |-> FALSE]

RECURSIVE Parseredirs(_, _), Parsewords(_, _, _), Parseline(_), Parsepipe(_), Parsebacks(_, _)

\* parseredirs() around the tree c.
Parseredirs(c, s) ==
    IF ~ Peek(s, {"<", ">", ">>"}) THEN Parsed(c, s)
    ELSE IF ~ IsWord(Tail(s)) THEN Syntax
    ELSE Parseredirs(REDIR(c, IF Head(s) = "<" THEN 0 ELSE 1, s[2]), Tail(Tail(s)))

\* The loop of parseexec(): c is the EXEC node with the redirections so far
\* around it, argv the words so far.
RECURSIVE WithArgs(_, _)
WithArgs(c, argv) == IF c.type = "EXEC" THEN EXEC(argv) ELSE REDIR(WithArgs(c.cmd, argv), c.fd, c.file)
Parsewords(c, argv, s) ==
    LET more == Append(argv, Head(s))
        r == Parseredirs(c, Tail(s))
    IN  IF s = <<>> \/ Peek(s, {"|", ")", "&", ";"}) THEN Parsed(WithArgs(c, argv), s)
        ELSE IF ~ IsWord(s) \/ Len(more) >= MAXARGS \/ ~ r.ok THEN Syntax
        ELSE Parsewords(r.cmd, more, r.rest)

Parseblock(s) ==
    LET b == Parseline(Tail(s)) IN
    IF ~ b.ok \/ ~ Peek(b.rest, {")"}) THEN Syntax ELSE Parseredirs(b.cmd, Tail(b.rest))

Parseexec(s) ==
    LET r == Parseredirs(EXEC(<<>>), s) IN
    IF Peek(s, {"("}) THEN Parseblock(s)
    ELSE IF ~ r.ok THEN Syntax ELSE Parsewords(r.cmd, <<>>, r.rest)

\* Mutant: a pipeline of three is grouped from the left.
RECURSIVE PipesFromLeft(_, _)
PipesFromLeft(c, s) ==
    IF ~ Peek(s, {"|"}) THEN Parsed(c, s)
    ELSE LET r == Parseexec(Tail(s)) IN IF ~ r.ok THEN Syntax ELSE PipesFromLeft(PIPE(c, r.cmd), r.rest)
RestOfPipe(c, s) ==
    IF ~ Peek(s, {"|"}) THEN Parsed(c, s)
    ELSE LET r == Parsepipe(Tail(s)) IN IF ~ r.ok THEN Syntax ELSE Parsed(PIPE(c, r.cmd), r.rest)
Parsepipe(s) == LET c == Parseexec(s) IN IF ~ c.ok THEN Syntax ELSE RestOfPipe(c.cmd, c.rest)

Parsebacks(c, s) == IF Peek(s, {"&"}) THEN Parsebacks(BACK(c), Tail(s)) ELSE Parsed(c, s)
Parseline(s) ==
    LET p == Parsepipe(s)
        b == Parsebacks(p.cmd, p.rest)
        l == Parseline(Tail(b.rest))
    IN  IF ~ p.ok THEN Syntax
        ELSE IF ~ Peek(b.rest, {";"}) THEN b
        ELSE IF ~ l.ok THEN Syntax ELSE Parsed(LIST(b.cmd, l.cmd), l.rest)

Parsecmd(s) == LET l == Parseline(s) IN IF ~ l.ok \/ l.rest # <<>> THEN Syntax ELSE l

\* The line for a tree: what is typed.  level is the loosest construct that
\* needs no parentheses there: 1 a list, 2 "&", 3 a pipeline, 4 a command.
Level(c) == CASE c.type = "LIST" -> 1 [] c.type = "BACK" -> 2 [] c.type = "PIPE" -> 3 [] OTHER -> 4
RECURSIVE Line(_, _)
Line(c, level) ==
    IF Level(c) < level THEN <<"(">> \o Line(c, 1) \o <<")">>
    ELSE CASE c.type = "EXEC" -> c.argv
           [] c.type = "REDIR" -> Line(c.cmd, 4) \o <<IF c.fd = 0 THEN "<" ELSE ">", c.file>>
           [] c.type = "PIPE" -> Line(c.left, 4) \o <<"|">> \o Line(c.right, 3)
           [] c.type = "LIST" -> Line(c.left, 2) \o <<";">> \o Line(c.right, 1)
           [] c.type = "BACK" -> Line(c.cmd, 2) \o <<"&">>

-----------------------------------------------------------------------------
(***************************************************************************)
(* Processes.  init forks the shell; the shell and its children fork the   *)
(* others.  A process's children go to init when it exits.                 *)
(***************************************************************************)
VARIABLES
    proc,           \* the process table
    init,           \* what init does: "fork", "wait", or it has "exited"
    sh,             \* init's pid: the shell it started
    lines           \* lines typed so far, up to MaxLines

vars == <<proc, init, sh, lines>>

Pids == 1 .. NPROC
InitPid == 0
Fds == 0 .. NOFILE - 1
Closed == [end |-> "none", of |-> "none", id |-> 0, at |-> <<>>]
File(name) == [Closed EXCEPT !.end = "file", !.of = name]
\* An end of pipe id, made for the node at of a line's tree.
End(end, id, at) == [end |-> end, of |-> "pipe", id |-> id, at |-> at]

\* cmd is what the process runs, p the array of runcmd(), n the number of
\* wait() calls left.  The rest is history: tree is what the line meant, at
\* the path to cmd in it, job tells lines apart, and cut says that a call
\* for the job has failed.
NoProc == [pc |-> "none", parent |-> InitPid, fds |-> [fd \in Fds |-> Closed], cmd |-> EXEC(<<>>),
           p |-> <<0, 0>>, n |-> 0, tree |-> EXEC(<<>>), at |-> <<>>, job |-> 0, cut |-> FALSE]
\* The shell at its prompt, with the console as descriptors 0, 1 and 2.
Shell == [NoProc EXCEPT !.pc = "prompt", !.fds = [fd \in Fds |-> IF fd < 3 THEN File("console") ELSE Closed]]

Init == proc = [p \in Pids |-> NoProc] /\ init = "fork" /\ sh = 0 /\ lines = 0

At(p, pc) == proc[p].pc = pc
Unused == {p \in Pids : At(p, "none")}
LowestFd(fds) == Min({fd \in Fds : fds[fd].end = "none"})
Close(fds, set) == [fd \in Fds |-> IF fd \in set THEN Closed ELSE fds[fd]]
Dup(fds, fd) == [fds EXCEPT ![LowestFd(fds)] = fds[fd]]

\* exit() by p of the table t, which closes its files and reparents its
\* children.
Exited(t, p) ==
    [q \in Pids |-> IF q = p THEN [NoProc EXCEPT !.pc = "zombie", !.parent = t[p].parent, !.job = t[p].job]
                    ELSE IF t[q].parent = p THEN [t[q] EXCEPT !.parent = InitPid] ELSE t[q]]
Cut(p) == [q \in Pids |-> IF proc[q].job = proc[p].job THEN [proc[q] EXCEPT !.cut = TRUE] ELSE proc[q]]

Becomes(p, r) == proc' = [proc EXCEPT ![p] = r] /\ UNCHANGED <<init, sh>>
Exits(p) == proc' = Exited(proc, p) /\ UNCHANGED <<init, sh>>
Panics(p) == proc' = Exited(Cut(p), p) /\ UNCHANGED <<init, sh>>

\* fork1(): p goes on as parent and its child as child.
Fork1(p, child, parent) ==
    \/ Unused = {} /\ Panics(p)
    \/ /\ Unused # {}
       /\ proc' = [proc EXCEPT ![Min(Unused)] = [child EXCEPT !.parent = p], ![p] = parent]
       /\ UNCHANGED <<init, sh>>

\* wait(0): p reaps a child that has ended, or has none, and goes on as next.
Children(p) == {c \in Pids : proc[c].parent = p /\ ~ At(c, "none")}
Wait(p, next) ==
    /\ \/ \E c \in Children(p) : At(c, "zombie") /\ proc' = [proc EXCEPT ![c] = NoProc, ![p] = next]
       \/ Children(p) = {} /\ proc' = [proc EXCEPT ![p] = next]
    /\ UNCHANGED <<init, sh>>

\* init forks a shell, whose exec() may fail, or exits, which stops the
\* kernel; it then waits, until what it has reaped is the shell.
InitFork ==
    /\ init = "fork"
    /\ \/ Unused = {} /\ init' = "exited" /\ UNCHANGED <<proc, sh>>
       \/ /\ Unused # {} /\ init' = "wait" /\ sh' = Min(Unused)
          /\ \E child \in {Shell, [NoProc EXCEPT !.pc = "zombie"]} : proc' = [proc EXCEPT ![Min(Unused)] = child]
    /\ UNCHANGED lines
InitWait ==
    /\ init = "wait"
    /\ \E c \in Children(InitPid) :
          /\ At(c, "zombie")
          /\ proc' = [proc EXCEPT ![c] = NoProc]
          /\ init' = IF c = sh THEN "fork" ELSE "wait"
    /\ UNCHANGED <<sh, lines>>

\* main(): a line is typed, whose tree is meant; a child parses and runs it.
\* "cd" changes the current directory only.  At the end of its input the
\* shell exits.
NewJob == Min(1 .. NPROC + 1 \ {proc[p].job : p \in Pids})
Getcmd(line, tree) ==
    LET c == Parsecmd(line)
        r == [proc[sh] EXCEPT !.job = NewJob]
    IN
    /\ init = "wait" /\ At(sh, "prompt") /\ lines < MaxLines /\ lines' = lines + 1
    /\ Fork1(sh, [r EXCEPT !.pc = IF c.ok THEN "run" ELSE "exit", !.cmd = c.cmd, !.tree = tree], [r EXCEPT !.pc = "main"])
EndOfLines == init = "wait" /\ At(sh, "prompt") /\ lines < MaxLines /\ lines' = lines + 1 /\ Exits(sh)
MainWait(p) == At(p, "main") /\ Wait(p, [proc[p] EXCEPT !.pc = "prompt", !.job = 0])

-----------------------------------------------------------------------------
(***************************************************************************)
(* runcmd()                                                                *)
(***************************************************************************)
Runs(p, type) == At(p, "run") /\ proc[p].cmd.type = type
Sub(r, c, side) == [r EXCEPT !.pc = "run", !.cmd = c, !.at = Append(@, side)]
Exit(p) == At(p, "exit") /\ Exits(p)

\* EXEC opens /path, which may fail, and executes the program found in the
\* directory that the file names first, or in the current one.  When it is
\* in neither, the loop never gets past the first ":" and never ends.
RunExec(p) ==
    LET r == proc[p] IN
    /\ Runs(p, "EXEC")
    /\ \/ Exits(p)
       \/ /\ r.cmd.argv # <<>>
          /\ Becomes(p, [r EXCEPT !.pc = IF Head(r.cmd.argv) \in Found THEN "program" ELSE "search",
                                  !.fds[LowestFd(r.fds)] = File("/path")])

\* Mutant: the descriptor is not closed first.
OpenBeside(fds, fd) == fds
Freed(fds, fd) == Close(fds, {fd})
RunRedir(p) ==
    LET r == proc[p]
        fds == Freed(r.fds, r.cmd.fd)
    IN
    /\ Runs(p, "REDIR")
    /\ \/ Exits(p)
       \/ Becomes(p, [Sub(r, r.cmd.cmd, "cmd") EXCEPT !.fds = [fds EXCEPT ![LowestFd(fds)] = File(r.cmd.file)]])

\* Mutant: the shell goes on with the right side at once.
GoesOn(r) == Sub(r, r.cmd.right, "right")
AfterLeft(r) == [r EXCEPT !.pc = "wait", !.n = 1]
RunList(p) == Runs(p, "LIST") /\ Fork1(p, Sub(proc[p], proc[p].cmd.left, "left"), AfterLeft(proc[p]))

RunBack(p) == Runs(p, "BACK") /\ Fork1(p, Sub(proc[p], proc[p].cmd.cmd, "cmd"), [proc[p] EXCEPT !.pc = "exit"])

\* pipe(p), which may fail, and the first fork; then the second.
NewPipe == Min(1 .. NPROC + 1 \ {proc[q].fds[fd].id : q \in Pids, fd \in Fds})
WithPipe(r) ==
    LET p0 == LowestFd(r.fds)
        one == [r.fds EXCEPT ![p0] = End("r", NewPipe, r.at)]
        p1 == LowestFd(one)
    IN  [r EXCEPT !.p = <<p0, p1>>, !.fds = [one EXCEPT ![p1] = End("w", NewPipe, r.at)]]
RunPipe(p) ==
    LET r == WithPipe(proc[p]) IN
    /\ Runs(p, "PIPE")
    /\ \/ Panics(p)
       \/ Fork1(p, [r EXCEPT !.pc = "left"], [r EXCEPT !.pc = "fork2"])
RunPipe2(p) == At(p, "fork2") /\ Fork1(p, [proc[p] EXCEPT !.pc = "right"], [proc[p] EXCEPT !.pc = "close"])

\* The child on a side: close(fd), dup(end), and close() of both ends.
Side(r, c, side, fd, end) ==
    [Sub(r, c, side) EXCEPT !.fds = Close(Dup(Close(@, {fd}), end), {r.p[1], r.p[2]}), !.p = <<0, 0>>]
\* Mutant: the left side gets the end to read from.
LeftReads(r) == Side(r, r.cmd.left, "left", 1, r.p[1])
LeftSide(r) == Side(r, r.cmd.left, "left", 1, r.p[2])
Left(p) == At(p, "left") /\ Becomes(p, LeftSide(proc[p]))
\* Mutant: the right side keeps the end to write to.
KeepsEnd(r) == [Sub(r, r.cmd.right, "right") EXCEPT !.fds = Close(Dup(Close(@, {0}), r.p[1]), {r.p[1]}), !.p = <<0, 0>>]
RightSide(r) == Side(r, r.cmd.right, "right", 0, r.p[1])
Right(p) == At(p, "right") /\ Becomes(p, RightSide(proc[p]))

\* Mutant: the shell waits once.
WaitsOnce(r) == [r EXCEPT !.pc = "wait", !.n = 1, !.fds = Close(@, {r.p[1], r.p[2]}), !.p = <<0, 0>>]
\* The shell closes both ends, and will wait twice.
AfterPipe(r) == [r EXCEPT !.pc = "wait", !.n = 2, !.fds = Close(@, {r.p[1], r.p[2]}), !.p = <<0, 0>>]
PipeClose(p) == At(p, "close") /\ Becomes(p, AfterPipe(proc[p]))

\* wait(0); after the last a list goes on with its right side.
Waited(r) ==
    IF r.n > 1 THEN [r EXCEPT !.n = @ - 1]
    ELSE IF r.cmd.type = "LIST" THEN [Sub(r, r.cmd.right, "right") EXCEPT !.n = 0]
    ELSE [r EXCEPT !.pc = "exit", !.n = 0]
WaitDone(p) == At(p, "wait") /\ Wait(p, Waited(proc[p]))

-----------------------------------------------------------------------------
(***************************************************************************)
(* A program ends when it has read its input to the end, if it reads, and  *)
(* written its output, if that is more than a pipe holds: input ends when  *)
(* nobody can write, and output goes on while a program reads it, or when  *)
(* nobody can.                                                             *)
(***************************************************************************)
Holds(q, end, id) == \E fd \in Fds : proc[q].fds[fd].end = end /\ proc[q].fds[fd].id = id
Name(p) == Head(proc[p].cmd.argv)
EndOfInput(p) == proc[p].fds[0].end = "r" => ~ \E q \in Pids : Holds(q, "w", proc[p].fds[0].id)
OutputGoes(p) ==
    proc[p].fds[1].end = "w" =>
        LET readers == {q \in Pids : Holds(q, "r", proc[p].fds[1].id)} IN
        readers = {} \/ \E q \in readers : At(q, "program") /\ Name(q) \in Reading
Program(p) ==
    /\ At(p, "program")
    /\ Name(p) \in Reading => EndOfInput(p)
    /\ Name(p) \in Writing => OutputGoes(p)
    /\ Exits(p)

Step(p) ==
    /\ init # "exited" /\ UNCHANGED lines
    /\ \/ MainWait(p) \/ RunExec(p) \/ RunRedir(p) \/ RunList(p) \/ RunBack(p) \/ RunPipe(p) \/ RunPipe2(p)
       \/ Left(p) \/ Right(p) \/ PipeClose(p) \/ WaitDone(p) \/ Exit(p) \/ Program(p)
Next ==
    \/ \E c \in Commands : Getcmd(Line(c, 1), c)
    \/ \E line \in BadLines : Getcmd(line, EXEC(<<>>))
    \/ EndOfLines \/ InitFork \/ InitWait
    \/ \E p \in Pids : Step(p)

\* A process that can take a step is scheduled; nobody has to type a line.
Spec == Init /\ [][Next]_vars /\ WF_vars(InitFork) /\ WF_vars(InitWait) /\ \A p \in Pids : WF_vars(Step(p))

-----------------------------------------------------------------------------
(***************************************************************************)
(* Properties.                                                             *)
(***************************************************************************)
Live(p) == ~ At(p, "none") /\ ~ At(p, "zombie")

\* The type invariant.  A process that runs has an input, an output and the
\* console as its standard error, whatever was closed and opened before.
TypeOK ==
    /\ init \in {"fork", "wait", "exited"} /\ sh \in 0 .. NPROC /\ lines \in 0 .. MaxLines
    /\ \A p \in Pids : LET r == proc[p] IN
          /\ r.parent \in 0 .. NPROC /\ r.n \in 0 .. 2 /\ r.job \in 0 .. NPROC + 1
          /\ \A fd \in Fds : r.fds[fd].end \in {"none", "file", "r", "w"}
          /\ Live(p) => r.fds[0].end \in {"file", "r"} /\ r.fds[1].end \in {"file", "w"} /\ r.fds[2] = File("console")

RECURSIVE Node(_, _)
Node(c, at) == IF at = <<>> THEN c ELSE Node(c[Head(at)], Tail(at))
\* What a process runs is its part of the tree that was meant by the line:
\* redirections, "|", "&", ";" and parentheses bind as the grammar of
\* parseline() says, a pipeline of three groups to the right, and a line that
\* is no command is not run.
RunsWhatWasTyped == \A p \in Pids : At(p, "run") \/ At(p, "program") => proc[p].cmd = Node(proc[p].tree, proc[p].at)

RECURSIVE Wiring(_, _, _, _)
Wiring(c, at, done, io) ==
    IF at = <<>> THEN io
    ELSE Wiring(c[Head(at)], Tail(at), Append(done, Head(at)),
                CASE Head(at) = "left" /\ c.type = "PIPE" -> [io EXCEPT ![1] = End("w", 0, done)]
                  [] Head(at) = "right" /\ c.type = "PIPE" -> [io EXCEPT ![0] = End("r", 0, done)]
                  [] c.type = "REDIR" -> [io EXCEPT ![c.fd] = File(c.file)]
                  [] OTHER -> io)
\* A program's input and output are what the line says: the innermost of the
\* redirections and pipes around it, and the console otherwise; both sides
\* of one "|" have the same pipe and no other process of any line has it.
Wired ==
    /\ \A p \in Pids : At(p, "program") =>
          [fd \in {0, 1} |-> [proc[p].fds[fd] EXCEPT !.id = 0]]
             = Wiring(proc[p].tree, proc[p].at, <<>>, [fd \in {0, 1} |-> File("console")])
    /\ \A p, q \in Pids : \A f, g \in Fds :
          LET a == proc[p].fds[f]
              b == proc[q].fds[g]
          IN  a.id # 0 /\ b.id # 0 => (a.id = b.id <=> proc[p].job = proc[q].job /\ a.at = b.at)

\* A process that runs a program or waits has ends of pipes only as its input
\* and output: an end left open elsewhere would keep a reader from its end of
\* file.  Five descriptors are enough for any line.
EndsClosed ==
    \A p \in Pids : \A fd \in Fds \ {0, 1} : proc[p].fds[fd].id # 0 =>
        fd \in {3, 4} /\ proc[p].pc \in {"left", "fork2", "right", "close"}

\* A shell that waits has as many children as it will wait for: wait() never
\* gets the wrong one, never fails, and leaves none behind.
WaitsForItsOwn ==
    \A p \in Pids : At(p, "wait") \/ At(p, "main") =>
        Cardinality(Children(p)) = IF At(p, "main") THEN 1 ELSE proc[p].n

\* p and q run two sides of one ";", the left one in the foreground.
Before(p, q) ==
    \E k \in 1 .. Min({Len(proc[p].at), Len(proc[q].at)}) :
        LET list == SubSeq(proc[p].at, 1, k - 1) IN
        /\ list = SubSeq(proc[q].at, 1, k - 1) /\ Node(proc[p].tree, list).type = "LIST"
        /\ proc[p].at[k] = "left" /\ proc[q].at[k] = "right"
        /\ \A j \in k .. Len(proc[p].at) - 1 : Node(proc[p].tree, SubSeq(proc[p].at, 1, j)).type # "BACK"
\* The right side of ";" starts when everything in the foreground on its left
\* has ended, unless a fork or a pipe has failed meanwhile.
InOrder == \A p, q \in Pids : Live(p) /\ Live(q) /\ proc[p].job # 0 /\ proc[p].job = proc[q].job /\ ~ proc[p].cut => ~ Before(p, q)

Foreground == init = "wait" /\ At(sh, "main")
\* A line that is typed comes to its end and the shell prompts again, unless
\* a command of it is searched for in vain (or init has exited): no pipeline
\* is left with a reader or a writer that waits for ever.
PromptReturns == Foreground ~> ~ Foreground \/ \E q \in Pids : At(q, "search") /\ proc[q].job = proc[sh].job
=============================================================================
