----------------------------- MODULE AtomicDisk -----------------------------
(***************************************************************************)
(* What the logging layer promises the file system: the updates of a group *)
(* of concurrent system calls reach the disk in one atomic step, taken     *)
(* while none of them is active; a crash loses exactly the updates that    *)
(* have not been committed.                                                *)
(***************************************************************************)
EXTENDS Integers

CONSTANTS Blocks, Vals

VARIABLES
    durable,    \* what a crash leaves, after recovery
    mem,        \* what running system calls read
    active      \* system calls between begin_op() and end_op()

dvars == <<durable, mem, active>>

Init ==
    /\ durable \in [Blocks -> Vals]
    /\ mem = durable
    /\ active = 0

Begin == active' = active + 1 /\ UNCHANGED <<durable, mem>>

Write(b, v) ==
    /\ active > 0
    /\ mem' = [mem EXCEPT ![b] = v]
    /\ UNCHANGED <<durable, active>>

End == active > 0 /\ active' = active - 1 /\ UNCHANGED <<durable, mem>>

Commit == active = 0 /\ durable' = mem /\ UNCHANGED <<mem, active>>

Crash == mem' = durable /\ active' = 0 /\ UNCHANGED durable

Next ==
    \/ Begin \/ End \/ Commit \/ Crash
    \/ \E b \in Blocks, v \in Vals : Write(b, v)

Spec == Init /\ [][Next]_dvars
=============================================================================
