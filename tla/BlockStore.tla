----------------------------- MODULE BlockStore -----------------------------
(***************************************************************************)
(* What the buffer cache and the disk driver promise their callers: one    *)
(* copy of every block, used by one process at a time, that only changes   *)
(* when the process that has it writes it.                                 *)
(***************************************************************************)
CONSTANTS Procs, Blocks, Vals, Nobody

VARIABLES mem, owner

Init == mem \in [Blocks -> Vals] /\ owner = [k \in Blocks |-> Nobody]

\* bread() returns, brelse() is called, the owner changes the contents.
Bread(p, k) == owner[k] = Nobody /\ owner' = [owner EXCEPT ![k] = p] /\ UNCHANGED mem
Brelse(p, k) == owner[k] = p /\ owner' = [owner EXCEPT ![k] = Nobody] /\ UNCHANGED mem
Modify(p, k, v) == owner[k] = p /\ mem' = [mem EXCEPT ![k] = v] /\ UNCHANGED owner

Next == \E p \in Procs, k \in Blocks :
    Bread(p, k) \/ Brelse(p, k) \/ \E v \in Vals : Modify(p, k, v)

Spec == Init /\ [][Next]_<<mem, owner>>
=============================================================================
