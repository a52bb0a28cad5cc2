------------------------------ MODULE MCVirtio ------------------------------
(***************************************************************************)
(* The disk driver alone, under callers that hold a buffer each, of a      *)
(* block each, and read and write it again and again.                      *)
(***************************************************************************)
EXTENDS Virtio

vars == <<pc, cur, buf, driver, used, intr, device>>

Init ==
    /\ VirtioInit
    /\ pc = [p \in Procs |-> "hold"]
    /\ cur = [p \in Procs |-> p]
    /\ buf = [b \in Bufs |->
          [blockno |-> b, valid |-> FALSE, refcnt |-> 1, disk |-> FALSE, data |-> None]]

Read(p) ==
    /\ pc[p] = "hold" /\ ~ buf[p].valid
    /\ pc' = [pc EXCEPT ![p] = "read"]
    /\ UNCHANGED <<cur, buf, driver, used, intr, device>>

Write(p, v) ==
    /\ pc[p] = "hold" /\ buf[p].valid
    /\ buf' = [buf EXCEPT ![p].data = v]
    /\ pc' = [pc EXCEPT ![p] = "write"]
    /\ UNCHANGED <<cur, driver, used, intr, device>>

\* The buffer has been recycled and got back: it must be read again.
Forget(p) ==
    /\ pc[p] = "hold" /\ buf[p].valid
    /\ buf' = [buf EXCEPT ![p].valid = FALSE, ![p].data = None]
    /\ UNCHANGED <<pc, cur, driver, used, intr, device>>

Next ==
    \/ \E p \in Procs :
          Read(p) \/ Forget(p) \/ RwNoDesc(p) \/ RwSubmit(p) \/ RwDone(p) \/ \E v \in Vals : Write(p, v)
    \/ DeviceStep \/ HandlerStep

\* The device answers every request, the interrupt is taken, and a process that was woken
\* gets vdisk_lock in the end (SF).
Spec ==
    /\ Init /\ [][Next]_vars
    /\ WF_vars(DevFetch) /\ \A h \in Descs : WF_vars(DevComplete(h))
    /\ WF_vars(HandlerStep)
    /\ \A p \in Procs : SF_vars(RwDone(p))
=============================================================================
