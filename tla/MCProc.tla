------------------------------- MODULE MCProc -------------------------------
(***************************************************************************)
(* Instances of Proc for TLC: the kinds of event each run lets happen.     *)
(***************************************************************************)
EXTENDS ProcInv

AllEvents == {"fork", "exit", "wait", "kill", "sleep", "fault", "clock"}

\* Without sleep() and the clock of CPU 0 tickslock is never held for long.
TableEvents == {"fork", "exit", "wait", "kill"}
=============================================================================
