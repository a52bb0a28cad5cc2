------------------------------ MODULE MCFiles -------------------------------
(***************************************************************************)
(* An instance of Files for TLC.                                           *)
(***************************************************************************)
EXTENDS Files, TLC

Symmetric == Permutations(Procs)
=============================================================================
