------------------------------- MODULE MCLog --------------------------------
(***************************************************************************)
(* Instances of Log for TLC.  Processes, blocks and contents are           *)
(* interchangeable.                                                        *)
(***************************************************************************)
EXTENDS Log, TLC

Symmetry == Permutations(Ops) \cup Permutations(Blocks) \cup Permutations(Vals)
=============================================================================
