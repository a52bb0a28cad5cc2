------------------------------- MODULE MCPipe -------------------------------
(***************************************************************************)
(* Instances of Pipe for TLC.  Readers, writers and byte values are each   *)
(* interchangeable as long as all or none of a kind may be killed.         *)
(***************************************************************************)
EXTENDS Pipe, TLC

Symmetry == Permutations(Readers) \cup Permutations(Writers) \cup Permutations(Bytes)
=============================================================================
