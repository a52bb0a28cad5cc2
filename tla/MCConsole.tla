----------------------------- MODULE MCConsole ------------------------------
(***************************************************************************)
(* The characters that processes write are interchangeable.                *)
(***************************************************************************)
EXTENDS Console, TLC

Symmetric == Permutations(Written)
=============================================================================
