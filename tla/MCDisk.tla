------------------------------- MODULE MCDisk -------------------------------
(***************************************************************************)
(* An instance of BufferCache for TLC: processes, the blocks that are only *)
(* read, and contents are interchangeable; buffers are not, binit() orders *)
(* them.                                                                   *)
(***************************************************************************)
EXTENDS BufferCache, TLC

Symmetric == Permutations(Procs) \cup Permutations(Blocks \ Changed) \cup Permutations(Vals)

\* Each content is that of as many blocks at first.
EvenInit == Init /\ \A v, w \in Vals : Cardinality({k \in Blocks : disk[k] = v}) = Cardinality({k \in Blocks : disk[k] = w})
EvenSpec == EvenInit /\ [][Next]_vars
=============================================================================
