------------------------------ MODULE MCNames -------------------------------
(***************************************************************************)
(* An instance of Names for TLC: the calls the processes make.             *)
(***************************************************************************)
EXTENDS Names, TLC

Symmetric == Permutations(Procs)

On(ops, paths) == {[op |-> o, path |-> q, to |-> <<>>] : o \in ops, q \in paths}

SmallNames == {<<"a", "a">>, <<"d">>}

\* A file, whose name may be too long, a directory, and names in the
\* directory, reached from the root and from wherever the process is.
RaceCalls ==
    On({"creat", "unlink"}, {<<"/", "a", "a", "a">>})
    \cup On({"mknod", "unlink"}, {<<"/", "d", "/", "/", "a", "a">>})
    \cup On({"mkdir", "unlink", "chdir", "openw"}, {<<"/", "d", "/">>})
    \cup On({"open", "unlink", "chdir"}, {<<"a", "a">>})
    \cup On({"chdir", "mkdir"}, {<<"/">>})
    \cup On({"unlink"}, {<<".", "/", ".">>})
    \cup {[op |-> "link", path |-> q, to |-> <<"/", "d", "/", "a", "a", "a", "/">>] :
              q \in {<<"/", "a", "a">>, <<"d">>}}
=============================================================================
