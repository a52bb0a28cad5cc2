-------------------------------- MODULE Path --------------------------------
(***************************************************************************)
(* Path names (kernel/fs.c): how skipelem() takes one element after the    *)
(* other from a path.  A path is a sequence of characters, without its     *)
(* NUL; a name is a sequence of at most DIRSIZ characters.                 *)
(***************************************************************************)
EXTENDS Integers, Sequences

LOCAL INSTANCE SequencesExt
LOCAL INSTANCE FiniteSetsExt

CONSTANT DIRSIZ

ASSUME PathAssumption == DIRSIZ \in Nat \ {0, 1}

Slash == "/"
Dot == <<".">>
DotDot == <<".", ".">>

\* The index of the first character of path, from i on, that is a slash, or
\* that is not; Len(path) + 1 at the NUL.
ToSlash(path, i) == SelectInSubSeq(path, i, Len(path), LAMBDA c : c = Slash)
OverSlashes(path, i) == SelectInSubSeq(path, i, Len(path), LAMBDA c : c # Slash)
OrEnd(path, k) == IF k = 0 THEN Len(path) + 1 ELSE k

\* Mutant: the slashes after the element stay.
RestAt(path, end) == end
RestFrom(path, end) == OrEnd(path, OverSlashes(path, end))

NameOf(path, s, end) == SubSeq(path, s, IF end - s >= DIRSIZ THEN s + DIRSIZ - 1 ELSE end - 1)

\* skipelem(): the element and the path that follows it; ok is FALSE if it
\* returns 0.
Skipelem(path) ==
    LET s == OrEnd(path, OverSlashes(path, 1))
        end == OrEnd(path, ToSlash(path, s))
    IN  [ok |-> s <= Len(path), name |-> NameOf(path, s, end),
         rest |-> SubSeq(path, RestFrom(path, end), Len(path))]

-----------------------------------------------------------------------------
\* The parts of a path between slashes, each shortened to DIRSIZ.
Starts(path) == {i \in 1 .. Len(path) : path[i] # Slash /\ (i = 1 \/ path[i - 1] = Slash)}
Component(path, i) ==
    LET run == {j \in i .. Len(path) : Slash \notin {path[k] : k \in i .. j}} IN
    SubSeq(path, i, Min({Max(run), i + DIRSIZ - 1}))
Components(path) == LET at == SetToSortSeq(Starts(path), <) IN
                    [k \in DOMAIN at |-> Component(path, at[k])]
=============================================================================
