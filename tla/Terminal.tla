------------------------------ MODULE Terminal ------------------------------
(***************************************************************************)
(* What the console promises: a line editor and an output queue.  Typed    *)
(* characters collect in line, where they can still be erased; a newline,  *)
(* an end-of-file mark or a full buffer commits the line.  Readers take    *)
(* committed characters from the front.  Written characters leave in the   *)
(* order they were written.                                                *)
(***************************************************************************)
EXTENDS Naturals, Sequences

CONSTANTS
    Typed,      \* the characters that are stored when typed
    Ends,       \* those of them that end a line
    Written,    \* the characters processes write
    InSize,     \* characters typed and not yet read, at most
    OutSize     \* characters written and not yet sent, at most

VARIABLES
    committed,  \* what readers may take
    line,       \* what can still be erased
    out         \* what is written and not yet sent

vars == <<committed, line, out>>

Init == committed = <<>> /\ line = <<>> /\ out = <<>>

Type(c) ==
    LET l == Append(line, c)
        ends == c \in Ends \/ Len(committed) + Len(l) = InSize
    IN  /\ Len(committed) + Len(line) < InSize
        /\ committed' = IF ends THEN committed \o l ELSE committed
        /\ line' = IF ends THEN <<>> ELSE l
        /\ UNCHANGED <<out>>

\* Any number of the characters of the line that is being edited go.
Erase(k) ==
    /\ line' = SubSeq(line, 1, k)
    /\ UNCHANGED <<committed, out>>

\* A reader takes k characters.  None of them but the last ends a line.
Take(k) ==
    /\ \A i \in 1 .. k - 1 : committed[i] \notin Ends
    /\ committed' = SubSeq(committed, k + 1, Len(committed))
    /\ UNCHANGED <<line, out>>

Write(c) ==
    /\ Len(out) < OutSize
    /\ out' = Append(out, c)
    /\ UNCHANGED <<committed, line>>

Send ==
    /\ out # <<>>
    /\ out' = Tail(out)
    /\ UNCHANGED <<committed, line>>

Next ==
    \/ \E c \in Typed : Type(c)
    \/ \E k \in 0 .. Len(line) : Erase(k)
    \/ \E k \in 1 .. Len(committed) : Take(k)
    \/ \E c \in Written : Write(c)
    \/ Send

Spec == Init /\ [][Next]_vars
=============================================================================
