--------------------------- MODULE OperatorStreams ---------------------------
(***************************************************************************)
(* What the operators' path promises: the commands of all operators are    *)
(* merged into one sequence, those of each operator in the order they were *)
(* sent and without a gap.  A malformed message is never passed by.  An    *)
(* operator may be cut off, and then no more of his commands are merged.   *)
(***************************************************************************)
EXTENDS Integers, Sequences

CONSTANTS Operators, Kinds

VARIABLES
    said,    \* what each operator has sent
    merged,  \* the commands, each by its operator and its number with him
    cut      \* the operators that are cut off

vars == <<said, merged, cut>>

Init == said = [o \in Operators |-> <<>>] /\ merged = <<>> /\ cut = {}

Say(o) ==
    /\ \E k \in Kinds : said' = [said EXCEPT ![o] = Append(@, k)]
    /\ UNCHANGED <<merged, cut>>

Merged(o, n) == \E i \in 1 .. Len(merged) : merged[i] = [from |-> o, number |-> n]

(* The first message that is not merged yet, which must not be malformed. *)
Merge(o) ==
    /\ o \notin cut
    /\ \E n \in 1 .. Len(said[o]) :
         /\ \A m \in 1 .. n - 1 : Merged(o, m)
         /\ ~Merged(o, n) /\ said[o][n] # "malformed"
         /\ merged' = Append(merged, [from |-> o, number |-> n])
    /\ UNCHANGED <<said, cut>>

Cut(o) == o \notin cut /\ cut' = cut \union {o} /\ UNCHANGED <<said, merged>>

Next == \E o \in Operators : Say(o) \/ Merge(o) \/ Cut(o)

Spec == Init /\ [][Next]_vars
=============================================================================
