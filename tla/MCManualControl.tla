--------------------------- MODULE MCManualControl ---------------------------
(* Two operators, one of whom may send two messages. *)
EXTENDS ManualControl

CONSTANTS o1, o2

Pair == {o1, o2}
Limit == [o \in Pair |-> IF o = o1 THEN 2 ELSE 1]
=============================================================================
