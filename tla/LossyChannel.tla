---------------------------- MODULE LossyChannel ----------------------------
(***************************************************************************)
(* What the command path promises to the operator: orders reach the rover  *)
(* in the order they were given; an ordinary order may be dropped, an      *)
(* exempt one only when the channel is closed.                             *)
(***************************************************************************)
EXTENDS Integers, Sequences

CONSTANTS Commands, Exempt

VARIABLES
    given,     \* every order given so far
    pending,   \* the orders on their way, as positions in given
    received,  \* the orders the rover was sent, as positions in given
    open       \* the operator has not closed the channel

vars == <<given, pending, received, open>>

Init == given = <<>> /\ pending = <<>> /\ received = <<>> /\ open = TRUE

Give ==
    /\ \E c \in Commands : given' = Append(given, c)
    /\ pending' = Append(pending, Len(given) + 1)
    /\ UNCHANGED <<received, open>>

Deliver ==
    /\ pending # <<>>
    /\ received' = Append(received, Head(pending))
    /\ pending' = Tail(pending)
    /\ UNCHANGED <<given, open>>

Drop ==
    /\ pending # <<>> /\ given[Head(pending)] \notin Exempt
    /\ pending' = Tail(pending)
    /\ UNCHANGED <<given, received, open>>

Close == open /\ open' = FALSE /\ UNCHANGED <<given, pending, received>>

Next == Give \/ Deliver \/ Drop \/ Close

Spec == Init /\ [][Next]_vars

(* While the channel is open, orders do not get stuck in it. *)
FairSpec == Spec /\ WF_vars(open /\ (Deliver \/ Drop))
=============================================================================
