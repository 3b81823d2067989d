------------------------------ MODULE Broadcast ------------------------------
(***************************************************************************)
(* What the TCP server promises to its peers: a connection carries whole   *)
(* messages, newer ones after older ones and each at most once, until it   *)
(* is closed; the last message before that may lack its body.              *)
(***************************************************************************)
EXTENDS Integers, Sequences

CONSTANT Conns

VARIABLES
    current,  \* the number of the newest message
    wire,     \* what was sent on each connection
    closed    \* the connections on which nothing is sent any more

vars == <<current, wire, closed>>

Init == current = 0 /\ wire = [c \in Conns |-> <<>>] /\ closed = {}

Call == current' = current + 1 /\ UNCHANGED <<wire, closed>>

Sent(c, part) == wire' = [wire EXCEPT ![c] = Append(@, <<part, current>>)]

(* The message before is complete, and older. *)
SendHeader(c) ==
    /\ c \notin closed
    /\ wire[c] # <<>> => /\ wire[c][Len(wire[c])][1] = "body"
                         /\ wire[c][Len(wire[c])][2] < current
    /\ Sent(c, "header")
    /\ UNCHANGED <<current, closed>>

SendBody(c) ==
    /\ c \notin closed
    /\ wire[c] # <<>> /\ wire[c][Len(wire[c])] = <<"header", current>>
    /\ Sent(c, "body")
    /\ UNCHANGED <<current, closed>>

(* Connections are closed, by the peer, a removal or the server's stop. *)
Close ==
    /\ \E C \in SUBSET (Conns \ closed) : closed' = closed \union C
    /\ UNCHANGED <<current, wire>>

Next == Call \/ Close \/ \E c \in Conns : SendHeader(c) \/ SendBody(c)

Spec == Init /\ [][Next]_vars
=============================================================================
