------------------------------- MODULE WSServer -------------------------------
(***************************************************************************)
(* The WebSocket server: an acceptor thread and, for every operator that   *)
(* connects, a detached thread that reads messages and calls the handler   *)
(* until the first exception.  A component of ManualControl, which says    *)
(* what is read and what the handler does at conn[o] = "handle".           *)
(***************************************************************************)
EXTENDS Integers, Sequences

CONSTANTS
    Operators,      \* those who connect, once each
    CloseUnblocks   \* does a close end the accept that blocks?

ASSUME WSAssumption == CloseUnblocks \in BOOLEAN

VARIABLES
    wsRunning,  \* _is_running
    listening,  \* the acceptor's socket is open
    acc,        \* where the acceptor thread is
    link,       \* what the operator has done with the connection
    conn        \* what the server has done with it: the thread's position

wsVars == <<wsRunning, listening, acc, link, conn>>

Threads == {"start", "read", "handle"}

WSInit ==
    /\ wsRunning = FALSE /\ listening = TRUE /\ acc = "off"
    /\ link = [o \in Operators |-> "away"]
    /\ conn = [o \in Operators |-> "none"]

WSTypeOK ==
    /\ wsRunning \in BOOLEAN /\ listening \in BOOLEAN
    /\ acc \in {"off", "check", "accept", "blocked", "launch", "ended"}
    /\ link \in [Operators -> {"away", "up", "down"}]
    /\ conn \in [Operators -> Threads \union
                    {"none", "backlog", "accepted", "refused", "ended"}]

(* The operators that a thread is running for. *)
Served == {o \in Operators : conn[o] \in Threads}

Moves(o, from, to) == conn[o] = from /\ conn' = [conn EXCEPT ![o] = to]

-----------------------------------------------------------------------------
(* The operators. *)

Connect(o) ==
    /\ listening /\ link[o] = "away"
    /\ link' = [link EXCEPT ![o] = "up"]
    /\ Moves(o, "none", "backlog")
    /\ UNCHANGED <<wsRunning, listening, acc>>

Leave(o) ==
    /\ link[o] = "up"
    /\ link' = [link EXCEPT ![o] = "down"]
    /\ UNCHANGED <<wsRunning, listening, acc, conn>>

-----------------------------------------------------------------------------
(* The acceptor thread. *)

WSStart ==
    /\ acc = "off"
    /\ wsRunning' = TRUE /\ acc' = "check"
    /\ UNCHANGED <<listening, link, conn>>

WSCheck ==
    /\ acc = "check"
    /\ acc' = IF wsRunning THEN "accept" ELSE "ended"
    /\ UNCHANGED conn

WSAccept ==
    /\ acc = "accept"
    /\ acc' = IF listening THEN "blocked" ELSE "ended"
    /\ UNCHANGED conn

WSAccepted ==
    /\ acc = "blocked"
    /\ \E o \in Operators : Moves(o, "backlog", "accepted")
    /\ acc' = "launch"

WSUnblocked ==
    /\ acc = "blocked" /\ ~listening /\ CloseUnblocks
    /\ acc' = "ended"
    /\ UNCHANGED conn

OneClient == acc' = "ended"                                         \* fault
NextClient == acc' = "check"

(* The detached thread begins.  If the operator has reset the connection *)
(* remote_endpoint throws instead, and the acceptor's loop is left.      *)
WSLaunch ==
    /\ acc = "launch"
    /\ \E o \in Operators :
         \/ Moves(o, "accepted", "start") /\ NextClient
         \/ link[o] = "down" /\ Moves(o, "accepted", "refused") /\ acc' = "ended"

Acceptor ==
    /\ WSCheck \/ WSAccept \/ WSAccepted \/ WSUnblocked \/ WSLaunch
    /\ UNCHANGED <<wsRunning, listening, link>>

-----------------------------------------------------------------------------
(* A connection's thread. *)

WSHandshake(o) ==
    \/ link[o] = "up" /\ Moves(o, "start", "read")
    \/ link[o] = "down" /\ Moves(o, "start", "ended")

(* The connection is found closed. *)
WSClosed(o) == link[o] = "down" /\ Moves(o, "read", "ended")

-----------------------------------------------------------------------------
(* stop(): the flag, the acceptor, the join. *)

WSStopFlag ==
    /\ wsRunning' = FALSE
    /\ UNCHANGED <<listening, acc, link, conn>>

StayOpen == listening' = listening                                  \* fault
CloseAcceptor == listening' = FALSE

WSStopClose ==
    /\ CloseAcceptor
    /\ UNCHANGED <<wsRunning, acc, link, conn>>

NotJoined == TRUE                                                   \* fault
WSJoined == acc = "ended"
=============================================================================
