------------------------------ MODULE UDPServer ------------------------------
(***************************************************************************)
(* The UDP server: a thread that receives a datagram and calls the         *)
(* handler, until it is stopped or the first exception, the handler's own  *)
(* or the socket's, leaves the loop.  A component: the applications that   *)
(* extend it say what their handler does at upc = "handle", and when their *)
(* main thread starts and stops it.                                        *)
(***************************************************************************)
EXTENDS Naturals

CONSTANT CloseUnblocks  \* does a close end the receive_from that blocks?

ASSUME UDPAssumption == CloseUnblocks \in BOOLEAN

VARIABLES
    udpRunning,    \* running
    socket,        \* _socket
    upc,           \* where the receiving thread is
    receiveFailed  \* history: has a receive_from failed for another reason than stop?

udpVars == <<udpRunning, socket, upc, receiveFailed>>

UDPInit ==
    /\ udpRunning = FALSE /\ socket = "open" /\ upc = "off"
    /\ receiveFailed = FALSE

UDPTypeOK ==
    /\ udpRunning \in BOOLEAN
    /\ socket \in {"open", "closed"}
    /\ upc \in {"off", "check", "receive", "blocked", "handle", "ended"}
    /\ receiveFailed \in BOOLEAN

UDPStart ==
    /\ upc = "off"
    /\ udpRunning' = TRUE /\ upc' = "check"
    /\ UNCHANGED <<socket, receiveFailed>>

-----------------------------------------------------------------------------
(* The receiving thread. *)

UDPCheck ==
    /\ upc = "check"
    /\ upc' = IF udpRunning THEN "receive" ELSE "ended"
    /\ UNCHANGED <<udpRunning, socket, receiveFailed>>

(* receive_from throws on a socket that is closed already. *)
UDPReceive ==
    /\ upc = "receive"
    /\ upc' = IF socket = "open" THEN "blocked" ELSE "ended"
    /\ UNCHANGED <<udpRunning, socket, receiveFailed>>

UDPDatagram ==
    /\ upc = "blocked"
    /\ upc' = "handle"
    /\ UNCHANGED <<udpRunning, socket, receiveFailed>>

(* An error of the socket or of the network: receive_from throws. *)
UDPFails ==
    /\ upc = "blocked"
    /\ upc' = "ended" /\ receiveFailed' = TRUE
    /\ UNCHANGED <<udpRunning, socket>>

UDPUnblocked ==
    /\ upc = "blocked" /\ socket = "closed" /\ CloseUnblocks
    /\ upc' = "ended"
    /\ UNCHANGED <<udpRunning, socket, receiveFailed>>

UDPHandled ==
    /\ upc = "handle"
    /\ upc' = "check"
    /\ UNCHANGED <<udpRunning, socket, receiveFailed>>

(* The handler throws: the try block is outside the loop. *)
UDPThrown ==
    /\ upc = "handle"
    /\ upc' = "ended"
    /\ UNCHANGED <<udpRunning, socket, receiveFailed>>

(* What the thread does by itself between two datagrams. *)
UDPLoop == UDPCheck \/ UDPReceive \/ UDPUnblocked

-----------------------------------------------------------------------------
(* stop(): the flag, the socket, the join. *)

KeepRunning == udpRunning' = udpRunning                             \* fault
ResetRunning == udpRunning' = FALSE

UDPStopFlag == ResetRunning /\ UNCHANGED <<socket, upc, receiveFailed>>

UDPStopClose == socket' = "closed" /\ UNCHANGED <<udpRunning, upc, receiveFailed>>

UDPJoined == upc = "ended"
=============================================================================
