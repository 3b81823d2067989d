---------------------------- MODULE ManualControl ----------------------------
(***************************************************************************)
(* The operators' path in manual_control.cpp and                           *)
(* manual_control_with_camera.cpp: WebSocket connections, whose handler    *)
(* translates a message and puts the command into the queue, and the main  *)
(* thread, whose end destroys queue and server.  The queue's other side is *)
(* CommandRelay, the camera CameraFeed, the rovers TCPServer.              *)
(***************************************************************************)
EXTENDS WSServer

CONSTANT MaxMessages  \* bound: messages of each operator

ASSUME ControlAssumption == MaxMessages \in [Operators -> Nat]

(* Text that GUI::message_handler translates; text at which stoi throws;  *)
(* text with fewer tokens than are read, which are not counted before.    *)
Kinds == {"command", "malformed", "short"}

VARIABLES
    main,     \* where the main thread is
    proc,     \* "up"; ended by using a destroyed object: "dangling"; or by
              \* reading past the end of the tokens: "overrun"
    said,     \* history: the messages each operator has sent
    taken,    \* how many of them the server has read
    queued,   \* history: the commands put into the queue, with their origin
    orphans   \* history: the operators served when WSServer::stop returned

handlerVars == <<proc, said, taken, queued>>
vars == <<wsVars, main, handlerVars, orphans>>

Init ==
    /\ WSInit
    /\ main = "start" /\ proc = "up"
    /\ said = [o \in Operators |-> <<>>] /\ taken = [o \in Operators |-> 0]
    /\ queued = <<>> /\ orphans = {}

-----------------------------------------------------------------------------
(* The operators: connecting, leaving, and sending a message once the        *)
(* handshake is done.  What is sent to a thread that has ended nobody reads. *)

Send(o) ==
    /\ link[o] = "up" /\ conn[o] \in {"read", "handle"}
    /\ Len(said[o]) < MaxMessages[o]
    /\ \E k \in Kinds : said' = [said EXCEPT ![o] = Append(@, k)]
    /\ UNCHANGED <<wsVars, proc, taken, queued>>

Operator(o) ==
    /\ \/ Send(o)
       \/ (Connect(o) \/ Leave(o)) /\ UNCHANGED handlerVars
    /\ UNCHANGED <<main, orphans>>

-----------------------------------------------------------------------------
(* A connection's thread.  Server, queue, and the io_context of the socket are *)
(* gone once main has returned.                                                *)

Outcome == IF main = "returned" THEN {"up", "dangling"} ELSE {"up"}

(* The server's handler is copied, then comes the handshake. *)
Begin(o) ==
    /\ WSHandshake(o)
    /\ proc' \in Outcome
    /\ UNCHANGED <<said, taken, queued>>

Assumed(o) == TRUE                                                  \* fault
HasMessage(o) == Len(said[o]) > taken[o]

Read(o) ==
    /\ HasMessage(o)
    /\ Moves(o, "read", "handle")
    /\ taken' = [taken EXCEPT ![o] = @ + 1]
    /\ proc' \in Outcome
    /\ UNCHANGED <<said, queued>>

LeaveLoop(o) == Moves(o, "handle", "ended")                         \* fault
NextMessage(o) == Moves(o, "handle", "read")

(* A message is translated, whatever into, and put into the queue. *)
Translated(o) ==
    /\ NextMessage(o)
    /\ queued' = Append(queued, [from |-> o, number |-> taken[o]])
    /\ proc' \in Outcome

HandleCommand(o) ==
    /\ Translated(o) /\ said[o][taken[o]] = "command"
    /\ UNCHANGED <<said, taken>>

CarryOn(o) == Moves(o, "handle", "read")                            \* fault
ThrowOut(o) == Moves(o, "handle", "ended")

(* stoi throws: the exception leaves the thread's loop. *)
HandleMalformed(o) ==
    /\ conn[o] = "handle" /\ said[o][taken[o]] = "malformed"
    /\ ThrowOut(o)
    /\ proc' \in Outcome
    /\ UNCHANGED <<said, taken, queued>>

(* The token that is missing is read all the same: it looks like some text,  *)
(* at which stoi or the string may throw, or the process ends.               *)
HandleShort(o) ==
    /\ conn[o] = "handle" /\ said[o][taken[o]] = "short"
    /\ \/ Translated(o)
       \/ ThrowOut(o) /\ proc' \in Outcome /\ UNCHANGED queued
       \/ proc' = "overrun" /\ UNCHANGED <<conn, queued>>
    /\ UNCHANGED <<said, taken>>

Closed(o) == WSClosed(o) /\ proc' \in Outcome /\ UNCHANGED <<said, taken, queued>>

Connection(o) ==
    /\ \/ Begin(o) \/ Read(o) \/ Closed(o)
       \/ HandleCommand(o) \/ HandleMalformed(o) \/ HandleShort(o)
    /\ UNCHANGED <<wsRunning, listening, acc, link, main, orphans>>

-----------------------------------------------------------------------------
(* The main thread. *)

Goes(from, to) == main = from /\ main' = to

Start == Goes("start", "running") /\ WSStart /\ UNCHANGED orphans

(* A key: stop_comm_thread is set. *)
KeyPressed == Goes("running", "stop") /\ UNCHANGED <<wsVars, orphans>>

StopServer ==
    \/ Goes("stop", "close") /\ WSStopFlag /\ UNCHANGED orphans
    \/ Goes("close", "join") /\ WSStopClose /\ UNCHANGED orphans
    \/ /\ Goes("join", "stopped") /\ WSJoined
       /\ orphans' = Served /\ UNCHANGED wsVars

(* The other servers are stopped and the relay is joined; then the local *)
(* objects are destroyed, and the process exits.                         *)
Return ==
    /\ Goes("stopped", "returned") \/ Goes("returned", "exited")
    /\ UNCHANGED <<wsVars, orphans>>

Cleanup == (StopServer \/ Return) /\ UNCHANGED handlerVars
Startup == (Start \/ KeyPressed) /\ UNCHANGED handlerVars
Accepting == Acceptor /\ UNCHANGED <<main, handlerVars, orphans>>

Next ==
    /\ proc = "up" /\ main # "exited"
    /\ \/ Startup \/ Cleanup \/ Accepting
       \/ \E o \in Operators : Operator(o) \/ Connection(o)

Spec == Init /\ [][Next]_vars

Alive == proc = "up" /\ main # "exited"

(* The threads run; nothing is assumed of operators and user. *)
FairSpec ==
    /\ Spec
    /\ WF_vars(Alive /\ Cleanup) /\ WF_vars(Alive /\ Accepting)
    /\ \A o \in Operators : WF_vars(Alive /\ Connection(o))

-----------------------------------------------------------------------------
(* Types of the variables. *)
TypeOK ==
    /\ WSTypeOK
    /\ main \in {"start", "running", "stop", "close", "join", "stopped",
                 "returned", "exited"}
    /\ proc \in {"up", "dangling", "overrun"}
    /\ said \in [Operators -> Seq(Kinds)]
    /\ \A o \in Operators : taken[o] \in 0 .. Len(said[o])
    /\ \A o \in Operators : conn[o] = "handle" => taken[o] # 0
    /\ queued \in Seq([from : Operators, number : Nat])
    /\ orphans \subseteq Operators

(* Of each operator's messages the queue holds the first ones, each once    *)
(* and in the order they were sent, whatever the other operators do; after  *)
(* a malformed message there is nothing (lines 16-31 of ws_server_lib.cpp). *)
QueuedInOrder ==
    \A i \in DOMAIN queued :
        LET o == queued[i].from  n == queued[i].number IN
        /\ n \in 1 .. taken[o] /\ said[o][n] # "malformed"
        /\ \A m \in 1 .. n - 1 :
             \E j \in 1 .. i - 1 : queued[j] = [from |-> o, number |-> m]
        /\ \A j \in 1 .. i - 1 : queued[j] # queued[i]

(* No connection is served after stop() has returned that was not served    *)
(* before, so that only an operator who was connected then can make a       *)
(* thread use the destroyed queue (lines 69-113 of ws_server_lib.cpp, 70-78 *)
(* of manual_control_with_camera.cpp).  Nothing else that is done to the    *)
(* server ends the process, but a message with too few tokens.              *)
OnlyOrphansRemain ==
    /\ main \in {"stopped", "returned", "exited"} => Served \subseteq orphans
    /\ proc = "dangling" => orphans # {}
    /\ proc = "overrun" =>
          \E o \in Operators : conn[o] = "handle" /\ said[o][taken[o]] = "short"

(* Messages get into the queue as long as the operator stays and all his     *)
(* messages were commands, if the process lives: another one's departure, or *)
(* text at which stoi throws, does not stop them (lines 19-30, 82-88 of      *)
(* ws_server_lib.cpp).  Another one's message with too few tokens may: it    *)
(* can end the process for all (lines 148-250 of gui_helper.hpp).            *)
CommandsArrive ==
    \A o \in Operators : \A n \in 1 .. MaxMessages[o] :
        ( /\ conn[o] = "read" /\ n <= Len(said[o])
          /\ \A i \in 1 .. n : said[o][i] = "command" )
        ~> ( \/ \E i \in DOMAIN queued : queued[i] = [from |-> o, number |-> n]
             \/ link[o] = "down" \/ ~Alive )

(* An operator who waits is served, unless the server is stopped, someone   *)
(* has reset a connection before it was served (lines 75-89), or a message  *)
(* with too few tokens has ended the process.                               *)
OperatorsAreServed ==
    \A o \in Operators :
        conn[o] = "backlog" ~>
            (conn[o] # "backlog" \/ main # "running" \/ proc = "overrun"
             \/ \E p \in Operators : conn[p] = "refused")

(* The program comes to its end although connections stay open (lines *)
(* 104-113), if a close ends accept.                                  *)
ProgramEnds == main = "stop" ~> ~Alive
=============================================================================
