--------------------------- MODULE AutomatedDriving ---------------------------
(***************************************************************************)
(* application/automated_driving.cpp: the UDP thread's handler asks the    *)
(* detector, leaves the detection with the driver, fetches the driver's    *)
(* latest command and queues it for the rover; the main thread starts and  *)
(* stops everything.  The detector (ObjectDetection), the relay            *)
(* (CommandRelay), the TCP server and the viewer (CameraFeed) have modules *)
(* of their own; here the detector returns any detection or none.          *)
(***************************************************************************)
EXTENDS UDPServer, AutonomousDriving, Sequences

CONSTANTS
    DetectionDuration,  \* detection_duration, in ticks
    CommandDuration,    \* command_duration, in ticks
    MaxCalls,           \* bound: calls of the handler
    MaxTime             \* bound: ticks of the clock

ASSUME DrivingAssumption ==
    /\ DetectionDuration \in Nat /\ CommandDuration \in Nat
    /\ MaxCalls \in Nat /\ MaxTime \in Nat

VARIABLES
    clock,          \* steady_clock
    main,           \* where the main thread is
    hpc,            \* where the handler is, "out" between two calls
    calls,          \* history: the handler's calls, what was seen and when (now)
    detected,       \* detection, the handler's local variable
    lastDetection,  \* last_detection and last_detection_time
    lastCommand,    \* last_command and last_command_time
    sent            \* history: the command that was queued last

handlerVars == <<hpc, calls, detected, lastDetection, lastCommand, sent>>
vars == <<udpVars, proc, driverVars, clock, main, handlerVars>>

Init ==
    /\ UDPInit /\ DriverInit
    /\ clock = 0 /\ main = "start" /\ hpc = "out" /\ calls = <<>>
    /\ detected = Nothing
    /\ lastDetection = [value |-> Nothing, at |-> 0]
    /\ lastCommand = [value |-> NoCommand, at |-> 0]
    /\ sent = [command |-> 0, asked |-> 0, rounds |-> 0]

Tick ==
    /\ clock < MaxTime
    /\ clock' = clock + 1
    /\ UNCHANGED <<udpVars, proc, driverVars, main, handlerVars>>

-----------------------------------------------------------------------------
(* The handler, in the UDP server's thread. *)

Now == calls[Len(calls)].at

RefreshedAt(now) == now                                             \* fault
ReusedAt(now) == lastDetection.at

NeverYoung(now) == FALSE                                            \* fault
Young(now) == now - lastDetection.at < DetectionDuration

NextCall == Len(calls) + 2                                          \* fault
ThisCall == Len(calls) + 1

(* The time is read and the detector is asked; last_detection stands in for *)
(* a missing detection while it is young.                                   *)
HandlerDetect ==
    /\ upc = "handle" /\ hpc = "out"
    /\ \E some \in BOOLEAN :
         LET seen == [of |-> ThisCall, some |-> some] IN
         /\ calls' = Append(calls, [some |-> some, at |-> clock])
         /\ IF some
            THEN /\ detected' = seen
                 /\ lastDetection' = [value |-> seen, at |-> clock]
            ELSE IF lastDetection.value.some /\ Young(clock)
            THEN /\ detected' = lastDetection.value
                 /\ lastDetection' = [lastDetection EXCEPT !.at = ReusedAt(clock)]
            ELSE /\ detected' = seen
                 /\ lastDetection' = [lastDetection EXCEPT !.value = Nothing]
    /\ hpc' = "add"
    /\ UNCHANGED <<udpVars, proc, driverVars, lastCommand, sent>>

HandlerAdd ==
    /\ hpc = "add"
    /\ AddLatestDetection(detected)
    /\ hpc' = "get"
    /\ UNCHANGED <<udpVars, calls, detected, lastDetection, lastCommand, sent>>

(* The driver's command, or the last one while it is young, or none. *)
Chosen ==
    IF command # NoCommand THEN command
    ELSE IF /\ lastCommand.value # NoCommand
            /\ Now - lastCommand.at < CommandDuration
    THEN lastCommand.value ELSE NoCommand

HandlerGet ==
    /\ hpc = "get"
    /\ lastCommand' = [value |-> Chosen,
                       at |-> IF command # NoCommand THEN Now ELSE lastCommand.at]
    /\ sent' = IF Chosen # NoCommand
               THEN [command |-> Chosen, asked |-> detected.of, rounds |-> rounds]
               ELSE sent
    /\ hpc' = "out" /\ detected' = Nothing
    /\ UDPHandled
    /\ UNCHANGED <<proc, driverVars, calls, lastDetection>>

(* cv::imdecode throws, before anything else is done with the datagram. *)
HandlerThrows ==
    /\ hpc = "out"
    /\ UDPThrown
    /\ UNCHANGED <<proc, driverVars, handlerVars>>

Handler == HandlerDetect \/ HandlerAdd \/ HandlerGet \/ HandlerThrows

Thread == UDPLoop /\ UNCHANGED <<proc, driverVars, handlerVars>>

Datagram ==
    /\ Len(calls) < MaxCalls
    /\ UDPDatagram
    /\ UNCHANGED <<proc, driverVars, handlerVars>>

ReceiveFails ==
    /\ UDPFails
    /\ UNCHANGED <<proc, driverVars, handlerVars>>

-----------------------------------------------------------------------------
(* The main thread. *)

Goes(from, to) == main = from /\ main' = to

RunDriver == Goes("start", "run") /\ DriverRun /\ UNCHANGED udpVars
StartUDP == Goes("run", "running") /\ UDPStart /\ UNCHANGED <<proc, driverVars>>

KeyPressed == Goes("running", "stop") /\ UNCHANGED <<udpVars, proc, driverVars>>

(* TCP.stop has returned; AutonomousDriver.stop. *)
StopDriver ==
    /\ \/ Goes("stop", "joinDriver") /\ DriverStopFlag
       \/ Goes("joinDriver", "detector") /\ DriverJoined /\ UNCHANGED <<proc, driverVars>>
    /\ UNCHANGED udpVars

(* ObjectDetector.stop has returned; UDP.stop; the relay is joined. *)
StopUDP ==
    /\ \/ Goes("detector", "closeUDP") /\ UDPStopFlag
       \/ Goes("closeUDP", "joinUDP") /\ UDPStopClose
       \/ Goes("joinUDP", "returned") /\ UDPJoined /\ UNCHANGED udpVars
    /\ UNCHANGED <<proc, driverVars>>

Cleanup ==
    /\ StopDriver \/ StopUDP
    /\ UNCHANGED <<clock, handlerVars>>

Startup ==
    /\ RunDriver \/ StartUDP \/ KeyPressed
    /\ UNCHANGED <<clock, handlerVars>>

DriverSteps == Driver /\ UNCHANGED <<udpVars, clock, main, handlerVars>>
UDPSteps == (Handler \/ Thread) /\ UNCHANGED <<clock, main>>
Arrival == (Datagram \/ ReceiveFails) /\ UNCHANGED <<clock, main>>

Next ==
    /\ proc = "up"
    /\ DriverSteps \/ UDPSteps \/ Arrival \/ Startup \/ Cleanup \/ Tick

Spec == Init /\ [][Next]_vars

(* The threads run; nothing is assumed of camera, user, clock  *)
(* and network.                                                 *)
FairSpec ==
    /\ Spec
    /\ WF_vars(proc = "up" /\ DriverSteps)
    /\ WF_vars(proc = "up" /\ UDPSteps)
    /\ WF_vars(proc = "up" /\ Cleanup)

-----------------------------------------------------------------------------
Numbers == 0 .. Len(calls)

(* Types of the variables. *)
TypeOK ==
    /\ UDPTypeOK /\ DriverTypeOK
    /\ clock \in Nat
    /\ main \in {"start", "run", "running", "stop", "joinDriver",
                 "detector", "closeUDP", "joinUDP", "returned"}
    /\ hpc \in {"out", "add", "get"} /\ (hpc # "out" => upc = "handle")
    /\ calls \in Seq([some : BOOLEAN, at : 0 .. clock])
    /\ detected \in [of : Numbers, some : BOOLEAN]
    /\ (hpc # "out" => detected.of # 0)
    /\ lastDetection \in [value : [of : Numbers, some : BOOLEAN], at : 0 .. clock]
    /\ lastCommand \in [value : Numbers \union {NoCommand}, at : 0 .. clock]
    /\ sent \in [command : Numbers, asked : Numbers, rounds : 0 .. 2]

(* The queued command may lag behind the detection the handler has just     *)
(* left, but by less than two rounds of the driver, although the handler    *)
(* does not wait for it and the driver reads without the mutex (lines 78-79 *)
(* of automated_driving.cpp, 330-340 of autonomous_driving.cpp).            *)
SteersByLatest ==
    /\ sent.command <= sent.asked
    /\ sent.rounds = 2 => sent.command = sent.asked

(* A detection that stands in for a missing one was returned by the detector *)
(* less than DetectionDuration ago, however often it was used since (lines   *)
(* 67-76).  The frame it was made in may be older by MAX_DETECTION_AGE; the  *)
(* duration in the code is 0, so that there nothing is used a second time.   *)
ReuseIsYoung ==
    hpc # "out" /\ detected.some /\ detected.of # Len(calls) =>
        Now - calls[detected.of].at < DetectionDuration

(* Call n found nothing, after something had been seen before, and for at *)
(* least DetectionDuration.                                                *)
LossAt(n) ==
    /\ ~calls[n].some
    /\ \E i \in 1 .. n - 1 : calls[i].some
    /\ \A i \in 1 .. n - 1 :
         calls[i].some => calls[n].at - calls[i].at >= DetectionDuration

(* The race between has_value and value (lines 331-332) ends the process  *)
(* only when the bottle has been lost for DetectionDuration: gaps shorter *)
(* than that never reach the driver.                                      *)
OnlyLossTerminates ==
    proc = "terminated" => \E n \in DOMAIN calls : LossAt(n)

(* The driver gets to the detection it was left with, or to a newer one,  *)
(* as long as it runs: a lost bottle makes it say stop (lines 330-340).   *)
DriverFollows ==
    \A n \in 1 .. MaxCalls :
        latest.of = n ~> (command >= n \/ ~driving \/ proc # "up")

(* The program comes to its end, although the handler goes on calling a *)
(* driver and a detector that are stopped already (lines 113-120).      *)
ProgramEnds == main = "stop" ~> (main = "returned" \/ proc # "up")
=============================================================================
