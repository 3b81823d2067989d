-------------------------- MODULE AutonomousDriving --------------------------
(***************************************************************************)
(* The autonomous driver: a thread turns the latest detection into the     *)
(* latest command, over and over again.  It tests and reads the optional   *)
(* detection without the mutex that addLatestDetection takes.  A component *)
(* of AutomatedDriving.                                                    *)
(*                                                                         *)
(* A detection is the number of the handler's call it was left by, and     *)
(* whether there is one at all; a command is the number of the detection   *)
(* it was computed from, a stop if that was none.                          *)
(***************************************************************************)
EXTENDS Integers

Detections == [of : Nat, some : BOOLEAN]

VARIABLES
    proc,     \* "up", "undefined" after a data race, "terminated" by an exception
    driving,  \* _running
    dpc,      \* where the driver's thread is
    latest,   \* _latest_detection
    hand,     \* the detection the thread is working on
    command,  \* _latest_command
    rounds    \* history: commands set since the detection was left, up to 2

driverVars == <<driving, dpc, latest, hand, command, rounds>>
threadVars == <<dpc, hand, command, rounds>>

Nothing == [of |-> 0, some |-> FALSE]
NoCommand == -1

DriverInit ==
    /\ proc = "up" /\ driving = FALSE /\ dpc = "off"
    /\ latest = Nothing /\ hand = Nothing /\ command = NoCommand /\ rounds = 0

DriverTypeOK ==
    /\ proc \in {"up", "undefined", "terminated"}
    /\ driving \in BOOLEAN
    /\ dpc \in {"off", "check", "test", "value", "interpret", "set", "ended"}
    /\ latest \in Detections /\ hand \in Detections
    /\ command \in Nat \union {NoCommand}
    /\ rounds \in 0 .. 2

DriverRun ==
    /\ dpc = "off"
    /\ driving' = TRUE /\ dpc' = "check"
    /\ UNCHANGED <<proc, latest, hand, command, rounds>>

-----------------------------------------------------------------------------
(* The driver's thread. *)

AlwaysOn == TRUE                                                    \* fault
On == driving

DriverCheck ==
    /\ dpc = "check"
    /\ dpc' = IF On THEN "test" ELSE "ended"
    /\ UNCHANGED <<proc, hand, command, rounds>>

NoElse == dpc' = "check"                                            \* fault
ElseStop == dpc' = "set"

(* has_value() *)
DriverTest ==
    /\ dpc = "test"
    /\ \/ /\ ~latest.some
          /\ hand' = latest /\ ElseStop
       \/ /\ latest.some
          /\ dpc' = "value" /\ UNCHANGED hand
    /\ UNCHANGED <<proc, command, rounds>>

OldValue == hand                                                    \* fault
Value == latest

(* value() throws if the handler has emptied the optional since the test, *)
(* and nothing in the thread catches that.                                *)
DriverValue ==
    /\ dpc = "value"
    /\ IF ~latest.some
       THEN proc' = "terminated" /\ UNCHANGED <<dpc, hand>>
       ELSE hand' = Value /\ dpc' = "interpret" /\ UNCHANGED proc
    /\ UNCHANGED <<command, rounds>>

(* interpretLatestDetection, which works on a reference. *)
DriverInterpret ==
    /\ dpc = "interpret"
    /\ dpc' = "set"
    /\ UNCHANGED <<proc, hand, command, rounds>>

(* setLatestCommand *)
DriverSet ==
    /\ dpc = "set"
    /\ command' = hand.of /\ hand' = Nothing
    /\ rounds' = IF rounds = 2 THEN 2 ELSE rounds + 1
    /\ dpc' = "check"
    /\ UNCHANGED proc

Driver ==
    /\ DriverCheck \/ DriverTest \/ DriverValue \/ DriverInterpret \/ DriverSet
    /\ UNCHANGED <<driving, latest>>

-----------------------------------------------------------------------------
(* The operations. *)

(* An assignment under the reference that is being interpreted. *)
Raced == IF dpc = "interpret" THEN {"up", "undefined"} ELSE {"up"}

AddLatestDetection(d) ==
    /\ latest' = d /\ rounds' = 0
    /\ proc' \in Raced
    /\ UNCHANGED <<driving, dpc, hand, command>>

DriverStopFlag == driving' = FALSE /\ UNCHANGED <<proc, latest, threadVars>>

DriverJoined == dpc = "ended"
=============================================================================
