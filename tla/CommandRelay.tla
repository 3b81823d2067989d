---------------------------- MODULE CommandRelay ----------------------------
(***************************************************************************)
(* The command path of the applications: handlers translate an operator's  *)
(* message and put the command into the SafeQueue; the internal            *)
(* communication thread takes it out, drops ordinary commands that follow  *)
(* too fast, and broadcasts the others to the rovers.                      *)
(*                                                                         *)
(* Manual control exempts stop and reset_camera from the rate limit,       *)
(* automated driving only stop.  Time is counted in ticks.                 *)
(***************************************************************************)
EXTENDS Integers, Sequences, SequencesExt

CONSTANTS
    Inputs,       \* the operator's messages that are tried
    Exempt,       \* commands that the rate limit lets pass
    Interval,     \* the rate limit, in ticks
    MaxCommands,  \* bound: commands put into the queue
    MaxTime       \* bound: ticks of the clock

(* What GUI::message_handler makes of each kind of message: the value of the *)
(* "command" field.  A centred joystick asks for a stop.                     *)
CommandOf == [stop |-> "stop", button |-> "move", steer |-> "move",
              centre |-> "stop", look |-> "", lookAhead |-> "reset_camera",
              mode |-> ""]

Commands == {"stop", "move", "reset_camera", ""}

ASSUME RelayAssumption ==
    /\ Inputs \subseteq DOMAIN CommandOf
    /\ Exempt \subseteq Commands
    /\ Interval \in Nat /\ MaxCommands \in Nat /\ MaxTime \in Nat

VARIABLES
    main,    \* the main thread: "running", "stopping" (stop_comm_thread), "returned"
    clock,   \* steady_clock
    orders,  \* history: every command put into the queue
    queue,   \* command_queue: positions in orders
    pc,      \* where the communication thread is
    now,     \* the time it has read
    last,    \* last_msg_time
    hand,    \* cmd: the command it has taken out, 0 when there is none
    log      \* history: the broadcasts, each with its command and its time

vars == <<main, clock, orders, queue, pc, now, last, hand, log>>

Init ==
    /\ main = "running" /\ clock = 0
    /\ orders = <<>> /\ queue = <<>>
    /\ pc = "check" /\ now = 0 /\ last = 0 /\ hand = 0 /\ log = <<>>

-----------------------------------------------------------------------------
(* A handler thread translates a message and puts the command at the end. *)

AtFront == queue' = <<Len(orders) + 1>> \o queue                    \* fault
AtEnd == queue' = Append(queue, Len(orders) + 1)

Enqueue ==
    /\ main # "returned" /\ Len(orders) < MaxCommands
    /\ \E m \in Inputs : orders' = Append(orders, CommandOf[m])
    /\ AtEnd
    /\ UNCHANGED <<main, clock, pc, now, last, hand, log>>

Tick ==
    /\ clock < MaxTime
    /\ clock' = clock + 1
    /\ UNCHANGED <<main, orders, queue, pc, now, last, hand, log>>

-----------------------------------------------------------------------------
(* The internal communication thread. *)

FlagMissed == FALSE                                                 \* fault
FlagSeen == main # "running"

KeepHand == hand' = hand                                            \* fault
EmptyHand == hand' = 0

CommCheck ==
    /\ pc = "check"
    /\ pc' = IF FlagSeen THEN "ended" ELSE "time"
    /\ UNCHANGED <<queue, now, last, hand, log>>

(* The time is read before the queue is looked at. *)
CommTime ==
    /\ pc = "time"
    /\ now' = clock /\ pc' = "dequeue"
    /\ UNCHANGED <<queue, last, hand, log>>

CommDequeue ==
    /\ pc = "dequeue"
    /\ \/ /\ queue = <<>>
          /\ pc' = "check" /\ UNCHANGED <<queue, hand>>
       \/ /\ queue # <<>>
          /\ hand' = Head(queue) /\ queue' = Tail(queue)
          /\ pc' = "decide"
    /\ UNCHANGED <<now, last, log>>

NothingExempt == FALSE                                              \* fault
IsExempt == orders[hand] \in Exempt

NeverTooSoon == TRUE                                                \* fault
LateEnough == now - last > Interval

CommPass ==
    /\ pc = "decide"
    /\ \/ IsExempt /\ last' = last
       \/ ~IsExempt /\ LateEnough /\ last' = now
    /\ pc' = "write"
    /\ UNCHANGED <<queue, now, hand, log>>

CommDrop ==
    /\ pc = "decide" /\ ~IsExempt /\ ~LateEnough
    /\ EmptyHand /\ pc' = "check"
    /\ UNCHANGED <<queue, now, last, log>>

(* writeToAllClients *)
CommWrite ==
    /\ pc = "write"
    /\ log' = Append(log, [order |-> hand, at |-> clock])
    /\ EmptyHand /\ pc' = "check"
    /\ UNCHANGED <<queue, now, last>>

-----------------------------------------------------------------------------
(* The main thread at the end: the flag, and the join. *)

MainStops ==
    /\ main = "running"
    /\ main' = "stopping"
    /\ UNCHANGED <<clock, orders, queue, pc, now, last, hand, log>>

MainReturns ==
    /\ main = "stopping" /\ pc = "ended"
    /\ main' = "returned"
    /\ UNCHANGED <<clock, orders, queue, pc, now, last, hand, log>>

Comm ==
    /\ CommCheck \/ CommTime \/ CommDequeue \/ CommPass \/ CommDrop \/ CommWrite
    /\ UNCHANGED <<main, clock, orders>>

Next == Enqueue \/ Tick \/ Comm \/ MainStops \/ MainReturns

Spec == Init /\ [][Next]_vars

(* The scheduler runs the communication thread and the joining main thread. *)
FairSpec == Spec /\ WF_vars(Comm) /\ WF_vars(MainReturns)

-----------------------------------------------------------------------------
Idle == pc \in {"check", "time", "dequeue", "ended"}

(* Types of the variables. *)
TypeOK ==
    /\ main \in {"running", "stopping", "returned"} /\ clock \in Nat
    /\ orders \in Seq(Commands) /\ queue \in Seq(1 .. Len(orders))
    /\ pc \in {"check", "time", "dequeue", "decide", "write", "ended"}
    /\ now \in Nat /\ last \in Nat
    /\ IF Idle THEN hand = 0 ELSE hand \in 1 .. Len(orders)
    /\ log \in Seq([order : 1 .. Len(orders), at : Nat])

(* The orders not yet dealt with, first the one in the thread's hand. *)
Pending == IF hand = 0 THEN queue ELSE <<hand>> \o queue
Sent == [i \in DOMAIN log |-> log[i].order]

(* The command path is a channel that loses ordinary commands only: stop is *)
(* neither lost nor overtaken, however fast the joystick talks (lines 33-50 *)
(* of manual_control_with_camera.cpp, safe_queue.hpp).                      *)
Channel == INSTANCE LossyChannel WITH
    given <- orders, pending <- Pending, received <- Sent,
    open <- main = "running"
ImplementsChannel == Channel!FairSpec

(* When everything was taken out of the queue and the operator's last word *)
(* was a stop, a stop is also the last thing the rover was told.           *)
LastWordIsStop ==
    Idle /\ queue = <<>> /\ orders # <<>> /\ Last(orders) \in Exempt =>
        log # <<>> /\ Last(log).order = Len(orders)

(* The broadcasts that the rate limit applies to. *)
Limited == {i \in DOMAIN log : orders[log[i].order] \notin Exempt}

(* At most two ordinary commands are broadcast in any Interval: two, because *)
(* the time that is compared was read before the command was taken out and   *)
(* sent (lines 36-47).                                                       *)
TwoPerInterval ==
    \A i, j, k \in Limited :
        i < j /\ j < k => log[k].at - log[i].at > Interval

(* Once the flag is set the program comes to its end, with at most the *)
(* command in the thread's hand still to be sent.                      *)
ProgramEnds == main = "stopping" ~> main = "returned"
=============================================================================
