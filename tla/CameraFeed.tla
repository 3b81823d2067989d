------------------------------ MODULE CameraFeed ------------------------------
(***************************************************************************)
(* The camera's path in manual_control_with_camera.cpp: UDP server,        *)
(* handler, viewer, and the main thread that displays and, in the end,     *)
(* stops the server.  The network may lose, repeat and reorder datagrams:  *)
(* pictures are numbered as they arrive.                                   *)
(***************************************************************************)
EXTENDS UDPServer, VideoViewer

CONSTANTS
    MaxDatagrams,  \* bound: datagrams that arrive
    MaxTime        \* bound: ticks of the clock

ASSUME FeedAssumption == MaxDatagrams \in Nat /\ MaxTime \in Nat

(* A datagram with a picture; one whose image does not decode; one on which *)
(* cv::imdecode throws: without image data, or of a size that it refuses.   *)
Kinds == {"picture", "broken", "throwing"}

VARIABLES
    main,     \* where the main thread is
    arrived,  \* the kinds of the datagrams so far
    handled   \* history: the datagram that was handled last

vars == <<udpVars, clock, viewerVars, main, arrived, handled>>

Init ==
    /\ UDPInit /\ ViewerInit
    /\ main = "start" /\ arrived = <<>> /\ handled = 0

-----------------------------------------------------------------------------
Tick ==
    /\ clock < MaxTime
    /\ clock' = clock + 1
    /\ UNCHANGED <<udpVars, viewerVars, main, arrived, handled>>

Datagram ==
    /\ Len(arrived) < MaxDatagrams
    /\ \E k \in Kinds : arrived' = Append(arrived, k)
    /\ UDPDatagram
    /\ UNCHANGED <<clock, viewerVars, main, handled>>

ReceiveFails ==
    /\ UDPFails
    /\ UNCHANGED <<clock, viewerVars, main, arrived, handled>>

Thread ==
    /\ UDPLoop
    /\ UNCHANGED <<clock, viewerVars, main, arrived, handled>>

NextNumber == Len(arrived) + 1                                      \* fault
Number == Len(arrived)

Decoded(k) == k = "picture"

(* handler_proto *)
Handler ==
    /\ upc = "handle"
    /\ LET kind == arrived[Len(arrived)] IN
       IF Decoded(kind)
       THEN AddFrame(Number) /\ UDPHandled
       ELSE /\ UNCHANGED viewerVars
            /\ IF kind = "broken" THEN UDPHandled ELSE UDPThrown
    /\ handled' = Len(arrived)
    /\ UNCHANGED <<clock, main, arrived>>

-----------------------------------------------------------------------------
(* The main thread. *)

Start ==
    /\ main = "start"
    /\ UDPStart
    /\ main' = "display"
    /\ UNCHANGED <<clock, viewerVars, arrived, handled>>

Show ==
    /\ main = "display"
    /\ Display
    /\ UNCHANGED <<udpVars, clock, main, arrived, handled>>

(* A key is pressed; then the parts of UDPServer::stop. *)
KeyPressed ==
    /\ main = "display"
    /\ main' = "stop"
    /\ UNCHANGED <<udpVars, clock, viewerVars, arrived, handled>>

StopFlag ==
    /\ main = "stop"
    /\ UDPStopFlag
    /\ main' = "close"
    /\ UNCHANGED <<clock, viewerVars, arrived, handled>>

StopClose ==
    /\ main = "close"
    /\ UDPStopClose
    /\ main' = "join"
    /\ UNCHANGED <<clock, viewerVars, arrived, handled>>

StopJoin ==
    /\ main = "join" /\ UDPJoined
    /\ main' = "returned"
    /\ UNCHANGED <<udpVars, clock, viewerVars, arrived, handled>>

Cleanup == StopFlag \/ StopClose \/ StopJoin

Next == \/ Tick \/ Datagram \/ ReceiveFails \/ Thread \/ Handler
        \/ Start \/ Show \/ KeyPressed \/ Cleanup

Spec == Init /\ [][Next]_vars

(* The threads run; nothing is assumed of camera, user, clock  *)
(* and network.                                                 *)
FairSpec ==
    /\ Spec
    /\ WF_vars(Thread) /\ WF_vars(Handler)
    /\ WF_vars(Show) /\ WF_vars(Cleanup)

-----------------------------------------------------------------------------
Frames == 0 .. Len(arrived)

(* Types of the variables. *)
TypeOK ==
    /\ UDPTypeOK
    /\ clock \in Nat /\ lastFrameTime \in 0 .. clock
    /\ frameQueue \in Seq(Frames \ {Dummy})
    /\ newest \in [frame : Frames, at : 0 .. clock]
    /\ shown \in [frame : Frames, at : 0 .. clock,
                  newest : [frame : Frames, at : 0 .. clock]]
    /\ main \in {"start", "display", "stop", "close", "join", "returned"}
    /\ arrived \in Seq(Kinds) /\ handled \in Frames

(* What the user sees is the newest picture, never an older one and never a *)
(* frame that did not decode (lines 31-40, 58-72 of video_viewer.cpp).      *)
ShowsTheNewest ==
    shown.frame # Dummy =>
        /\ shown.frame = shown.newest.frame
        /\ arrived[shown.frame] = "picture"

(* The user is told to wait for the feed only when there was no picture yet *)
(* or the last one is three seconds old (line 64): a picture that is added  *)
(* while the display is about to drop the one before it is not dropped.     *)
WaitsOnlyWhenStale ==
    shown.frame = Dummy /\ shown.newest.frame # Dummy =>
        shown.at - shown.newest.at >= Expiry

(* The first exception ends the feed, for good and with running still TRUE,  *)
(* and nothing else does while the program is not being stopped: a broken    *)
(* image is survived, nothing is handled after a datagram that made the      *)
(* handler throw, and every datagram that was received before the end was    *)
(* handled (lines 29-39, 53 of udp_server_lib.cpp).                          *)
FirstFailureEndsFeed ==
    /\ \A i \in 1 .. Len(arrived) - 1 : arrived[i] # "throwing"
    /\ upc = "ended" /\ udpRunning =>
          /\ handled = Len(arrived)
          /\ receiveFailed \/ (handled # 0 /\ arrived[handled] = "throwing")

(* Every picture is displayed, or a newer one, or the user ends the       *)
(* program: even one that expires before the display gets to it is shown. *)
PicturesAreShown ==
    \A n \in 1 .. MaxDatagrams :
        frameQueue = <<n>> ~> (shown.frame >= n \/ main # "display")
=============================================================================
