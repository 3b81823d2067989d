----------------------------- MODULE VideoViewer -----------------------------
(***************************************************************************)
(* The video viewer: it holds the newest picture, shows it, and drops it   *)
(* when it has grown too old.  Each operation runs under _queue_mutex and  *)
(* is one step.  Pictures are numbered by arrival from 1; 0 is the dummy   *)
(* frame "Waiting for video feed...".  A component of CameraFeed.          *)
(***************************************************************************)
EXTENDS Integers, Sequences

CONSTANT Expiry  \* the three seconds after which a picture is dropped, in ticks

ASSUME ViewerAssumption == Expiry \in Nat \ {0}

VARIABLES
    clock,          \* steady_clock
    frameQueue,     \* _frame_queue
    lastFrameTime,  \* _last_frame_time
    newest,         \* history: the picture that was added last, and when
    shown           \* history: what was displayed last, when, and newest then

viewerVars == <<frameQueue, lastFrameTime, newest, shown>>

Dummy == 0

ViewerInit ==
    /\ clock = 0
    /\ frameQueue = <<>> /\ lastFrameTime = 0
    /\ newest = [frame |-> Dummy, at |-> 0]
    /\ shown = [frame |-> Dummy, at |-> 0, newest |-> newest]

KeepOld == frameQueue                                               \* fault
Room == IF frameQueue = <<>> THEN frameQueue ELSE Tail(frameQueue)

OldTime == lastFrameTime                                            \* fault
FrameTime == clock

(* addFrame, for a frame that is not empty; an empty one changes nothing. *)
AddFrame(f) ==
    /\ frameQueue' = Append(Room, f)
    /\ lastFrameTime' = FrameTime
    /\ newest' = [frame |-> f, at |-> clock]
    /\ UNCHANGED shown

TooOld == clock - lastFrameTime >= Expiry

FreshFront == IF frameQueue = <<>> \/ TooOld THEN Dummy ELSE Head(frameQueue)  \* fault
Front == IF frameQueue = <<>> THEN Dummy ELSE Head(frameQueue)

(* display: the picture is shown once more when it is dropped. *)
Display ==
    /\ shown' = [frame |-> Front, at |-> clock, newest |-> newest]
    /\ frameQueue' = IF frameQueue # <<>> /\ TooOld THEN Tail(frameQueue)
                                                    ELSE frameQueue
    /\ UNCHANGED <<lastFrameTime, newest>>
=============================================================================
