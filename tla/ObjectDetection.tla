--------------------------- MODULE ObjectDetection ---------------------------
(***************************************************************************)
(* The object detector: a handler thread leaves the newest camera frame    *)
(* and asks for the latest detection; the detector thread sleeps on a      *)
(* condition variable, looks at the newest frame with the mutex held, and  *)
(* stores what it found.  getLatestDetection takes no lock.                *)
(*                                                                         *)
(* Frames are numbered; a detection is the number of the frame it was made *)
(* in, 0 for the default-constructed one.  Time is counted in ticks.       *)
(***************************************************************************)
EXTENDS Integers, Sequences

CONSTANTS
    MaxAge,     \* MAX_DETECTION_AGE in ticks
    MaxFrames,  \* bound: frames from the camera
    MaxTime     \* bound: ticks of the clock

ASSUME DetectionAssumption ==
    MaxAge \in Nat \ {0} /\ MaxFrames \in Nat /\ MaxTime \in Nat

(* A frame that could not be decoded, one without objects, one with some. *)
Kinds == {"empty", "blank", "object"}

VARIABLES
    proc,        \* "up", or "undefined" after a detection was copied half written
    clock,       \* steady_clock
    main,        \* where the main thread is in run and stop
    running,     \* running
    dpc,         \* where the detector thread is
    frame,       \* _latest_frame
    newFrame,    \* _new_frame_available
    lastTime,    \* _last_detection_time
    detection,   \* _latest_detection
    kinds,       \* the frames the handler has been given so far
    hpc,         \* where the handler is
    asked,       \* the time the handler has read in getLatestDetection
    vouched,     \* history: the detection whose time that answer rests on
    got,         \* history: what getLatestDetection has returned last
    seen,        \* the frame the detector has taken last
    detectedAt   \* history: the time that was stored for _latest_detection

threadVars  == <<main, running, dpc>>
frameVars   == <<frame, newFrame, seen>>
resultVars  == <<lastTime, detection, detectedAt>>
handlerVars == <<kinds, hpc, asked, vouched, got>>
vars == <<proc, clock, threadVars, frameVars, resultVars, handlerVars>>

Nothing == [frame |-> 0, age |-> 0, vouched |-> 0, at |-> "off", whole |-> FALSE]

(* The clock has run for MaxAge at least before the program starts. *)
Init ==
    /\ proc = "up" /\ clock = MaxAge
    /\ main = "init" /\ running = FALSE /\ dpc = "off"
    /\ frame = 0 /\ newFrame = FALSE /\ seen = 0
    /\ lastTime = 0 /\ detection = 0 /\ detectedAt = 0
    /\ kinds = <<>> /\ hpc = "idle"
    /\ asked = 0 /\ vouched = 0 /\ got = Nothing

Tick ==
    /\ clock < MaxTime
    /\ clock' = clock + 1
    /\ UNCHANGED <<proc, threadVars, frameVars, resultVars, handlerVars>>

-----------------------------------------------------------------------------
(* The mutex is the detector's while it tests the predicate of wait and while *)
(* it works on a frame.                                                       *)
AlwaysFree == TRUE                                                  \* fault
MutexFree == dpc \notin {"park", "detect", "stamp", "store", "assign"}

NotifyNobody == dpc' = dpc                                          \* fault
Notify == dpc' = IF dpc = "asleep" THEN "lock" ELSE dpc

-----------------------------------------------------------------------------
(* The handler thread: addLatestFrame and getLatestDetection. *)

HandlerFrame ==
    /\ main # "init" /\ hpc = "idle" /\ Len(kinds) < MaxFrames
    /\ \E k \in Kinds : kinds' = Append(kinds, k)
    /\ hpc' = IF running THEN "add" ELSE "age"
    /\ UNCHANGED <<proc, dpc, frameVars, asked, vouched, got>>

NextNumber == Len(kinds) + 1                                        \* fault
Newest == Len(kinds)

HandlerAdd ==
    /\ hpc = "add" /\ MutexFree
    /\ frame' = Newest /\ newFrame' = TRUE
    /\ Notify
    /\ hpc' = "age"
    /\ UNCHANGED <<proc, seen, kinds, asked, vouched, got>>

NeverExpired == FALSE                                               \* fault
Expired == clock - lastTime >= MaxAge

(* Between the two assignments the time is that of the detection to come. *)
Stamped == IF dpc \in {"store", "assign"} THEN seen ELSE detection

HandlerAge ==
    /\ hpc = "age"
    /\ asked' = clock /\ vouched' = Stamped
    /\ \/ Expired /\ hpc' = "idle" /\ got' = Nothing
       \/ ~Expired /\ hpc' = "copy" /\ UNCHANGED got
    /\ UNCHANGED <<proc, dpc, frameVars, kinds>>

(* A copy that meets the assignment may be torn.  Before it begins the copy *)
(* is whole: the detection that is about to be replaced, with the new time. *)
HandlerCopy ==
    /\ hpc = "copy"
    /\ got' = [frame |-> detection, age |-> asked - detectedAt, vouched |-> vouched,
               at |-> dpc, whole |-> dpc # "assign"]
    /\ proc' \in IF dpc = "assign" THEN {"up", "undefined"} ELSE {"up"}
    /\ hpc' = "idle"
    /\ UNCHANGED <<dpc, frameVars, kinds, asked, vouched>>

-----------------------------------------------------------------------------
(* The detector thread. *)

DetectorCheck ==
    /\ dpc = "check"
    /\ dpc' = IF running THEN "lock" ELSE "ended"
    /\ UNCHANGED <<frameVars, resultVars>>

(* Takes the mutex and evaluates the predicate of wait. *)
DetectorLock ==
    /\ dpc = "lock"
    /\ \/ running /\ ~newFrame /\ dpc' = "park" /\ UNCHANGED frameVars
       \/ ~running /\ dpc' = "ended" /\ UNCHANGED frameVars
       \/ /\ running /\ newFrame /\ kinds[frame] = "empty"
          /\ newFrame' = FALSE /\ seen' = frame /\ dpc' = "check"
          /\ UNCHANGED frame
       \/ /\ running /\ newFrame /\ kinds[frame] # "empty"
          /\ seen' = frame /\ dpc' = "detect"
          /\ UNCHANGED <<frame, newFrame>>
    /\ UNCHANGED resultVars

KeepMutex == dpc' = "park"                                          \* fault
GiveMutex == dpc' = "asleep"

DetectorSleep ==
    /\ dpc = "park"
    /\ GiveMutex
    /\ UNCHANGED <<frameVars, resultVars>>

DetectorSpuriousWakeup ==
    /\ dpc = "asleep"
    /\ dpc' = "lock"
    /\ UNCHANGED <<frameVars, resultVars>>

(* detectObjects, then the flag. *)
DetectorDetect ==
    /\ dpc = "detect"
    /\ newFrame' = FALSE
    /\ dpc' = IF kinds[seen] = "object" THEN "stamp" ELSE "check"
    /\ UNCHANGED <<frame, seen, resultVars>>

(* The time is written before the detection it belongs to. *)
DetectorStamp ==
    /\ dpc = "stamp"
    /\ lastTime' = clock /\ dpc' = "store"
    /\ UNCHANGED <<frameVars, detection, detectedAt>>

(* The assignment of the detection takes from here to the next step. *)
DetectorAssign ==
    /\ dpc = "store"
    /\ dpc' = "assign"
    /\ UNCHANGED <<frameVars, resultVars>>

DetectorStore ==
    /\ dpc = "assign"
    /\ detection' = seen /\ detectedAt' = lastTime /\ dpc' = "check"
    /\ UNCHANGED <<frameVars, lastTime>>

-----------------------------------------------------------------------------
(* The main thread: run() and stop(). *)

Run ==
    /\ main = "init"
    /\ main' = "running" /\ running' = TRUE /\ dpc' = "check"

(* The flag is written without the mutex. *)
StopFlag ==
    /\ main = "running"
    /\ main' = "notify" /\ running' = FALSE
    /\ UNCHANGED dpc

StopNotify ==
    /\ main = "notify"
    /\ Notify
    /\ main' = "join"
    /\ UNCHANGED running

StopJoined ==
    /\ main = "join" /\ dpc = "ended"
    /\ main' = "stopped"
    /\ UNCHANGED <<running, dpc>>

-----------------------------------------------------------------------------
notMain     == <<proc, clock, frameVars, resultVars, handlerVars>>
notHandler  == <<clock, main, running, resultVars>>
notDetector == <<proc, clock, main, running, handlerVars>>

Stopping == (StopNotify \/ StopJoined) /\ UNCHANGED notMain
Handler  == (HandlerAdd \/ HandlerAge \/ HandlerCopy) /\ UNCHANGED notHandler
Detector == /\ \/ DetectorCheck \/ DetectorLock \/ DetectorSleep
               \/ DetectorDetect \/ DetectorStamp \/ DetectorAssign \/ DetectorStore
            /\ UNCHANGED notDetector

(* Steps that nothing obliges anyone to take. *)
Optional == \/ (Run \/ StopFlag) /\ UNCHANGED notMain
            \/ HandlerFrame /\ UNCHANGED notHandler
            \/ DetectorSpuriousWakeup /\ UNCHANGED notDetector
            \/ Tick

Next == proc = "up" /\ (Stopping \/ Handler \/ Detector \/ Optional)

Spec == Init /\ [][Next]_vars

(* Every thread that can run does run, and the handler gets the mutex if it *)
(* is free again and again.                                                *)
FairSpec ==
    /\ Spec
    /\ WF_vars(proc = "up" /\ Stopping)
    /\ WF_vars(proc = "up" /\ Handler)
    /\ SF_vars(proc = "up" /\ Handler /\ HandlerAdd)
    /\ WF_vars(proc = "up" /\ Detector)

-----------------------------------------------------------------------------
Places == {"off", "check", "lock", "park", "asleep", "detect", "stamp", "store",
           "assign", "ended"}

(* Types of the variables. *)
TypeOK ==
    /\ proc \in {"up", "undefined"} /\ clock \in Nat
    /\ main \in {"init", "running", "notify", "join", "stopped"}
    /\ running \in BOOLEAN
    /\ dpc \in Places
    /\ kinds \in Seq(Kinds)
    /\ frame \in 0 .. Len(kinds) /\ newFrame \in BOOLEAN
    /\ newFrame => frame # 0
    /\ seen \in 0 .. frame
    /\ lastTime \in Nat /\ detectedAt \in Nat /\ detection \in 0 .. seen
    /\ hpc \in {"idle", "add", "age", "copy"} /\ asked \in Nat /\ vouched \in 0 .. seen
    /\ got \in [frame : 0 .. Len(kinds), age : Int, vouched : 0 .. Len(kinds),
               at : Places, whole : BOOLEAN]

(* Whenever a whole detection is returned, an object was found that was not  *)
(* out of date: the one the stored time belongs to.  The detection returned  *)
(* is that one or a later one, and then as good, although neither time nor   *)
(* detection is read under the mutex; or it is an older one, of any age or   *)
(* none at all, and then the copy was made between the two assignments of    *)
(* the detector (lines 164-169, 197-200).                                    *)
SoundDetection ==
    got.whole =>
        /\ got.vouched # 0 /\ kinds[got.vouched] = "object"
        /\ got.frame >= got.vouched =>
              kinds[got.frame] = "object" /\ got.age < MaxAge
        /\ got.frame < got.vouched => got.at = "store"

(* The detector gets to see the newest frame, or a newer one, unless it is *)
(* stopped: clearing the flag after the detection loses no frame, because  *)
(* the mutex is held in between (lines 152-157, 182-195).                  *)
NewestFrameSeen ==
    \A n \in 1 .. MaxFrames :
        frame = n ~> (seen >= n \/ ~running \/ proc # "up")

(* The handler, which waits for the mutex during a whole detection, gets *)
(* through in the end.                                                   *)
HandlerReturns == hpc # "idle" ~> (hpc = "idle" \/ proc # "up")

(* stop() returns, unless the flag and the notification fall between the *)
(* predicate of wait and the sleep (lines 183-185, 211-215).             *)
StopReturnsIfNoticed ==
    (main = "notify" /\ dpc # "park") ~> (main = "stopped" \/ proc # "up")
=============================================================================
