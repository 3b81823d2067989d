------------------------ MODULE ObjectDetectionProofs ------------------------
(* Proofs about ObjectDetection for any age limit and any bounds. *)
EXTENDS ObjectDetection, SequenceLemmas, SequenceTheorems

(* The detector works on the frame it has taken, once it was started. *)
InvDetector ==
    /\ main = "init" => dpc = "off"
    /\ dpc = "detect" => seen # 0 /\ newFrame
    /\ dpc \in {"stamp", "store", "assign"} => seen # 0 /\ kinds[seen] = "object"

(* The stored time belongs to the stored detection, except from the one *)
(* assignment to the end of the other, and time only advances.          *)
InvTime ==
    /\ MaxAge <= clock /\ lastTime <= clock
    /\ dpc \notin {"store", "assign"} => detectedAt = lastTime
    /\ detection = 0 => detectedAt = 0
    /\ detection # 0 => kinds[detection] = "object"

(* A handler that is about to add a frame has one; one that is about to copy *)
(* has found the stored time recent enough.                                  *)
InvHandler ==
    /\ hpc = "add" => Len(kinds) # 0
    /\ hpc = "copy" => MaxAge <= asked /\ asked - lastTime < MaxAge

GotType == [frame : 0 .. Len(kinds), age : Int, vouched : 0 .. Len(kinds),
            at : Places, whole : BOOLEAN]

IInv == TypeOK /\ InvDetector /\ InvTime /\ InvHandler

-----------------------------------------------------------------------------
(* The invariant holds before the detector is started. *)
LEMMA InitInv == Init => IInv
  <1> SUFFICES ASSUME Init PROVE IInv
    OBVIOUS
  <1>1. kinds \in Seq(Kinds) /\ Len(kinds) = 0
    BY DEF Init
  <1>2. got \in GotType
    BY <1>1 DEF Init, Nothing, GotType, Places
  <1>3. frame = 0 /\ seen = 0 /\ detection = 0 /\ newFrame = FALSE
    BY DEF Init
  <1>4. frame \in 0 .. Len(kinds) /\ seen \in 0 .. frame /\ detection \in 0 .. seen
    BY ONLY <1>1, <1>3
  <1>5. TypeOK
    BY <1>1, <1>2, <1>3, <1>4, DetectionAssumption DEF Init, TypeOK, GotType, Places
  <1> QED BY <1>5, DetectionAssumption
          DEF Init, IInv, InvDetector, InvTime, InvHandler

(* A step that only moves the threads, and no one past an assignment to the *)
(* stored detection or the stored time.                                     *)
LEMMA MoveInv ==
    ASSUME IInv,
           UNCHANGED <<proc, frame, newFrame, seen, lastTime, detection,
                       detectedAt, kinds, hpc, asked, vouched, got>>,
           clock' \in {clock, clock + 1},
           main' \in {"init", "running", "notify", "join", "stopped"},
           running' \in BOOLEAN,
           dpc' = dpc \/ dpc' \in {"check", "lock", "asleep", "park", "ended"},
           dpc \in {"store", "assign"} => dpc' = dpc,
           main' = "init" => dpc' = "off"
    PROVE  IInv'
  <1>1. /\ kinds' \in Seq(Kinds) /\ frame' \in 0 .. Len(kinds)'
        /\ got' \in GotType'
    BY DEF IInv, TypeOK, GotType
  <1>2. /\ proc' \in {"up", "undefined"} /\ clock' \in Nat
        /\ newFrame' \in BOOLEAN /\ (newFrame' => frame' # 0)
        /\ lastTime' \in Nat /\ detectedAt' \in Nat
        /\ seen' \in 0 .. frame' /\ detection' \in 0 .. seen'
        /\ hpc' \in {"idle", "add", "age", "copy"} /\ asked' \in Nat
        /\ vouched' \in 0 .. seen'
    BY DEF IInv, TypeOK
  <1>3. dpc' \in Places
    BY DEF IInv, TypeOK, Places
  <1>4. TypeOK'
    BY ONLY <1>1, <1>2, <1>3, running' \in BOOLEAN,
            main' \in {"init", "running", "notify", "join", "stopped"}
       DEF TypeOK, GotType
  <1>5. InvDetector' /\ InvHandler'
    BY DEF IInv, InvDetector, InvHandler
  <1>6. InvTime'
    BY DetectionAssumption DEF IInv, TypeOK, InvTime
  <1> QED BY <1>4, <1>5, <1>6 DEF IInv

(* The steps of run() and stop(). *)
LEMMA MainInv ==
    ASSUME IInv, Run \/ StopFlag \/ StopNotify \/ StopJoined, UNCHANGED notMain
    PROVE  IInv'
  <1>1. UNCHANGED <<proc, clock, frame, newFrame, seen, lastTime, detection,
                    detectedAt, kinds, hpc, asked, vouched, got>>
    BY DEF notMain, frameVars, resultVars, handlerVars
  <1>2. /\ main' \in {"running", "notify", "join", "stopped"}
        /\ running' \in BOOLEAN
        /\ dpc' = dpc \/ dpc' \in {"check", "lock"}
        /\ dpc \in {"store", "assign"} => dpc' = dpc
    BY DEF Run, StopFlag, StopNotify, StopJoined, Notify, IInv, TypeOK, InvDetector
  <1> QED BY <1>1, <1>2, MoveInv

(* A new frame does not change what is known of the older ones. *)
LEMMA FrameInv ==
    ASSUME IInv, HandlerFrame, UNCHANGED notHandler PROVE IInv'
  <1>1. PICK k \in Kinds : kinds' = Append(kinds, k)
    BY DEF HandlerFrame
  <1>2. /\ kinds' \in Seq(Kinds) /\ Len(kinds) \in Nat
        /\ Len(kinds') = Len(kinds) + 1
        /\ \A i \in 1 .. Len(kinds) : kinds'[i] = kinds[i]
    BY <1>1 DEF IInv, TypeOK
  <1>3. /\ hpc' \in {"add", "age"}
        /\ UNCHANGED <<proc, dpc, frameVars, asked, vouched, got, notHandler>>
    BY DEF HandlerFrame
  <1> USE DEF frameVars, resultVars, notHandler, IInv
  <1>4. TypeOK'
    BY <1>2, <1>3 DEF TypeOK
  <1>5. InvDetector' /\ InvTime'
    BY SMTT(30), <1>2, <1>3 DEF TypeOK, InvDetector, InvTime
  <1>6. InvHandler'
    BY <1>2, <1>3 DEF InvHandler
  <1> QED BY <1>4, <1>5, <1>6

-----------------------------------------------------------------------------
(* What the handler asks for and gets. *)
LEMMA HandlerInv == ASSUME IInv, Handler PROVE IInv'
  <1>0. /\ UNCHANGED <<clock, main, running, lastTime, detection, detectedAt>>
        /\ UNCHANGED kinds /\ Len(kinds) \in Nat
    BY DEF Handler, HandlerAdd, HandlerAge, HandlerCopy, notHandler, resultVars,
           IInv, TypeOK
  <1>1. CASE HandlerAdd
    <2>1. /\ frame' = Len(kinds) /\ newFrame' = TRUE /\ hpc' = "age"
          /\ UNCHANGED <<proc, seen, asked, vouched, got>>
          /\ dpc \notin {"park", "detect", "stamp", "store", "assign"}
          /\ dpc' \notin {"park", "detect", "stamp", "store", "assign"}
          /\ dpc' = dpc \/ (dpc = "asleep" /\ dpc' = "lock")
      BY <1>1 DEF HandlerAdd, Newest, MutexFree, Notify
    <2>2. hpc = "add" /\ Len(kinds) # 0
      BY <1>1 DEF HandlerAdd, IInv, InvHandler
    <2>3. /\ frame' \in 0 .. Len(kinds)' /\ seen' \in 0 .. frame' /\ frame' # 0
          /\ got' \in GotType'
      BY <1>0, <2>1, <2>2 DEF IInv, TypeOK, GotType
    <2>4. TypeOK'
      BY <1>0, <2>1, <2>3 DEF IInv, TypeOK, GotType, Places
    <2>5. InvDetector' /\ InvTime'
      BY <1>0, <2>1 DEF IInv, InvDetector, InvTime
    <2>6. InvHandler'
      BY <1>0, <2>1 DEF IInv, InvHandler
    <2> QED BY <2>4, <2>5, <2>6 DEF IInv
  <1>2. CASE HandlerAge
    <2>1. /\ asked' = clock /\ UNCHANGED <<proc, dpc, frame, newFrame, seen>>
          /\ hpc' \in {"idle", "copy"} /\ vouched' \in {seen, detection}
      BY <1>2 DEF HandlerAge, Stamped, frameVars
    <2>2. /\ hpc' = "copy" => clock - lastTime < MaxAge
          /\ got' = got \/ got' = Nothing
      BY <1>2, DetectionAssumption DEF HandlerAge, Expired, IInv, TypeOK
    <2>3. got' \in GotType'
      <3>1. Nothing \in GotType
        BY <1>0 DEF Nothing, GotType, Places
      <3> QED BY <1>0, <2>2, <3>1 DEF IInv, TypeOK, GotType
    <2>4. vouched' \in 0 .. seen'
      BY <2>1 DEF IInv, TypeOK
    <2>5. TypeOK'
      BY <1>0, <2>1, <2>3, <2>4 DEF IInv, TypeOK, GotType
    <2>6. InvDetector' /\ InvTime' /\ InvHandler'
      BY <1>0, <2>1, <2>2 DEF IInv, TypeOK, InvDetector, InvTime, InvHandler
    <2> QED BY <2>5, <2>6 DEF IInv
  <1>3. CASE HandlerCopy
    <2> DEFINE copy == [frame |-> detection, age |-> asked - detectedAt,
                        vouched |-> vouched, at |-> dpc, whole |-> dpc # "assign"]
    <2>1. /\ got' = copy /\ hpc = "copy" /\ hpc' = "idle"
          /\ proc' \in {"up", "undefined"}
          /\ UNCHANGED <<dpc, frame, newFrame, seen, asked, vouched>>
      BY <1>3 DEF HandlerCopy, frameVars
    <2>2. /\ detection \in 0 .. Len(kinds)' /\ asked - detectedAt \in Int
          /\ vouched \in 0 .. Len(kinds)' /\ dpc \in Places
      BY <1>0 DEF IInv, TypeOK
    <2>3. got' \in GotType'
      BY <2>1, <2>2 DEF GotType
    <2>4. TypeOK'
      BY <1>0, <2>1, <2>3 DEF IInv, TypeOK, GotType
    <2>5. InvDetector' /\ InvTime' /\ InvHandler'
      BY <1>0, <2>1 DEF IInv, InvDetector, InvTime, InvHandler
    <2> QED BY <2>4, <2>5 DEF IInv
  <1> QED BY <1>1, <1>2, <1>3 DEF Handler

(* What the detector finds and stores. *)
LEMMA DetectorInv ==
    ASSUME IInv, UNCHANGED notDetector,
           \/ DetectorCheck \/ DetectorLock \/ DetectorSleep
           \/ DetectorSpuriousWakeup \/ DetectorDetect \/ DetectorStamp
           \/ DetectorAssign \/ DetectorStore
    PROVE  IInv'
  <1>0. UNCHANGED <<proc, clock, main, running, kinds, hpc, asked, vouched, got>>
    BY DEF notDetector, handlerVars
  <1>a. main # "init"
    BY DEF IInv, InvDetector, DetectorCheck, DetectorLock, DetectorSleep,
           DetectorSpuriousWakeup, DetectorDetect, DetectorStamp, DetectorAssign,
           DetectorStore
  <1>b. got' \in GotType'
    BY <1>0 DEF IInv, TypeOK, GotType
  <1>1. CASE DetectorCheck \/ DetectorSleep \/ DetectorSpuriousWakeup
    <2>1. UNCHANGED <<frame, newFrame, seen, lastTime, detection, detectedAt>>
      BY <1>1 DEF DetectorCheck, DetectorSleep, DetectorSpuriousWakeup, frameVars,
                  resultVars
    <2>2. dpc \notin {"store", "assign"} /\ dpc' \in {"lock", "ended", "asleep"}
      BY <1>1 DEF DetectorCheck, DetectorSleep, GiveMutex, DetectorSpuriousWakeup
    <2> QED BY <1>0, <1>a, <2>1, <2>2, MoveInv DEF IInv, TypeOK
  <1>2. CASE DetectorLock
    <2>1. UNCHANGED <<frame, lastTime, detection, detectedAt>> /\ dpc = "lock"
      BY <1>2 DEF DetectorLock, frameVars, resultVars
    <2>2. CASE UNCHANGED frameVars /\ dpc' \in {"park", "ended"}
      BY <1>0, <1>a, <2>1, <2>2, MoveInv DEF IInv, TypeOK, frameVars
    <2>3. CASE /\ newFrame /\ seen' = frame
               /\ \/ newFrame' = FALSE /\ dpc' = "check"
                  \/ newFrame' = newFrame /\ dpc' = "detect"
      <3>0. /\ frame' \in 0 .. Len(kinds)' /\ seen' \in 0 .. frame'
            /\ detection' \in 0 .. seen' /\ newFrame' \in BOOLEAN
            /\ vouched' \in 0 .. seen'
        <4>1. /\ Len(kinds) \in Nat /\ frame \in 0 .. Len(kinds)
              /\ seen \in 0 .. frame /\ detection \in 0 .. seen
              /\ vouched \in 0 .. seen
          BY DEF IInv, TypeOK
        <4>2. newFrame' \in BOOLEAN
          BY <2>3 DEF IInv, TypeOK
        <4> QED BY <1>0, <2>1, <2>3, <4>1, <4>2
      <3>1. TypeOK'
        BY <1>0, <1>b, <2>1, <2>3, <3>0 DEF IInv, TypeOK, GotType, Places
      <3>2. InvDetector' /\ InvTime' /\ InvHandler'
        BY <1>0, <1>a, <2>1, <2>3 DEF IInv, TypeOK, InvDetector, InvTime, InvHandler
      <3> QED BY <3>1, <3>2 DEF IInv
    <2> QED BY <1>2, <2>2, <2>3 DEF DetectorLock
  <1>3. CASE DetectorDetect
    <2>1. /\ UNCHANGED <<frame, seen, lastTime, detection, detectedAt>>
          /\ newFrame' = FALSE /\ dpc = "detect" /\ dpc' \in {"stamp", "check"}
          /\ dpc' = "stamp" => kinds[seen] = "object"
      BY <1>3 DEF DetectorDetect, resultVars
    <2>2. TypeOK'
      BY <1>0, <1>b, <2>1 DEF IInv, TypeOK, GotType, Places
    <2>3. InvDetector' /\ InvTime' /\ InvHandler'
      BY <1>0, <1>a, <2>1 DEF IInv, InvDetector, InvTime, InvHandler
    <2> QED BY <2>2, <2>3 DEF IInv
  <1>4. CASE DetectorStamp
    <2>1. /\ UNCHANGED <<frame, newFrame, seen, detection, detectedAt>>
          /\ lastTime' = clock /\ dpc = "stamp" /\ dpc' = "store"
      BY <1>4 DEF DetectorStamp, frameVars
    <2>2. TypeOK'
      BY <1>0, <1>b, <2>1 DEF IInv, TypeOK, GotType, Places
    <2>3. InvDetector' /\ InvTime'
      BY <1>0, <1>a, <2>1 DEF IInv, TypeOK, InvDetector, InvTime
    <2>4. InvHandler'
      <3>1. /\ asked \in Nat /\ lastTime \in Nat /\ clock \in Nat
            /\ MaxAge \in Nat /\ lastTime <= clock
        BY DetectionAssumption DEF IInv, TypeOK, InvTime
      <3> QED BY <1>0, <2>1, <3>1 DEF IInv, InvHandler
    <2> QED BY <2>2, <2>3, <2>4 DEF IInv
  <1>5. CASE DetectorAssign
    <2>1. /\ UNCHANGED <<frame, newFrame, seen, lastTime, detection, detectedAt>>
          /\ dpc = "store" /\ dpc' = "assign"
      BY <1>5 DEF DetectorAssign, frameVars, resultVars
    <2>2. TypeOK'
      BY <1>0, <1>b, <2>1 DEF IInv, TypeOK, GotType, Places
    <2>3. InvDetector' /\ InvTime' /\ InvHandler'
      BY <1>0, <1>a, <2>1 DEF IInv, InvDetector, InvTime, InvHandler
    <2> QED BY <2>2, <2>3 DEF IInv
  <1>6. CASE DetectorStore
    <2>1. /\ UNCHANGED <<frame, newFrame, seen, lastTime>>
          /\ detection' = seen /\ detectedAt' = lastTime
          /\ dpc = "assign" /\ dpc' = "check"
      BY <1>6 DEF DetectorStore, frameVars
    <2>2. TypeOK'
      BY <1>0, <1>b, <2>1 DEF IInv, TypeOK, GotType, Places
    <2>3. InvDetector' /\ InvTime' /\ InvHandler'
      BY <1>0, <1>a, <2>1 DEF IInv, InvDetector, InvTime, InvHandler
    <2> QED BY <2>2, <2>3 DEF IInv
  <1> QED BY <1>1, <1>2, <1>3, <1>4, <1>5, <1>6

-----------------------------------------------------------------------------
(* Every step keeps the invariant. *)
LEMMA NextInv == IInv /\ [Next]_vars => IInv'
  <1> SUFFICES ASSUME IInv, [Next]_vars PROVE IInv'
    OBVIOUS
  <1>1. CASE Tick \/ UNCHANGED vars
    <2>1. /\ UNCHANGED <<proc, frame, newFrame, seen, lastTime, detection,
                         detectedAt, kinds, hpc, asked, vouched, got, main, running, dpc>>
          /\ clock' \in {clock, clock + 1}
      BY <1>1 DEF Tick, vars, threadVars, frameVars, resultVars, handlerVars
    <2> QED BY <2>1, MoveInv DEF IInv, TypeOK, InvDetector
  <1>2. CASE Stopping \/ Handler \/ Detector
    BY <1>2, MainInv, HandlerInv, DetectorInv DEF Stopping, Detector
  <1>3. CASE Optional
    BY <1>1, <1>3, MainInv, FrameInv, DetectorInv DEF Optional
  <1> QED BY <1>1, <1>2, <1>3 DEF Next

(* The variables keep their types. *)
THEOREM TypeCorrect == Spec => []TypeOK
  <1>1. IInv => TypeOK
    BY DEF IInv
  <1> QED BY <1>1, InitInv, NextInv, PTL DEF Spec

-----------------------------------------------------------------------------
(* The order of the frames and of the detections. *)

(* A frame that waits for the detector is newer than the one it has taken, *)
(* and the one it works on is newer than the one of the stored detection.  *)
InvNewer ==
    /\ hpc = "add" => frame < Len(kinds)
    /\ newFrame /\ dpc # "detect" => seen < frame
    /\ dpc \in {"detect", "stamp", "store", "assign"} => detection < seen

(* No frame is looked at twice, and a detection is replaced only by that of  *)
(* a newer frame: its time is never renewed for something seen before (lines *)
(* 152-169, 182-195 of object_detection.cpp).                                *)
EachFrameOnce ==
    [][ /\ dpc # "detect" /\ dpc' = "detect" => seen' > seen
        /\ dpc = "assign" /\ dpc' # "assign" => detection' > detection ]_vars

(* The numbers that are compared. *)
LEMMA FrameNumbers ==
    ASSUME IInv
    PROVE  /\ Len(kinds) \in Nat /\ frame \in Nat /\ seen \in Nat /\ detection \in Nat
           /\ frame <= Len(kinds) /\ seen <= frame /\ detection <= seen
  <1>1. Len(kinds) \in Nat
    BY LenProperties DEF IInv, TypeOK
  <1> QED BY <1>1 DEF IInv, TypeOK

(* The handler numbers its frames upwards, and the detector clears the flag *)
(* for every frame that it takes.                                           *)
LEMMA NewerNext ==
    ASSUME IInv, InvNewer, [Next]_vars PROVE InvNewer'
  <1>1. /\ Len(kinds) \in Nat /\ frame \in Nat /\ seen \in Nat /\ detection \in Nat
        /\ frame <= Len(kinds) /\ seen <= frame /\ detection <= seen
    BY FrameNumbers
  <1>2. CASE UNCHANGED <<frame, newFrame, seen, detection, kinds, dpc>> /\ hpc' # "add"
    BY <1>2 DEF InvNewer
  <1>3. CASE /\ UNCHANGED <<frame, newFrame, seen, detection, kinds, hpc>>
             /\ dpc' = dpc \/ (dpc' \notin {"detect", "stamp", "store", "assign"} /\ dpc # "detect")
    BY <1>3 DEF InvNewer
  <1>4. CASE Stopping \/ Tick \/ UNCHANGED vars
             \/ ((Run \/ StopFlag) /\ UNCHANGED notMain)
    <2>1. /\ UNCHANGED <<frame, newFrame, seen, detection, kinds, hpc>>
          /\ dpc' = dpc \/ (dpc' \in {"check", "lock"} /\ dpc # "detect")
      BY <1>4 DEF Stopping, StopNotify, Notify, StopJoined, Tick, vars, Run, StopFlag, notMain,
                  threadVars, frameVars, resultVars, handlerVars, IInv, InvDetector
    <2> QED BY <1>3, <2>1
  <1>5. CASE HandlerFrame /\ UNCHANGED notHandler
    <2>1. /\ Len(kinds') = Len(kinds) + 1 /\ UNCHANGED <<frame, newFrame, seen, detection, dpc>>
      BY <1>5, AppendProperties
         DEF HandlerFrame, frameVars, notHandler, resultVars, IInv, TypeOK
    <2> QED BY <1>1, <2>1 DEF InvNewer
  <1>6. CASE Handler
    <2>1. CASE HandlerAdd
      <3>1. /\ frame' = Len(kinds) /\ hpc = "add" /\ hpc' = "age"
            /\ UNCHANGED <<seen, detection, kinds>>
            /\ dpc \notin {"detect", "stamp", "store", "assign"}
            /\ dpc' \notin {"detect", "stamp", "store", "assign"}
        BY <1>6, <2>1 DEF Handler, HandlerAdd, Newest, MutexFree, Notify, notHandler, resultVars
      <3> QED BY <1>1, <3>1 DEF InvNewer
    <2>2. CASE HandlerAge \/ HandlerCopy
      <3>1. /\ UNCHANGED <<frame, newFrame, seen, detection, kinds, dpc>> /\ hpc' # "add"
        BY <1>6, <2>2 DEF Handler, HandlerAge, HandlerCopy, notHandler, resultVars, frameVars
      <3> QED BY <1>2, <3>1
    <2> QED BY <1>6, <2>1, <2>2 DEF Handler
  <1>7. CASE Detector \/ (DetectorSpuriousWakeup /\ UNCHANGED notDetector)
    <2>1. UNCHANGED <<kinds, hpc>>
      BY <1>7 DEF Detector, notDetector, handlerVars
    <2>2. CASE DetectorCheck \/ DetectorSleep \/ DetectorSpuriousWakeup
      <3>1. /\ UNCHANGED <<frame, newFrame, seen, detection>> /\ dpc # "detect"
            /\ dpc' \in {"lock", "ended", "asleep"}
        BY <2>2 DEF DetectorCheck, DetectorSleep, GiveMutex, DetectorSpuriousWakeup, frameVars,
                    resultVars
      <3> QED BY <1>3, <2>1, <3>1
    <2>3. CASE DetectorLock
      <3>1. dpc = "lock" /\ UNCHANGED <<frame, detection>>
        BY <2>3 DEF DetectorLock, frameVars, resultVars
      <3>2. CASE UNCHANGED frameVars /\ dpc' \in {"park", "ended"}
        BY <1>3, <2>1, <3>1, <3>2 DEF frameVars
      <3>3. CASE newFrame /\ newFrame' = FALSE /\ seen' = frame /\ dpc' = "check"
        BY <2>1, <3>1, <3>3 DEF InvNewer
      <3>4. CASE newFrame /\ newFrame' = newFrame /\ seen' = frame /\ dpc' = "detect"
        <4>1. detection < frame
          BY <1>1, <3>1, <3>4 DEF InvNewer
        <4> QED BY <2>1, <3>1, <3>4, <4>1 DEF InvNewer
      <3> QED BY <2>3, <3>2, <3>3, <3>4 DEF DetectorLock
    <2>4. CASE DetectorDetect
      <3>1. /\ newFrame' = FALSE /\ dpc = "detect" /\ dpc' \in {"stamp", "check"}
            /\ UNCHANGED <<frame, seen, detection>>
        BY <2>4 DEF DetectorDetect, resultVars
      <3> QED BY <2>1, <3>1 DEF InvNewer
    <2>5. CASE DetectorStamp \/ DetectorAssign \/ DetectorStore
      <3>1. /\ UNCHANGED <<frame, newFrame, seen>> /\ dpc \in {"stamp", "store", "assign"}
            /\ \/ detection' = detection /\ dpc' \in {"store", "assign"}
               \/ dpc' = "check"
        BY <2>5 DEF DetectorStamp, DetectorAssign, DetectorStore, frameVars, resultVars
      <3> QED BY <2>1, <3>1 DEF InvNewer
    <2> QED BY <1>7, <2>2, <2>3, <2>4, <2>5 DEF Detector
  <1> QED BY <1>4, <1>5, <1>6, <1>7 DEF Next, Optional

(* The steps that take a frame and that store a detection. *)
THEOREM FramesAdvance == Spec => EachFrameOnce
  <1> DEFINE Once == /\ dpc # "detect" /\ dpc' = "detect" => seen' > seen
                     /\ dpc = "assign" /\ dpc' # "assign" => detection' > detection
  <1>1. Init => InvNewer
    BY DEF Init, InvNewer
  <1>2. IInv /\ InvNewer /\ [Next]_vars => Once
    <2> SUFFICES ASSUME IInv, InvNewer, [Next]_vars PROVE Once
      OBVIOUS
    <2>1. /\ frame \in Nat /\ seen \in Nat /\ detection \in Nat
      BY FrameNumbers
    <2>2. ASSUME dpc # "detect", dpc' = "detect" PROVE seen' > seen
      <3>1. newFrame /\ seen' = frame
        BY <2>2 DEF Next, Stopping, StopNotify, Notify, StopJoined, Tick, vars, Run, StopFlag,
               notMain, threadVars, Optional, Handler, HandlerAdd, HandlerAge, HandlerCopy,
               HandlerFrame, Detector, DetectorCheck, DetectorLock, DetectorSleep, GiveMutex,
               DetectorSpuriousWakeup, DetectorDetect, DetectorStamp, DetectorAssign,
               DetectorStore
      <3> QED BY <2>1, <2>2, <3>1 DEF InvNewer
    <2>3. ASSUME dpc = "assign", dpc' # "assign" PROVE detection' > detection
      <3>1. detection' = seen
        BY <2>3 DEF Next, Stopping, StopNotify, Notify, StopJoined, Tick, vars, Run, StopFlag,
               notMain, threadVars, Optional, Handler, HandlerAdd, HandlerAge, HandlerCopy,
               HandlerFrame, Detector, DetectorCheck, DetectorLock, DetectorSleep, GiveMutex,
               DetectorSpuriousWakeup, DetectorDetect, DetectorStamp, DetectorAssign,
               DetectorStore,
               IInv, InvDetector
      <3> QED BY <2>1, <2>3, <3>1 DEF InvNewer
    <2> QED BY <2>2, <2>3
  <1>3. IInv /\ InvNewer /\ [Next]_vars => InvNewer'
    BY NewerNext
  <1> QED BY <1>1, <1>2, <1>3, InitInv, NextInv, PTL DEF Spec, EachFrameOnce

-----------------------------------------------------------------------------
(* The detection that the time was read for is an object's.  What is stored  *)
(* now is that detection, or a later one, of which the time is as good; or   *)
(* the detector has not replaced the older one yet.                          *)
InvVouched ==
    hpc = "copy" =>
        /\ vouched # 0 /\ kinds[vouched] = "object"
        /\ \/ vouched <= detection /\ asked - detectedAt < MaxAge
           \/ detection < vouched /\ vouched = seen /\ dpc \in {"store", "assign"}

InvSound == InvVouched /\ SoundDetection

(* The times that are compared. *)
LEMMA Times ==
    ASSUME IInv
    PROVE  /\ MaxAge \in Nat \ {0} /\ clock \in Nat /\ lastTime \in Nat
           /\ detectedAt \in Nat /\ asked \in Nat /\ vouched \in Nat
           /\ vouched <= seen /\ seen \in Nat /\ detection \in Nat
  BY FrameNumbers, DetectionAssumption DEF IInv, TypeOK

(* The handler reads the time, and copies what is stored then. *)
LEMMA SoundHandler ==
    ASSUME IInv, InvNewer, InvSound, Handler PROVE InvSound'
  <1>0. UNCHANGED <<lastTime, detection, detectedAt, kinds, clock>>
    BY DEF Handler, HandlerAdd, HandlerAge, HandlerCopy, notHandler, resultVars
  <1>1. CASE HandlerAdd
    <2>1. hpc' = "age" /\ got' = got
      BY <1>1 DEF HandlerAdd
    <2> QED BY <1>0, <2>1 DEF InvSound, InvVouched, SoundDetection
  <1>2. CASE HandlerAge /\ Expired
    <2>1. hpc' = "idle" /\ got' = Nothing
      BY <1>2 DEF HandlerAge
    <2> QED BY <2>1 DEF InvSound, InvVouched, SoundDetection, Nothing
  <1>3. CASE HandlerAge /\ ~Expired
    <2>1. /\ asked' = clock /\ vouched' = Stamped /\ hpc' = "copy" /\ got' = got
          /\ UNCHANGED <<seen, dpc>>
      BY <1>3 DEF HandlerAge, frameVars
    <2>2. clock - lastTime < MaxAge /\ MaxAge <= clock
      BY <1>3, Times DEF Expired, IInv, InvTime
    <2>3. CASE dpc \in {"store", "assign"}
      <3>1. vouched' = seen /\ seen # 0 /\ kinds[seen] = "object" /\ detection < seen
        BY <2>1, <2>3 DEF Stamped, IInv, InvDetector, InvNewer
      <3>2. InvVouched'
        BY <1>0, <2>1, <2>3, <3>1 DEF InvVouched
      <3> QED BY <1>0, <2>1, <3>2 DEF InvSound, SoundDetection
    <2>4. CASE dpc \notin {"store", "assign"}
      <3>1. vouched' = detection /\ detectedAt = lastTime /\ lastTime # 0
        BY <2>1, <2>2, <2>4, Times DEF Stamped, IInv, InvTime
      <3>2. detection # 0 /\ kinds[detection] = "object"
        BY <3>1 DEF IInv, InvTime
      <3>3. InvVouched'
        BY <1>0, <2>1, <2>2, <3>1, <3>2, Times DEF InvVouched
      <3> QED BY <1>0, <2>1, <3>3 DEF InvSound, SoundDetection
    <2> QED BY <2>3, <2>4
  <1>4. CASE HandlerCopy
    <2>1. /\ got' = [frame |-> detection, age |-> asked - detectedAt,
                     vouched |-> vouched, at |-> dpc, whole |-> dpc # "assign"]
          /\ hpc = "copy" /\ hpc' = "idle"
      BY <1>4 DEF HandlerCopy
    <2>2. /\ got'.frame = detection /\ got'.age = asked - detectedAt
          /\ got'.vouched = vouched /\ got'.at = dpc /\ got'.whole = (dpc # "assign")
      BY <2>1
    <2>3. /\ vouched # 0 /\ kinds[vouched] = "object"
          /\ \/ vouched <= detection /\ asked - detectedAt < MaxAge
             \/ detection < vouched /\ dpc \in {"store", "assign"}
      BY <2>1 DEF InvSound, InvVouched
    <2>4. vouched <= detection => detection # 0 /\ kinds[detection] = "object"
      BY <2>3, Times DEF IInv, InvTime
    <2>5. SoundDetection'
      <3>1. CASE vouched <= detection
        BY <1>0, <2>2, <2>3, <2>4, <3>1, Times DEF SoundDetection
      <3>2. CASE detection < vouched
        <4>1. dpc \in {"store", "assign"} /\ ~(detection >= vouched)
          BY <2>3, <3>2, Times
        <4> QED BY <1>0, <2>2, <2>3, <4>1 DEF SoundDetection
      <3> QED BY <3>1, <3>2, Times
    <2> QED BY <2>1, <2>5 DEF InvSound, InvVouched
  <1> QED BY <1>1, <1>2, <1>3, <1>4 DEF Handler

(* The detector replaces a detection by the one that the time vouched for. *)
LEMMA SoundDetector ==
    ASSUME IInv, InvNewer, InvSound, UNCHANGED notDetector,
           \/ DetectorCheck \/ DetectorLock \/ DetectorSleep
           \/ DetectorSpuriousWakeup \/ DetectorDetect \/ DetectorStamp
           \/ DetectorAssign \/ DetectorStore
    PROVE  InvSound'
  <1>0. UNCHANGED <<kinds, hpc, asked, vouched, got>>
    BY DEF notDetector, handlerVars
  <1>1. SoundDetection'
    BY <1>0 DEF InvSound, SoundDetection
  <1>2. CASE dpc \notin {"store", "assign"}
    <2>1. UNCHANGED <<detection, detectedAt>>
      BY <1>2 DEF DetectorCheck, DetectorLock, DetectorSleep, DetectorSpuriousWakeup,
                  DetectorDetect, DetectorStamp, DetectorAssign, DetectorStore, resultVars
    <2> QED BY <1>0, <1>1, <1>2, <2>1 DEF InvSound, InvVouched
  <1>3. CASE dpc = "store"
    <2>1. UNCHANGED <<detection, detectedAt, seen>> /\ dpc' = "assign"
      BY <1>3 DEF DetectorCheck, DetectorLock, DetectorSleep, DetectorSpuriousWakeup,
                  DetectorDetect, DetectorStamp, DetectorAssign, DetectorStore, resultVars,
                  frameVars
    <2> QED BY <1>0, <1>1, <1>3, <2>1 DEF InvSound, InvVouched
  <1>4. CASE dpc = "assign"
    <2>1. detection' = seen /\ detectedAt' = lastTime
      BY <1>4 DEF DetectorCheck, DetectorLock, DetectorSleep, DetectorSpuriousWakeup,
                  DetectorDetect, DetectorStamp, DetectorAssign, DetectorStore
    <2>2. ASSUME hpc = "copy" PROVE asked - lastTime < MaxAge /\ vouched <= seen
      BY <2>2, Times DEF IInv, InvHandler
    <2>3. InvVouched'
      BY <1>0, <2>1, <2>2 DEF InvSound, InvVouched
    <2> QED BY <1>1, <2>3 DEF InvSound
  <1> QED BY <1>2, <1>3, <1>4

(* Every step keeps what is known of the detection that is asked for. *)
LEMMA SoundNext ==
    ASSUME IInv, InvNewer, InvSound, [Next]_vars PROVE InvSound'
  <1>1. CASE Stopping \/ Tick \/ UNCHANGED vars
             \/ ((Run \/ StopFlag) /\ UNCHANGED notMain)
    <2>1. /\ UNCHANGED <<detection, detectedAt, seen, kinds, hpc, asked, vouched, got>>
          /\ dpc \in {"store", "assign"} => dpc' = dpc
      BY <1>1 DEF Stopping, StopNotify, Notify, StopJoined, Tick, vars, Run, StopFlag, notMain,
                  threadVars, frameVars, resultVars, handlerVars, IInv, InvDetector
    <2> QED BY <2>1 DEF InvSound, InvVouched, SoundDetection
  <1>2. CASE HandlerFrame /\ UNCHANGED notHandler
    <2>1. PICK k \in Kinds : kinds' = Append(kinds, k)
      BY <1>2 DEF HandlerFrame
    <2>2. /\ Len(kinds) \in Nat
          /\ \A i \in 1 .. Len(kinds) : kinds'[i] = kinds[i]
          /\ hpc' # "copy" /\ got' = got
      BY <1>2, <2>1 DEF HandlerFrame, IInv, TypeOK
    <2>3. got.vouched \in 0 .. Len(kinds) /\ got.frame \in 0 .. Len(kinds)
      BY DEF IInv, TypeOK
    <2>4. SoundDetection'
      BY <2>2, <2>3 DEF InvSound, SoundDetection
    <2> QED BY <2>2, <2>4 DEF InvSound, InvVouched
  <1> QED BY <1>1, <1>2, SoundHandler, SoundDetector DEF Next, Optional, Detector

(* A detection returned whole shows an object and is recent enough, unless it *)
(* was copied between the two assignments of the detector.                    *)
THEOREM DetectionIsSound == Spec => []SoundDetection
  <1>1. Init => InvNewer /\ InvSound
    BY DEF Init, InvNewer, InvSound, InvVouched, SoundDetection, Nothing
  <1>2. InvSound => SoundDetection
    BY DEF InvSound
  <1>3. IInv /\ InvNewer /\ [Next]_vars => InvNewer'
    BY NewerNext
  <1>4. IInv /\ InvNewer /\ InvSound /\ [Next]_vars => InvSound'
    BY SoundNext
  <1> QED BY <1>1, <1>2, <1>3, <1>4, InitInv, NextInv, PTL DEF Spec
=============================================================================
