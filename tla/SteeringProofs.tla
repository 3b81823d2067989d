---------------------------- MODULE SteeringProofs ----------------------------
(* Proofs about the arithmetic of Steering and LengthCodec, for every input  *)
(* and not only for the ones that the instance tries.                        *)
EXTENDS Steering, LengthCodec, WellFoundedInduction, TLAPS

(* What a joystick's sum or difference of coordinates becomes: a truncating *)
(* division keeps the bounds and the order.                                 *)
LEMMA TruncBounds ==
    ASSUME NEW a \in Int, -200 <= a, a <= 200
    PROVE  /\ Trunc(a * 255, 200) \in Int
           /\ -255 <= Trunc(a * 255, 200) /\ Trunc(a * 255, 200) <= 255
  BY DEF Trunc

LEMMA TruncMonotone ==
    ASSUME NEW a \in Int, NEW b \in Int, a <= b
    PROVE  /\ Trunc(a * 255, 200) \in Int /\ Trunc(b * 255, 200) \in Int
           /\ Trunc(a * 255, 200) <= Trunc(b * 255, 200)
  BY DEF Trunc

(* Velocities fit into a byte for every position of the joystick, the flipped *)
(* ones included (lines 116-122 of gui_helper.hpp).                           *)
THEOREM MotorsFit ==
    \A x, y \in -100 .. 100 : joystick_to_raw_motors(x, y) \in Motors
  <1> SUFFICES ASSUME NEW x \in -100 .. 100, NEW y \in -100 .. 100
               PROVE  joystick_to_raw_motors(x, y) \in Motors
    OBVIOUS
  <1> DEFINE fx == Flipped(x, y)
             left == Trunc((y + fx) * 255, 200)
             right == Trunc((y - fx) * 255, 200)
  <1>1. fx \in Int /\ -100 <= fx /\ fx <= 100 /\ y \in Int /\ -100 <= y /\ y <= 100
    BY DEF Flipped
  <1>2. left \in -255 .. 255 /\ right \in -255 .. 255
    <2> HIDE DEF fx
    <2>1. /\ y + fx \in Int /\ -200 <= y + fx /\ y + fx <= 200
          /\ y - fx \in Int /\ -200 <= y - fx /\ y - fx <= 200
      BY <1>1
    <2>2. /\ left \in Int /\ -255 <= left /\ left <= 255
          /\ right \in Int /\ -255 <= right /\ right <= 255
      BY <2>1, TruncBounds
    <2> QED BY <2>2
  <1>3. LeftVelocity(x, y) = left /\ RightVelocity(x, y) = right
    BY DEF LeftVelocity, RightVelocity
  <1> HIDE DEF fx, left, right
  <1>4. /\ Abs(left) \in 0 .. 255 /\ Abs(right) \in 0 .. 255
        /\ direction_from_velocity(left) \in 0 .. 2
        /\ direction_from_velocity(right) \in 0 .. 2
    BY <1>2 DEF Abs, direction_from_velocity
  <1> QED BY <1>3, <1>4 DEF joystick_to_raw_motors, Motors

(* The servos stay within their travel for every position of the joystick *)
(* (lines 131-136 of gui_helper.hpp).                                     *)
THEOREM ServosFit ==
    \A x, y \in -100 .. 100 :
        joystick_to_camera(x, y) \in [tilt : 0 .. 70, pan : 0 .. 90]
  <1> SUFFICES ASSUME NEW x \in -100 .. 100, NEW y \in -100 .. 100
               PROVE  joystick_to_camera(x, y) \in [tilt : 0 .. 70, pan : 0 .. 90]
    OBVIOUS
  <1>1. map(x, -100, 100, 0, 70) \in 0 .. 70
    BY DEF map, Trunc
  <1>2. map(y, -100, 100, 0, 90) \in 0 .. 90
    BY DEF map, Trunc
  <1> QED BY <1>1, <1>2 DEF joystick_to_camera

(* The joystick turns the rover to its side when driving forward and to the *)
(* other when backing up: rounding never turns it the wrong way (lines      *)
(* 116-120 of gui_helper.hpp).                                              *)
THEOREM TurnFollowsJoystick ==
    \A x, y \in Int :
        LET turn == LeftVelocity(x, y) - RightVelocity(x, y) IN
        IF y >= 0 THEN (x >= 0 => turn >= 0) /\ (x <= 0 => turn <= 0)
                  ELSE (x >= 0 => turn <= 0) /\ (x <= 0 => turn >= 0)
  <1> SUFFICES ASSUME NEW x \in Int, NEW y \in Int
               PROVE  LET turn == LeftVelocity(x, y) - RightVelocity(x, y) IN
                      IF y >= 0
                      THEN (x >= 0 => turn >= 0) /\ (x <= 0 => turn <= 0)
                      ELSE (x >= 0 => turn <= 0) /\ (x <= 0 => turn >= 0)
    OBVIOUS
  <1> DEFINE fx == Flipped(x, y)
             left == LeftVelocity(x, y)
             right == RightVelocity(x, y)
  <1>2. fx \in Int /\ (y >= 0 => fx = x) /\ (y < 0 => fx = -x)
    BY DEF Flipped
  <1>3. left = Trunc((y + fx) * 255, 200) /\ right = Trunc((y - fx) * 255, 200)
    BY DEF LeftVelocity, RightVelocity
  <1> HIDE DEF fx, left, right
  <1>4. y + fx \in Int /\ y - fx \in Int
    BY <1>2
  <1>5. left \in Int /\ right \in Int /\ (fx >= 0 => right <= left)
    <2>1. fx >= 0 => y - fx <= y + fx
      BY <1>2
    <2> QED BY <1>3, <1>4, <2>1, TruncMonotone
  <1>6. fx <= 0 => left <= right
    <2>1. fx <= 0 => y + fx <= y - fx
      BY <1>2
    <2> QED BY <1>3, <1>4, <2>1, TruncMonotone
  <1>7. IF y >= 0
        THEN (x >= 0 => left - right >= 0) /\ (x <= 0 => left - right <= 0)
        ELSE (x >= 0 => left - right <= 0) /\ (x <= 0 => left - right >= 0)
    BY <1>2, <1>5, <1>6
  <1> QED BY <1>7 DEF left, right

(* The sign of a share of the frame is the sign of the displacement. *)
LEMMA PercentKeepsSign ==
    ASSUME NEW d \in Int, NEW size \in Nat \ {0}, NEW p \in Percent(d, size)
    PROVE  p \in Int /\ (d >= 0 => p >= 0) /\ (d <= 0 => p <= 0)
  <1> DEFINE t == Trunc(100 * d, size)
  <1>1. 100 * d \in Int /\ (100 * d < 0 <=> d < 0)
    OBVIOUS
  <1>2. t \in Int /\ (d >= 0 => t >= 0) /\ (d <= 0 => t <= 0)
    <2>1. \A a \in Nat : a \div size \in Nat
      OBVIOUS
    <2>2. CASE d < 0
      <3>1. -(100 * d) \in Nat
        BY <2>2
      <3>2. t = -((-(100 * d)) \div size)
        BY <1>1, <2>2 DEF Trunc
      <3> QED BY <2>1, <2>2, <3>1, <3>2
    <2>3. CASE d >= 0
      <3>1. 100 * d \in Nat
        BY <2>3
      <3>2. t = (100 * d) \div size
        BY <1>1, <2>3 DEF Trunc
      <3>3. d <= 0 => 100 * d = 0 /\ 0 \div size = 0
        BY <2>3
      <3> QED BY <2>1, <2>3, <3>1, <3>2, <3>3
    <2> QED BY <2>2, <2>3
  <1>3. p = t \/ (t # 0 /\ p = IF t > 0 THEN t - 1 ELSE t + 1)
    BY DEF Percent
  <1> HIDE DEF t
  <1> QED BY <1>2, <1>3

(* The joystick is moved to the side on which the object is, if at all. *)
LEMMA PositionKeepsSide ==
    ASSUME NEW frame \in (Nat \ {0}) \X (Nat \ {0}), NEW o \in Objects,
           NEW p \in PositionsFor(o, frame)
    PROVE  /\ p[1] \in Int /\ p[2] \in Int
           /\ o.cx \in Int /\ Trunc(frame[1], 2) \in Int
           /\ o.cx - Trunc(frame[1], 2) >= 0 => p[1] >= 0
           /\ o.cx - Trunc(frame[1], 2) <= 0 => p[1] <= 0
  <1> DEFINE w == Trunc(frame[1], 2)  h == Trunc(frame[2], 2)
  <1>1. /\ frame[1] \in Nat \ {0} /\ frame[2] \in Nat \ {0} /\ w \in Int /\ h \in Int
        /\ o.cx \in Int /\ o.cy \in Int
    BY DEF Trunc, Objects
  <1>2. calculateBoxCenter(BoxOf(o)) = <<o.cx, o.cy>>
    <2>1. Trunc(o.width, 2) \in Int /\ Trunc(o.height, 2) \in Int
      BY DEF Trunc, Objects
    <2> QED BY <1>1, <2>1 DEF calculateBoxCenter, BoxOf
  <1>3. PICK px \in Percent(w - o.cx, frame[1]), py \in Percent(h - o.cy, frame[2]) :
           p[1] \in {0, -px} /\ p[2] \in {0, py}
    BY <1>2 DEF PositionsFor, calculateJoystickPosition, determineJoystickAction
  <1>4. /\ px \in Int /\ py \in Int
        /\ w - o.cx >= 0 => px >= 0
        /\ w - o.cx <= 0 => px <= 0
    BY <1>1, PercentKeepsSign
  <1> HIDE DEF w, h
  <1>5. /\ p[1] \in Int /\ p[2] \in Int
        /\ o.cx - w >= 0 => p[1] >= 0
        /\ o.cx - w <= 0 => p[1] <= 0
    BY <1>1, <1>3, <1>4
  <1> QED BY <1>1, <1>5 DEF w

(* For every object in every frame: driving forward or turning on the spot *)
(* the rover turns to the object's side, backing up to the other (lines    *)
(* 209-284 of autonomous_driving.cpp, 116-122 of gui_helper.hpp).          *)
THEOREM TurnsToObject ==
    \A frame \in (Nat \ {0}) \X (Nat \ {0}), o \in Objects :
    \A p \in PositionsFor(o, frame) :
        LET turn == LeftVelocity(p[1], p[2]) - RightVelocity(p[1], p[2])
            offset == o.cx - Trunc(frame[1], 2)
        IN IF p[2] >= 0 THEN (offset >= 0 => turn >= 0) /\ (offset <= 0 => turn <= 0)
                        ELSE (offset >= 0 => turn <= 0) /\ (offset <= 0 => turn >= 0)
  BY PositionKeepsSide, TurnFollowsJoystick

-----------------------------------------------------------------------------
(* A set of numbers has a least one: the bottle that decides exists. *)
LEMMA LeastExists ==
    ASSUME NEW T, T \subseteq Nat, T # {}
    PROVE  \E x \in T : \A y \in T : x <= y
  <1> DEFINE Less == {ss \in Nat \X Nat : ss[1] < ss[2]}
  <1>1. IsWellFoundedOn(Less, Nat)
    BY NatLessThanWellFounded, Zenon DEF OpToRel
  <1>2. PICK x \in T : \A y \in T : <<y, x>> \notin Less
    <2> HIDE DEF Less
    <2> QED BY <1>1, WFMin
  <1>3. \A y \in T : ~(y < x)
    BY <1>2
  <1> QED BY <1>3

LEMMA FirstIsObject ==
    ASSUME NEW s \in Scenes, Bottles(s) # {}
    PROVE  /\ First(s) \in Objects /\ s.frame \in (Nat \ {0}) \X (Nat \ {0})
           /\ InFrame(First(s), s.frame)
  <1>1. /\ s.frame \in (Nat \ {0}) \X (Nat \ {0}) /\ s.objects \in Seq(Objects)
        /\ Bottles(s) \subseteq Nat /\ Bottles(s) \subseteq DOMAIN s.objects
    BY SteeringAssumption DEF Bottles
  <1> DEFINE i == CHOOSE i \in Bottles(s) : \A j \in Bottles(s) : i <= j
  <1>2. i \in Bottles(s)
    BY <1>1, LeastExists
  <1>3. First(s) = s.objects[i]
    BY DEF First
  <1> HIDE DEF i
  <1>4. s.objects[i] \in Objects /\ InFrame(s.objects[i], s.frame)
    BY <1>1, <1>2, SteeringAssumption
  <1> QED BY <1>1, <1>3, <1>4

(* The joystick is one that may come out for the first bottle, and the *)
(* message tells what it says.                                         *)
InvDrive ==
    /\ scene = NoScene \/ scene \in Scenes
    /\ SeesBottle => /\ joystick \in PositionsFor(First(scene), scene.frame)
                     /\ told = RoverMessage(joystick[1], joystick[2])

LEMMA NothingSeen == Bottles(NoScene) = {}
  BY DEF Bottles, NoScene

LEMMA DriveInvariance == Spec => []InvDrive
  <1>1. Init => InvDrive
    BY NothingSeen DEF Init, InvDrive, SeesBottle
  <1>2. InvDrive /\ [Next]_vars => InvDrive'
    <2> SUFFICES ASSUME InvDrive, [Next]_vars PROVE InvDrive'
      OBVIOUS
    <2>1. CASE Drive
      <3>1. /\ scene' \in Scenes /\ joystick' \in interpretLatestDetection(scene')
            /\ told' = RoverMessage(joystick'[1], joystick'[2])
        BY <2>1 DEF Drive
      <3> QED BY <3>1 DEF InvDrive, SeesBottle, interpretLatestDetection
    <2>2. CASE Operate
      <3>1. scene' = NoScene
        BY <2>2 DEF Operate
      <3> QED BY <3>1, NothingSeen DEF InvDrive, SeesBottle
    <2>3. CASE UNCHANGED vars
      BY <2>3 DEF vars, InvDrive, SeesBottle
    <2> QED BY <2>1, <2>2, <2>3 DEF Next
  <1> QED BY <1>1, <1>2, PTL DEF Spec

LEMMA SignOfProduct ==
    ASSUME NEW a \in Int, NEW b \in Int
    PROVE  /\ (b >= 0 => a >= 0) /\ (b <= 0 => a <= 0) => a * b >= 0
           /\ (b >= 0 => a <= 0) /\ (b <= 0 => a >= 0) => a * b <= 0
  OBVIOUS

(* Whatever the camera sees, in frames of any size: forward or on the spot *)
(* the rover turns to the side of the bottle, backing up to the other side *)
(* (lines 295-319 of autonomous_driving.cpp).                              *)
THEOREM BottleIsFollowed == Spec => []TurnsToBottle
  <1>1. InvDrive => TurnsToBottle
    <2> SUFFICES ASSUME InvDrive, SeesBottle PROVE
            IF joystick[2] >= 0 THEN Turn * Offset >= 0 ELSE Turn * Offset <= 0
      BY DEF TurnsToBottle
    <2>1. scene \in Scenes /\ Bottles(scene) # {}
      BY NothingSeen DEF InvDrive, SeesBottle
    <2>2. /\ First(scene) \in Objects /\ joystick \in PositionsFor(First(scene), scene.frame)
          /\ scene.frame \in (Nat \ {0}) \X (Nat \ {0})
      BY <2>1, FirstIsObject DEF InvDrive
    <2>3. IF joystick[2] >= 0
          THEN (Offset >= 0 => Turn >= 0) /\ (Offset <= 0 => Turn <= 0)
          ELSE (Offset >= 0 => Turn <= 0) /\ (Offset <= 0 => Turn >= 0)
      BY <2>2, TurnsToObject DEF Offset, Turn
    <2>4. Turn \in Int /\ Offset \in Int
      <3>1. joystick[1] \in Int /\ joystick[2] \in Int
        BY <2>2, PositionKeepsSide
      <3>2. Flipped(joystick[1], joystick[2]) \in Int
        BY <3>1 DEF Flipped
      <3>3. \A a, b \in Int : Trunc((a + b) * 255, 200) \in Int /\ Trunc((a - b) * 255, 200) \in Int
        BY DEF Trunc
      <3>4. First(scene).cx \in Int /\ Trunc(scene.frame[1], 2) \in Int
        BY <2>2 DEF Objects, Trunc
      <3> QED BY <3>1, <3>2, <3>3, <3>4 DEF Turn, Offset, LeftVelocity, RightVelocity
    <2> QED BY <2>3, <2>4, SignOfProduct
  <1> QED BY <1>1, DriveInvariance, PTL

(* An offset that the tolerance does not forgive is never rounded to zero. *)
LEMMA PercentIsLarge ==
    ASSUME NEW d \in Int, NEW size \in Nat \ {0}, NEW p \in Percent(d, size),
           10 * Abs(d) >= size
    PROVE  p # 0
  <1> DEFINE t == Trunc(100 * d, size)
  <1>1. \A a \in Nat : a >= 10 * size => a \div size \in Nat /\ a \div size >= 10
    OBVIOUS
  <1>2. t \in Int /\ (t >= 10 \/ t <= -10)
    <2>1. CASE d < 0
      <3>1. -(100 * d) \in Nat /\ -(100 * d) >= 10 * size /\ 100 * d < 0
        BY <2>1 DEF Abs
      <3>2. t = -((-(100 * d)) \div size)
        BY <3>1 DEF Trunc
      <3> QED BY <1>1, <3>1, <3>2
    <2>2. CASE d >= 0
      <3>1. 100 * d \in Nat /\ 100 * d >= 10 * size
        BY <2>2 DEF Abs
      <3>2. t = (100 * d) \div size
        BY <3>1 DEF Trunc
      <3> QED BY <1>1, <3>1, <3>2
    <2> QED BY <2>1, <2>2
  <1>3. p = t \/ (t # 0 /\ p = IF t > 0 THEN t - 1 ELSE t + 1)
    BY DEF Percent
  <1> HIDE DEF t
  <1> QED BY <1>2, <1>3

(* Whatever the camera sees, a bottle off centre never becomes a stop (lines *)
(* 223-225, 255-284 of autonomous_driving.cpp).                              *)
THEOREM OffCentreIsFollowed == Spec => []OffCentreNeverStops
  <1>1. InvDrive => OffCentreNeverStops
    <2> SUFFICES ASSUME InvDrive, SeesBottle, told.command = "stop"
                 PROVE  10 * Abs(Offset) < scene.frame[1]
      BY DEF OffCentreNeverStops
    <2>1. scene \in Scenes /\ Bottles(scene) # {}
      BY NothingSeen DEF InvDrive, SeesBottle
    <2>2. /\ First(scene) \in Objects /\ joystick \in PositionsFor(First(scene), scene.frame)
          /\ scene.frame \in (Nat \ {0}) \X (Nat \ {0})
      BY <2>1, FirstIsObject DEF InvDrive
    <2>3. joystick[1] = 0
      BY DEF InvDrive, RoverMessage
    <2> DEFINE o == First(scene)  w == Trunc(scene.frame[1], 2)
    <2>4. o.cx \in Int /\ w \in Int /\ scene.frame[1] \in Nat \ {0}
      BY <2>2 DEF Objects, Trunc
    <2>5. calculateBoxCenter(BoxOf(o))[1] = o.cx
      <3>1. Trunc(o.width, 2) \in Int
        BY <2>2 DEF Trunc, Objects
      <3> QED BY <2>4, <3>1 DEF calculateBoxCenter, BoxOf
    <2>6. \/ isObjectCentered(o.cx, scene.frame)
          \/ \E px \in Percent(w - o.cx, scene.frame[1]) : joystick[1] = -px
      BY <2>2, <2>5 DEF PositionsFor, calculateJoystickPosition, determineJoystickAction
    <2> HIDE DEF o, w
    <2>7. CASE isObjectCentered(o.cx, scene.frame)
      BY <2>7 DEF isObjectCentered, Offset, o, w
    <2>8. CASE \E px \in Percent(w - o.cx, scene.frame[1]) : joystick[1] = -px
      <3>1. PICK px \in Percent(w - o.cx, scene.frame[1]) : joystick[1] = -px
        BY <2>8
      <3>2. px \in Int /\ px = 0
        BY <2>3, <2>4, <3>1, PercentKeepsSign
      <3>3. ~(10 * Abs(w - o.cx) >= scene.frame[1])
        BY <2>4, <3>2, PercentIsLarge
      <3>4. Abs(w - o.cx) = Abs(o.cx - w) /\ Abs(o.cx - w) \in Int
        BY <2>4 DEF Abs
      <3>5. 10 * Abs(o.cx - w) < scene.frame[1]
        BY <2>4, <3>3, <3>4
      <3> QED BY <3>5 DEF Offset, o, w
    <2> QED BY <2>6, <2>7, <2>8
  <1> QED BY <1>1, DriveInvariance, PTL

-----------------------------------------------------------------------------
(* The size of a share of the frame. *)
LEMMA PercentIsSmall ==
    ASSUME NEW d \in Int, NEW size \in Nat \ {0}, NEW p \in Percent(d, size),
           100 * Abs(d) <= 70 * size
    PROVE  p \in Int /\ -70 <= p /\ p <= 70
  <1> DEFINE t == Trunc(100 * d, size)
  <1>1. \A a \in Nat : a <= 70 * size => a \div size \in Nat /\ a \div size <= 70
    OBVIOUS
  <1>2. t \in Int /\ -70 <= t /\ t <= 70
    <2>1. CASE d < 0
      <3>1. -(100 * d) \in Nat /\ -(100 * d) <= 70 * size /\ 100 * d < 0
        BY <2>1 DEF Abs
      <3>2. t = -((-(100 * d)) \div size)
        BY <3>1 DEF Trunc
      <3> QED BY <1>1, <3>1, <3>2
    <2>2. CASE d >= 0
      <3>1. 100 * d \in Nat /\ 100 * d <= 70 * size
        BY <2>2 DEF Abs
      <3>2. t = (100 * d) \div size
        BY <3>1 DEF Trunc
      <3> QED BY <1>1, <3>1, <3>2
    <2> QED BY <2>1, <2>2
  <1>3. p = t \/ (t # 0 /\ p = IF t > 0 THEN t - 1 ELSE t + 1)
    BY DEF Percent
  <1> HIDE DEF t
  <1> QED BY <1>2, <1>3

(* A point of the frame is hardly more than half the frame off its middle. *)
LEMMA HalfFrame ==
    ASSUME NEW size \in Nat, size >= 2, NEW c \in 0 .. size
    PROVE  /\ Trunc(size, 2) - c \in Int
           /\ 100 * Abs(Trunc(size, 2) - c) <= 70 * size
  <1> DEFINE h == size \div 2
  <1>1. Trunc(size, 2) = h
    BY DEF Trunc
  <1>2. h \in Nat /\ 2 * h <= size /\ size <= 2 * h + 1
    OBVIOUS
  <1> HIDE DEF h
  <1>3. h - c \in Int /\ 100 * (h - c) <= 70 * size /\ 100 * (c - h) <= 70 * size
    BY <1>2
  <1>4. Abs(h - c) = h - c \/ Abs(h - c) = c - h
    BY <1>2 DEF Abs
  <1> QED BY <1>1, <1>3, <1>4

(* The driver's joystick keeps away from the corners. *)
LEMMA PositionIsSmall ==
    ASSUME NEW frame \in (Nat \ {0}) \X (Nat \ {0}), NEW o \in Objects,
           frame[1] >= 2, frame[2] >= 2, InFrame(o, frame),
           NEW p \in PositionsFor(o, frame)
    PROVE  /\ p[1] \in Int /\ -70 <= p[1] /\ p[1] <= 70
           /\ p[2] \in Int /\ -70 <= p[2] /\ p[2] <= 70
  <1> DEFINE w == Trunc(frame[1], 2)  h == Trunc(frame[2], 2)
  <1>1. frame[1] \in Nat \ {0} /\ frame[2] \in Nat \ {0} /\ o.cx \in Int /\ o.cy \in Int
    BY DEF Objects
  <1>2. calculateBoxCenter(BoxOf(o)) = <<o.cx, o.cy>>
    <2>1. Trunc(o.width, 2) \in Int /\ Trunc(o.height, 2) \in Int
      BY DEF Trunc, Objects
    <2> QED BY <1>1, <2>1 DEF calculateBoxCenter, BoxOf
  <1>3. PICK px \in Percent(w - o.cx, frame[1]), py \in Percent(h - o.cy, frame[2]) :
           p[1] \in {0, -px} /\ p[2] \in {0, py}
    BY <1>2 DEF PositionsFor, calculateJoystickPosition, determineJoystickAction
  <1>4. /\ w - o.cx \in Int /\ 100 * Abs(w - o.cx) <= 70 * frame[1]
        /\ h - o.cy \in Int /\ 100 * Abs(h - o.cy) <= 70 * frame[2]
    BY <1>1, HalfFrame DEF InFrame
  <1> HIDE DEF w, h
  <1>5. px \in Int /\ -70 <= px /\ px <= 70 /\ py \in Int /\ -70 <= py /\ py <= 70
    BY <1>1, <1>3, <1>4, PercentIsSmall
  <1> QED BY <1>3, <1>5

(* The whole part of a square root, as SpeedOf takes it, exists. *)
LEMMA RootExists ==
    ASSUME NEW q \in Nat, q < 10000 * 362 * 362
    PROVE  \E s \in 0 .. 361 : 10000 * s * s <= q /\ 10000 * (s + 1) * (s + 1) > q
  <1> DEFINE T == {s \in Nat : 10000 * (s + 1) * (s + 1) > q}
  <1>1. 361 \in T
    BY SMT
  <1>2. PICK s \in T : \A r \in T : s <= r
    <2> HIDE DEF T
    <2>1. T \subseteq Nat
      BY SMT DEF T
    <2>2. T # {}
      BY <1>1
    <2> QED BY ONLY <2>1, <2>2, LeastExists
  <1>3. s \in Nat /\ s <= 361 /\ 10000 * (s + 1) * (s + 1) > q
    BY SMT, <1>1, <1>2
  <1>4. 10000 * s * s <= q
    <2>1. CASE s = 0
      BY SMT, <2>1
    <2>2. CASE s # 0
      <3>1. s - 1 \in Nat /\ ~(s <= s - 1)
        BY SMT, <1>3, <2>2
      <3>2. s - 1 \notin T
        BY SMT, <1>2, <3>1
      <3>3. ~(10000 * (s - 1 + 1) * (s - 1 + 1) > q)
        BY SMT, <3>1, <3>2
      <3>4. s - 1 + 1 = s
        BY SMT, <1>3
      <3>5. ~(10000 * s * s > q)
        BY SMT, <3>3, <3>4
      <3> QED BY SMT, <1>3, <3>5
    <2> QED BY SMT, <2>1, <2>2
  <1> QED BY SMT, <1>3, <1>4

(* The speed for a position of the joystick, and for one off the corners. *)
LEMMA SpeedFits ==
    ASSUME NEW x \in Int, -100 <= x, x <= 100, NEW y \in Int, -100 <= y, y <= 100
    PROVE  /\ SpeedOf(x, y) \in 0 .. 361
           /\ -70 <= x /\ x <= 70 /\ -70 <= y /\ y <= 70 => SpeedOf(x, y) <= 255
  <1> DEFINE q == 65025 * (x * x + y * y)
             Root(r) == 10000 * r * r <= q /\ 10000 * (r + 1) * (r + 1) > q
             s == SpeedOf(x, y)
  <1>1. x * x \in Nat /\ x * x <= 10000 /\ y * y \in Nat /\ y * y <= 10000
    BY SMT
  <1>2. q \in Nat /\ q < 10000 * 362 * 362
    BY SMT, <1>1
  <1>3. s = CHOOSE r \in 0 .. 361 : Root(r)
    BY SMT DEF SpeedOf
  <1>4. s \in 0 .. 361 /\ 10000 * s * s <= q
    <2>1. \E r \in 0 .. 361 : Root(r)
      <3> HIDE DEF q
      <3> QED BY <1>2, RootExists
    <2> HIDE DEF s, q, Root
    <2>2. s \in 0 .. 361 /\ Root(s)
      BY ONLY <1>3, <2>1
    <2> QED BY <2>2 DEF Root
  <1> HIDE DEF q, s
  <1>5. ASSUME -70 <= x, x <= 70, -70 <= y, y <= 70 PROVE s <= 255
    <2>1. x * x <= 4900 /\ y * y <= 4900
      BY SMT, <1>5
    <2>2. q <= 65025 * 9800
      BY SMT, <1>1, <2>1 DEF q
    <2>3. \A r \in Nat : r >= 256 => 10000 * r * r >= 10000 * 65536
      BY SMT
    <2> QED BY SMT, <1>2, <1>4, <2>2, <2>3
  <1> QED BY SMT, <1>4, <1>5 DEF s

(* Every message's fields are in range: an operator's, and the driver's whose *)
(* speed needs no limit, since the bottle is inside the frame.                *)
THEOREM SteeringTypes == Spec => []TypeOK
  <1>1. Init => TypeOK
    BY DEF Init, TypeOK, Untold
  <1>2. ASSUME NEW x \in Int, -100 <= x, x <= 100, NEW y \in Int, -100 <= y, y <= 100
        PROVE  LET m == RoverMessage(x, y) IN
               \/ m.command = "stop"
               \/ /\ m.command = "move" /\ m.motors \in Motors /\ m.speed \in Nat
                  /\ m.speed = SpeedOf(x, y)
    <2>1. joystick_to_raw_motors(x, y) \in Motors
      <3>1. x \in -100 .. 100 /\ y \in -100 .. 100
        BY <1>2
      <3> QED BY <3>1, MotorsFit
    <2>2. SpeedOf(x, y) \in Nat
      <3>1. SpeedOf(x, y) \in 0 .. 361
        BY <1>2, SpeedFits, Zenon
      <3> QED BY <3>1
    <2> QED BY <2>1, <2>2 DEF RoverMessage
  <1>3. Drive => TypeOK'
    <2> SUFFICES ASSUME Drive PROVE TypeOK'
      OBVIOUS
    <2>1. /\ scene' \in Scenes /\ joystick' \in interpretLatestDetection(scene')
          /\ told' = RoverMessage(joystick'[1], joystick'[2])
      BY DEF Drive
    <2>2. /\ joystick'[1] \in Int /\ -70 <= joystick'[1] /\ joystick'[1] <= 70
          /\ joystick'[2] \in Int /\ -70 <= joystick'[2] /\ joystick'[2] <= 70
      <3>1. CASE Bottles(scene') = {}
        BY <2>1, <3>1 DEF interpretLatestDetection
      <3>2. CASE Bottles(scene') # {}
        <4>1. /\ First(scene') \in Objects /\ InFrame(First(scene'), scene'.frame)
              /\ scene'.frame \in (Nat \ {0}) \X (Nat \ {0})
              /\ scene'.frame[1] >= 2 /\ scene'.frame[2] >= 2
          <5>1. /\ scene'.frame \in (Nat \ {0}) \X (Nat \ {0})
                /\ scene'.frame[1] >= 2 /\ scene'.frame[2] >= 2
            BY <2>1, SteeringAssumption
          <5>2. /\ First(scene') \in Objects
                /\ InFrame(First(scene'), scene'.frame)
            BY <2>1, <3>2, FirstIsObject
          <5> QED BY <5>1, <5>2
        <4> QED BY <2>1, <3>2, <4>1, PositionIsSmall DEF interpretLatestDetection
      <3> QED BY <3>1, <3>2
    <2>3. \/ told'.command = "stop"
          \/ /\ told'.command = "move" /\ told'.motors \in Motors /\ told'.speed \in Nat
             /\ told'.speed = SpeedOf(joystick'[1], joystick'[2])
      BY <1>2, <2>1, <2>2
    <2>4. SpeedOf(joystick'[1], joystick'[2]) <= 255
      BY <2>2, SpeedFits
    <2> QED BY <2>3, <2>4 DEF TypeOK
  <1>4. Operate => TypeOK'
    <2> SUFFICES ASSUME Operate PROVE TypeOK'
      OBVIOUS
    <2>1. PICK x \in JoyValues, y \in JoyValues :
             told' \in {RoverMessage(x, y), CameraMessage(x, y)}
      BY DEF Operate
    <2>2. /\ x \in -100 .. 100 /\ y \in -100 .. 100 /\ scene' = NoScene
          /\ x \in Int /\ -100 <= x /\ x <= 100 /\ y \in Int /\ -100 <= y /\ y <= 100
      BY SteeringAssumption DEF Operate
    <2>3. CASE told' = RoverMessage(x, y)
      <3>1. \/ told'.command = "stop"
            \/ /\ told'.command = "move" /\ told'.motors \in Motors
               /\ told'.speed \in Nat
        BY <1>2, <2>2, <2>3
      <3> QED BY <2>2, <3>1 DEF TypeOK
    <2>4. CASE told' = CameraMessage(x, y)
      <3>1. /\ told'.command \in {"", "reset_camera"}
            /\ told'.servo \in [tilt : 0 .. 70, pan : 0 .. 90]
        BY <2>2, <2>4, ServosFit DEF CameraMessage
      <3> QED BY <3>1 DEF TypeOK
    <2> QED BY <2>1, <2>3, <2>4
  <1>5. TypeOK /\ [Next]_vars => TypeOK'
    <2>1. TypeOK /\ UNCHANGED vars => TypeOK'
      BY DEF TypeOK, vars
    <2> QED BY <1>3, <1>4, <2>1 DEF Next
  <1> QED BY <1>1, <1>5, PTL DEF Spec

-----------------------------------------------------------------------------
(* The nearest boundary on the line is the nearest one on the circle, for    *)
(* every limit and every whole angle (lines 102-133 of                       *)
(* autonomous_driving.cpp).                                                  *)
THEOREM NearestOnCircle == AdjustsToNearest
  <1> SUFFICES ASSUME NEW limit \in 0 .. 90, NEW angle \in 0 .. 359
               PROVE  LET adjusted == adjustAngleToBoundary(angle, limit) IN
                      /\ isAngleWithinLimits(adjusted, limit)
                      /\ \A b \in Boundaries(limit) :
                           Distance(angle, adjusted) <= Distance(angle, b)
    BY DEF AdjustsToNearest
  <1> DEFINE Near(b) == \A c \in Boundaries(limit) : Abs(angle - b) <= Abs(angle - c)
             near == {b \in Boundaries(limit) : Near(b)}
             Least(b) == b \in near /\ \A c \in near : b <= c
             adjusted == adjustAngleToBoundary(angle, limit)
  <1>1. CASE isAngleWithinLimits(angle, limit)
    <2>1. adjusted = angle
      BY <1>1 DEF adjustAngleToBoundary
    <2>2. \A b \in Boundaries(limit) : Distance(angle, angle) <= Distance(angle, b)
      BY DEF Distance, Abs, Boundaries
    <2> QED BY <1>1, <2>1, <2>2
  <1>2. CASE ~isAngleWithinLimits(angle, limit)
    <2>1. \/ angle < 90 - limit
          \/ 90 + limit < angle /\ angle < 270 - limit
          \/ 270 + limit < angle
      BY <1>2 DEF isAngleWithinLimits
    <2>2. \E b \in near : \A c \in near : b <= c
      <3>1. CASE angle < 90 - limit
        <4>1. Least(90 - limit)
          BY <3>1 DEF Boundaries, Abs
        <4> QED BY <4>1
      <3>2. CASE 90 + limit < angle /\ angle < 270 - limit /\ angle <= 180
        <4>1. Least(90 + limit)
          BY <3>2 DEF Boundaries, Abs
        <4> QED BY <4>1
      <3>3. CASE 90 + limit < angle /\ angle < 270 - limit /\ angle > 180
        <4>1. Least(270 - limit)
          BY <3>3 DEF Boundaries, Abs
        <4> QED BY <4>1
      <3>4. CASE 270 + limit < angle
        <4>1. Least(270 + limit)
          BY <3>4 DEF Boundaries, Abs
        <4> QED BY <4>1
      <3> QED BY <2>1, <3>1, <3>2, <3>3, <3>4
    <2>3. adjusted = CHOOSE b \in near : \A c \in near : b <= c
      BY <1>2 DEF adjustAngleToBoundary
    <2>4. adjusted \in Boundaries(limit) /\ Near(adjusted)
      BY <2>2, <2>3
    <2> HIDE DEF adjusted
    <2>5. isAngleWithinLimits(adjusted, limit)
      BY <2>4 DEF isAngleWithinLimits, Boundaries
    <2>6. ASSUME NEW b \in Boundaries(limit)
          PROVE  Distance(angle, adjusted) <= Distance(angle, b)
      <3>1. Abs(angle - adjusted) <= Abs(angle - b)
        BY <2>4
      <3>2. CASE angle < 90 - limit
        <4>1. adjusted = 90 - limit
          BY <2>4, <3>2 DEF Boundaries, Abs
        <4> QED BY <3>2, <4>1 DEF Distance, Boundaries, Abs
      <3>3. CASE 90 + limit < angle /\ angle < 270 - limit
        <4>1. adjusted \in {90 + limit, 270 - limit}
          BY <2>4, <3>3 DEF Boundaries, Abs
        <4> QED BY <3>1, <3>3, <4>1 DEF Distance, Boundaries, Abs
      <3>4. CASE 270 + limit < angle
        <4>1. adjusted = 270 + limit
          BY <2>4, <3>4 DEF Boundaries, Abs
        <4> QED BY <3>4, <4>1 DEF Distance, Boundaries, Abs
      <3> QED BY <2>1, <3>2, <3>3, <3>4
    <2> QED BY <2>5, <2>6 DEF adjusted
  <1> QED BY <1>1, <1>2

-----------------------------------------------------------------------------
(* The length of a message arrives as it was sent, in the code's base, for   *)
(* every int and both byte orders (lines 22-61 of network_helper.hpp).       *)
THEOREM LengthsSurvive == Base = 256 => RoundTrip
  <1> SUFFICES ASSUME Base = 256, NEW n \in Ints, NEW order \in Orders
               PROVE  bytes_to_int(int_to_bytes(n, order), order) = n
    BY SMT DEF RoundTrip
  <1> DEFINE B2 == Base * Base
             B3 == Base * Base * Base
             B4 == Base * Base * Base * Base
             q1 == n \div Base
             q2 == n \div B2
             q3 == n \div B3
             b0 == Byte(n, 1)
             b1 == Byte(n, Base)
             b2 == Byte(n, B2)
             b3 == Byte(n, B3)
  <1>0. B2 = 65536 /\ B3 = 16777216 /\ B4 = 4294967296
    <2>1. B2 = 65536
      BY SMT
    <2>2. B3 = 65536 * 256 /\ B4 = 65536 * 65536
      BY <2>1, SMT
    <2> QED BY <2>1, <2>2, SMT
  <1>1. n \in Int /\ -2147483648 <= n /\ n < 2147483648
    <2>1. Ints = -(B4 \div 2) .. B4 \div 2 - 1
      BY Zenon DEF Ints
    <2> HIDE DEF B4
    <2>2. B4 \div 2 = 2147483648
      BY <1>0, SMT
    <2> QED BY <2>1, <2>2, SMT
  <1>2. /\ b0 = n % 256 /\ b1 = q1 % 256 /\ b2 = q2 % 256 /\ b3 = q3 % 256
        /\ q1 = n \div 256 /\ q2 = n \div 65536 /\ q3 = n \div 16777216
    <2>1. n \div 1 = n
      BY <1>1, SMT
    <2>2. Byte(n, 1) = n % 256 /\ Byte(n, Base) = q1 % 256
      BY <2>1, SMT DEF Byte
    <2>3. Byte(n, B2) = q2 % 256 /\ Byte(n, B3) = q3 % 256
      BY SMT DEF Byte
    <2> HIDE DEF B2, B3
    <2> QED BY <1>0, <2>2, <2>3, SMT
  <1> HIDE DEF B2, B3, B4, q1, q2, q3, b0, b1, b2, b3
  <1>2a. /\ q1 \in Int /\ q2 \in Int /\ q3 \in Int
        /\ b0 \in 0 .. 255 /\ b1 \in 0 .. 255 /\ b2 \in 0 .. 255 /\ b3 \in 0 .. 255
        /\ n = 256 * q1 + b0 /\ q1 = 256 * q2 + b1 /\ q2 = 256 * q3 + b2
        /\ q3 \in -128 .. 127 /\ b3 = IF q3 >= 0 THEN q3 ELSE q3 + 256
    <2>1. q1 \in Int /\ b0 \in 0 .. 255 /\ n = 256 * q1 + b0
      BY <1>1, <1>2, SMT
    <2>2. q2 \in Int /\ b1 \in 0 .. 255 /\ q1 = 256 * q2 + b1
      BY <1>1, <1>2, SMT
    <2>3. q3 \in Int /\ b2 \in 0 .. 255 /\ q2 = 256 * q3 + b2
      BY <1>1, <1>2, SMT
    <2>4. q3 \in -128 .. 127
      BY <1>1, <1>2, SMT
    <2>5. b3 \in 0 .. 255 /\ b3 = IF q3 >= 0 THEN q3 ELSE q3 + 256
      BY <1>2, <2>4, SMT
    <2> QED BY <2>1, <2>2, <2>3, <2>4, <2>5
  <1>3. b0 + b1 * 256 + b2 * 65536 + b3 * 16777216
           = IF q3 >= 0 THEN n ELSE n + 4294967296
    BY <1>2a, SMT
  <1>4. (q3 >= 0) <=> (n >= 0)
    BY <1>2a, SMT
  <1>5. Value(b0, b1, b2, b3) = n
    <2>1. Value(b0, b1, b2, b3) = Signed(b0 + b1 * 256 + b2 * 65536 + b3 * 16777216)
      <3>1. b2 * Base * Base = b2 * 65536 /\ b3 * Base * Base * Base = b3 * 16777216
        BY <1>2a, SMT
      <3> QED BY <3>1, SMT DEF Value
    <2>2. \A v : Signed(v) = IF v >= B4 \div 2 THEN v - B4 ELSE v
      BY SMT DEF Signed, B4
    <2>3. \A v : Signed(v) = IF v >= 2147483648 THEN v - 4294967296 ELSE v
      BY <1>0, <2>2, SMT
    <2> QED BY <1>1, <1>3, <1>4, <2>1, <2>3, SMT
  <1>6. int_to_bytes(n, order) =
           IF order = "LITTLE" THEN <<b0, b1, b2, b3>> ELSE <<b3, b2, b1, b0>>
    BY DEF int_to_bytes, b0, b1, b2, b3, B2, B3
  <1>7. CASE order = "LITTLE"
    BY <1>5, <1>6, <1>7 DEF bytes_to_int
  <1>8. CASE order # "LITTLE"
    BY <1>5, <1>6, <1>8 DEF bytes_to_int
  <1> QED BY <1>7, <1>8
=============================================================================
