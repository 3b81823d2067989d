------------------------------- MODULE Steering -------------------------------
(***************************************************************************)
(* The arithmetic from what the camera sees to what the rover is told: the *)
(* boxes of object_detection.cpp, the geometry of autonomous_driving.cpp,  *)
(* the joystick arithmetic of gui_helper.hpp.  A detection, or an          *)
(* operator, gives a joystick position, and that a message to the rover.   *)
(*                                                                         *)
(* Lengths are pixels and the integer operations are those of C++.         *)
(* A float that is converted to int may come out one too small where the   *)
(* exact quotient is an integer; sine, cosine and arc tangent are left out.*)
(***************************************************************************)
EXTENDS Integers, Sequences

CONSTANTS
    Scenes,     \* the detections that are tried
    JoyValues   \* the operator's joystick coordinates that are tried

Objects == [bottle : BOOLEAN, cx : Int, cy : Int, width : Nat, height : Nat]

(* The network's outputs for a centre are sigmoids: shares of the frame. *)
InFrame(o, frame) == o.cx \in 0 .. frame[1] /\ o.cy \in 0 .. frame[2]

ASSUME SteeringAssumption ==
    /\ Scenes \subseteq [frame : (Nat \ {0}) \X (Nat \ {0}), objects : Seq(Objects)]
    /\ \A s \in Scenes :
          /\ s.frame[1] >= 2 /\ s.frame[2] >= 2
          /\ \A i \in DOMAIN s.objects : InFrame(s.objects[i], s.frame)
    /\ JoyValues \subseteq -100 .. 100

VARIABLES
    scene,     \* the detection: frame size, and what the network has found
    joystick,  \* the position computed from it, or the operator's
    told       \* the message to the rover

vars == <<scene, joystick, told>>

Untold == [command |-> "none"]
NoScene == [frame |-> <<0, 0>>, objects |-> <<>>]

Abs(n) == IF n < 0 THEN -n ELSE n
Trunc(a, b) == IF a < 0 THEN -((-a) \div b) ELSE a \div b

-----------------------------------------------------------------------------
(* object_detection.cpp: a box from the network's centre and size. *)
BoxOf(o) == [x |-> o.cx - Trunc(o.width, 2), y |-> o.cy - Trunc(o.height, 2),
             width |-> o.width, height |-> o.height]

(* autonomous_driving.cpp *)

CornerOf(box) == <<box.x, box.y>>                                   \* fault
calculateBoxCenter(box) ==
    <<box.x + Trunc(box.width, 2), box.y + Trunc(box.height, 2)>>

isObjectCentered(x, frame) == 10 * Abs(x - Trunc(frame[1], 2)) < frame[1]

isSizeInRange(width, frame) == 10 * width >= frame[1] /\ 10 * width <= 4 * frame[1]

(* static_cast<int>((double(d) / size) * 100) *)
Percent(d, size) ==
    LET p == Trunc(100 * d, size) IN
    IF 100 * d = p * size /\ p # 0 THEN {p, IF p > 0 THEN p - 1 ELSE p + 1} ELSE {p}

calculateJoystickPosition(center, frame) ==
    {<<-px, py>> : px \in Percent(Trunc(frame[1], 2) - center[1], frame[1]),
                   py \in Percent(Trunc(frame[2], 2) - center[2], frame[2])}

AnyOf(centered, inRange, p) ==
    IF centered \/ inRange THEN <<0, p[2]>> ELSE p                  \* fault
determineJoystickAction(centered, inRange, p) ==
    <<IF centered THEN 0 ELSE p[1], IF inRange THEN 0 ELSE p[2]>>

(* The first bottle of the list decides. *)
Bottles(s) == {i \in DOMAIN s.objects : s.objects[i].bottle}
First(s) == s.objects[CHOOSE i \in Bottles(s) : \A j \in Bottles(s) : i <= j]

(* The joystick positions that may come out for an object. *)
PositionsFor(o, frame) ==
    LET box == BoxOf(o)
        center == calculateBoxCenter(box)
    IN {determineJoystickAction(isObjectCentered(center[1], frame),
                                isSizeInRange(box.width, frame), p) :
           p \in calculateJoystickPosition(center, frame)}

interpretLatestDetection(s) ==
    IF Bottles(s) = {} THEN {<<0, 0>>} ELSE PositionsFor(First(s), s.frame)

(* The limits of the angle, whose result formatCommand discards. *)

Boundaries(limit) == {90 - limit, 90 + limit, 270 - limit, 270 + limit}

isAngleWithinLimits(angle, limit) ==
    \E ref \in {90, 270} : angle >= ref - limit /\ angle <= ref + limit

(* Of two boundaries equally near the first in the code's order is taken. *)
adjustAngleToBoundary(angle, limit) ==
    IF isAngleWithinLimits(angle, limit) THEN angle
    ELSE LET Near(b) == \A c \in Boundaries(limit) : Abs(angle - b) <= Abs(angle - c)
             near == {b \in Boundaries(limit) : Near(b)}
         IN CHOOSE b \in near : \A c \in near : b <= c

-----------------------------------------------------------------------------
(* gui_helper.hpp *)

map(v, inMin, inMax, outMin, outMax) ==
    Trunc((v - inMin) * (outMax - outMin), inMax - inMin) + outMin

direction_from_velocity(v) == IF v > 0 THEN 1 ELSE IF v < 0 THEN 2 ELSE 0

NotFlipped(x, y) == x                                               \* fault
Flipped(x, y) == IF y < 0 THEN -x ELSE x

(* The velocities with their signs. *)
LeftVelocity(x, y) == Trunc((y + Flipped(x, y)) * 255, 200)
RightVelocity(x, y) == Trunc((y - Flipped(x, y)) * 255, 200)

joystick_to_raw_motors(x, y) ==
    [left_direction |-> direction_from_velocity(LeftVelocity(x, y)),
     left_velocity |-> Abs(LeftVelocity(x, y)),
     right_direction |-> direction_from_velocity(RightVelocity(x, y)),
     right_velocity |-> Abs(RightVelocity(x, y))]

(* hypot(x, y) * MAX_SPEED / 100 *)
SpeedOf(x, y) ==
    CHOOSE s \in 0 .. 361 : /\ 10000 * s * s <= 65025 * (x * x + y * y)
                            /\ 10000 * (s + 1) * (s + 1) > 65025 * (x * x + y * y)

joystick_to_camera(x, y) ==
    [tilt |-> IF x = 0 THEN 35 ELSE map(x, -100, 100, 0, 70),
     pan |-> IF y = 0 THEN 45 ELSE map(y, -100, 100, 0, 90)]

(* createRoverMessage for joystick_rover and joystick_camera. *)
RoverMessage(x, y) ==
    IF x = 0 /\ y = 0 THEN [command |-> "stop"]
    ELSE [command |-> "move", speed |-> SpeedOf(x, y),
          motors |-> joystick_to_raw_motors(x, y)]

CameraMessage(x, y) ==
    [command |-> IF x = 0 /\ y = 0 THEN "reset_camera" ELSE "",
     servo |-> joystick_to_camera(x, y)]

-----------------------------------------------------------------------------
Init == scene = NoScene /\ joystick = <<0, 0>> /\ told = Untold

(* formatCommand leaves the joystick as it is. *)
Drive ==
    /\ scene' \in Scenes
    /\ joystick' \in interpretLatestDetection(scene')
    /\ told' = RoverMessage(joystick'[1], joystick'[2])

Operate ==
    /\ \E x, y \in JoyValues :
         /\ joystick' = <<x, y>>
         /\ told' \in {RoverMessage(x, y), CameraMessage(x, y)}
    /\ scene' = NoScene

Next == told = Untold /\ (Drive \/ Operate)

Spec == Init /\ [][Next]_vars

-----------------------------------------------------------------------------
Motors == [left_direction : 0 .. 2, left_velocity : 0 .. 255,
           right_direction : 0 .. 2, right_velocity : 0 .. 255]

(* The message's fields are in the ranges of gui_helper.hpp (lines 12-20):  *)
(* velocities fit into a byte, the servos stay within their travel, and the *)
(* driver's speed stays within MAX_SPEED although its limits are not        *)
(* applied, which the speed of an operator's joystick in a corner does not. *)
TypeOK ==
    \/ told.command \in {"none", "stop"}
    \/ /\ told.command = "move" /\ told.motors \in Motors
       /\ told.speed \in Nat /\ (scene # NoScene => told.speed <= 255)
    \/ /\ told.command \in {"", "reset_camera"}
       /\ told.servo \in [tilt : 0 .. 70, pan : 0 .. 90]

Offset == First(scene).cx - Trunc(scene.frame[1], 2)
SeesBottle == Bottles(scene) # {}

(* How the motors turn the rover: positive is to the right. *)
Turn == LeftVelocity(joystick[1], joystick[2]) - RightVelocity(joystick[1], joystick[2])

(* Driving forward or turning on the spot, the rover turns to the side on    *)
(* which the network saw the bottle, never to the other; backing up it turns *)
(* the other way, because the x axis is flipped for the operator's sake      *)
(* (lines 255-284 of autonomous_driving.cpp, 116-122 of gui_helper.hpp).     *)
TurnsToBottle ==
    SeesBottle /\ told.command = "move" =>
        IF joystick[2] >= 0 THEN Turn * Offset >= 0 ELSE Turn * Offset <= 0

(* The rover is not told to stop while the bottle is off centre: a turn *)
(* that the tolerance asks for is not rounded away (lines 223-242,      *)
(* 255-284 of autonomous_driving.cpp).                                  *)
OffCentreNeverStops ==
    SeesBottle /\ told.command = "stop" => 10 * Abs(Offset) < scene.frame[1]

Distance(a, b) == LET d == Abs(a - b) IN IF d > 180 THEN 360 - d ELSE d

(* An angle out of the limits becomes the limit that is nearest on the *)
(* circle, although the code compares on the line (lines 102-133 of    *)
(* autonomous_driving.cpp).                                            *)
AdjustsToNearest ==
    \A limit \in 0 .. 90 : \A angle \in 0 .. 359 :
        LET adjusted == adjustAngleToBoundary(angle, limit) IN
        /\ isAngleWithinLimits(adjusted, limit)
        /\ \A b \in Boundaries(limit) :
             Distance(angle, adjusted) <= Distance(angle, b)
=============================================================================
