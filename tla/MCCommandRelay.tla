--------------------------- MODULE MCCommandRelay ---------------------------
(* Manual control: a joystick that moves the rover and is let go, and one *)
(* that looks ahead again.                                                *)
EXTENDS CommandRelay

SomeInputs == {"steer", "centre", "lookAhead"}
ManualExempt == {"stop", "reset_camera"}
=============================================================================
