------------------------- MODULE MCAutomatedDriving -------------------------
(* An instance of automated driving in which a detection is used again. *)
EXTENDS AutomatedDriving
=============================================================================
