-------------------------- MODULE MCObjectDetection --------------------------
(* An instance of the object detector that sees detections grow too old. *)
EXTENDS ObjectDetection
=============================================================================
