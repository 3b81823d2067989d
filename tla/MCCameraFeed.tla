---------------------------- MODULE MCCameraFeed ----------------------------
(* An instance of the camera's path with time for a picture to expire. *)
EXTENDS CameraFeed
=============================================================================
