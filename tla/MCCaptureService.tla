-------------------------- MODULE MCCaptureService --------------------------
(* Instances of CaptureService for TLC: the constants are in the .cfg files. *)
EXTENDS CaptureService
=============================================================================
