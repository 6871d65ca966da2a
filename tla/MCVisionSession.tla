-------------------------- MODULE MCVisionSession --------------------------
(* Instances of VisionSession for TLC. *)
EXTENDS VisionSession
============================================================================
