---------------------------- MODULE MCEventPipeline ----------------------------
(* The instances of EventPipeline that TLC checks.                         *)
EXTENDS EventPipeline
=============================================================================
