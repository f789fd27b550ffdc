-------------------------- MODULE MCRequestTransaction --------------------------
(* The instances of RequestTransaction that TLC checks.  Liveness is       *)
(* checked in the same run, so no symmetry is used.                        *)
EXTENDS RequestTransaction
=============================================================================
