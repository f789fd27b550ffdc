---------------------------- MODULE MCAuditConsumer ----------------------------
(* The instances of AuditConsumer that TLC checks.                         *)
EXTENDS AuditConsumer, TLC

CycleSymmetry == Permutations(Cycles)
=============================================================================
