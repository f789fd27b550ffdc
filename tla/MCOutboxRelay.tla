---------------------------- MODULE MCOutboxRelay ----------------------------
(* The instance of OutboxRelay that TLC checks: two rows that can never be *)
(* published fill a batch.  No symmetry, for liveness is checked too.      *)
EXTENDS OutboxRelay
=============================================================================
