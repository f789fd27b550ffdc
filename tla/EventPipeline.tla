----------------------------- MODULE EventPipeline -----------------------------
(***************************************************************************)
(* The event bus from end to end: the Outbox relays and the audit consumer *)
(* of the same instances, joined by the Redis stream.  It implements       *)
(* EventLedger.                                                            *)
(***************************************************************************)
EXTENDS Integers, FiniteSets, Sequences

CONSTANTS
    Events, Instances,
    Poison, Dates, RelayBatchSize, MaxRetries, MaxTentatives, MaxFaults,
    Illisibles, SansId, Cycles, Operateurs, BatchSize, MaxDeliveries, MaxStream,
    MaxFautes

VARIABLES
    statut, tentatives, creeLe, lotRelais, aMarquer, aCompter, fautesRelais,
    stream,
    groupe, dernierLu, pending, livraisons, idle, lot, trop, etape,
    audit, dlq, rejoues, rejeu, fautes, fautesArchive

Relais == INSTANCE OutboxRelay
    WITH Relays <- Instances, BatchSize <- RelayBatchSize,
         lot <- lotRelais, fautes <- fautesRelais

Consommateur == INSTANCE AuditConsumer

relaisVars == <<statut, tentatives, creeLe, lotRelais, aMarquer, aCompter, fautesRelais>>
consommateurVars == <<groupe, dernierLu, pending, livraisons, idle, lot, trop, etape,
                      audit, dlq, rejoues, rejeu, fautes, fautesArchive>>
vars == <<relaisVars, stream, consommateurVars>>

Init == Relais!Init /\ Consommateur!Init

(* The relays write the stream, the consumers read it.                     *)
Next ==
    \/ Relais!Next /\ UNCHANGED consommateurVars
    \/ Consommateur!ConsumerNext /\ UNCHANGED relaisVars

Spec == Init /\ [][Next]_vars

FairSpec == Spec /\ Relais!Fairness /\ Consommateur!Fairness

-----------------------------------------------------------------------------
Engage(e) == statut[e] # "absente"
Archive(e) == \E d \in dlq : stream[d[1]] = e

(* What the tables and the stream mean to the ledger.                      *)
Ledger == INSTANCE EventLedger
    WITH engages <- {e \in Events : Engage(e)},
         diffuses <- {e \in Events : Relais!InStream(e)},
         audites <- audit,
         archives <- {e \in Events : Archive(e)}

(* The pipeline implements the ledger, in spite of the duplicates of the   *)
(* relay, the redeliveries of the group, crashes and failed calls.         *)
ImplementsLedger == Ledger!Spec

(* From the commit to the audit trail: once the consumer group exists, an  *)
(* event not yet on the bus ends up audited or archived, or its row is     *)
(* given up by the relay for the operators to see.                         *)
BoutEnBout ==
    \A e \in Events :
        (Engage(e) /\ groupe /\ ~Relais!InStream(e)) ~>
            (audit[e] = 1 \/ Archive(e) \/ statut[e] = "echec")
=============================================================================
