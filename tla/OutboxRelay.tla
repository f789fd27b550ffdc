------------------------------ MODULE OutboxRelay ------------------------------
(***************************************************************************)
(* The Transactional Outbox relay (OutboxRelayService) of one or several   *)
(* kernel instances: the table evenement_outbox, the background cycle that *)
(* moves its rows to the shared Redis stream, and the sweep that gives up  *)
(* on rows whose publication failed too often.                             *)
(*                                                                         *)
(* A row is known by the event it carries.  Every await of the relay is a  *)
(* step of its own, so the cycles of several instances and the sweep       *)
(* interleave between any two of them.  A failing call (XADD, UPDATE) or a *)
(* crash of the process consumes one unit of the budget MaxFaults.         *)
(***************************************************************************)
EXTENDS Integers, FiniteSets, Sequences

CONSTANTS
    Events,         \* the events (outbox row ids) that requests may commit
    Relays,         \* the kernel instances, each with its own OutboxRelayService
    Poison,         \* events whose XADD is refused whatever the state of Redis
    Dates,          \* the values of creeLe (several instances, several clocks)
    BatchSize,      \* outbox.batchSize
    MaxRetries,     \* outbox.maxRetries
    MaxTentatives,  \* bound: where the model stops counting tentatives
    MaxFaults       \* bound: failed calls and crashes in one behaviour

ASSUME RelayAssumption ==
    /\ IsFiniteSet(Events) /\ IsFiniteSet(Relays)
    /\ Poison \subseteq Events
    /\ Dates \subseteq Nat /\ Dates # {}
    /\ BatchSize \in Nat \ {0}
    /\ MaxRetries \in Nat \ {0}
    /\ MaxTentatives \in Nat /\ MaxTentatives >= MaxRetries
    /\ MaxFaults \in Nat

VARIABLES
    statut,      \* row |-> its column statut, "absente" before the commit
    tentatives,  \* row |-> its column tentatives
    creeLe,      \* row |-> its column cree_le
    stream,      \* the Redis stream, as the sequence of the outboxIds added
    lot,         \* relay |-> rows of the current cycle that are still to be relayed
    aMarquer,    \* relay |-> the row whose XADD succeeded, before markPublished
    aCompter,    \* relay |-> the row whose relay failed, before markFailedAttempt
    fautes       \* failures so far

rowVars == <<statut, tentatives, creeLe>>
relayVars == <<lot, aMarquer, aCompter>>
vars == <<rowVars, stream, relayVars, fautes>>

StatutOutbox == {"en_attente", "publie", "echec"}

TypeOK ==
    /\ statut \in [Events -> StatutOutbox \union {"absente"}]
    /\ tentatives \in [Events -> 0..MaxTentatives]
    /\ creeLe \in [Events -> Dates]
    /\ stream \in Seq(Events)
    /\ lot \in [Relays -> SUBSET Events]
    /\ aMarquer \in [Relays -> SUBSET Events]
    /\ aCompter \in [Relays -> SUBSET Events]
    /\ fautes \in 0..MaxFaults

Init ==
    /\ statut = [e \in Events |-> "absente"]
    /\ tentatives = [e \in Events |-> 0]
    /\ creeLe \in [Events -> Dates]
    /\ stream = <<>>
    /\ lot = [r \in Relays |-> {}]
    /\ aMarquer = [r \in Relays |-> {}]
    /\ aCompter = [r \in Relays |-> {}]
    /\ fautes = 0

InStream(e) == \E i \in 1..Len(stream) : stream[i] = e

Copies(e) == Cardinality({i \in 1..Len(stream) : stream[i] = e})

EnAttente == {e \in Events : statut[e] = "en_attente"}

Faute == fautes < MaxFaults /\ fautes' = fautes + 1

UnDePlus(n) == IF n < MaxTentatives THEN n + 1 ELSE n

cycleEnCours(r) == lot[r] # {}

(* No call of relayOne is in flight: the for loop is between two rows.     *)
EntreDeuxLignes(r) == aMarquer[r] = {} /\ aCompter[r] = {}

-----------------------------------------------------------------------------
(* The row becomes visible: the request's transaction committed.  creeLe   *)
(* was set before the commit, by the clock of the publishing instance, so  *)
(* nothing relates it to the order of the commits.                         *)
insert(e) ==
    /\ statut[e] = "absente"
    /\ statut' = [statut EXCEPT ![e] = "en_attente"]
    /\ UNCHANGED <<tentatives, creeLe, stream, relayVars, fautes>>

(* The oldest pending rows, at most BatchSize of them.  Rows of the same   *)
(* date come in any order.                                                 *)
findPendingBatch(S) ==
    /\ S \subseteq EnAttente
    /\ Cardinality(S) <= BatchSize
    /\ S = EnAttente \/ Cardinality(S) = BatchSize
    /\ \A e \in S, f \in EnAttente \ S : creeLe[e] <= creeLe[f]

runCycle(r) ==
    /\ ~cycleEnCours(r)
    /\ EnAttente # {}
    /\ \E S \in SUBSET EnAttente :
          findPendingBatch(S) /\ lot' = [lot EXCEPT ![r] = S]
    /\ UNCHANGED <<rowVars, stream, aMarquer, aCompter, fautes>>

(* The row the for loop hands to relayOne next: the oldest of the batch.   *)
Suivante(r, e) ==
    /\ e \in lot[r]
    /\ EntreDeuxLignes(r)
    /\ \A f \in lot[r] : creeLe[e] <= creeLe[f]

relayOne(r, e) ==
    /\ Suivante(r, e)
    /\ e \notin Poison
    /\ stream' = Append(stream, e)
    /\ aMarquer' = [aMarquer EXCEPT ![r] = {e}]
    /\ UNCHANGED <<rowVars, lot, aCompter, fautes>>

(* Mutant: the error of XADD is swallowed, and the row marked.             *)
relayOneAvaleErreur(r, e) ==
    /\ Suivante(r, e) /\ Faute
    /\ aMarquer' = [aMarquer EXCEPT ![r] = {e}]
    /\ UNCHANGED <<rowVars, stream, lot, aCompter>>

(* The XADD is rejected: before it reached Redis, or (when the connection  *)
(* broke while the answer was due) after the entry was added.              *)
relayOneEchoue(r, e) ==
    /\ Suivante(r, e)
    /\ \/ e \in Poison /\ UNCHANGED <<stream, fautes>>
       \/ e \notin Poison /\ Faute /\ UNCHANGED stream
       \/ e \notin Poison /\ Faute /\ stream' = Append(stream, e)
    /\ aCompter' = [aCompter EXCEPT ![r] = {e}]
    /\ UNCHANGED <<rowVars, lot, aMarquer>>

(* Mutant: publieLe is set, statut is not.                                 *)
markPublishedSansStatut(r, e) ==
    /\ e \in aMarquer[r]
    /\ lot' = [lot EXCEPT ![r] = @ \ {e}]
    /\ aMarquer' = [aMarquer EXCEPT ![r] = {}]
    /\ UNCHANGED <<rowVars, stream, aCompter, fautes>>

(* UPDATE ... SET statut = 'publie' WHERE id: whatever statut has become.  *)
markPublished(r, e) ==
    /\ e \in aMarquer[r]
    /\ statut' = [statut EXCEPT ![e] = "publie"]
    /\ lot' = [lot EXCEPT ![r] = @ \ {e}]
    /\ aMarquer' = [aMarquer EXCEPT ![r] = {}]
    /\ UNCHANGED <<tentatives, creeLe, stream, aCompter, fautes>>

(* markPublished throws, its UPDATE applied or not: relayOne's catch block *)
(* counts a failed attempt although the entry is in the stream.            *)
markPublishedEchoue(r, e) ==
    /\ e \in aMarquer[r]
    /\ Faute
    /\ statut' \in {statut, [statut EXCEPT ![e] = "publie"]}
    /\ aMarquer' = [aMarquer EXCEPT ![r] = {}]
    /\ aCompter' = [aCompter EXCEPT ![r] = {e}]
    /\ UNCHANGED <<tentatives, creeLe, stream, lot>>

(* Mutant: only derniereErreur is updated, the attempt is not counted.     *)
markFailedAttemptSansCompte(r, e) ==
    /\ e \in aCompter[r]
    /\ lot' = [lot EXCEPT ![r] = @ \ {e}]
    /\ aCompter' = [aCompter EXCEPT ![r] = {}]
    /\ UNCHANGED <<rowVars, stream, aMarquer, fautes>>

(* Mutant: the row is put back in the queue whatever its status.           *)
markFailedAttemptRemetEnAttente(r, e) ==
    /\ e \in aCompter[r]
    /\ statut' = [statut EXCEPT ![e] = "en_attente"]
    /\ tentatives' = [tentatives EXCEPT ![e] = UnDePlus(@)]
    /\ lot' = [lot EXCEPT ![r] = @ \ {e}]
    /\ aCompter' = [aCompter EXCEPT ![r] = {}]
    /\ UNCHANGED <<creeLe, stream, aMarquer, fautes>>

markFailedAttempt(r, e) ==
    /\ e \in aCompter[r]
    /\ tentatives' = [tentatives EXCEPT ![e] = UnDePlus(@)]
    /\ lot' = [lot EXCEPT ![r] = @ \ {e}]
    /\ aCompter' = [aCompter EXCEPT ![r] = {}]
    /\ UNCHANGED <<statut, creeLe, stream, aMarquer, fautes>>

(* markFailedAttempt throws out of relayOne: its first statement applied   *)
(* or not, runCycle's catch block drops the rest of the batch.             *)
markFailedAttemptEchoue(r, e) ==
    /\ e \in aCompter[r]
    /\ Faute
    /\ tentatives' \in {tentatives, [tentatives EXCEPT ![e] = UnDePlus(@)]}
    /\ lot' = [lot EXCEPT ![r] = {}]
    /\ aCompter' = [aCompter EXCEPT ![r] = {}]
    /\ UNCHANGED <<statut, creeLe, stream, aMarquer>>

(* Mutant: the sweep writes a status the relay does not know.              *)
markPermanentlyFailedAutreStatut(max) ==
    statut' = [e \in Events |->
                 IF statut[e] = "en_attente" /\ tentatives[e] >= max
                 THEN "abandonne" ELSE statut[e]]

markPermanentlyFailed(max) ==
    statut' = [e \in Events |->
                 IF statut[e] = "en_attente" /\ tentatives[e] >= max
                 THEN "echec" ELSE statut[e]]

sweepPermanentFailures ==
    /\ markPermanentlyFailed(MaxRetries)
    /\ UNCHANGED <<tentatives, creeLe, stream, relayVars, fautes>>

(* The instance stops (onModuleDestroy, or a crash) and is started again:  *)
(* the batch and the call in flight are forgotten.                         *)
onModuleDestroy(r) ==
    /\ cycleEnCours(r)
    /\ Faute
    /\ lot' = [lot EXCEPT ![r] = {}]
    /\ aMarquer' = [aMarquer EXCEPT ![r] = {}]
    /\ aCompter' = [aCompter EXCEPT ![r] = {}]
    /\ UNCHANGED <<rowVars, stream>>

-----------------------------------------------------------------------------
(* The awaits of one row: each ends, with success or with an error.        *)
RelayStep(r) ==
    \E e \in Events :
        \/ relayOne(r, e)
        \/ relayOneEchoue(r, e)
        \/ markPublished(r, e)
        \/ markPublishedEchoue(r, e)
        \/ markFailedAttempt(r, e)
        \/ markFailedAttemptEchoue(r, e)

RelayNext ==
    \/ \E r \in Relays : runCycle(r) \/ RelayStep(r) \/ onModuleDestroy(r)
    \/ sweepPermanentFailures

Next == (\E e \in Events : insert(e)) \/ RelayNext

Spec == Init /\ [][Next]_vars

(* setInterval keeps calling runCycle and sweepPermanentFailures, and every *)
(* awaited call is settled.                                                 *)
Fairness ==
    /\ \A r \in Relays : WF_vars(runCycle(r)) /\ WF_vars(RelayStep(r))
    /\ WF_vars(sweepPermanentFailures)

FairSpec == Spec /\ Fairness

-----------------------------------------------------------------------------
(* A row is 'publie' only if its event is in the stream: an event is never *)
(* crossed off before it was handed to Redis (at-least-once).              *)
PublieDansFlux == \A e \in Events : statut[e] = "publie" => InStream(e)

(* The stream carries only events of committed rows: no message without    *)
(* the business mutation that produced it.                                 *)
FluxDepuisOutbox == \A e \in Events : InStream(e) => statut[e] # "absente"

(* Duplicates are paid for: besides one copy per kernel instance, every    *)
(* further copy of an event in the stream needs a failed call or a crash.  *)
CopiesBornees ==
    \A e \in Events : Copies(e) <= Cardinality(Relays) + fautes

(* A row is given up ('echec') only when MaxRetries attempts were counted. *)
EchecApresTentatives ==
    \A e \in Events : statut[e] = "echec" => tentatives[e] >= MaxRetries

(* 'publie' is final: neither the sweep nor a second instance that still   *)
(* holds the row in its batch takes it back.                               *)
PublieFinal ==
    [][\A e \in Events : statut[e] = "publie" => statut'[e] = "publie"]_vars

(* No row waits for ever, even behind rows that can never be published:    *)
(* it is published, or swept to 'echec'.                                   *)
AucuneLigneBloquee ==
    \A e \in Events : statut[e] = "en_attente" ~> statut[e] \in {"publie", "echec"}
=============================================================================
