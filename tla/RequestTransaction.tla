--------------------------- MODULE RequestTransaction ---------------------------
(***************************************************************************)
(* One Postgres transaction per write request: TransactionInterceptor      *)
(* opens it, the use-case saves its entity and publishes its event through *)
(* repositories that join it, AuditInterceptor fires one more INSERT       *)
(* without awaiting it, and the transaction is committed when the handler  *)
(* resolves, rolled back when it rejects.                                  *)
(*                                                                         *)
(* A request stands for its own data: base[r] is what the database holds   *)
(* of it.  The server's rule is modelled as it is: a statement that fails  *)
(* aborts the transaction, every later statement fails, and COMMIT then    *)
(* answers without an error although it rolls back.                        *)
(***************************************************************************)
EXTENDS Naturals, FiniteSets

CONSTANTS
    Requetes,     \* write requests
    Auditees,     \* those whose endpoint carries @AuditAction
    PoolSize,     \* connections of the pool
    MaxFautes     \* bound: statements that fail and process crashes

ASSUME RequeteAssumption ==
    /\ IsFiniteSet(Requetes) /\ Auditees \subseteq Requetes
    /\ PoolSize \in Nat \ {0} /\ MaxFautes \in Nat

VARIABLES
    phase,      \* request |-> where it is
    avortee,    \* requests whose open transaction the server has aborted
    ecritures,  \* request |-> rows its open transaction has written
    base,       \* request |-> rows committed
    auditEnVol, \* requests whose AuditInterceptor INSERT is still to be sent
    reponse,    \* request |-> what the client was told
    nonPublie,  \* requests whose event INSERT failed, and was only logged
    fautes      \* failures so far

vars == <<phase, avortee, ecritures, base, auditEnVol, reponse, nonPublie, fautes>>

Lignes == {"metier", "evenement", "audit"}

EnCours == {"use_case", "sauve", "publie", "resolu", "rejete"}

TypeOK ==
    /\ phase \in [Requetes -> EnCours \union {"recue", "finie"}]
    /\ avortee \subseteq {r \in Requetes : phase[r] \in EnCours}
    /\ ecritures \in [Requetes -> SUBSET Lignes]
    /\ base \in [Requetes -> SUBSET Lignes]
    /\ auditEnVol \subseteq Auditees
    /\ reponse \in [Requetes -> {"aucune", "succes", "erreur"}]
    /\ nonPublie \subseteq Requetes
    /\ fautes \in 0..MaxFautes

Init ==
    /\ phase = [r \in Requetes |-> "recue"]
    /\ avortee = {}
    /\ ecritures = [r \in Requetes |-> {}]
    /\ base = [r \in Requetes |-> {}]
    /\ auditEnVol = {}
    /\ reponse = [r \in Requetes |-> "aucune"]
    /\ nonPublie = {}
    /\ fautes = 0

Faute == fautes < MaxFautes /\ fautes' = fautes + 1

Aller(r, p) == phase' = [phase EXCEPT ![r] = p]

Ecrire(r, l) == ecritures' = [ecritures EXCEPT ![r] = @ \union {l}]

(* The requests that hold a connection.                                    *)
Connexions == {r \in Requetes : phase[r] \in EnCours}

-----------------------------------------------------------------------------
(* runInTransaction: a connection is taken from the pool and BEGIN sent.   *)
begin(r) ==
    /\ phase[r] = "recue"
    /\ Cardinality(Connexions) < PoolSize
    /\ Aller(r, "use_case")
    /\ UNCHANGED <<avortee, ecritures, base, auditEnVol, reponse, nonPublie, fautes>>

(* The repository writes through the transaction of the request.           *)
save(r) ==
    /\ phase[r] = "use_case"
    /\ Ecrire(r, "metier")
    /\ Aller(r, "sauve")
    /\ UNCHANGED <<avortee, base, auditEnVol, reponse, nonPublie, fautes>>

saveEchoue(r) ==
    /\ phase[r] = "use_case" /\ Faute
    /\ avortee' = avortee \union {r}
    /\ Aller(r, "rejete")
    /\ UNCHANGED <<ecritures, base, auditEnVol, reponse, nonPublie>>

(* Mutant: AuditInterceptor also publishes for handlers that reject.       *)
useCaseRejeteAudite(r) ==
    /\ phase[r] \in {"use_case", "sauve", "publie"}
    /\ auditEnVol' = IF r \in Auditees THEN auditEnVol \union {r} ELSE auditEnVol
    /\ Aller(r, "rejete")
    /\ UNCHANGED <<avortee, ecritures, base, reponse, nonPublie, fautes>>

(* The use-case throws: before, between or after its save and its event.   *)
useCaseRejete(r) ==
    /\ phase[r] \in {"use_case", "sauve", "publie"}
    /\ Aller(r, "rejete")
    /\ UNCHANGED <<avortee, ecritures, base, auditEnVol, reponse, nonPublie, fautes>>

(* Mutant: the outbox repository does not join the transaction.            *)
publishHorsTransaction(r) ==
    /\ phase[r] = "sauve"
    /\ base' = [base EXCEPT ![r] = @ \union {"evenement"}]
    /\ Aller(r, "publie")
    /\ UNCHANGED <<avortee, ecritures, auditEnVol, reponse, nonPublie, fautes>>

publish(r) ==
    /\ phase[r] = "sauve"
    /\ Ecrire(r, "evenement")
    /\ Aller(r, "publie")
    /\ UNCHANGED <<avortee, base, auditEnVol, reponse, nonPublie, fautes>>

(* The outbox INSERT fails: the catch block of publish only logs, but the  *)
(* server has aborted the transaction.                                     *)
publishEchoue(r) ==
    /\ phase[r] = "sauve" /\ Faute
    /\ avortee' = avortee \union {r}
    /\ nonPublie' = nonPublie \union {r}
    /\ Aller(r, "publie")
    /\ UNCHANGED <<ecritures, base, auditEnVol, reponse>>

(* The handler's value reaches AuditInterceptor's tap, which calls publish *)
(* without awaiting it, then firstValueFrom.                               *)
useCaseResolu(r) ==
    /\ phase[r] = "publie"
    /\ auditEnVol' = IF r \in Auditees THEN auditEnVol \union {r} ELSE auditEnVol
    /\ Aller(r, "resolu")
    /\ UNCHANGED <<avortee, ecritures, base, reponse, nonPublie, fautes>>

(* The un-awaited INSERT is sent before the COMMIT.                        *)
auditAvantCommit(r) ==
    /\ phase[r] = "resolu" /\ r \in auditEnVol
    /\ auditEnVol' = auditEnVol \ {r}
    /\ \/ r \notin avortee /\ Ecrire(r, "audit") /\ UNCHANGED <<avortee, fautes>>
       \/ r \in avortee /\ UNCHANGED <<ecritures, avortee, fautes>>
       \/ r \notin avortee /\ Faute /\ avortee' = avortee \union {r} /\ UNCHANGED ecritures
    /\ UNCHANGED <<phase, base, reponse, nonPublie>>

(* ... or after it: as a statement of its own if the connection is still   *)
(* the request's, refused if it was released.                              *)
auditApresCommit(r) ==
    /\ phase[r] = "finie" /\ r \in auditEnVol
    /\ auditEnVol' = auditEnVol \ {r}
    /\ base' \in {base, [base EXCEPT ![r] = @ \union {"audit"}]}
    /\ UNCHANGED <<phase, avortee, ecritures, reponse, nonPublie, fautes>>

(* Mutant: the connection is released in its aborted state.                *)
LibererAvortee(r) ==
    /\ Aller(r, "finie")
    /\ ecritures' = [ecritures EXCEPT ![r] = {}]
    /\ UNCHANGED avortee

(* The connection goes back to the pool, its transaction over.             *)
Liberer(r) ==
    /\ Aller(r, "finie")
    /\ avortee' = avortee \ {r}
    /\ ecritures' = [ecritures EXCEPT ![r] = {}]

Valider(r) == base' = [base EXCEPT ![r] = @ \union ecritures[r]]

(* COMMIT: of an aborted transaction it is a ROLLBACK that succeeds.       *)
commit(r) ==
    /\ phase[r] = "resolu"
    /\ IF r \in avortee THEN UNCHANGED base ELSE Valider(r)
    /\ reponse' = [reponse EXCEPT ![r] = "succes"]
    /\ Liberer(r)
    /\ UNCHANGED <<auditEnVol, nonPublie, fautes>>

(* COMMIT rejects (a connection lost before or after it was applied).      *)
commitEchoue(r) ==
    /\ phase[r] = "resolu" /\ Faute
    /\ \/ UNCHANGED base
       \/ r \notin avortee /\ Valider(r)
    /\ reponse' = [reponse EXCEPT ![r] = "erreur"]
    /\ auditEnVol' = auditEnVol \ {r}
    /\ Liberer(r)
    /\ UNCHANGED nonPublie

(* Mutants: the exception handler commits, or never releases.              *)
rollbackValide(r) ==
    /\ phase[r] = "rejete" /\ r \notin avortee
    /\ Valider(r)
    /\ reponse' = [reponse EXCEPT ![r] = "erreur"]
    /\ Liberer(r)
    /\ UNCHANGED <<auditEnVol, nonPublie, fautes>>
rollbackSansRelease(r) ==
    /\ phase[r] = "rejete"
    /\ reponse' = [reponse EXCEPT ![r] = "erreur"]
    /\ UNCHANGED <<phase, avortee, ecritures, base, auditEnVol, nonPublie, fautes>>

rollback(r) ==
    /\ phase[r] = "rejete"
    /\ reponse' = [reponse EXCEPT ![r] = "erreur"]
    /\ Liberer(r)
    /\ UNCHANGED <<base, auditEnVol, nonPublie, fautes>>

(* The process stops: the server rolls every open transaction back, and    *)
(* the clients get no answer.                                              *)
arret ==
    /\ Connexions # {} /\ Faute
    /\ phase' = [r \in Requetes |-> IF r \in Connexions THEN "finie" ELSE phase[r]]
    /\ avortee' = {} /\ auditEnVol' = {}
    /\ ecritures' = [r \in Requetes |-> {}]
    /\ UNCHANGED <<base, reponse, nonPublie>>

-----------------------------------------------------------------------------
Etape(r) ==
    \/ save(r) \/ saveEchoue(r) \/ useCaseRejete(r) \/ publish(r) \/ publishEchoue(r)
    \/ useCaseResolu(r) \/ commit(r) \/ commitEchoue(r) \/ rollback(r)

Next ==
    \/ \E r \in Requetes : begin(r) \/ Etape(r) \/ auditAvantCommit(r) \/ auditApresCommit(r)
    \/ arret

Spec == Init /\ [][Next]_vars

Fairness == \A r \in Requetes : WF_vars(begin(r)) /\ WF_vars(Etape(r))

FairSpec == Spec /\ Fairness

-----------------------------------------------------------------------------
(* The mutation and its event are committed together or not at all,        *)
(* whichever statement failed and whatever was swallowed on the way.       *)
Atomicite == \A r \in Requetes : "metier" \in base[r] <=> "evenement" \in base[r]

(* A request that failed left nothing behind, unless it is the COMMIT      *)
(* itself whose answer was lost: what a use-case saves before it throws is *)
(* gone, its events included.                                              *)
RejetSansTrace ==
    [][\A r \in Requetes : phase[r] = "rejete" => base'[r] = {}]_vars

(* An audit line is kept for a mutation that was rolled back only when the *)
(* transaction was aborted under a resolved handler.                       *)
AuditDeMutation ==
    \A r \in Requetes :
        "audit" \in base[r] => "metier" \in base[r] \/ r \in nonPublie

(* Connections are not leaked: every request gets its turn, and ends, with *)
(* fewer connections than requests.                                        *)
TouteRequeteFinit == \A r \in Requetes : <>(phase[r] = "finie")

(* The claim of OutboxEventPublisherService: a failed outbox INSERT does   *)
(* not make the use-case fail, only the event is lost.                     *)
SeulEvenementPerdu ==
    \A r \in Requetes : r \in nonPublie /\ reponse[r] = "succes" => "metier" \in base[r]
=============================================================================
