----------------------------- MODULE AuditConsumer -----------------------------
(***************************************************************************)
(* The audit consumer (RedisStreamsConsumerService) and its use-cases: the *)
(* read loop and the claim cycles of every kernel instance share one Redis *)
(* consumer group, write audit_evenement rows, and archive the entries     *)
(* that keep failing in the dead-letter table evenement_en_echec, from     *)
(* which an operator may replay them.                                      *)
(*                                                                         *)
(* A stream entry is its position in the stream; it carries the event (the *)
(* outboxId) stream[i], and an event may be carried by several entries.    *)
(* Every await is a step of its own.  claimIdleMs is abstracted to a flag: *)
(* time may pass between any two steps.                                    *)
(***************************************************************************)
EXTENDS Integers, FiniteSets, Sequences

CONSTANTS
    Events,            \* the outboxIds the entries carry
    Illisibles,        \* events whose chargeUtile is not a JSON object
    SansId,            \* events without an outboxId the tables accept
    Instances,         \* the kernel instances
    Cycles,            \* claim cycles of one instance that may be in flight together
    Operateurs,        \* concurrent replay requests
    BatchSize,         \* audit.batchSize
    MaxDeliveries,     \* audit.maxDeliveries
    MaxStream,         \* bound: entries added to the stream
    MaxFautes          \* bound: failed calls and crashes

ASSUME ConsumerAssumption ==
    /\ IsFiniteSet(Instances) /\ IsFiniteSet(Cycles)
    /\ Illisibles \subseteq Events /\ SansId \subseteq Events
    /\ "lecture" \notin Cycles
    /\ BatchSize \in Nat \ {0} /\ MaxDeliveries \in Nat \ {0}
    /\ MaxStream \in Nat /\ MaxFautes \in Nat

VARIABLES
    stream,          \* the Redis stream: the outboxId of every entry
    groupe,          \* whether the consumer group exists
    dernierLu,       \* the group's last-delivered entry
    pending,         \* the group's pending entries list
    livraisons,      \* entry |-> its delivery count in the group
    idle,            \* pending entries idle for claimIdleMs or more
    lot,             \* worker |-> entries of its batch still to be handled
    trop,            \* worker |-> those whose count, when read, was over maxDeliveries
    etape,           \* worker |-> the await its next entry has reached
    audit,           \* event |-> number of its audit_evenement rows
    dlq,             \* the evenement_en_echec rows: entry and rank
    rejoues,         \* those whose rejoueLe is set
    rejeu,           \* operator |-> the replay in progress: row and dejaTraite
    fautes,          \* failed calls and crashes so far, but for
    fautesArchive    \* failed writes to the dead-letter table so far

groupVars == <<groupe, dernierLu, pending, livraisons, idle>>
workerVars == <<lot, trop, etape>>
dlqVars == <<dlq, rejoues, rejeu>>
fauteVars == <<fautes, fautesArchive>>
vars == <<stream, groupVars, workerVars, audit, dlqVars, fauteVars>>

Lecteurs == Instances \X {"lecture"}
Reclamations == Instances \X Cycles
Workers == Lecteurs \union Reclamations
Positions == 1..MaxStream

TypeOK ==
    /\ stream \in Seq(Events) /\ Len(stream) <= MaxStream
    /\ groupe \in BOOLEAN /\ dernierLu \in 0..MaxStream
    /\ idle \subseteq pending /\ pending \subseteq Positions
    /\ livraisons \in [Positions -> Nat]
    /\ lot \in [Workers -> SUBSET Positions]
    /\ trop \in [Workers -> SUBSET Positions]
    /\ etape \in [Workers -> {"reclamer", "execute", "save", "xack", "dlq_xack", "dlq_erreur"}]
    /\ audit \in [Events -> Nat]
    /\ dlq \subseteq Positions \X Nat /\ rejoues \subseteq dlq
    /\ rejeu \in [Operateurs -> SUBSET (dlq \X BOOLEAN)]
    /\ fautes \in Nat /\ fautesArchive \in Nat /\ fautes + fautesArchive <= MaxFautes

(* Where a worker that is done with an entry takes up the next one.        *)
Reprise(w) == IF w \in Lecteurs THEN "execute" ELSE "reclamer"

Init ==
    /\ stream = <<>>
    /\ groupe = FALSE /\ dernierLu = 0
    /\ pending = {} /\ idle = {}
    /\ livraisons = [i \in Positions |-> 0]
    /\ lot = [w \in Workers |-> {}]
    /\ trop = [w \in Workers |-> {}]
    /\ etape = [w \in Workers |-> Reprise(w)]
    /\ audit = [e \in Events |-> 0]
    /\ dlq = {} /\ rejoues = {}
    /\ rejeu = [o \in Operateurs |-> {}]
    /\ fautes = 0 /\ fautesArchive = 0

Faute ==
    fautes + fautesArchive < MaxFautes /\ fautes' = fautes + 1 /\ UNCHANGED fautesArchive
FauteArchive ==
    fautes + fautesArchive < MaxFautes /\ fautesArchive' = fautesArchive + 1 /\ UNCHANGED fautes

(* i is the entry worker w handles, and its next await is at step s.       *)
Tete(w, i, s) == i \in lot[w] /\ (\A j \in lot[w] : i <= j) /\ etape[w] = s

Aller(w, s) == etape' = [etape EXCEPT ![w] = s] /\ UNCHANGED <<lot, trop>>

(* The for loop goes on to the next entry of the batch.                    *)
Passer(w, i) ==
    /\ lot' = [lot EXCEPT ![w] = @ \ {i}]
    /\ trop' = [trop EXCEPT ![w] = @ \ {i}]
    /\ etape' = [etape EXCEPT ![w] = Reprise(w)]

(* The catch block of runClaimCycle drops the rest of the batch.           *)
Interrompre(w) ==
    /\ lot' = [lot EXCEPT ![w] = {}]
    /\ trop' = [trop EXCEPT ![w] = {}]
    /\ etape' = [etape EXCEPT ![w] = Reprise(w)]

-----------------------------------------------------------------------------
(* The producer: an entry is added to the stream.                          *)
xadd(e) ==
    /\ Len(stream) < MaxStream
    /\ stream' = Append(stream, e)
    /\ UNCHANGED <<groupVars, workerVars, audit, dlqVars, fauteVars>>

(* '$': the group starts after the entries the stream already has.         *)
ensureConsumerGroupExists ==
    /\ ~groupe
    /\ groupe' = TRUE
    /\ dernierLu' = Len(stream)
    /\ UNCHANGED <<stream, pending, livraisons, idle, workerVars, audit, dlqVars, fauteVars>>

(* claimIdleMs pass without a delivery of the pending entry i.             *)
Vieillir(i) ==
    /\ i \in pending \ idle
    /\ idle' = idle \union {i}
    /\ UNCHANGED <<stream, groupe, dernierLu, pending, livraisons, workerVars, audit,
                   dlqVars, fauteVars>>

(* XREADGROUP '>': the next entries, up to n, that nobody has read, each   *)
(* delivered once.                                                         *)
xreadgroup(n) ==
    /\ groupe /\ n \in (dernierLu + 1)..Len(stream)
    /\ n <= dernierLu + BatchSize
    /\ n = Len(stream) \/ n = dernierLu + BatchSize
    /\ dernierLu' = n
    /\ pending' = pending \union (dernierLu + 1)..n
    /\ livraisons' = [i \in Positions |-> IF i \in (dernierLu + 1)..n THEN 1 ELSE livraisons[i]]

runReadLoop(w) ==
    /\ lot[w] = {}
    /\ \E n \in Positions :
          xreadgroup(n) /\ lot' = [lot EXCEPT ![w] = (dernierLu + 1)..n]
    /\ UNCHANGED <<stream, groupe, idle, trop, etape, audit, dlqVars, fauteVars>>

(* The answer of XREADGROUP is lost: the entries are pending, unhandled.   *)
runReadLoopEchoue(w) ==
    /\ lot[w] = {} /\ Faute
    /\ \E n \in Positions : xreadgroup(n)
    /\ UNCHANGED <<stream, groupe, idle, workerVars, audit, dlqVars>>

(* Mutants: the limit is reached one delivery too early, or too late.      *)
shouldMoveTropTot(deliveryCount, maxDeliveries) == deliveryCount >= maxDeliveries
shouldMoveTropTard(deliveryCount, maxDeliveries) == deliveryCount > maxDeliveries + 1

shouldMoveToDeadLetter(deliveryCount, maxDeliveries) == deliveryCount > maxDeliveries

(* XPENDING IDLE: the oldest idle entries, with their counts of now.  The  *)
(* timer starts a cycle whether or not an earlier one is still running.    *)
runClaimCycle(w) ==
    /\ groupe /\ lot[w] = {} /\ idle # {}
    /\ \E S \in SUBSET idle :
          /\ Cardinality(S) <= BatchSize /\ (S = idle \/ Cardinality(S) = BatchSize)
          /\ \A i \in S, j \in idle \ S : i < j
          /\ lot' = [lot EXCEPT ![w] = S]
          /\ trop' = [trop EXCEPT ![w] =
                        {i \in S : shouldMoveToDeadLetter(livraisons[i], MaxDeliveries)}]
    /\ UNCHANGED <<stream, groupVars, etape, audit, dlqVars, fauteVars>>

(* XCLAIM with min-idle claimIdleMs: nothing is claimed when the entry was *)
(* acknowledged or delivered again since XPENDING.                         *)
xclaim(w, i) ==
    /\ Tete(w, i, "reclamer") /\ i \notin trop[w]
    /\ IF i \in idle
       THEN /\ idle' = idle \ {i}
            /\ livraisons' = [livraisons EXCEPT ![i] = @ + 1]
            /\ Aller(w, "execute")
       ELSE Passer(w, i) /\ UNCHANGED <<idle, livraisons>>
    /\ UNCHANGED <<stream, groupe, dernierLu, pending, audit, dlqVars, fauteVars>>

(* Mutant: the error of an unreadable payload is swallowed.                *)
executeAvaleErreur(w, i) ==
    /\ Tete(w, i, "execute")
    /\ IF audit[stream[i]] = 0 /\ stream[i] \notin Illisibles
       THEN Aller(w, "save") ELSE Aller(w, "xack")
    /\ UNCHANGED <<stream, groupVars, audit, dlqVars, fauteVars>>

(* existsByEvenementId and the checks of the message: it is refused, or    *)
(* known, or ready to be inserted.                                         *)
execute(w, i) ==
    /\ Tete(w, i, "execute")
    /\ LET e == stream[i] IN
       \/ e \in SansId /\ Passer(w, i)
       \/ e \notin SansId /\ audit[e] > 0 /\ Aller(w, "xack")
       \/ e \notin SansId /\ audit[e] = 0 /\ e \in Illisibles /\ Passer(w, i)
       \/ e \notin SansId /\ audit[e] = 0 /\ e \notin Illisibles /\ Aller(w, "save")
    /\ UNCHANGED <<stream, groupVars, audit, dlqVars, fauteVars>>

(* Mutant: no unique index.                                                *)
insertAuditSansIndex(e) == audit' = [audit EXCEPT ![e] = @ + 1]

(* INSERT under the unique index on evenement_id.                          *)
insertAudit(e) == audit' = [audit EXCEPT ![e] = IF @ = 0 THEN 1 ELSE @]

save(w, i) ==
    /\ Tete(w, i, "save")
    /\ insertAudit(stream[i])
    /\ Aller(w, "xack")
    /\ UNCHANGED <<stream, groupVars, dlqVars, fauteVars>>

(* Mutant: an acknowledged entry may still be claimed.                     *)
xackSansIdle(i) == pending' = pending \ {i} /\ UNCHANGED idle

xack(i) == pending' = pending \ {i} /\ idle' = idle \ {i}

acquitter(w, i) ==
    /\ Tete(w, i, "xack")
    /\ xack(i)
    /\ Passer(w, i)
    /\ UNCHANGED <<stream, groupe, dernierLu, livraisons, audit, dlqVars, fauteVars>>

(* A call of handleMessage fails, its effect applied or not: the catch     *)
(* block leaves the entry pending.                                         *)
handleMessageEchoue(w, i) ==
    /\ Faute
    /\ \/ Tete(w, i, "execute") /\ UNCHANGED <<pending, idle, audit>>
       \/ /\ Tete(w, i, "save") /\ UNCHANGED <<pending, idle>>
          /\ insertAudit(stream[i]) \/ UNCHANGED audit
       \/ /\ Tete(w, i, "xack") /\ UNCHANGED audit
          /\ xack(i) \/ UNCHANGED <<pending, idle>>
    /\ Passer(w, i)
    /\ UNCHANGED <<stream, groupe, dernierLu, livraisons, dlqVars>>

(* The next dead-letter row of entry i.                                    *)
Rang(i) == <<i, Cardinality({d \in dlq : d[1] = i}) + 1>>

moveEntryToDeadLetter(w, i) ==
    /\ Tete(w, i, "reclamer") /\ i \in trop[w]
    /\ stream[i] \notin SansId
    /\ dlq' = dlq \union {Rang(i)}
    /\ Aller(w, "dlq_xack")
    /\ UNCHANGED <<stream, groupVars, audit, rejoues, rejeu, fauteVars>>

(* XRANGE or the INSERT fails (always, without an identifier the column    *)
(* accepts): the finally block still acknowledges, then the error is       *)
(* thrown on.                                                              *)
moveEntryToDeadLetterEchoue(w, i) ==
    /\ Tete(w, i, "reclamer") /\ i \in trop[w]
    /\ \/ stream[i] \in SansId /\ UNCHANGED <<dlq, fauteVars>>
       \/ stream[i] \notin SansId /\ FauteArchive /\ dlq' \in {dlq, dlq \union {Rang(i)}}
    /\ Aller(w, "dlq_erreur")
    /\ UNCHANGED <<stream, groupVars, audit, rejoues, rejeu>>

finallyXack(w, i) ==
    /\ \/ Tete(w, i, "dlq_xack") /\ Passer(w, i)
       \/ Tete(w, i, "dlq_erreur") /\ Interrompre(w)
    /\ xack(i)
    /\ UNCHANGED <<stream, groupe, dernierLu, livraisons, audit, dlqVars, fauteVars>>

(* XCLAIM or the last XACK fails, its effect applied or not: the cycle is  *)
(* interrupted.                                                            *)
runClaimCycleEchoue(w, i) ==
    /\ Faute
    /\ \/ /\ Tete(w, i, "reclamer") /\ i \notin trop[w]
          /\ \/ UNCHANGED <<idle, livraisons>>
             \/ /\ i \in idle /\ idle' = idle \ {i}
                /\ livraisons' = [livraisons EXCEPT ![i] = @ + 1]
          /\ UNCHANGED pending
       \/ /\ Tete(w, i, "dlq_xack") \/ Tete(w, i, "dlq_erreur")
          /\ xack(i) \/ UNCHANGED <<pending, idle>>
          /\ UNCHANGED livraisons
    /\ Interrompre(w)
    /\ UNCHANGED <<stream, groupe, dernierLu, audit, dlqVars>>

(* The instance stops or crashes, and starts again under a new consumer    *)
(* name: its loops forget what they held.                                  *)
onModuleDestroy(n) ==
    /\ Faute
    /\ \E w \in Workers : w[1] = n /\ lot[w] # {}
    /\ lot' = [w \in Workers |-> IF w[1] = n THEN {} ELSE lot[w]]
    /\ trop' = [w \in Workers |-> IF w[1] = n THEN {} ELSE trop[w]]
    /\ etape' = [w \in Workers |-> IF w[1] = n THEN Reprise(w) ELSE etape[w]]
    /\ UNCHANGED <<stream, groupVars, audit, dlqVars>>

-----------------------------------------------------------------------------
(* ReplayDeadLetterUseCase, in the transaction of its request: findById,   *)
(* the check of rejoueLe, and existsByEvenementId.                         *)
replay(o, d) ==
    /\ rejeu[o] = {} /\ d \in dlq \ rejoues
    /\ rejeu' = [rejeu EXCEPT ![o] = {<<d, audit[stream[d[1]]] > 0>>}]
    /\ UNCHANGED <<stream, groupVars, workerVars, audit, dlq, rejoues, fauteVars>>

(* Mutant: marked as replayed without being processed.                     *)
replaySansTraitement(o) ==
    /\ \E r \in rejeu[o] : rejoues' = rejoues \union {r[1]}
    /\ rejeu' = [rejeu EXCEPT ![o] = {}]
    /\ UNCHANGED <<stream, groupVars, workerVars, audit, dlq, fauteVars>>

(* The archived payload is an object whatever the message carried.  When   *)
(* the event was audited meanwhile, the unique violation that save()       *)
(* swallows has aborted the transaction: the request fails, nothing stays. *)
replayCommit(o) ==
    /\ \E r \in rejeu[o] :
          LET e == stream[r[1][1]] IN
          \/ r[2] /\ rejoues' = rejoues \union {r[1]} /\ UNCHANGED audit
          \/ ~r[2] /\ audit[e] = 0 /\ rejoues' = rejoues \union {r[1]} /\ insertAudit(e)
          \/ ~r[2] /\ audit[e] > 0 /\ UNCHANGED <<rejoues, audit>>
    /\ rejeu' = [rejeu EXCEPT ![o] = {}]
    /\ UNCHANGED <<stream, groupVars, workerVars, dlq, fauteVars>>

-----------------------------------------------------------------------------
WorkerStep(w) ==
    \E i \in Positions :
        \/ xclaim(w, i) \/ execute(w, i) \/ save(w, i) \/ acquitter(w, i)
        \/ handleMessageEchoue(w, i)
        \/ moveEntryToDeadLetter(w, i) \/ moveEntryToDeadLetterEchoue(w, i)
        \/ finallyXack(w, i) \/ runClaimCycleEchoue(w, i)

ConsumerNext ==
    \/ ensureConsumerGroupExists
    \/ \E i \in Positions : Vieillir(i)
    \/ \E w \in Lecteurs : runReadLoop(w) \/ runReadLoopEchoue(w)
    \/ \E w \in Reclamations : runClaimCycle(w)
    \/ \E w \in Workers : WorkerStep(w)
    \/ \E n \in Instances : onModuleDestroy(n)
    \/ \E o \in Operateurs : replayCommit(o) \/ \E d \in dlq : replay(o, d)

Next == (\E e \in Events : xadd(e)) \/ ConsumerNext

Spec == Init /\ [][Next]_vars

(* Time passes, the loops keep polling, awaited calls are settled; the     *)
(* operator owes nothing.                                                  *)
Fairness ==
    /\ WF_vars(ensureConsumerGroupExists)
    /\ \A i \in Positions : WF_vars(Vieillir(i))
    /\ \A w \in Lecteurs : WF_vars(runReadLoop(w))
    /\ \A w \in Reclamations : WF_vars(runClaimCycle(w))
    /\ \A w \in Workers : WF_vars(WorkerStep(w))

FairSpec == Spec /\ Fairness

-----------------------------------------------------------------------------
Audite(i) == audit[stream[i]] > 0
Archive(i) == \E d \in dlq : d[1] = i

(* Entries the group has delivered and no longer remembers.                *)
Acquittees == {i \in Positions : livraisons[i] > 0 /\ i \notin pending}

(* At most one audit row per event: the check-then-insert races of         *)
(* readers, claim cycles and replays never store an event twice.           *)
AuditUnique == \A e \in Events : audit[e] <= 1

(* An entry leaves the group only once its event is audited or archived:   *)
(* an exception needs a failed write to the dead-letter table each time.   *)
PertesComptees ==
    Cardinality({i \in Acquittees : stream[i] \notin SansId /\ ~Audite(i) /\ ~Archive(i)})
        <= fautesArchive

(* Only entries delivered more than MaxDeliveries times are dead letters,  *)
(* although a cycle decides on counts it read earlier.                     *)
ArchiveApresEssais == \A d \in dlq : livraisons[d[1]] > MaxDeliveries

(* Claims stop: cycles with stale counts exceed the limit by at most one   *)
(* delivery each.  Concurrent cycles may archive an entry several times,   *)
(* but at most once per cycle, and again after a failure: a crash between  *)
(* the archive and the XACK costs one more row per cycle of the instance.  *)
ReprisesBornees ==
    \A i \in Positions :
        /\ livraisons[i] <= MaxDeliveries + Cardinality(Reclamations)
        /\ Cardinality({d \in dlq : d[1] = i})
              <= Cardinality(Reclamations) + Cardinality(Cycles) * fautes

(* A dead letter marked as replayed has its audit row, whoever wrote it.   *)
RejoueAudite == \A d \in rejoues : audit[stream[d[1]]] > 0

(* Every entry added after the group's creation ends up acknowledged with  *)
(* its event audited or archived, in spite of crashes, failed calls and    *)
(* unreadable entries before it, or lost to a write to the dead-letter     *)
(* table that failed; none stays with the group for ever.                  *)
ToujoursTraitee ==
    \A i \in Positions :
        groupe /\ dernierLu < i /\ i <= Len(stream) ~>
            i \in Acquittees /\ (Audite(i) \/ Archive(i) \/ fautesArchive > 0)

(* The claim of EvenementEnEchec: an event over the limit is never lost    *)
(* silently, always kept for investigation.                                *)
JamaisPerdu ==
    \A i \in Acquittees : Audite(i) \/ Archive(i)
=============================================================================
