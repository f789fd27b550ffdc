------------------------------ MODULE VilleCounter ------------------------------
(***************************************************************************)
(* The counter of the villes attached to each node: referential creates    *)
(* and moves villes and publishes VILLE_CREATED and VILLE_MOVED; the       *)
(* consumer group of VilleRattacheeConsumerService reads them and updates  *)
(* compteur_villes_rattachees, the local copy that referential-engine      *)
(* consults before it moves or deactivates a node.  Every instance of the  *)
(* kernel runs the relay, and a consumer of its own in the same group.     *)
(*                                                                         *)
(* What may disturb the count is kept in two ghosts.  perturbations counts *)
(* the failed calls, the copies that a relay adds of an event, the workers *)
(* stopped by a crash, the handlers slower than claimIdleMs and the moves  *)
(* of a ville that another move has overtaken.                             *)
(* desordre says that an event has overtaken an older one, in the relay or *)
(* between two instances: no failure is needed for that.                   *)
(***************************************************************************)
EXTENDS Integers, FiniteSets, Sequences

CONSTANTS
    Villes, Noeuds,
    Nul,                \* no node (a null referentielHierarchiqueId)
    Deplacements,       \* move requests that may be in progress together
    Instances,          \* of the kernel: one consumer name each
    Cycles,             \* claim cycles in flight: an instance and a name
    BatchSize,          \* referentialEngineVilles.batchSize
    MaxFlux,            \* bound: events published
    MaxPerturbations    \* bound: perturbations in one behaviour

ASSUME VilleAssumption ==
    /\ Nul \notin Noeuds /\ \A c \in Cycles : c[2] # "lecture"
    /\ IsFiniteSet(Villes) /\ IsFiniteSet(Instances) /\ IsFiniteSet(Cycles)
    /\ BatchSize \in Nat \ {0} /\ MaxFlux \in Nat /\ MaxPerturbations \in Nat

VARIABLES
    rattachement,  \* ville |-> its node in referential, {} before it is created
    deplacement,   \* request |-> the move it is making: ville, node read, new node
    outbox,        \* events committed and not yet relayed, in creation order
    flux,          \* the stream: an event is the node left and the node joined
    dernierLu,     \* the group's last-delivered entry
    pending,       \* delivered and not acknowledged
    idle,          \* pending for claimIdleMs or more
    lot,           \* worker |-> entries of its batch still to be handled
    etape,         \* worker |-> the await its next entry has reached
    compteur,      \* node |-> nombre_villes
    perturbations, desordre

referentialVars == <<rattachement, deplacement>>
groupVars == <<dernierLu, pending, idle>>
workerVars == <<lot, etape>>
ghostVars == <<perturbations, desordre>>
vars == <<referentialVars, outbox, flux, groupVars, workerVars, compteur, ghostVars>>

Lecture(x) == <<x, "lecture">>
Workers == {Lecture(x) : x \in Instances} \union Cycles
Positions == 1..MaxFlux
Places == Noeuds \union {Nul}
Evenements == Places \X Places

TypeOK ==
    /\ rattachement \in [Villes -> {{}} \union {{n} : n \in Places}]
    /\ deplacement \in [Deplacements -> SUBSET (Villes \X Places \X Places)]
    /\ outbox \in Seq(Evenements) /\ flux \in Seq(Evenements)
    /\ Len(outbox) + Len(flux) <= MaxFlux
    /\ dernierLu \in 0..Len(flux)
    /\ idle \subseteq pending /\ pending \subseteq 1..dernierLu
    /\ lot \in [Workers -> SUBSET (1..dernierLu)]
    /\ etape \in [Workers -> {"reclamer", "decrementer", "incrementer", "xack"}]
    /\ compteur \in [Noeuds -> Nat]
    /\ perturbations \in 0..MaxPerturbations /\ desordre \in BOOLEAN

Reprise(w) == IF w[2] = "lecture" THEN "decrementer" ELSE "reclamer"

Init ==
    /\ rattachement = [v \in Villes |-> {}]
    /\ deplacement = [d \in Deplacements |-> {}]
    /\ outbox = <<>> /\ flux = <<>>
    /\ dernierLu = 0 /\ pending = {} /\ idle = {}
    /\ lot = [w \in Workers |-> {}]
    /\ etape = [w \in Workers |-> Reprise(w)]
    /\ compteur = [n \in Noeuds |-> 0]
    /\ perturbations = 0 /\ desordre = FALSE

Perturbation == perturbations < MaxPerturbations /\ perturbations' = perturbations + 1

(* A perturbation if the condition holds, none otherwise.                  *)
PerturbationSi(cond) == IF cond THEN Perturbation ELSE UNCHANGED perturbations

DesordreSi(cond) == desordre' = (desordre \/ cond)

Place == Len(outbox) + Len(flux) < MaxFlux

-----------------------------------------------------------------------------
(* CreateVilleUseCase: the ville and its event, in one transaction.        *)
createVille(v, n) ==
    /\ rattachement[v] = {} /\ Place
    /\ rattachement' = [rattachement EXCEPT ![v] = {n}]
    /\ outbox' = Append(outbox, <<Nul, n>>)
    /\ UNCHANGED <<deplacement, flux, groupVars, workerVars, compteur, ghostVars>>

(* MoveVilleUseCase reads the ville, without a lock...                     *)
moveVille(d, v, n) ==
    /\ deplacement[d] = {} /\ Place
    /\ \E m \in rattachement[v] : deplacement' = [deplacement EXCEPT ![d] = {<<v, m, n>>}]
    /\ UNCHANGED <<rattachement, outbox, flux, groupVars, workerVars, compteur, ghostVars>>

(* Mutant: the event does not say which node the ville left.               *)
moveVilleSansAncien(d) ==
    /\ Place
    /\ \E m \in deplacement[d] :
          /\ rattachement' = [rattachement EXCEPT ![m[1]] = {m[3]}]
          /\ outbox' = Append(outbox, <<Nul, m[3]>>)
          /\ PerturbationSi(rattachement[m[1]] # {m[2]})
    /\ deplacement' = [deplacement EXCEPT ![d] = {}]
    /\ UNCHANGED <<flux, groupVars, workerVars, compteur, desordre>>

(* ... and commits it with an event about the node it has read.            *)
moveVilleCommit(d) ==
    /\ Place
    /\ \E m \in deplacement[d] :
          /\ rattachement' = [rattachement EXCEPT ![m[1]] = {m[3]}]
          /\ outbox' = Append(outbox, <<m[2], m[3]>>)
          /\ PerturbationSi(rattachement[m[1]] # {m[2]})
    /\ deplacement' = [deplacement EXCEPT ![d] = {}]
    /\ UNCHANGED <<flux, groupVars, workerVars, compteur, desordre>>

(* relayOne: XADD then markPublished, of the oldest event or of a younger  *)
(* one before it.  The row stays to be relayed once more when the mark     *)
(* fails, or when another instance has it in its batch too.                *)
relayer(k) ==
    /\ k \in 1..Len(outbox)
    /\ flux' = Append(flux, outbox[k])
    /\ \/ /\ outbox' = SubSeq(outbox, 1, k - 1) \o SubSeq(outbox, k + 1, Len(outbox))
          /\ UNCHANGED perturbations
       \/ Place /\ Perturbation /\ UNCHANGED outbox
    /\ DesordreSi(k # 1)
    /\ UNCHANGED <<referentialVars, groupVars, workerVars, compteur>>

-----------------------------------------------------------------------------
Tete(w, i, s) == i \in lot[w] /\ (\A j \in lot[w] : i <= j) /\ etape[w] = s

Passer(w, i) ==
    /\ lot' = [lot EXCEPT ![w] = @ \ {i}]
    /\ etape' = [etape EXCEPT ![w] = Reprise(w)]

Aller(w, s) == etape' = [etape EXCEPT ![w] = s] /\ UNCHANGED lot

(* claimIdleMs pass: too early if a worker still holds the entry.          *)
Vieillir(i) ==
    /\ i \in pending \ idle
    /\ idle' = idle \union {i}
    /\ PerturbationSi(\E w \in Workers : i \in lot[w])
    /\ UNCHANGED <<referentialVars, outbox, flux, dernierLu, pending, workerVars, compteur, desordre>>

xreadgroup(n) ==
    /\ n \in (dernierLu + 1)..Len(flux)
    /\ n <= dernierLu + BatchSize
    /\ n = Len(flux) \/ n = dernierLu + BatchSize
    /\ dernierLu' = n
    /\ pending' = pending \union (dernierLu + 1)..n

(* The answer of XREADGROUP may be lost: the entries are only pending.     *)
runReadLoop(x) ==
    /\ lot[Lecture(x)] = {}
    /\ \E n \in Positions :
          /\ xreadgroup(n)
          /\ \/ /\ lot' = [lot EXCEPT ![Lecture(x)] = (dernierLu + 1)..n]
                /\ UNCHANGED perturbations
             \/ Perturbation /\ UNCHANGED lot
    /\ UNCHANGED <<referentialVars, outbox, flux, idle, etape, compteur, desordre>>

runClaimCycle(c) ==
    /\ lot[c] = {} /\ idle # {}
    /\ \E S \in SUBSET idle :
          /\ Cardinality(S) <= BatchSize /\ (S = idle \/ Cardinality(S) = BatchSize)
          /\ \A i \in S, j \in idle \ S : i < j
          /\ lot' = [lot EXCEPT ![c] = S]
    /\ UNCHANGED <<referentialVars, outbox, flux, groupVars, etape, compteur, ghostVars>>

xclaim(c, i) ==
    /\ Tete(c, i, "reclamer")
    /\ IF i \in idle THEN idle' = idle \ {i} /\ Aller(c, "decrementer")
                     ELSE Passer(c, i) /\ UNCHANGED idle
    /\ UNCHANGED <<referentialVars, outbox, flux, dernierLu, pending, compteur, ghostVars>>

(* Mutant: without GREATEST(..., 0).                                       *)
DecrementSansPlancher(n) ==
    compteur' = [m \in Noeuds |-> IF m = n THEN compteur[m] - 1 ELSE compteur[m]]

Decrement(n) == compteur' = [m \in Noeuds |-> IF m = n /\ compteur[m] > 0
                                              THEN compteur[m] - 1 ELSE compteur[m]]

(* Out of order if an older event is still being handled somewhere.        *)
decrementer(w, i) ==
    /\ Tete(w, i, "decrementer")
    /\ Decrement(flux[i][1])
    /\ Aller(w, "incrementer")
    /\ DesordreSi(\E v \in Workers : \E j \in lot[v] : j < i)
    /\ UNCHANGED <<referentialVars, outbox, flux, groupVars, perturbations>>

Increment(n) == compteur' = [m \in Noeuds |-> IF m = n THEN compteur[m] + 1 ELSE compteur[m]]

incrementer(w, i) ==
    /\ Tete(w, i, "incrementer")
    /\ Increment(flux[i][2])
    /\ Aller(w, "xack")
    /\ UNCHANGED <<referentialVars, outbox, flux, groupVars, ghostVars>>

xack(i) == pending' = pending \ {i} /\ idle' = idle \ {i}

acquitter(w, i) ==
    /\ Tete(w, i, "xack")
    /\ xack(i)
    /\ Passer(w, i)
    /\ UNCHANGED <<referentialVars, outbox, flux, dernierLu, compteur, ghostVars>>

(* A call of handleMessage fails, applied or not: the entry stays pending  *)
(* and will be handled again from the start.                               *)
handleMessageEchoue(w, i) ==
    /\ Perturbation
    /\ \/ /\ Tete(w, i, "decrementer") /\ UNCHANGED <<pending, idle>>
          /\ Decrement(flux[i][1]) \/ UNCHANGED compteur
       \/ /\ Tete(w, i, "incrementer") /\ UNCHANGED <<pending, idle>>
          /\ Increment(flux[i][2]) \/ UNCHANGED compteur
       \/ /\ Tete(w, i, "xack") /\ UNCHANGED compteur
          /\ xack(i) \/ UNCHANGED <<pending, idle>>
    /\ Passer(w, i)
    /\ UNCHANGED <<referentialVars, outbox, flux, dernierLu, desordre>>

(* An instance stops or crashes and restarts: a perturbation for each of   *)
(* its workers that is interrupted.                                        *)
Interrompus(x) == {w \in Workers : w[1] = x /\ lot[w] # {}}

onModuleDestroy(x) ==
    /\ Interrompus(x) # {}
    /\ perturbations' = perturbations + Cardinality(Interrompus(x))
    /\ perturbations' <= MaxPerturbations
    /\ lot' = [w \in Workers |-> IF w[1] = x THEN {} ELSE lot[w]]
    /\ etape' = [w \in Workers |-> IF w[1] = x THEN Reprise(w) ELSE etape[w]]
    /\ UNCHANGED <<referentialVars, outbox, flux, groupVars, compteur, desordre>>

-----------------------------------------------------------------------------
WorkerStep(w) ==
    \E i \in Positions :
        \/ xclaim(w, i) \/ decrementer(w, i) \/ incrementer(w, i) \/ acquitter(w, i)
        \/ handleMessageEchoue(w, i)

Next ==
    \/ \E v \in Villes, n \in Places :
          createVille(v, n) \/ \E d \in Deplacements : moveVille(d, v, n)
    \/ \E d \in Deplacements : moveVilleCommit(d)
    \/ \E k \in 1..MaxFlux : relayer(k)
    \/ \E i \in Positions : Vieillir(i)
    \/ \E x \in Instances : runReadLoop(x) \/ onModuleDestroy(x)
    \/ \E c \in Cycles : runClaimCycle(c)
    \/ \E w \in Workers : WorkerStep(w)

Spec == Init /\ [][Next]_vars

-----------------------------------------------------------------------------
(* Every event has been published, handled and acknowledged: a row that    *)
(* the relay gave up (statut 'echec') never leaves the outbox.             *)
Quiescent ==
    /\ outbox = <<>> /\ dernierLu = Len(flux) /\ pending = {}
    /\ \A w \in Workers : lot[w] = {}

Reel(n) == Cardinality({v \in Villes : n \in rattachement[v]})

(* Once everything is handled, a node is counted short by at most one      *)
(* ville per perturbation, in whatever order the instances have handled    *)
(* the events: the direction that the guard of KER-ADM-04 depends on, since*)
(* a node counted short may be moved or deactivated with its villes.       *)
(* Without a perturbation the counters are exact if no event has overtaken *)
(* another; they are not if one has, even though nothing failed: an event  *)
(* of the second instance that decrements a counter the first has not yet  *)
(* incremented is lost in GREATEST, and the node is counted long for good. *)
(* Counting long has no bound: each later decrement may be lost in turn.   *)
CompteExactOuCourt ==
    Quiescent => \A n \in Noeuds :
        /\ Reel(n) - compteur[n] <= perturbations
        /\ perturbations = 0 /\ ~desordre => compteur[n] = Reel(n)

(* The claim of VilleRattacheeConsumerService: the counter is eventually   *)
(* consistent with referential.                                            *)
CompteurConverge == Quiescent => \A n \in Noeuds : compteur[n] = Reel(n)

(* What the consumer does to the counters is what referential-engine       *)
(* expects of them: a ville in or out of a node at a time, whatever fails. *)
Registre == INSTANCE CompteurVilles

ImplementsCompteur == Registre!Spec
=============================================================================
