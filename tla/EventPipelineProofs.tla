--------------------------- MODULE EventPipelineProofs ---------------------------
(***************************************************************************)
(* The event bus implements its ledger: for every number of events,        *)
(* instances, cycles and operators, and every bound.                       *)
(***************************************************************************)
EXTENDS EventPipeline, TLAPS

Entrees == 1..Len(stream)
Etats == {"absente", "en_attente", "publie", "echec"}
Workers == Consommateur!Workers
Positions == Consommateur!Positions

(* The relay side: what a relay holds was committed.                       *)
InvRelais ==
    /\ statut \in [Events -> Etats] /\ stream \in Seq(Events)
    /\ lotRelais \in [Instances -> SUBSET Events]
    /\ aMarquer \in [Instances -> SUBSET Events]
    /\ \A r \in Instances : \A e \in lotRelais[r] \union aMarquer[r] : Engage(e)

(* The consumer side: everything that names an entry names one that was    *)
(* added to the stream.                                                    *)
InvConsommateur ==
    /\ dernierLu \in Nat /\ pending \subseteq Entrees /\ idle \subseteq Entrees
    /\ lot \in [Workers -> SUBSET Entrees]
    /\ \A d \in dlq : d[1] \in Entrees
    /\ rejeu \in [Operateurs -> SUBSET (dlq \X BOOLEAN)]
    /\ audit \in [Events -> Nat]

(* The stream only grows at its end.                                       *)
Prolonge ==
    /\ Len(stream) <= Len(stream')
    /\ \A i \in Entrees : stream'[i] = stream[i]

LEMMA ProlongeFaits ==
    ASSUME InvRelais
    PROVE  /\ stream' = stream => Prolonge
           /\ \A e \in Events : stream' = Append(stream, e) =>
                 /\ Prolonge /\ stream' \in Seq(Events)
                 /\ Len(stream') = Len(stream) + 1 /\ stream'[Len(stream) + 1] = e
<1>1. stream \in Seq(Events) /\ Len(stream) \in Nat
  BY DEF InvRelais
<1>2. ASSUME NEW e \in Events, stream' = Append(stream, e)
      PROVE  /\ Prolonge /\ stream' \in Seq(Events)
             /\ Len(stream') = Len(stream) + 1 /\ stream'[Len(stream) + 1] = e
  BY <1>1, <1>2 DEF Prolonge, Entrees
<1> QED
  BY <1>1, <1>2 DEF Prolonge

(* A step of the relays commits a row, or adds an entry of a committed     *)
(* row, or changes nothing that the ledger sees.                           *)
Inserer(e) ==
    /\ ~Engage(e) /\ Engage(e)' /\ stream' = stream
    /\ \A f \in Events : f # e => (Engage(f)' <=> Engage(f))
Ajouter(e) ==
    /\ Engage(e) /\ stream' = Append(stream, e)
    /\ \A f \in Events : Engage(f)' <=> Engage(f)
Rien ==
    /\ stream' = stream
    /\ \A f \in Events : Engage(f)' <=> Engage(f)

LEMMA RelaisInit == Relais!Init => InvRelais
  BY DEF Relais!Init, InvRelais, Etats

LEMMA RelaisStep ==
    ASSUME InvRelais, Relais!Next
    PROVE  /\ InvRelais'
           /\ Rien \/ \E e \in Events : Inserer(e) \/ Ajouter(e)
<1> DEFINE Vue == Rien \/ \E e \in Events : Inserer(e) \/ Ajouter(e)
<1>t. /\ statut \in [Events -> Etats] /\ stream \in Seq(Events)
      /\ lotRelais \in [Instances -> SUBSET Events]
      /\ aMarquer \in [Instances -> SUBSET Events]
      /\ \A r \in Instances : \A e \in lotRelais[r] \union aMarquer[r] : Engage(e)
  BY DEF InvRelais
<1>i. ASSUME statut' \in [Events -> Etats], stream' \in Seq(Events),
             \A f \in Events : Engage(f) => Engage(f)',
             lotRelais' \in [Instances -> SUBSET Events],
             aMarquer' \in [Instances -> SUBSET Events],
             \A r \in Instances : \A e \in lotRelais'[r] \union aMarquer'[r] : Engage(e)
      PROVE  InvRelais'
  BY <1>i DEF InvRelais
<1>1. ASSUME NEW e \in Events, Relais!insert(e) PROVE InvRelais' /\ Vue
  <2>1. /\ statut[e] = "absente" /\ statut' = [statut EXCEPT ![e] = "en_attente"]
        /\ UNCHANGED <<stream, lotRelais, aMarquer>>
    BY <1>1 DEF Relais!insert, Relais!relayVars
  <2>2. Inserer(e) /\ \A f \in Events : Engage(f) => Engage(f)'
    BY <1>t, <2>1 DEF Inserer, Engage
  <2>3. statut' \in [Events -> Etats]
    BY <1>t, <2>1 DEF Etats
  <2> QED
    BY <1>i, <1>t, <2>1, <2>2, <2>3
<1>2. ASSUME NEW r \in Instances, Relais!runCycle(r) PROVE InvRelais' /\ Vue
  <2>1. PICK S \in SUBSET Relais!EnAttente : lotRelais' = [lotRelais EXCEPT ![r] = S]
    BY <1>2 DEF Relais!runCycle
  <2>2. UNCHANGED <<statut, stream, aMarquer>>
    BY <1>2 DEF Relais!runCycle, Relais!rowVars
  <2>3. S \subseteq Events /\ \A e \in S : Engage(e)
    BY <2>1 DEF Relais!EnAttente, Engage
  <2>4. /\ lotRelais' \in [Instances -> SUBSET Events]
        /\ \A q \in Instances : \A e \in lotRelais'[q] \union aMarquer'[q] : Engage(e)
    BY <1>t, <2>1, <2>2, <2>3
  <2>5. Rien
    BY <2>2 DEF Rien, Engage
  <2> QED
    BY <1>i, <1>t, <2>2, <2>4, <2>5 DEF Rien
<1>3. ASSUME NEW r \in Instances, NEW e \in Events,
             Relais!relayOne(r, e) \/ Relais!relayOneEchoue(r, e)
      PROVE  InvRelais' /\ Vue
  <2>1. /\ e \in lotRelais[r] /\ UNCHANGED <<statut, lotRelais>>
        /\ stream' = stream \/ stream' = Append(stream, e)
        /\ aMarquer' = aMarquer \/ aMarquer' = [aMarquer EXCEPT ![r] = {e}]
    BY <1>3 DEF Relais!relayOne, Relais!relayOneEchoue, Relais!Suivante, Relais!rowVars
  <2>2. Engage(e) /\ \A f \in Events : Engage(f)' <=> Engage(f)
    BY <1>t, <2>1 DEF Engage
  <2>3. Vue /\ stream' \in Seq(Events)
    BY <1>t, <2>1, <2>2 DEF Rien, Ajouter
  <2>4. /\ aMarquer' \in [Instances -> SUBSET Events]
        /\ \A q \in Instances : \A f \in aMarquer'[q] : f = e \/ f \in aMarquer[q]
    BY <1>t, <2>1
  <2> QED
    BY <1>i, <1>t, <2>1, <2>2, <2>3, <2>4
<1>4. ASSUME NEW r \in Instances, NEW e \in Events,
             Relais!markPublished(r, e) \/ Relais!markPublishedEchoue(r, e)
      PROVE  InvRelais' /\ Vue
  <2>1. /\ e \in aMarquer[r] /\ stream' = stream
        /\ statut' = statut \/ statut' = [statut EXCEPT ![e] = "publie"]
        /\ lotRelais' = lotRelais \/ lotRelais' = [lotRelais EXCEPT ![r] = @ \ {e}]
        /\ aMarquer' = [aMarquer EXCEPT ![r] = {}]
    BY <1>4 DEF Relais!markPublished, Relais!markPublishedEchoue
  <2>2. Engage(e)
    BY <1>t, <2>1
  <2>3. statut' \in [Events -> Etats] /\ \A f \in Events : Engage(f)' <=> Engage(f)
    BY <1>t, <2>1, <2>2 DEF Engage, Etats
  <2>4. /\ lotRelais' \in [Instances -> SUBSET Events]
        /\ aMarquer' \in [Instances -> SUBSET Events]
        /\ \A q \in Instances : lotRelais'[q] \subseteq lotRelais[q]
                                /\ aMarquer'[q] \subseteq aMarquer[q]
    BY <1>t, <2>1
  <2>5. Rien
    BY <2>1, <2>3 DEF Rien
  <2> QED
    BY <1>i, <1>t, <2>1, <2>3, <2>4, <2>5
<1>5. ASSUME NEW r \in Instances, NEW e \in Events,
             Relais!markFailedAttempt(r, e) \/ Relais!markFailedAttemptEchoue(r, e)
      PROVE  InvRelais' /\ Vue
  <2>1. /\ UNCHANGED <<statut, stream, aMarquer>>
        /\ \/ lotRelais' = [lotRelais EXCEPT ![r] = @ \ {e}]
           \/ lotRelais' = [lotRelais EXCEPT ![r] = {}]
    BY <1>5 DEF Relais!markFailedAttempt, Relais!markFailedAttemptEchoue
  <2>2. /\ lotRelais' \in [Instances -> SUBSET Events]
        /\ \A q \in Instances : lotRelais'[q] \subseteq lotRelais[q]
    BY <1>t, <2>1
  <2>3. Rien
    BY <2>1 DEF Rien, Engage
  <2> QED
    BY <1>i, <1>t, <2>1, <2>2, <2>3 DEF Rien
<1>6. ASSUME NEW r \in Instances, Relais!onModuleDestroy(r) PROVE InvRelais' /\ Vue
  <2>1. /\ UNCHANGED <<statut, stream>>
        /\ lotRelais' = [lotRelais EXCEPT ![r] = {}]
        /\ aMarquer' = [aMarquer EXCEPT ![r] = {}]
    BY <1>6 DEF Relais!onModuleDestroy, Relais!rowVars
  <2>2. /\ lotRelais' \in [Instances -> SUBSET Events]
        /\ aMarquer' \in [Instances -> SUBSET Events]
        /\ \A q \in Instances : lotRelais'[q] \subseteq lotRelais[q]
                                /\ aMarquer'[q] \subseteq aMarquer[q]
    BY <1>t, <2>1
  <2>3. Rien
    BY <2>1 DEF Rien, Engage
  <2> QED
    BY <1>i, <1>t, <2>1, <2>2, <2>3 DEF Rien
<1>7. CASE Relais!sweepPermanentFailures
  <2>1. /\ UNCHANGED <<stream, lotRelais, aMarquer>>
        /\ statut' = [e \in Events |->
                        IF statut[e] = "en_attente" /\ tentatives[e] >= MaxRetries
                        THEN "echec" ELSE statut[e]]
    BY <1>7 DEF Relais!sweepPermanentFailures, Relais!markPermanentlyFailed, Relais!relayVars
  <2>2. statut' \in [Events -> Etats] /\ \A f \in Events : Engage(f)' <=> Engage(f)
    BY <1>t, <2>1 DEF Engage, Etats
  <2>3. Rien
    BY <2>1, <2>2 DEF Rien
  <2> QED
    BY <1>i, <1>t, <2>1, <2>2, <2>3
<1> QED
  BY <1>1, <1>2, <1>3, <1>4, <1>5, <1>6, <1>7 DEF Relais!Next, Relais!RelayNext, Relais!RelayStep

-----------------------------------------------------------------------------
(* A step of the consumers inserts the line of an event that has an entry, *)
(* or archives an entry, or changes nothing that the ledger sees.          *)
Tracer(e) ==
    /\ Relais!InStream(e) /\ audit[e] = 0
    /\ audit' = [audit EXCEPT ![e] = 1] /\ dlq' = dlq
Enterrer(i) ==
    /\ i \in Entrees /\ audit' = audit
    /\ \E n : dlq' = dlq \union {<<i, n>>}
Calme == audit' = audit /\ dlq' = dlq

LEMMA ConsommateurInit == Init => InvConsommateur
<1> SUFFICES ASSUME Init PROVE InvConsommateur
  OBVIOUS
<1>1. /\ dernierLu = 0 /\ pending = {} /\ idle = {} /\ lot = [w \in Workers |-> {}]
      /\ dlq = {} /\ rejeu = [o \in Operateurs |-> {}] /\ audit = [e \in Events |-> 0]
  BY DEF Init, Consommateur!Init, Workers
<1> QED
  BY <1>1 DEF InvConsommateur

LEMMA EntreeDansFlux ==
    ASSUME InvRelais, NEW i \in Entrees
    PROVE  stream[i] \in Events /\ Relais!InStream(stream[i])
  BY DEF InvRelais, Entrees, Relais!InStream

LEMMA InsertAudit ==
    ASSUME InvRelais, InvConsommateur, NEW i \in Entrees,
           Consommateur!insertAudit(stream[i]), dlq' = dlq
    PROVE  Calme \/ \E e \in Events : Tracer(e)
<1> DEFINE e == stream[i]
<1>1. e \in Events /\ Relais!InStream(e)
  BY EntreeDansFlux
<1>2. audit' = [audit EXCEPT ![e] = IF @ = 0 THEN 1 ELSE @]
  BY DEF Consommateur!insertAudit
<1> HIDE DEF e
<1>3. CASE audit[e] = 0
  BY <1>1, <1>2, <1>3 DEF Tracer
<1>4. CASE audit[e] # 0
  BY <1>1, <1>2, <1>4 DEF Calme, InvConsommateur
<1> QED
  BY <1>3, <1>4

LEMMA ConsommateurStep ==
    ASSUME InvRelais, InvConsommateur, stream' = stream, Consommateur!ConsumerNext
    PROVE  /\ InvConsommateur'
           /\ Calme \/ (\E e \in Events : Tracer(e)) \/ \E i \in Entrees : Enterrer(i)
<1> DEFINE Vue == Calme \/ (\E e \in Events : Tracer(e)) \/ \E i \in Entrees : Enterrer(i)
           File == dernierLu' \in Nat /\ pending' \subseteq Entrees /\ idle' \subseteq Entrees
           Lots == lot' \in [Workers -> SUBSET Entrees]
           Tables == /\ \A d \in dlq' : d[1] \in Entrees
                     /\ rejeu' \in [Operateurs -> SUBSET (dlq' \X BOOLEAN)]
                     /\ audit' \in [Events -> Nat]
<1>t. /\ dernierLu \in Nat /\ pending \subseteq Entrees /\ idle \subseteq Entrees
      /\ lot \in [Workers -> SUBSET Entrees]
      /\ \A d \in dlq : d[1] \in Entrees
      /\ rejeu \in [Operateurs -> SUBSET (dlq \X BOOLEAN)]
      /\ audit \in [Events -> Nat]
  BY DEF InvConsommateur
<1>n. Len(stream) \in Nat /\ Positions \subseteq Int
  BY DEF InvRelais, Positions, Consommateur!Positions
<1>e. Entrees' = Entrees
  BY DEF Entrees
<1>f. File /\ Lots /\ Tables => InvConsommateur'
  BY <1>e DEF InvConsommateur
<1>a. UNCHANGED <<dernierLu, pending, idle>> => File
  BY <1>t
<1>b. ASSUME UNCHANGED rejeu, Vue PROVE Tables
  <2>1. CASE Calme
    BY <1>b, <1>t, <2>1 DEF Calme
  <2>2. ASSUME NEW e \in Events, Tracer(e) PROVE Tables
    BY <1>b, <1>t, <2>2 DEF Tracer
  <2>3. ASSUME NEW i \in Entrees, Enterrer(i) PROVE Tables
    <3>1. PICK n : dlq' = dlq \union {<<i, n>>}
      BY <2>3 DEF Enterrer
    <3>2. \A d \in dlq' : d[1] \in Entrees
      BY <1>t, <3>1
    <3>3. rejeu' \in [Operateurs -> SUBSET (dlq' \X BOOLEAN)]
      BY <1>b, <1>t, <3>1
    <3> QED
      BY <1>t, <2>3, <3>2, <3>3 DEF Enterrer
  <2> QED
    BY <1>b, <2>1, <2>2, <2>3
<1>l. ASSUME NEW w \in Workers, NEW S \in SUBSET Entrees, lot' = [lot EXCEPT ![w] = S]
      PROVE  Lots
  BY <1>l, <1>t
<1>p. ASSUME NEW w \in Workers, NEW i,
             Consommateur!Passer(w, i) \/ Consommateur!Interrompre(w)
      PROVE  Lots
  <2>1. lot[w] \subseteq Entrees
    BY <1>t
  <2>2. lot' = [lot EXCEPT ![w] = lot[w] \ {i}] \/ lot' = [lot EXCEPT ![w] = {}]
    BY <1>p DEF Consommateur!Passer, Consommateur!Interrompre
  <2> QED
    BY <1>l, <2>1, <2>2
<1>o. UNCHANGED lot => Lots
  BY <1>t
<1>h. ASSUME NEW w \in Workers, NEW i, NEW s, Consommateur!Tete(w, i, s)
      PROVE  i \in Entrees
  BY <1>h, <1>t DEF Consommateur!Tete
<1>x. ASSUME NEW i, Consommateur!xack(i) PROVE pending' \subseteq Entrees /\ idle' \subseteq Entrees
  BY <1>x, <1>t DEF Consommateur!xack
<1>1. CASE Consommateur!ensureConsumerGroupExists
  <2>1. /\ dernierLu' = Len(stream) /\ UNCHANGED <<pending, idle, lot, rejeu>> /\ Calme
    BY <1>1 DEF Consommateur!ensureConsumerGroupExists, Consommateur!workerVars,
                Consommateur!dlqVars, Calme
  <2> QED
    BY <1>b, <1>f, <1>n, <1>o, <1>t, <2>1
<1>2. ASSUME NEW i \in Positions, Consommateur!Vieillir(i) PROVE InvConsommateur' /\ Vue
  <2>1. /\ i \in pending /\ idle' = idle \union {i}
        /\ UNCHANGED <<dernierLu, pending, lot, rejeu>> /\ Calme
    BY <1>2 DEF Consommateur!Vieillir, Consommateur!workerVars, Consommateur!dlqVars, Calme
  <2> QED
    BY <1>b, <1>f, <1>o, <1>t, <2>1
<1>3. ASSUME NEW n \in Positions, Consommateur!xreadgroup(n), UNCHANGED idle
      PROVE  File /\ (dernierLu + 1)..n \in SUBSET Entrees
  <2>1. /\ n \in (dernierLu + 1)..Len(stream) /\ dernierLu' = n
        /\ pending' = pending \union (dernierLu + 1)..n
    BY <1>3 DEF Consommateur!xreadgroup
  <2>2. n \in Nat /\ n <= Len(stream)
    BY <1>n, <1>t, <2>1
  <2>3. (dernierLu + 1)..n \subseteq Entrees
    BY <1>n, <1>t, <2>2 DEF Entrees
  <2> QED
    BY <1>3, <1>t, <2>1, <2>2, <2>3
<1>4. ASSUME NEW w \in Consommateur!Lecteurs, Consommateur!runReadLoop(w)
      PROVE  InvConsommateur' /\ Vue
  <2>1. PICK n \in Positions : /\ Consommateur!xreadgroup(n)
                               /\ lot' = [lot EXCEPT ![w] = (dernierLu + 1)..n]
    BY <1>4 DEF Consommateur!runReadLoop, Positions
  <2>2. UNCHANGED <<idle, rejeu>> /\ Calme
    BY <1>4 DEF Consommateur!runReadLoop, Consommateur!dlqVars, Calme
  <2>3. w \in Workers
    BY DEF Workers, Consommateur!Workers
  <2> QED
    BY <1>3, <1>b, <1>f, <1>l, <2>1, <2>2, <2>3
<1>5. ASSUME NEW w \in Consommateur!Lecteurs, Consommateur!runReadLoopEchoue(w)
      PROVE  InvConsommateur' /\ Vue
  <2>1. PICK n \in Positions : Consommateur!xreadgroup(n)
    BY <1>5 DEF Consommateur!runReadLoopEchoue, Positions
  <2>2. UNCHANGED <<idle, lot, rejeu>> /\ Calme
    BY <1>5 DEF Consommateur!runReadLoopEchoue, Consommateur!workerVars,
                Consommateur!dlqVars, Calme
  <2> QED
    BY <1>3, <1>b, <1>f, <1>o, <2>1, <2>2
<1>6. ASSUME NEW w \in Consommateur!Reclamations, Consommateur!runClaimCycle(w)
      PROVE  InvConsommateur' /\ Vue
  <2>1. PICK S \in SUBSET idle : lot' = [lot EXCEPT ![w] = S]
    BY <1>6 DEF Consommateur!runClaimCycle
  <2>2. UNCHANGED <<dernierLu, pending, idle, rejeu>> /\ Calme
    BY <1>6 DEF Consommateur!runClaimCycle, Consommateur!groupVars, Consommateur!dlqVars, Calme
  <2>3. w \in Workers /\ S \in SUBSET Entrees
    BY <1>t, <2>1 DEF Workers, Consommateur!Workers
  <2> QED
    BY <1>a, <1>b, <1>f, <1>l, <2>1, <2>2, <2>3
<1>7. ASSUME NEW w \in Workers, NEW i \in Positions,
             Consommateur!xclaim(w, i) \/ Consommateur!execute(w, i)
      PROVE  InvConsommateur' /\ Vue
  <2>1. /\ UNCHANGED <<dernierLu, pending, rejeu>> /\ Calme /\ idle' \subseteq idle
        /\ UNCHANGED lot \/ Consommateur!Passer(w, i)
    BY <1>7 DEF Consommateur!xclaim, Consommateur!execute, Consommateur!Aller,
                Consommateur!groupVars, Consommateur!dlqVars, Calme
  <2>2. File
    BY <1>t, <2>1
  <2> QED
    BY <1>b, <1>f, <1>o, <1>p, <2>1, <2>2
<1>8. ASSUME NEW w \in Workers, NEW i \in Positions, Consommateur!save(w, i)
      PROVE  InvConsommateur' /\ Vue
  <2>1. /\ Consommateur!Tete(w, i, "save") /\ Consommateur!insertAudit(stream[i])
        /\ UNCHANGED <<dernierLu, pending, idle, lot, rejeu, dlq>>
    BY <1>8 DEF Consommateur!save, Consommateur!Aller, Consommateur!groupVars,
                Consommateur!dlqVars
  <2>2. Vue
    BY <1>h, <2>1, InsertAudit
  <2> QED
    BY <1>a, <1>b, <1>f, <1>o, <2>1, <2>2
<1>9. ASSUME NEW w \in Workers, NEW i \in Positions,
             Consommateur!acquitter(w, i) \/ Consommateur!finallyXack(w, i)
      PROVE  InvConsommateur' /\ Vue
  <2>1. /\ Consommateur!xack(i) /\ UNCHANGED <<dernierLu, rejeu>> /\ Calme
        /\ Consommateur!Passer(w, i) \/ Consommateur!Interrompre(w)
    BY <1>9 DEF Consommateur!acquitter, Consommateur!finallyXack, Consommateur!dlqVars, Calme
  <2> QED
    BY <1>b, <1>f, <1>p, <1>t, <1>x, <2>1
<1>10. ASSUME NEW w \in Workers, NEW i \in Positions, Consommateur!handleMessageEchoue(w, i)
       PROVE  InvConsommateur' /\ Vue
  <2>1. /\ \/ UNCHANGED <<pending, idle>> \/ Consommateur!xack(i)
        /\ \/ UNCHANGED audit
           \/ Consommateur!Tete(w, i, "save") /\ Consommateur!insertAudit(stream[i])
        /\ Consommateur!Passer(w, i) /\ UNCHANGED <<dernierLu, rejeu, dlq>>
    BY <1>10 DEF Consommateur!handleMessageEchoue, Consommateur!dlqVars
  <2>2. File
    BY <1>a, <1>t, <1>x, <2>1
  <2>3. Vue
    BY <1>h, <2>1, InsertAudit DEF Calme
  <2> QED
    BY <1>b, <1>f, <1>p, <2>1, <2>2, <2>3
<1>11. ASSUME NEW w \in Workers, NEW i \in Positions,
              Consommateur!moveEntryToDeadLetter(w, i)
                 \/ Consommateur!moveEntryToDeadLetterEchoue(w, i)
       PROVE  InvConsommateur' /\ Vue
  <2>1. /\ Consommateur!Tete(w, i, "reclamer")
        /\ dlq' = dlq \/ dlq' = dlq \union {Consommateur!Rang(i)}
        /\ UNCHANGED <<dernierLu, pending, idle, lot, audit, rejeu>>
    BY <1>11 DEF Consommateur!moveEntryToDeadLetter, Consommateur!moveEntryToDeadLetterEchoue,
                 Consommateur!Aller, Consommateur!groupVars
  <2>2. Vue
    BY <1>h, <2>1 DEF Consommateur!Rang, Calme, Enterrer
  <2> QED
    BY <1>a, <1>b, <1>f, <1>o, <2>1, <2>2
<1>12. ASSUME NEW w \in Workers, NEW i \in Positions, Consommateur!runClaimCycleEchoue(w, i)
       PROVE  InvConsommateur' /\ Vue
  <2>1. /\ \/ pending' = pending /\ idle' \subseteq idle
           \/ Consommateur!xack(i)
        /\ Consommateur!Interrompre(w) /\ UNCHANGED <<dernierLu, rejeu>> /\ Calme
    BY <1>12 DEF Consommateur!runClaimCycleEchoue, Consommateur!dlqVars, Calme
  <2>2. File
    BY <1>t, <1>x, <2>1
  <2> QED
    BY <1>b, <1>f, <1>p, <2>1, <2>2
<1>13. ASSUME NEW n \in Instances, Consommateur!onModuleDestroy(n) PROVE InvConsommateur' /\ Vue
  <2>1. /\ lot' = [w \in Workers |-> IF w[1] = n THEN {} ELSE lot[w]]
        /\ UNCHANGED <<dernierLu, pending, idle, rejeu>> /\ Calme
    BY <1>13 DEF Consommateur!onModuleDestroy, Consommateur!groupVars, Consommateur!dlqVars,
                 Calme, Workers
  <2>2. Lots
    BY <1>t, <2>1
  <2> QED
    BY <1>a, <1>b, <1>f, <2>1, <2>2
<1>14. ASSUME NEW o \in Operateurs, NEW d \in dlq, Consommateur!replay(o, d)
       PROVE  InvConsommateur' /\ Vue
  <2>1. /\ rejeu' = [rejeu EXCEPT ![o] = {<<d, audit[stream[d[1]]] > 0>>}]
        /\ UNCHANGED <<dernierLu, pending, idle, lot, dlq, audit>>
    BY <1>14 DEF Consommateur!replay, Consommateur!groupVars, Consommateur!workerVars
  <2> DEFINE b == audit[stream[d[1]]] > 0
             S == {<<d, b>>}
  <2>2. b \in BOOLEAN /\ rejeu' = [rejeu EXCEPT ![o] = S]
    BY <2>1
  <2> HIDE DEF b
  <2>3. S \subseteq dlq \X BOOLEAN
    BY <2>2
  <2> HIDE DEF S
  <2>4. Tables
    BY <1>t, <2>1, <2>2, <2>3
  <2> QED
    BY <1>a, <1>f, <1>o, <2>1, <2>4 DEF Calme
<1>15. ASSUME NEW o \in Operateurs, Consommateur!replayCommit(o) PROVE InvConsommateur' /\ Vue
  <2>1. PICK r \in rejeu[o] :
            UNCHANGED audit \/ Consommateur!insertAudit(stream[r[1][1]])
    BY <1>15 DEF Consommateur!replayCommit
  <2>2. /\ rejeu' = [rejeu EXCEPT ![o] = {}]
        /\ UNCHANGED <<dernierLu, pending, idle, lot, dlq>>
    BY <1>15 DEF Consommateur!replayCommit, Consommateur!groupVars, Consommateur!workerVars
  <2>3. r[1] \in dlq /\ r[1][1] \in Entrees
    <3>1. r \in dlq \X BOOLEAN
      BY <1>t, <2>1
    <3> QED
      BY <1>t, <3>1
  <2>4. Calme \/ \E e \in Events : Tracer(e)
    BY <2>1, <2>2, <2>3, InsertAudit DEF Calme
  <2>5. audit' \in [Events -> Nat]
    BY <1>t, <2>4 DEF Calme, Tracer
  <2>6. Tables
    BY <1>t, <2>2, <2>5
  <2> QED
    BY <1>a, <1>f, <1>o, <2>2, <2>4, <2>6
<1> QED
  BY <1>1, <1>2, <1>4, <1>5, <1>6, <1>7, <1>8, <1>9, <1>10, <1>11, <1>12, <1>13, <1>14, <1>15
     DEF Consommateur!ConsumerNext, Consommateur!WorkerStep, Workers, Positions

-----------------------------------------------------------------------------
(* The refinement, step by step.                                           *)
Engages == {e \in Events : Engage(e)}
Diffuses == {e \in Events : Relais!InStream(e)}
Archives == {e \in Events : Archive(e)}

InvPipeline == InvRelais /\ InvConsommateur

LEMMA EtapeRelais ==
    ASSUME InvPipeline, Relais!Next, UNCHANGED consommateurVars
    PROVE  InvPipeline' /\ (Ledger!Next \/ UNCHANGED Ledger!vars)
<1>0. InvRelais /\ InvConsommateur
  BY DEF InvPipeline
<1>1. InvRelais' /\ (Rien \/ \E e \in Events : Inserer(e) \/ Ajouter(e))
  BY <1>0, RelaisStep
<1>2. Prolonge
  BY <1>0, <1>1, ProlongeFaits DEF Rien, Inserer, Ajouter
<1>3. UNCHANGED <<dernierLu, pending, idle, lot, dlq, rejeu, audit>>
  BY DEF consommateurVars
<1>4. Len(stream) \in Nat /\ Len(stream') \in Nat
  BY <1>0, <1>1 DEF InvRelais
<1>5. Entrees \subseteq Entrees'
  BY <1>2, <1>4 DEF Entrees, Prolonge
<1>6. InvConsommateur'
  <2>1. lot' \in [Workers -> SUBSET Entrees']
    BY <1>0, <1>3, <1>5 DEF InvConsommateur
  <2> QED
    BY <1>0, <1>3, <1>5, <2>1 DEF InvConsommateur
<1>7. Archives' = Archives
  <2>1. \A d \in dlq : stream'[d[1]] = stream[d[1]]
    BY <1>0, <1>2 DEF InvConsommateur, Prolonge
  <2> QED
    BY <1>3, <2>1 DEF Archives, Archive
<1>8. CASE Rien
  <2>1. Engages' = Engages /\ Diffuses' = Diffuses
    BY <1>8 DEF Rien, Engages, Diffuses, Relais!InStream
  <2> QED
    BY <1>1, <1>3, <1>6, <1>7, <2>1 DEF InvPipeline, Ledger!vars, Engages, Diffuses, Archives
<1>9. ASSUME NEW e \in Events, Inserer(e)
      PROVE  InvPipeline' /\ (Ledger!Next \/ UNCHANGED Ledger!vars)
  <2>1. e \notin Engages /\ Engages' = Engages \union {e} /\ Diffuses' = Diffuses
    BY <1>9 DEF Inserer, Engages, Diffuses, Relais!InStream
  <2>2. Ledger!Engager(e)
    BY <1>3, <1>7, <2>1 DEF Ledger!Engager, Engages, Diffuses, Archives
  <2> QED
    BY <1>1, <1>6, <2>2 DEF InvPipeline, Ledger!Next
<1>10. ASSUME NEW e \in Events, Ajouter(e)
       PROVE  InvPipeline' /\ (Ledger!Next \/ UNCHANGED Ledger!vars)
  <2>1. e \in Engages /\ Engages' = Engages
    BY <1>10 DEF Ajouter, Engages
  <2>2. Diffuses' = Diffuses \union {e}
    <3>1. /\ Len(stream') = Len(stream) + 1 /\ stream'[Len(stream) + 1] = e
          /\ \A i \in Entrees : stream'[i] = stream[i]
      BY <1>0, <1>10, ProlongeFaits DEF Ajouter, Prolonge
    <3>2. ASSUME NEW f \in Events
          PROVE  Relais!InStream(f)' <=> Relais!InStream(f) \/ f = e
      BY <1>4, <3>1 DEF Relais!InStream, Entrees
    <3> QED
      BY <3>2 DEF Diffuses
  <2>3. CASE e \in Diffuses
    <3>1. Diffuses' = Diffuses
      BY <2>2, <2>3
    <3> QED
      BY <1>1, <1>3, <1>6, <1>7, <2>1, <3>1
         DEF InvPipeline, Ledger!vars, Engages, Diffuses, Archives
  <2>4. CASE e \notin Diffuses
    <3>1. Ledger!Diffuser(e)
      BY <1>3, <1>7, <2>1, <2>2, <2>4 DEF Ledger!Diffuser, Engages, Diffuses, Archives
    <3> QED
      BY <1>1, <1>6, <3>1 DEF InvPipeline, Ledger!Next
  <2> QED
    BY <2>3, <2>4
<1> QED
  BY <1>1, <1>8, <1>9, <1>10

LEMMA EtapeConsommateur ==
    ASSUME InvPipeline, Consommateur!ConsumerNext, UNCHANGED relaisVars
    PROVE  InvPipeline' /\ (Ledger!Next \/ UNCHANGED Ledger!vars)
<1>0. InvRelais /\ InvConsommateur
  BY DEF InvPipeline
<1>1. stream' = stream
  BY DEF Consommateur!ConsumerNext, Consommateur!WorkerStep,
         Consommateur!ensureConsumerGroupExists, Consommateur!Vieillir,
         Consommateur!runReadLoop, Consommateur!runReadLoopEchoue, Consommateur!runClaimCycle,
         Consommateur!xclaim, Consommateur!execute, Consommateur!save, Consommateur!acquitter,
         Consommateur!handleMessageEchoue, Consommateur!moveEntryToDeadLetter,
         Consommateur!moveEntryToDeadLetterEchoue, Consommateur!finallyXack,
         Consommateur!runClaimCycleEchoue, Consommateur!onModuleDestroy,
         Consommateur!replay, Consommateur!replayCommit
<1>2. /\ InvConsommateur'
      /\ Calme \/ (\E e \in Events : Tracer(e)) \/ \E i \in Entrees : Enterrer(i)
  BY <1>0, <1>1, ConsommateurStep
<1>3. InvRelais'
  BY <1>0, <1>1 DEF InvRelais, relaisVars, Engage
<1>4. Engages' = Engages /\ Diffuses' = Diffuses
  BY <1>1 DEF Engages, Diffuses, Engage, Relais!InStream, relaisVars
<1>5. dlq' = dlq => Archives' = Archives
  BY <1>1 DEF Archives, Archive
<1>6. CASE Calme
  <2>1. Archives' = Archives /\ audit' = audit
    BY <1>5, <1>6 DEF Calme
  <2> QED
    BY <1>2, <1>3, <1>4, <2>1 DEF InvPipeline, Ledger!vars, Engages, Diffuses, Archives
<1>7. ASSUME NEW e \in Events, Tracer(e)
      PROVE  InvPipeline' /\ (Ledger!Next \/ UNCHANGED Ledger!vars)
  <2>1. /\ e \in Diffuses /\ audit[e] = 0 /\ audit' = [audit EXCEPT ![e] = 1]
        /\ Archives' = Archives
    BY <1>5, <1>7 DEF Tracer, Diffuses
  <2>2. Ledger!Auditer(e)
    BY <1>4, <2>1 DEF Ledger!Auditer, Engages, Diffuses, Archives
  <2> QED
    BY <1>2, <1>3, <2>2 DEF InvPipeline, Ledger!Next
<1>8. ASSUME NEW i \in Entrees, Enterrer(i)
      PROVE  InvPipeline' /\ (Ledger!Next \/ UNCHANGED Ledger!vars)
  <2> DEFINE e == stream[i]
  <2>1. e \in Events /\ e \in Diffuses
    BY <1>0, EntreeDansFlux DEF Diffuses
  <2>2. PICK n : dlq' = dlq \union {<<i, n>>}
    BY <1>8 DEF Enterrer
  <2>3. audit' = audit
    BY <1>8 DEF Enterrer
  <2>4. Archives' = Archives \union {e}
    <3>1. <<i, n>> \in dlq' /\ <<i, n>>[1] = i /\ \A d \in dlq : d \in dlq'
      BY <2>2
    <3>2. \A d \in dlq' : d \in dlq \/ d[1] = i
      BY <2>2
    <3>3. ASSUME NEW f \in Events PROVE Archive(f)' <=> Archive(f) \/ f = e
      BY <1>1, <3>1, <3>2 DEF Archive
    <3> QED
      BY <2>1, <3>3 DEF Archives
  <2> HIDE DEF e
  <2>5. CASE e \in Archives
    <3>1. Archives' = Archives
      BY <2>4, <2>5
    <3> QED
      BY <1>2, <1>3, <1>4, <2>3, <3>1 DEF InvPipeline, Ledger!vars, Engages, Diffuses, Archives
  <2>6. CASE e \notin Archives
    <3>1. Ledger!Archiver(e)
      BY <1>4, <2>1, <2>3, <2>4, <2>6 DEF Ledger!Archiver, Engages, Diffuses, Archives
    <3> QED
      BY <1>2, <1>3, <2>1, <3>1 DEF InvPipeline, Ledger!Next
  <2> QED
    BY <2>5, <2>6
<1> QED
  BY <1>2, <1>6, <1>7, <1>8

LEMMA EtapeImmobile ==
    ASSUME InvPipeline, UNCHANGED vars
    PROVE  InvPipeline' /\ UNCHANGED Ledger!vars
<1>1. /\ UNCHANGED <<statut, stream, lotRelais, aMarquer>>
      /\ UNCHANGED <<dernierLu, pending, idle, lot, dlq, rejeu, audit>>
  BY DEF vars, relaisVars, consommateurVars
<1>2. InvPipeline'
  BY <1>1 DEF InvPipeline, InvRelais, InvConsommateur, Engage, Entrees
<1>3. UNCHANGED Ledger!vars
  BY <1>1 DEF Ledger!vars, Engage, Archive, Relais!InStream
<1> QED
  BY <1>2, <1>3

LEMMA InitImplements == Init => InvPipeline /\ Ledger!Init
<1> SUFFICES ASSUME Init PROVE InvPipeline /\ Ledger!Init
  OBVIOUS
<1>1. InvPipeline
  BY RelaisInit, ConsommateurInit DEF Init, InvPipeline
<1>2. /\ statut = [e \in Events |-> "absente"] /\ stream = <<>> /\ dlq = {}
      /\ audit = [e \in Events |-> 0]
  BY DEF Init, Relais!Init, Consommateur!Init
<1>3. Engages = {} /\ Diffuses = {} /\ Archives = {}
  BY <1>2 DEF Engages, Diffuses, Archives, Engage, Archive, Relais!InStream
<1> QED
  BY <1>1, <1>2, <1>3 DEF Ledger!Init, Engages, Diffuses, Archives

(* Whatever the relays and the consumers do, with their duplicates,        *)
(* redeliveries, crashes and failed calls, the tables and the stream go    *)
(* through the steps of the ledger: engaged with the mutation, broadcast   *)
(* only then, audited once or archived only after that, never forgotten.   *)
THEOREM PipelineImplementsLedger == Spec => ImplementsLedger
<1>1. InvPipeline /\ [Next]_vars => InvPipeline' /\ [Ledger!Next]_(Ledger!vars)
  BY EtapeRelais, EtapeConsommateur, EtapeImmobile DEF Next
<1> QED
  BY <1>1, InitImplements, PTL DEF Spec, ImplementsLedger, Ledger!Spec

(* What the steps of the ledger keep.                                      *)
Livre ==
    /\ Diffuses \subseteq Engages /\ Archives \subseteq Diffuses
    /\ \A e \in Events : audit[e] <= 1 /\ (audit[e] > 0 => e \in Diffuses)

LEMMA LivreStep ==
    ASSUME InvPipeline, Livre, Ledger!Next \/ UNCHANGED Ledger!vars
    PROVE  Livre'
<1>0. audit \in [Events -> Nat]
  BY DEF InvPipeline, InvConsommateur
<1>1. ASSUME Engages \subseteq Engages', Diffuses \subseteq Diffuses', audit' = audit,
             Diffuses' \subseteq Engages', Archives' \subseteq Diffuses'
      PROVE  Livre'
  BY <1>1 DEF Livre
<1>2. ASSUME NEW e \in Events, Ledger!Engager(e) PROVE Livre'
  <2>1. /\ Engages' = Engages \union {e} /\ Diffuses' = Diffuses /\ Archives' = Archives
        /\ audit' = audit
    BY <1>2 DEF Ledger!Engager, Engages, Diffuses, Archives
  <2> QED
    BY <1>1, <2>1 DEF Livre
<1>3. ASSUME NEW e \in Events, Ledger!Diffuser(e) PROVE Livre'
  <2>1. /\ e \in Engages /\ Engages' = Engages /\ Diffuses' = Diffuses \union {e}
        /\ Archives' = Archives /\ audit' = audit
    BY <1>3 DEF Ledger!Diffuser, Engages, Diffuses, Archives
  <2> QED
    BY <1>1, <2>1 DEF Livre
<1>4. ASSUME NEW e \in Events, Ledger!Auditer(e) PROVE Livre'
  <2>1. /\ e \in Diffuses /\ Engages' = Engages /\ Diffuses' = Diffuses
        /\ Archives' = Archives /\ audit' = [audit EXCEPT ![e] = 1]
    BY <1>4 DEF Ledger!Auditer, Engages, Diffuses, Archives
  <2> QED
    BY <1>0, <2>1 DEF Livre
<1>5. ASSUME NEW e \in Events, Ledger!Archiver(e) PROVE Livre'
  <2>1. /\ e \in Diffuses /\ Engages' = Engages /\ Diffuses' = Diffuses
        /\ Archives' = Archives \union {e} /\ audit' = audit
    BY <1>5 DEF Ledger!Archiver, Engages, Diffuses, Archives
  <2> QED
    BY <1>1, <2>1 DEF Livre
<1>6. CASE UNCHANGED Ledger!vars
  <2>1. Engages' = Engages /\ Diffuses' = Diffuses /\ Archives' = Archives /\ audit' = audit
    BY <1>6 DEF Ledger!vars, Engages, Diffuses, Archives
  <2> QED
    BY <1>1, <2>1 DEF Livre
<1> QED
  BY <1>2, <1>3, <1>4, <1>5, <1>6 DEF Ledger!Next

(* Through the refinement: an event is audited once at most, and whatever  *)
(* is audited or archived was on the bus, and was committed before that    *)
(* with its mutation.                                                      *)
THEOREM AucunFantome == Spec => []Livre
<1>1. Init => InvPipeline /\ Livre
  <2> SUFFICES ASSUME Init PROVE InvPipeline /\ Livre
    OBVIOUS
  <2>1. InvPipeline /\ Ledger!Init
    BY InitImplements
  <2>2. Diffuses = {} /\ Archives = {} /\ audit = [e \in Events |-> 0]
    BY <2>1 DEF Ledger!Init, Diffuses, Archives
  <2> QED
    BY <2>1, <2>2 DEF Livre
<1>2. InvPipeline /\ Livre /\ [Next]_vars => InvPipeline' /\ Livre'
  BY EtapeRelais, EtapeConsommateur, EtapeImmobile, LivreStep DEF Next
<1> QED
  BY <1>1, <1>2, PTL DEF Spec

=============================================================================
