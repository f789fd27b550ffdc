-------------------------- MODULE AuditConsumerProofs --------------------------
(***************************************************************************)
(* Proofs about the audit consumer, for every number of instances, cycles, *)
(* operators, entries, deliveries and faults.                              *)
(***************************************************************************)
EXTENDS AuditConsumer, FiniteSetTheorems, TLAPS

Etapes == {"reclamer", "execute", "save", "xack", "dlq_xack", "dlq_erreur"}

(* TypeOK by groups of variables; the rank of the next dead letter is a    *)
(* number because the dead letters are finitely many.                      *)
StreamTypeOK == stream \in Seq(Events) /\ Len(stream) <= MaxStream

GroupeTypeOK ==
    /\ groupe \in BOOLEAN /\ dernierLu \in 0..MaxStream
    /\ idle \subseteq pending /\ pending \subseteq Positions
    /\ livraisons \in [Positions -> Nat]

WorkersTypeOK ==
    /\ lot \in [Workers -> SUBSET Positions]
    /\ trop \in [Workers -> SUBSET Positions]
    /\ etape \in [Workers -> Etapes]

DlqTypeOK ==
    /\ dlq \subseteq Positions \X Nat /\ IsFiniteSet(dlq)
    /\ rejoues \subseteq dlq
    /\ rejeu \in [Operateurs -> SUBSET (dlq \X BOOLEAN)]

FautesTypeOK ==
    fautes \in Nat /\ fautesArchive \in Nat /\ fautes + fautesArchive <= MaxFautes

Types ==
    /\ StreamTypeOK /\ GroupeTypeOK /\ WorkersTypeOK
    /\ audit \in [Events -> Nat]
    /\ DlqTypeOK /\ FautesTypeOK

LEMMA TypesTypeOK == Types => TypeOK
  BY DEF Types, TypeOK, StreamTypeOK, GroupeTypeOK, WorkersTypeOK, DlqTypeOK, FautesTypeOK, Etapes

(* The helpers that move a worker on keep the workers' types.              *)
LEMMA AllerType ==
    ASSUME WorkersTypeOK, NEW w \in Workers, NEW s \in Etapes, Aller(w, s)
    PROVE  WorkersTypeOK'
  BY DEF WorkersTypeOK, Aller

LEMMA PasserType ==
    ASSUME WorkersTypeOK, NEW w \in Workers, NEW i, Passer(w, i)
    PROVE  WorkersTypeOK'
<1>1. Reprise(w) \in Etapes
  BY DEF Reprise, Etapes
<1> QED
  BY <1>1 DEF WorkersTypeOK, Passer

LEMMA InterrompreType ==
    ASSUME WorkersTypeOK, NEW w \in Workers, Interrompre(w)
    PROVE  WorkersTypeOK'
<1>1. Reprise(w) \in Etapes
  BY DEF Reprise, Etapes
<1> QED
  BY <1>1 DEF WorkersTypeOK, Interrompre

LEMMA InsertType ==
    ASSUME audit \in [Events -> Nat], NEW e, insertAudit(e)
    PROVE  /\ audit' \in [Events -> Nat]
           /\ \A f \in Events : audit[f] > 0 => audit'[f] > 0
           /\ \A f \in Events : audit[f] <= 1 => audit'[f] <= 1
           /\ e \in Events => audit'[e] > 0
<1>1. audit' = [audit EXCEPT ![e] = IF audit[e] = 0 THEN 1 ELSE audit[e]]
  BY DEF insertAudit
<1>2. \A f \in Events : audit'[f] = IF f = e /\ audit[f] = 0 THEN 1 ELSE audit[f]
  BY <1>1
<1>3. audit' \in [Events -> Nat]
  <2>1. \A f \in Events : audit'[f] \in Nat
    BY <1>2
  <2> QED
    BY <1>1, <2>1
<1> QED
  BY <1>2, <1>3

LEMMA XackType ==
    ASSUME GroupeTypeOK, NEW i, xack(i), UNCHANGED <<groupe, dernierLu, livraisons>>
    PROVE  GroupeTypeOK'
  BY DEF GroupeTypeOK, xack

LEMMA RangType ==
    ASSUME DlqTypeOK, NEW i \in Positions,
           dlq' \in {dlq, dlq \union {Rang(i)}}, UNCHANGED <<rejoues, rejeu>>
    PROVE  DlqTypeOK'
<1>1. IsFiniteSet({d \in dlq : d[1] = i})
  BY FS_Subset DEF DlqTypeOK
<1>2. Rang(i) \in Positions \X Nat
  BY <1>1, FS_CardinalityType DEF Rang
<1>3. IsFiniteSet(dlq \union {Rang(i)})
  BY FS_AddElement DEF DlqTypeOK
<1>4. dlq \subseteq dlq' /\ dlq' \subseteq Positions \X Nat /\ IsFiniteSet(dlq')
  BY <1>2, <1>3 DEF DlqTypeOK
<1>5. rejeu \in [Operateurs -> SUBSET (dlq' \X BOOLEAN)]
  BY <1>4 DEF DlqTypeOK
<1> QED
  BY <1>4, <1>5 DEF DlqTypeOK

LEMMA FauteType ==
    FautesTypeOK /\ (Faute \/ FauteArchive \/ UNCHANGED fauteVars) => FautesTypeOK'
  BY ConsumerAssumption DEF FautesTypeOK, Faute, FauteArchive, fauteVars

LEMMA TypesStep == ASSUME Types, [Next]_vars PROVE Types'
<1> USE DEF Types
<1>u. /\ UNCHANGED stream => StreamTypeOK'
      /\ UNCHANGED groupVars => GroupeTypeOK'
      /\ UNCHANGED workerVars => WorkersTypeOK'
      /\ UNCHANGED dlqVars => DlqTypeOK'
      /\ UNCHANGED fauteVars => FautesTypeOK'
  BY DEF StreamTypeOK, GroupeTypeOK, WorkersTypeOK, DlqTypeOK, FautesTypeOK,
         groupVars, workerVars, dlqVars, fauteVars
<1>e. "save" \in Etapes /\ "xack" \in Etapes /\ "execute" \in Etapes /\ "dlq_xack" \in Etapes
      /\ "dlq_erreur" \in Etapes
  BY DEF Etapes
<1>1. ASSUME NEW e \in Events, xadd(e) PROVE Types'
  <2>1. Append(stream, e) \in Seq(Events) /\ Len(Append(stream, e)) = Len(stream) + 1
    BY DEF StreamTypeOK
  <2>2. StreamTypeOK'
    BY <1>1, <2>1, ConsumerAssumption DEF xadd, StreamTypeOK
  <2> QED
    BY <1>1, <1>u, <2>2 DEF xadd
<1>2. ASSUME ensureConsumerGroupExists PROVE Types'
  <2>1. GroupeTypeOK'
    BY <1>2, ConsumerAssumption DEF ensureConsumerGroupExists, GroupeTypeOK, StreamTypeOK
  <2> QED
    BY <1>2, <1>u, <2>1 DEF ensureConsumerGroupExists
<1>3. ASSUME NEW i \in Positions, Vieillir(i) PROVE Types'
  <2>1. GroupeTypeOK'
    BY <1>3 DEF Vieillir, GroupeTypeOK
  <2> QED
    BY <1>3, <1>u, <2>1 DEF Vieillir
<1>x. ASSUME NEW n \in Positions, xreadgroup(n), UNCHANGED <<groupe, idle>>
      PROVE  GroupeTypeOK' /\ (dernierLu + 1)..n \subseteq Positions
  <2>1. n \in 0..MaxStream /\ (dernierLu + 1)..n \subseteq Positions
    BY <1>x, ConsumerAssumption DEF xreadgroup, Positions, GroupeTypeOK
  <2>2. livraisons' \in [Positions -> Nat]
    BY <1>x DEF xreadgroup, GroupeTypeOK
  <2>3. pending' \subseteq Positions /\ idle' \subseteq pending'
    BY <1>x, <2>1 DEF xreadgroup, GroupeTypeOK
  <2> QED
    BY <1>x, <2>1, <2>2, <2>3 DEF xreadgroup, GroupeTypeOK
<1>4. ASSUME NEW w \in Lecteurs, runReadLoop(w) PROVE Types'
  <2>1. PICK n \in Positions : xreadgroup(n) /\ lot' = [lot EXCEPT ![w] = (dernierLu + 1)..n]
    BY <1>4 DEF runReadLoop
  <2>2. UNCHANGED <<groupe, idle>>
    BY <1>4 DEF runReadLoop
  <2>3. GroupeTypeOK' /\ (dernierLu + 1)..n \subseteq Positions
    BY <1>x, <2>1, <2>2
  <2>4. WorkersTypeOK'
    BY <1>4, <2>1, <2>3 DEF runReadLoop, WorkersTypeOK
  <2> QED
    BY <1>4, <1>u, <2>3, <2>4 DEF runReadLoop
<1>5. ASSUME NEW w \in Lecteurs, runReadLoopEchoue(w) PROVE Types'
  <2>1. PICK n \in Positions : xreadgroup(n)
    BY <1>5 DEF runReadLoopEchoue
  <2>2. GroupeTypeOK'
    BY <1>x, <1>5, <2>1 DEF runReadLoopEchoue
  <2> QED
    BY <1>5, <1>u, <2>2, FauteType DEF runReadLoopEchoue
<1>6. ASSUME NEW w \in Reclamations, runClaimCycle(w) PROVE Types'
  <2>1. PICK S \in SUBSET idle :
            /\ lot' = [lot EXCEPT ![w] = S]
            /\ trop' = [trop EXCEPT ![w] =
                          {i \in S : shouldMoveToDeadLetter(livraisons[i], MaxDeliveries)}]
    BY <1>6 DEF runClaimCycle
  <2>2. S \subseteq Positions
    BY <2>1 DEF GroupeTypeOK
  <2>3. WorkersTypeOK'
    BY <1>6, <2>1, <2>2 DEF runClaimCycle, WorkersTypeOK
  <2> QED
    BY <1>6, <1>u, <2>3 DEF runClaimCycle
<1>7. ASSUME NEW w \in Workers, NEW i \in Positions, xclaim(w, i) PROVE Types'
  <2>1. GroupeTypeOK'
    BY <1>7 DEF xclaim, GroupeTypeOK
  <2>2. WorkersTypeOK'
    BY <1>7, <1>e, AllerType, PasserType DEF xclaim
  <2> QED
    BY <1>7, <1>u, <2>1, <2>2 DEF xclaim
<1>8. ASSUME NEW w \in Workers, NEW i \in Positions, execute(w, i) PROVE Types'
  <2>1. WorkersTypeOK'
    BY <1>8, <1>e, AllerType, PasserType DEF execute
  <2> QED
    BY <1>8, <1>u, <2>1 DEF execute
<1>9. ASSUME NEW w \in Workers, NEW i \in Positions, save(w, i) PROVE Types'
  <2>1. WorkersTypeOK'
    BY <1>9, <1>e, AllerType DEF save
  <2> QED
    BY <1>9, <1>u, <2>1, InsertType DEF save
<1>10. ASSUME NEW w \in Workers, NEW i \in Positions, acquitter(w, i) PROVE Types'
  <2>1. WorkersTypeOK' /\ GroupeTypeOK'
    BY <1>10, PasserType, XackType DEF acquitter
  <2> QED
    BY <1>10, <1>u, <2>1 DEF acquitter
<1>11. ASSUME NEW w \in Workers, NEW i \in Positions, handleMessageEchoue(w, i) PROVE Types'
  <2>1. GroupeTypeOK'
    BY <1>11, <1>u, XackType DEF handleMessageEchoue, groupVars
  <2>2. audit' \in [Events -> Nat]
    BY <1>11, InsertType DEF handleMessageEchoue
  <2> QED
    BY <1>11, <1>u, <2>1, <2>2, PasserType, FauteType DEF handleMessageEchoue
<1>12. ASSUME NEW w \in Workers, NEW i \in Positions, moveEntryToDeadLetter(w, i) PROVE Types'
  <2>1. DlqTypeOK'
    BY <1>12, RangType DEF moveEntryToDeadLetter
  <2> QED
    BY <1>12, <1>u, <1>e, <2>1, AllerType DEF moveEntryToDeadLetter
<1>13. ASSUME NEW w \in Workers, NEW i \in Positions, moveEntryToDeadLetterEchoue(w, i)
       PROVE  Types'
  <2>1. DlqTypeOK'
    BY <1>13, RangType DEF moveEntryToDeadLetterEchoue
  <2> QED
    BY <1>13, <1>u, <1>e, <2>1, AllerType, FauteType DEF moveEntryToDeadLetterEchoue
<1>14. ASSUME NEW w \in Workers, NEW i \in Positions, finallyXack(w, i) PROVE Types'
  <2>1. WorkersTypeOK' /\ GroupeTypeOK'
    BY <1>14, PasserType, InterrompreType, XackType DEF finallyXack
  <2> QED
    BY <1>14, <1>u, <2>1 DEF finallyXack
<1>15. ASSUME NEW w \in Workers, NEW i \in Positions, runClaimCycleEchoue(w, i) PROVE Types'
  <2>1. CASE UNCHANGED pending /\ i \in idle /\ idle' = idle \ {i}
               /\ livraisons' = [livraisons EXCEPT ![i] = @ + 1]
    <3>0. livraisons' \in [Positions -> Nat]
      BY <2>1 DEF GroupeTypeOK
    <3>1. GroupeTypeOK'
      BY <1>15, <2>1, <3>0 DEF runClaimCycleEchoue, GroupeTypeOK
    <3> QED
      BY <1>15, <1>u, <3>1, InterrompreType, FauteType DEF runClaimCycleEchoue
  <2>2. CASE UNCHANGED livraisons /\ (xack(i) \/ UNCHANGED <<pending, idle>>)
    <3>1. GroupeTypeOK'
      BY <1>15, <2>2, XackType DEF runClaimCycleEchoue, GroupeTypeOK
    <3> QED
      BY <1>15, <1>u, <3>1, InterrompreType, FauteType DEF runClaimCycleEchoue
  <2> QED
    BY <1>15, <2>1, <2>2 DEF runClaimCycleEchoue
<1>16. ASSUME NEW n \in Instances, onModuleDestroy(n) PROVE Types'
  <2>1. WorkersTypeOK'
    BY <1>16 DEF onModuleDestroy, WorkersTypeOK, Reprise, Etapes
  <2> QED
    BY <1>16, <1>u, <2>1, FauteType DEF onModuleDestroy
<1>17. ASSUME NEW o \in Operateurs, NEW d \in dlq, replay(o, d) PROVE Types'
  <2>1. rejeu' \in [Operateurs -> SUBSET (dlq \X BOOLEAN)]
    <3> DEFINE deja == audit[stream[d[1]]] > 0
    <3>1. deja \in BOOLEAN
      OBVIOUS
    <3>2. rejeu' = [rejeu EXCEPT ![o] = {<<d, deja>>}]
      BY <1>17 DEF replay
    <3> HIDE DEF deja
    <3> QED
      BY <3>1, <3>2 DEF DlqTypeOK
  <2>2. DlqTypeOK'
    BY <1>17, <2>1 DEF replay, DlqTypeOK
  <2> QED
    BY <1>17, <1>u, <2>2 DEF replay
<1>18. ASSUME NEW o \in Operateurs, replayCommit(o) PROVE Types'
  <2>1. PICK r \in rejeu[o] :
            LET e == stream[r[1][1]] IN
            \/ r[2] /\ rejoues' = rejoues \union {r[1]} /\ UNCHANGED audit
            \/ ~r[2] /\ audit[e] = 0 /\ rejoues' = rejoues \union {r[1]} /\ insertAudit(e)
            \/ ~r[2] /\ audit[e] > 0 /\ UNCHANGED <<rejoues, audit>>
    BY <1>18 DEF replayCommit
  <2>2. r[1] \in dlq
    BY DEF DlqTypeOK
  <2>3. audit' \in [Events -> Nat]
    BY <2>1, InsertType
  <2>4. rejoues' \subseteq dlq
    BY <2>1, <2>2 DEF DlqTypeOK
  <2>5. DlqTypeOK'
    BY <1>18, <2>4 DEF replayCommit, DlqTypeOK
  <2> QED
    BY <1>18, <1>u, <2>3, <2>5 DEF replayCommit
<1>19. ASSUME UNCHANGED vars PROVE Types'
  BY <1>19, <1>u DEF vars
<1> QED
  BY <1>1, <1>2, <1>3, <1>4, <1>5, <1>6, <1>7, <1>8, <1>9, <1>10, <1>11, <1>12, <1>13, <1>14,
     <1>15, <1>16, <1>17, <1>18, <1>19 DEF Next, ConsumerNext, WorkerStep

LEMMA TypesInit == Init => Types
<1> USE ConsumerAssumption
<1> SUFFICES ASSUME Init PROVE Types
  OBVIOUS
<1>1. WorkersTypeOK
  BY DEF Init, WorkersTypeOK, Reprise, Etapes
<1>2. StreamTypeOK
  BY DEF Init, StreamTypeOK
<1>3. GroupeTypeOK
  <2>1. 0 \in 0..MaxStream
    BY ConsumerAssumption
  <2>2. livraisons \in [Positions -> Nat]
    BY DEF Init
  <2> QED
    BY <2>1, <2>2 DEF Init, GroupeTypeOK
<1>4. FautesTypeOK /\ audit \in [Events -> Nat]
  BY DEF Init, FautesTypeOK
<1>5. DlqTypeOK
  BY FS_EmptySet DEF Init, DlqTypeOK
<1> QED
  BY <1>1, <1>2, <1>3, <1>4, <1>5 DEF Types

LEMMA TypesCorrect == Spec => []Types
  BY TypesInit, TypesStep, PTL DEF Spec

(* Every variable keeps its type through every call of the consumer.       *)
THEOREM TypeCorrect == Spec => []TypeOK
  BY TypesCorrect, TypesTypeOK, PTL

-----------------------------------------------------------------------------
(* What every entry the group has delivered, every batch, every archived   *)
(* entry and every replay rely on.                                         *)
InvGroupe ==
    /\ dernierLu <= Len(stream)
    /\ \A i \in pending : livraisons[i] > 0
    /\ \A i \in Positions : livraisons[i] > 0 => i <= dernierLu

Poste(w) ==
    /\ lot[w] \subseteq 1..dernierLu /\ trop[w] \subseteq lot[w]
    /\ \A i \in trop[w] : livraisons[i] > MaxDeliveries
    /\ lot[w] = {} => etape[w] = Reprise(w)
    /\ w \in Lecteurs => trop[w] = {} /\ etape[w] \in {"execute", "save", "xack"}
    /\ \A i \in lot[w] :
          /\ Tete(w, i, "save") => stream[i] \notin SansId
          /\ Tete(w, i, "xack") => stream[i] \notin SansId /\ Audite(i)
          /\ Tete(w, i, "dlq_xack") => i \in trop[w] /\ Archive(i)
          /\ Tete(w, i, "dlq_erreur") => i \in trop[w]

InvDlq == \A d \in dlq : d[1] \in 1..dernierLu /\ livraisons[d[1]] > MaxDeliveries

InvRejeu == \A o \in Operateurs : \A r \in rejeu[o] : r[2] => audit[stream[r[1][1]]] > 0

Inv ==
    /\ Types /\ InvGroupe
    /\ \A w \in Workers : Poste(w)
    /\ InvDlq /\ InvRejeu
    /\ AuditUnique /\ RejoueAudite

(* What no step takes back.                                                *)
Croissance ==
    /\ \A i \in 1..Len(stream) : i \in 1..Len(stream') /\ stream'[i] = stream[i]
    /\ dernierLu <= dernierLu' /\ dernierLu' <= Len(stream')
    /\ \A i \in Positions : livraisons[i] <= livraisons'[i]
    /\ \A e \in Events : audit[e] > 0 => audit'[e] > 0
    /\ dlq \subseteq dlq'

LEMMA XreadgroupGroupe ==
    ASSUME Types, InvGroupe, NEW n \in Positions, xreadgroup(n), UNCHANGED stream
    PROVE  /\ dernierLu <= dernierLu' /\ dernierLu' <= Len(stream')
           /\ \A i \in Positions : livraisons[i] <= livraisons'[i]
           /\ InvGroupe'
<1> USE DEF Types, GroupeTypeOK, StreamTypeOK
<1>1. /\ dernierLu' = n /\ dernierLu < n /\ n <= Len(stream)
      /\ pending' = pending \union (dernierLu + 1)..n
      /\ \A i \in Positions :
            livraisons'[i] = IF i \in (dernierLu + 1)..n THEN 1 ELSE livraisons[i]
  BY DEF xreadgroup
<1>2. \A i \in (dernierLu + 1)..n : i \in Positions /\ livraisons[i] = 0
  <2> SUFFICES ASSUME NEW i \in (dernierLu + 1)..n
               PROVE  i \in Positions /\ livraisons[i] = 0
    OBVIOUS
  <2>1. dernierLu \in Nat /\ n \in 1..MaxStream /\ MaxStream \in Nat
    BY ConsumerAssumption DEF Positions
  <2>2. i \in Positions /\ ~(i <= dernierLu)
    BY <2>1 DEF Positions
  <2>3. livraisons[i] \in Nat /\ ~(livraisons[i] > 0)
    BY <2>2 DEF InvGroupe
  <2> QED
    BY <2>2, <2>3
<1>3. \A i \in Positions : livraisons[i] <= livraisons'[i]
  BY <1>1, <1>2
<1>4. \A i \in Positions : livraisons'[i] > 0 => i <= n
  BY <1>1 DEF InvGroupe, Positions
<1>5. \A i \in pending' : livraisons'[i] > 0
  BY <1>1, <1>2 DEF InvGroupe
<1> QED
  BY <1>1, <1>3, <1>4, <1>5, ConsumerAssumption DEF InvGroupe, Positions

LEMMA CroissanceStep ==
    ASSUME Types, InvGroupe, [Next]_vars
    PROVE  Croissance /\ InvGroupe'
<1> USE DEF Types
<1>s. UNCHANGED stream =>
         \A i \in 1..Len(stream) : i \in 1..Len(stream') /\ stream'[i] = stream[i]
  OBVIOUS
<1>g. UNCHANGED <<stream, dernierLu, livraisons>> =>
         /\ dernierLu <= dernierLu' /\ dernierLu' <= Len(stream')
         /\ \A i \in Positions : livraisons[i] <= livraisons'[i]
         /\ pending' \subseteq pending => InvGroupe'
  BY DEF InvGroupe, GroupeTypeOK
<1>1. ASSUME NEW e \in Events, xadd(e) PROVE Croissance /\ InvGroupe'
  <2>1. Len(stream') = Len(stream) + 1 /\ \A i \in 1..Len(stream) : stream'[i] = stream[i]
    BY <1>1 DEF xadd, StreamTypeOK
  <2>2. Len(stream) \in Nat
    BY DEF StreamTypeOK
  <2> QED
    BY <1>1, <2>1, <2>2 DEF xadd, Croissance, InvGroupe, GroupeTypeOK, groupVars, dlqVars
<1>2. ASSUME ensureConsumerGroupExists PROVE Croissance /\ InvGroupe'
  <2>1. Len(stream) \in Nat
    BY DEF StreamTypeOK
  <2> QED
    BY <1>2, <1>s, <2>1 DEF ensureConsumerGroupExists, Croissance, InvGroupe, GroupeTypeOK,
                            dlqVars, Positions
<1>3. ASSUME NEW i \in Positions, Vieillir(i) PROVE Croissance /\ InvGroupe'
  BY <1>3, <1>s, <1>g DEF Vieillir, Croissance, dlqVars
<1>4. ASSUME NEW w \in Lecteurs, runReadLoop(w) \/ runReadLoopEchoue(w)
      PROVE  Croissance /\ InvGroupe'
  <2>1. /\ \E n \in Positions : xreadgroup(n)
        /\ UNCHANGED <<stream, audit, dlq>>
    BY <1>4 DEF runReadLoop, runReadLoopEchoue, dlqVars
  <2> QED
    BY <1>s, <2>1, XreadgroupGroupe DEF Croissance
<1>5. ASSUME NEW w \in Reclamations, runClaimCycle(w) PROVE Croissance /\ InvGroupe'
  BY <1>5, <1>s, <1>g DEF runClaimCycle, Croissance, groupVars, dlqVars
<1>c. ASSUME NEW i \in Positions, i \in idle, UNCHANGED <<stream, dernierLu, pending, audit, dlq>>,
             livraisons' = [livraisons EXCEPT ![i] = @ + 1]
      PROVE  Croissance /\ InvGroupe'
  <2>1. \A j \in Positions : livraisons'[j] = IF j = i THEN livraisons[j] + 1 ELSE livraisons[j]
    BY <1>c DEF GroupeTypeOK
  <2>2. i <= dernierLu
    BY <1>c DEF InvGroupe, GroupeTypeOK
  <2>3. \A j \in Positions : livraisons[j] <= livraisons'[j]
    BY <2>1 DEF GroupeTypeOK
  <2>4. InvGroupe'
    BY <1>c, <2>1, <2>2 DEF InvGroupe, GroupeTypeOK
  <2> QED
    BY <1>c, <1>s, <2>3, <2>4 DEF Croissance, InvGroupe, GroupeTypeOK
<1>x. ASSUME NEW i \in Positions, xack(i) \/ UNCHANGED pending,
             UNCHANGED <<stream, dernierLu, livraisons, audit, dlq>>
      PROVE  Croissance /\ InvGroupe'
  BY <1>x, <1>s, <1>g DEF xack, Croissance
<1>6. ASSUME NEW w \in Workers, NEW i \in Positions, xclaim(w, i) PROVE Croissance /\ InvGroupe'
  BY <1>6, <1>c, <1>x DEF xclaim, dlqVars
<1>7. ASSUME NEW w \in Workers, NEW i \in Positions, execute(w, i) PROVE Croissance /\ InvGroupe'
  BY <1>7, <1>x DEF execute, groupVars, dlqVars
<1>8. ASSUME NEW w \in Workers, NEW i \in Positions,
             save(w, i) \/ acquitter(w, i) \/ handleMessageEchoue(w, i)
      PROVE  Croissance /\ InvGroupe'
  <2>1. \A e \in Events : audit[e] > 0 => audit'[e] > 0
    BY <1>8, InsertType DEF save, acquitter, handleMessageEchoue
  <2>2. /\ UNCHANGED <<stream, dernierLu, livraisons, dlq>>
        /\ pending' \subseteq pending
    BY <1>8 DEF save, acquitter, handleMessageEchoue, xack, groupVars, dlqVars
  <2> QED
    BY <1>s, <1>g, <2>1, <2>2 DEF Croissance
<1>9. ASSUME NEW w \in Workers, NEW i \in Positions,
             moveEntryToDeadLetter(w, i) \/ moveEntryToDeadLetterEchoue(w, i)
      PROVE  Croissance /\ InvGroupe'
  <2>1. dlq \subseteq dlq' /\ UNCHANGED <<stream, groupVars, audit>>
    BY <1>9 DEF moveEntryToDeadLetter, moveEntryToDeadLetterEchoue
  <2> QED
    BY <1>s, <1>g, <2>1 DEF Croissance, groupVars
<1>10. ASSUME NEW w \in Workers, NEW i \in Positions, finallyXack(w, i)
       PROVE  Croissance /\ InvGroupe'
  BY <1>10, <1>x DEF finallyXack, dlqVars
<1>11. ASSUME NEW w \in Workers, NEW i \in Positions, runClaimCycleEchoue(w, i)
       PROVE  Croissance /\ InvGroupe'
  BY <1>11, <1>c, <1>x DEF runClaimCycleEchoue, dlqVars
<1>12. ASSUME NEW n \in Instances, onModuleDestroy(n) PROVE Croissance /\ InvGroupe'
  BY <1>12, <1>s, <1>g DEF onModuleDestroy, Croissance, groupVars, dlqVars
<1>13. ASSUME NEW o \in Operateurs, NEW d \in dlq, replay(o, d) PROVE Croissance /\ InvGroupe'
  BY <1>13, <1>s, <1>g DEF replay, Croissance, groupVars
<1>14. ASSUME NEW o \in Operateurs, replayCommit(o) PROVE Croissance /\ InvGroupe'
  <2>1. \A e \in Events : audit[e] > 0 => audit'[e] > 0
    BY <1>14, InsertType DEF replayCommit
  <2> QED
    BY <1>14, <1>s, <1>g, <2>1 DEF replayCommit, Croissance, groupVars
<1>15. ASSUME UNCHANGED vars PROVE Croissance /\ InvGroupe'
  BY <1>15, <1>s, <1>g DEF vars, Croissance, groupVars, dlqVars
<1> QED
  BY <1>1, <1>2, <1>3, <1>4, <1>5, <1>6, <1>7, <1>8, <1>9, <1>10, <1>11, <1>12, <1>13, <1>14,
     <1>15 DEF Next, ConsumerNext, WorkerStep

(* An event keeps its audit row, an entry its archive.                     *)
LEMMA CroissanceFaits ==
    ASSUME Types, Types', InvGroupe, Croissance, NEW i \in 1..dernierLu
    PROVE  /\ i \in Positions /\ i \in 1..dernierLu'
           /\ stream'[i] = stream[i] /\ stream[i] \in Events
           /\ Audite(i) => Audite(i)'
           /\ Archive(i) => Archive(i)'
           /\ livraisons[i] > MaxDeliveries => livraisons'[i] > MaxDeliveries
<1> USE DEF Types, StreamTypeOK, GroupeTypeOK
<1>1. i \in Positions /\ i \in 1..Len(stream)
  <2>1. dernierLu \in Nat /\ dernierLu <= MaxStream /\ MaxStream \in Nat
    BY ConsumerAssumption
  <2>2. Len(stream) \in Nat /\ dernierLu <= Len(stream)
    BY DEF InvGroupe
  <2> QED
    BY <2>1, <2>2 DEF Positions
<1>2. stream'[i] = stream[i] /\ stream[i] \in Events /\ dlq \subseteq dlq'
      /\ livraisons[i] <= livraisons'[i] /\ i \in 1..dernierLu'
  <2>1. stream'[i] = stream[i]
    BY <1>1 DEF Croissance
  <2>s. stream \in Seq(Events)
    OBVIOUS
  <2>e. stream[i] \in Events
    BY ONLY <1>1, <2>s
  <2>2. dlq \subseteq dlq' /\ livraisons[i] <= livraisons'[i]
    BY <1>1 DEF Croissance
  <2>3. i \in 1..dernierLu'
    BY <1>1 DEF Croissance
  <2> QED
    BY <2>1, <2>e, <2>2, <2>3
<1>3. Audite(i) => Audite(i)'
  BY <1>2 DEF Audite, Croissance
<1>4. Archive(i) => Archive(i)'
  BY <1>2 DEF Archive
<1>5. livraisons[i] > MaxDeliveries => livraisons'[i] > MaxDeliveries
  <2>1. livraisons[i] \in Nat /\ livraisons'[i] \in Nat
    BY <1>1
  <2>2. MaxDeliveries \in Nat
    BY ConsumerAssumption
  <2> QED
    BY <1>2, <2>1, <2>2
<1> QED
  BY <1>1, <1>2, <1>3, <1>4, <1>5

(* A worker that does not move keeps its invariant; one that passes on to  *)
(* the next entry, or drops its batch, has nothing left to establish.      *)
LEMMA PosteReste ==
    ASSUME Types, Types', InvGroupe, Croissance, NEW w \in Workers, Poste(w),
           lot'[w] = lot[w], trop'[w] = trop[w], etape'[w] = etape[w]
    PROVE  Poste(w)'
<1>1. ASSUME NEW i \in lot[w]
      PROVE  /\ i \in 1..dernierLu'
             /\ livraisons[i] > MaxDeliveries => livraisons'[i] > MaxDeliveries
  BY CroissanceFaits DEF Poste
<1>2. \A i \in trop'[w] : livraisons'[i] > MaxDeliveries
  BY <1>1 DEF Poste
<1>3. ASSUME NEW i \in lot'[w]
      PROVE  /\ Tete(w, i, "save")' => stream'[i] \notin SansId
             /\ Tete(w, i, "xack")' => stream'[i] \notin SansId /\ Audite(i)'
             /\ Tete(w, i, "dlq_xack")' => i \in trop'[w] /\ Archive(i)'
             /\ Tete(w, i, "dlq_erreur")' => i \in trop'[w]
  <2>1. stream'[i] = stream[i] /\ (Audite(i) => Audite(i)') /\ (Archive(i) => Archive(i)')
    BY <1>3, CroissanceFaits DEF Poste
  <2>2. \A s : Tete(w, i, s)' <=> Tete(w, i, s)
    BY DEF Tete
  <2> QED
    BY <1>3, <2>1, <2>2, Zenon DEF Poste
<1> QED
  BY <1>1, <1>2, <1>3 DEF Poste, Reprise

LEMMA PosteRepris ==
    ASSUME Types, Types', InvGroupe, Croissance, NEW w \in Workers, Poste(w),
           lot'[w] \subseteq lot[w], trop'[w] \subseteq trop[w], trop'[w] \subseteq lot'[w],
           etape'[w] = Reprise(w)
    PROVE  Poste(w)'
<1>1. ASSUME NEW i \in lot[w]
      PROVE  /\ i \in 1..dernierLu'
             /\ livraisons[i] > MaxDeliveries => livraisons'[i] > MaxDeliveries
  BY CroissanceFaits DEF Poste
<1>2. \A i \in trop'[w] : livraisons'[i] > MaxDeliveries
  BY <1>1 DEF Poste
<1>3. ASSUME NEW i \in lot'[w]
      PROVE  /\ ~Tete(w, i, "save")' /\ ~Tete(w, i, "xack")'
             /\ ~Tete(w, i, "dlq_xack")' /\ ~Tete(w, i, "dlq_erreur")'
  BY DEF Tete, Reprise
<1>4. w \in Lecteurs => trop'[w] = {} /\ etape'[w] = "execute"
  BY DEF Poste, Reprise
<1>5. lot'[w] \subseteq 1..dernierLu'
  BY <1>1
<1> QED
  BY <1>2, <1>3, <1>4, <1>5 DEF Poste, Reprise

(* A worker goes on to step s of the entry it handles.                     *)
LEMMA PosteAvance ==
    ASSUME Types, Types', InvGroupe, Croissance, NEW w \in Workers, Poste(w),
           NEW i \in lot[w], \A j \in lot[w] : i <= j, NEW s \in Etapes, Aller(w, s),
           w \in Lecteurs => s \in {"execute", "save", "xack"},
           s = "save" => stream[i] \notin SansId,
           s = "xack" => stream[i] \notin SansId /\ Audite(i)',
           s = "dlq_xack" => i \in trop[w] /\ Archive(i)',
           s = "dlq_erreur" => i \in trop[w]
    PROVE  Poste(w)'
<1>0. lot'[w] = lot[w] /\ trop'[w] = trop[w] /\ etape'[w] = s
  BY DEF Aller, Types, WorkersTypeOK
<1>1. ASSUME NEW j \in lot[w]
      PROVE  /\ j \in 1..dernierLu'
             /\ livraisons[j] > MaxDeliveries => livraisons'[j] > MaxDeliveries
  BY CroissanceFaits DEF Poste
<1>2. \A j \in trop'[w] : livraisons'[j] > MaxDeliveries
  BY <1>0, <1>1 DEF Poste
<1>3. stream'[i] = stream[i]
  BY CroissanceFaits DEF Poste
<1>4. ASSUME NEW j \in lot'[w]
      PROVE  /\ Tete(w, j, "save")' => stream'[j] \notin SansId
             /\ Tete(w, j, "xack")' => stream'[j] \notin SansId /\ Audite(j)'
             /\ Tete(w, j, "dlq_xack")' => j \in trop'[w] /\ Archive(j)'
             /\ Tete(w, j, "dlq_erreur")' => j \in trop'[w]
  <2>1. i \in Int /\ j \in Int /\ i <= j /\ i \in lot'[w]
    BY <1>0, <1>4 DEF Poste, Types, GroupeTypeOK
  <2>2. CASE j = i
    BY <1>0, <1>3, <2>2 DEF Tete
  <2>3. CASE j # i
    BY <1>0, <2>1, <2>3 DEF Tete
  <2> QED
    BY <2>2, <2>3
<1>5. etape'[w] = s /\ lot'[w] # {} /\ lot'[w] \subseteq 1..dernierLu' /\ trop'[w] \subseteq lot'[w]
  BY <1>0, <1>1 DEF Poste
<1>6. w \in Lecteurs => trop'[w] = {} /\ etape'[w] \in {"execute", "save", "xack"}
  BY <1>0 DEF Poste
<1> QED
  BY <1>2, <1>4, <1>5, <1>6 DEF Poste

(* What the helpers leave to a worker: w moves, every other one stays.     *)
LEMMA PasserFaits ==
    ASSUME Types, NEW w \in Workers, NEW i, Passer(w, i) \/ Interrompre(w), NEW v \in Workers
    PROVE  IF v = w
           THEN /\ lot'[v] \in {lot[v] \ {i}, {}}
                /\ lot'[v] = {} \/ trop'[v] = trop[v] \ {i}
                /\ lot'[v] \subseteq lot[v] /\ trop'[v] \subseteq trop[v]
                /\ trop[v] \subseteq lot[v] => trop'[v] \subseteq lot'[v]
                /\ etape'[v] = Reprise(v)
           ELSE lot'[v] = lot[v] /\ trop'[v] = trop[v] /\ etape'[v] = etape[v]
  BY DEF Passer, Interrompre, Types, WorkersTypeOK

LEMMA AllerFaits ==
    ASSUME Types, NEW w \in Workers, NEW s, Aller(w, s), NEW v \in Workers
    PROVE  /\ lot'[v] = lot[v] /\ trop'[v] = trop[v]
           /\ etape'[v] = IF v = w THEN s ELSE etape[v]
  BY DEF Aller, Types, WorkersTypeOK

(* The steps that move a worker.                                          *)
LEMMA QuiBouge ==
    ASSUME [Next]_vars
    PROVE  \/ \E w \in Lecteurs : runReadLoop(w)
           \/ \E w \in Reclamations : runClaimCycle(w)
           \/ \E w \in Workers, i \in Positions :
                 \/ xclaim(w, i) \/ execute(w, i) \/ save(w, i)
                 \/ acquitter(w, i) \/ handleMessageEchoue(w, i) \/ finallyXack(w, i)
                 \/ runClaimCycleEchoue(w, i)
                 \/ moveEntryToDeadLetter(w, i) \/ moveEntryToDeadLetterEchoue(w, i)
           \/ \E n \in Instances : onModuleDestroy(n)
           \/ UNCHANGED workerVars
  BY DEF Next, ConsumerNext, WorkerStep, xadd, ensureConsumerGroupExists, Vieillir,
         runReadLoopEchoue, replay, replayCommit, vars, workerVars

LEMMA PosteStep ==
    ASSUME Inv, [Next]_vars, NEW v \in Workers
    PROVE  Poste(v)'
<1>0. Types /\ Types' /\ InvGroupe /\ Croissance /\ \A w \in Workers : Poste(w)
  BY TypesStep, CroissanceStep DEF Inv
<1>r. lot'[v] = lot[v] /\ trop'[v] = trop[v] /\ etape'[v] = etape[v] => Poste(v)'
  BY <1>0, PosteReste
<1>u. UNCHANGED workerVars => Poste(v)'
  BY <1>r DEF workerVars
<1>p. ASSUME NEW w \in Workers, NEW i, Passer(w, i) \/ Interrompre(w) PROVE Poste(v)'
  <2>1. CASE v = w
    <3>1. trop[v] \subseteq lot[v]
      BY <1>0 DEF Poste
    <3> QED
      BY <1>0, <1>p, <2>1, <3>1, PasserFaits, PosteRepris
  <2>2. CASE v # w
    BY <1>0, <1>p, <1>r, <2>2, PasserFaits
  <2> QED
    BY <2>1, <2>2
<1>a. ASSUME NEW w \in Workers, NEW i, NEW s \in Etapes, NEW t, Tete(w, i, t), Aller(w, s),
             w \in Lecteurs => s \in {"execute", "save", "xack"},
             s = "save" => stream[i] \notin SansId,
             s = "xack" => stream[i] \notin SansId /\ Audite(i)',
             s = "dlq_xack" => i \in trop[w] /\ Archive(i)',
             s = "dlq_erreur" => i \in trop[w]
      PROVE  Poste(v)'
  <2>1. CASE v = w
    <3>1. i \in lot[w] /\ \A j \in lot[w] : i <= j
      BY <1>a DEF Tete
    <3> QED
      BY <1>0, <1>a, <2>1, <3>1, PosteAvance
  <2>2. CASE v # w
    BY <1>0, <1>a, <1>r, <2>2, AllerFaits
  <2> QED
    BY <2>1, <2>2
<1>l. ASSUME NEW w \in Workers, NEW i, Tete(w, i, "reclamer") \/ i \in trop[w] PROVE w \notin Lecteurs
  BY <1>0, <1>l DEF Poste, Tete
<1>e. "save" \in Etapes /\ "xack" \in Etapes /\ "execute" \in Etapes /\ "dlq_xack" \in Etapes
      /\ "dlq_erreur" \in Etapes
  BY DEF Etapes
<1>f. ASSUME NEW w \in Workers, NEW i, NEW s, Tete(w, i, s)
      PROVE  /\ i \in 1..dernierLu /\ stream[i] \in Events /\ stream'[i] = stream[i]
             /\ Audite(i) => Audite(i)'
  BY <1>0, <1>f, CroissanceFaits DEF Poste, Tete
<1>1. ASSUME NEW w \in Lecteurs, runReadLoop(w) PROVE Poste(v)'
  <2>0. w \in Workers
    BY DEF Workers
  <2>1. PICK n \in Positions : xreadgroup(n) /\ lot' = [lot EXCEPT ![w] = (dernierLu + 1)..n]
    BY <1>1 DEF runReadLoop
  <2>2. lot[w] = {} /\ UNCHANGED <<trop, etape>>
    BY <1>1 DEF runReadLoop
  <2>3. CASE v = w
    <3>1. trop'[v] = {} /\ etape'[v] = "execute"
      BY <1>0, <1>1, <2>2, <2>3 DEF Poste, Reprise
    <3>2. lot'[v] = (dernierLu + 1)..dernierLu'
      BY <1>0, <2>0, <2>1, <2>3 DEF Types, WorkersTypeOK, xreadgroup
    <3>3. lot'[v] \subseteq 1..dernierLu'
      BY <1>0, <3>2 DEF Types, GroupeTypeOK
    <3>4. ASSUME NEW i \in lot'[v]
          PROVE  /\ ~Tete(v, i, "save")' /\ ~Tete(v, i, "xack")'
                 /\ ~Tete(v, i, "dlq_xack")' /\ ~Tete(v, i, "dlq_erreur")'
      BY <3>1 DEF Tete
    <3> QED
      BY <1>1, <2>3, <3>1, <3>3, <3>4 DEF Poste, Reprise
  <2>4. CASE v # w
    BY <1>0, <1>r, <2>0, <2>1, <2>2, <2>4 DEF Types, WorkersTypeOK
  <2> QED
    BY <2>3, <2>4
<1>2. ASSUME NEW w \in Reclamations, runClaimCycle(w) PROVE Poste(v)'
  <2>0. w \in Workers /\ w \notin Lecteurs
    BY ConsumerAssumption DEF Workers, Reclamations, Lecteurs
  <2>1. PICK S \in SUBSET idle :
            /\ lot' = [lot EXCEPT ![w] = S]
            /\ trop' = [trop EXCEPT ![w] =
                          {i \in S : shouldMoveToDeadLetter(livraisons[i], MaxDeliveries)}]
    BY <1>2 DEF runClaimCycle
  <2>2. lot[w] = {} /\ UNCHANGED <<etape, groupVars>>
    BY <1>2 DEF runClaimCycle
  <2>3. CASE v = w
    <3>1. lot'[v] = S /\ trop'[v] = {i \in S : livraisons[i] > MaxDeliveries}
      BY <1>0, <2>0, <2>1, <2>3 DEF Types, WorkersTypeOK, shouldMoveToDeadLetter
    <3>2. etape'[v] = "reclamer"
      BY <1>0, <2>0, <2>2, <2>3 DEF Poste, Reprise
    <3>3. S \subseteq 1..dernierLu'
      BY <1>0, <2>2 DEF InvGroupe, Types, GroupeTypeOK, Positions, groupVars
    <3>4. \A i \in trop'[v] : livraisons'[i] > MaxDeliveries
      BY <2>2, <3>1 DEF groupVars
    <3>5. ASSUME NEW i \in lot'[v]
          PROVE  /\ ~Tete(v, i, "save")' /\ ~Tete(v, i, "xack")'
                 /\ ~Tete(v, i, "dlq_xack")' /\ ~Tete(v, i, "dlq_erreur")'
      BY <3>2 DEF Tete
    <3>6. lot'[v] \subseteq 1..dernierLu' /\ trop'[v] \subseteq lot'[v]
      BY <3>1, <3>3
    <3> QED
      BY <2>0, <2>3, <3>2, <3>4, <3>5, <3>6 DEF Poste, Reprise
  <2>4. CASE v # w
    BY <1>0, <1>r, <2>0, <2>1, <2>2, <2>4 DEF Types, WorkersTypeOK
  <2> QED
    BY <2>3, <2>4
<1>3. ASSUME NEW w \in Workers, NEW i \in Positions, xclaim(w, i) PROVE Poste(v)'
  <2>1. Tete(w, i, "reclamer") /\ (Aller(w, "execute") \/ Passer(w, i))
    BY <1>3 DEF xclaim
  <2> QED
    BY <1>a, <1>e, <1>p, <2>1
<1>4. ASSUME NEW w \in Workers, NEW i \in Positions, execute(w, i) PROVE Poste(v)'
  <2>1. Tete(w, i, "execute")
    BY <1>4 DEF execute
  <2>2. CASE Passer(w, i)
    BY <1>p, <2>2
  <2>3. CASE stream[i] \notin SansId /\ Aller(w, "save")
    BY <1>a, <1>e, <2>1, <2>3
  <2>4. CASE stream[i] \notin SansId /\ audit[stream[i]] > 0 /\ Aller(w, "xack")
    <3>1. Audite(i)'
      BY <1>f, <2>1, <2>4 DEF Audite
    <3> QED
      BY <1>a, <1>e, <2>1, <2>4, <3>1
  <2> QED
    BY <1>4, <2>2, <2>3, <2>4 DEF execute
<1>5. ASSUME NEW w \in Workers, NEW i \in Positions, save(w, i) PROVE Poste(v)'
  <2>1. Tete(w, i, "save") /\ insertAudit(stream[i]) /\ Aller(w, "xack")
    BY <1>5 DEF save
  <2>2. stream[i] \in Events /\ stream'[i] = stream[i]
    BY <1>f, <2>1
  <2>3. audit'[stream[i]] > 0
    BY <1>0, <2>1, <2>2, InsertType DEF Types
  <2>4. stream[i] \notin SansId
    BY <1>0, <2>1 DEF Poste, Tete
  <2>5. Audite(i)'
    BY <2>2, <2>3 DEF Audite
  <2> QED
    BY <1>a, <1>e, <2>1, <2>4, <2>5
<1>6. ASSUME NEW w \in Workers, NEW i \in Positions,
             acquitter(w, i) \/ handleMessageEchoue(w, i) \/ finallyXack(w, i)
                \/ runClaimCycleEchoue(w, i)
      PROVE  Poste(v)'
  BY <1>p, <1>6 DEF acquitter, handleMessageEchoue, finallyXack, runClaimCycleEchoue
<1>7. ASSUME NEW w \in Workers, NEW i \in Positions, moveEntryToDeadLetter(w, i) PROVE Poste(v)'
  <2>1. Tete(w, i, "reclamer") /\ i \in trop[w] /\ Aller(w, "dlq_xack") /\ Rang(i) \in dlq'
    BY <1>7 DEF moveEntryToDeadLetter
  <2>2. Archive(i)'
    BY <2>1 DEF Archive, Rang
  <2> QED
    BY <1>a, <1>e, <1>l, <2>1, <2>2
<1>8. ASSUME NEW w \in Workers, NEW i \in Positions, moveEntryToDeadLetterEchoue(w, i)
      PROVE  Poste(v)'
  <2>1. Tete(w, i, "reclamer") /\ i \in trop[w] /\ Aller(w, "dlq_erreur")
    BY <1>8 DEF moveEntryToDeadLetterEchoue
  <2> QED
    BY <1>a, <1>e, <1>l, <2>1
<1>9. ASSUME NEW n \in Instances, onModuleDestroy(n) PROVE Poste(v)'
  <2>1. IF v[1] = n THEN lot'[v] = {} /\ trop'[v] = {} /\ etape'[v] = Reprise(v)
        ELSE lot'[v] = lot[v] /\ trop'[v] = trop[v] /\ etape'[v] = etape[v]
    BY <1>9 DEF onModuleDestroy
  <2>2. {} \subseteq lot[v] /\ {} \subseteq trop[v] /\ {} \subseteq {}
    OBVIOUS
  <2> QED
    BY <1>0, <1>r, <2>1, <2>2, PosteRepris
<1>10. CASE UNCHANGED workerVars
  BY <1>10, <1>u
<1> QED
  BY <1>1, <1>2, <1>3, <1>4, <1>5, <1>6, <1>7, <1>8, <1>9, <1>10, QuiBouge

(* Who writes the audit table, the dead letters and the replays.           *)
LEMMA AuditWriter ==
    ASSUME Types, [Next]_vars
    PROVE  UNCHANGED audit \/ \E e : insertAudit(e)
  BY DEF Next, ConsumerNext, WorkerStep, xadd, ensureConsumerGroupExists, Vieillir, runReadLoop,
         runReadLoopEchoue, runClaimCycle, xclaim, execute, save, acquitter, handleMessageEchoue,
         moveEntryToDeadLetter, moveEntryToDeadLetterEchoue, finallyXack, runClaimCycleEchoue,
         onModuleDestroy, replay, replayCommit, vars

LEMMA DlqWriter ==
    ASSUME [Next]_vars
    PROVE  \/ UNCHANGED dlq
           \/ \E w \in Workers, i \in Positions :
                 i \in trop[w] /\ dlq' = dlq \union {Rang(i)}
  BY DEF Next, ConsumerNext, WorkerStep, xadd, ensureConsumerGroupExists, Vieillir, runReadLoop,
         runReadLoopEchoue, runClaimCycle, xclaim, execute, save, acquitter, handleMessageEchoue,
         moveEntryToDeadLetter, moveEntryToDeadLetterEchoue, finallyXack, runClaimCycleEchoue,
         onModuleDestroy, replay, replayCommit, vars, dlqVars

LEMMA RejeuWriter ==
    ASSUME [Next]_vars
    PROVE  \/ UNCHANGED <<rejeu, rejoues>>
           \/ \E o \in Operateurs : replayCommit(o) \/ \E d \in dlq : replay(o, d)
  BY DEF Next, ConsumerNext, WorkerStep, xadd, ensureConsumerGroupExists, Vieillir, runReadLoop,
         runReadLoopEchoue, runClaimCycle, xclaim, execute, save, acquitter, handleMessageEchoue,
         moveEntryToDeadLetter, moveEntryToDeadLetterEchoue, finallyXack, runClaimCycleEchoue,
         onModuleDestroy, vars, dlqVars

LEMMA DlqStep == ASSUME Inv, [Next]_vars PROVE InvDlq'
<1>0. Types /\ Types' /\ InvGroupe /\ Croissance /\ \A w \in Workers : Poste(w)
  BY TypesStep, CroissanceStep DEF Inv
<1>1. ASSUME NEW d \in dlq PROVE d[1] \in 1..dernierLu' /\ livraisons'[d[1]] > MaxDeliveries
  BY <1>0, CroissanceFaits DEF Inv, InvDlq
<1>2. ASSUME NEW w \in Workers, NEW i \in trop[w]
      PROVE  i \in 1..dernierLu' /\ livraisons'[i] > MaxDeliveries
  BY <1>0, CroissanceFaits DEF Poste
<1>3. \A i : Rang(i)[1] = i
  BY DEF Rang
<1> QED
  BY <1>1, <1>2, <1>3, DlqWriter DEF InvDlq

LEMMA RejeuStep == ASSUME Inv, [Next]_vars PROVE InvRejeu' /\ RejoueAudite'
<1>0. Types /\ Types' /\ InvGroupe /\ Croissance
  BY TypesStep, CroissanceStep DEF Inv
<1>1. ASSUME NEW d \in dlq
      PROVE  /\ stream'[d[1]] = stream[d[1]] /\ stream[d[1]] \in Events
             /\ audit[stream[d[1]]] > 0 => audit'[stream'[d[1]]] > 0
  <2>1. d[1] \in 1..dernierLu
    BY DEF Inv, InvDlq
  <2> QED
    BY <1>0, <2>1, CroissanceFaits DEF Audite
<1>2. /\ \A o \in Operateurs : \A r \in rejeu[o] : r[1] \in dlq
      /\ rejoues \subseteq dlq
  BY <1>0 DEF Types, DlqTypeOK
<1>3. ASSUME NEW o \in Operateurs, NEW r \in rejeu[o], r[2]
      PROVE  audit'[stream'[r[1][1]]] > 0
  BY <1>1, <1>2, <1>3 DEF Inv, InvRejeu
<1>4. ASSUME NEW d \in rejoues PROVE audit'[stream'[d[1]]] > 0
  BY <1>1, <1>2 DEF Inv, RejoueAudite
<1>5. CASE UNCHANGED <<rejeu, rejoues>>
  BY <1>3, <1>4, <1>5 DEF InvRejeu, RejoueAudite
<1>6. ASSUME NEW o \in Operateurs, NEW d \in dlq, replay(o, d) PROVE InvRejeu' /\ RejoueAudite'
  <2>1. /\ \A p \in Operateurs \ {o} : rejeu'[p] = rejeu[p]
        /\ rejeu'[o] = {<<d, audit[stream[d[1]]] > 0>>}
        /\ rejoues' = rejoues
    BY <1>0, <1>6 DEF replay, Types, DlqTypeOK
  <2>2. ASSUME NEW r \in rejeu'[o], r[2] PROVE audit'[stream'[r[1][1]]] > 0
    <3>1. r = <<d, audit[stream[d[1]]] > 0>>
      BY <2>1
    <3>2. r[1] = d /\ (r[2] <=> audit[stream[d[1]]] > 0)
      BY <3>1, Zenon
    <3> QED
      BY <1>1, <2>2, <3>2
  <2>3. InvRejeu'
    BY <1>3, <2>1, <2>2 DEF InvRejeu
  <2> QED
    BY <1>4, <2>1, <2>3 DEF RejoueAudite
<1>7. ASSUME NEW o \in Operateurs, replayCommit(o) PROVE InvRejeu' /\ RejoueAudite'
  <2>1. PICK r \in rejeu[o] :
            LET e == stream[r[1][1]] IN
            \/ r[2] /\ rejoues' = rejoues \union {r[1]} /\ UNCHANGED audit
            \/ ~r[2] /\ audit[e] = 0 /\ rejoues' = rejoues \union {r[1]} /\ insertAudit(e)
            \/ ~r[2] /\ audit[e] > 0 /\ UNCHANGED <<rejoues, audit>>
    BY <1>7 DEF replayCommit
  <2>2. rejeu'[o] = {} /\ \A p \in Operateurs \ {o} : rejeu'[p] = rejeu[p]
    BY <1>0, <1>7 DEF replayCommit, Types, DlqTypeOK
  <2>3. r[1] \in dlq
    BY <1>2
  <2>4. insertAudit(stream[r[1][1]]) => audit'[stream[r[1][1]]] > 0
    BY <1>0, <1>1, <2>3, InsertType DEF Types
  <2>5. \/ rejoues' = rejoues
        \/ rejoues' = rejoues \union {r[1]} /\ audit'[stream'[r[1][1]]] > 0
    BY <1>1, <1>3, <2>1, <2>3, <2>4
  <2>6. RejoueAudite'
    BY <1>4, <2>5 DEF RejoueAudite
  <2>7. InvRejeu'
    BY <1>3, <2>2 DEF InvRejeu
  <2> QED
    BY <2>6, <2>7
<1> QED
  BY <1>5, <1>6, <1>7, RejeuWriter

LEMMA InvStep == ASSUME Inv, [Next]_vars PROVE Inv'
<1>1. Types' /\ InvGroupe' /\ \A w \in Workers : Poste(w)'
  BY TypesStep, CroissanceStep, PosteStep DEF Inv
<1>2. AuditUnique'
  BY AuditWriter, InsertType DEF Inv, AuditUnique, Types
<1> QED
  BY <1>1, <1>2, DlqStep, RejeuStep DEF Inv

LEMMA InvInit == Init => Inv
<1> SUFFICES ASSUME Init PROVE Inv
  OBVIOUS
<1>1. InvGroupe
  BY TypesInit DEF Init, InvGroupe
<1>2. ASSUME NEW w \in Workers PROVE Poste(w)
  BY DEF Init, Poste, Reprise
<1>3. InvDlq /\ InvRejeu /\ AuditUnique /\ RejoueAudite
  BY DEF Init, InvDlq, InvRejeu, AuditUnique, RejoueAudite
<1> QED
  BY <1>1, <1>2, <1>3, TypesInit DEF Inv

LEMMA InvCorrect == Spec => []Inv
  BY InvInit, InvStep, PTL DEF Spec

(* Readers, claim cycles and replays race between existsByEvenementId and  *)
(* the INSERT, and no event is ever audited twice.                         *)
THEOREM AuditUniqueCorrect == Spec => []AuditUnique
<1>1. Inv => AuditUnique
  BY DEF Inv
<1> QED
  BY <1>1, InvCorrect, PTL

(* Whatever the counts a cycle read, only entries delivered more than      *)
(* MaxDeliveries times are archived.                                       *)
THEOREM ArchiveApresEssaisCorrect == Spec => []ArchiveApresEssais
<1>1. Inv => ArchiveApresEssais
  BY DEF Inv, InvDlq, ArchiveApresEssais
<1> QED
  BY <1>1, InvCorrect, PTL

(* A dead letter is marked as replayed only with its audit row written.    *)
THEOREM RejoueAuditeCorrect == Spec => []RejoueAudite
<1>1. Inv => RejoueAudite
  BY DEF Inv
<1> QED
  BY <1>1, InvCorrect, PTL

-----------------------------------------------------------------------------
(* The losses: each entry acknowledged unaudited and unarchived, and each  *)
(* one about to be, is paid for by a failed write to the dead-letter table.*)
Perdues == {i \in Acquittees : stream[i] \notin SansId /\ ~Audite(i) /\ ~Archive(i)}
Condamnes ==
    {w \in Workers : \E i \in lot[w] : Tete(w, i, "dlq_erreur") /\ stream[i] \notin SansId}

InvPertes == Cardinality(Perdues) + Cardinality(Condamnes) <= fautesArchive

LEMMA SousEnsemble ==
    ASSUME NEW S, IsFiniteSet(S), NEW T \in SUBSET S
    PROVE  Cardinality(S) \in Nat /\ Cardinality(T) \in Nat /\ Cardinality(T) <= Cardinality(S)
  BY FS_Subset, FS_CardinalityType

LEMMA UnDePlus ==
    ASSUME NEW S, IsFiniteSet(S), NEW x, NEW T \in SUBSET (S \union {x})
    PROVE  Cardinality(T) <= Cardinality(S) + 1
<1>1. Cardinality(S) \in Nat
  BY FS_CardinalityType
<1>2. /\ IsFiniteSet(S \union {x})
      /\ Cardinality(S \union {x}) = IF x \in S THEN Cardinality(S) ELSE Cardinality(S) + 1
  BY FS_AddElement
<1> QED
  BY <1>1, <1>2, SousEnsemble

LEMMA UnDeMoins ==
    ASSUME NEW S, IsFiniteSet(S), NEW x \in S, NEW T \in SUBSET (S \ {x})
    PROVE  Cardinality(T) + 1 <= Cardinality(S)
<1>1. Cardinality(S) \in Nat
  BY FS_CardinalityType
<1>2. IsFiniteSet(S \ {x}) /\ Cardinality(S \ {x}) = Cardinality(S) - 1
  BY FS_RemoveElement
<1> QED
  BY <1>1, <1>2, SousEnsemble

LEMMA Finitude ==
    /\ IsFiniteSet(Positions) /\ IsFiniteSet(Workers) /\ IsFiniteSet(Reclamations)
    /\ \A S \in SUBSET Positions : IsFiniteSet(S) /\ Cardinality(S) \in Nat
    /\ \A S \in SUBSET Workers : IsFiniteSet(S) /\ Cardinality(S) \in Nat
<1>1. IsFiniteSet(Positions)
  BY ConsumerAssumption, FS_Interval DEF Positions
<1>2. IsFiniteSet({"lecture"})
  BY FS_Singleton
<1>3. IsFiniteSet(Lecteurs) /\ IsFiniteSet(Reclamations)
  BY <1>2, ConsumerAssumption, FS_Product DEF Lecteurs, Reclamations
<1>4. IsFiniteSet(Workers)
  BY <1>3, FS_Union DEF Workers
<1> QED
  BY <1>1, <1>3, <1>4, FS_Subset, FS_CardinalityType

(* Only an entry that leaves the pending list becomes acknowledged, and    *)
(* only the acknowledgement of an entry that is neither audited nor        *)
(* archived adds to the losses.                                            *)
LEMMA PerduesStep ==
    ASSUME Inv, [Next]_vars, NEW i \in Perdues', i \in pending => i \in pending'
    PROVE  i \in Perdues
<1>0. Types /\ Types' /\ InvGroupe /\ Croissance
  BY TypesStep, CroissanceStep DEF Inv
<1>1. i \in Positions /\ livraisons'[i] > 0 /\ i \notin pending' /\ i \notin pending
  BY DEF Perdues, Acquittees
<1>2. livraisons[i] > 0
  <2>1. CASE livraisons'[i] = livraisons[i]
    BY <1>1, <2>1
  <2>2. ASSUME NEW n \in Positions, xreadgroup(n) PROVE livraisons'[i] = livraisons[i]
    BY <1>1, <2>2 DEF xreadgroup
  <2>3. ASSUME NEW j \in idle, livraisons' = [livraisons EXCEPT ![j] = @ + 1]
        PROVE  livraisons'[i] = livraisons[i]
    BY <1>0, <1>1, <2>3 DEF Types, GroupeTypeOK
  <2>4. \/ UNCHANGED livraisons
        \/ \E n \in Positions : xreadgroup(n)
        \/ \E j \in idle : livraisons' = [livraisons EXCEPT ![j] = @ + 1]
    BY DEF Next, ConsumerNext, WorkerStep, xadd, ensureConsumerGroupExists, Vieillir, runReadLoop,
           runReadLoopEchoue, runClaimCycle, xclaim, execute, save, acquitter,
           handleMessageEchoue, moveEntryToDeadLetter, moveEntryToDeadLetterEchoue, finallyXack,
           runClaimCycleEchoue, onModuleDestroy, replay, replayCommit, vars, groupVars
  <2> QED
    BY <2>1, <2>2, <2>3, <2>4
<1>3. i \in 1..dernierLu
  BY <1>0, <1>1, <1>2, ConsumerAssumption DEF InvGroupe, Types, GroupeTypeOK, Positions
<1>4. stream'[i] = stream[i] /\ (Audite(i) => Audite(i)') /\ (Archive(i) => Archive(i)')
  BY <1>0, <1>3, CroissanceFaits
<1> QED
  BY <1>1, <1>2, <1>4 DEF Perdues, Acquittees

LEMMA CondamnesStep ==
    ASSUME Inv, [Next]_vars, NEW w \in Condamnes', w \notin Condamnes
    PROVE  \E i \in Positions : /\ moveEntryToDeadLetterEchoue(w, i)
                                /\ stream[i] \notin SansId
<1>0. Types /\ Types' /\ InvGroupe /\ Croissance /\ \A v \in Workers : Poste(v)
  BY TypesStep, CroissanceStep DEF Inv
<1>1. PICK i \in lot'[w] : Tete(w, i, "dlq_erreur")' /\ stream'[i] \notin SansId
  BY DEF Condamnes
<1>2. w \in Workers /\ i \in lot'[w] /\ etape'[w] = "dlq_erreur" /\ \A j \in lot'[w] : i <= j
  BY <1>1 DEF Condamnes, Tete
<1>3. ~(lot'[w] = lot[w] /\ etape'[w] = etape[w])
  <2> SUFFICES ASSUME lot'[w] = lot[w], etape'[w] = etape[w] PROVE FALSE
    OBVIOUS
  <2>1. i \in 1..dernierLu
    BY <1>0, <1>2 DEF Poste
  <2>2. stream'[i] = stream[i]
    BY <1>0, <2>1, CroissanceFaits
  <2> QED
    BY <1>1, <1>2, <2>2 DEF Condamnes, Tete
<1>p. ASSUME NEW v \in Workers, NEW j, Passer(v, j) \/ Interrompre(v) PROVE FALSE
  BY <1>0, <1>2, <1>3, <1>p, PasserFaits DEF Reprise
<1>a. ASSUME NEW v \in Workers, NEW s, Aller(v, s), s # "dlq_erreur" PROVE FALSE
  BY <1>0, <1>2, <1>3, <1>a, AllerFaits
<1>u. ASSUME UNCHANGED <<lot, etape>> PROVE FALSE
  BY <1>3, <1>u
<1>l. ASSUME NEW v \in Workers, NEW S, lot[v] = {}, lot' = [lot EXCEPT ![v] = S],
             UNCHANGED etape
      PROVE  FALSE
  BY <1>0, <1>2, <1>3, <1>l DEF Poste, Reprise, Types, WorkersTypeOK
<1>d. ASSUME NEW n \in Instances, onModuleDestroy(n) PROVE FALSE
  BY <1>2, <1>3, <1>d DEF onModuleDestroy, Reprise
<1>c. ASSUME NEW v \in Workers, NEW j \in Positions,
             \/ xclaim(v, j) \/ execute(v, j) \/ save(v, j)
             \/ acquitter(v, j) \/ handleMessageEchoue(v, j) \/ finallyXack(v, j)
             \/ runClaimCycleEchoue(v, j) \/ moveEntryToDeadLetter(v, j)
      PROVE  FALSE
  BY <1>c, <1>p, <1>a
     DEF xclaim, execute, save, acquitter, handleMessageEchoue, finallyXack,
         runClaimCycleEchoue, moveEntryToDeadLetter
<1>r. ASSUME NEW v \in Workers, runReadLoop(v) \/ runClaimCycle(v) PROVE FALSE
  BY <1>r, <1>l DEF runReadLoop, runClaimCycle
<1>4. PICK v \in Workers, j \in Positions : moveEntryToDeadLetterEchoue(v, j)
  BY <1>c, <1>r, <1>u, <1>d, QuiBouge DEF workerVars, Workers
<1>5. Aller(v, "dlq_erreur") /\ Tete(v, j, "reclamer") /\ UNCHANGED stream
  BY <1>4 DEF moveEntryToDeadLetterEchoue
<1>6. w = v
  BY <1>0, <1>2, <1>3, <1>5, AllerFaits
<1>7. lot'[w] = lot[w] /\ j \in lot[w] /\ (\A k \in lot[w] : j <= k) /\ i \in Int /\ j \in Int
  BY <1>0, <1>2, <1>5, <1>6, AllerFaits DEF Tete, Poste, Types, GroupeTypeOK
<1>8. i = j
  BY <1>2, <1>7
<1> QED
  BY <1>1, <1>4, <1>5, <1>6, <1>8

LEMMA PertesStep == ASSUME Inv, InvPertes, [Next]_vars PROVE InvPertes'
<1>0. Types /\ Types' /\ InvGroupe /\ Croissance /\ \A w \in Workers : Poste(w)
  BY TypesStep, CroissanceStep DEF Inv
<1>1. /\ IsFiniteSet(Perdues) /\ IsFiniteSet(Perdues') /\ Cardinality(Perdues) \in Nat
      /\ Cardinality(Perdues') \in Nat
      /\ IsFiniteSet(Condamnes) /\ IsFiniteSet(Condamnes') /\ Cardinality(Condamnes) \in Nat
      /\ Cardinality(Condamnes') \in Nat
  <2>1. Perdues \subseteq Positions /\ Perdues' \subseteq Positions
    BY DEF Perdues, Acquittees
  <2>2. Condamnes \subseteq Workers /\ Condamnes' \subseteq Workers
    BY DEF Condamnes
  <2> QED
    BY <2>1, <2>2, Finitude
<1>2. fautesArchive \in Nat /\ fautesArchive' \in Nat /\ fautesArchive <= fautesArchive'
  <2>1. fautesArchive \in Nat /\ fautesArchive' \in Nat
    BY <1>0 DEF Types, FautesTypeOK
  <2>2. UNCHANGED fautesArchive \/ fautesArchive' = fautesArchive + 1
    BY DEF Next, ConsumerNext, WorkerStep, xadd, ensureConsumerGroupExists, Vieillir, runReadLoop,
           runReadLoopEchoue, runClaimCycle, xclaim, execute, save, acquitter,
           handleMessageEchoue, moveEntryToDeadLetter, moveEntryToDeadLetterEchoue, finallyXack,
           runClaimCycleEchoue, onModuleDestroy, replay, replayCommit, vars, fauteVars, Faute,
           FauteArchive
  <2> QED
    BY <2>1, <2>2
<1>3. CASE Perdues' \subseteq Perdues /\ Condamnes' \subseteq Condamnes
  <2>1. Cardinality(Perdues') <= Cardinality(Perdues)
    BY <1>1, <1>3, FS_Subset
  <2>2. Cardinality(Condamnes') <= Cardinality(Condamnes)
    BY <1>1, <1>3, FS_Subset
  <2> QED
    BY <1>1, <1>2, <2>1, <2>2 DEF InvPertes
<1>4. ASSUME NEW w \in Workers, NEW i \in Positions, moveEntryToDeadLetterEchoue(w, i),
             ~(Condamnes' \subseteq Condamnes)
      PROVE  InvPertes'
  <2>1. \A v \in Condamnes' \ Condamnes : v = w /\ stream[i] \notin SansId
    <3> SUFFICES ASSUME NEW v \in Condamnes', v \notin Condamnes
                 PROVE  v = w /\ stream[i] \notin SansId
      OBVIOUS
    <3>1. PICK j \in Positions : moveEntryToDeadLetterEchoue(v, j) /\ stream[j] \notin SansId
      BY CondamnesStep
    <3>2. v \in Workers
      BY DEF Condamnes
    <3>3. Aller(v, "dlq_erreur") /\ Aller(w, "dlq_erreur") /\ Tete(v, j, "reclamer")
          /\ Tete(w, i, "reclamer")
      BY <1>4, <3>1 DEF moveEntryToDeadLetterEchoue
    <3>4. v = w
      BY <1>0, <3>2, <3>3, AllerFaits DEF Tete
    <3>5. i = j
      BY <1>0, <3>2, <3>3, <3>4 DEF Tete, Poste, Types, GroupeTypeOK
    <3> QED
      BY <3>1, <3>4, <3>5
  <2>2. Condamnes' \subseteq Condamnes \union {w} /\ stream[i] \notin SansId
    BY <1>4, <2>1
  <2>3. fautesArchive' = fautesArchive + 1 /\ UNCHANGED pending
    BY <1>4, <2>2 DEF moveEntryToDeadLetterEchoue, FauteArchive, groupVars
  <2>4. Perdues' \subseteq Perdues
    BY <2>3, PerduesStep
  <2>5. Cardinality(Perdues') <= Cardinality(Perdues)
    BY <1>1, <2>4, FS_Subset
  <2>6. Cardinality(Condamnes') <= Cardinality(Condamnes) + 1
    BY <1>1, <2>2, UnDePlus
  <2> QED
    BY <1>1, <1>2, <2>3, <2>5, <2>6 DEF InvPertes
<1>5. ASSUME NEW w \in Workers, NEW i \in Positions,
             acquitter(w, i) \/ handleMessageEchoue(w, i) \/ finallyXack(w, i)
                \/ runClaimCycleEchoue(w, i)
      PROVE  InvPertes'
  <2>1. Condamnes' \subseteq Condamnes
    <3> SUFFICES ASSUME NEW v \in Condamnes', v \notin Condamnes PROVE FALSE
      OBVIOUS
    <3>1. PICK j \in Positions : moveEntryToDeadLetterEchoue(v, j)
      BY CondamnesStep
    <3>2. v \in Workers /\ Aller(v, "dlq_erreur")
      BY <3>1 DEF moveEntryToDeadLetterEchoue, Condamnes
    <3>3. Passer(w, i) \/ Interrompre(w)
      BY <1>5 DEF acquitter, handleMessageEchoue, finallyXack, runClaimCycleEchoue
    <3>4. etape'[w] = Reprise(w) /\ etape'[v] = "dlq_erreur" /\ lot'[w] = lot[w]
      BY <1>0, <3>2, <3>3, PasserFaits, AllerFaits
    <3>5. v # w
      BY <3>4 DEF Reprise
    <3>6. etape[v] = "dlq_erreur"
      BY <1>0, <3>2, <3>3, <3>4, <3>5, PasserFaits
    <3>7. etape[v] = "reclamer"
      BY <3>1 DEF moveEntryToDeadLetterEchoue, Tete
    <3> QED
      BY <3>6, <3>7
  <2>2. \A j \in pending : j # i => j \in pending'
    BY <1>5 DEF acquitter, handleMessageEchoue, finallyXack, runClaimCycleEchoue, xack
  <2>3. Perdues' \subseteq Perdues \union {i}
    BY <2>2, PerduesStep
  <2>4. CASE i \notin Perdues'
    BY <1>3, <2>1, <2>3, <2>4
  <2>5. CASE i \in Perdues' /\ ~(\E s \in {"xack", "dlq_xack", "dlq_erreur"} : Tete(w, i, s))
    <3>1. UNCHANGED pending
      BY <1>5, <2>5 DEF acquitter, handleMessageEchoue, finallyXack, runClaimCycleEchoue
    <3> QED
      BY <1>3, <2>1, <3>1, PerduesStep
  <2>6. CASE i \in Perdues' /\ \E s \in {"xack", "dlq_xack", "dlq_erreur"} : Tete(w, i, s)
    <3>1. i \in lot[w] /\ i \in 1..dernierLu
      BY <1>0, <2>6 DEF Tete, Poste
    <3>2. stream'[i] = stream[i] /\ (Audite(i) => Audite(i)') /\ (Archive(i) => Archive(i)')
      BY <1>0, <3>1, CroissanceFaits
    <3>3. ~Audite(i) /\ ~Archive(i) /\ stream[i] \notin SansId
      BY <2>6, <3>2 DEF Perdues
    <3>4. Tete(w, i, "dlq_erreur")
      BY <1>0, <2>6, <3>1, <3>3 DEF Poste
    <3>5. w \in Condamnes
      BY <3>1, <3>3, <3>4 DEF Condamnes
    <3>6. w \notin Condamnes'
      <4>1. Passer(w, i) \/ Interrompre(w)
        BY <1>5 DEF acquitter, handleMessageEchoue, finallyXack, runClaimCycleEchoue
      <4>2. etape'[w] = Reprise(w)
        BY <1>0, <4>1, PasserFaits
      <4> QED
        BY <4>2 DEF Condamnes, Tete, Reprise
    <3>7. Condamnes' \subseteq Condamnes \ {w}
      BY <2>1, <3>6
    <3>8. Cardinality(Condamnes') + 1 <= Cardinality(Condamnes)
      BY <1>1, <3>5, <3>7, UnDeMoins
    <3>9. Cardinality(Perdues') <= Cardinality(Perdues) + 1
      BY <1>1, <2>3, UnDePlus
    <3> QED
      BY <1>1, <1>2, <3>8, <3>9 DEF InvPertes
  <2> QED
    BY <2>4, <2>5, <2>6
<1>6. CASE pending \subseteq pending'
  <2>1. Perdues' \subseteq Perdues
    BY <1>6, PerduesStep
  <2>2. CASE Condamnes' \subseteq Condamnes
    BY <1>3, <2>1, <2>2
  <2>3. ASSUME NEW w \in Condamnes', w \notin Condamnes PROVE InvPertes'
    BY <1>4, <2>3, CondamnesStep DEF Condamnes
  <2> QED
    BY <2>2, <2>3
<1>7. \/ pending \subseteq pending'
      \/ \E w \in Workers, i \in Positions :
            acquitter(w, i) \/ handleMessageEchoue(w, i) \/ finallyXack(w, i)
               \/ runClaimCycleEchoue(w, i)
  BY DEF Next, ConsumerNext, WorkerStep, xadd, ensureConsumerGroupExists, Vieillir, runReadLoop,
         runReadLoopEchoue, xreadgroup, runClaimCycle, xclaim, execute, save,
         moveEntryToDeadLetter, moveEntryToDeadLetterEchoue,
         onModuleDestroy, replay, replayCommit, vars, groupVars
<1> QED
  BY <1>5, <1>6, <1>7

LEMMA PertesInit == Init => InvPertes
<1> SUFFICES ASSUME Init PROVE InvPertes
  OBVIOUS
<1>1. Perdues = {} /\ Condamnes = {}
  BY DEF Init, Perdues, Acquittees, Condamnes
<1> QED
  BY <1>1, FS_EmptySet DEF Init, InvPertes

(* An entry leaves the group unaudited and unarchived at most once per     *)
(* failed write to the dead-letter table, whatever crashes, retries and    *)
(* concurrent claim cycles do.                                             *)
THEOREM PertesCompteesCorrect == Spec => []PertesComptees
<1>1. Inv /\ InvPertes => PertesComptees
  <2> SUFFICES ASSUME Inv, InvPertes PROVE PertesComptees
    OBVIOUS
  <2>1. Perdues \subseteq Positions /\ Condamnes \subseteq Workers
    BY DEF Perdues, Acquittees, Condamnes
  <2>2. Cardinality(Perdues) \in Nat /\ Cardinality(Condamnes) \in Nat
    BY <2>1, Finitude
  <2>3. fautesArchive \in Nat
    BY DEF Inv, Types, FautesTypeOK
  <2> QED
    BY <2>2, <2>3 DEF InvPertes, PertesComptees, Perdues
<1> QED
  BY <1>1, InvInit, InvStep, PertesInit, PertesStep, PTL DEF Spec

-----------------------------------------------------------------------------
(* The claims still to come: Encours(i) are the cycles whose batch lets    *)
(* them deliver entry i once more, Archivables(i) those that may still add *)
(* a dead letter of i.                                                     *)
Encours(i) ==
    {w \in Reclamations : /\ i \in lot[w] /\ i \notin trop[w]
                          /\ etape[w] = "reclamer" \/ \E j \in lot[w] : j < i}

InvReprises ==
    \A i \in Positions :
        livraisons[i] + Cardinality(Encours(i)) <= MaxDeliveries + Cardinality(Reclamations)

Lignes(i) == {d \in dlq : d[1] = i}
Archivables(i) ==
    {w \in Reclamations : /\ i \in pending \/ i \in trop[w]
                          /\ ~Tete(w, i, "dlq_xack") /\ ~Tete(w, i, "dlq_erreur")}

Credit(f) == Cardinality(Cycles) * f

InvLignes ==
    \A i \in Positions : livraisons[i] > 0 =>
        Cardinality(Lignes(i)) + Cardinality(Archivables(i))
            <= Cardinality(Reclamations) + Credit(fautes)

LEMMA ReprisesFinies ==
    ASSUME NEW i
    PROVE  /\ IsFiniteSet(Encours(i)) /\ Cardinality(Encours(i)) \in Nat
           /\ Cardinality(Encours(i)) <= Cardinality(Reclamations)
           /\ Cardinality(Reclamations) \in Nat /\ MaxDeliveries \in Nat \ {0}
<1>1. Encours(i) \subseteq Reclamations
  BY DEF Encours
<1>2. IsFiniteSet(Encours(i))
  BY <1>1, Finitude, FS_Subset
<1> QED
  BY <1>1, <1>2, Finitude, SousEnsemble, ConsumerAssumption

(* A worker that leaves an entry can no longer deliver it again.           *)
LEMMA EncoursPasser ==
    ASSUME Inv, NEW w \in Workers, NEW i, NEW s, Tete(w, i, s), Passer(w, i) \/ Interrompre(w),
           NEW j
    PROVE  Encours(j)' \subseteq Encours(j) /\ (j = i => w \notin Encours(j)')
<1> SUFFICES ASSUME NEW v \in Encours(j)'
             PROVE  v \in Encours(j) /\ (v = w => j # i)
  OBVIOUS
<1>0. /\ v \in Reclamations /\ v \in Workers /\ j \in lot'[v] /\ j \notin trop'[v]
      /\ etape'[v] = "reclamer" \/ \E k \in lot'[v] : k < j
  BY DEF Encours, Workers
<1>1. CASE v = w
  <2>1. lot'[v] = lot[v] \ {i} /\ trop'[v] = trop[v] \ {i}
    BY <1>0, <1>1, PasserFaits DEF Inv
  <2>2. j \in lot[v] /\ j \notin trop[v] /\ j # i
    BY <1>0, <2>1
  <2>3. i \in lot[v] /\ i <= j /\ i \in Int /\ j \in Int
    BY <1>1, <2>2 DEF Tete, Inv, Poste, Types, GroupeTypeOK
  <2> QED
    BY <1>0, <1>1, <2>2, <2>3 DEF Encours
<1>2. CASE v # w
  BY <1>0, <1>2, PasserFaits DEF Inv, Encours
<1> QED
  BY <1>1, <1>2

LEMMA EncoursAller ==
    ASSUME Inv, NEW w \in Workers, NEW i, NEW s, Tete(w, i, s), NEW t, Aller(w, t),
           t # "reclamer", NEW j
    PROVE  Encours(j)' \subseteq Encours(j) /\ (j = i => w \notin Encours(j)')
<1> SUFFICES ASSUME NEW v \in Encours(j)'
             PROVE  v \in Encours(j) /\ (v = w => j # i)
  OBVIOUS
<1>0. /\ v \in Reclamations /\ v \in Workers /\ j \in lot'[v] /\ j \notin trop'[v]
      /\ etape'[v] = "reclamer" \/ \E k \in lot'[v] : k < j
      /\ lot'[v] = lot[v] /\ trop'[v] = trop[v]
      /\ etape'[v] = IF v = w THEN t ELSE etape[v]
  BY AllerFaits DEF Encours, Workers, Inv
<1>1. CASE v = w
  <2>1. PICK k \in lot[v] : k < j
    BY <1>0, <1>1
  <2>2. i <= k /\ i \in Int /\ j \in Int /\ k \in Int
    BY <1>0, <1>1, <2>1 DEF Tete, Inv, Poste, Types, GroupeTypeOK
  <2>3. j # i
    BY <2>1, <2>2
  <2> QED
    BY <1>0, <2>1, <2>3 DEF Encours
<1>2. CASE v # w
  BY <1>0, <1>2 DEF Encours
<1> QED
  BY <1>1, <1>2

LEMMA ReprisesStep == ASSUME Inv, InvReprises, [Next]_vars PROVE InvReprises'
<1> SUFFICES ASSUME NEW j \in Positions
             PROVE  livraisons'[j] + Cardinality(Encours(j)')
                       <= MaxDeliveries + Cardinality(Reclamations)
  BY DEF InvReprises
<1> DEFINE But == livraisons'[j] + Cardinality(Encours(j)')
                      <= MaxDeliveries + Cardinality(Reclamations)
<1>0. Types /\ Types' /\ Inv /\ Inv' /\ \A w \in Workers : Poste(w)
  BY InvStep DEF Inv
<1>1. /\ IsFiniteSet(Encours(j)) /\ Cardinality(Encours(j)) \in Nat
      /\ Cardinality(Encours(j)) <= Cardinality(Reclamations)
      /\ Cardinality(Reclamations) \in Nat /\ MaxDeliveries \in Nat \ {0}
  BY ReprisesFinies
<1>2. /\ Encours(j)' \subseteq Reclamations /\ IsFiniteSet(Encours(j)')
      /\ Cardinality(Encours(j)') \in Nat
      /\ Cardinality(Encours(j)') <= Cardinality(Reclamations)
  <2>1. Encours(j)' \subseteq Reclamations
    BY DEF Encours
  <2>2. IsFiniteSet(Encours(j)')
    BY <2>1, Finitude, FS_Subset
  <2> QED
    BY <2>1, <2>2, Finitude, SousEnsemble
<1>3. livraisons[j] \in Nat /\ livraisons'[j] \in Nat
  BY <1>0 DEF Types, GroupeTypeOK
<1>A. ASSUME livraisons'[j] = livraisons[j], Encours(j)' \subseteq Encours(j) PROVE But
  BY <1>1, <1>2, <1>3, <1>A, SousEnsemble DEF InvReprises
<1>B. ASSUME livraisons'[j] <= MaxDeliveries PROVE But
  BY <1>1, <1>2, <1>3, <1>B
<1>C. ASSUME NEW w \in Encours(j), Encours(j)' \subseteq Encours(j) \ {w},
             livraisons'[j] = livraisons[j] + 1
      PROVE  But
  BY <1>1, <1>2, <1>3, <1>C, UnDeMoins DEF InvReprises
<1>D. ASSUME UNCHANGED workerVars, livraisons'[j] = livraisons[j] PROVE But
  <2>1. Encours(j)' = Encours(j)
    BY <1>D DEF workerVars, Encours
  <2> QED
    BY <1>A, <1>D, <2>1
<1>E. ASSUME NEW n \in Positions, xreadgroup(n),
             \A v \in Reclamations : lot'[v] = lot[v] /\ trop'[v] = trop[v] /\ etape'[v] = etape[v]
      PROVE  But
  <2>1. livraisons'[j] \in {1, livraisons[j]}
    BY <1>E DEF xreadgroup
  <2>2. Encours(j)' = Encours(j)
    BY <1>E DEF Encours
  <2> QED
    BY <1>1, <1>A, <1>B, <2>1, <2>2
<1>4. ASSUME NEW w \in Lecteurs, runReadLoop(w) PROVE But
  <2>1. PICK n \in Positions : xreadgroup(n) /\ lot' = [lot EXCEPT ![w] = (dernierLu + 1)..n]
    BY <1>4 DEF runReadLoop
  <2>2. UNCHANGED <<trop, etape>> /\ w \notin Reclamations
    BY <1>4, ConsumerAssumption DEF runReadLoop, Lecteurs, Reclamations
  <2>3. \A v \in Reclamations : lot'[v] = lot[v] /\ trop'[v] = trop[v] /\ etape'[v] = etape[v]
    BY <1>0, <2>1, <2>2 DEF Types, WorkersTypeOK, Workers
  <2> QED
    BY <1>E, <2>1, <2>3
<1>5. ASSUME NEW w \in Lecteurs, runReadLoopEchoue(w) PROVE But
  BY <1>5, <1>E DEF runReadLoopEchoue, workerVars
<1>6. ASSUME NEW w \in Reclamations, runClaimCycle(w) PROVE But
  <2>1. PICK S \in SUBSET idle :
            /\ lot' = [lot EXCEPT ![w] = S]
            /\ trop' = [trop EXCEPT ![w] =
                          {i \in S : shouldMoveToDeadLetter(livraisons[i], MaxDeliveries)}]
    BY <1>6 DEF runClaimCycle
  <2>2. UNCHANGED <<etape, livraisons>> /\ w \in Workers
    BY <1>6 DEF runClaimCycle, groupVars, Workers
  <2>3. ASSUME NEW v \in Encours(j)', v \notin Encours(j) PROVE livraisons[j] <= MaxDeliveries
    <3>1. v \in Workers /\ j \in lot'[v] /\ j \notin trop'[v]
      BY DEF Encours, Workers
    <3>2. v = w
      BY <1>0, <2>1, <2>2, <2>3, <3>1 DEF Encours, Types, WorkersTypeOK
    <3>3. j \in S /\ ~(livraisons[j] > MaxDeliveries)
      BY <1>0, <2>1, <2>2, <3>1, <3>2 DEF Types, WorkersTypeOK, shouldMoveToDeadLetter
    <3> QED
      BY <1>1, <1>3, <3>3
  <2> QED
    BY <1>A, <1>B, <2>2, <2>3
<1>7. ASSUME NEW w \in Workers, NEW i \in Positions, xclaim(w, i) PROVE But
  <2>1. Tete(w, i, "reclamer") /\ i \notin trop[w]
    BY <1>7 DEF xclaim
  <2>2. CASE Passer(w, i) /\ UNCHANGED livraisons
    BY <1>A, <2>1, <2>2, EncoursPasser
  <2>3. CASE Aller(w, "execute") /\ livraisons' = [livraisons EXCEPT ![i] = @ + 1]
    <3>1. Encours(j)' \subseteq Encours(j) /\ (j = i => w \notin Encours(j)')
      BY <2>1, <2>3, EncoursAller
    <3>2. CASE j = i
      <4>1. w \in Encours(i)
        <5>1. w \in Reclamations
          BY <1>0, <2>1 DEF Tete, Poste, Workers
        <5> QED
          BY <2>1, <5>1 DEF Encours, Tete
      <4>2. livraisons'[j] = livraisons[j] + 1
        BY <1>0, <2>3, <3>2 DEF Types, GroupeTypeOK
      <4> QED
        BY <1>C, <3>1, <3>2, <4>1, <4>2
    <3>3. CASE j # i
      BY <1>0, <1>A, <2>3, <3>1, <3>3 DEF Types, GroupeTypeOK
    <3> QED
      BY <3>2, <3>3
  <2> QED
    BY <1>7, <2>2, <2>3 DEF xclaim
<1>8. ASSUME NEW w \in Workers, NEW i \in Positions, runClaimCycleEchoue(w, i) PROVE But
  <2>1. Interrompre(w)
    BY <1>8 DEF runClaimCycleEchoue
  <2>2. CASE Tete(w, i, "reclamer") /\ i \notin trop[w]
             /\ livraisons' = [livraisons EXCEPT ![i] = @ + 1]
    <3>1. Encours(j)' \subseteq Encours(j) /\ (j = i => w \notin Encours(j)')
      BY <2>1, <2>2, EncoursPasser
    <3>2. CASE j = i
      <4>1. w \in Encours(i)
        <5>1. w \in Reclamations
          BY <1>0, <2>2 DEF Tete, Poste, Workers
        <5> QED
          BY <2>2, <5>1 DEF Encours, Tete
      <4>2. livraisons'[j] = livraisons[j] + 1
        BY <1>0, <2>2, <3>2 DEF Types, GroupeTypeOK
      <4> QED
        BY <1>C, <3>1, <3>2, <4>1, <4>2
    <3>3. CASE j # i
      BY <1>0, <1>A, <2>2, <3>1, <3>3 DEF Types, GroupeTypeOK
    <3> QED
      BY <3>2, <3>3
  <2>3. CASE (\E s \in Etapes : Tete(w, i, s)) /\ UNCHANGED livraisons
    BY <1>A, <2>1, <2>3, EncoursPasser
  <2> QED
    BY <1>8, <2>2, <2>3 DEF runClaimCycleEchoue, Etapes
<1>9. ASSUME NEW w \in Workers, NEW i \in Positions,
             execute(w, i) \/ save(w, i) \/ acquitter(w, i) \/ handleMessageEchoue(w, i)
                \/ finallyXack(w, i)
                \/ moveEntryToDeadLetter(w, i) \/ moveEntryToDeadLetterEchoue(w, i)
      PROVE  But
  <2>1. /\ UNCHANGED livraisons
        /\ \E s \in Etapes : Tete(w, i, s)
        /\ \/ Passer(w, i) \/ Interrompre(w)
           \/ \E t \in {"save", "xack", "dlq_xack", "dlq_erreur"} : Aller(w, t)
    BY <1>9 DEF execute, save, acquitter, handleMessageEchoue, finallyXack,
                moveEntryToDeadLetter, moveEntryToDeadLetterEchoue, Etapes, groupVars
  <2>2. CASE Passer(w, i) \/ Interrompre(w)
    BY <1>A, <2>1, <2>2, EncoursPasser
  <2>3. CASE \E t \in {"save", "xack", "dlq_xack", "dlq_erreur"} : Aller(w, t)
    BY <1>A, <2>1, <2>3, EncoursAller
  <2> QED
    BY <2>1, <2>2, <2>3
<1>10. ASSUME NEW n \in Instances, onModuleDestroy(n) PROVE But
  <2>1. UNCHANGED livraisons
        /\ \A v \in Workers : \/ lot'[v] = {}
                              \/ lot'[v] = lot[v] /\ trop'[v] = trop[v] /\ etape'[v] = etape[v]
    BY <1>10 DEF onModuleDestroy, groupVars
  <2>2. Encours(j)' \subseteq Encours(j)
    BY <2>1 DEF Encours, Workers
  <2> QED
    BY <1>A, <2>1, <2>2
<1>11. \/ \E w \in Lecteurs : runReadLoopEchoue(w)
       \/ \E w \in Lecteurs : runReadLoop(w)
       \/ \E w \in Reclamations : runClaimCycle(w)
       \/ \E w \in Workers, i \in Positions :
             \/ xclaim(w, i) \/ execute(w, i) \/ save(w, i)
             \/ acquitter(w, i) \/ handleMessageEchoue(w, i) \/ finallyXack(w, i)
             \/ runClaimCycleEchoue(w, i)
             \/ moveEntryToDeadLetter(w, i) \/ moveEntryToDeadLetterEchoue(w, i)
       \/ \E n \in Instances : onModuleDestroy(n)
       \/ UNCHANGED workerVars /\ UNCHANGED livraisons
  BY DEF Next, ConsumerNext, WorkerStep, xadd, ensureConsumerGroupExists, Vieillir,
         replay, replayCommit, vars, workerVars, groupVars
<1> QED
  BY <1>4, <1>5, <1>6, <1>7, <1>8, <1>9, <1>10, <1>11, <1>D

LEMMA LignesFinies ==
    ASSUME Types, NEW i
    PROVE  /\ IsFiniteSet(Lignes(i)) /\ Cardinality(Lignes(i)) \in Nat
           /\ IsFiniteSet(Archivables(i)) /\ Cardinality(Archivables(i)) \in Nat
           /\ Cardinality(Archivables(i)) <= Cardinality(Reclamations)
           /\ Cardinality(Reclamations) \in Nat /\ fautes \in Nat
<1>1. IsFiniteSet(Lignes(i))
  BY FS_Subset DEF Lignes, Types, DlqTypeOK
<1>2. Archivables(i) \subseteq Reclamations
  BY DEF Archivables
<1>3. IsFiniteSet(Archivables(i))
  BY <1>2, Finitude, FS_Subset
<1>4. fautes \in Nat
  BY DEF Types, FautesTypeOK
<1> QED
  BY <1>1, <1>2, <1>3, <1>4, Finitude, SousEnsemble, FS_CardinalityType

(* The allowance grows by one dead letter per cycle with each fault.       *)
LEMMA CreditCroit ==
    ASSUME NEW f \in Nat, NEW g \in Nat, g = f \/ g = f + 1
    PROVE  /\ Cardinality(Cycles) \in Nat
           /\ Credit(f) \in Nat /\ Credit(g) \in Nat /\ Credit(f) <= Credit(g)
           /\ g = f + 1 => Credit(g) = Credit(f) + Cardinality(Cycles)
<1>1. Cardinality(Cycles) \in Nat
  BY ConsumerAssumption, FS_CardinalityType
<1>2. ASSUME NEW c \in Nat, NEW h \in Nat PROVE c * h \in Nat /\ c * (h + 1) = c * h + c
  OBVIOUS
<1>3. Credit(f) \in Nat /\ Credit(f + 1) = Credit(f) + Cardinality(Cycles)
  BY <1>1, <1>2 DEF Credit
<1> QED
  BY <1>1, <1>3

(* A cycle that passes to another entry may archive no entry more.         *)
LEMMA ArchivablesPasser ==
    ASSUME Inv, NEW w \in Workers, NEW i, NEW s, Tete(w, i, s), Passer(w, i) \/ Interrompre(w),
           pending' \subseteq pending, NEW j
    PROVE  /\ Archivables(j)' \subseteq Archivables(j) \union {w}
           /\ j # i \/ s \notin {"dlq_xack", "dlq_erreur"} \/ i \notin pending'
                 => Archivables(j)' \subseteq Archivables(j)
<1> SUFFICES ASSUME NEW v \in Archivables(j)', v \notin Archivables(j)
             PROVE  v = w /\ j = i /\ s \in {"dlq_xack", "dlq_erreur"} /\ i \in pending'
  OBVIOUS
<1>0. /\ v \in Reclamations /\ v \in Workers
      /\ j \in pending \/ j \in trop'[v]
      /\ j \in pending' \/ j \in trop'[v]
  BY DEF Archivables, Workers
<1>1. trop'[v] \subseteq trop[v] /\ (v # w => lot'[v] = lot[v] /\ etape'[v] = etape[v])
  BY <1>0, PasserFaits DEF Inv
<1>2. v = w
  BY <1>0, <1>1 DEF Archivables, Tete
<1>3. Tete(w, j, "dlq_xack") \/ Tete(w, j, "dlq_erreur")
  BY <1>0, <1>1, <1>2 DEF Archivables
<1>4. i = j /\ s \in {"dlq_xack", "dlq_erreur"}
  BY <1>3 DEF Tete, Inv, Poste, Types, GroupeTypeOK
<1>5. i \notin trop'[w]
  <2>1. trop'[w] \subseteq lot'[w] /\ i \notin lot'[w]
    BY PasserFaits DEF Inv, Poste
  <2> QED
    BY <2>1
<1> QED
  BY <1>0, <1>2, <1>4, <1>5

LEMMA ArchivablesAller ==
    ASSUME Inv, NEW w \in Workers, NEW i, NEW s, Tete(w, i, s), NEW t, Aller(w, t),
           s \notin {"dlq_xack", "dlq_erreur"}, UNCHANGED pending, NEW j
    PROVE  /\ Archivables(j)' \subseteq Archivables(j)
           /\ j = i /\ t \in {"dlq_xack", "dlq_erreur"} => w \notin Archivables(j)'
<1>1. \A v \in Workers : /\ lot'[v] = lot[v] /\ trop'[v] = trop[v]
                         /\ etape'[v] = IF v = w THEN t ELSE etape[v]
  BY AllerFaits DEF Inv
<1>2. ASSUME NEW v \in Archivables(j)' PROVE v \in Archivables(j)
  <2>1. v \in Reclamations /\ v \in Workers /\ (j \in pending \/ j \in trop[v])
    BY <1>1 DEF Archivables, Workers
  <2>2. ~Tete(v, j, "dlq_xack") /\ ~Tete(v, j, "dlq_erreur")
    BY <1>1, <2>1 DEF Archivables, Tete
  <2> QED
    BY <2>1, <2>2 DEF Archivables
<1>3. ASSUME j = i, t \in {"dlq_xack", "dlq_erreur"} PROVE w \notin Archivables(j)'
  BY <1>1, <1>3 DEF Archivables, Tete
<1> QED
  BY <1>2, <1>3

LEMMA LignesStep == ASSUME Inv, InvLignes, [Next]_vars PROVE InvLignes'
<1> SUFFICES ASSUME NEW j \in Positions, livraisons'[j] > 0
             PROVE  Cardinality(Lignes(j)') + Cardinality(Archivables(j)')
                       <= Cardinality(Reclamations) + Credit(fautes')
  BY DEF InvLignes
<1> DEFINE But == Cardinality(Lignes(j)') + Cardinality(Archivables(j)')
                      <= Cardinality(Reclamations) + Credit(fautes')
<1>0. Types /\ Types' /\ InvGroupe /\ \A w \in Workers : Poste(w)
  BY InvStep DEF Inv
<1>1. /\ IsFiniteSet(Lignes(j)) /\ Cardinality(Lignes(j)) \in Nat
      /\ IsFiniteSet(Archivables(j)) /\ Cardinality(Archivables(j)) \in Nat
      /\ Cardinality(Archivables(j)) <= Cardinality(Reclamations)
      /\ Cardinality(Reclamations) \in Nat /\ fautes \in Nat
  BY <1>0, LignesFinies
<1>2. /\ Archivables(j)' \subseteq Reclamations /\ IsFiniteSet(Archivables(j)')
      /\ Cardinality(Archivables(j)') \in Nat
      /\ Cardinality(Archivables(j)') <= Cardinality(Reclamations)
      /\ IsFiniteSet(Lignes(j)') /\ Cardinality(Lignes(j)') \in Nat /\ fautes' \in Nat
  <2>1. Archivables(j)' \subseteq Reclamations
    BY DEF Archivables
  <2>2. IsFiniteSet(Archivables(j)')
    BY <2>1, Finitude, FS_Subset
  <2>3. IsFiniteSet(Lignes(j)')
    BY <1>0, FS_Subset DEF Lignes, Types, DlqTypeOK
  <2>4. fautes' \in Nat
    BY <1>0 DEF Types, FautesTypeOK
  <2> QED
    BY <2>1, <2>2, <2>3, <2>4, Finitude, SousEnsemble, FS_CardinalityType
<1>3. Cardinality(Cycles) \in Nat
  BY ConsumerAssumption, FS_CardinalityType
<1>4. fautes' = fautes \/ fautes' = fautes + 1
  BY DEF Next, ConsumerNext, WorkerStep, xadd, ensureConsumerGroupExists, Vieillir, runReadLoop,
         runReadLoopEchoue, runClaimCycle, xclaim, execute, save, acquitter,
         handleMessageEchoue, moveEntryToDeadLetter, moveEntryToDeadLetterEchoue, finallyXack,
         runClaimCycleEchoue, onModuleDestroy, replay, replayCommit, vars, fauteVars, Faute,
         FauteArchive
<1>5. /\ Credit(fautes) \in Nat /\ Credit(fautes') \in Nat
      /\ Credit(fautes) <= Credit(fautes')
      /\ fautes' = fautes + 1 => Credit(fautes') = Credit(fautes) + Cardinality(Cycles)
  BY <1>1, <1>2, <1>4, CreditCroit
<1>6. CASE livraisons[j] = 0
  <2>1. j \notin pending
    BY <1>0, <1>6 DEF InvGroupe
  <2>2. PICK n \in Positions : xreadgroup(n)
    <3>1. \A k \in idle : k # j
      BY <1>0, <2>1 DEF Types, GroupeTypeOK
    <3>2. ASSUME NEW k \in idle, livraisons' = [livraisons EXCEPT ![k] = @ + 1] PROVE FALSE
      <4>1. livraisons'[j] = livraisons[j]
        BY <1>0, <3>1, <3>2 DEF Types, GroupeTypeOK
      <4> QED
        BY <1>6, <4>1
    <3>3. ~UNCHANGED livraisons
      BY <1>6
    <3> QED
      BY <3>2, <3>3
         DEF Next, ConsumerNext, WorkerStep, xadd, ensureConsumerGroupExists, Vieillir,
             runReadLoop, runReadLoopEchoue, runClaimCycle, xclaim, execute, save, acquitter,
             handleMessageEchoue, moveEntryToDeadLetter, moveEntryToDeadLetterEchoue,
             finallyXack, runClaimCycleEchoue, onModuleDestroy, replay, replayCommit, vars,
             groupVars
  <2>3. Lignes(j) = {}
    BY <1>6, ConsumerAssumption DEF Lignes, Inv, InvDlq
  <2>4. UNCHANGED dlq
    <3>1. UNCHANGED dlq \/ UNCHANGED livraisons
      BY DEF Next, ConsumerNext, WorkerStep, xadd, ensureConsumerGroupExists, Vieillir,
             runReadLoop, runReadLoopEchoue, runClaimCycle, xclaim, execute, save, acquitter,
             handleMessageEchoue, moveEntryToDeadLetter, moveEntryToDeadLetterEchoue,
             finallyXack, runClaimCycleEchoue, onModuleDestroy, replay, replayCommit, vars,
             groupVars, dlqVars
    <3> QED
      BY <1>6, <3>1
  <2>5. Lignes(j)' = {}
    BY <2>3, <2>4 DEF Lignes
  <2>6. Cardinality(Lignes(j)') = 0
    BY <2>5, FS_EmptySet
  <2> QED
    BY <1>1, <1>2, <1>5, <2>6
<1>7. CASE livraisons[j] > 0
  <2>0. Cardinality(Lignes(j)) + Cardinality(Archivables(j))
           <= Cardinality(Reclamations) + Credit(fautes)
    BY <1>7 DEF InvLignes
  <2>A. ASSUME UNCHANGED dlq, Archivables(j)' \subseteq Archivables(j) PROVE But
    <3>1. Lignes(j)' = Lignes(j)
      BY <2>A DEF Lignes
    <3>2. Cardinality(Archivables(j)') <= Cardinality(Archivables(j))
      BY <1>1, <2>A, SousEnsemble
    <3> QED
      BY <1>1, <1>2, <1>5, <2>0, <3>1, <3>2
  <2>B. ASSUME UNCHANGED dlq, NEW w \in Reclamations, fautes' = fautes + 1,
               Archivables(j)' \subseteq Archivables(j) \union {w}
        PROVE  But
    <3>1. Lignes(j)' = Lignes(j)
      BY <2>B DEF Lignes
    <3>2. Cardinality(Archivables(j)') <= Cardinality(Archivables(j)) + 1
      BY <1>1, <2>B, UnDePlus
    <3>3. Cardinality(Cycles) >= 1
      <4>1. Cycles # {}
        BY <2>B DEF Reclamations
      <4> QED
        BY <1>3, <4>1, ConsumerAssumption, FS_EmptySet
    <3> QED
      BY <1>1, <1>2, <1>3, <1>5, <2>0, <2>B, <3>1, <3>2, <3>3
  <2>1. ASSUME NEW w \in Reclamations, runClaimCycle(w) PROVE But
    <3>1. PICK S \in SUBSET idle :
              /\ lot' = [lot EXCEPT ![w] = S]
              /\ trop' = [trop EXCEPT ![w] =
                            {i \in S : shouldMoveToDeadLetter(livraisons[i], MaxDeliveries)}]
      BY <2>1 DEF runClaimCycle
    <3>2. UNCHANGED <<etape, pending, dlq>> /\ lot[w] = {} /\ w \in Workers
      BY <2>1 DEF runClaimCycle, groupVars, dlqVars, Workers
    <3>3. ASSUME NEW v \in Archivables(j)' PROVE v \in Archivables(j)
      <4>1. v \in Reclamations /\ v \in Workers /\ (j \in pending \/ j \in trop'[v])
        BY <3>2 DEF Archivables, Workers
      <4>2. CASE v = w
        <5>1. trop'[v] \subseteq pending
          BY <1>0, <3>1, <3>2, <4>2 DEF Types, WorkersTypeOK, GroupeTypeOK
        <5> QED
          BY <3>2, <4>1, <4>2, <5>1 DEF Archivables, Tete
      <4>3. CASE v # w
        <5>1. lot'[v] = lot[v] /\ trop'[v] = trop[v] /\ etape'[v] = etape[v]
          BY <1>0, <3>1, <3>2, <4>1, <4>3 DEF Types, WorkersTypeOK
        <5> QED
          BY <4>1, <5>1 DEF Archivables, Tete
      <4> QED
        BY <4>2, <4>3
    <3> QED
      BY <2>A, <3>2, <3>3
  <2>2. ASSUME NEW w \in Lecteurs, runReadLoop(w) PROVE But
    <3>1. PICK n \in Positions : xreadgroup(n) /\ lot' = [lot EXCEPT ![w] = (dernierLu + 1)..n]
      BY <2>2 DEF runReadLoop
    <3>2. UNCHANGED <<trop, etape, dlq>> /\ w \notin Reclamations
      BY <2>2, ConsumerAssumption DEF runReadLoop, dlqVars, Lecteurs, Reclamations
    <3>3. \A v \in Reclamations : lot'[v] = lot[v] /\ trop'[v] = trop[v] /\ etape'[v] = etape[v]
      BY <1>0, <3>1, <3>2 DEF Types, WorkersTypeOK, Workers
    <3>4. j \in pending' => j \in pending
      BY <1>0, <1>7, <3>1, ConsumerAssumption
         DEF xreadgroup, InvGroupe, Types, GroupeTypeOK, Positions
    <3>5. Archivables(j)' \subseteq Archivables(j)
      BY <3>3, <3>4 DEF Archivables, Tete
    <3> QED
      BY <2>A, <3>2, <3>5
  <2>3. ASSUME NEW w \in Lecteurs, runReadLoopEchoue(w) PROVE But
    <3>1. PICK n \in Positions : xreadgroup(n)
      BY <2>3 DEF runReadLoopEchoue
    <3>2. UNCHANGED <<lot, trop, etape, dlq>>
      BY <2>3 DEF runReadLoopEchoue, workerVars, dlqVars
    <3>3. j \in pending' => j \in pending
      BY <1>0, <1>7, <3>1, ConsumerAssumption
         DEF xreadgroup, InvGroupe, Types, GroupeTypeOK, Positions
    <3>4. Archivables(j)' \subseteq Archivables(j)
      BY <3>2, <3>3 DEF Archivables, Tete
    <3> QED
      BY <2>A, <3>2, <3>4
  <2>4. ASSUME UNCHANGED <<workerVars, pending, dlq>> PROVE But
    <3>1. Archivables(j)' \subseteq Archivables(j)
      BY <2>4 DEF Archivables, Tete, workerVars
    <3> QED
      BY <2>A, <2>4, <3>1
  <2>5. ASSUME NEW w \in Workers, NEW i \in Positions,
               xclaim(w, i) \/ execute(w, i) \/ save(w, i) \/ acquitter(w, i)
                  \/ handleMessageEchoue(w, i)
        PROVE  But
    <3>1. /\ UNCHANGED dlq /\ pending' \subseteq pending
          /\ \E s \in {"reclamer", "execute", "save", "xack"} :
                /\ Tete(w, i, s)
                /\ \/ Passer(w, i)
                   \/ UNCHANGED pending /\ \E t \in Etapes : Aller(w, t)
      BY <2>5 DEF xclaim, execute, save, acquitter, handleMessageEchoue, xack, dlqVars, groupVars,
                  Etapes
    <3>2. PICK s \in {"reclamer", "execute", "save", "xack"} :
              /\ Tete(w, i, s)
              /\ \/ Passer(w, i)
                 \/ UNCHANGED pending /\ \E t \in Etapes : Aller(w, t)
      BY <3>1
    <3>3. CASE Passer(w, i)
      BY <2>A, <3>1, <3>2, <3>3, ArchivablesPasser
    <3>4. CASE UNCHANGED pending /\ \E t \in Etapes : Aller(w, t)
      BY <2>A, <3>1, <3>2, <3>4, ArchivablesAller
    <3> QED
      BY <3>2, <3>3, <3>4
  <2>6. ASSUME NEW w \in Workers, NEW i \in Positions,
               moveEntryToDeadLetter(w, i) \/ moveEntryToDeadLetterEchoue(w, i)
        PROVE  But
    <3>1. /\ Tete(w, i, "reclamer") /\ i \in trop[w] /\ UNCHANGED pending
          /\ dlq' \in {dlq, dlq \union {Rang(i)}}
      BY <2>6 DEF moveEntryToDeadLetter, moveEntryToDeadLetterEchoue, groupVars
    <3>2. PICK t \in {"dlq_xack", "dlq_erreur"} : Aller(w, t)
      BY <2>6 DEF moveEntryToDeadLetter, moveEntryToDeadLetterEchoue
    <3>3. Archivables(j)' \subseteq Archivables(j) /\ (j = i => w \notin Archivables(j)')
      BY <3>1, <3>2, ArchivablesAller
    <3>4. Rang(i)[1] = i
      BY DEF Rang
    <3>5. CASE j # i \/ dlq' = dlq
      <4>1. Lignes(j)' = Lignes(j)
        BY <3>1, <3>4, <3>5 DEF Lignes
      <4>2. Cardinality(Archivables(j)') <= Cardinality(Archivables(j))
        BY <1>1, <3>3, SousEnsemble
      <4> QED
        BY <1>1, <1>2, <1>5, <2>0, <4>1, <4>2
    <3>6. CASE j = i /\ dlq' = dlq \union {Rang(i)}
      <4>1. Lignes(j)' \subseteq Lignes(j) \union {Rang(i)}
        BY <3>6 DEF Lignes
      <4>2. Cardinality(Lignes(j)') <= Cardinality(Lignes(j)) + 1
        BY <1>1, <4>1, UnDePlus
      <4>3. w \in Archivables(j)
        <5>1. w \in Reclamations
          BY <1>0, <3>1 DEF Poste, Workers
        <5> QED
          BY <3>1, <3>6, <5>1 DEF Archivables, Tete
      <4>4. Cardinality(Archivables(j)') + 1 <= Cardinality(Archivables(j))
        BY <1>1, <3>3, <3>6, <4>3, UnDeMoins
      <4> QED
        BY <1>1, <1>2, <1>5, <2>0, <4>2, <4>4
    <3> QED
      BY <3>1, <3>5, <3>6
  <2>7. ASSUME NEW w \in Workers, NEW i \in Positions, finallyXack(w, i) PROVE But
    <3>1. /\ UNCHANGED dlq /\ pending' = pending \ {i}
          /\ \E s : Tete(w, i, s)
          /\ Passer(w, i) \/ Interrompre(w)
      BY <2>7 DEF finallyXack, xack, dlqVars
    <3>2. Archivables(j)' \subseteq Archivables(j)
      BY <3>1, ArchivablesPasser
    <3> QED
      BY <2>A, <3>1, <3>2
  <2>8. ASSUME NEW w \in Workers, NEW i \in Positions, runClaimCycleEchoue(w, i) PROVE But
    <3>1. /\ UNCHANGED dlq /\ pending' \subseteq pending /\ Interrompre(w) /\ fautes' = fautes + 1
          /\ \E s \in {"reclamer", "dlq_xack", "dlq_erreur"} :
                Tete(w, i, s) /\ (s = "reclamer" => i \notin trop[w])
      BY <2>8 DEF runClaimCycleEchoue, xack, dlqVars, Faute
    <3>2. w \in Reclamations
      BY <1>0, <3>1 DEF Poste, Tete, Workers
    <3>3. Archivables(j)' \subseteq Archivables(j) \union {w}
      BY <3>1, ArchivablesPasser
    <3> QED
      BY <2>B, <3>1, <3>2, <3>3
  <2>9. ASSUME NEW n \in Instances, onModuleDestroy(n) PROVE But
    <3>1. UNCHANGED <<pending, dlq>> /\ fautes' = fautes + 1
      BY <2>9 DEF onModuleDestroy, groupVars, dlqVars, Faute
    <3>2. \A v \in Workers :
              \/ v[1] = n /\ trop'[v] = {}
              \/ lot'[v] = lot[v] /\ trop'[v] = trop[v] /\ etape'[v] = etape[v]
      BY <2>9 DEF onModuleDestroy
    <3> DEFINE Miens == {n} \X Cycles
    <3>3. IsFiniteSet(Miens) /\ Cardinality(Miens) = Cardinality(Cycles)
      <4>1. IsFiniteSet({n}) /\ Cardinality({n}) = 1
        BY FS_Singleton
      <4>2. IsFiniteSet(Miens) /\ Cardinality(Miens) = 1 * Cardinality(Cycles)
        BY <4>1, ConsumerAssumption, FS_Product
      <4> QED
        BY <1>3, <4>2
    <3>4. Archivables(j)' \subseteq Archivables(j) \union Miens
      <4> SUFFICES ASSUME NEW v \in Archivables(j)', v \notin Archivables(j) PROVE v \in Miens
        OBVIOUS
      <4>1. v \in Instances \X Cycles /\ v \in Workers
        BY DEF Archivables, Reclamations, Workers
      <4>2. v[1] = n
        BY <3>1, <3>2, <4>1 DEF Archivables, Tete
      <4> QED
        BY <4>1, <4>2
    <3>5. /\ IsFiniteSet(Archivables(j) \union Miens)
          /\ Cardinality(Archivables(j) \union Miens)
                <= Cardinality(Archivables(j)) + Cardinality(Cycles)
      <4>1. /\ IsFiniteSet(Archivables(j) \intersect Miens)
            /\ Cardinality(Archivables(j) \intersect Miens) \in Nat
        BY <1>1, FS_Subset, FS_CardinalityType
      <4>2. /\ IsFiniteSet(Archivables(j) \union Miens)
            /\ Cardinality(Archivables(j) \union Miens)
                  = Cardinality(Archivables(j)) + Cardinality(Miens)
                       - Cardinality(Archivables(j) \intersect Miens)
        BY <1>1, <3>3, FS_Union
      <4> HIDE DEF Miens
      <4> QED
        BY <1>1, <1>3, <3>3, <4>1, <4>2
    <3>6. Cardinality(Archivables(j)') <= Cardinality(Archivables(j)) + Cardinality(Cycles)
      BY <1>1, <1>2, <1>3, <3>4, <3>5, SousEnsemble
    <3>7. Lignes(j)' = Lignes(j)
      BY <3>1 DEF Lignes
    <3> QED
      BY <1>1, <1>2, <1>3, <1>5, <2>0, <3>1, <3>6, <3>7
  <2>10. \/ \E w \in Lecteurs : runReadLoopEchoue(w)
         \/ \E w \in Lecteurs : runReadLoop(w)
         \/ \E w \in Reclamations : runClaimCycle(w)
         \/ \E w \in Workers, i \in Positions :
               \/ xclaim(w, i) \/ execute(w, i) \/ save(w, i)
               \/ acquitter(w, i) \/ handleMessageEchoue(w, i) \/ finallyXack(w, i)
               \/ runClaimCycleEchoue(w, i)
               \/ moveEntryToDeadLetter(w, i) \/ moveEntryToDeadLetterEchoue(w, i)
         \/ \E n \in Instances : onModuleDestroy(n)
         \/ UNCHANGED <<workerVars, pending, dlq>>
    BY DEF Next, ConsumerNext, WorkerStep, xadd, ensureConsumerGroupExists, Vieillir,
           replay, replayCommit, vars, groupVars, dlqVars
  <2> QED
    BY <2>1, <2>2, <2>3, <2>4, <2>5, <2>6, <2>7, <2>8, <2>9, <2>10
<1> QED
  BY <1>0, <1>6, <1>7 DEF Types, GroupeTypeOK

LEMMA ReprisesInit == Init => InvReprises /\ InvLignes
<1> SUFFICES ASSUME Init PROVE InvReprises /\ InvLignes
  OBVIOUS
<1>1. ASSUME NEW i \in Positions
      PROVE  livraisons[i] + Cardinality(Encours(i)) <= MaxDeliveries + Cardinality(Reclamations)
  BY ReprisesFinies DEF Init
<1>2. ASSUME NEW i \in Positions PROVE ~(livraisons[i] > 0)
  BY DEF Init
<1> QED
  BY <1>1, <1>2 DEF InvReprises, InvLignes

(* Stale counts exceed MaxDeliveries by at most one delivery per claim     *)
(* cycle, and the dead letters of an entry are at most one per cycle, with *)
(* one more per cycle of an instance for each failure.                     *)
THEOREM ReprisesBorneesCorrect == Spec => []ReprisesBornees
<1>1. Inv /\ InvReprises /\ InvLignes => ReprisesBornees
  <2> SUFFICES ASSUME Inv, InvReprises, InvLignes, NEW i \in Positions
               PROVE  /\ livraisons[i] <= MaxDeliveries + Cardinality(Reclamations)
                      /\ Cardinality({d \in dlq : d[1] = i})
                            <= Cardinality(Reclamations) + Cardinality(Cycles) * fautes
    BY DEF ReprisesBornees
  <2>1. livraisons[i] \in Nat
    BY DEF Inv, Types, GroupeTypeOK
  <2>2. livraisons[i] <= MaxDeliveries + Cardinality(Reclamations)
    BY <2>1, ReprisesFinies DEF InvReprises
  <2>3. /\ Cardinality(Lignes(i)) \in Nat /\ Cardinality(Archivables(i)) \in Nat
        /\ Cardinality(Reclamations) \in Nat /\ fautes \in Nat
    BY LignesFinies DEF Inv
  <2>4. Credit(fautes) \in Nat /\ Credit(fautes) = Cardinality(Cycles) * fautes
    BY <2>3, CreditCroit DEF Credit
  <2>5. CASE livraisons[i] > 0
    <3>1. Cardinality(Lignes(i)) + Cardinality(Archivables(i))
             <= Cardinality(Reclamations) + Credit(fautes)
      BY <2>5 DEF InvLignes
    <3>2. Cardinality(Lignes(i)) <= Cardinality(Reclamations) + Credit(fautes)
      BY <2>3, <2>4, <3>1
    <3> QED
      BY <2>2, <2>4, <3>2 DEF Lignes
  <2>6. CASE livraisons[i] = 0
    <3>1. Lignes(i) = {}
      BY <2>6, ConsumerAssumption DEF Lignes, Inv, InvDlq
    <3>2. Cardinality(Lignes(i)) = 0
      BY <3>1, FS_EmptySet
    <3>3. Cardinality(Lignes(i)) <= Cardinality(Reclamations) + Credit(fautes)
      BY <2>3, <2>4, <3>2
    <3> QED
      BY <2>2, <2>4, <3>3 DEF Lignes
  <2> QED
    BY <2>1, <2>5, <2>6
<1> QED
  BY <1>1, InvInit, InvStep, ReprisesInit, ReprisesStep, LignesStep, PTL DEF Spec
=============================================================================
