------------------------ MODULE RequestTransactionProofs ------------------------
(***************************************************************************)
(* Proofs about the transaction of a write request, for every finite set   *)
(* of requests, every pool and every number of failures.                   *)
(***************************************************************************)
EXTENDS RequestTransaction, TLAPS

(* Every variable keeps its type; in particular a connection is never      *)
(* given back with an aborted transaction on it.                           *)
THEOREM TypeCorrect == Spec => []TypeOK
<1>1. Init => TypeOK
  BY RequeteAssumption DEF Init, TypeOK, EnCours, Lignes
<1>2. TypeOK /\ [Next]_vars => TypeOK'
  <2> SUFFICES ASSUME TypeOK, [Next]_vars PROVE TypeOK'
    OBVIOUS
  <2> USE RequeteAssumption DEF TypeOK, EnCours, Lignes
  <2>1. ASSUME NEW r \in Requetes, begin(r) PROVE TypeOK'
    BY <2>1 DEF begin, Aller
  <2>2. ASSUME NEW r \in Requetes, save(r) PROVE TypeOK'
    BY <2>2 DEF save, Aller, Ecrire
  <2>3. ASSUME NEW r \in Requetes, saveEchoue(r) PROVE TypeOK'
    BY <2>3 DEF saveEchoue, Aller, Faute
  <2>4. ASSUME NEW r \in Requetes, useCaseRejete(r) PROVE TypeOK'
    BY <2>4 DEF useCaseRejete, Aller
  <2>5. ASSUME NEW r \in Requetes, publish(r) PROVE TypeOK'
    BY <2>5 DEF publish, Aller, Ecrire
  <2>6. ASSUME NEW r \in Requetes, publishEchoue(r) PROVE TypeOK'
    BY <2>6 DEF publishEchoue, Aller, Faute
  <2>7. ASSUME NEW r \in Requetes, useCaseResolu(r) PROVE TypeOK'
    BY <2>7 DEF useCaseResolu, Aller
  <2>8. ASSUME NEW r \in Requetes, auditAvantCommit(r) PROVE TypeOK'
    BY <2>8 DEF auditAvantCommit, Ecrire, Faute
  <2>9. ASSUME NEW r \in Requetes, auditApresCommit(r) PROVE TypeOK'
    BY <2>9 DEF auditApresCommit
  <2>10. ASSUME NEW r \in Requetes, commit(r) PROVE TypeOK'
    BY <2>10 DEF commit, Liberer, Valider, Aller
  <2>11. ASSUME NEW r \in Requetes, commitEchoue(r) PROVE TypeOK'
    BY <2>11 DEF commitEchoue, Liberer, Valider, Aller, Faute
  <2>12. ASSUME NEW r \in Requetes, rollback(r) PROVE TypeOK'
    BY <2>12 DEF rollback, Liberer, Aller
  <2>13. ASSUME arret PROVE TypeOK'
    BY <2>13 DEF arret, Connexions, Faute
  <2>14. ASSUME UNCHANGED vars PROVE TypeOK'
    BY <2>14 DEF vars
  <2> QED
    BY <2>1, <2>2, <2>3, <2>4, <2>5, <2>6, <2>7, <2>8, <2>9, <2>10, <2>11,
       <2>12, <2>13, <2>14 DEF Next, Etape
<1> QED
  BY <1>1, <1>2, PTL DEF Spec
-----------------------------------------------------------------------------
(* What is known of one request between two statements: nothing of it is   *)
(* committed before its transaction ends; what it has written, as long as  *)
(* the server has not aborted the transaction; and why it was aborted.     *)
InvRequete(r) ==
    /\ phase[r] # "finie" => base[r] = {}
    /\ phase[r] \in {"use_case", "sauve"} => r \notin avortee
    /\ phase[r] = "sauve" => "metier" \in ecritures[r]
    /\ phase[r] \in {"publie", "resolu"} =>
          \/ r \notin avortee /\ {"metier", "evenement"} \subseteq ecritures[r]
          \/ r \in avortee
    /\ phase[r] = "publie" /\ r \in avortee => r \in nonPublie
    /\ phase[r] = "resolu" /\ r \in avortee /\ r \in auditEnVol => r \in nonPublie
    /\ r \in auditEnVol => phase[r] \in {"resolu", "finie"}
    /\ phase[r] = "finie" /\ r \in auditEnVol => "metier" \in base[r] \/ r \in nonPublie
    /\ "metier" \in base[r] <=> "evenement" \in base[r]
    /\ "audit" \in base[r] => "metier" \in base[r] \/ r \in nonPublie

(* The inductive invariant behind Atomicite and AuditDeMutation.           *)
InvRequetes == \A r \in Requetes : InvRequete(r)

LEMMA InvRequetesInductive == TypeOK /\ InvRequetes /\ [Next]_vars => InvRequetes'
<1> SUFFICES ASSUME TypeOK, InvRequetes, [Next]_vars, NEW q \in Requetes
             PROVE InvRequete(q)'
  BY DEF InvRequetes
<1>q. InvRequete(q)
  BY DEF InvRequetes
<1> USE DEF TypeOK, EnCours, Lignes
<1>1. ASSUME NEW r \in Requetes, begin(r) PROVE InvRequete(q)'
  BY <1>q, <1>1 DEF InvRequete, begin, Aller
<1>2. ASSUME NEW r \in Requetes, save(r) PROVE InvRequete(q)'
  BY <1>q, <1>2 DEF InvRequete, save, Aller, Ecrire
<1>3. ASSUME NEW r \in Requetes, saveEchoue(r) PROVE InvRequete(q)'
  BY <1>q, <1>3 DEF InvRequete, saveEchoue, Aller
<1>4. ASSUME NEW r \in Requetes, useCaseRejete(r) PROVE InvRequete(q)'
  BY <1>q, <1>4 DEF InvRequete, useCaseRejete, Aller
<1>5. ASSUME NEW r \in Requetes, publish(r) PROVE InvRequete(q)'
  BY <1>q, <1>5 DEF InvRequete, publish, Aller, Ecrire
<1>6. ASSUME NEW r \in Requetes, publishEchoue(r) PROVE InvRequete(q)'
  BY <1>q, <1>6 DEF InvRequete, publishEchoue, Aller
<1>7. ASSUME NEW r \in Requetes, useCaseResolu(r) PROVE InvRequete(q)'
  BY <1>q, <1>7 DEF InvRequete, useCaseResolu, Aller
<1>8. ASSUME NEW r \in Requetes, auditAvantCommit(r) PROVE InvRequete(q)'
  BY <1>q, <1>8 DEF InvRequete, auditAvantCommit, Ecrire
<1>9. ASSUME NEW r \in Requetes, auditApresCommit(r) PROVE InvRequete(q)'
  BY <1>q, <1>9 DEF InvRequete, auditApresCommit
<1>10. ASSUME NEW r \in Requetes, commit(r) PROVE InvRequete(q)'
  BY <1>q, <1>10 DEF InvRequete, commit, Liberer, Valider, Aller
<1>11. ASSUME NEW r \in Requetes, commitEchoue(r) PROVE InvRequete(q)'
  BY <1>q, <1>11 DEF InvRequete, commitEchoue, Liberer, Valider, Aller
<1>12. ASSUME NEW r \in Requetes, rollback(r) PROVE InvRequete(q)'
  BY <1>q, <1>12 DEF InvRequete, rollback, Liberer, Aller
<1>13. ASSUME arret PROVE InvRequete(q)'
  BY <1>q, <1>13 DEF InvRequete, arret, Connexions
<1>14. ASSUME UNCHANGED vars PROVE InvRequete(q)'
  BY <1>q, <1>14 DEF InvRequete, vars
<1> QED
  BY <1>1, <1>2, <1>3, <1>4, <1>5, <1>6, <1>7, <1>8, <1>9, <1>10, <1>11,
     <1>12, <1>13, <1>14 DEF Next, Etape

(* The mutation and its event are committed together or not at all.        *)
THEOREM TransactionSure == Spec => []Atomicite
<1>1. Init => InvRequetes
  BY DEF Init, InvRequetes, InvRequete
<1>2. InvRequetes => Atomicite
  BY DEF InvRequetes, InvRequete, Atomicite
<1> QED
  BY <1>1, <1>2, TypeCorrect, InvRequetesInductive, PTL DEF Spec

(* No audit line survives a mutation that was rolled back, unless the      *)
(* event's INSERT failed.                                                  *)
THEOREM AuditFonde == Spec => []AuditDeMutation
<1>1. Init => InvRequetes
  BY DEF Init, InvRequetes, InvRequete
<1>2. InvRequetes => AuditDeMutation
  BY DEF InvRequetes, InvRequete, AuditDeMutation
<1> QED
  BY <1>1, <1>2, TypeCorrect, InvRequetesInductive, PTL DEF Spec

(* A request whose handler rejected leaves nothing in the database: its    *)
(* next step rolls back.                                                   *)
LEMMA RejetStep ==
    ASSUME TypeOK, InvRequetes, [Next]_vars
    PROVE  \A r \in Requetes : phase[r] = "rejete" => base'[r] = {}
<1> SUFFICES ASSUME NEW q \in Requetes, phase[q] = "rejete" PROVE base'[q] = {}
  OBVIOUS
<1>q. base[q] = {} /\ phase[q] = "rejete"
  BY DEF InvRequetes, InvRequete
<1> USE DEF TypeOK
<1>1. ASSUME NEW r \in Requetes, begin(r) PROVE base'[q] = {}
  BY <1>q, <1>1 DEF begin
<1>2. ASSUME NEW r \in Requetes, save(r) PROVE base'[q] = {}
  BY <1>q, <1>2 DEF save
<1>3. ASSUME NEW r \in Requetes, saveEchoue(r) PROVE base'[q] = {}
  BY <1>q, <1>3 DEF saveEchoue
<1>4. ASSUME NEW r \in Requetes, useCaseRejete(r) PROVE base'[q] = {}
  BY <1>q, <1>4 DEF useCaseRejete
<1>5. ASSUME NEW r \in Requetes, publish(r) PROVE base'[q] = {}
  BY <1>q, <1>5 DEF publish
<1>6. ASSUME NEW r \in Requetes, publishEchoue(r) PROVE base'[q] = {}
  BY <1>q, <1>6 DEF publishEchoue
<1>7. ASSUME NEW r \in Requetes, useCaseResolu(r) PROVE base'[q] = {}
  BY <1>q, <1>7 DEF useCaseResolu
<1>8. ASSUME NEW r \in Requetes, auditAvantCommit(r) PROVE base'[q] = {}
  BY <1>q, <1>8 DEF auditAvantCommit
<1>9. ASSUME NEW r \in Requetes, auditApresCommit(r) PROVE base'[q] = {}
  BY <1>q, <1>9 DEF auditApresCommit
<1>10. ASSUME NEW r \in Requetes, commit(r) PROVE base'[q] = {}
  BY <1>q, <1>10 DEF commit, Valider
<1>11. ASSUME NEW r \in Requetes, commitEchoue(r) PROVE base'[q] = {}
  BY <1>q, <1>11 DEF commitEchoue, Valider
<1>12. ASSUME NEW r \in Requetes, rollback(r) PROVE base'[q] = {}
  BY <1>q, <1>12 DEF rollback
<1>13. ASSUME arret PROVE base'[q] = {}
  BY <1>q, <1>13 DEF arret
<1>14. ASSUME UNCHANGED vars PROVE base'[q] = {}
  BY <1>q, <1>14 DEF vars
<1> QED
  BY <1>1, <1>2, <1>3, <1>4, <1>5, <1>6, <1>7, <1>8, <1>9, <1>10, <1>11,
     <1>12, <1>13, <1>14 DEF Next, Etape

(* No step of a rejected request, or of another one, commits anything of   *)
(* it.                                                                     *)
THEOREM RejetAnnule == Spec => RejetSansTrace
<1>1. Init => InvRequetes
  BY DEF Init, InvRequetes, InvRequete
<1>2. TypeOK /\ InvRequetes /\ [Next]_vars
        => [\A r \in Requetes : phase[r] = "rejete" => base'[r] = {}]_vars
  BY RejetStep
<1> QED
  BY <1>1, <1>2, TypeCorrect, InvRequetesInductive, PTL DEF Spec, RejetSansTrace
=============================================================================
