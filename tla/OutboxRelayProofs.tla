-------------------------- MODULE OutboxRelayProofs --------------------------
(***************************************************************************)
(* Proofs about the Outbox relay, for every number of events, relays,      *)
(* retries and faults.                                                     *)
(***************************************************************************)
EXTENDS OutboxRelay, FiniteSetTheorems, TLAPS

(* Every variable keeps its type through every call of the relay.          *)
THEOREM TypeCorrect == Spec => []TypeOK
<1>1. Init => TypeOK
  BY RelayAssumption DEF Init, TypeOK, StatutOutbox
<1>2. TypeOK /\ [Next]_vars => TypeOK'
  <2> SUFFICES ASSUME TypeOK, [Next]_vars PROVE TypeOK'
    OBVIOUS
  <2> USE RelayAssumption DEF TypeOK, StatutOutbox
  <2>1. ASSUME NEW e \in Events, insert(e) PROVE TypeOK'
    BY <2>1 DEF insert, relayVars
  <2>2. ASSUME NEW r \in Relays, runCycle(r) PROVE TypeOK'
    BY <2>2 DEF runCycle, rowVars, EnAttente
  <2>3. ASSUME NEW r \in Relays, NEW e \in Events, relayOne(r, e) PROVE TypeOK'
    BY <2>3 DEF relayOne, rowVars
  <2>4. ASSUME NEW r \in Relays, NEW e \in Events, relayOneEchoue(r, e) PROVE TypeOK'
    <3>1. fautes' \in 0..MaxFaults
      BY <2>4 DEF relayOneEchoue, Faute
    <3>2. stream' \in Seq(Events)
      <4>1. Append(stream, e) \in Seq(Events)
        OBVIOUS
      <4> QED
        BY <2>4, <4>1 DEF relayOneEchoue
    <3> QED
      BY <2>4, <3>1, <3>2 DEF relayOneEchoue, rowVars
  <2>5. ASSUME NEW r \in Relays, NEW e \in Events, markPublished(r, e) PROVE TypeOK'
    BY <2>5 DEF markPublished
  <2>6. ASSUME NEW r \in Relays, NEW e \in Events, markPublishedEchoue(r, e) PROVE TypeOK'
    BY <2>6 DEF markPublishedEchoue, Faute
  <2>7. ASSUME NEW r \in Relays, NEW e \in Events, markFailedAttempt(r, e) PROVE TypeOK'
    BY <2>7 DEF markFailedAttempt, UnDePlus
  <2>8. ASSUME NEW r \in Relays, NEW e \in Events, markFailedAttemptEchoue(r, e) PROVE TypeOK'
    <3>1. [tentatives EXCEPT ![e] = UnDePlus(@)] \in [Events -> 0..MaxTentatives]
      BY DEF UnDePlus
    <3>2. tentatives' \in [Events -> 0..MaxTentatives]
      BY <2>8, <3>1 DEF markFailedAttemptEchoue
    <3>3. fautes' \in 0..MaxFaults
      BY <2>8 DEF markFailedAttemptEchoue, Faute
    <3> QED
      BY <2>8, <3>2, <3>3 DEF markFailedAttemptEchoue
  <2>9. ASSUME sweepPermanentFailures PROVE TypeOK'
    BY <2>9 DEF sweepPermanentFailures, markPermanentlyFailed, relayVars
  <2>10. ASSUME NEW r \in Relays, onModuleDestroy(r) PROVE TypeOK'
    BY <2>10 DEF onModuleDestroy, rowVars, Faute
  <2>11. ASSUME UNCHANGED vars PROVE TypeOK'
    BY <2>11 DEF vars, rowVars, relayVars
  <2> QED
    BY <2>1, <2>2, <2>3, <2>4, <2>5, <2>6, <2>7, <2>8, <2>9, <2>10, <2>11
       DEF Next, RelayNext, RelayStep
<1> QED
  BY <1>1, <1>2, PTL DEF Spec

-----------------------------------------------------------------------------
(* What the steps of the relay leave in the stream: nothing is removed, and *)
(* an added entry is the row that is being relayed.                         *)
LEMMA StreamStep ==
    ASSUME TypeOK, [Next]_vars
    PROVE  /\ stream' = stream
              \/ \E r \in Relays : \E e \in lot[r] :
                    stream' = Append(stream, e) /\ UNCHANGED <<statut, lot>>
           /\ \A e \in Events : InStream(e) => InStream(e)'
<1>1. \/ stream' = stream
      \/ \E r \in Relays : \E e \in lot[r] :
            stream' = Append(stream, e) /\ UNCHANGED <<statut, lot>>
  BY DEF Next, RelayNext, RelayStep, insert, runCycle, relayOne, relayOneEchoue,
         markPublished, markPublishedEchoue, markFailedAttempt, Suivante,
         markFailedAttemptEchoue, sweepPermanentFailures, onModuleDestroy, vars, rowVars
<1>2. ASSUME NEW e \in Events, InStream(e) PROVE InStream(e)'
  <2>1. PICK i \in 1..Len(stream) : stream[i] = e
    BY <1>2 DEF InStream
  <2>2. i \in 1..Len(stream') /\ stream'[i] = e
    <3>1. CASE stream' = stream
      BY <3>1, <2>1
    <3>2. ASSUME NEW f \in Events, stream' = Append(stream, f)
          PROVE  i \in 1..Len(stream') /\ stream'[i] = e
      <4>1. stream \in Seq(Events) /\ Len(stream) \in Nat
        BY DEF TypeOK
      <4>2. Len(stream') = Len(stream) + 1 /\ stream'[i] = stream[i]
        BY <3>2, <4>1, <2>1
      <4> QED
        BY <4>1, <4>2, <2>1
    <3> QED
      BY <1>1, <3>1, <3>2 DEF TypeOK
  <2> QED
    BY <2>2 DEF InStream
<1> QED
  BY <1>1, <1>2

(* The calls of one relay: the row that waits for markPublished is in the  *)
(* stream, the batch holds committed rows only, and the call in flight, at *)
(* most one, concerns a row of the batch.                                  *)
InvAppels(r) ==
    /\ \A e \in aMarquer[r] : InStream(e)
    /\ \A e \in lot[r] : statut[e] # "absente"
    /\ aMarquer[r] \subseteq lot[r]
    /\ aCompter[r] \subseteq lot[r]
    /\ aMarquer[r] = {} \/ aCompter[r] = {}

(* The inductive invariant behind the safety properties.                   *)
InvRelais ==
    /\ PublieDansFlux
    /\ FluxDepuisOutbox
    /\ EchecApresTentatives
    /\ \A r \in Relays : InvAppels(r)

LEMMA InvRelaisInductive == TypeOK /\ InvRelais /\ [Next]_vars => InvRelais'
<1> SUFFICES ASSUME TypeOK, InvRelais, [Next]_vars PROVE InvRelais'
  OBVIOUS
<1>0. \A e \in Events : InStream(e) => InStream(e)'
  BY StreamStep
<1>a. ASSUME stream' = stream, NEW e \in Events PROVE InStream(e)' = InStream(e)
  BY <1>a DEF InStream
<1>b. ASSUME NEW e \in Events, stream' = Append(stream, e)
      PROVE  /\ InStream(e)'
             /\ \A f \in Events : InStream(f)' => InStream(f) \/ f = e
  BY <1>b DEF InStream, TypeOK
<1> USE DEF TypeOK, InvRelais, PublieDansFlux, FluxDepuisOutbox, EchecApresTentatives
<1>1. ASSUME NEW e \in Events, insert(e) PROVE InvRelais'
  BY <1>1, <1>0, <1>a DEF insert, relayVars, InvAppels
<1>2. ASSUME NEW r \in Relays, runCycle(r) PROVE InvRelais'
  <2>1. PICK S \in SUBSET EnAttente : lot' = [lot EXCEPT ![r] = S]
    BY <1>2 DEF runCycle
  <2>2. lot[r] = {} /\ UNCHANGED <<statut, tentatives, stream, aMarquer, aCompter>>
    BY <1>2 DEF runCycle, rowVars, cycleEnCours
  <2>3. (PublieDansFlux /\ FluxDepuisOutbox /\ EchecApresTentatives)'
    BY <2>2, <1>a
  <2>4. ASSUME NEW q \in Relays PROVE InvAppels(q)'
    <3>1. lot'[q] = IF q = r THEN S ELSE lot[q]
      BY <2>1
    <3>2. \A f \in aMarquer[q] : InStream(f)'
      BY <1>0 DEF InvAppels
    <3> QED
      BY <2>2, <3>1, <3>2 DEF InvAppels, EnAttente
  <2> QED
    BY <2>3, <2>4
<1>3. ASSUME NEW r \in Relays, NEW e \in Events, relayOne(r, e) PROVE InvRelais'
  <2>1. /\ UNCHANGED <<statut, tentatives, lot, aCompter>>
        /\ e \in lot[r] /\ aCompter[r] = {}
        /\ aMarquer' = [aMarquer EXCEPT ![r] = {e}]
        /\ stream' = Append(stream, e)
    BY <1>3 DEF relayOne, Suivante, EntreDeuxLignes, rowVars
  <2>2. (PublieDansFlux /\ FluxDepuisOutbox /\ EchecApresTentatives)'
    BY <2>1, <1>0, <1>b DEF InvAppels
  <2>3. ASSUME NEW q \in Relays PROVE InvAppels(q)'
    <3>1. aMarquer'[q] = IF q = r THEN {e} ELSE aMarquer[q]
      BY <2>1
    <3>2. \A f \in aMarquer'[q] : InStream(f)'
      BY <3>1, <2>1, <1>0, <1>b DEF InvAppels
    <3> QED
      BY <2>1, <3>1, <3>2 DEF InvAppels
  <2> QED
    BY <2>2, <2>3
<1>4. ASSUME NEW r \in Relays, NEW e \in Events, relayOneEchoue(r, e) PROVE InvRelais'
  <2>1. /\ UNCHANGED <<statut, tentatives, lot, aMarquer>>
        /\ e \in lot[r] /\ aMarquer[r] = {}
        /\ aCompter' = [aCompter EXCEPT ![r] = {e}]
        /\ stream' = stream \/ stream' = Append(stream, e)
    BY <1>4 DEF relayOneEchoue, Suivante, EntreDeuxLignes, rowVars
  <2>2. (PublieDansFlux /\ EchecApresTentatives)'
    BY <2>1, <1>0
  <2>3. FluxDepuisOutbox'
    BY <2>1, <1>a, <1>b DEF InvAppels
  <2>4. ASSUME NEW q \in Relays PROVE InvAppels(q)'
    <3>1. aCompter'[q] = IF q = r THEN {e} ELSE aCompter[q]
      BY <2>1
    <3>2. \A f \in aMarquer'[q] : InStream(f)'
      BY <2>1, <1>0 DEF InvAppels
    <3> QED
      BY <2>1, <3>1, <3>2 DEF InvAppels
  <2> QED
    BY <2>2, <2>3, <2>4
<1>5. ASSUME NEW r \in Relays, NEW e \in Events, markPublished(r, e) PROVE InvRelais'
  BY <1>5, <1>0, <1>a DEF markPublished, InvAppels
<1>6. ASSUME NEW r \in Relays, NEW e \in Events, markPublishedEchoue(r, e) PROVE InvRelais'
  <2>1. /\ e \in aMarquer[r] /\ UNCHANGED <<tentatives, stream, lot>>
        /\ aMarquer' = [aMarquer EXCEPT ![r] = {}]
        /\ aCompter' = [aCompter EXCEPT ![r] = {e}]
        /\ statut' = statut \/ statut' = [statut EXCEPT ![e] = "publie"]
    BY <1>6 DEF markPublishedEchoue
  <2>2. \A f \in Events : statut'[f] = statut[f] \/ (f = e /\ statut'[f] = "publie")
    BY <2>1
  <2>3. InStream(e)
    BY <2>1 DEF InvAppels
  <2>4. (PublieDansFlux /\ FluxDepuisOutbox /\ EchecApresTentatives)'
    BY <2>1, <2>2, <2>3, <1>a
  <2>5. ASSUME NEW q \in Relays PROVE InvAppels(q)'
    <3>1. /\ aMarquer'[q] = IF q = r THEN {} ELSE aMarquer[q]
          /\ aCompter'[q] = IF q = r THEN {e} ELSE aCompter[q]
      BY <2>1
    <3>2. \A f \in aMarquer'[q] : InStream(f)'
      BY <3>1, <1>0 DEF InvAppels
    <3>3. \A f \in lot'[q] : statut'[f] # "absente"
      BY <2>1, <2>2 DEF InvAppels
    <3>4. aMarquer'[q] \subseteq lot'[q] /\ aCompter'[q] \subseteq lot'[q]
      BY <2>1, <3>1 DEF InvAppels
    <3>5. aMarquer'[q] = {} \/ aCompter'[q] = {}
      BY <3>1 DEF InvAppels
    <3> QED
      BY <3>2, <3>3, <3>4, <3>5 DEF InvAppels
  <2> QED
    BY <2>4, <2>5
<1>7. ASSUME NEW r \in Relays, NEW e \in Events, markFailedAttempt(r, e) PROVE InvRelais'
  <2>1. UnDePlus(tentatives[e]) >= tentatives[e] /\ UnDePlus(tentatives[e]) \in Nat
    BY RelayAssumption DEF UnDePlus
  <2> QED
    <3>1. /\ UNCHANGED <<statut, stream, aMarquer>> /\ e \in aCompter[r]
          /\ tentatives' = [tentatives EXCEPT ![e] = UnDePlus(@)]
          /\ lot' = [lot EXCEPT ![r] = @ \ {e}]
          /\ aCompter' = [aCompter EXCEPT ![r] = {}]
      BY <1>7 DEF markFailedAttempt
    <3>2. EchecApresTentatives'
      BY <3>1, <2>1, RelayAssumption
    <3>3. ASSUME NEW q \in Relays PROVE InvAppels(q)'
      <4>1. /\ lot'[q] = IF q = r THEN lot[r] \ {e} ELSE lot[q]
            /\ aCompter'[q] = IF q = r THEN {} ELSE aCompter[q]
        BY <3>1
      <4>2. \A f \in aMarquer'[q] : InStream(f)'
        BY <3>1, <1>0 DEF InvAppels
      <4>3. aMarquer[r] = {}
        BY <3>1 DEF InvAppels
      <4> QED
        BY <3>1, <4>1, <4>2, <4>3 DEF InvAppels
    <3> QED
      BY <3>1, <3>2, <3>3, <1>a
<1>8. ASSUME NEW r \in Relays, NEW e \in Events, markFailedAttemptEchoue(r, e) PROVE InvRelais'
  <2>1. UnDePlus(tentatives[e]) >= tentatives[e] /\ UnDePlus(tentatives[e]) \in Nat
    BY RelayAssumption DEF UnDePlus
  <2>2. \A f \in Events : tentatives'[f] \in Nat /\ tentatives'[f] >= tentatives[f]
    BY <1>8, <2>1, RelayAssumption DEF markFailedAttemptEchoue
  <2>3. UNCHANGED <<statut, stream, aMarquer>> /\ e \in aCompter[r]
    BY <1>8 DEF markFailedAttemptEchoue
  <2>4. EchecApresTentatives'
    BY <2>2, <2>3, RelayAssumption
  <2>5. /\ lot' = [lot EXCEPT ![r] = {}]
        /\ aCompter' = [aCompter EXCEPT ![r] = {}]
    BY <1>8 DEF markFailedAttemptEchoue
  <2>6. aMarquer[r] = {}
    BY <2>3 DEF InvAppels
  <2> QED
    BY <2>3, <2>4, <2>5, <2>6, <1>0, <1>a DEF InvAppels
<1>9. ASSUME sweepPermanentFailures PROVE InvRelais'
  BY <1>9, <1>0, <1>a DEF sweepPermanentFailures, markPermanentlyFailed, relayVars, InvAppels
<1>10. ASSUME NEW r \in Relays, onModuleDestroy(r) PROVE InvRelais'
  BY <1>10, <1>0, <1>a DEF onModuleDestroy, rowVars, InvAppels
<1>11. ASSUME UNCHANGED vars PROVE InvRelais'
  BY <1>11, <1>0, <1>a DEF vars, rowVars, relayVars, InvAppels
<1> QED
  BY <1>1, <1>2, <1>3, <1>4, <1>5, <1>6, <1>7, <1>8, <1>9, <1>10, <1>11
     DEF Next, RelayNext, RelayStep

(* At-least-once, no message without its committed row, and no row given   *)
(* up before MaxRetries attempts, whatever the instances, the batch size,  *)
(* the failures and the crashes.                                           *)
THEOREM RelaisSur ==
    Spec => [](PublieDansFlux /\ FluxDepuisOutbox /\ EchecApresTentatives)
<1>1. Init => InvRelais
  BY DEF Init, InvRelais, InvAppels, PublieDansFlux, FluxDepuisOutbox,
         EchecApresTentatives, InStream
<1>2. InvRelais => PublieDansFlux /\ FluxDepuisOutbox /\ EchecApresTentatives
  BY DEF InvRelais
<1> QED
  BY <1>1, <1>2, TypeCorrect, InvRelaisInductive, PTL DEF Spec

(* 'publie' is never taken back: the sweep's WHERE clause protects it from *)
(* the rows other instances still count failures for.                      *)
THEOREM PublicationFinale == Spec => PublieFinal
<1>1. TypeOK /\ [Next]_vars =>
        [\A e \in Events : statut[e] = "publie" => statut'[e] = "publie"]_vars
  <2> SUFFICES ASSUME TypeOK, Next, NEW e \in Events, statut[e] = "publie"
               PROVE  statut'[e] = "publie"
    OBVIOUS
  <2>1. ASSUME NEW f \in Events, NEW r \in Relays,
               markPublished(r, f) \/ markPublishedEchoue(r, f)
        PROVE  statut'[e] = "publie"
    BY <2>1 DEF markPublished, markPublishedEchoue, TypeOK
  <2>2. CASE sweepPermanentFailures
    BY <2>2 DEF sweepPermanentFailures, markPermanentlyFailed
  <2>3. ASSUME NEW f \in Events, insert(f) PROVE statut'[e] = "publie"
    BY <2>3 DEF insert, TypeOK
  <2>4. CASE UNCHANGED statut
    BY <2>4
  <2> QED
    BY <2>1, <2>2, <2>3, <2>4
       DEF Next, RelayNext, RelayStep, runCycle, relayOne, relayOneEchoue,
           markFailedAttempt, markFailedAttemptEchoue, onModuleDestroy, rowVars
<1> QED
  BY <1>1, TypeCorrect, PTL DEF Spec, PublieFinal

-----------------------------------------------------------------------------
(* The instances that may still add a copy of e without a fault: the ones  *)
(* that are not about to mark it, and hold it in their batch if it is      *)
(* already marked.                                                         *)
Peut(e) ==
    {r \in Relays : e \notin aMarquer[r] /\ (statut[e] = "publie" => e \in lot[r])}

(* Every copy of e is paid for by an instance that has lost the right to   *)
(* add another one, or by a fault.  A fault gives one right back at most.  *)
InvCopies ==
    /\ \A r \in Relays : \A e, f \in aMarquer[r] : e = f
    /\ \A e \in Events :
          Copies(e) + Cardinality(Peut(e)) <= Cardinality(Relays) + fautes

(* Adding an entry to the stream adds one copy of its event and of no      *)
(* other.                                                                  *)
LEMMA CopiesAppend ==
    ASSUME TypeOK, NEW e \in Events
    PROVE  /\ Copies(e) \in Nat
           /\ stream' = stream => Copies(e)' = Copies(e)
           /\ \A f \in Events : stream' = Append(stream, f) =>
                 Copies(e)' = IF f = e THEN Copies(e) + 1 ELSE Copies(e)
<1> DEFINE C == {i \in 1..Len(stream) : stream[i] = e}
<1>0. stream \in Seq(Events) /\ Len(stream) \in Nat
  BY DEF TypeOK
<1>1. IsFiniteSet(C) /\ Cardinality(C) \in Nat
  <2>1. IsFiniteSet(1..Len(stream))
    BY <1>0, FS_Interval
  <2>2. C \subseteq 1..Len(stream)
    OBVIOUS
  <2> QED
    BY <2>1, <2>2, FS_Subset, FS_CardinalityType
<1>2. Copies(e) = Cardinality(C)
  BY DEF Copies
<1>3. ASSUME NEW f \in Events, stream' = Append(stream, f)
      PROVE  Copies(e)' = IF f = e THEN Copies(e) + 1 ELSE Copies(e)
  <2>1. Len(stream') = Len(stream) + 1 /\ stream'[Len(stream) + 1] = f
    BY <1>0, <1>3
  <2>2. \A i \in 1..Len(stream) : stream'[i] = stream[i]
    BY <1>0, <1>3
  <2>3. {i \in 1..Len(stream') : stream'[i] = e}
           = IF f = e THEN C \union {Len(stream) + 1} ELSE C
    BY <1>0, <2>1, <2>2
  <2>4. Copies(e)' = Cardinality({i \in 1..Len(stream') : stream'[i] = e})
    BY DEF Copies
  <2>5. Len(stream) + 1 \notin C
    BY <1>0
  <2>6. Cardinality(C \union {Len(stream) + 1}) = Cardinality(C) + 1
    BY <1>1, <2>5, FS_AddElement
  <2> QED
    BY <1>2, <2>3, <2>4, <2>6
<1>4. stream' = stream => Copies(e)' = Copies(e)
  BY DEF Copies
<1> QED
  BY <1>1, <1>2, <1>3, <1>4

(* The accounting of one step: it suffices to say how Peut, the copies and *)
(* the faults change.                                                      *)
LEMMA CompteDesCopies ==
    ASSUME NEW P, IsFiniteSet(P), NEW Q \in SUBSET Relays, NEW r,
           NEW c \in Nat, NEW f \in Nat, NEW d \in Nat, NEW g \in Nat,
           c + Cardinality(P) <= Cardinality(Relays) + f,
           \/ Q \subseteq P /\ d = c /\ g >= f
           \/ Q \subseteq P \union {r} /\ d = c /\ g = f + 1
           \/ Q \subseteq P \ {r} /\ r \in P /\ d = c + 1 /\ g = f
           \/ Q \subseteq P /\ d = c + 1 /\ g = f + 1
    PROVE  d + Cardinality(Q) <= Cardinality(Relays) + g
<1>1. /\ Cardinality(P) \in Nat /\ Cardinality(Relays) \in Nat /\ Cardinality(Q) \in Nat
      /\ IsFiniteSet(P \union {r}) /\ IsFiniteSet(P \ {r})
  BY RelayAssumption, FS_CardinalityType, FS_Subset, FS_AddElement, FS_RemoveElement
<1>2. CASE Q \subseteq P /\ ((d = c /\ g >= f) \/ (d = c + 1 /\ g = f + 1))
  <2>1. Cardinality(Q) <= Cardinality(P)
    BY <1>2, FS_Subset
  <2> QED
    BY <1>1, <1>2, <2>1
<1>3. CASE Q \subseteq P \union {r} /\ d = c /\ g = f + 1
  <2>1. Cardinality(Q) <= Cardinality(P \union {r})
    BY <1>1, <1>3, FS_Subset
  <2>2. Cardinality(P \union {r}) <= Cardinality(P) + 1
    BY <1>1, FS_AddElement
  <2>3. Cardinality(P \union {r}) \in Nat
    BY <1>1, FS_CardinalityType
  <2> QED
    BY <1>1, <1>3, <2>1, <2>2, <2>3
<1>4. CASE Q \subseteq P \ {r} /\ r \in P /\ d = c + 1 /\ g = f
  <2>1. Cardinality(Q) <= Cardinality(P \ {r})
    BY <1>1, <1>4, FS_Subset
  <2>2. Cardinality(P \ {r}) = Cardinality(P) - 1
    BY <1>4, FS_RemoveElement
  <2> QED
    BY <1>1, <1>4, <2>1, <2>2
<1> QED
  BY <1>2, <1>3, <1>4

LEMMA InvCopiesInductive ==
    TypeOK /\ TypeOK' /\ InvCopies /\ [Next]_vars => InvCopies'
<1> SUFFICES ASSUME TypeOK, TypeOK', InvCopies, [Next]_vars PROVE InvCopies'
  OBVIOUS
<1>1. (\A r \in Relays : \A e, f \in aMarquer[r] : e = f)'
  <2>1. \A r \in Relays : \/ aMarquer'[r] \subseteq aMarquer[r]
                         \/ \E e \in Events : aMarquer'[r] = {e}
    BY DEF Next, RelayNext, RelayStep, insert, runCycle, relayOne, relayOneEchoue,
           markPublished, markPublishedEchoue, markFailedAttempt,
           markFailedAttemptEchoue, sweepPermanentFailures, onModuleDestroy,
           vars, rowVars, relayVars, TypeOK
  <2> QED
    BY <2>1 DEF InvCopies
<1>2. ASSUME NEW e \in Events
      PROVE  Copies(e)' + Cardinality(Peut(e)') <= Cardinality(Relays) + fautes'
  <2>1. /\ IsFiniteSet(Peut(e)) /\ Peut(e)' \in SUBSET Relays
        /\ Copies(e) \in Nat /\ fautes \in Nat /\ fautes' \in Nat
        /\ Copies(e) + Cardinality(Peut(e)) <= Cardinality(Relays) + fautes
    <3>1. IsFiniteSet(Peut(e))
      BY RelayAssumption, FS_Subset DEF Peut
    <3>2. Copies(e) \in Nat
      BY CopiesAppend
    <3> QED
      BY <3>1, <3>2, RelayAssumption DEF Peut, InvCopies, TypeOK
  <2> DEFINE Change(r) ==
        \/ Peut(e)' \subseteq Peut(e) /\ Copies(e)' = Copies(e) /\ fautes' >= fautes
        \/ Peut(e)' \subseteq Peut(e) \union {r} /\ Copies(e)' = Copies(e) /\ fautes' = fautes + 1
        \/ /\ Peut(e)' \subseteq Peut(e) \ {r} /\ r \in Peut(e)
           /\ Copies(e)' = Copies(e) + 1 /\ fautes' = fautes
        \/ Peut(e)' \subseteq Peut(e) /\ Copies(e)' = Copies(e) + 1 /\ fautes' = fautes + 1
  <2>2. \E r : Change(r)
    <3>1. /\ stream' = stream => Copies(e)' = Copies(e)
          /\ \A f \in Events : stream' = Append(stream, f) =>
                Copies(e)' = IF f = e THEN Copies(e) + 1 ELSE Copies(e)
      BY CopiesAppend
    <3>2. ASSUME NEW f \in Events, insert(f) PROVE Change(f)
      <4>1. Peut(e)' \subseteq Peut(e)
        BY <3>2 DEF insert, relayVars, Peut, TypeOK
      <4> QED
        BY <3>2, <4>1, <3>1 DEF insert, TypeOK
    <3>3. ASSUME NEW r \in Relays, runCycle(r) PROVE Change(r)
      <4>1. Peut(e)' \subseteq Peut(e)
        BY <3>3 DEF runCycle, rowVars, Peut, TypeOK, EnAttente
      <4> QED
        BY <3>3, <4>1, <3>1 DEF runCycle, TypeOK
    <3>4. ASSUME NEW r \in Relays, NEW f \in Events, relayOne(r, f) PROVE Change(r)
      <4>1. IF f = e THEN r \in Peut(e) /\ Peut(e)' \subseteq Peut(e) \ {r}
                     ELSE Peut(e)' \subseteq Peut(e)
        BY <3>4 DEF relayOne, Suivante, EntreDeuxLignes, rowVars, Peut, TypeOK
      <4> QED
        BY <3>4, <4>1, <3>1 DEF relayOne, TypeOK
    <3>5. ASSUME NEW r \in Relays, NEW f \in Events, relayOneEchoue(r, f) PROVE Change(r)
      <4>1. Peut(e)' \subseteq Peut(e)
        BY <3>5 DEF relayOneEchoue, rowVars, Peut
      <4>2. \/ stream' = stream /\ fautes' >= fautes
            \/ stream' = Append(stream, f) /\ fautes' = fautes + 1
        BY <3>5 DEF relayOneEchoue, Faute, TypeOK
      <4> QED
        BY <4>1, <4>2, <3>1 DEF TypeOK
    <3>6. ASSUME NEW r \in Relays, NEW f \in Events, markPublished(r, f) PROVE Change(r)
      <4>1. Peut(e)' \subseteq Peut(e)
        BY <3>6 DEF markPublished, Peut, TypeOK, InvCopies
      <4> QED
        BY <3>6, <4>1, <3>1 DEF markPublished, TypeOK
    <3>7. ASSUME NEW r \in Relays, NEW f \in Events, markPublishedEchoue(r, f) PROVE Change(r)
      <4>1. \A q \in Relays \ {r} : aMarquer'[q] = aMarquer[q] /\ lot'[q] = lot[q]
        BY <3>7 DEF markPublishedEchoue, TypeOK
      <4>2. statut[e] = "publie" => statut'[e] = "publie"
        BY <3>7 DEF markPublishedEchoue, TypeOK
      <4>3. Peut(e)' \subseteq Peut(e) \union {r}
        BY <4>1, <4>2 DEF Peut
      <4> QED
        BY <3>7, <4>3, <3>1 DEF markPublishedEchoue, Faute
    <3>8. ASSUME NEW r \in Relays, NEW f \in Events,
                 markFailedAttempt(r, f) \/ markFailedAttemptEchoue(r, f)
          PROVE  Change(r)
      <4>1. /\ UNCHANGED <<statut, stream, aMarquer>> /\ fautes' >= fautes
            /\ \A q \in Relays : lot'[q] \subseteq lot[q]
        <5>1. CASE markFailedAttempt(r, f)
          BY <5>1 DEF markFailedAttempt, TypeOK
        <5>2. CASE markFailedAttemptEchoue(r, f)
          <6>1. /\ UNCHANGED <<statut, stream, aMarquer>> /\ fautes' = fautes + 1
                /\ lot' = [lot EXCEPT ![r] = {}]
            BY <5>2 DEF markFailedAttemptEchoue, Faute
          <6> QED
            BY <6>1 DEF TypeOK
        <5> QED
          BY <3>8, <5>1, <5>2
      <4>2. Peut(e)' \subseteq Peut(e)
        BY <4>1 DEF Peut
      <4> QED
        BY <4>1, <4>2, <3>1
    <3>9. ASSUME sweepPermanentFailures PROVE Change(e)
      <4>1. Peut(e)' \subseteq Peut(e)
        BY <3>9 DEF sweepPermanentFailures, markPermanentlyFailed, relayVars, Peut
      <4> QED
        BY <3>9, <4>1, <3>1 DEF sweepPermanentFailures, TypeOK
    <3>10. ASSUME NEW r \in Relays, onModuleDestroy(r) PROVE Change(r)
      <4>1. Peut(e)' \subseteq Peut(e) \union {r}
        BY <3>10 DEF onModuleDestroy, rowVars, Peut, TypeOK
      <4> QED
        BY <3>10, <4>1, <3>1 DEF onModuleDestroy, Faute
    <3>11. ASSUME UNCHANGED vars PROVE Change(e)
      <4>1. Peut(e)' \subseteq Peut(e)
        BY <3>11 DEF vars, rowVars, relayVars, Peut
      <4> QED
        BY <3>11, <4>1, <3>1 DEF vars, TypeOK
    <3> HIDE DEF Change
    <3> QED
      BY <3>2, <3>3, <3>4, <3>5, <3>6, <3>7, <3>8, <3>9, <3>10, <3>11
         DEF Next, RelayNext, RelayStep
  <2>3. Copies(e)' \in Nat
    BY <2>1, <2>2
  <2> QED
    BY <2>1, <2>2, <2>3, CompteDesCopies
<1> QED
  BY <1>1, <1>2 DEF InvCopies

(* Duplicates are bounded for any number of instances and faults: one copy *)
(* per instance, and one more per failed call or crash.                    *)
THEOREM DoublonsBornes == Spec => []CopiesBornees
<1>1. Init => InvCopies
  <2> SUFFICES ASSUME Init PROVE InvCopies
    OBVIOUS
  <2>1. ASSUME NEW e \in Events PROVE Copies(e) = 0 /\ Peut(e) = Relays
    <3>1. {i \in 1..Len(stream) : stream[i] = e} = {}
      BY DEF Init
    <3> QED
      BY <3>1, FS_EmptySet DEF Init, Copies, Peut
  <2>2. Cardinality(Relays) \in Nat
    BY RelayAssumption, FS_CardinalityType
  <2>3. fautes = 0 /\ \A r \in Relays : aMarquer[r] = {}
    BY DEF Init
  <2> QED
    BY <2>1, <2>2, <2>3 DEF InvCopies
<1>2. TypeOK /\ InvCopies => CopiesBornees
  <2> SUFFICES ASSUME TypeOK, InvCopies, NEW e \in Events
               PROVE  Copies(e) <= Cardinality(Relays) + fautes
    BY DEF CopiesBornees
  <2>1. Cardinality(Peut(e)) \in Nat /\ Cardinality(Relays) \in Nat
    BY RelayAssumption, FS_Subset, FS_CardinalityType DEF Peut
  <2>2. Copies(e) \in Nat
    BY CopiesAppend
  <2> QED
    BY <2>1, <2>2, RelayAssumption DEF InvCopies, TypeOK
<1> QED
  BY <1>1, <1>2, TypeCorrect, InvCopiesInductive, PTL DEF Spec
=============================================================================
