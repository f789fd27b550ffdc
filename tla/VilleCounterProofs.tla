--------------------------- MODULE VilleCounterProofs ---------------------------
(***************************************************************************)
(* Proofs about the counter of attached villes, for every number of        *)
(* villes, nodes, instances, moves and claim cycles, every batch size and  *)
(* bound.                                                                  *)
(***************************************************************************)
EXTENDS VilleCounter, FiniteSetTheorems, SequenceTheorems, TLAPS

LEMMA Postes ==
    /\ \A x \in Instances : Lecture(x) \in Workers /\ Lecture(x)[2] = "lecture"
    /\ \A c \in Cycles : c \in Workers /\ c[2] # "lecture"
    /\ \A w \in Workers : w[2] = "lecture" <=> \E x \in Instances : w = Lecture(x)
  BY VilleAssumption DEF Workers, Lecture

LEMMA Finitude ==
    /\ IsFiniteSet(Workers) /\ Positions \subseteq Nat
    /\ MaxFlux \in Nat /\ MaxPerturbations \in Nat /\ BatchSize \in Nat \ {0}
<1> DEFINE L == {Lecture(x) : x \in Instances}
<1>1. IsFiniteSet(L)
  <2> DEFINE f == [x \in Instances |-> Lecture(x)]
  <2>1. f \in Surjection(Instances, L)
    BY DEF Surjection
  <2> QED
    BY <2>1, VilleAssumption, FS_Surjection
<1>2. IsFiniteSet(L \union Cycles)
  <2> HIDE DEF L
  <2> QED
    BY <1>1, VilleAssumption, FS_Union
<1> QED
  BY <1>2, VilleAssumption DEF Workers, Positions

LEMMA SousEnsemble ==
    ASSUME NEW S, IsFiniteSet(S), NEW T \in SUBSET S
    PROVE  /\ IsFiniteSet(T) /\ Cardinality(S) \in Nat /\ Cardinality(T) \in Nat
           /\ Cardinality(T) <= Cardinality(S)
  BY FS_Subset, FS_CardinalityType

LEMMA UnDePlus ==
    ASSUME NEW S, IsFiniteSet(S), NEW x, NEW T \in SUBSET (S \union {x})
    PROVE  IsFiniteSet(T) /\ Cardinality(T) <= Cardinality(S) + 1
<1>1. Cardinality(S) \in Nat
  BY FS_CardinalityType
<1>2. /\ IsFiniteSet(S \union {x})
      /\ Cardinality(S \union {x}) = IF x \in S THEN Cardinality(S) ELSE Cardinality(S) + 1
  BY FS_AddElement
<1> QED
  BY <1>1, <1>2, SousEnsemble

LEMMA UnDeMoins ==
    ASSUME NEW S, IsFiniteSet(S), NEW x \in S, NEW T \in SUBSET (S \ {x})
    PROVE  Cardinality(T) + 1 <= Cardinality(S)
<1>1. Cardinality(S) \in Nat
  BY FS_CardinalityType
<1>2. IsFiniteSet(S \ {x}) /\ Cardinality(S \ {x}) = Cardinality(S) - 1
  BY FS_RemoveElement
<1> QED
  BY <1>1, <1>2, SousEnsemble

-----------------------------------------------------------------------------
(* The types.                                                              *)
LEMMA InterrompusFini ==
    ASSUME NEW x
    PROVE  /\ IsFiniteSet(Interrompus(x)) /\ Cardinality(Interrompus(x)) \in Nat
           /\ Interrompus(x) # {} => Cardinality(Interrompus(x)) > 0
<1>1. IsFiniteSet(Interrompus(x)) /\ Cardinality(Interrompus(x)) \in Nat
  BY Finitude, SousEnsemble DEF Interrompus
<1>2. Interrompus(x) # {} => Cardinality(Interrompus(x)) # 0
  BY <1>1, FS_EmptySet
<1> QED
  BY <1>1, <1>2

LEMMA TypeInit == Init => TypeOK
<1> SUFFICES ASSUME Init PROVE TypeOK
  OBVIOUS
<1>1. flux = <<>> /\ outbox = <<>> /\ <<>> \in Seq(Evenements) /\ Len(<<>>) = 0
  BY DEF Init
<1>2. dernierLu \in 0..Len(flux) /\ perturbations \in 0..MaxPerturbations
  BY <1>1, Finitude DEF Init
<1>5. desordre \in BOOLEAN
  BY DEF Init
<1>3. /\ idle \subseteq pending /\ pending \subseteq 1..dernierLu
      /\ lot \in [Workers -> SUBSET (1..dernierLu)]
      /\ etape \in [Workers -> {"reclamer", "decrementer", "incrementer", "xack"}]
      /\ compteur \in [Noeuds -> Nat]
  BY DEF Init, Reprise
<1>4. /\ rattachement \in [Villes -> {{}} \union {{n} : n \in Places}]
      /\ deplacement \in [Deplacements -> SUBSET (Villes \X Places \X Places)]
  BY DEF Init
<1> QED
  BY <1>1, <1>2, <1>3, <1>4, <1>5, Finitude DEF TypeOK

(* The outbox and the stream, in the order of the events' publication.     *)
Total == Len(flux) + Len(outbox)

Journal(j) == IF j <= Len(flux) THEN flux[j] ELSE outbox[j - Len(flux)]

LEMMA Longueurs ==
    ASSUME TypeOK
    PROVE  /\ Len(flux) \in Nat /\ Len(outbox) \in Nat /\ Total \in Nat /\ dernierLu \in Nat
           /\ dernierLu <= Len(flux) /\ Len(flux) <= Total /\ Total <= MaxFlux
           /\ \A j \in 1..Total : Journal(j) \in Evenements
           /\ \A j \in 1..dernierLu : Journal(j) = flux[j] /\ j \in Positions
<1>1. flux \in Seq(Evenements) /\ outbox \in Seq(Evenements) /\ dernierLu \in 0..Len(flux)
      /\ Len(outbox) + Len(flux) <= MaxFlux
  BY DEF TypeOK
<1>2. Len(flux) \in Nat /\ Len(outbox) \in Nat /\ Total \in Nat /\ dernierLu \in Nat
      /\ dernierLu <= Len(flux) /\ Len(flux) <= Total /\ Total <= MaxFlux
  BY <1>1 DEF Total
<1>3. \A j \in 1..Total : Journal(j) \in Evenements
  <2> SUFFICES ASSUME NEW j \in 1..Total PROVE Journal(j) \in Evenements
    OBVIOUS
  <2>1. CASE j <= Len(flux)
    BY <1>1, <2>1 DEF Journal, Total
  <2>2. CASE ~(j <= Len(flux))
    <3>1. j - Len(flux) \in 1..Len(outbox)
      BY <1>2, <2>2 DEF Total
    <3> QED
      BY <1>1, <2>2, <3>1 DEF Journal
  <2> QED
    BY <2>1, <2>2
<1>4. \A j \in 1..dernierLu : Journal(j) = flux[j] /\ j \in Positions
  BY <1>2, Finitude DEF Journal, Positions
<1> QED
  BY <1>2, <1>3, <1>4

(* A transaction appends one event to the outbox.                          *)
LEMMA AjoutOutbox ==
    ASSUME TypeOK, Place, NEW e \in Evenements, outbox' = Append(outbox, e), UNCHANGED flux
    PROVE  /\ outbox' \in Seq(Evenements) /\ Len(outbox') = Len(outbox) + 1
           /\ Len(outbox') + Len(flux') <= MaxFlux
           /\ Total' = Total + 1
           /\ \A j \in 1..Total : Journal(j)' = Journal(j)
           /\ \A j : j = Total + 1 => Journal(j)' = e
<1>1. outbox \in Seq(Evenements) /\ Len(flux) \in Nat /\ Len(outbox) \in Nat
      /\ Len(outbox) + Len(flux) < MaxFlux
  BY Longueurs DEF TypeOK, Place
<1>2. /\ outbox' \in Seq(Evenements) /\ Len(outbox') = Len(outbox) + 1
      /\ \A k \in 1..Len(outbox) : outbox'[k] = outbox[k]
      /\ outbox'[Len(outbox) + 1] = e
  BY <1>1
<1>3. Total' = Total + 1 /\ Len(outbox') + Len(flux') <= MaxFlux
  BY <1>1, <1>2, Finitude DEF Total
<1>4. ASSUME NEW j \in 1..Total PROVE Journal(j)' = Journal(j)
  <2>1. CASE j <= Len(flux)
    BY <2>1 DEF Journal
  <2>2. CASE ~(j <= Len(flux))
    <3>1. j - Len(flux) \in 1..Len(outbox)
      BY <1>1, <2>2 DEF Total
    <3> QED
      BY <1>2, <2>2, <3>1 DEF Journal
  <2> QED
    BY <2>1, <2>2
<1>5. ASSUME NEW j, j = Total + 1 PROVE Journal(j)' = e
  <2>1. ~(j <= Len(flux)) /\ j - Len(flux) = Len(outbox) + 1
    BY <1>1, <1>5 DEF Total
  <2> QED
    BY <1>2, <2>1 DEF Journal
<1> QED
  BY <1>2, <1>3, <1>4, <1>5

(* The relay moves the k-th event of the outbox to the end of the stream.  *)
Rang(k, j) ==
    IF j = Len(flux) + 1 THEN Len(flux) + k
    ELSE IF j > Len(flux) /\ j <= Len(flux) + k THEN j - 1 ELSE j

Marque(k) == outbox' = SubSeq(outbox, 1, k - 1) \o SubSeq(outbox, k + 1, Len(outbox))

LEMMA PassageFlux ==
    ASSUME TypeOK, NEW k \in Nat, relayer(k), Marque(k)
    PROVE  /\ k \in 1..Len(outbox)
           /\ outbox' \in Seq(Evenements) /\ flux' \in Seq(Evenements)
           /\ Len(flux') = Len(flux) + 1 /\ Len(outbox') = Len(outbox) - 1
           /\ Total' = Total
           /\ \A j \in 1..Len(flux) : flux'[j] = flux[j]
           /\ \A j \in 1..Total : Rang(k, j) \in 1..Total /\ Journal(j)' = Journal(Rang(k, j))
<1> DEFINE avant == SubSeq(outbox, 1, k - 1)
           apres == SubSeq(outbox, k + 1, Len(outbox))
<1>1. /\ outbox \in Seq(Evenements) /\ flux \in Seq(Evenements)
      /\ Len(flux) \in Nat /\ Len(outbox) \in Nat /\ Total = Len(flux) + Len(outbox)
      /\ k \in 1..Len(outbox) /\ flux' = Append(flux, outbox[k]) /\ outbox' = avant \o apres
  BY Longueurs DEF TypeOK, relayer, Marque, Total
<1>2. /\ avant \in Seq(Evenements) /\ Len(avant) = k - 1
      /\ \A j \in 1..(k - 1) : avant[j] = outbox[j]
  BY <1>1
<1>3. /\ apres \in Seq(Evenements) /\ Len(apres) = Len(outbox) - k
      /\ \A j \in 1..(Len(outbox) - k) : apres[j] = outbox[k + j]
  BY <1>1
<1> HIDE DEF avant, apres
<1>4. /\ outbox' \in Seq(Evenements) /\ Len(outbox') = Len(outbox) - 1
      /\ \A j \in 1..(k - 1) : outbox'[j] = outbox[j]
      /\ \A j \in k..(Len(outbox) - 1) : outbox'[j] = outbox[j + 1]
  <2>1. /\ avant \o apres \in Seq(Evenements)
        /\ Len(avant \o apres) = Len(avant) + Len(apres)
        /\ \A j \in 1..(Len(avant) + Len(apres)) :
              (avant \o apres)[j] = IF j <= Len(avant) THEN avant[j] ELSE apres[j - Len(avant)]
    BY <1>2, <1>3, ConcatProperties
  <2>0. outbox' = avant \o apres /\ k \in Nat \ {0} /\ Len(outbox) \in Nat /\ k <= Len(outbox)
    BY <1>1
  <2>2. ASSUME NEW j \in 1..(k - 1) PROVE outbox'[j] = outbox[j]
    <3>1. j \in 1..(Len(avant) + Len(apres)) /\ j <= Len(avant)
      BY <2>0, <1>2, <1>3
    <3>2. (avant \o apres)[j] = avant[j]
      BY <2>1, <3>1
    <3> QED
      BY <2>0, <1>2, <3>2
  <2>3. ASSUME NEW j \in k..(Len(outbox) - 1) PROVE outbox'[j] = outbox[j + 1]
    <3>1. j - Len(avant) \in 1..(Len(outbox) - k) /\ k + (j - Len(avant)) = j + 1
      BY <1>1, <1>2
    <3>2. j \in 1..(Len(avant) + Len(apres)) /\ ~(j <= Len(avant))
      BY <2>0, <1>2, <1>3
    <3>3. (avant \o apres)[j] = apres[j - Len(avant)]
      BY <2>1, <3>2
    <3> QED
      BY <2>0, <1>3, <3>1, <3>3
  <2>4. Len(avant) + Len(apres) = Len(outbox) - 1
    BY <2>0, <1>2, <1>3
  <2> QED
    BY <2>0, <2>1, <2>2, <2>3, <2>4
<1>5. /\ flux' \in Seq(Evenements) /\ Len(flux') = Len(flux) + 1
      /\ \A j \in 1..Len(flux) : flux'[j] = flux[j]
      /\ flux'[Len(flux) + 1] = outbox[k]
  BY <1>1
<1>6. Total' = Total
  BY <1>1, <1>4, <1>5 DEF Total
<1>7. ASSUME NEW j \in 1..Total
      PROVE  Rang(k, j) \in 1..Total /\ Journal(j)' = Journal(Rang(k, j))
  <2>1. CASE j <= Len(flux)
    BY <1>1, <1>5, <2>1 DEF Rang, Journal
  <2>2. CASE j = Len(flux) + 1
    <3>1. Rang(k, j) = Len(flux) + k
      BY <2>2 DEF Rang
    <3>2. Journal(j)' = outbox[k]
      BY <1>1, <1>5, <2>2 DEF Journal
    <3>3. Journal(Len(flux) + k) = outbox[k]
      BY <1>1 DEF Journal
    <3> QED
      BY <1>1, <3>1, <3>2, <3>3
  <2>3. CASE j > Len(flux) + 1 /\ j <= Len(flux) + k
    <3>1. Rang(k, j) = j - 1 /\ j - 1 \in 1..Total
      BY <1>1, <2>3 DEF Rang
    <3>2. j - (Len(flux) + 1) \in 1..(k - 1)
      BY <1>1, <2>3
    <3>3. Journal(j)' = outbox'[j - (Len(flux) + 1)]
      <4>1. ~(j <= Len(flux')) /\ Len(flux') = Len(flux) + 1
        BY <1>1, <1>5, <2>3
      <4> QED
        BY <4>1 DEF Journal
    <3>4. Journal(j - 1) = outbox[j - 1 - Len(flux)]
      BY <1>1, <2>3 DEF Journal
    <3>5. j - 1 - Len(flux) = j - (Len(flux) + 1)
      BY <1>1
    <3> QED
      BY <1>4, <3>1, <3>2, <3>3, <3>4, <3>5
  <2>4. CASE j > Len(flux) + k
    <3>1. Rang(k, j) = j
      BY <1>1, <2>4 DEF Rang
    <3>2. j - (Len(flux) + 1) \in k..(Len(outbox) - 1)
      BY <1>1, <2>4
    <3>3. Journal(j)' = outbox'[j - (Len(flux) + 1)]
      <4>1. ~(j <= Len(flux')) /\ Len(flux') = Len(flux) + 1
        BY <1>1, <1>5, <2>4
      <4> QED
        BY <4>1 DEF Journal
    <3>4. Journal(j) = outbox[j - Len(flux)]
      BY <1>1, <2>4 DEF Journal
    <3>5. j - (Len(flux) + 1) + 1 = j - Len(flux)
      BY <1>1
    <3> QED
      BY <1>4, <3>1, <3>2, <3>3, <3>4, <3>5
  <2> QED
    BY <1>1, <2>1, <2>2, <2>3, <2>4
<1> QED
  BY <1>1, <1>4, <1>5, <1>6, <1>7

(* Or it adds a copy at the end of the stream, and the row stays.          *)
Copie(k) == Place /\ Perturbation /\ UNCHANGED outbox

LEMMA CopieFlux ==
    ASSUME TypeOK, NEW k \in Nat, relayer(k), Copie(k)
    PROVE  /\ k \in 1..Len(outbox) /\ outbox[k] \in Evenements
           /\ flux' \in Seq(Evenements) /\ Len(flux') = Len(flux) + 1
           /\ Total' = Total + 1 /\ Len(outbox') + Len(flux') <= MaxFlux
           /\ \A j \in 1..Len(flux) : Journal(j)' = Journal(j)
           /\ \A j : j = Len(flux) + 1 => Journal(j)' = outbox[k]
           /\ \A j \in (Len(flux) + 1)..Total : Journal(j + 1)' = Journal(j)
<1>1. /\ outbox \in Seq(Evenements) /\ flux \in Seq(Evenements)
      /\ Len(flux) \in Nat /\ Len(outbox) \in Nat /\ Total = Len(flux) + Len(outbox)
      /\ k \in 1..Len(outbox) /\ flux' = Append(flux, outbox[k]) /\ outbox' = outbox
      /\ Len(outbox) + Len(flux) < MaxFlux
  BY Longueurs DEF TypeOK, relayer, Copie, Place, Total
<1>2. /\ outbox[k] \in Evenements
      /\ flux' \in Seq(Evenements) /\ Len(flux') = Len(flux) + 1
      /\ \A j \in 1..Len(flux) : flux'[j] = flux[j]
      /\ flux'[Len(flux) + 1] = outbox[k]
  BY <1>1
<1>3. Total' = Total + 1 /\ Len(outbox') + Len(flux') <= MaxFlux
  BY <1>1, <1>2, Finitude DEF Total
<1>4. \A j \in 1..Len(flux) : Journal(j)' = Journal(j)
  BY <1>1, <1>2 DEF Journal
<1>5. \A j : j = Len(flux) + 1 => Journal(j)' = outbox[k]
  BY <1>1, <1>2 DEF Journal
<1>6. ASSUME NEW j \in (Len(flux) + 1)..Total PROVE Journal(j + 1)' = Journal(j)
  <2>1. ~(j + 1 <= Len(flux')) /\ ~(j <= Len(flux)) /\ j + 1 - Len(flux') = j - Len(flux)
    BY <1>1, <1>2
  <2> QED
    BY <1>1, <2>1 DEF Journal
<1> QED
  BY <1>1, <1>2, <1>3, <1>4, <1>5, <1>6

LEMMA RelayerCas ==
    ASSUME NEW k, relayer(k)
    PROVE  (Marque(k) /\ UNCHANGED perturbations) \/ Copie(k)
  BY DEF relayer, Marque, Copie

LEMMA TypeStep == TypeOK /\ [Next]_vars => TypeOK'
<1> SUFFICES ASSUME TypeOK, [Next]_vars PROVE TypeOK'
  OBVIOUS
<1>t. /\ rattachement \in [Villes -> {{}} \union {{n} : n \in Places}]
      /\ deplacement \in [Deplacements -> SUBSET (Villes \X Places \X Places)]
      /\ outbox \in Seq(Evenements) /\ flux \in Seq(Evenements)
      /\ Len(outbox) + Len(flux) <= MaxFlux
      /\ dernierLu \in 0..Len(flux)
      /\ idle \subseteq pending /\ pending \subseteq 1..dernierLu
      /\ lot \in [Workers -> SUBSET (1..dernierLu)]
      /\ etape \in [Workers -> {"reclamer", "decrementer", "incrementer", "xack"}]
      /\ compteur \in [Noeuds -> Nat]
      /\ perturbations \in 0..MaxPerturbations
  BY DEF TypeOK
<1>q. desordre \in BOOLEAN
  BY DEF TypeOK
<1>u. ASSUME Perturbation PROVE perturbations' \in 0..MaxPerturbations
  BY <1>t, <1>u, Finitude DEF Perturbation
<1>v. ASSUME NEW b, PerturbationSi(b) PROVE perturbations' \in 0..MaxPerturbations
  BY <1>t, <1>u, <1>v DEF PerturbationSi
<1>w. \A w \in Workers : Reprise(w) \in {"reclamer", "decrementer", "incrementer", "xack"}
  BY DEF Reprise
<1>x. ASSUME NEW w \in Workers, NEW i, Passer(w, i), UNCHANGED dernierLu
      PROVE  /\ lot' \in [Workers -> SUBSET (1..dernierLu')]
             /\ etape' \in [Workers -> {"reclamer", "decrementer", "incrementer", "xack"}]
  BY <1>t, <1>w, <1>x DEF Passer
<1>y. ASSUME NEW w \in Workers, NEW s \in {"reclamer", "decrementer", "incrementer", "xack"},
             Aller(w, s), UNCHANGED dernierLu
      PROVE  /\ lot' \in [Workers -> SUBSET (1..dernierLu')]
             /\ etape' \in [Workers -> {"reclamer", "decrementer", "incrementer", "xack"}]
  BY <1>t, <1>y DEF Aller
<1>z. ASSUME NEW n, Increment(n) \/ Decrement(n) PROVE compteur' \in [Noeuds -> Nat]
  <2>1. \A m \in Noeuds : compteur[m] \in Nat
    BY <1>t
  <2> QED
    BY <1>z, <2>1 DEF Increment, Decrement
<1>1. ASSUME NEW v \in Villes, NEW n \in Places, createVille(v, n) PROVE TypeOK'
  <2>1. <<Nul, n>> \in Evenements
    BY DEF Evenements, Places
  <2>2. outbox' \in Seq(Evenements) /\ Len(outbox') + Len(flux') <= MaxFlux
    BY <1>1, <2>1, AjoutOutbox DEF createVille
  <2>3. rattachement' \in [Villes -> {{}} \union {{m} : m \in Places}]
    BY <1>1, <1>t DEF createVille
  <2> QED
    BY <1>1, <1>t, <1>q, <2>2, <2>3 DEF createVille, TypeOK, groupVars, workerVars, ghostVars
<1>2. ASSUME NEW d \in Deplacements, NEW v \in Villes, NEW n \in Places, moveVille(d, v, n)
      PROVE  TypeOK'
  <2>1. PICK m \in rattachement[v] : deplacement' = [deplacement EXCEPT ![d] = {<<v, m, n>>}]
    BY <1>2 DEF moveVille
  <2>2. m \in Places
    BY <1>t, <2>1
  <2>3. deplacement' \in [Deplacements -> SUBSET (Villes \X Places \X Places)]
    BY <1>t, <2>1, <2>2
  <2> QED
    BY <1>2, <1>t, <1>q, <2>3 DEF moveVille, TypeOK, groupVars, workerVars, ghostVars
<1>3. ASSUME NEW d \in Deplacements, moveVilleCommit(d) PROVE TypeOK'
  <2>1. PICK m \in deplacement[d] : /\ rattachement' = [rattachement EXCEPT ![m[1]] = {m[3]}]
                                    /\ outbox' = Append(outbox, <<m[2], m[3]>>)
                                    /\ PerturbationSi(rattachement[m[1]] # {m[2]})
    BY <1>3 DEF moveVilleCommit
  <2>2. m[1] \in Villes /\ m[2] \in Places /\ m[3] \in Places
    BY <1>t
  <2>3. <<m[2], m[3]>> \in Evenements
    BY <2>2 DEF Evenements
  <2>4. outbox' \in Seq(Evenements) /\ Len(outbox') + Len(flux') <= MaxFlux
    BY <1>3, <2>1, <2>3, AjoutOutbox DEF moveVilleCommit
  <2>5. rattachement' \in [Villes -> {{}} \union {{n} : n \in Places}]
    BY <1>t, <2>1, <2>2
  <2>6. deplacement' \in [Deplacements -> SUBSET (Villes \X Places \X Places)]
    BY <1>3, <1>t DEF moveVilleCommit
  <2>7. perturbations' \in 0..MaxPerturbations
    BY <1>v, <2>1
  <2> QED
    BY <1>3, <1>t, <1>q, <2>4, <2>5, <2>6, <2>7 DEF moveVilleCommit, TypeOK, groupVars, workerVars
<1>4. ASSUME NEW k \in 1..MaxFlux, relayer(k) PROVE TypeOK'
  <2>1. /\ outbox' \in Seq(Evenements) /\ flux' \in Seq(Evenements)
        /\ Len(flux') = Len(flux) + 1 /\ Len(outbox') + Len(flux') <= MaxFlux
    <3>1. CASE Marque(k)
      <4>1. k \in Nat
        BY Finitude
      <4>2. /\ outbox' \in Seq(Evenements) /\ flux' \in Seq(Evenements)
            /\ Len(flux') = Len(flux) + 1 /\ Len(outbox') = Len(outbox) - 1
        BY <1>4, <3>1, <4>1, PassageFlux
      <4> QED
        BY <1>t, <4>2, Longueurs, Finitude
    <3>2. CASE Copie(k)
      <4>1. k \in Nat
        BY Finitude
      <4> QED
        BY <1>4, <1>t, <3>2, <4>1, CopieFlux DEF Copie
    <3> QED
      BY <1>4, <3>1, <3>2, RelayerCas
  <2>2. perturbations' \in 0..MaxPerturbations
    BY <1>4, <1>t, <1>u DEF relayer
  <2>3. dernierLu \in 0..Len(flux')
    BY <1>t, <2>1, Longueurs
  <2>4. desordre' \in BOOLEAN
    BY <1>4 DEF relayer, DesordreSi
  <2> QED
    BY <1>4, <1>t, <1>q, <2>1, <2>2, <2>3, <2>4 DEF relayer, TypeOK, referentialVars, groupVars, workerVars
<1>5. ASSUME NEW i \in Positions, Vieillir(i) PROVE TypeOK'
  <2>1. perturbations' \in 0..MaxPerturbations
    BY <1>5, <1>v DEF Vieillir
  <2> QED
    BY <1>5, <1>t, <1>q, <2>1 DEF Vieillir, TypeOK, referentialVars, workerVars
<1>6. ASSUME NEW x \in Instances, runReadLoop(x) PROVE TypeOK'
  <2>1. PICK n \in Positions :
          /\ xreadgroup(n)
          /\ \/ /\ lot' = [lot EXCEPT ![Lecture(x)] = (dernierLu + 1)..n]
                /\ UNCHANGED perturbations
             \/ Perturbation /\ UNCHANGED lot
    BY <1>6 DEF runReadLoop
  <2>2. /\ dernierLu' = n /\ dernierLu < n /\ n <= Len(flux) /\ n \in Nat
        /\ pending' = pending \union (dernierLu + 1)..n
    BY <2>1, Longueurs, Finitude DEF xreadgroup
  <2>3. 1..dernierLu \subseteq 1..n /\ (dernierLu + 1)..n \subseteq 1..n
    BY <2>2, Longueurs
  <2>4. perturbations' \in 0..MaxPerturbations
    BY <1>t, <1>u, <2>1
  <2>5. lot' \in [Workers -> SUBSET (1..n)]
    BY <1>t, <2>1, <2>3
  <2>6. pending' \subseteq 1..n /\ dernierLu' \in 0..Len(flux)
    BY <1>t, <2>2, <2>3, Longueurs
  <2> QED
    BY <1>6, <1>t, <1>q, <2>2, <2>4, <2>5, <2>6 DEF runReadLoop, TypeOK, referentialVars
<1>7. ASSUME NEW c \in Cycles, runClaimCycle(c) PROVE TypeOK'
  <2>1. lot' \in [Workers -> SUBSET (1..dernierLu)]
    BY <1>7, <1>t DEF runClaimCycle
  <2> QED
    BY <1>7, <1>t, <1>q, <2>1 DEF runClaimCycle, TypeOK, referentialVars, groupVars, ghostVars
<1>8. ASSUME NEW w \in Workers, NEW i \in Positions, xclaim(w, i) PROVE TypeOK'
  <2>1. CASE i \in idle
    BY <1>8, <1>t, <1>q, <1>y, <2>1 DEF xclaim, TypeOK, referentialVars, ghostVars
  <2>2. CASE i \notin idle
    BY <1>8, <1>t, <1>q, <1>x, <2>2 DEF xclaim, TypeOK, referentialVars, ghostVars
  <2> QED
    BY <2>1, <2>2
<1>9. ASSUME NEW w \in Workers, NEW i \in Positions, decrementer(w, i) PROVE TypeOK'
  <2>1. desordre' \in BOOLEAN
    BY <1>9 DEF decrementer, DesordreSi
  <2> QED
    BY <1>9, <1>t, <1>q, <1>y, <1>z, <2>1 DEF decrementer, TypeOK, referentialVars, groupVars
<1>10. ASSUME NEW w \in Workers, NEW i \in Positions, incrementer(w, i) PROVE TypeOK'
  BY <1>10, <1>t, <1>q, <1>y, <1>z DEF incrementer, TypeOK, referentialVars, groupVars, ghostVars
<1>11. ASSUME NEW w \in Workers, NEW i \in Positions, acquitter(w, i) PROVE TypeOK'
  <2>1. idle' \subseteq pending' /\ pending' \subseteq 1..dernierLu
    BY <1>11, <1>t DEF acquitter, xack
  <2> QED
    BY <1>11, <1>t, <1>q, <1>x, <2>1 DEF acquitter, TypeOK, referentialVars, ghostVars
<1>12. ASSUME NEW w \in Workers, NEW i \in Positions, handleMessageEchoue(w, i) PROVE TypeOK'
  <2>1. idle' \subseteq pending' /\ pending' \subseteq 1..dernierLu
    BY <1>12, <1>t DEF handleMessageEchoue, xack
  <2>2. compteur' \in [Noeuds -> Nat]
    BY <1>12, <1>t, <1>z DEF handleMessageEchoue
  <2> QED
    BY <1>12, <1>t, <1>q, <1>u, <1>x, <2>1, <2>2 DEF handleMessageEchoue, TypeOK, referentialVars
<1>13. ASSUME NEW x \in Instances, onModuleDestroy(x) PROVE TypeOK'
  <2>1. Cardinality(Interrompus(x)) \in Nat
    BY InterrompusFini
  <2>2. perturbations' \in 0..MaxPerturbations
    BY <1>13, <1>t, <2>1, Finitude DEF onModuleDestroy
  <2>3. /\ lot' \in [Workers -> SUBSET (1..dernierLu)]
        /\ etape' \in [Workers -> {"reclamer", "decrementer", "incrementer", "xack"}]
    BY <1>13, <1>t, <1>w DEF onModuleDestroy
  <2> QED
    BY <1>13, <1>t, <1>q, <2>2, <2>3 DEF onModuleDestroy, TypeOK, referentialVars, groupVars
<1>14. ASSUME UNCHANGED vars PROVE TypeOK'
  BY <1>14, <1>t, <1>q DEF vars, TypeOK, referentialVars, groupVars, workerVars, ghostVars
<1> QED
  BY <1>1, <1>2, <1>3, <1>4, <1>5, <1>6, <1>7, <1>8, <1>9, <1>10, <1>11, <1>12, <1>13, <1>14
     DEF Next, WorkerStep

(* Every variable keeps its type: the pending entries and the batches name *)
(* delivered entries, and no counter becomes negative.                     *)
THEOREM TypeCorrect == Spec => []TypeOK
  BY TypeInit, TypeStep, PTL DEF Spec

-----------------------------------------------------------------------------
(* What has happened to a node upstream: its villes, against the events of *)
(* the journal that join it and leave it.                                  *)
Arrivees(n) == {e \in Evenements : e[2] = n}

Departs(n) == {e \in Evenements : e[1] = n}

Avant(k, S) == {j \in 1..k : Journal(j) \in S}

Nombre(k, S) == Cardinality(Avant(k, S))

Rattachees(n) == {v \in Villes : n \in rattachement[v]}

Amont(n) == Reel(n) - Nombre(Total, Arrivees(n)) + Nombre(Total, Departs(n))

LEMMA AvantFini ==
    ASSUME NEW k \in Nat, NEW S
    PROVE  IsFiniteSet(Avant(k, S)) /\ Nombre(k, S) \in Nat
<1>1. IsFiniteSet(1..k) /\ Avant(k, S) \subseteq 1..k
  BY FS_Interval DEF Avant
<1> QED
  BY <1>1, SousEnsemble DEF Nombre

LEMMA AmontType ==
    ASSUME TypeOK, NEW n
    PROVE  /\ IsFiniteSet(Rattachees(n)) /\ Reel(n) = Cardinality(Rattachees(n))
           /\ Reel(n) \in Nat /\ Amont(n) \in Int
           /\ Nombre(Total, Arrivees(n)) \in Nat /\ Nombre(Total, Departs(n)) \in Nat
<1>1. IsFiniteSet(Rattachees(n)) /\ Cardinality(Rattachees(n)) \in Nat
  BY VilleAssumption, SousEnsemble DEF Rattachees
<1>2. Nombre(Total, Arrivees(n)) \in Nat /\ Nombre(Total, Departs(n)) \in Nat
  BY Longueurs, AvantFini
<1>3. Reel(n) = Cardinality(Rattachees(n))
  BY DEF Reel, Rattachees
<1> QED
  BY <1>1, <1>2, <1>3 DEF Amont

LEMMA NombreAjout ==
    ASSUME TypeOK, Place, NEW e \in Evenements, outbox' = Append(outbox, e), UNCHANGED flux,
           NEW S
    PROVE  /\ e \in S => Nombre(Total, S)' = Nombre(Total, S) + 1
           /\ e \notin S => Nombre(Total, S)' = Nombre(Total, S)
<1>1. /\ Total \in Nat /\ Total' = Total + 1
      /\ \A j \in 1..Total : Journal(j)' = Journal(j)
      /\ \A j : j = Total + 1 => Journal(j)' = e
  BY AjoutOutbox, Longueurs
<1>2. IsFiniteSet(Avant(Total, S))
  BY <1>1, AvantFini
<1>3. CASE e \in S
  <2>1. Avant(Total, S)' = Avant(Total, S) \union {Total + 1}
    BY <1>1, <1>3 DEF Avant
  <2>2. Total + 1 \notin Avant(Total, S)
    BY <1>1 DEF Avant
  <2> QED
    BY <1>2, <1>3, <2>1, <2>2, FS_AddElement DEF Nombre
<1>4. CASE e \notin S
  <2>1. Avant(Total, S)' = Avant(Total, S)
    BY <1>1, <1>4 DEF Avant
  <2> QED
    BY <1>4, <2>1 DEF Nombre
<1> QED
  BY <1>3, <1>4

Retour(k, j) ==
    IF j = Len(flux) + k THEN Len(flux) + 1
    ELSE IF j > Len(flux) /\ j < Len(flux) + k THEN j + 1 ELSE j

LEMMA RangInverse ==
    ASSUME TypeOK, NEW k \in 1..Len(outbox), NEW j \in 1..Total
    PROVE  /\ Rang(k, j) \in 1..Total /\ Retour(k, Rang(k, j)) = j
           /\ Retour(k, j) \in 1..Total /\ Rang(k, Retour(k, j)) = j
  BY Longueurs DEF Rang, Retour, Total

LEMMA NombrePassage ==
    ASSUME TypeOK, NEW k \in Nat, relayer(k), Marque(k), NEW S
    PROVE  Nombre(Total, S)' = Nombre(Total, S)
<1>1. /\ k \in 1..Len(outbox) /\ Total' = Total /\ Total \in Nat
      /\ \A j \in 1..Total : Journal(j)' = Journal(Rang(k, j))
  BY PassageFlux, Longueurs
<1> DEFINE A == Avant(Total, S)
           B == {j \in 1..Total : Journal(Rang(k, j)) \in S}
           f == [j \in A |-> Retour(k, j)]
<1>2. Avant(Total, S)' = B
  BY <1>1 DEF Avant
<1>3. \A j \in A : Retour(k, j) \in B
  BY <1>1, RangInverse DEF Avant
<1>4. \A i, j \in A : Retour(k, i) = Retour(k, j) => i = j
  <2> SUFFICES ASSUME NEW i \in A, NEW j \in A, Retour(k, i) = Retour(k, j) PROVE i = j
    OBVIOUS
  <2>1. i \in 1..Total /\ j \in 1..Total
    BY DEF Avant
  <2> QED
    BY <1>1, <2>1, RangInverse
<1>5. \A j \in B : Rang(k, j) \in A /\ Retour(k, Rang(k, j)) = j
  BY <1>1, RangInverse DEF Avant
<1>6. IsFiniteSet(A)
  BY <1>1, AvantFini
<1> HIDE DEF A, B
<1>7. f \in Bijection(A, B)
  <2>1. f \in [A -> B] /\ \A i, j \in A : f[i] = f[j] => i = j
    BY <1>3, <1>4
  <2>2. \A j \in B : \E i \in A : f[i] = j
    BY <1>5
  <2> QED
    BY <2>1, <2>2 DEF Bijection, Injection, Surjection, IsInjective
<1>8. Cardinality(B) = Cardinality(A)
  BY <1>6, <1>7, FS_Bijection DEF ExistsBijection
<1> QED
  BY <1>2, <1>8 DEF A, Nombre

LEMMA NombreCopie ==
    ASSUME TypeOK, NEW k \in Nat, relayer(k), Copie(k), NEW S
    PROVE  /\ outbox[k] \in S => Nombre(Total, S)' = Nombre(Total, S) + 1
           /\ outbox[k] \notin S => Nombre(Total, S)' = Nombre(Total, S)
<1> DEFINE L == Len(flux)
           A == Avant(Total, S)
           B == Avant(Total, S)' \ {L + 1}
           f == [j \in A |-> IF j <= L THEN j ELSE j + 1]
<1>1. /\ L \in Nat /\ Total \in Nat /\ L <= Total /\ Total' = Total + 1
      /\ \A j \in 1..L : Journal(j)' = Journal(j)
      /\ \A j : j = L + 1 => Journal(j)' = outbox[k]
      /\ \A j \in (L + 1)..Total : Journal(j + 1)' = Journal(j)
  BY CopieFlux, Longueurs
<1>2. A = {j \in 1..Total : Journal(j) \in S}
  BY DEF Avant
<1>3. Avant(Total, S)' = {j \in 1..(Total + 1) : Journal(j)' \in S}
  BY <1>1 DEF Avant
<1>4. IsFiniteSet(A) /\ Cardinality(A) \in Nat
  BY <1>1, AvantFini DEF Nombre
<1> HIDE DEF A, L
<1>5. B = {j \in 1..(Total + 1) : Journal(j)' \in S /\ j # L + 1}
  BY <1>3
<1> HIDE DEF B
<1>6. \A j \in A : f[j] \in B
  <2> SUFFICES ASSUME NEW j \in A PROVE f[j] \in B
    OBVIOUS
  <2>1. j \in 1..Total /\ Journal(j) \in S
    BY <1>2
  <2>2. CASE j <= L
    BY <1>1, <1>5, <2>1, <2>2
  <2>3. CASE ~(j <= L)
    <3>1. j \in (L + 1)..Total /\ j + 1 \in 1..(Total + 1) /\ j + 1 # L + 1 /\ f[j] = j + 1
      BY <1>1, <2>1, <2>3
    <3>2. Journal(j + 1)' \in S
      BY <1>1, <2>1, <3>1
    <3> QED
      BY <1>5, <3>1, <3>2
  <2> QED
    BY <2>2, <2>3
<1>7. \A i, j \in A : f[i] = f[j] => i = j
  BY <1>1, <1>2
<1>8. \A j \in B : \E i \in A : f[i] = j
  <2> SUFFICES ASSUME NEW j \in B PROVE \E i \in A : f[i] = j
    OBVIOUS
  <2>1. j \in 1..(Total + 1) /\ Journal(j)' \in S /\ j # L + 1
    BY <1>5
  <2>2. CASE j <= L
    <3>1. j \in 1..L /\ j \in 1..Total
      BY <1>1, <2>1, <2>2
    <3>2. j \in A
      BY <1>1, <1>2, <2>1, <3>1
    <3> QED
      BY <2>2, <3>2
  <2>3. CASE ~(j <= L)
    <3> DEFINE i == j - 1
    <3>1. i \in (L + 1)..Total /\ i \in 1..Total /\ ~(i <= L) /\ i + 1 = j
      BY <1>1, <2>1, <2>3
    <3> HIDE DEF i
    <3>2. Journal(i) = Journal(i + 1)'
      BY <1>1, <3>1
    <3>3. i \in A
      BY <1>2, <2>1, <3>1, <3>2
    <3> QED
      BY <3>1, <3>3
  <2> QED
    BY <2>2, <2>3
<1>9. f \in Bijection(A, B)
  <2>1. f \in [A -> B]
    BY <1>6
  <2> HIDE DEF f
  <2> QED
    BY <1>7, <1>8, <2>1 DEF Bijection, Injection, Surjection, IsInjective
<1>10. IsFiniteSet(B) /\ Cardinality(B) = Cardinality(A)
  BY <1>4, <1>9, FS_Bijection DEF ExistsBijection
<1>11. L + 1 \in Avant(Total, S)' <=> outbox[k] \in S
  BY <1>1, <1>3
<1>12. CASE outbox[k] \in S
  <2>1. Avant(Total, S)' = B \union {L + 1} /\ L + 1 \notin B
    BY <1>11, <1>12 DEF B
  <2>2. Cardinality(Avant(Total, S)') = Cardinality(A) + 1
    BY <1>10, <2>1, FS_AddElement
  <2> QED
    BY <1>12, <2>2 DEF A, Nombre
<1>13. CASE outbox[k] \notin S
  <2>1. Avant(Total, S)' = B
    BY <1>11, <1>13 DEF B
  <2> QED
    BY <1>10, <1>13, <2>1 DEF A, Nombre
<1> QED
  BY <1>12, <1>13

LEMMA AmontCreate ==
    ASSUME TypeOK, NEW v \in Villes, NEW p \in Places, createVille(v, p), NEW n \in Noeuds
    PROVE  Amont(n)' = Amont(n)
<1> DEFINE e == <<Nul, p>>
<1>1. e \in Evenements /\ e[1] = Nul /\ e[2] = p
  BY DEF Evenements, Places
<1>2. (e \in Arrivees(n) <=> p = n) /\ e \notin Departs(n)
  BY <1>1, VilleAssumption DEF Arrivees, Departs
<1>3. Place /\ outbox' = Append(outbox, e) /\ flux' = flux
  BY DEF createVille
<1> HIDE DEF e
<1>4. /\ p = n => Nombre(Total, Arrivees(n))' = Nombre(Total, Arrivees(n)) + 1
      /\ p # n => Nombre(Total, Arrivees(n))' = Nombre(Total, Arrivees(n))
      /\ Nombre(Total, Departs(n))' = Nombre(Total, Departs(n))
  <2>1. /\ e \in Arrivees(n) => Nombre(Total, Arrivees(n))' = Nombre(Total, Arrivees(n)) + 1
        /\ e \notin Arrivees(n) => Nombre(Total, Arrivees(n))' = Nombre(Total, Arrivees(n))
    <3> DEFINE S == Arrivees(n)
    <3>1. S' = S
      BY DEF Arrivees
    <3> HIDE DEF S
    <3>2. /\ e \in S => Nombre(Total, S)' = Nombre(Total, S) + 1
          /\ e \notin S => Nombre(Total, S)' = Nombre(Total, S)
      BY <1>1, <1>3, NombreAjout
    <3> QED
      BY <3>2 DEF S
  <2> QED
    BY <1>1, <1>2, <1>3, <2>1, NombreAjout
<1>5. /\ p = n => Reel(n)' = Reel(n) + 1
      /\ p # n => Reel(n)' = Reel(n)
  <2>1. rattachement[v] = {} /\ rattachement' = [rattachement EXCEPT ![v] = {p}]
    BY DEF createVille
  <2>2. \A x \in Villes : rattachement'[x] = IF x = v THEN {p} ELSE rattachement[x]
    BY <2>1 DEF TypeOK
  <2>3. v \notin Rattachees(n)
    BY <2>1 DEF Rattachees
  <2>4. CASE p = n
    <3>1. Rattachees(n)' = Rattachees(n) \union {v}
      BY <2>2, <2>4 DEF Rattachees
    <3>2. Reel(n)' = Cardinality(Rattachees(n)') /\ Reel(n) = Cardinality(Rattachees(n))
      BY DEF Reel, Rattachees
    <3>3. Cardinality(Rattachees(n) \union {v}) = Cardinality(Rattachees(n)) + 1
      BY <2>3, AmontType, FS_AddElement
    <3> QED
      BY <2>4, <3>1, <3>2, <3>3
  <2>5. CASE p # n
    <3>1. Rattachees(n)' = Rattachees(n)
      BY <2>1, <2>2, <2>5 DEF Rattachees
    <3> QED
      BY <2>5, <3>1 DEF Reel, Rattachees
  <2> QED
    BY <2>4, <2>5
<1> QED
  BY <1>4, <1>5, AmontType DEF Amont

LEMMA AmontCommit ==
    ASSUME TypeOK, NEW d \in Deplacements, moveVilleCommit(d), NEW n \in Noeuds
    PROVE  /\ perturbations' \in {perturbations, perturbations + 1}
           /\ perturbations' = perturbations => Amont(n)' = Amont(n)
           /\ Amont(n)' <= Amont(n) + 1
<1>1. PICK m \in deplacement[d] : /\ rattachement' = [rattachement EXCEPT ![m[1]] = {m[3]}]
                                  /\ outbox' = Append(outbox, <<m[2], m[3]>>)
                                  /\ PerturbationSi(rattachement[m[1]] # {m[2]})
  BY DEF moveVilleCommit
<1> DEFINE v == m[1]
           q == m[2]
           p == m[3]
           e == <<q, p>>
<1>2. v \in Villes /\ q \in Places /\ p \in Places
  BY DEF TypeOK
<1>3. e \in Evenements /\ e[1] = q /\ e[2] = p
  BY <1>2 DEF Evenements
<1>4. (e \in Arrivees(n) <=> p = n) /\ (e \in Departs(n) <=> q = n)
  BY <1>3 DEF Arrivees, Departs
<1>5. Place /\ outbox' = Append(outbox, e) /\ flux' = flux
  BY <1>1 DEF moveVilleCommit
<1>6. \A x \in Villes : rattachement'[x] = IF x = v THEN {p} ELSE rattachement[x]
  BY <1>1, <1>2 DEF TypeOK
<1>7. /\ rattachement[v] # {q} => perturbations' = perturbations + 1
      /\ rattachement[v] = {q} => perturbations' = perturbations
      /\ perturbations \in Int
  BY <1>1 DEF PerturbationSi, Perturbation, TypeOK
<1> HIDE DEF e, v, q, p
<1>8. /\ p = n => Nombre(Total, Arrivees(n))' = Nombre(Total, Arrivees(n)) + 1
      /\ p # n => Nombre(Total, Arrivees(n))' = Nombre(Total, Arrivees(n))
  <2> DEFINE S == Arrivees(n)
  <2>1. S' = S
    BY DEF Arrivees
  <2> HIDE DEF S
  <2>2. /\ e \in S => Nombre(Total, S)' = Nombre(Total, S) + 1
        /\ e \notin S => Nombre(Total, S)' = Nombre(Total, S)
    BY <1>3, <1>5, NombreAjout
  <2> QED
    BY <1>4, <2>2 DEF S
<1>9. /\ q = n => Nombre(Total, Departs(n))' = Nombre(Total, Departs(n)) + 1
      /\ q # n => Nombre(Total, Departs(n))' = Nombre(Total, Departs(n))
  <2> DEFINE S == Departs(n)
  <2>1. S' = S
    BY DEF Departs
  <2> HIDE DEF S
  <2>2. /\ e \in S => Nombre(Total, S)' = Nombre(Total, S) + 1
        /\ e \notin S => Nombre(Total, S)' = Nombre(Total, S)
    BY <1>3, <1>5, NombreAjout
  <2> QED
    BY <1>4, <2>2 DEF S
<1>10. IsFiniteSet(Rattachees(n)) /\ Cardinality(Rattachees(n)) \in Nat
  BY AmontType, FS_CardinalityType
<1>11. Reel(n)' = Cardinality(Rattachees(n)') /\ Reel(n) = Cardinality(Rattachees(n))
  BY DEF Reel, Rattachees
<1>12. /\ p = n => Reel(n)' <= Reel(n) + 1
       /\ p # n => Reel(n)' <= Reel(n)
       /\ Reel(n)' \in Nat
  <2>1. IsFiniteSet(Rattachees(n)')
    BY VilleAssumption, FS_Subset DEF Rattachees
  <2>2. ASSUME p = n PROVE Reel(n)' <= Reel(n) + 1
    <3>1. Rattachees(n)' \subseteq Rattachees(n) \union {v}
      BY <1>6 DEF Rattachees
    <3> QED
      BY <1>10, <1>11, <3>1, UnDePlus
  <2>3. ASSUME p # n PROVE Reel(n)' <= Reel(n)
    <3>1. Rattachees(n)' \subseteq Rattachees(n)
      BY <1>6, <2>3 DEF Rattachees
    <3> QED
      BY <1>10, <1>11, <3>1, SousEnsemble
  <2> QED
    BY <1>11, <2>1, <2>2, <2>3, FS_CardinalityType
<1>13. ASSUME rattachement[v] = {q}
       PROVE  /\ p = n /\ q = n => Reel(n)' = Reel(n)
              /\ p = n /\ q # n => Reel(n)' = Reel(n) + 1
              /\ p # n /\ q = n => Reel(n)' = Reel(n) - 1
              /\ p # n /\ q # n => Reel(n)' = Reel(n)
  <2>1. ASSUME p = n <=> q = n PROVE Reel(n)' = Reel(n)
    <3>1. Rattachees(n)' = Rattachees(n)
      BY <1>2, <1>6, <1>13, <2>1 DEF Rattachees
    <3> QED
      BY <1>11, <3>1
  <2>2. ASSUME p = n, q # n PROVE Reel(n)' = Reel(n) + 1
    <3>1. Rattachees(n)' = Rattachees(n) \union {v} /\ v \notin Rattachees(n)
      BY <1>2, <1>6, <1>13, <2>2 DEF Rattachees
    <3>2. Cardinality(Rattachees(n) \union {v}) = Cardinality(Rattachees(n)) + 1
      BY <1>10, <3>1, FS_AddElement
    <3> QED
      BY <1>11, <3>1, <3>2
  <2>3. ASSUME p # n, q = n PROVE Reel(n)' = Reel(n) - 1
    <3>1. Rattachees(n)' = Rattachees(n) \ {v} /\ v \in Rattachees(n)
      BY <1>2, <1>6, <1>13, <2>3 DEF Rattachees
    <3>2. Cardinality(Rattachees(n) \ {v}) = Cardinality(Rattachees(n)) - 1
      BY <1>10, <3>1, FS_RemoveElement
    <3> QED
      BY <1>11, <3>1, <3>2
  <2> QED
    BY <2>1, <2>2, <2>3
<1>14. /\ Amont(n)' = Reel(n)' - Nombre(Total, Arrivees(n))' + Nombre(Total, Departs(n))'
       /\ Amont(n) = Reel(n) - Nombre(Total, Arrivees(n)) + Nombre(Total, Departs(n))
       /\ Reel(n) \in Nat /\ Nombre(Total, Arrivees(n)) \in Nat
       /\ Nombre(Total, Departs(n)) \in Nat
  BY AmontType DEF Amont
<1>15. Amont(n)' <= Amont(n) + 1
  BY <1>8, <1>9, <1>12, <1>14
<1>16. ASSUME rattachement[v] = {q} PROVE Amont(n)' = Amont(n)
  BY <1>8, <1>9, <1>13, <1>14, <1>16
<1> QED
  BY <1>7, <1>15, <1>16

LEMMA AmontRelayer ==
    ASSUME TypeOK, NEW k \in Nat, relayer(k), Marque(k), NEW n \in Noeuds
    PROVE  Amont(n)' = Amont(n)
<1>1. Reel(n)' = Reel(n)
  BY DEF relayer, referentialVars, Reel
<1> DEFINE S == Arrivees(n)
           T == Departs(n)
<1>2. S' = S /\ T' = T
  BY DEF Arrivees, Departs
<1>3. Amont(n) = Reel(n) - Nombre(Total, S) + Nombre(Total, T)
  BY DEF Amont
<1>4. Amont(n)' = Reel(n)' - Nombre(Total, S)' + Nombre(Total, T)'
  BY DEF Amont
<1> HIDE DEF S, T
<1>5. Nombre(Total, S)' = Nombre(Total, S) /\ Nombre(Total, T)' = Nombre(Total, T)
  BY NombrePassage
<1> QED
  BY <1>1, <1>3, <1>4, <1>5

(* A copy may take one ville more from its node than the ville moved.      *)
LEMMA AmontCopie ==
    ASSUME TypeOK, NEW k \in Nat, relayer(k), Copie(k), NEW n \in Noeuds
    PROVE  Amont(n)' \in Int /\ Amont(n)' <= Amont(n) + 1
<1>1. Reel(n)' = Reel(n)
  BY DEF relayer, referentialVars, Reel
<1> DEFINE S == Arrivees(n)
           T == Departs(n)
<1>2. S' = S /\ T' = T
  BY DEF Arrivees, Departs
<1>3. Amont(n) = Reel(n) - Nombre(Total, S) + Nombre(Total, T)
  BY DEF Amont
<1>4. Amont(n)' = Reel(n)' - Nombre(Total, S)' + Nombre(Total, T)'
  BY DEF Amont
<1>5. Reel(n) \in Nat /\ Nombre(Total, S) \in Nat /\ Nombre(Total, T) \in Nat
  BY AmontType
<1> HIDE DEF S, T
<1>6. /\ Nombre(Total, S)' \in {Nombre(Total, S), Nombre(Total, S) + 1}
      /\ Nombre(Total, T)' \in {Nombre(Total, T), Nombre(Total, T) + 1}
  BY NombreCopie
<1> QED
  BY <1>1, <1>3, <1>4, <1>5, <1>6

LEMMA AmontInchange ==
    ASSUME UNCHANGED <<rattachement, flux, outbox>>, NEW n
    PROVE  Amont(n)' = Amont(n) /\ Total' = Total /\ \A j : Journal(j)' = Journal(j)
<1>1. Total' = Total /\ (\A j : Journal(j)' = Journal(j)) /\ Reel(n)' = Reel(n)
  BY DEF Total, Journal, Reel
<1>2. \A S : Nombre(Total, S)' = Nombre(Total, S)
  BY <1>1 DEF Nombre, Avant
<1> QED
  BY <1>1, <1>2 DEF Amont, Arrivees, Departs

-----------------------------------------------------------------------------
(* What has happened to a node downstream: the acknowledged entries and    *)
(* those half handled, against its counter.  Surplus counts the claims on  *)
(* an entry beyond the one that will handle it: each may subtract once     *)
(* more than the event says.                                               *)
InvEtape ==
    /\ \A w \in Workers : lot[w] = {} => etape[w] = Reprise(w)
    /\ \A w \in Workers : w[2] = "lecture" => etape[w] # "reclamer"

Faits == (1..dernierLu) \ pending

Ajoutes == {i \in 1..dernierLu : \E w \in Workers : Tete(w, i, "xack")}

Arrives(n) == {i \in Faits \union Ajoutes : Journal(i) \in Arrivees(n)}

Partis(n) == {i \in Faits : Journal(i) \in Departs(n)}

Retire(w, i) == Tete(w, i, "incrementer") \/ Tete(w, i, "xack")

EnCours(n) == {w \in Workers : \E i \in lot[w] : Retire(w, i) /\ Journal(i) \in Departs(n)}

Aval(n) ==
    Cardinality(Arrives(n)) - Cardinality(Partis(n)) - Cardinality(EnCours(n)) - compteur[n]

Porte(w, i) ==
    /\ i \in lot[w]
    /\ w[2] = "lecture" \/ (etape[w] # "reclamer" /\ \A j \in lot[w] : i <= j)

Tient == {p \in Workers \X (1..dernierLu) : Porte(p[1], p[2])}

Couverts == {i \in pending : i \in idle \/ \E w \in Workers : Porte(w, i)}

Surplus == Cardinality(Tient) + Cardinality(idle) - Cardinality(Couverts)

LEMMA AvalFini ==
    ASSUME TypeOK, NEW n \in Noeuds
    PROVE  /\ IsFiniteSet(Arrives(n)) /\ Cardinality(Arrives(n)) \in Nat
           /\ IsFiniteSet(Partis(n)) /\ Cardinality(Partis(n)) \in Nat
           /\ IsFiniteSet(EnCours(n)) /\ Cardinality(EnCours(n)) \in Nat
           /\ compteur[n] \in Nat /\ Aval(n) \in Int
<1>1. IsFiniteSet(1..dernierLu) /\ IsFiniteSet(Workers)
  BY Longueurs, FS_Interval, Finitude
<1>2. /\ Arrives(n) \subseteq 1..dernierLu /\ Partis(n) \subseteq 1..dernierLu
      /\ EnCours(n) \subseteq Workers
  BY DEF Arrives, Partis, EnCours, Faits, Ajoutes
<1>3. /\ IsFiniteSet(Arrives(n)) /\ Cardinality(Arrives(n)) \in Nat
      /\ IsFiniteSet(Partis(n)) /\ Cardinality(Partis(n)) \in Nat
      /\ IsFiniteSet(EnCours(n)) /\ Cardinality(EnCours(n)) \in Nat
  BY <1>1, <1>2, SousEnsemble
<1>4. compteur[n] \in Nat
  BY DEF TypeOK
<1> QED
  BY <1>3, <1>4 DEF Aval

LEMMA SurplusFini ==
    ASSUME TypeOK
    PROVE  /\ IsFiniteSet(Tient) /\ Cardinality(Tient) \in Nat
           /\ IsFiniteSet(idle) /\ Cardinality(idle) \in Nat
           /\ IsFiniteSet(Couverts) /\ Cardinality(Couverts) \in Nat
           /\ Surplus \in Int
<1>1. IsFiniteSet(1..dernierLu) /\ IsFiniteSet(Workers)
  BY Longueurs, FS_Interval, Finitude
<1>2. IsFiniteSet(Workers \X (1..dernierLu))
  BY <1>1, FS_Product
<1>3. /\ Tient \subseteq Workers \X (1..dernierLu)
      /\ idle \subseteq 1..dernierLu /\ Couverts \subseteq 1..dernierLu
  BY DEF Tient, Couverts, TypeOK
<1> HIDE DEF Tient, Couverts
<1>4. /\ IsFiniteSet(Tient) /\ Cardinality(Tient) \in Nat
      /\ IsFiniteSet(idle) /\ Cardinality(idle) \in Nat
      /\ IsFiniteSet(Couverts) /\ Cardinality(Couverts) \in Nat
  BY <1>1, <1>2, <1>3, SousEnsemble
<1> QED
  BY <1>4 DEF Surplus

(* No entry is covered without a claim on it.                              *)
LEMMA SurplusPositif == ASSUME TypeOK PROVE 0 <= Surplus
<1> DEFINE U == {p[2] : p \in Tient}
           f == [p \in Tient |-> p[2]]
<1>1. f \in Surjection(Tient, U)
  BY DEF Surjection
<1>2. IsFiniteSet(U) /\ Cardinality(U) <= Cardinality(Tient)
  BY <1>1, SurplusFini, FS_Surjection
<1>3. Couverts \subseteq U \union idle
  <2> SUFFICES ASSUME NEW i \in Couverts, i \notin idle PROVE i \in U
    OBVIOUS
  <2>1. PICK w \in Workers : Porte(w, i)
    BY DEF Couverts
  <2>2. i \in 1..dernierLu
    BY DEF Couverts, TypeOK
  <2>3. <<w, i>> \in Tient
    BY <2>1, <2>2 DEF Tient
  <2> QED
    BY <2>3
<1>4. /\ IsFiniteSet(U \union idle)
      /\ Cardinality(U \union idle) = Cardinality(U) + Cardinality(idle) - Cardinality(U \intersect idle)
  BY <1>2, SurplusFini, FS_Union
<1>5. Cardinality(U \intersect idle) \in Nat /\ Cardinality(U) \in Nat
  BY <1>2, SousEnsemble
<1>6. Cardinality(Couverts) <= Cardinality(U \union idle)
  BY <1>3, <1>4, SousEnsemble
<1> HIDE DEF U
<1> QED
  BY <1>2, <1>4, <1>5, <1>6, SurplusFini DEF Surplus

(* A worker that leaves its entry, and one that goes on with it.           *)
LEMMA PasserPorte ==
    ASSUME TypeOK, InvEtape, NEW w \in Workers, NEW i, NEW s, Tete(w, i, s), Passer(w, i)
    PROVE  /\ \A v \in Workers : \A j : Porte(v, j)' <=> Porte(v, j) /\ ~(v = w /\ j = i)
           /\ \A v \in Workers : \A j : Tete(v, j, "xack")' <=> v # w /\ Tete(v, j, "xack")
           /\ \A v \in Workers : \A j : Retire(v, j)' <=> v # w /\ Retire(v, j)
           /\ s # "reclamer" => Porte(w, i)
           /\ s = "reclamer" => ~Porte(w, i)
<1>1. /\ lot' = [lot EXCEPT ![w] = @ \ {i}] /\ etape' = [etape EXCEPT ![w] = Reprise(w)]
      /\ i \in lot[w] /\ (\A j \in lot[w] : i <= j) /\ etape[w] = s
      /\ lot \in [Workers -> SUBSET (1..dernierLu)] /\ DOMAIN etape = Workers
      /\ dernierLu \in Nat
  BY Longueurs DEF Passer, Tete, TypeOK
<1>2. \A v \in Workers : v # w => lot'[v] = lot[v] /\ etape'[v] = etape[v]
  BY <1>1
<1>3. lot'[w] = lot[w] \ {i} /\ etape'[w] = Reprise(w)
  BY <1>1
<1>4. Reprise(w) # "xack" /\ Reprise(w) # "incrementer"
  BY DEF Reprise
<1>5. \A j : ~Tete(w, j, "xack")' /\ ~Retire(w, j)'
  BY <1>3, <1>4 DEF Tete, Retire
<1>6. ASSUME NEW v \in Workers, v # w, NEW j
      PROVE  /\ Tete(v, j, "xack")' <=> Tete(v, j, "xack")
             /\ Retire(v, j)' <=> Retire(v, j)
             /\ Porte(v, j)' <=> Porte(v, j)
  BY <1>2, <1>6 DEF Tete, Retire, Porte
<1>7. /\ \A j : Porte(w, j)' <=> Porte(w, j) /\ j # i
      /\ s # "reclamer" => Porte(w, i)
      /\ s = "reclamer" => ~Porte(w, i)
  <2>1. CASE w[2] = "lecture"
    BY <1>1, <1>3, <2>1 DEF Porte, InvEtape
  <2>2. CASE w[2] # "lecture"
    <3>1. Reprise(w) = "reclamer"
      BY <2>2 DEF Reprise
    <3>2. \A j : ~Porte(w, j)'
      BY <1>3, <2>2, <3>1 DEF Porte
    <3>3. \A j : Porte(w, j) => j = i
      <4> SUFFICES ASSUME NEW j, Porte(w, j) PROVE j = i
        OBVIOUS
      <4>1. j \in lot[w] /\ j <= i
        BY <1>1, <2>2 DEF Porte
      <4> QED
        BY <1>1, <4>1
    <3> QED
      BY <1>1, <2>2, <3>2, <3>3 DEF Porte
  <2> QED
    BY <2>1, <2>2
<1> QED
  BY <1>5, <1>6, <1>7

LEMMA AllerPorte ==
    ASSUME TypeOK, InvEtape, NEW w \in Workers, NEW i, NEW s, Tete(w, i, s),
           NEW t \in {"decrementer", "incrementer", "xack"}, Aller(w, t)
    PROVE  /\ s # "reclamer" => \A v \in Workers : \A j : Porte(v, j)' <=> Porte(v, j)
           /\ s = "reclamer" =>
                 /\ \A v \in Workers : \A j : Porte(v, j)' <=> Porte(v, j) \/ (v = w /\ j = i)
                 /\ ~Porte(w, i)
           /\ \A v \in Workers : \A j : v # w =>
                 /\ Tete(v, j, "xack")' <=> Tete(v, j, "xack")
                 /\ Retire(v, j)' <=> Retire(v, j)
           /\ \A j : Tete(w, j, "xack")' <=> j = i /\ t = "xack"
           /\ \A j : Retire(w, j)' <=> j = i /\ t # "decrementer"
           /\ \A j : Tete(w, j, "xack") <=> j = i /\ s = "xack"
           /\ \A j : Retire(w, j) <=> j = i /\ s \in {"incrementer", "xack"}
<1>1. /\ lot' = lot /\ etape' = [etape EXCEPT ![w] = t]
      /\ i \in lot[w] /\ (\A j \in lot[w] : i <= j) /\ etape[w] = s
      /\ lot \in [Workers -> SUBSET (1..dernierLu)] /\ DOMAIN etape = Workers
      /\ dernierLu \in Nat
  BY Longueurs DEF Aller, Tete, TypeOK
<1>2. \A v \in Workers : v # w => etape'[v] = etape[v]
  BY <1>1
<1>3. etape'[w] = t
  BY <1>1
<1>4. \A j : j \in lot[w] /\ (\A k \in lot[w] : j <= k) <=> j = i
  <2>1. \A j \in lot[w] : j \in Nat
    BY <1>1
  <2> QED
    BY <1>1, <2>1
<1>5. /\ \A j : Tete(w, j, "xack")' <=> j = i /\ t = "xack"
      /\ \A j : Retire(w, j)' <=> j = i /\ t # "decrementer"
      /\ \A j : Tete(w, j, "xack") <=> j = i /\ s = "xack"
      /\ \A j : Retire(w, j) <=> j = i /\ s \in {"incrementer", "xack"}
  BY <1>1, <1>3, <1>4 DEF Tete, Retire
<1>6. ASSUME NEW v \in Workers, v # w, NEW j
      PROVE  /\ Tete(v, j, "xack")' <=> Tete(v, j, "xack")
             /\ Retire(v, j)' <=> Retire(v, j)
             /\ Porte(v, j)' <=> Porte(v, j)
  BY <1>1, <1>2, <1>6 DEF Tete, Retire, Porte
<1>7. s # "reclamer" => \A j : Porte(w, j)' <=> Porte(w, j)
  BY <1>1, <1>3 DEF Porte
<1>8. s = "reclamer" => ~Porte(w, i) /\ \A j : Porte(w, j)' <=> Porte(w, j) \/ j = i
  <2> SUFFICES ASSUME s = "reclamer"
               PROVE  ~Porte(w, i) /\ \A j : Porte(w, j)' <=> Porte(w, j) \/ j = i
    OBVIOUS
  <2>1. w[2] # "lecture"
    BY <1>1 DEF InvEtape
  <2>2. \A j : ~Porte(w, j)
    BY <1>1, <2>1 DEF Porte
  <2>3. \A j : Porte(w, j)' <=> j = i
    BY <1>1, <1>3, <1>4, <2>1 DEF Porte
  <2> QED
    BY <2>2, <2>3
<1> QED
  BY <1>5, <1>6, <1>7, <1>8

LEMMA EtapeStep == TypeOK /\ InvEtape /\ [Next]_vars => InvEtape'
<1> SUFFICES ASSUME TypeOK, InvEtape, [Next]_vars PROVE InvEtape'
  OBVIOUS
<1>t. /\ lot \in [Workers -> SUBSET (1..dernierLu)]
      /\ etape \in [Workers -> {"reclamer", "decrementer", "incrementer", "xack"}]
      /\ \A w \in Workers : w[2] = "lecture" => Reprise(w) = "decrementer"
  BY DEF TypeOK, Reprise
<1>1. ASSUME UNCHANGED workerVars PROVE InvEtape'
  BY <1>1 DEF workerVars, InvEtape
<1>2. ASSUME NEW w \in Workers, \A v \in Workers : v # w => lot'[v] = lot[v], etape' = etape,
             lot[w] = {}
      PROVE  InvEtape'
  <2>1. \A v \in Workers : lot'[v] = {} => lot[v] = {}
    BY <1>2, <1>t
  <2> QED
    BY <1>2, <2>1 DEF InvEtape
<1>3. ASSUME NEW w \in Workers, NEW i, Passer(w, i) PROVE InvEtape'
  <2>1. \A v \in Workers : v # w => lot'[v] = lot[v] /\ etape'[v] = etape[v]
    BY <1>3, <1>t DEF Passer
  <2>2. etape'[w] = Reprise(w)
    BY <1>3, <1>t DEF Passer
  <2> QED
    BY <1>t, <2>1, <2>2 DEF InvEtape
<1>4. ASSUME NEW w \in Workers, NEW i, NEW s, Tete(w, i, s),
             NEW t \in {"decrementer", "incrementer", "xack"}, Aller(w, t)
      PROVE  InvEtape'
  <2>1. \A v \in Workers : v # w => etape'[v] = etape[v]
    BY <1>4, <1>t DEF Aller
  <2>2. etape'[w] = t /\ lot' = lot /\ lot[w] # {}
    BY <1>4, <1>t DEF Aller, Tete
  <2>3. \A v \in Workers : lot'[v] = {} => v # w
    BY <2>2
  <2> QED
    BY <1>4, <1>t, <2>1, <2>2, <2>3 DEF InvEtape
<1>5. ASSUME NEW x \in Instances, runReadLoop(x) PROVE InvEtape'
  <2> DEFINE w == Lecture(x)
  <2>0. w \in Workers
    BY Postes
  <2>1. lot[w] = {} /\ etape' = etape
        /\ \/ \E n : lot' = [lot EXCEPT ![w] = (dernierLu + 1)..n]
           \/ lot' = lot
    BY <1>5 DEF runReadLoop
  <2> HIDE DEF w
  <2>2. \A v \in Workers : v # w => lot'[v] = lot[v]
    <3>1. ASSUME NEW n, lot' = [lot EXCEPT ![w] = (dernierLu + 1)..n]
          PROVE  \A v \in Workers : v # w => lot'[v] = lot[v]
      <4> DEFINE S == (dernierLu + 1)..n
      <4> HIDE DEF S
      <4>1. lot' = [lot EXCEPT ![w] = S]
        BY <3>1 DEF S
      <4> QED
        BY <1>t, <4>1
    <3> QED
      BY <2>1, <3>1
  <2> QED
    BY <1>2, <2>0, <2>1, <2>2
<1>6. ASSUME NEW c \in Cycles, runClaimCycle(c) PROVE InvEtape'
  <2>1. c \in Workers /\ lot[c] = {} /\ etape' = etape /\ \E S : lot' = [lot EXCEPT ![c] = S]
    BY <1>6, Postes DEF runClaimCycle
  <2>2. \A v \in Workers : v # c => lot'[v] = lot[v]
    BY <1>t, <2>1
  <2> QED
    BY <1>2, <2>1, <2>2
<1>7. ASSUME NEW w \in Workers, NEW i \in Positions, xclaim(w, i) PROVE InvEtape'
  BY <1>7, <1>3, <1>4 DEF xclaim
<1>8. ASSUME NEW w \in Workers, NEW i \in Positions,
             decrementer(w, i) \/ incrementer(w, i) \/ acquitter(w, i) \/ handleMessageEchoue(w, i)
      PROVE  InvEtape'
  BY <1>8, <1>3, <1>4 DEF decrementer, incrementer, acquitter, handleMessageEchoue
<1>9. ASSUME NEW x \in Instances, onModuleDestroy(x) PROVE InvEtape'
  <2>1. \A w \in Workers : /\ lot'[w] = IF w[1] = x THEN {} ELSE lot[w]
                           /\ etape'[w] = IF w[1] = x THEN Reprise(w) ELSE etape[w]
    BY <1>9 DEF onModuleDestroy
  <2> QED
    BY <1>t, <2>1 DEF InvEtape
<1>10. ASSUME NEW v \in Villes, NEW n \in Places, createVille(v, n) PROVE InvEtape'
  BY <1>1, <1>10 DEF createVille
<1>11. ASSUME NEW d \in Deplacements, NEW v \in Villes, NEW n \in Places, moveVille(d, v, n)
       PROVE  InvEtape'
  BY <1>1, <1>11 DEF moveVille
<1>12. ASSUME NEW d \in Deplacements, moveVilleCommit(d) PROVE InvEtape'
  BY <1>1, <1>12 DEF moveVilleCommit
<1>13. ASSUME NEW k \in 1..MaxFlux, relayer(k) PROVE InvEtape'
  BY <1>1, <1>13 DEF relayer
<1>14. ASSUME NEW i \in Positions, Vieillir(i) PROVE InvEtape'
  BY <1>1, <1>14 DEF Vieillir
<1>15. ASSUME UNCHANGED vars PROVE InvEtape'
  BY <1>1, <1>15 DEF vars
<1> QED
  BY <1>5, <1>6, <1>7, <1>8, <1>9, <1>10, <1>11, <1>12, <1>13, <1>14, <1>15
     DEF Next, WorkerStep

(* A worker gives up a claim, acknowledging its entry or not.              *)
LEMMA SurplusPasser ==
    ASSUME TypeOK, InvEtape, NEW w \in Workers, NEW i, NEW s \in {"decrementer", "incrementer", "xack"},
           Tete(w, i, s), Passer(w, i), UNCHANGED dernierLu,
           xack(i) \/ UNCHANGED <<pending, idle>>
    PROVE  /\ Surplus' \in Int /\ Surplus' <= Surplus
           /\ i \notin pending => Surplus' <= Surplus - 1
           /\ i \in pending /\ i \notin idle /\ xack(i)
                 /\ (\A v \in Workers : Porte(v, i) => v = w) => Surplus' = Surplus
<1>1. \A v \in Workers : \A j : Porte(v, j)' <=> Porte(v, j) /\ ~(v = w /\ j = i)
  BY PasserPorte
<1>2. Porte(w, i) /\ i \in 1..dernierLu
  BY PasserPorte DEF Tete, TypeOK
<1>3. Tient' = Tient \ {<<w, i>>} /\ <<w, i>> \in Tient
  BY <1>1, <1>2 DEF Tient
<1>4. Cardinality(Tient') = Cardinality(Tient) - 1 /\ Cardinality(Tient') \in Nat
  BY <1>3, SurplusFini, FS_RemoveElement, FS_CardinalityType
<1>5. idle' \subseteq idle
  BY DEF xack
<1>6. Cardinality(idle') \in Nat /\ Cardinality(idle') <= Cardinality(idle)
  BY <1>5, SurplusFini, SousEnsemble
<1>7. Couverts' \subseteq Couverts /\ Couverts \ {i} \subseteq Couverts'
  BY <1>1, <1>5 DEF Couverts, xack
<1>8. /\ Cardinality(Couverts') \in Nat
      /\ Cardinality(Couverts \ {i}) <= Cardinality(Couverts')
      /\ Cardinality(Couverts \ {i}) \in Nat
  BY <1>7, SurplusFini, SousEnsemble
<1>9. Cardinality(Couverts \ {i}) = IF i \in Couverts THEN Cardinality(Couverts) - 1
                                                     ELSE Cardinality(Couverts)
  BY SurplusFini, FS_RemoveElement
<1>10. i \notin pending => i \notin Couverts
  BY DEF Couverts
<1>11. Surplus' = Cardinality(Tient') + Cardinality(idle') - Cardinality(Couverts')
  BY DEF Surplus
<1>12. Surplus = Cardinality(Tient) + Cardinality(idle) - Cardinality(Couverts)
  BY DEF Surplus
<1>13. ASSUME i \in pending, i \notin idle, xack(i), \A v \in Workers : Porte(v, i) => v = w
       PROVE  Surplus' = Surplus
  <2>1. idle' = idle /\ i \in Couverts /\ i \notin Couverts'
    BY <1>1, <1>2, <1>13 DEF xack, Couverts
  <2>2. Couverts' = Couverts \ {i}
    BY <1>7, <2>1
  <2> QED
    BY <1>4, <1>9, <1>11, <1>12, <2>1, <2>2, SurplusFini
<1> QED
  BY <1>4, <1>6, <1>8, <1>9, <1>10, <1>11, <1>12, <1>13, SurplusFini

(* The events of a node do not change while the journal does not.          *)
LEMMA JournalInchange ==
    ASSUME UNCHANGED <<flux, outbox>>, NEW n, NEW i
    PROVE  /\ (Journal(i) \in Departs(n))' <=> Journal(i) \in Departs(n)
           /\ (Journal(i) \in Arrivees(n))' <=> Journal(i) \in Arrivees(n)
  BY DEF Journal, Departs, Arrivees

LEMMA EnCoursPasser ==
    ASSUME TypeOK, InvEtape, NEW w \in Workers, NEW i, NEW s, Tete(w, i, s), Passer(w, i),
           UNCHANGED <<flux, outbox>>, NEW n \in Noeuds
    PROVE  /\ EnCours(n)' = EnCours(n) \ {w}
           /\ w \in EnCours(n) <=> s \in {"incrementer", "xack"} /\ Journal(i) \in Departs(n)
           /\ Cardinality(EnCours(n)') = IF w \in EnCours(n) THEN Cardinality(EnCours(n)) - 1
                                                            ELSE Cardinality(EnCours(n))
<1>1. \A v \in Workers : \A j : Retire(v, j)' <=> v # w /\ Retire(v, j)
  BY PasserPorte
<1>2. \A v \in Workers : \A j : Retire(v, j) => j \in lot[v]
  BY DEF Retire, Tete
<1>3. \A v \in Workers : \A j : Retire(v, j)' => j \in lot'[v]
  BY DEF Retire, Tete
<1>4. \A j : (Journal(j) \in Departs(n))' <=> Journal(j) \in Departs(n)
  BY JournalInchange
<1>5. EnCours(n)' = {v \in Workers : \E j \in lot'[v] : Retire(v, j)' /\ (Journal(j) \in Departs(n))'}
  BY DEF EnCours
<1>6. EnCours(n)' = EnCours(n) \ {w}
  BY <1>1, <1>2, <1>3, <1>4, <1>5 DEF EnCours
<1>7. \A j \in lot[w] : Retire(w, j) <=> j = i /\ s \in {"incrementer", "xack"}
  <2>1. /\ i \in lot[w] /\ (\A j \in lot[w] : i <= j) /\ etape[w] = s
        /\ \A j \in lot[w] : j \in Nat
    BY Longueurs DEF Tete, TypeOK
  <2> QED
    BY <2>1 DEF Retire, Tete
<1>8. w \in EnCours(n) <=> s \in {"incrementer", "xack"} /\ Journal(i) \in Departs(n)
  BY <1>7 DEF EnCours, Tete
<1>9. Cardinality(EnCours(n) \ {w}) = IF w \in EnCours(n) THEN Cardinality(EnCours(n)) - 1
                                                         ELSE Cardinality(EnCours(n))
  BY AvalFini, FS_RemoveElement
<1> QED
  BY <1>6, <1>8, <1>9

LEMMA AvalEgal ==
    ASSUME NEW n
    PROVE  /\ Aval(n)' = Cardinality(Arrives(n)') - Cardinality(Partis(n)')
                         - Cardinality(EnCours(n)') - compteur'[n]
           /\ Aval(n) = Cardinality(Arrives(n)) - Cardinality(Partis(n))
                        - Cardinality(EnCours(n)) - compteur[n]
  BY DEF Aval

(* The entry of a worker is put back, or acknowledged.                     *)
LEMMA AvalRendre ==
    ASSUME TypeOK, InvEtape, NEW w \in Workers, NEW i, NEW s, Tete(w, i, s), Passer(w, i),
           UNCHANGED <<flux, outbox, dernierLu, pending>>, NEW n \in Noeuds
    PROVE  /\ Cardinality(Arrives(n)') \in Nat
           /\ Cardinality(Arrives(n)') <= Cardinality(Arrives(n))
           /\ Partis(n)' = Partis(n)
<1>1. \A v \in Workers : \A j : Tete(v, j, "xack")' => Tete(v, j, "xack")
  BY PasserPorte
<1>2. \A j : (Journal(j) \in Departs(n))' <=> Journal(j) \in Departs(n)
  BY JournalInchange
<1>3. \A j : (Journal(j) \in Arrivees(n))' <=> Journal(j) \in Arrivees(n)
  BY JournalInchange
<1>4. Faits' = Faits
  BY DEF Faits
<1>5. Ajoutes' \subseteq Ajoutes
  BY <1>1 DEF Ajoutes
<1>6. Arrives(n)' = {j \in Faits' \union Ajoutes' : (Journal(j) \in Arrivees(n))'}
  BY DEF Arrives
<1>7. Arrives(n)' \subseteq Arrives(n)
  BY <1>3, <1>4, <1>5, <1>6 DEF Arrives
<1>8. Partis(n)' = {j \in Faits' : (Journal(j) \in Departs(n))'}
  BY DEF Partis
<1>9. Partis(n)' = Partis(n)
  BY <1>2, <1>4, <1>8 DEF Partis
<1> QED
  BY <1>7, <1>9, AvalFini, SousEnsemble

LEMMA AvalXack ==
    ASSUME TypeOK, InvEtape, NEW w \in Workers, NEW i, Tete(w, i, "xack"), Passer(w, i), xack(i),
           UNCHANGED <<flux, outbox, dernierLu, compteur>>, NEW n \in Noeuds
    PROVE  /\ Aval(n)' \in Int /\ Aval(n)' <= Aval(n) + 1
           /\ i \in pending => Aval(n)' = Aval(n)
<1>1. \A v \in Workers : \A j : Tete(v, j, "xack")' <=> v # w /\ Tete(v, j, "xack")
  BY PasserPorte
<1>2. \A j : (Journal(j) \in Departs(n))' <=> Journal(j) \in Departs(n)
  BY JournalInchange
<1>3. \A j : (Journal(j) \in Arrivees(n))' <=> Journal(j) \in Arrivees(n)
  BY JournalInchange
<1>4. i \in 1..dernierLu /\ Faits' = Faits \union {i}
  BY DEF Faits, xack, Tete, TypeOK
<1>5. \A j : Tete(w, j, "xack") => j = i
  <2>1. i \in lot[w] /\ (\A j \in lot[w] : i <= j) /\ \A j \in lot[w] : j \in Nat
    BY Longueurs DEF Tete, TypeOK
  <2> QED
    BY <2>1 DEF Tete
<1>6. Faits' \union Ajoutes' = Faits \union Ajoutes
  BY <1>1, <1>4, <1>5 DEF Ajoutes
<1>7. Arrives(n)' = {j \in Faits' \union Ajoutes' : (Journal(j) \in Arrivees(n))'}
  BY DEF Arrives
<1>8. Arrives(n)' = Arrives(n)
  BY <1>3, <1>6, <1>7 DEF Arrives
<1>9. Partis(n)' = {j \in Faits' : (Journal(j) \in Departs(n))'}
  BY DEF Partis
<1>10. Partis(n)' = IF Journal(i) \in Departs(n) THEN Partis(n) \union {i} ELSE Partis(n)
  BY <1>2, <1>4, <1>9 DEF Partis
<1>11. Journal(i) \in Departs(n) => (i \in Partis(n) <=> i \notin pending)
  BY <1>4 DEF Partis, Faits
<1>12. Cardinality(Partis(n) \union {i}) = IF i \in Partis(n) THEN Cardinality(Partis(n))
                                           ELSE Cardinality(Partis(n)) + 1
  BY AvalFini, FS_AddElement
<1>13. /\ w \in EnCours(n) <=> Journal(i) \in Departs(n)
       /\ Cardinality(EnCours(n)') = IF w \in EnCours(n) THEN Cardinality(EnCours(n)) - 1
                                                         ELSE Cardinality(EnCours(n))
  BY EnCoursPasser
<1>14. CASE Journal(i) \in Departs(n) /\ i \in pending
  <2>1. /\ Cardinality(Arrives(n)') = Cardinality(Arrives(n))
        /\ Cardinality(Partis(n)') = Cardinality(Partis(n)) + 1
        /\ Cardinality(EnCours(n)') = Cardinality(EnCours(n)) - 1
    BY <1>8, <1>10, <1>11, <1>12, <1>13, <1>14
  <2> QED
    BY <1>14, <2>1, AvalEgal, AvalFini
<1>15. CASE Journal(i) \in Departs(n) /\ i \notin pending
  <2>1. /\ Cardinality(Arrives(n)') = Cardinality(Arrives(n))
        /\ Cardinality(Partis(n)') = Cardinality(Partis(n))
        /\ Cardinality(EnCours(n)') = Cardinality(EnCours(n)) - 1
    BY <1>8, <1>10, <1>11, <1>12, <1>13, <1>15
  <2> QED
    BY <1>15, <2>1, AvalEgal, AvalFini
<1>16. CASE Journal(i) \notin Departs(n)
  <2>1. /\ Cardinality(Arrives(n)') = Cardinality(Arrives(n))
        /\ Cardinality(Partis(n)') = Cardinality(Partis(n))
        /\ Cardinality(EnCours(n)') = Cardinality(EnCours(n))
    BY <1>8, <1>10, <1>13, <1>16
  <2> QED
    BY <1>16, <2>1, AvalEgal, AvalFini
<1> QED
  BY <1>14, <1>15, <1>16

LEMMA AcquitterBilan ==
    ASSUME TypeOK, InvEtape, NEW w \in Workers, NEW i, Tete(w, i, "xack"), Passer(w, i), xack(i),
           UNCHANGED <<flux, outbox, dernierLu, compteur>>, NEW n \in Noeuds
    PROVE  Aval(n)' + Surplus' <= Aval(n) + Surplus /\ Aval(n)' \in Int /\ Surplus' \in Int
<1>1. /\ Surplus' \in Int /\ Surplus' <= Surplus
      /\ i \notin pending => Surplus' <= Surplus - 1
  BY SurplusPasser
<1>2. /\ Aval(n)' \in Int /\ Aval(n)' <= Aval(n) + 1
      /\ i \in pending => Aval(n)' = Aval(n)
  BY AvalXack
<1>3. Aval(n) \in Int /\ Surplus \in Int
  BY AvalFini, SurplusFini
<1> QED
  BY <1>1, <1>2, <1>3

LEMMA DecrementFait ==
    ASSUME TypeOK, NEW i \in 1..dernierLu, NEW n \in Noeuds, Decrement(flux[i][1])
    PROVE  /\ compteur'[n] \in Nat /\ compteur[n] \in Nat
           /\ compteur'[n] = IF Journal(i) \in Departs(n) /\ compteur[n] > 0
                             THEN compteur[n] - 1 ELSE compteur[n]
<1>1. Journal(i) = flux[i] /\ Journal(i) \in Evenements
  BY Longueurs
<1>2. Journal(i) \in Departs(n) <=> flux[i][1] = n
  BY <1>1 DEF Departs
<1>3. compteur[n] \in Nat
  BY DEF TypeOK
<1>4. compteur'[n] = IF n = flux[i][1] /\ compteur[n] > 0 THEN compteur[n] - 1 ELSE compteur[n]
  BY DEF Decrement
<1> QED
  BY <1>2, <1>3, <1>4

LEMMA IncrementFait ==
    ASSUME TypeOK, NEW i \in 1..dernierLu, NEW n \in Noeuds, Increment(flux[i][2])
    PROVE  /\ compteur'[n] \in Nat /\ compteur[n] \in Nat
           /\ compteur'[n] = IF Journal(i) \in Arrivees(n) THEN compteur[n] + 1 ELSE compteur[n]
<1>1. Journal(i) = flux[i] /\ Journal(i) \in Evenements
  BY Longueurs
<1>2. Journal(i) \in Arrivees(n) <=> flux[i][2] = n
  BY <1>1 DEF Arrivees
<1>3. compteur[n] \in Nat
  BY DEF TypeOK
<1>4. compteur'[n] = IF n = flux[i][2] THEN compteur[n] + 1 ELSE compteur[n]
  BY DEF Increment
<1> QED
  BY <1>2, <1>3, <1>4

(* A call fails, applied or not: at most one subtraction too many.         *)
LEMMA EchoueBilan ==
    ASSUME TypeOK, InvEtape, NEW w \in Workers, NEW i, handleMessageEchoue(w, i), NEW n \in Noeuds
    PROVE  Aval(n)' + Surplus' <= Aval(n) + Surplus + 1 /\ Aval(n)' \in Int /\ Surplus' \in Int
<1>1. Passer(w, i) /\ UNCHANGED <<flux, outbox, dernierLu>>
  BY DEF handleMessageEchoue
<1>2. Aval(n) \in Int /\ Surplus \in Int
  BY AvalFini, SurplusFini
<1>3. ASSUME NEW s \in {"decrementer", "incrementer", "xack"}, Tete(w, i, s),
             UNCHANGED <<pending, idle>>,
             compteur'[n] \in Nat,
             compteur'[n] >= compteur[n] - (IF s = "decrementer" THEN 1 ELSE 0)
      PROVE  Aval(n)' + Surplus' <= Aval(n) + Surplus + 1 /\ Aval(n)' \in Int /\ Surplus' \in Int
  <2>1. Surplus' \in Int /\ Surplus' <= Surplus
    BY <1>1, <1>3, SurplusPasser
  <2>2. /\ Cardinality(Arrives(n)') \in Nat
        /\ Cardinality(Arrives(n)') <= Cardinality(Arrives(n))
        /\ Partis(n)' = Partis(n)
    BY <1>1, <1>3, AvalRendre
  <2>3. /\ w \in EnCours(n) <=> s \in {"incrementer", "xack"} /\ Journal(i) \in Departs(n)
        /\ Cardinality(EnCours(n)') = IF w \in EnCours(n) THEN Cardinality(EnCours(n)) - 1
                                                          ELSE Cardinality(EnCours(n))
    BY <1>1, <1>3, EnCoursPasser
  <2>4. Aval(n)' \in Int /\ Aval(n)' <= Aval(n) + 1
    <3>1. CASE s = "decrementer"
      BY <1>3, <2>2, <2>3, <3>1, AvalEgal, AvalFini
    <3>2. CASE s # "decrementer"
      BY <1>3, <2>2, <2>3, <3>2, AvalEgal, AvalFini
    <3> QED
      BY <3>1, <3>2
  <2> QED
    BY <1>2, <2>1, <2>4
<1>4. \A s : Tete(w, i, s) => i \in 1..dernierLu
  BY DEF Tete, TypeOK
<1>5. compteur[n] \in Nat
  BY DEF TypeOK
<1>6. CASE Tete(w, i, "decrementer") /\ UNCHANGED <<pending, idle>>
           /\ (Decrement(flux[i][1]) \/ UNCHANGED compteur)
  <2>1. compteur'[n] \in Nat /\ compteur'[n] >= compteur[n] - 1
    BY <1>4, <1>5, <1>6, DecrementFait
  <2> QED
    BY <1>3, <1>6, <2>1
<1>7. CASE Tete(w, i, "incrementer") /\ UNCHANGED <<pending, idle>>
           /\ (Increment(flux[i][2]) \/ UNCHANGED compteur)
  <2>1. compteur'[n] \in Nat /\ compteur'[n] >= compteur[n]
    BY <1>4, <1>5, <1>7, IncrementFait
  <2>2. compteur'[n] >= compteur[n] - 0
    BY <1>5, <2>1
  <2> QED
    BY <1>3, <1>7, <2>1, <2>2
<1>8. CASE Tete(w, i, "xack") /\ UNCHANGED compteur /\ UNCHANGED <<pending, idle>>
  <2>1. compteur'[n] \in Nat /\ compteur'[n] >= compteur[n] - 0
    BY <1>5, <1>8
  <2> QED
    BY <1>3, <1>8, <2>1
<1>9. CASE Tete(w, i, "xack") /\ UNCHANGED compteur /\ xack(i)
  BY <1>1, <1>2, <1>9, AcquitterBilan
<1> QED
  BY <1>6, <1>7, <1>8, <1>9 DEF handleMessageEchoue

LEMMA SurplusInchange ==
    ASSUME TypeOK, UNCHANGED <<pending, idle, dernierLu>>,
           \A v \in Workers : \A j : Porte(v, j)' <=> Porte(v, j)
    PROVE  Surplus' = Surplus
<1>1. Tient' = Tient
  BY DEF Tient
<1>2. Couverts' = Couverts
  BY DEF Couverts
<1> QED
  BY <1>1, <1>2 DEF Surplus

LEMMA DecrementerBilan ==
    ASSUME TypeOK, InvEtape, NEW w \in Workers, NEW i, decrementer(w, i), NEW n \in Noeuds
    PROVE  /\ Surplus' = Surplus
           /\ Aval(n)' \in Int /\ Aval(n)' <= Aval(n)
           /\ (Journal(i) \in Departs(n) => compteur[n] > 0) => Aval(n)' = Aval(n)
<1>1. /\ Tete(w, i, "decrementer") /\ Aller(w, "incrementer") /\ Decrement(flux[i][1])
      /\ UNCHANGED <<flux, outbox, dernierLu, pending, idle>>
  BY DEF decrementer, groupVars
<1> DEFINE t == "incrementer"
<1>2. /\ \A v \in Workers : \A j : Porte(v, j)' <=> Porte(v, j)
      /\ \A v \in Workers : \A j : v # w =>
            /\ Tete(v, j, "xack")' <=> Tete(v, j, "xack")
            /\ Retire(v, j)' <=> Retire(v, j)
      /\ \A j : ~Tete(w, j, "xack")' /\ ~Tete(w, j, "xack") /\ ~Retire(w, j)
      /\ \A j : Retire(w, j)' <=> j = i
  BY <1>1, AllerPorte
<1>3. Surplus' = Surplus
  BY <1>1, <1>2, SurplusInchange
<1>4. \A j : (Journal(j) \in Departs(n))' <=> Journal(j) \in Departs(n)
  BY <1>1, JournalInchange
<1>5. \A j : (Journal(j) \in Arrivees(n))' <=> Journal(j) \in Arrivees(n)
  BY <1>1, JournalInchange
<1>6. Faits' = Faits /\ Ajoutes' = Ajoutes
  BY <1>1, <1>2 DEF Faits, Ajoutes
<1>7. Arrives(n)' = {j \in Faits' \union Ajoutes' : (Journal(j) \in Arrivees(n))'}
  BY DEF Arrives
<1>8. Partis(n)' = {j \in Faits' : (Journal(j) \in Departs(n))'}
  BY DEF Partis
<1>9. Arrives(n)' = Arrives(n) /\ Partis(n)' = Partis(n)
  BY <1>4, <1>5, <1>6, <1>7, <1>8 DEF Arrives, Partis
<1>10. EnCours(n)' = {v \in Workers : \E j \in lot'[v] : Retire(v, j)' /\ (Journal(j) \in Departs(n))'}
  BY DEF EnCours
<1>11. lot' = lot /\ i \in lot[w] /\ i \in 1..dernierLu
  BY <1>1 DEF Aller, Tete, TypeOK
<1>12. w \notin EnCours(n)
  BY <1>2 DEF EnCours
<1>13. EnCours(n)' = IF Journal(i) \in Departs(n) THEN EnCours(n) \union {w} ELSE EnCours(n)
  <2>1. \A v \in Workers : v # w => (v \in EnCours(n)' <=> v \in EnCours(n))
    BY <1>2, <1>4, <1>10, <1>11 DEF EnCours
  <2>2. w \in EnCours(n)' <=> Journal(i) \in Departs(n)
    BY <1>2, <1>4, <1>10, <1>11
  <2>3. EnCours(n) \subseteq Workers /\ EnCours(n)' \subseteq Workers
    BY <1>10 DEF EnCours
  <2> QED
    BY <1>12, <2>1, <2>2, <2>3
<1>14. Cardinality(EnCours(n)') = IF Journal(i) \in Departs(n) THEN Cardinality(EnCours(n)) + 1
                                                               ELSE Cardinality(EnCours(n))
  BY <1>12, <1>13, AvalFini, FS_AddElement
<1>15. /\ compteur'[n] \in Nat /\ compteur[n] \in Nat
       /\ compteur'[n] = IF Journal(i) \in Departs(n) /\ compteur[n] > 0
                         THEN compteur[n] - 1 ELSE compteur[n]
  BY <1>1, <1>11, DecrementFait
<1>16. /\ Cardinality(Arrives(n)') = Cardinality(Arrives(n))
       /\ Cardinality(Partis(n)') = Cardinality(Partis(n))
  BY <1>9
<1>17. /\ Aval(n)' \in Int /\ Aval(n)' <= Aval(n)
       /\ (Journal(i) \in Departs(n) => compteur[n] > 0) => Aval(n)' = Aval(n)
  <2>1. CASE Journal(i) \in Departs(n)
    BY <1>14, <1>15, <1>16, <2>1, AvalEgal, AvalFini
  <2>2. CASE Journal(i) \notin Departs(n)
    BY <1>14, <1>15, <1>16, <2>2, AvalEgal, AvalFini
  <2> QED
    BY <2>1, <2>2
<1> QED
  BY <1>3, <1>17

LEMMA IncrementerBilan ==
    ASSUME TypeOK, InvEtape, NEW w \in Workers, NEW i, incrementer(w, i), NEW n \in Noeuds
    PROVE  /\ Surplus' = Surplus
           /\ Aval(n)' \in Int /\ Aval(n)' <= Aval(n)
           /\ i \notin Faits \union Ajoutes => Aval(n)' = Aval(n)
<1>1. /\ Tete(w, i, "incrementer") /\ Aller(w, "xack") /\ Increment(flux[i][2])
      /\ UNCHANGED <<flux, outbox, dernierLu, pending, idle>>
  BY DEF incrementer, groupVars
<1>2. /\ \A v \in Workers : \A j : Porte(v, j)' <=> Porte(v, j)
      /\ \A v \in Workers : \A j : v # w =>
            /\ Tete(v, j, "xack")' <=> Tete(v, j, "xack")
            /\ Retire(v, j)' <=> Retire(v, j)
      /\ \A j : Tete(w, j, "xack")' <=> j = i
      /\ \A j : ~Tete(w, j, "xack")
      /\ \A j : Retire(w, j) <=> j = i
      /\ \A j : Retire(w, j)' <=> j = i
  BY <1>1, AllerPorte
<1>3. Surplus' = Surplus
  BY <1>1, <1>2, SurplusInchange
<1>4. \A j : (Journal(j) \in Departs(n))' <=> Journal(j) \in Departs(n)
  BY <1>1, JournalInchange
<1>5. \A j : (Journal(j) \in Arrivees(n))' <=> Journal(j) \in Arrivees(n)
  BY <1>1, JournalInchange
<1>6. lot' = lot /\ i \in lot[w] /\ i \in 1..dernierLu
  BY <1>1 DEF Aller, Tete, TypeOK
<1>7. Faits' = Faits /\ Ajoutes' = Ajoutes \union {i}
  BY <1>1, <1>2, <1>6 DEF Faits, Ajoutes
<1>8. Arrives(n)' = {j \in Faits' \union Ajoutes' : (Journal(j) \in Arrivees(n))'}
  BY DEF Arrives
<1>9. Partis(n)' = {j \in Faits' : (Journal(j) \in Departs(n))'}
  BY DEF Partis
<1>10. Partis(n)' = Partis(n)
  BY <1>4, <1>7, <1>9 DEF Partis
<1>11. Arrives(n)' = IF Journal(i) \in Arrivees(n) THEN Arrives(n) \union {i} ELSE Arrives(n)
  BY <1>5, <1>7, <1>8 DEF Arrives
<1>12. EnCours(n)' = {v \in Workers : \E j \in lot'[v] : Retire(v, j)' /\ (Journal(j) \in Departs(n))'}
  BY DEF EnCours
<1>13. \A v \in Workers : \A j : Retire(v, j)' <=> Retire(v, j)
  BY <1>2
<1>14. EnCours(n)' = EnCours(n)
  BY <1>4, <1>6, <1>12, <1>13 DEF EnCours
<1>15. Cardinality(Arrives(n) \union {i}) = IF i \in Arrives(n) THEN Cardinality(Arrives(n))
                                                              ELSE Cardinality(Arrives(n)) + 1
  BY AvalFini, FS_AddElement
<1>16. /\ compteur'[n] \in Nat /\ compteur[n] \in Nat
       /\ compteur'[n] = IF Journal(i) \in Arrivees(n) THEN compteur[n] + 1 ELSE compteur[n]
  BY <1>1, <1>6, IncrementFait
<1>17. i \notin Faits \union Ajoutes => i \notin Arrives(n)
  BY DEF Arrives
<1>18. /\ Cardinality(Partis(n)') = Cardinality(Partis(n))
       /\ Cardinality(EnCours(n)') = Cardinality(EnCours(n))
  BY <1>10, <1>14
<1>19. /\ Aval(n)' \in Int /\ Aval(n)' <= Aval(n)
       /\ i \notin Faits \union Ajoutes => Aval(n)' = Aval(n)
  <2>1. CASE Journal(i) \in Arrivees(n)
    <3>1. Cardinality(Arrives(n)') = IF i \in Arrives(n) THEN Cardinality(Arrives(n))
                                                         ELSE Cardinality(Arrives(n)) + 1
      BY <1>11, <1>15, <2>1
    <3> QED
      BY <1>16, <1>17, <1>18, <2>1, <3>1, AvalEgal, AvalFini
  <2>2. CASE Journal(i) \notin Arrivees(n)
    <3>1. Cardinality(Arrives(n)') = Cardinality(Arrives(n))
      BY <1>11, <2>2
    <3> QED
      BY <1>16, <1>18, <2>2, <3>1, AvalEgal, AvalFini
  <2> QED
    BY <2>1, <2>2
<1> QED
  BY <1>3, <1>19

(* The steps that touch neither a handled entry nor the counter.           *)
LEMMA AvalInchange ==
    ASSUME TypeOK, UNCHANGED <<flux, outbox, dernierLu, pending, compteur>>, NEW n \in Noeuds,
           \A v \in Workers : \A j : /\ Tete(v, j, "xack")' <=> Tete(v, j, "xack")
                                     /\ Retire(v, j)' <=> Retire(v, j)
    PROVE  Aval(n)' = Aval(n)
<1>1. \A j : (Journal(j) \in Departs(n))' <=> Journal(j) \in Departs(n)
  BY JournalInchange
<1>2. \A j : (Journal(j) \in Arrivees(n))' <=> Journal(j) \in Arrivees(n)
  BY JournalInchange
<1>3. Faits' = Faits /\ Ajoutes' = Ajoutes
  BY DEF Faits, Ajoutes
<1>4. Arrives(n)' = {j \in Faits' \union Ajoutes' : (Journal(j) \in Arrivees(n))'}
  BY DEF Arrives
<1>5. Partis(n)' = {j \in Faits' : (Journal(j) \in Departs(n))'}
  BY DEF Partis
<1>6. EnCours(n)' = {v \in Workers : \E j \in lot'[v] : Retire(v, j)' /\ (Journal(j) \in Departs(n))'}
  BY DEF EnCours
<1>7. Arrives(n)' = Arrives(n) /\ Partis(n)' = Partis(n)
  BY <1>1, <1>2, <1>3, <1>4, <1>5 DEF Arrives, Partis
<1>8. /\ \A v \in Workers : \A j : Retire(v, j) => j \in lot[v]
      /\ \A v \in Workers : \A j : Retire(v, j)' => j \in lot'[v]
  BY DEF Retire, Tete
<1>9. EnCours(n)' = EnCours(n)
  BY <1>1, <1>6, <1>8 DEF EnCours
<1> QED
  BY <1>7, <1>9, AvalEgal

LEMMA XclaimBilan ==
    ASSUME TypeOK, InvEtape, NEW w \in Workers, NEW i, xclaim(w, i), NEW n \in Noeuds
    PROVE  /\ Aval(n)' = Aval(n)
           /\ Surplus' \in Int /\ Surplus' <= Surplus
<1>1. /\ Tete(w, i, "reclamer")
      /\ UNCHANGED <<flux, outbox, dernierLu, pending, compteur>>
  BY DEF xclaim
<1>2. CASE i \in idle
  <2>1. idle' = idle \ {i} /\ Aller(w, "decrementer")
    BY <1>2 DEF xclaim
  <2>2. /\ \A v \in Workers : \A j : Porte(v, j)' <=> Porte(v, j) \/ (v = w /\ j = i)
        /\ ~Porte(w, i)
        /\ \A v \in Workers : \A j : v # w =>
              /\ Tete(v, j, "xack")' <=> Tete(v, j, "xack")
              /\ Retire(v, j)' <=> Retire(v, j)
        /\ \A j : ~Tete(w, j, "xack")' /\ ~Tete(w, j, "xack")
        /\ \A j : ~Retire(w, j)' /\ ~Retire(w, j)
    BY <1>1, <2>1, AllerPorte
  <2>3. \A v \in Workers : \A j : /\ Tete(v, j, "xack")' <=> Tete(v, j, "xack")
                                  /\ Retire(v, j)' <=> Retire(v, j)
    BY <2>2
  <2>4. Aval(n)' = Aval(n)
    BY <1>1, <2>3, AvalInchange
  <2>5. i \in 1..dernierLu /\ i \in pending
    BY <1>2 DEF TypeOK
  <2>6. Tient' = Tient \union {<<w, i>>}
    BY <1>1, <2>2, <2>5 DEF Tient
  <2>7. Couverts' = Couverts
    BY <1>1, <1>2, <2>1, <2>2, <2>5 DEF Couverts
  <2>8. Cardinality(Tient') \in Nat /\ Cardinality(Tient') <= Cardinality(Tient) + 1
    <3> DEFINE p == <<w, i>>
    <3> HIDE DEF p
    <3>1. Tient' = Tient \union {p}
      BY <2>6 DEF p
    <3> QED
      BY <3>1, SurplusFini, UnDePlus, FS_CardinalityType
  <2>9. Cardinality(idle') = Cardinality(idle) - 1
    BY <1>2, <2>1, SurplusFini, FS_RemoveElement
  <2>10. Surplus' = Cardinality(Tient') + Cardinality(idle') - Cardinality(Couverts')
    BY DEF Surplus
  <2> QED
    BY <2>4, <2>7, <2>8, <2>9, <2>10, SurplusFini DEF Surplus
<1>3. CASE i \notin idle
  <2>1. idle' = idle /\ Passer(w, i)
    BY <1>3 DEF xclaim
  <2>2. /\ \A v \in Workers : \A j : Porte(v, j)' <=> Porte(v, j) /\ ~(v = w /\ j = i)
        /\ \A v \in Workers : \A j : Tete(v, j, "xack")' <=> v # w /\ Tete(v, j, "xack")
        /\ \A v \in Workers : \A j : Retire(v, j)' <=> v # w /\ Retire(v, j)
        /\ ~Porte(w, i)
    BY <1>1, <2>1, PasserPorte
  <2>3. \A j : ~Tete(w, j, "xack") /\ ~Retire(w, j)
    BY <1>1 DEF Tete, Retire
  <2>4. \A v \in Workers : \A j : /\ Tete(v, j, "xack")' <=> Tete(v, j, "xack")
                                  /\ Retire(v, j)' <=> Retire(v, j)
    BY <2>2, <2>3
  <2>5. \A v \in Workers : \A j : Porte(v, j)' <=> Porte(v, j)
    BY <2>2
  <2>6. Aval(n)' = Aval(n)
    BY <1>1, <2>4, AvalInchange
  <2>7. Surplus' = Surplus
    BY <1>1, <2>1, <2>5, SurplusInchange
  <2> QED
    BY <2>6, <2>7, SurplusFini
<1> QED
  BY <1>2, <1>3

LEMMA RunClaimCycleBilan ==
    ASSUME TypeOK, InvEtape, NEW c \in Cycles, runClaimCycle(c), NEW n \in Noeuds
    PROVE  Aval(n)' = Aval(n) /\ Surplus' = Surplus
<1>1. /\ lot[c] = {} /\ etape' = etape /\ c \in Workers /\ c[2] # "lecture"
      /\ UNCHANGED <<flux, outbox, dernierLu, pending, idle, compteur>>
  BY Postes DEF runClaimCycle, groupVars
<1>2. PICK S : lot' = [lot EXCEPT ![c] = S]
  BY DEF runClaimCycle
<1>3. etape[c] = "reclamer"
  BY <1>1 DEF InvEtape, Reprise
<1>4. \A v \in Workers : v # c => lot'[v] = lot[v]
  BY <1>2 DEF TypeOK
<1>5. \A j : /\ ~Porte(c, j) /\ ~Porte(c, j)'
             /\ ~Tete(c, j, "xack") /\ ~Tete(c, j, "xack")'
             /\ ~Retire(c, j) /\ ~Retire(c, j)'
  BY <1>1, <1>3 DEF Porte, Tete, Retire
<1>6. \A v \in Workers : v # c => \A j : /\ Porte(v, j)' <=> Porte(v, j)
                                         /\ Tete(v, j, "xack")' <=> Tete(v, j, "xack")
                                         /\ Retire(v, j)' <=> Retire(v, j)
  BY <1>1, <1>4 DEF Porte, Tete, Retire
<1>7. \A v \in Workers : \A j : /\ Tete(v, j, "xack")' <=> Tete(v, j, "xack")
                                /\ Retire(v, j)' <=> Retire(v, j)
  BY <1>5, <1>6
<1>8. \A v \in Workers : \A j : Porte(v, j)' <=> Porte(v, j)
  BY <1>5, <1>6
<1> QED
  BY <1>1, <1>7, <1>8, AvalInchange, SurplusInchange

LEMMA VieillirBilan ==
    ASSUME TypeOK, NEW i \in Positions, Vieillir(i), NEW n \in Noeuds
    PROVE  /\ Aval(n)' = Aval(n) /\ Surplus' \in Int
           /\ Surplus' <= Surplus + 1
           /\ perturbations' = perturbations \/ perturbations' = perturbations + 1
           /\ perturbations' = perturbations => Surplus' <= Surplus
<1>1. /\ i \in pending /\ i \notin idle /\ idle' = idle \union {i}
      /\ PerturbationSi(\E w \in Workers : i \in lot[w])
      /\ UNCHANGED <<flux, outbox, dernierLu, pending, lot, etape, compteur>>
  BY DEF Vieillir, workerVars
<1>2. /\ \A v \in Workers : \A j : Porte(v, j)' <=> Porte(v, j)
      /\ \A v \in Workers : \A j : /\ Tete(v, j, "xack")' <=> Tete(v, j, "xack")
                                   /\ Retire(v, j)' <=> Retire(v, j)
  BY <1>1 DEF Porte, Tete, Retire
<1>3. Aval(n)' = Aval(n)
  BY <1>1, <1>2, AvalInchange
<1>4. Tient' = Tient
  BY <1>1, <1>2 DEF Tient
<1>5. Couverts' = Couverts \union {i}
  BY <1>1, <1>2 DEF Couverts
<1>6. Cardinality(idle') = Cardinality(idle) + 1
  BY <1>1, SurplusFini, FS_AddElement
<1>7. Cardinality(Couverts') = IF i \in Couverts THEN Cardinality(Couverts)
                                                 ELSE Cardinality(Couverts) + 1
  BY <1>5, SurplusFini, FS_AddElement
<1>8. i \in Couverts => \E w \in Workers : i \in lot[w]
  BY <1>1 DEF Couverts, Porte
<1>9. /\ perturbations' = perturbations \/ perturbations' = perturbations + 1
      /\ perturbations' = perturbations => i \notin Couverts
  BY <1>1, <1>8 DEF PerturbationSi, Perturbation, TypeOK
<1>10. Surplus' = Cardinality(Tient') + Cardinality(idle') - Cardinality(Couverts')
  BY DEF Surplus
<1>11. Surplus = Cardinality(Tient) + Cardinality(idle) - Cardinality(Couverts)
  BY DEF Surplus
<1>12. /\ Surplus' \in Int /\ Surplus' <= Surplus + 1
       /\ i \notin Couverts => Surplus' <= Surplus
  BY <1>4, <1>6, <1>7, <1>10, <1>11, SurplusFini
<1> QED
  BY <1>3, <1>9, <1>12

LEMMA RunReadLoopFaits ==
    ASSUME TypeOK, InvEtape, NEW x \in Instances, runReadLoop(x), NEW l, l = Lecture(x)
    PROVE  /\ dernierLu' \in Nat /\ dernierLu < dernierLu' /\ dernierLu' <= Len(flux)
           /\ pending' = pending \union (dernierLu + 1)..dernierLu'
           /\ UNCHANGED <<flux, outbox, rattachement, idle, etape, compteur>>
           /\ l \in Workers /\ l[2] = "lecture"
           /\ lot[l] = {} /\ etape[l] = "decrementer"
           /\ \A v \in Workers : v # l => lot'[v] = lot[v]
           /\ \/ lot'[l] = (dernierLu + 1)..dernierLu' /\ UNCHANGED perturbations
              \/ lot'[l] = {} /\ perturbations' = perturbations + 1
<1>1. PICK n \in Positions :
        /\ xreadgroup(n)
        /\ \/ lot' = [lot EXCEPT ![l] = (dernierLu + 1)..n] /\ UNCHANGED perturbations
           \/ Perturbation /\ UNCHANGED lot
  BY DEF runReadLoop
<1>2. /\ dernierLu' = n /\ n \in Nat /\ dernierLu < n /\ n <= Len(flux)
      /\ pending' = pending \union (dernierLu + 1)..n
  BY <1>1, Longueurs, Finitude DEF xreadgroup
<1>3. /\ lot[l] = {} /\ etape[l] = "decrementer"
      /\ l \in Workers /\ l[2] = "lecture"
      /\ UNCHANGED <<flux, outbox, rattachement, idle, etape, compteur>>
  BY Postes DEF runReadLoop, InvEtape, Reprise, referentialVars
<1>4. ASSUME lot' = [lot EXCEPT ![l] = (dernierLu + 1)..n]
      PROVE  /\ lot'[l] = (dernierLu + 1)..n
             /\ \A v \in Workers : v # l => lot'[v] = lot[v]
  <2> DEFINE S == (dernierLu + 1)..n
  <2> HIDE DEF S
  <2>1. lot' = [lot EXCEPT ![l] = S]
    BY <1>4 DEF S
  <2>2. lot'[l] = S /\ \A v \in Workers : v # l => lot'[v] = lot[v]
    BY <1>3, <2>1 DEF TypeOK
  <2> QED
    BY <2>2 DEF S
<1> QED
  BY <1>1, <1>2, <1>3, <1>4 DEF Perturbation

LEMMA RunReadLoopBilan ==
    ASSUME TypeOK, InvEtape, NEW x \in Instances, runReadLoop(x), NEW n \in Noeuds
    PROVE  Aval(n)' = Aval(n) /\ Surplus' \in Int /\ Surplus' <= Surplus
<1> PICK l : l = Lecture(x)
  OBVIOUS
<1> DEFINE N == (dernierLu + 1)..dernierLu'
<1>1. /\ dernierLu' \in Nat /\ dernierLu \in Nat /\ dernierLu < dernierLu'
      /\ pending' = pending \union N
      /\ UNCHANGED <<flux, outbox, idle, etape, compteur>>
      /\ l \in Workers /\ l[2] = "lecture" /\ lot[l] = {} /\ etape[l] = "decrementer"
      /\ \A v \in Workers : v # l => lot'[v] = lot[v]
      /\ lot'[l] = N \/ lot'[l] = {}
  BY RunReadLoopFaits, Longueurs
<1>2. N \intersect 1..dernierLu = {} /\ 1..dernierLu' = 1..dernierLu \union N
      /\ IsFiniteSet(N) /\ Cardinality(N) \in Nat
  <2>1. N \intersect 1..dernierLu = {} /\ 1..dernierLu' = 1..dernierLu \union N
    BY <1>1
  <2>2. IsFiniteSet(N)
    <3>1. dernierLu + 1 \in Int /\ dernierLu' \in Int
      BY <1>1
    <3> QED
      BY <3>1, FS_Interval
  <2> QED
    BY <2>1, <2>2, FS_CardinalityType
<1> HIDE DEF N
<1>3. \A v \in Workers : \A j : /\ Tete(v, j, "xack")' <=> Tete(v, j, "xack")
                                /\ Retire(v, j)' <=> Retire(v, j)
  BY <1>1 DEF Tete, Retire
<1>4. \A v \in Workers : \A j : Tete(v, j, "xack") => j \in 1..dernierLu
  BY DEF Tete, TypeOK
<1>5. \A j : (Journal(j) \in Departs(n))' <=> Journal(j) \in Departs(n)
  BY <1>1, JournalInchange
<1>6. \A j : (Journal(j) \in Arrivees(n))' <=> Journal(j) \in Arrivees(n)
  BY <1>1, JournalInchange
<1>7. pending \subseteq 1..dernierLu /\ idle \subseteq 1..dernierLu
  BY DEF TypeOK
<1>8. Faits' = Faits /\ Ajoutes' = Ajoutes
  BY <1>1, <1>2, <1>3, <1>4, <1>7 DEF Faits, Ajoutes
<1>9. Arrives(n)' = {j \in Faits' \union Ajoutes' : (Journal(j) \in Arrivees(n))'}
  BY DEF Arrives
<1>10. Partis(n)' = {j \in Faits' : (Journal(j) \in Departs(n))'}
  BY DEF Partis
<1>11. EnCours(n)' = {v \in Workers : \E j \in lot'[v] : Retire(v, j)' /\ (Journal(j) \in Departs(n))'}
  BY DEF EnCours
<1>12. Arrives(n)' = Arrives(n) /\ Partis(n)' = Partis(n)
  BY <1>5, <1>6, <1>8, <1>9, <1>10 DEF Arrives, Partis
<1>13. /\ \A v \in Workers : \A j : Retire(v, j) => j \in lot[v]
       /\ \A v \in Workers : \A j : Retire(v, j)' => j \in lot'[v]
  BY DEF Retire, Tete
<1>14. EnCours(n)' = EnCours(n)
  BY <1>3, <1>5, <1>11, <1>13 DEF EnCours
<1>15. Aval(n)' = Aval(n)
  BY <1>1, <1>12, <1>14, AvalEgal
<1>16. /\ \A v \in Workers : v # l => \A j : Porte(v, j)' <=> Porte(v, j)
       /\ \A j : ~Porte(l, j)
       /\ \A j : Porte(l, j)' <=> j \in lot'[l]
       /\ \A v \in Workers : \A j : Porte(v, j) => j \in 1..dernierLu
       /\ l \in Workers
  BY <1>1 DEF Porte, TypeOK
<1>17. Surplus' = Cardinality(Tient') + Cardinality(idle') - Cardinality(Couverts')
  BY DEF Surplus
<1>18. Surplus = Cardinality(Tient) + Cardinality(idle) - Cardinality(Couverts)
  BY DEF Surplus
<1>19. CASE lot'[l] = N
  <2> DEFINE T == {l} \X N
  <2>1. Tient' = Tient \union T
    BY <1>2, <1>16, <1>19 DEF Tient
  <2>2. Couverts' = Couverts \union N /\ Couverts \intersect N = {}
    <3>1. Couverts \subseteq 1..dernierLu
      BY <1>7 DEF Couverts
    <3>2. Couverts' = Couverts \union N
      BY <1>1, <1>2, <1>7, <1>16, <1>19 DEF Couverts
    <3> QED
      BY <1>2, <3>1, <3>2
  <2>3. IsFiniteSet(T) /\ Cardinality(T) = Cardinality(N)
    <3>1. IsFiniteSet({l}) /\ Cardinality({l}) = 1
      BY FS_Singleton
    <3> QED
      BY <1>2, <3>1, FS_Product
  <2> HIDE DEF T
  <2>4. Cardinality(Tient') = Cardinality(Tient) + Cardinality(T) - Cardinality(Tient \intersect T)
        /\ Cardinality(Tient \intersect T) \in Nat
    BY <2>1, <2>3, SurplusFini, FS_Union, SousEnsemble
  <2>5. Cardinality(Couverts') = Cardinality(Couverts) + Cardinality(N)
    <3>1. Cardinality(Couverts \intersect N) = 0
      BY <2>2, FS_EmptySet
    <3>2. Cardinality(Couverts \union N)
              = Cardinality(Couverts) + Cardinality(N) - Cardinality(Couverts \intersect N)
      BY <1>2, SurplusFini, FS_Union
    <3> QED
      BY <1>2, <2>2, <3>1, <3>2, SurplusFini
  <2> QED
    BY <1>1, <1>2, <1>15, <1>17, <1>18, <2>3, <2>4, <2>5, SurplusFini
<1>20. CASE lot'[l] = {}
  <2>1. Tient' = Tient
    BY <1>2, <1>16, <1>20 DEF Tient
  <2>2. Couverts' = Couverts
    <3>1. \A v \in Workers : \A j : Porte(v, j)' <=> Porte(v, j)
      BY <1>16, <1>20
    <3> QED
      BY <1>1, <1>2, <1>7, <1>16, <3>1 DEF Couverts
  <2> QED
    BY <1>1, <1>15, <1>17, <1>18, <2>1, <2>2, SurplusFini
<1> QED
  BY <1>1, <1>19, <1>20

(* The workers of an instance stop: each leaves its entry, subtracted or   *)
(* not, to be handled again from the start.                                *)
LEMMA OnModuleDestroyBilan ==
    ASSUME TypeOK, NEW x \in Instances, onModuleDestroy(x), NEW n \in Noeuds
    PROVE  /\ Aval(n)' \in Int /\ Surplus' \in Int /\ Surplus' <= Surplus /\ perturbations' \in Int
           /\ Aval(n)' - perturbations' <= Aval(n) - perturbations
           /\ perturbations' > perturbations
<1> DEFINE W == Interrompus(x)
<1>1. /\ \A w \in Workers : /\ lot'[w] = IF w[1] = x THEN {} ELSE lot[w]
                            /\ etape'[w] = IF w[1] = x THEN Reprise(w) ELSE etape[w]
      /\ perturbations' = perturbations + Cardinality(W) /\ W # {}
      /\ UNCHANGED <<flux, outbox, dernierLu, pending, idle, compteur>>
  BY DEF onModuleDestroy, groupVars
<1>2. IsFiniteSet(W) /\ Cardinality(W) \in Nat /\ Cardinality(W) > 0
  BY <1>1, InterrompusFini
<1>4. \A v \in Workers : \A j :
         /\ Porte(v, j)' <=> v[1] # x /\ Porte(v, j)
         /\ Tete(v, j, "xack")' <=> v[1] # x /\ Tete(v, j, "xack")
         /\ Retire(v, j)' <=> v[1] # x /\ Retire(v, j)
  BY <1>1 DEF Porte, Tete, Retire
<1>5. \A j : (Journal(j) \in Departs(n))' <=> Journal(j) \in Departs(n)
  BY <1>1, JournalInchange
<1>6. \A j : (Journal(j) \in Arrivees(n))' <=> Journal(j) \in Arrivees(n)
  BY <1>1, JournalInchange
<1>7. Faits' = Faits /\ Ajoutes' \subseteq Ajoutes
  BY <1>1, <1>4 DEF Faits, Ajoutes
<1>8. Arrives(n)' = {j \in Faits' \union Ajoutes' : (Journal(j) \in Arrivees(n))'}
  BY DEF Arrives
<1>9. Partis(n)' = {j \in Faits' : (Journal(j) \in Departs(n))'}
  BY DEF Partis
<1>10. EnCours(n)' = {v \in Workers : \E j \in lot'[v] : Retire(v, j)' /\ (Journal(j) \in Departs(n))'}
  BY DEF EnCours
<1>11. Arrives(n)' \subseteq Arrives(n) /\ Partis(n)' = Partis(n)
  BY <1>5, <1>6, <1>7, <1>8, <1>9 DEF Arrives, Partis
<1>12. EnCours(n)' \subseteq EnCours(n) /\ EnCours(n) \subseteq EnCours(n)' \union W
  <2>1. \A v \in Workers : v[1] # x => (v \in EnCours(n)' <=> v \in EnCours(n))
    BY <1>1, <1>4, <1>5, <1>10 DEF EnCours
  <2>2. \A v \in Workers : v[1] = x => v \notin EnCours(n)'
    BY <1>4, <1>10
  <2>3. \A v \in EnCours(n) : v \in Workers /\ lot[v] # {}
    BY DEF EnCours
  <2>4. EnCours(n)' \subseteq Workers
    BY <1>10
  <2> QED
    BY <2>1, <2>2, <2>3, <2>4 DEF Interrompus
<1> HIDE DEF W
<1>13. Tient' \subseteq Tient /\ Couverts' \subseteq Couverts
       /\ \A p \in Tient \ Tient' : p[1][1] = x
  BY <1>1, <1>4 DEF Tient, Couverts
<1>14. Cardinality(Couverts) - Cardinality(Couverts') <= Cardinality(Tient) - Cardinality(Tient')
       /\ Cardinality(Couverts') \in Nat /\ Cardinality(Tient') \in Nat
  <2> DEFINE P == Tient \ Tient'
             U == {p[2] : p \in P}
             f == [p \in P |-> p[2]]
  <2>1. f \in Surjection(P, U)
    BY DEF Surjection
  <2>2. IsFiniteSet(P) /\ IsFiniteSet(U) /\ Cardinality(U) <= Cardinality(P)
    <3>1. IsFiniteSet(P)
      BY SurplusFini, FS_Subset
    <3> QED
      BY <2>1, <3>1, FS_Surjection
  <2>3. Couverts \subseteq Couverts' \union U
    <3> SUFFICES ASSUME NEW i \in Couverts, i \notin Couverts' PROVE i \in U
      OBVIOUS
    <3>1. i \in pending /\ i \notin idle /\ \A w \in Workers : ~Porte(w, i)'
      BY <1>1 DEF Couverts
    <3>2. PICK w \in Workers : Porte(w, i)
      BY <3>1 DEF Couverts
    <3>3. i \in 1..dernierLu
      BY <3>1 DEF TypeOK
    <3>4. <<w, i>> \in Tient /\ <<w, i>> \notin Tient'
      BY <3>1, <3>2, <3>3 DEF Tient
    <3> QED
      BY <3>4
  <2>4. Cardinality(P) = Cardinality(Tient) - Cardinality(Tient')
        /\ IsFiniteSet(Tient') /\ Cardinality(Tient') \in Nat
    <3>1. IsFiniteSet(Tient') /\ Cardinality(Tient') \in Nat /\ Tient \intersect Tient' = Tient'
      BY <1>13, SurplusFini, SousEnsemble
    <3>2. Cardinality(P) = Cardinality(Tient) - Cardinality(Tient \intersect Tient')
      BY SurplusFini, FS_Difference
    <3> QED
      BY <3>1, <3>2
  <2>5. IsFiniteSet(Couverts') /\ Cardinality(Couverts') \in Nat
    BY <1>13, SurplusFini, SousEnsemble
  <2>6. Cardinality(U) \in Nat /\ Cardinality(P) \in Nat
    BY <2>2, FS_CardinalityType
  <2> HIDE DEF P, U
  <2>7. /\ IsFiniteSet(Couverts' \union U)
        /\ Cardinality(Couverts' \union U)
              = Cardinality(Couverts') + Cardinality(U) - Cardinality(Couverts' \intersect U)
    BY <2>2, <2>5, FS_Union
  <2>8. Cardinality(Couverts' \intersect U) \in Nat
    BY <2>2, SousEnsemble
  <2>9. Cardinality(Couverts) <= Cardinality(Couverts' \union U)
    BY <2>3, <2>7, SousEnsemble
  <2> QED
    BY <2>2, <2>4, <2>5, <2>6, <2>7, <2>8, <2>9, SurplusFini
<1>15. Surplus' = Cardinality(Tient') + Cardinality(idle') - Cardinality(Couverts')
  BY DEF Surplus
<1>16. Surplus = Cardinality(Tient) + Cardinality(idle) - Cardinality(Couverts)
  BY DEF Surplus
<1>17. Surplus' \in Int /\ Surplus' <= Surplus
  BY <1>1, <1>14, <1>15, <1>16, SurplusFini
<1>18. /\ Cardinality(Arrives(n)') \in Nat
       /\ Cardinality(Arrives(n)') <= Cardinality(Arrives(n))
  BY <1>11, AvalFini, SousEnsemble
<1>19. /\ Cardinality(EnCours(n)') \in Nat
       /\ Cardinality(EnCours(n)) <= Cardinality(EnCours(n)') + Cardinality(W)
  <2>1. IsFiniteSet(EnCours(n)') /\ Cardinality(EnCours(n)') \in Nat
    BY <1>12, AvalFini, SousEnsemble
  <2>2. /\ IsFiniteSet(EnCours(n)' \union W)
        /\ Cardinality(EnCours(n)' \union W)
              = Cardinality(EnCours(n)') + Cardinality(W) - Cardinality(EnCours(n)' \intersect W)
    BY <1>2, <2>1, FS_Union
  <2>3. Cardinality(EnCours(n)' \intersect W) \in Nat
    BY <1>2, SousEnsemble
  <2>4. Cardinality(EnCours(n)) <= Cardinality(EnCours(n)' \union W)
    BY <1>12, <2>2, SousEnsemble
  <2> QED
    BY <1>2, <2>1, <2>2, <2>3, <2>4, AvalFini
<1>20. /\ Cardinality(Partis(n)') = Cardinality(Partis(n)) /\ compteur' = compteur
       /\ perturbations \in Int
  BY <1>1, <1>11 DEF TypeOK
<1>21. Aval(n)' \in Int /\ Aval(n)' <= Aval(n) + Cardinality(W)
  BY <1>2, <1>18, <1>19, <1>20, AvalEgal, AvalFini
<1> QED
  BY <1>1, <1>2, <1>17, <1>20, <1>21, AvalFini

(* What referential and the relay do is not yet seen by the group.         *)
LEMMA AvalAmont ==
    ASSUME TypeOK, UNCHANGED <<groupVars, workerVars, compteur>>,
           \A j \in 1..dernierLu : Journal(j)' = Journal(j), NEW n \in Noeuds
    PROVE  Aval(n)' = Aval(n) /\ Surplus' = Surplus
<1>1. UNCHANGED <<dernierLu, pending, idle, lot, etape, compteur>>
  BY DEF groupVars, workerVars
<1>2. /\ \A v \in Workers : \A j : Porte(v, j)' <=> Porte(v, j)
      /\ \A v \in Workers : \A j : /\ Tete(v, j, "xack")' <=> Tete(v, j, "xack")
                                   /\ Retire(v, j)' <=> Retire(v, j)
  BY <1>1 DEF Porte, Tete, Retire
<1>3. \A j \in 1..dernierLu : (Journal(j) \in Departs(n))' <=> Journal(j) \in Departs(n)
  BY DEF Departs
<1>4. \A j \in 1..dernierLu : (Journal(j) \in Arrivees(n))' <=> Journal(j) \in Arrivees(n)
  BY DEF Arrivees
<1>5. /\ Faits' = Faits /\ Ajoutes' = Ajoutes
      /\ Faits \subseteq 1..dernierLu /\ Ajoutes \subseteq 1..dernierLu
  BY <1>1, <1>2 DEF Faits, Ajoutes
<1>6. Arrives(n)' = {j \in Faits' \union Ajoutes' : (Journal(j) \in Arrivees(n))'}
  BY DEF Arrives
<1>7. Partis(n)' = {j \in Faits' : (Journal(j) \in Departs(n))'}
  BY DEF Partis
<1>8. EnCours(n)' = {v \in Workers : \E j \in lot'[v] : Retire(v, j)' /\ (Journal(j) \in Departs(n))'}
  BY DEF EnCours
<1>9. Arrives(n)' = Arrives(n) /\ Partis(n)' = Partis(n)
  BY <1>3, <1>4, <1>5, <1>6, <1>7 DEF Arrives, Partis
<1>10. \A v \in Workers : lot'[v] = lot[v] /\ lot[v] \subseteq 1..dernierLu
  BY <1>1 DEF TypeOK
<1>11. EnCours(n)' = EnCours(n)
  BY <1>2, <1>3, <1>8, <1>10 DEF EnCours
<1>12. Aval(n)' = Aval(n)
  BY <1>1, <1>9, <1>11, AvalEgal
<1> QED
  BY <1>1, <1>2, <1>12, SurplusInchange

LEMMA JournalDebut ==
    ASSUME TypeOK, UNCHANGED flux \/ \E k \in Nat : relayer(k)
    PROVE  \A j \in 1..dernierLu : Journal(j)' = Journal(j)
<1>1. \A j \in 1..dernierLu : j \in 1..Len(flux)
  BY Longueurs
<1>2. CASE UNCHANGED flux
  BY <1>1, <1>2 DEF Journal
<1>3. ASSUME NEW k \in Nat, relayer(k) PROVE \A j \in 1..dernierLu : Journal(j)' = Journal(j)
  <2>1. Len(flux') = Len(flux) + 1 /\ Len(flux) \in Nat /\ \A j \in 1..Len(flux) : flux'[j] = flux[j]
    <3>1. /\ flux \in Seq(Evenements) /\ outbox \in Seq(Evenements)
          /\ k \in 1..Len(outbox) /\ flux' = Append(flux, outbox[k])
      BY <1>3 DEF TypeOK, relayer
    <3> QED
      BY <3>1
  <2>2. \A j \in 1..Len(flux) : j <= Len(flux) /\ j <= Len(flux')
    BY <2>1
  <2> QED
    BY <1>1, <2>1, <2>2 DEF Journal
<1> QED
  BY <1>2, <1>3

-----------------------------------------------------------------------------
(* The error of a counter never exceeds the perturbations.                 *)
Ecart(n) == Amont(n) + Aval(n) + Surplus

InvBorne == \A n \in Noeuds : Ecart(n) <= perturbations

LEMMA EcartStep ==
    ASSUME TypeOK, InvEtape, [Next]_vars, NEW n \in Noeuds
    PROVE  /\ perturbations' \in Int /\ Ecart(n)' \in Int
           /\ Ecart(n)' - perturbations' <= Ecart(n) - perturbations
<1>0. /\ Amont(n) \in Int /\ Aval(n) \in Int /\ Surplus \in Int /\ perturbations \in Int
      /\ Ecart(n) = Amont(n) + Aval(n) + Surplus
  <2>1. perturbations \in Int
    BY DEF TypeOK
  <2>2. Ecart(n) = Amont(n) + Aval(n) + Surplus
    BY DEF Ecart
  <2> QED
    BY <2>1, <2>2, AmontType, AvalFini, SurplusFini
<1>00. Ecart(n)' = Amont(n)' + Aval(n)' + Surplus'
  BY DEF Ecart
<1> DEFINE But == /\ perturbations' \in Int /\ Ecart(n)' \in Int
                  /\ Ecart(n)' - perturbations' <= Ecart(n) - perturbations
<1>a. ASSUME Amont(n)' = Amont(n), Aval(n)' \in Int, Surplus' \in Int, perturbations' \in Int,
             Aval(n)' + Surplus' - perturbations' <= Aval(n) + Surplus - perturbations
      PROVE  But
  BY <1>0, <1>00, <1>a
<1>b. ASSUME UNCHANGED <<groupVars, workerVars, compteur>>,
             UNCHANGED flux \/ \E k \in Nat : relayer(k),
             Amont(n)' \in Int, perturbations' \in Int,
             Amont(n)' - perturbations' <= Amont(n) - perturbations
      PROVE  But
  <2>1. Aval(n)' = Aval(n) /\ Surplus' = Surplus
    BY <1>b, JournalDebut, AvalAmont
  <2> QED
    BY <1>0, <1>00, <1>b, <2>1
<1> HIDE DEF But
<1>1. ASSUME NEW v \in Villes, NEW p \in Places, createVille(v, p) PROVE But
  <2>1. /\ UNCHANGED <<groupVars, workerVars, compteur>> /\ perturbations' = perturbations
        /\ UNCHANGED flux
    BY <1>1 DEF createVille, ghostVars
  <2>2. Amont(n)' = Amont(n)
    BY <1>1, AmontCreate
  <2> QED
    BY <1>0, <1>b, <2>1, <2>2
<1>2. ASSUME NEW d \in Deplacements, NEW v \in Villes, NEW p \in Places, moveVille(d, v, p)
      PROVE  But
  <2>1. /\ UNCHANGED <<groupVars, workerVars, compteur>> /\ perturbations' = perturbations
        /\ UNCHANGED <<rattachement, flux, outbox>>
    BY <1>2 DEF moveVille, ghostVars
  <2> QED
    BY <1>0, <1>b, <2>1, AmontInchange
<1>3. ASSUME NEW d \in Deplacements, moveVilleCommit(d) PROVE But
  <2>1. UNCHANGED <<groupVars, workerVars, compteur, flux>>
    BY <1>3 DEF moveVilleCommit
  <2>2. /\ perturbations' \in {perturbations, perturbations + 1}
        /\ perturbations' = perturbations => Amont(n)' = Amont(n)
        /\ Amont(n)' <= Amont(n) + 1
    BY <1>3, AmontCommit
  <2>3. Amont(n)' \in Int
    <3>1. Rattachees(n)' \subseteq Villes
      BY DEF Rattachees
    <3>2. Reel(n)' \in Nat
      <4>1. Reel(n)' = Cardinality(Rattachees(n)')
        BY DEF Reel, Rattachees
      <4> QED
        BY <3>1, <4>1, VilleAssumption, SousEnsemble
    <3>3. TypeOK'
      BY TypeStep
    <3>4. Total' \in Nat
      BY <3>3 DEF TypeOK, Total
    <3>5. Nombre(Total, Arrivees(n))' \in Nat /\ Nombre(Total, Departs(n))' \in Nat
      <4>1. /\ IsFiniteSet(1..Total') /\ Avant(Total, Arrivees(n))' \subseteq 1..Total'
            /\ Avant(Total, Departs(n))' \subseteq 1..Total'
        <5>1. IsFiniteSet(1..Total')
          BY <3>4, FS_Interval
        <5>2. /\ Avant(Total, Arrivees(n))' \subseteq 1..Total'
              /\ Avant(Total, Departs(n))' \subseteq 1..Total'
          BY DEF Avant
        <5> QED
          BY <5>1, <5>2
      <4> QED
        BY <4>1, SousEnsemble DEF Nombre
    <3> QED
      BY <3>2, <3>5 DEF Amont
  <2> QED
    BY <1>0, <1>b, <2>1, <2>2, <2>3
<1>4. ASSUME NEW k \in 1..MaxFlux, relayer(k) PROVE But
  <2>1. UNCHANGED <<groupVars, workerVars, compteur>> /\ k \in Nat
    BY <1>4, Finitude DEF relayer
  <2>2. CASE Marque(k) /\ UNCHANGED perturbations
    <3>1. Amont(n)' = Amont(n)
      BY <1>4, <2>1, <2>2, AmontRelayer
    <3> QED
      BY <1>0, <1>4, <1>b, <2>1, <2>2, <3>1
  <2>3. CASE Copie(k)
    <3>1. Amont(n)' \in Int /\ Amont(n)' <= Amont(n) + 1
      BY <1>4, <2>1, <2>3, AmontCopie
    <3>2. perturbations' = perturbations + 1
      BY <2>3 DEF Copie, Perturbation
    <3> QED
      BY <1>0, <1>4, <1>b, <2>1, <3>1, <3>2
  <2> QED
    BY <1>4, <2>2, <2>3, RelayerCas
<1>5. ASSUME NEW i \in Positions, Vieillir(i) PROVE But
  <2>1. Amont(n)' = Amont(n)
    BY <1>5, AmontInchange DEF Vieillir, referentialVars
  <2>2. /\ Aval(n)' = Aval(n) /\ Surplus' \in Int
        /\ Surplus' <= Surplus + 1
        /\ perturbations' = perturbations \/ perturbations' = perturbations + 1
        /\ perturbations' = perturbations => Surplus' <= Surplus
    BY <1>5, VieillirBilan
  <2> QED
    BY <1>0, <1>a, <2>1, <2>2
<1>6. ASSUME NEW x \in Instances, runReadLoop(x) PROVE But
  <2>1. Amont(n)' = Amont(n)
    BY <1>6, AmontInchange DEF runReadLoop, referentialVars
  <2>2. Aval(n)' = Aval(n) /\ Surplus' \in Int /\ Surplus' <= Surplus
    BY <1>6, RunReadLoopBilan
  <2>3. perturbations' \in {perturbations, perturbations + 1}
    BY <1>6 DEF runReadLoop, Perturbation
  <2> QED
    BY <1>0, <1>a, <2>1, <2>2, <2>3
<1>7. ASSUME NEW c \in Cycles, runClaimCycle(c) PROVE But
  <2>1. Amont(n)' = Amont(n) /\ perturbations' = perturbations
    BY <1>7, AmontInchange DEF runClaimCycle, referentialVars, ghostVars
  <2>2. Aval(n)' = Aval(n) /\ Surplus' = Surplus
    BY <1>7, RunClaimCycleBilan
  <2> QED
    BY <1>0, <1>a, <2>1, <2>2
<1>8. ASSUME NEW w \in Workers, NEW i \in Positions, xclaim(w, i) PROVE But
  <2>1. Amont(n)' = Amont(n) /\ perturbations' = perturbations
    BY <1>8, AmontInchange DEF xclaim, referentialVars, ghostVars
  <2>2. Aval(n)' = Aval(n) /\ Surplus' \in Int /\ Surplus' <= Surplus
    BY <1>8, XclaimBilan
  <2> QED
    BY <1>0, <1>a, <2>1, <2>2
<1>9. ASSUME NEW w \in Workers, NEW i \in Positions, decrementer(w, i) PROVE But
  <2>1. Amont(n)' = Amont(n) /\ perturbations' = perturbations
    BY <1>9, AmontInchange DEF decrementer, referentialVars
  <2>2. Surplus' = Surplus /\ Aval(n)' \in Int /\ Aval(n)' <= Aval(n)
    BY <1>9, DecrementerBilan
  <2> QED
    BY <1>0, <1>a, <2>1, <2>2
<1>10. ASSUME NEW w \in Workers, NEW i \in Positions, incrementer(w, i) PROVE But
  <2>1. Amont(n)' = Amont(n) /\ perturbations' = perturbations
    BY <1>10, AmontInchange DEF incrementer, referentialVars, ghostVars
  <2>2. Surplus' = Surplus /\ Aval(n)' \in Int /\ Aval(n)' <= Aval(n)
    BY <1>10, IncrementerBilan
  <2> QED
    BY <1>0, <1>a, <2>1, <2>2
<1>11. ASSUME NEW w \in Workers, NEW i \in Positions, acquitter(w, i) PROVE But
  <2>1. Amont(n)' = Amont(n) /\ perturbations' = perturbations
    BY <1>11, AmontInchange DEF acquitter, referentialVars, ghostVars
  <2>2. Aval(n)' + Surplus' <= Aval(n) + Surplus /\ Aval(n)' \in Int /\ Surplus' \in Int
    BY <1>11, AcquitterBilan DEF acquitter, referentialVars
  <2> QED
    BY <1>0, <1>a, <2>1, <2>2
<1>12. ASSUME NEW w \in Workers, NEW i \in Positions, handleMessageEchoue(w, i) PROVE But
  <2>1. Amont(n)' = Amont(n) /\ perturbations' = perturbations + 1
    BY <1>12, AmontInchange DEF handleMessageEchoue, referentialVars, Perturbation
  <2>2. Aval(n)' + Surplus' <= Aval(n) + Surplus + 1 /\ Aval(n)' \in Int /\ Surplus' \in Int
    BY <1>12, EchoueBilan
  <2> QED
    BY <1>0, <1>a, <2>1, <2>2
<1>13. ASSUME NEW x \in Instances, onModuleDestroy(x) PROVE But
  <2>1. Amont(n)' = Amont(n)
    BY <1>13, AmontInchange DEF onModuleDestroy, referentialVars
  <2>2. /\ Aval(n)' \in Int /\ Surplus' \in Int /\ Surplus' <= Surplus /\ perturbations' \in Int
        /\ Aval(n)' - perturbations' <= Aval(n) - perturbations
    BY <1>13, OnModuleDestroyBilan
  <2> QED
    BY <1>0, <1>a, <2>1, <2>2
<1>14. ASSUME UNCHANGED vars PROVE But
  <2>1. /\ UNCHANGED <<groupVars, workerVars, compteur>> /\ perturbations' = perturbations
        /\ UNCHANGED <<rattachement, flux, outbox>>
    BY <1>14 DEF vars, referentialVars, ghostVars
  <2> QED
    BY <1>0, <1>b, <2>1, AmontInchange
<1>15. But
  BY <1>1, <1>2, <1>3, <1>4, <1>5, <1>6, <1>7, <1>8, <1>9, <1>10, <1>11, <1>12, <1>13, <1>14
     DEF Next, WorkerStep
<1> QED
  BY <1>15 DEF But

LEMMA BorneInit == Init => InvEtape /\ InvBorne
<1> SUFFICES ASSUME Init PROVE InvEtape /\ InvBorne
  OBVIOUS
<1>1. TypeOK
  BY TypeInit
<1>2. InvEtape
  BY DEF Init, InvEtape, Reprise
<1>3. /\ flux = <<>> /\ outbox = <<>> /\ Len(flux) = 0 /\ Len(outbox) = 0
      /\ dernierLu = 0 /\ pending = {} /\ idle = {}
      /\ \A w \in Workers : lot[w] = {}
      /\ \A v \in Villes : rattachement[v] = {}
      /\ \A m \in Noeuds : compteur[m] = 0
      /\ perturbations = 0
  BY DEF Init
<1>4. Total = 0 /\ 1..0 = {}
  BY <1>3 DEF Total
<1>5. Tient = {} /\ Couverts = {}
  BY <1>3 DEF Tient, Couverts, Porte
<1>6. Surplus = 0
  BY <1>3, <1>5, FS_EmptySet DEF Surplus
<1>7. ASSUME NEW n \in Noeuds PROVE Ecart(n) <= perturbations
  <2>1. /\ Avant(Total, Arrivees(n)) = {} /\ Avant(Total, Departs(n)) = {}
        /\ Rattachees(n) = {} /\ Arrives(n) = {} /\ Partis(n) = {} /\ EnCours(n) = {}
    BY <1>3, <1>4 DEF Avant, Rattachees, Arrives, Partis, EnCours, Faits, Ajoutes
  <2>2. Reel(n) = Cardinality(Rattachees(n))
    BY DEF Reel, Rattachees
  <2>3. Amont(n) = 0
    BY <2>1, <2>2, FS_EmptySet DEF Amont, Nombre
  <2>4. Aval(n) = 0
    BY <1>3, <2>1, FS_EmptySet DEF Aval
  <2> QED
    BY <1>3, <1>6, <2>3, <2>4 DEF Ecart
<1> QED
  BY <1>2, <1>7 DEF InvBorne

LEMMA BorneStep == TypeOK /\ InvEtape /\ InvBorne /\ [Next]_vars => InvBorne'
<1> SUFFICES ASSUME TypeOK, InvEtape, InvBorne, [Next]_vars, NEW n \in Noeuds
             PROVE  Ecart(n)' <= perturbations'
  BY DEF InvBorne
<1>1. /\ perturbations' \in Int /\ Ecart(n)' \in Int
      /\ Ecart(n)' - perturbations' <= Ecart(n) - perturbations
  BY EcartStep
<1>2. Ecart(n) <= perturbations
  BY DEF InvBorne
<1>3. Ecart(n) \in Int /\ perturbations \in Int
  <2>1. perturbations \in Int
    BY DEF TypeOK
  <2>2. Ecart(n) = Amont(n) + Aval(n) + Surplus
    BY DEF Ecart
  <2> QED
    BY <2>1, <2>2, AmontType, AvalFini, SurplusFini
<1> QED
  BY <1>1, <1>2, <1>3

(* Once everything is handled, what is left is the error of the counter.   *)
LEMMA EcartFinal ==
    ASSUME TypeOK, Quiescent, NEW n \in Noeuds
    PROVE  /\ Surplus = 0 /\ Amont(n) + Aval(n) = Reel(n) - compteur[n]
           /\ Reel(n) \in Int /\ compteur[n] \in Int
<1>1. /\ outbox = <<>> /\ Len(outbox) = 0 /\ dernierLu = Len(flux) /\ pending = {}
      /\ \A w \in Workers : lot[w] = {}
  BY DEF Quiescent
<1>2. Total = dernierLu /\ idle = {}
  BY <1>1, Longueurs DEF Total, TypeOK
<1>3. Tient = {} /\ Couverts = {}
  BY <1>1 DEF Tient, Couverts, Porte
<1>4. Surplus = 0
  BY <1>2, <1>3, FS_EmptySet DEF Surplus
<1>5. Faits = 1..Total /\ Ajoutes = {}
  BY <1>1, <1>2 DEF Faits, Ajoutes, Tete
<1>6. /\ Arrives(n) = Avant(Total, Arrivees(n)) /\ Partis(n) = Avant(Total, Departs(n))
      /\ EnCours(n) = {}
  BY <1>1, <1>5 DEF Arrives, Partis, EnCours, Avant
<1>7. Cardinality(EnCours(n)) = 0
  BY <1>6, FS_EmptySet
<1>8. Aval(n) = Nombre(Total, Arrivees(n)) - Nombre(Total, Departs(n)) - 0 - compteur[n]
  BY <1>6, <1>7 DEF Aval, Nombre
<1>9. Amont(n) = Reel(n) - Nombre(Total, Arrivees(n)) + Nombre(Total, Departs(n))
  BY DEF Amont
<1> QED
  BY <1>4, <1>8, <1>9, AmontType, AvalFini

-----------------------------------------------------------------------------
(* Undisturbed, the instances hold the entries between them and none is    *)
(* begun before those ahead of it are finished; and an event leaves a node *)
(* only if the node has villes by the events before it, so that no         *)
(* subtraction is lost.                                                    *)
Ordre ==
    /\ idle = {} /\ \A c \in Cycles : lot[c] = {}
    /\ \A j : j \in pending <=> \E w \in Workers : j \in lot[w]
    /\ \A v, w \in Workers : v # w => lot[v] \intersect lot[w] = {}
    /\ \A j \in pending : j..dernierLu \subseteq pending
    /\ \A w \in Workers : \A i : Retire(w, i) => \A j \in pending : i <= j

Fonde(n) ==
    \A j \in 1..Total : Journal(j) \in Departs(n) =>
        Nombre(j - 1, Departs(n)) < Nombre(j - 1, Arrivees(n))

InvExact ==
    perturbations = 0 /\ desordre = FALSE =>
        Ordre /\ \A n \in Noeuds : Amont(n) = 0 /\ Aval(n) = 0 /\ Fonde(n)

(* Neither ghost goes back.                                                *)
LEMMA DesordreReste ==
    ASSUME [Next]_vars, desordre' = FALSE, TypeOK
    PROVE  desordre = FALSE
<1>1. desordre \in BOOLEAN
  BY DEF TypeOK
<1>2. ASSUME NEW b, DesordreSi(b) PROVE desordre = FALSE
  BY <1>1, <1>2 DEF DesordreSi
<1>3. CASE UNCHANGED vars
  BY <1>3 DEF vars, ghostVars
<1>4. ASSUME NEW w \in Workers, WorkerStep(w) PROVE desordre = FALSE
  BY <1>2, <1>4
     DEF WorkerStep, xclaim, decrementer, incrementer, acquitter, handleMessageEchoue, ghostVars
<1>5. ASSUME NEW x \in Instances, runReadLoop(x) \/ onModuleDestroy(x) PROVE desordre = FALSE
  BY <1>5 DEF runReadLoop, onModuleDestroy
<1>6. ASSUME NEW k, relayer(k) PROVE desordre = FALSE
  BY <1>2, <1>6 DEF relayer
<1>7. ASSUME NEW v, NEW n, NEW d, createVille(v, n) \/ moveVille(d, v, n) \/ moveVilleCommit(d)
      PROVE  desordre = FALSE
  BY <1>7 DEF createVille, moveVille, moveVilleCommit, ghostVars
<1>8. ASSUME NEW d, moveVilleCommit(d) PROVE desordre = FALSE
  BY <1>8 DEF moveVilleCommit
<1>9. ASSUME NEW v, NEW n, createVille(v, n) PROVE desordre = FALSE
  BY <1>9 DEF createVille, ghostVars
<1>10. ASSUME NEW i, Vieillir(i) \/ runClaimCycle(i) PROVE desordre = FALSE
  BY <1>10 DEF Vieillir, runClaimCycle, ghostVars
<1> QED
  BY <1>3, <1>4, <1>5, <1>6, <1>7, <1>8, <1>9, <1>10 DEF Next

LEMMA PerturbationsCroissent ==
    ASSUME TypeOK, [Next]_vars, perturbations' = 0
    PROVE  perturbations = 0 /\ ~Perturbation /\ \A x \in Instances : ~onModuleDestroy(x)
<1>1. perturbations \in Nat
  BY Finitude DEF TypeOK
<1>2. ~Perturbation
  BY <1>1 DEF Perturbation
<1>3. \A b : PerturbationSi(b) => perturbations' = perturbations
  BY <1>2 DEF PerturbationSi
<1>4. ASSUME NEW x \in Instances PROVE ~onModuleDestroy(x)
  <2> SUFFICES ASSUME onModuleDestroy(x) PROVE FALSE
    OBVIOUS
  <2>1. perturbations' = perturbations + Cardinality(Interrompus(x)) /\ Interrompus(x) # {}
    BY DEF onModuleDestroy
  <2>2. Cardinality(Interrompus(x)) \in Nat /\ Cardinality(Interrompus(x)) > 0
    BY <2>1, InterrompusFini
  <2> QED
    BY <1>1, <2>1, <2>2
<1>5. CASE UNCHANGED vars
  BY <1>2, <1>4, <1>5 DEF vars, ghostVars
<1>6. CASE Next
  BY <1>2, <1>3, <1>4, <1>6
     DEF Next, WorkerStep, createVille, moveVille, moveVilleCommit, relayer, Vieillir, runReadLoop,
         runClaimCycle, xclaim, decrementer, incrementer, acquitter, handleMessageEchoue, groupVars,
         ghostVars
<1> QED
  BY <1>2, <1>4, <1>5, <1>6

(* The worker of an entry is a read loop, and the only one that has it.    *)
LEMMA OrdrePoste ==
    ASSUME TypeOK, InvEtape, Ordre, NEW w \in Workers, NEW i, NEW s, Tete(w, i, s)
    PROVE  /\ w[2] = "lecture" /\ s # "reclamer" /\ i \in pending /\ i \notin idle
           /\ i \in 1..dernierLu /\ \A v \in Workers : i \in lot[v] => v = w
<1>1. i \in lot[w] /\ etape[w] = s
  BY DEF Tete
<1>2. w[2] = "lecture"
  <2>1. w \notin Cycles
    BY <1>1 DEF Ordre
  <2> QED
    BY <2>1, Postes DEF Workers
<1>3. i \in pending /\ i \notin idle /\ \A v \in Workers : i \in lot[v] => v = w
  BY <1>1 DEF Ordre
<1>4. i \in 1..dernierLu
  BY <1>1 DEF TypeOK
<1> QED
  BY <1>1, <1>2, <1>3, <1>4 DEF InvEtape

(* The only worker that has something begun.                               *)
LEMMA OrdreSeul ==
    ASSUME TypeOK, InvEtape, Ordre, NEW w \in Workers, NEW i, NEW s, Tete(w, i, s),
           \A j \in pending : i <= j
    PROVE  /\ Faits = 1..(i - 1)
           /\ \A v \in Workers : \A j : Tete(v, j, "xack") => j = i /\ s = "xack"
           /\ \A v \in Workers : \A j : Retire(v, j) => s # "decrementer"
<1>1. i \in pending /\ i \in 1..dernierLu /\ etape[w] = s
      /\ \A v \in Workers : i \in lot[v] => v = w
  BY OrdrePoste DEF Tete
<1>2. dernierLu \in Nat /\ pending \subseteq 1..dernierLu
  BY Longueurs DEF TypeOK
<1>3. Faits = 1..(i - 1)
  <2>1. i..dernierLu \subseteq pending
    BY <1>1 DEF Ordre
  <2>2. \A j \in 1..dernierLu : j \in pending <=> i <= j
    BY <1>1, <1>2, <2>1
  <2> QED
    BY <1>1, <1>2, <2>2 DEF Faits
<1>4. ASSUME NEW v \in Workers, NEW j, Retire(v, j) PROVE j = i /\ v = w
  <2>1. j <= i /\ j \in lot[v]
    BY <1>1, <1>4 DEF Ordre, Retire, Tete
  <2>2. j \in pending
    BY <2>1 DEF Ordre
  <2>3. j = i
    BY <1>1, <1>2, <2>1, <2>2
  <2> QED
    BY <1>1, <2>1, <2>3
<1>5. ASSUME NEW v \in Workers, NEW j, Tete(v, j, "xack") PROVE j = i /\ s = "xack"
  BY <1>1, <1>4, <1>5 DEF Retire, Tete
<1>6. ASSUME NEW v \in Workers, NEW j, Retire(v, j) PROVE s # "decrementer"
  BY <1>1, <1>4, <1>6 DEF Retire, Tete
<1> QED
  BY <1>3, <1>5, <1>6

LEMMA RetireDevant ==
    ASSUME Ordre, NEW w \in Workers, NEW i, NEW s \in {"incrementer", "xack"}, Tete(w, i, s)
    PROVE  \A j \in pending : i <= j
  BY DEF Ordre, Retire

LEMMA OrdreStep ==
    ASSUME TypeOK, InvEtape, Ordre, [Next]_vars, perturbations' = 0, desordre' = FALSE
    PROVE  Ordre'
<1>0. perturbations = 0 /\ ~Perturbation /\ \A x \in Instances : ~onModuleDestroy(x)
  BY PerturbationsCroissent
<1>1. ASSUME UNCHANGED <<groupVars, lot>>,
             \A w \in Workers : \A i : Retire(w, i)' => \A j \in pending : i <= j
      PROVE Ordre'
  BY <1>1 DEF groupVars, Ordre
<1>a. ASSUME UNCHANGED <<groupVars, workerVars>> PROVE Ordre'
  <2>1. \A w \in Workers : \A i : Retire(w, i)' <=> Retire(w, i)
    BY <1>a DEF workerVars, Retire, Tete
  <2> QED
    BY <1>1, <1>a, <2>1 DEF workerVars, Ordre
<1>2. ASSUME NEW v \in Villes, NEW n \in Places, createVille(v, n) PROVE Ordre'
  BY <1>a, <1>2 DEF createVille
<1>3. ASSUME NEW d \in Deplacements, NEW v \in Villes, NEW n \in Places, moveVille(d, v, n)
      PROVE  Ordre'
  BY <1>a, <1>3 DEF moveVille
<1>4. ASSUME NEW d \in Deplacements, moveVilleCommit(d) PROVE Ordre'
  BY <1>a, <1>4 DEF moveVilleCommit
<1>5. ASSUME NEW k \in 1..MaxFlux, relayer(k) PROVE Ordre'
  BY <1>a, <1>5 DEF relayer
<1>6. ASSUME NEW i \in Positions, Vieillir(i) PROVE Ordre'
  <2>1. PICK w \in Workers : i \in lot[w]
    BY <1>6 DEF Vieillir, Ordre
  <2>2. Perturbation
    BY <1>6, <2>1 DEF Vieillir, PerturbationSi
  <2> QED
    BY <1>0, <2>2
<1>7. ASSUME NEW x \in Instances, runReadLoop(x) PROVE Ordre'
  <2> PICK l : l = Lecture(x)
    OBVIOUS
  <2> DEFINE N == (dernierLu + 1)..dernierLu'
  <2>1. /\ dernierLu' \in Nat /\ dernierLu < dernierLu'
        /\ pending' = pending \union N
        /\ idle' = idle /\ etape' = etape /\ l \in Workers /\ l[2] = "lecture"
        /\ lot[l] = {} /\ etape[l] = "decrementer"
        /\ \A v \in Workers : v # l => lot'[v] = lot[v]
        /\ \/ lot'[l] = N /\ UNCHANGED perturbations
           \/ lot'[l] = {} /\ perturbations' = perturbations + 1
    BY <1>7, RunReadLoopFaits
  <2>2. lot'[l] = N
    BY <1>0, <2>1
  <2>3. /\ \A v \in Workers : lot[v] \subseteq 1..dernierLu
        /\ dernierLu \in Nat /\ pending \subseteq 1..dernierLu
    BY Longueurs DEF TypeOK
  <2>4. \A c \in Cycles : lot'[c] = {}
    BY <2>1, Postes DEF Ordre
  <2>5. N \intersect 1..dernierLu = {}
    BY <2>3
  <2>6. \A j \in pending' : j..dernierLu' \subseteq pending'
    <3> SUFFICES ASSUME NEW j \in pending', NEW k \in j..dernierLu' PROVE k \in pending'
      OBVIOUS
    <3>1. CASE k \in N
      BY <2>1, <3>1
    <3>2. CASE k \notin N
      <4>1. k <= dernierLu /\ j <= k /\ j \in pending
        BY <2>1, <2>3, <3>2
      <4> QED
        BY <2>1, <2>3, <4>1 DEF Ordre
    <3> QED
      BY <3>1, <3>2
  <2>7. ASSUME NEW w \in Workers, NEW i, Retire(w, i)', NEW j \in pending' PROVE i <= j
    <3>1. w # l
      BY <2>1, <2>7 DEF Retire, Tete
    <3>2. Retire(w, i) /\ i \in lot[w]
      BY <2>1, <2>7, <3>1 DEF Retire, Tete
    <3>3. CASE j \in pending
      BY <3>2, <3>3 DEF Ordre
    <3>4. CASE j \in N
      BY <2>3, <3>2, <3>4
    <3> QED
      BY <2>1, <3>3, <3>4
  <2> HIDE DEF N
  <2>8. \A j : j \in pending' <=> \E w \in Workers : j \in lot'[w]
    <3>1. \A j : j \in pending' <=> j \in N \/ \E w \in Workers : j \in lot[w]
      BY <2>1 DEF Ordre
    <3> QED
      BY <2>1, <2>2, <3>1
  <2>9. \A v, w \in Workers : v # w => lot'[v] \intersect lot'[w] = {}
    <3> SUFFICES ASSUME NEW v \in Workers, NEW w \in Workers, v # w
                 PROVE  lot'[v] \intersect lot'[w] = {}
      OBVIOUS
    <3>1. CASE v = l
      BY <2>1, <2>2, <2>3, <2>5, <3>1
    <3>2. CASE w = l
      BY <2>1, <2>2, <2>3, <2>5, <3>2
    <3>3. CASE v # l /\ w # l
      BY <2>1, <3>3 DEF Ordre
    <3> QED
      BY <3>1, <3>2, <3>3
  <2> QED
    BY <2>1, <2>4, <2>6, <2>7, <2>8, <2>9 DEF Ordre
<1>8. ASSUME NEW c \in Cycles, runClaimCycle(c) PROVE Ordre'
  BY <1>8 DEF runClaimCycle, Ordre
<1>9. ASSUME NEW w \in Workers, NEW i \in Positions, xclaim(w, i) PROVE Ordre'
  BY <1>9, OrdrePoste DEF xclaim
<1>10. ASSUME NEW w \in Workers, NEW i \in Positions, decrementer(w, i) \/ incrementer(w, i)
       PROVE  Ordre'
  <2>1. UNCHANGED <<groupVars, lot>>
    BY <1>10 DEF decrementer, incrementer, Aller
  <2>2. i \in lot[w] /\ \A j \in pending : i <= j
    <3>1. CASE incrementer(w, i)
      <4>1. Tete(w, i, "incrementer")
        BY <3>1 DEF incrementer
      <4> QED
        BY <4>1, RetireDevant DEF Tete
    <3>2. CASE decrementer(w, i)
      <4>1. i \in lot[w] /\ ~\E v \in Workers : \E j \in lot[v] : j < i
        BY <3>2 DEF decrementer, DesordreSi, Tete
      <4>2. i \in Nat /\ pending \subseteq Nat
        BY <4>1, Longueurs DEF TypeOK
      <4> QED
        BY <4>1, <4>2 DEF Ordre
    <3> QED
      BY <1>10, <3>1, <3>2
  <2>3. \A v \in Workers : v # w => etape'[v] = etape[v]
    BY <1>10 DEF decrementer, incrementer, Aller, TypeOK
  <2>4. ASSUME NEW v \in Workers, NEW k, Retire(v, k)', NEW j \in pending PROVE k <= j
    <3>1. CASE v = w
      <4>1. k \in lot[w] /\ k <= i
        BY <2>1, <2>2, <2>4, <3>1 DEF Retire, Tete
      <4>2. i <= j /\ i \in Nat /\ j \in Nat /\ k \in Nat
        BY <2>2, <4>1, Longueurs DEF TypeOK
      <4> QED
        BY <4>1, <4>2
    <3>2. CASE v # w
      BY <2>1, <2>3, <2>4, <3>2 DEF Retire, Tete, Ordre
    <3> QED
      BY <3>1, <3>2
  <2> QED
    BY <1>1, <2>1, <2>4
<1>11. ASSUME NEW w \in Workers, NEW i \in Positions, acquitter(w, i) PROVE Ordre'
  <2>1. /\ Tete(w, i, "xack") /\ xack(i) /\ Passer(w, i) /\ dernierLu' = dernierLu
    BY <1>11 DEF acquitter
  <2>2. /\ i \in 1..dernierLu /\ i \in pending /\ \A v \in Workers : i \in lot[v] => v = w
        /\ \A j \in pending : i <= j
    BY <2>1, OrdrePoste, RetireDevant
  <2>3. lot'[w] = lot[w] \ {i} /\ \A v \in Workers : v # w => lot'[v] = lot[v]
    BY <2>1 DEF Passer, TypeOK
  <2>4. idle' = {} /\ pending' = pending \ {i}
    BY <2>1 DEF xack, Ordre
  <2>5. \A c \in Cycles : lot'[c] = {}
    <3>1. lot[w] # {}
      BY <2>1 DEF Tete
    <3> QED
      BY <2>3, <3>1, Postes DEF Ordre
  <2>6. ASSUME NEW j \in pending' PROVE j..dernierLu \subseteq pending'
    <3>1. i <= j /\ i # j /\ i \in Nat /\ j \in Nat
      BY <2>2, <2>4, <2>6, Longueurs DEF TypeOK
    <3>2. j..dernierLu \subseteq pending
      BY <2>4, <2>6 DEF Ordre
    <3>3. i \notin j..dernierLu
      BY <3>1
    <3> QED
      BY <2>4, <3>2, <3>3
  <2>7. \A j : j \in pending' <=> \E v \in Workers : j \in lot'[v]
    <3>1. \A j : j \in pending <=> \E v \in Workers : j \in lot[v]
      BY DEF Ordre
    <3> QED
      BY <2>2, <2>3, <2>4, <3>1
  <2>8. \A u, v \in Workers : u # v => lot'[u] \intersect lot'[v] = {}
    <3>1. \A v \in Workers : lot'[v] \subseteq lot[v]
      BY <2>3
    <3> QED
      BY <3>1 DEF Ordre
  <2>9. ASSUME NEW v \in Workers, NEW k, Retire(v, k)' PROVE \A j \in pending' : k <= j
    <3>1. Retire(v, k)
      BY <2>1, <2>9, PasserPorte
    <3> QED
      BY <2>4, <3>1 DEF Ordre
  <2> QED
    BY <2>1, <2>4, <2>5, <2>6, <2>7, <2>8, <2>9 DEF Ordre
<1>12. ASSUME NEW w \in Workers, NEW i \in Positions, handleMessageEchoue(w, i) PROVE Ordre'
  BY <1>0, <1>12 DEF handleMessageEchoue
<1>13. ASSUME UNCHANGED vars PROVE Ordre'
  BY <1>a, <1>13 DEF vars
<1> QED
  BY <1>0, <1>2, <1>3, <1>4, <1>5, <1>6, <1>7, <1>8, <1>9, <1>10, <1>11, <1>12, <1>13
     DEF Next, WorkerStep

LEMMA NombreEgal ==
    ASSUME NEW k, NEW n, \A j \in 1..k : Journal(j)' = Journal(j)
    PROVE  /\ Nombre(k, Departs(n))' = Nombre(k, Departs(n))
           /\ Nombre(k, Arrivees(n))' = Nombre(k, Arrivees(n))
<1>1. Departs(n)' = Departs(n) /\ Arrivees(n)' = Arrivees(n)
  BY DEF Departs, Arrivees
<1>2. Avant(k, Departs(n))' = Avant(k, Departs(n))
  <2>1. Avant(k, Departs(n))' = {j \in 1..k : Journal(j)' \in Departs(n)'}
    BY DEF Avant
  <2> QED
    BY <1>1, <2>1 DEF Avant
<1>3. Avant(k, Arrivees(n))' = Avant(k, Arrivees(n))
  <2>1. Avant(k, Arrivees(n))' = {j \in 1..k : Journal(j)' \in Arrivees(n)'}
    BY DEF Avant
  <2> QED
    BY <1>1, <2>1 DEF Avant
<1> QED
  BY <1>2, <1>3 DEF Nombre

(* Up to the end of a journal that nothing has disturbed, the condition    *)
(* stays what it was.                                                      *)
LEMMA FondeDebut ==
    ASSUME TypeOK, NEW n \in Noeuds, Fonde(n), \A j \in 1..Total : Journal(j)' = Journal(j),
           NEW j \in 1..Total, (Journal(j) \in Departs(n))'
    PROVE  Nombre(j - 1, Departs(n))' < Nombre(j - 1, Arrivees(n))'
<1>1. Departs(n)' = Departs(n)
  BY DEF Departs
<1>2. Journal(j) \in Departs(n)
  BY <1>1
<1>3. Nombre(j - 1, Departs(n)) < Nombre(j - 1, Arrivees(n))
  BY <1>2 DEF Fonde
<1>4. \A l \in 1..(j - 1) : Journal(l)' = Journal(l)
  BY Longueurs
<1>5. /\ Nombre(j - 1, Departs(n))' = Nombre(j - 1, Departs(n))
      /\ Nombre(j - 1, Arrivees(n))' = Nombre(j - 1, Arrivees(n))
  BY <1>4, NombreEgal
<1> QED
  BY <1>3, <1>5

LEMMA FondeAjout ==
    ASSUME TypeOK, Place, NEW e \in Evenements, outbox' = Append(outbox, e), UNCHANGED flux,
           NEW n \in Noeuds, Fonde(n),
           e[1] = n => Nombre(Total, Departs(n)) < Nombre(Total, Arrivees(n))
    PROVE  Fonde(n)'
<1>1. /\ Total \in Nat /\ Total' = Total + 1
      /\ \A j \in 1..Total : Journal(j)' = Journal(j)
      /\ \A j : j = Total + 1 => Journal(j)' = e
  BY AjoutOutbox, Longueurs
<1>2. ASSUME NEW j \in 1..Total', (Journal(j) \in Departs(n))'
      PROVE  Nombre(j - 1, Departs(n))' < Nombre(j - 1, Arrivees(n))'
  <2>1. CASE j \in 1..Total
    BY <1>1, <1>2, <2>1, FondeDebut
  <2>2. CASE j = Total + 1
    <3>1. Departs(n)' = Departs(n) /\ Journal(j)' = e
      BY <1>1, <2>2 DEF Departs
    <3>2. e[1] = n
      BY <1>2, <3>1 DEF Departs
    <3>3. j - 1 = Total
      BY <1>1, <2>2
    <3>4. Nombre(j - 1, Departs(n)) < Nombre(j - 1, Arrivees(n))
      BY <3>2, <3>3
    <3>5. \A l \in 1..(j - 1) : Journal(l)' = Journal(l)
      BY <1>1, <3>3
    <3>6. /\ Nombre(j - 1, Departs(n))' = Nombre(j - 1, Departs(n))
          /\ Nombre(j - 1, Arrivees(n))' = Nombre(j - 1, Arrivees(n))
      BY <3>5, NombreEgal
    <3> QED
      BY <3>4, <3>6
  <2> QED
    BY <1>1, <2>1, <2>2
<1> QED
  BY <1>2 DEF Fonde

LEMMA FondeStep ==
    ASSUME TypeOK, InvExact, [Next]_vars, perturbations' = 0, desordre' = FALSE, NEW n \in Noeuds
    PROVE  Fonde(n)'
<1>0. /\ perturbations = 0 /\ ~Perturbation /\ \A x \in Instances : ~onModuleDestroy(x)
      /\ desordre = FALSE
  BY PerturbationsCroissent, DesordreReste
<1>00. Amont(n) = 0 /\ Fonde(n)
  BY <1>0 DEF InvExact
<1>1. ASSUME Total' = Total, \A j \in 1..Total : Journal(j)' = Journal(j) PROVE Fonde(n)'
  <2>1. ASSUME NEW j \in 1..Total', (Journal(j) \in Departs(n))'
        PROVE  Nombre(j - 1, Departs(n))' < Nombre(j - 1, Arrivees(n))'
    <3>1. j \in 1..Total
      BY <1>1, <2>1
    <3> QED
      BY <1>00, <1>1, <2>1, <3>1, FondeDebut
  <2> QED
    BY <2>1 DEF Fonde
<1>2. ASSUME UNCHANGED <<flux, outbox>> PROVE Fonde(n)'
  <2>1. Total' = Total /\ \A j : Journal(j)' = Journal(j)
    BY <1>2 DEF Total, Journal
  <2> QED
    BY <1>1, <2>1
<1>3. ASSUME NEW v \in Villes, NEW p \in Places, createVille(v, p) PROVE Fonde(n)'
  <2> DEFINE e == <<Nul, p>>
  <2>1. e \in Evenements /\ e[1] = Nul /\ e[1] # n
    BY VilleAssumption DEF Evenements, Places
  <2>2. Place /\ outbox' = Append(outbox, e) /\ UNCHANGED flux
    BY <1>3 DEF createVille
  <2> HIDE DEF e
  <2> QED
    BY <1>00, <2>1, <2>2, FondeAjout
<1>4. ASSUME NEW d \in Deplacements, moveVilleCommit(d) PROVE Fonde(n)'
  <2>1. PICK m \in deplacement[d] : /\ rattachement' = [rattachement EXCEPT ![m[1]] = {m[3]}]
                                    /\ outbox' = Append(outbox, <<m[2], m[3]>>)
                                    /\ PerturbationSi(rattachement[m[1]] # {m[2]})
    BY <1>4 DEF moveVilleCommit
  <2> DEFINE e == <<m[2], m[3]>>
  <2>2. m \in Villes \X Places \X Places
    BY DEF TypeOK
  <2>3. rattachement[m[1]] = {m[2]}
    BY <1>0, <2>1 DEF PerturbationSi
  <2>4. e \in Evenements /\ e[1] = m[2]
    BY <2>2 DEF Evenements
  <2>5. Place /\ outbox' = Append(outbox, e) /\ UNCHANGED flux
    BY <1>4, <2>1 DEF moveVilleCommit
  <2> HIDE DEF e
  <2>6. ASSUME e[1] = n PROVE Nombre(Total, Departs(n)) < Nombre(Total, Arrivees(n))
    <3>1. m[1] \in Rattachees(n)
      BY <2>2, <2>3, <2>4, <2>6 DEF Rattachees
    <3>2. /\ IsFiniteSet(Rattachees(n)) /\ Reel(n) = Cardinality(Rattachees(n))
          /\ Reel(n) \in Nat
          /\ Nombre(Total, Arrivees(n)) \in Nat /\ Nombre(Total, Departs(n)) \in Nat
      BY AmontType
    <3>3. Reel(n) # 0
      BY <3>1, <3>2, FS_EmptySet
    <3>4. Reel(n) - Nombre(Total, Arrivees(n)) + Nombre(Total, Departs(n)) = 0
      BY <1>00 DEF Amont
    <3> QED
      BY <3>2, <3>3, <3>4
  <2> QED
    BY <1>00, <2>4, <2>5, <2>6, FondeAjout
<1>5. ASSUME NEW k \in 1..MaxFlux, relayer(k) PROVE Fonde(n)'
  <2>0. k = 1
    BY <1>5 DEF relayer, DesordreSi
  <2>1. k \in Nat /\ Marque(k)
    BY <1>0, <1>5, <2>0, RelayerCas DEF Copie
  <2>2. Total' = Total /\ \A j \in 1..Total : Journal(j)' = Journal(Rang(k, j))
    BY <1>5, <2>1, PassageFlux
  <2>3. \A j \in 1..Total : Rang(k, j) = j
    BY <2>0, Longueurs DEF Rang
  <2> QED
    BY <1>1, <2>2, <2>3
<1>6. ASSUME NEW d \in Deplacements, NEW v \in Villes, NEW p \in Places, moveVille(d, v, p)
      PROVE  Fonde(n)'
  BY <1>2, <1>6 DEF moveVille
<1>7. ASSUME \/ \E i \in Positions : Vieillir(i)
             \/ \E x \in Instances : runReadLoop(x)
             \/ \E c \in Cycles : runClaimCycle(c)
             \/ \E w \in Workers : WorkerStep(w)
             \/ UNCHANGED vars
      PROVE  Fonde(n)'
  BY <1>2, <1>7 DEF WorkerStep, Vieillir, runReadLoop, runClaimCycle, xclaim, decrementer,
     incrementer, acquitter, handleMessageEchoue, vars
<1> QED
  BY <1>0, <1>3, <1>4, <1>5, <1>6, <1>7 DEF Next

(* An entry about to be subtracted leaves a node counted above zero.       *)
LEMMA DecrementExact ==
    ASSUME TypeOK, InvEtape, Ordre, NEW w \in Workers, NEW i, Tete(w, i, "decrementer"),
           \A j \in pending : i <= j, NEW n \in Noeuds, Aval(n) = 0, Fonde(n), Journal(i) \in Departs(n)
    PROVE  compteur[n] > 0
<1>1. /\ i \in 1..dernierLu /\ Faits = 1..(i - 1)
      /\ \A v \in Workers : \A j : ~Tete(v, j, "xack") /\ ~Retire(v, j)
  <2> DEFINE s == "decrementer"
  <2>1. Tete(w, i, s) /\ s # "xack" /\ s = "decrementer"
    OBVIOUS
  <2> HIDE DEF s
  <2>2. /\ i \in 1..dernierLu /\ Faits = 1..(i - 1)
        /\ \A v \in Workers : \A j : Tete(v, j, "xack") => j = i /\ s = "xack"
        /\ \A v \in Workers : \A j : Retire(v, j) => s # "decrementer"
    BY <2>1, OrdreSeul, OrdrePoste
  <2> QED
    BY <2>1, <2>2
<1>2. Ajoutes = {} /\ EnCours(n) = {}
  BY <1>1 DEF Ajoutes, EnCours
<1>3. Arrives(n) = Avant(i - 1, Arrivees(n)) /\ Partis(n) = Avant(i - 1, Departs(n))
  BY <1>1, <1>2 DEF Arrives, Partis, Avant
<1>4. Cardinality(EnCours(n)) = 0
  BY <1>2, FS_EmptySet
<1>5. Nombre(i - 1, Arrivees(n)) - Nombre(i - 1, Departs(n)) - 0 - compteur[n] = 0
  BY <1>3, <1>4 DEF Aval, Nombre
<1>6. i \in 1..Total /\ i - 1 \in Nat
  BY <1>1, Longueurs
<1>7. Nombre(i - 1, Departs(n)) < Nombre(i - 1, Arrivees(n))
  BY <1>6 DEF Fonde
<1>8. Nombre(i - 1, Departs(n)) \in Nat /\ Nombre(i - 1, Arrivees(n)) \in Nat
  BY <1>6, AvantFini
<1>9. compteur[n] \in Nat
  BY DEF TypeOK
<1> QED
  BY <1>5, <1>7, <1>8, <1>9

LEMMA ExactStep ==
    ASSUME TypeOK, InvEtape, InvExact, [Next]_vars, perturbations' = 0, desordre' = FALSE,
           NEW n \in Noeuds
    PROVE  Amont(n)' = 0 /\ Aval(n)' = 0
<1>0. /\ perturbations = 0 /\ ~Perturbation /\ \A x \in Instances : ~onModuleDestroy(x)
      /\ desordre = FALSE
  BY PerturbationsCroissent, DesordreReste
<1>00. Amont(n) = 0 /\ Aval(n) = 0 /\ Fonde(n) /\ Ordre
  BY <1>0 DEF InvExact
<1> DEFINE But == Amont(n)' = 0 /\ Aval(n)' = 0
<1>a. ASSUME UNCHANGED <<groupVars, workerVars, compteur>>,
             UNCHANGED flux \/ \E k \in Nat : relayer(k), Amont(n)' = Amont(n)
      PROVE  But
  <2>1. Aval(n)' = Aval(n)
    BY <1>a, JournalDebut, AvalAmont
  <2> QED
    BY <1>00, <1>a, <2>1
<1>b. ASSUME UNCHANGED <<rattachement, flux, outbox>>, Aval(n)' = Aval(n) PROVE But
  BY <1>00, <1>b, AmontInchange
<1> HIDE DEF But
<1>1. ASSUME NEW v \in Villes, NEW p \in Places, createVille(v, p) PROVE But
  <2>1. Amont(n)' = Amont(n)
    BY <1>1, AmontCreate
  <2> QED
    BY <1>1, <1>a, <2>1 DEF createVille
<1>2. ASSUME NEW d \in Deplacements, NEW v \in Villes, NEW p \in Places, moveVille(d, v, p)
      PROVE  But
  <2>1. Amont(n)' = Amont(n)
    BY <1>2, AmontInchange DEF moveVille
  <2> QED
    BY <1>2, <1>a, <2>1 DEF moveVille
<1>3. ASSUME NEW d \in Deplacements, moveVilleCommit(d) PROVE But
  <2>1. perturbations' = perturbations => Amont(n)' = Amont(n)
    BY <1>3, AmontCommit
  <2> QED
    BY <1>0, <1>3, <1>a, <2>1 DEF moveVilleCommit
<1>4. ASSUME NEW k \in 1..MaxFlux, relayer(k) PROVE But
  <2>0. k \in Nat /\ Marque(k)
    BY <1>0, <1>4, Finitude, RelayerCas DEF Copie
  <2>1. k \in Nat /\ Amont(n)' = Amont(n)
    BY <1>4, <2>0, AmontRelayer
  <2>2. UNCHANGED <<groupVars, workerVars, compteur>>
    BY <1>4 DEF relayer
  <2> QED
    BY <1>4, <1>a, <2>1, <2>2
<1>5. ASSUME NEW i \in Positions, Vieillir(i) PROVE But
  <2>1. Aval(n)' = Aval(n)
    BY <1>5, VieillirBilan
  <2> QED
    BY <1>5, <1>b, <2>1 DEF Vieillir, referentialVars
<1>6. ASSUME NEW x \in Instances, runReadLoop(x) PROVE But
  <2>1. Aval(n)' = Aval(n)
    BY <1>6, RunReadLoopBilan
  <2> QED
    BY <1>6, <1>b, <2>1 DEF runReadLoop, referentialVars
<1>7. ASSUME NEW c \in Cycles, runClaimCycle(c) PROVE But
  <2>1. Aval(n)' = Aval(n)
    BY <1>7, RunClaimCycleBilan
  <2> QED
    BY <1>7, <1>b, <2>1 DEF runClaimCycle, referentialVars
<1>8. ASSUME NEW w \in Workers, NEW i \in Positions, xclaim(w, i) PROVE But
  <2>1. Aval(n)' = Aval(n)
    BY <1>8, XclaimBilan
  <2> QED
    BY <1>8, <1>b, <2>1 DEF xclaim, referentialVars
<1>9. ASSUME NEW w \in Workers, NEW i \in Positions, decrementer(w, i) PROVE But
  <2>1. Tete(w, i, "decrementer") /\ UNCHANGED <<rattachement, flux, outbox>>
    BY <1>9 DEF decrementer, referentialVars
  <2>2. Journal(i) \in Departs(n) => compteur[n] > 0
    <3>1. i \in lot[w] /\ ~\E v \in Workers : \E j \in lot[v] : j < i
      BY <1>9 DEF decrementer, DesordreSi, Tete
    <3>2. i \in Nat /\ pending \subseteq Nat
      BY <3>1, Longueurs DEF TypeOK
    <3>3. \A j \in pending : i <= j
      BY <1>00, <3>1, <3>2 DEF Ordre
    <3> QED
      BY <1>00, <2>1, <3>3, DecrementExact
  <2>3. (Journal(i) \in Departs(n) => compteur[n] > 0) => Aval(n)' = Aval(n)
    BY <1>9, DecrementerBilan
  <2> QED
    BY <1>b, <2>1, <2>2, <2>3
<1>10. ASSUME NEW w \in Workers, NEW i \in Positions, incrementer(w, i) PROVE But
  <2>1. Tete(w, i, "incrementer") /\ UNCHANGED <<rattachement, flux, outbox>>
    BY <1>10 DEF incrementer, referentialVars
  <2> DEFINE s == "incrementer"
  <2>2. Tete(w, i, s) /\ s # "xack"
    BY <2>1
  <2> HIDE DEF s
  <2>3. /\ i \in 1..dernierLu /\ Faits = 1..(i - 1)
        /\ \A v \in Workers : \A j : Tete(v, j, "xack") => j = i /\ s = "xack"
    <3>1. \A j \in pending : i <= j
      BY <1>00, <2>1, RetireDevant
    <3> QED
      BY <1>00, <2>2, <3>1, OrdreSeul, OrdrePoste
  <2>4. i \notin Faits \union Ajoutes
    BY <2>2, <2>3, Longueurs DEF Ajoutes
  <2>5. Aval(n)' = Aval(n)
    BY <1>10, <2>4, IncrementerBilan
  <2> QED
    BY <1>b, <2>1, <2>5
<1>11. ASSUME NEW w \in Workers, NEW i \in Positions, acquitter(w, i) PROVE But
  <2>1. /\ Tete(w, i, "xack") /\ xack(i) /\ Passer(w, i)
        /\ UNCHANGED <<rattachement, flux, outbox, dernierLu, compteur>>
    BY <1>11 DEF acquitter, referentialVars
  <2>2. i \in pending
    BY <1>00, <2>1, OrdrePoste
  <2>3. Aval(n)' = Aval(n)
    BY <2>1, <2>2, AvalXack
  <2> QED
    BY <1>b, <2>1, <2>3
<1>12. ASSUME NEW w \in Workers, NEW i \in Positions, handleMessageEchoue(w, i) PROVE But
  BY <1>0, <1>12 DEF handleMessageEchoue
<1>13. ASSUME UNCHANGED vars PROVE But
  <2>1. /\ UNCHANGED <<groupVars, workerVars, compteur, flux>>
        /\ UNCHANGED <<rattachement, flux, outbox>>
    BY <1>13 DEF vars, referentialVars
  <2>2. Amont(n)' = Amont(n)
    BY <2>1, AmontInchange
  <2> QED
    BY <1>a, <2>1, <2>2
<1>14. But
  BY <1>0, <1>1, <1>2, <1>3, <1>4, <1>5, <1>6, <1>7, <1>8, <1>9, <1>10, <1>11, <1>12, <1>13
     DEF Next, WorkerStep
<1> QED
  BY <1>14 DEF But

LEMMA ExactInit == Init => InvExact
<1> SUFFICES ASSUME Init PROVE InvExact
  OBVIOUS
<1>1. /\ flux = <<>> /\ outbox = <<>> /\ Len(flux) = 0 /\ Len(outbox) = 0
      /\ dernierLu = 0 /\ pending = {} /\ idle = {}
      /\ \A w \in Workers : lot[w] = {}
      /\ \A v \in Villes : rattachement[v] = {}
      /\ \A m \in Noeuds : compteur[m] = 0
  BY DEF Init
<1>2. Ordre
  BY <1>1, Postes DEF Ordre, Retire, Tete
<1>3. Total = 0 /\ 1..0 = {}
  BY <1>1 DEF Total
<1>4. ASSUME NEW n \in Noeuds PROVE Amont(n) = 0 /\ Aval(n) = 0 /\ Fonde(n)
  <2>1. /\ Avant(Total, Arrivees(n)) = {} /\ Avant(Total, Departs(n)) = {}
        /\ Rattachees(n) = {} /\ Arrives(n) = {} /\ Partis(n) = {} /\ EnCours(n) = {}
    BY <1>1, <1>3 DEF Avant, Rattachees, Arrives, Partis, EnCours, Faits, Ajoutes
  <2>2. Reel(n) = Cardinality(Rattachees(n))
    BY DEF Reel, Rattachees
  <2>3. Amont(n) = 0
    BY <2>1, <2>2, FS_EmptySet DEF Amont, Nombre
  <2>4. Aval(n) = 0
    BY <1>1, <2>1, FS_EmptySet DEF Aval
  <2>5. Fonde(n)
    BY <1>3 DEF Fonde
  <2> QED
    BY <2>3, <2>4, <2>5
<1> QED
  BY <1>2, <1>4 DEF InvExact

LEMMA InvExactStep == TypeOK /\ InvEtape /\ InvExact /\ [Next]_vars => InvExact'
<1> SUFFICES ASSUME TypeOK, InvEtape, InvExact, [Next]_vars, perturbations' = 0, desordre' = FALSE
             PROVE  Ordre' /\ \A n \in Noeuds : Amont(n)' = 0 /\ Aval(n)' = 0 /\ Fonde(n)'
  BY DEF InvExact
<1>1. perturbations = 0 /\ desordre = FALSE
  BY PerturbationsCroissent, DesordreReste
<1>2. Ordre
  BY <1>1 DEF InvExact
<1>3. Ordre'
  BY <1>2, OrdreStep
<1>4. ASSUME NEW n \in Noeuds PROVE Amont(n)' = 0 /\ Aval(n)' = 0 /\ Fonde(n)'
  BY ExactStep, FondeStep
<1> QED
  BY <1>3, <1>4

LEMMA CompteFinal == TypeOK /\ InvBorne /\ InvExact => CompteExactOuCourt
<1> SUFFICES ASSUME TypeOK, InvBorne, InvExact, Quiescent, NEW n \in Noeuds
             PROVE  /\ Reel(n) - compteur[n] <= perturbations
                    /\ perturbations = 0 /\ desordre = FALSE => compteur[n] = Reel(n)
  <2> SUFFICES ASSUME TypeOK, InvBorne, InvExact PROVE CompteExactOuCourt
    OBVIOUS
  <2>1. desordre \in BOOLEAN
    BY DEF TypeOK
  <2> QED
    BY <2>1 DEF CompteExactOuCourt
<1>1. /\ Surplus = 0 /\ Amont(n) + Aval(n) = Reel(n) - compteur[n]
      /\ Reel(n) \in Int /\ compteur[n] \in Int
  BY EcartFinal
<1>2. Amont(n) + Aval(n) + Surplus <= perturbations
  BY DEF InvBorne, Ecart
<1>3. Amont(n) \in Int /\ Aval(n) \in Int
  BY AmontType, AvalFini
<1>4. perturbations = 0 /\ desordre = FALSE => Amont(n) = 0 /\ Aval(n) = 0
  BY DEF InvExact
<1>5. Reel(n) - compteur[n] <= perturbations
  BY <1>1, <1>2, <1>3
<1>6. perturbations = 0 /\ desordre = FALSE => compteur[n] = Reel(n)
  BY <1>1, <1>3, <1>4
<1> QED
  BY <1>5, <1>6

(***************************************************************************)
(* Once every event has been handled, a node is counted short by at most   *)
(* one ville for each failed call, copy of an event, interrupted worker,   *)
(* early claim or overtaken move, whatever the instances do at once and in *)
(* whatever order; and compteur_villes_rattachees is exact if there was no *)
(* such perturbation and no event has overtaken another.  For any number   *)
(* of villes, nodes, instances, requests, claim cycles and events, and any *)
(* batch size.                                                             *)
(***************************************************************************)
THEOREM CompteExactOuCourtCorrect == Spec => []CompteExactOuCourt
<1> DEFINE Inv == TypeOK /\ InvEtape /\ InvBorne /\ InvExact
<1>1. Init => Inv
  BY TypeInit, BorneInit, ExactInit
<1>2. Inv /\ [Next]_vars => Inv'
  BY TypeStep, EtapeStep, BorneStep, InvExactStep
<1>3. Inv => CompteExactOuCourt
  BY CompteFinal
<1> QED
  BY <1>1, <1>2, <1>3, PTL DEF Spec


-----------------------------------------------------------------------------
(* The counter seen from the node: one event is one ville less on a node   *)
(* and one more on another, in two statements.                             *)
LEMMA CompteurStep == TypeOK /\ [Next]_vars => [Registre!Next]_compteur
<1> SUFFICES ASSUME TypeOK, [Next]_vars PROVE [Registre!Next]_compteur
    OBVIOUS
<1>1. compteur \in [Noeuds -> Nat]
      BY DEF TypeOK
<1>2. ASSUME NEW n, Decrement(n) PROVE [Registre!Next]_compteur
  <2>1. CASE n \in Noeuds /\ compteur[n] > 0
      BY <1>1, <1>2, <2>1 DEF Decrement, Registre!Next, Registre!decrementer
  <2>2. CASE ~(n \in Noeuds /\ compteur[n] > 0)
      BY <1>1, <1>2, <2>2 DEF Decrement
  <2> QED  BY <2>1, <2>2
<1>3. ASSUME NEW n, Increment(n) PROVE [Registre!Next]_compteur
  <2>1. CASE n \in Noeuds
      BY <1>1, <1>3, <2>1 DEF Increment, Registre!Next, Registre!incrementer
  <2>2. CASE n \notin Noeuds
      BY <1>1, <1>3, <2>2 DEF Increment
  <2> QED  BY <2>1, <2>2
<1>4. ASSUME NEW w, NEW i, decrementer(w, i) PROVE [Registre!Next]_compteur
      BY <1>2, <1>4 DEF decrementer
<1>5. ASSUME NEW w, NEW i, incrementer(w, i) PROVE [Registre!Next]_compteur
      BY <1>3, <1>5 DEF incrementer
<1>6. ASSUME NEW w, NEW i, handleMessageEchoue(w, i) PROVE [Registre!Next]_compteur
      BY <1>2, <1>3, <1>6 DEF handleMessageEchoue
<1>7. ASSUME NEW w, NEW i, xclaim(w, i) \/ acquitter(w, i) PROVE UNCHANGED compteur
      BY <1>7 DEF xclaim, acquitter
<1>8. CASE \E w \in Workers : WorkerStep(w)
      BY <1>4, <1>5, <1>6, <1>7, <1>8 DEF WorkerStep
<1>9. CASE ~\E w \in Workers : WorkerStep(w)
  <2>1. UNCHANGED compteur
      BY <1>9 DEF Next, vars, createVille, moveVille, moveVilleCommit, relayer, Vieillir,
                  runReadLoop, runClaimCycle, onModuleDestroy
  <2> QED  BY <2>1
<1> QED  BY <1>8, <1>9

(***************************************************************************)
(* Whatever is lost, repeated or reordered between referential and the     *)
(* consumer, the table of counters only ever goes up or down by one ville  *)
(* of one node and never below zero: what NoeudsHierarchiques assumes.     *)
(***************************************************************************)
THEOREM ImplementeCompteur == Spec => ImplementsCompteur
<1>1. Init => Registre!Init
      BY DEF Init, Registre!Init
<1> QED  BY <1>1, CompteurStep, TypeCorrect, PTL DEF Spec, ImplementsCompteur, Registre!Spec

=============================================================================
