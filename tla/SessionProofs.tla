----------------------------- MODULE SessionProofs -----------------------------
(***************************************************************************)
(* Proofs about the sessions of an account, for every number of requests,  *)
(* tokens, factors and codes.                                              *)
(***************************************************************************)
EXTENDS Session, FiniteSetTheorems, TLAPS

NaturesEcriture == {"login", "verification", "activation", "profil"}
Inscription == [nature |-> "inscription"]
Travaux == {Aucune, Inscription} \union [nature : {"rotation", "rejeu"}, jeton : Jetons]
             \union Ecritures

(* TypeOK by groups of columns.  No token is ever revoked: the rollback    *)
(* that follows revokeFamily takes it back.                                *)
CompteTypeOK ==
    /\ mfaActive \in BOOLEAN /\ defi \in BOOLEAN
    /\ facteurs \in [Facteurs -> {"absent", "en_attente_activation", "actif"}]
    /\ codes \in [Facteurs -> SUBSET Codes]
    /\ \A f \in Facteurs : facteurs[f] # "absent" \/ codes[f] = {}

JetonsTypeOK ==
    /\ emis \subseteq Jetons /\ famille \in [Jetons -> Jetons]
    /\ \A t \in emis : famille[t] \in emis
    /\ consommes \subseteq emis /\ revoques = {}

SuiviTypeOK ==
    /\ rejeux \subseteq emis /\ usages \in [Facteurs \X Codes -> Nat]
    /\ fourches \in Nat /\ chevauchements \in Nat /\ ecrasable \in BOOLEAN

(* The shape of what a request writes, and the factor it writes it to.     *)
Forme(r) ==
    requete[r].nature \in NaturesEcriture =>
        /\ \A f \in requete[r].facteur :
              facteurs[f] # "absent" /\ \A g \in requete[r].facteur : f = g
        /\ requete[r].nature \in {"login", "profil"} =>
              requete[r].facteur = {} /\ requete[r].code = {}
        /\ requete[r].nature = "activation" =>
              requete[r].code = {} /\ requete[r].facteur # {} /\ requete[r].mfa = TRUE
        /\ requete[r].code \subseteq requete[r].lus
        /\ \A c, d \in requete[r].code : c = d

RequetesTypeOK ==
    /\ requete \in [Requetes -> Travaux]
    /\ \A r \in Requetes :
          /\ requete[r].nature \in {"rotation", "rejeu"} => requete[r].jeton \in emis
          /\ Forme(r)

Types == CompteTypeOK /\ JetonsTypeOK /\ SuiviTypeOK /\ RequetesTypeOK

LEMMA TravailNature ==
    ASSUME NEW q \in Travaux
    PROVE  /\ q.nature \in NaturesEcriture <=> q \in Ecritures
           /\ q.nature \in {"rotation", "rejeu"} =>
                 q \in [nature : {"rotation", "rejeu"}, jeton : Jetons]
           /\ q.nature \notin {"rotation", "rejeu"} \union NaturesEcriture =>
                 q \in {Aucune, Inscription}
           /\ q.nature = "aucune" <=> q = Aucune
  BY DEF Travaux, Aucune, Inscription, Ecritures, NaturesEcriture

LEMMA TypesTypeOK == Types => TypeOK
<1> SUFFICES ASSUME Types PROVE TypeOK
  OBVIOUS
<1>1. ASSUME NEW r \in Requetes
      PROVE  \/ requete[r] \in {Aucune, [nature |-> "inscription"]}
             \/ requete[r].nature \in {"rotation", "rejeu"} /\ requete[r].jeton \in emis
             \/ requete[r] \in Ecritures
  BY TravailNature DEF Types, RequetesTypeOK, Inscription
<1> QED
  BY <1>1 DEF Types, TypeOK, CompteTypeOK, JetonsTypeOK, SuiviTypeOK

-----------------------------------------------------------------------------
(* The three steps of a request, on the request itself and on the others.  *)
LEMMA LireFaits ==
    ASSUME requete \in [Requetes -> Travaux], NEW r \in Requetes, NEW t \in Travaux, Lire(r, t)
    PROVE  /\ requete' \in [Requetes -> Travaux]
           /\ requete'[r] = t
           /\ \A a \in Requetes : a # r => requete'[a] = requete[a]
  BY DEF Lire

LEMMA FinirFaits ==
    ASSUME requete \in [Requetes -> Travaux], NEW r \in Requetes, Finir(r)
    PROVE  /\ requete' \in [Requetes -> Travaux]
           /\ requete'[r] = Aucune
           /\ \A a \in Requetes : a # r => requete'[a] = requete[a]
  BY DEF Finir, Travaux

LEMMA EcritureType ==
    ASSUME NEW nature \in NaturesEcriture, NEW mfa \in BOOLEAN, NEW facteur \in SUBSET Facteurs,
           NEW lus \in SUBSET Codes, NEW code \in SUBSET Codes
    PROVE  /\ Ecriture(nature, mfa, facteur, lus, code) \in Travaux
           /\ Ecriture(nature, mfa, facteur, lus, code) \in Ecritures
  BY DEF Ecriture, Ecritures, Travaux, NaturesEcriture

LEMMA DifferenceType ==
    ASSUME NEW S, NEW ligne, NEW copie \in S
    PROVE  Difference(ligne, copie) \subseteq S /\ Difference(ligne, copie) \subseteq {copie}
  BY DEF Difference

LEMMA AppliquerType ==
    ASSUME NEW S, NEW ligne \in S, NEW colonne \in SUBSET S
    PROVE  /\ Appliquer(ligne, colonne) \in S
           /\ colonne = {} => Appliquer(ligne, colonne) = ligne
           /\ colonne # {} => Appliquer(ligne, colonne) \in colonne
  BY DEF Appliquer

LEMMA SaveFaits ==
    ASSUME Types, NEW r \in Requetes, save(r)
    PROVE  /\ requete[r] \in Ecritures /\ requete[r].sauve = FALSE
           /\ requete' \in [Requetes -> Travaux] /\ requete'[r] \in Ecritures
           /\ \A a \in Requetes : a # r => requete'[a] = requete[a]
           /\ requete'[r].nature = requete[r].nature
           /\ requete'[r].mfa = requete[r].mfa
           /\ requete'[r].facteur = requete[r].facteur
           /\ requete'[r].lus = requete[r].lus
           /\ requete'[r].code = requete[r].code
           /\ requete'[r].depasse = requete[r].depasse
           /\ requete'[r].sauve = TRUE
           /\ requete'[r].colonneMfa = Difference(mfaActive, requete[r].mfa)
           /\ requete'[r].colonneCodes = colonneCodes(requete[r])
           /\ colonneCodes(requete[r]) \subseteq {requete[r].lus \ requete[r].code}
<1> DEFINE q == requete[r]
           q1 == [q EXCEPT !.sauve = TRUE, !.colonneMfa = Difference(mfaActive, q.mfa),
                           !.colonneCodes = colonneCodes(q)]
<1>1. q \in Ecritures
  BY TravailNature DEF save, Types, RequetesTypeOK, NaturesEcriture
<1>2. q.mfa \in BOOLEAN /\ q.lus \in SUBSET Codes /\ q.code \in SUBSET Codes
  BY <1>1 DEF Ecritures
<1>3. Difference(mfaActive, q.mfa) \in SUBSET BOOLEAN
  BY <1>2, DifferenceType
<1>4. colonneCodes(q) \subseteq {q.lus \ q.code} /\ colonneCodes(q) \in SUBSET SUBSET Codes
  BY <1>2 DEF colonneCodes, consumeRecoveryCode, Difference
<1>5. q1 \in Ecritures /\ q1 \in Travaux
  BY <1>1, <1>3, <1>4 DEF Ecritures, Travaux
<1>6. requete' = [requete EXCEPT ![r] = q1]
  BY DEF save
<1>7. requete'[r] = q1 /\ requete' \in [Requetes -> Travaux]
      /\ \A a \in Requetes : a # r => requete'[a] = requete[a]
  BY <1>5, <1>6 DEF Types, RequetesTypeOK
<1>8. q1.nature = q.nature /\ q1.mfa = q.mfa /\ q1.facteur = q.facteur /\ q1.lus = q.lus
      /\ q1.code = q.code /\ q1.depasse = q.depasse /\ q1.sauve = TRUE
      /\ q1.colonneMfa = Difference(mfaActive, q.mfa) /\ q1.colonneCodes = colonneCodes(q)
  BY <1>1 DEF Ecritures
<1>9. q.sauve = FALSE
  BY <1>1 DEF save, Ecritures
<1> HIDE DEF q1
<1> QED
  BY <1>1, <1>4, <1>5, <1>7, <1>8, <1>9

LEMMA EcrireFaits ==
    ASSUME Types, NEW r \in Requetes, ecrireCompte(r)
    PROVE  /\ requete[r] \in Ecritures /\ requete[r].sauve = TRUE
           /\ requete' \in [Requetes -> Travaux]
           /\ requete'[r] = Aucune
           /\ \A a \in Requetes : a # r /\ a \notin Depassees(r) => requete'[a] = requete[a]
           /\ \A a \in Requetes : a # r /\ a \in Depassees(r) =>
                 /\ requete[a] \in Ecritures /\ requete'[a] \in Ecritures
                 /\ requete'[a].nature = requete[a].nature
                 /\ requete'[a].mfa = requete[a].mfa
                 /\ requete'[a].facteur = requete[a].facteur
                 /\ requete'[a].lus = requete[a].lus
                 /\ requete'[a].code = requete[a].code
                 /\ requete'[a].sauve = requete[a].sauve
                 /\ requete'[a].colonneMfa = requete[a].colonneMfa
                 /\ requete'[a].colonneCodes = requete[a].colonneCodes
                 /\ requete'[a].depasse = TRUE
           /\ mfaActive' = Appliquer(mfaActive, requete[r].colonneMfa)
           /\ mfaActive' \in BOOLEAN
           /\ codes' \in [Facteurs -> SUBSET Codes]
           /\ \A f \in Facteurs : f \notin requete[r].facteur => codes'[f] = codes[f]
           /\ \A f \in requete[r].facteur : 
                 /\ f \in Facteurs
                 /\ codes'[f] = Appliquer(codes[f], requete[r].colonneCodes)
                 /\ requete[r].colonneCodes = {} => codes'[f] = codes[f]
                 /\ requete[r].colonneCodes # {} => codes'[f] \in requete[r].colonneCodes
<1>1. requete[r] \in Ecritures
  BY TravailNature DEF ecrireCompte, Types, RequetesTypeOK, Aucune, Inscription
<1>2. /\ requete[r].sauve \in BOOLEAN /\ requete[r].facteur \subseteq Facteurs
      /\ requete[r].colonneMfa \subseteq BOOLEAN
      /\ requete[r].colonneCodes \subseteq SUBSET Codes
  BY <1>1 DEF Ecritures
<1>3. requete[r].sauve = TRUE
  BY <1>2 DEF ecrireCompte
<1>4. \A a \in Requetes : a # r /\ a \in Depassees(r) => requete[a] \in Ecritures
  BY TravailNature DEF Depassees, Types, RequetesTypeOK, NaturesEcriture
<1>5. ASSUME NEW q \in Ecritures
      PROVE  /\ [q EXCEPT !.depasse = TRUE] \in Ecritures
             /\ [q EXCEPT !.depasse = TRUE].nature = q.nature
             /\ [q EXCEPT !.depasse = TRUE].mfa = q.mfa
             /\ [q EXCEPT !.depasse = TRUE].facteur = q.facteur
             /\ [q EXCEPT !.depasse = TRUE].lus = q.lus
             /\ [q EXCEPT !.depasse = TRUE].code = q.code
             /\ [q EXCEPT !.depasse = TRUE].sauve = q.sauve
             /\ [q EXCEPT !.depasse = TRUE].colonneMfa = q.colonneMfa
             /\ [q EXCEPT !.depasse = TRUE].colonneCodes = q.colonneCodes
             /\ [q EXCEPT !.depasse = TRUE].depasse = TRUE
  BY DEF Ecritures
<1>6. /\ requete' = [a \in Requetes |->
                        IF a = r THEN Aucune
                        ELSE IF a \in Depassees(r) THEN [requete[a] EXCEPT !.depasse = TRUE]
                        ELSE requete[a]]
      /\ mfaActive' = Appliquer(mfaActive, requete[r].colonneMfa)
      /\ codes' = CodesEcrits(requete[r])
  BY DEF ecrireCompte
<1>7. requete'[r] = Aucune
      /\ \A a \in Requetes : a # r /\ a \notin Depassees(r) => requete'[a] = requete[a]
  BY <1>6
<1>8. ASSUME NEW a \in Requetes, a # r, a \in Depassees(r)
      PROVE  requete'[a] = [requete[a] EXCEPT !.depasse = TRUE] /\ requete[a] \in Ecritures
  BY <1>4, <1>6, <1>8
<1>9. requete' \in [Requetes -> Travaux]
  <2>1. ASSUME NEW a \in Requetes PROVE requete'[a] \in Travaux
    <3>1. CASE a = r
      BY <1>7, <3>1 DEF Travaux
    <3>2. CASE a # r /\ a \notin Depassees(r)
      BY <1>7, <3>2 DEF Types, RequetesTypeOK
    <3>3. CASE a # r /\ a \in Depassees(r)
      BY <1>5, <1>8, <3>3 DEF Travaux
    <3> QED
      BY <3>1, <3>2, <3>3
  <2> QED
    BY <1>6, <2>1
<1>10. mfaActive' \in BOOLEAN
  BY <1>2, <1>6, AppliquerType DEF Types, CompteTypeOK
<1>11. ASSUME NEW f \in Facteurs
       PROVE  /\ codes'[f] = IF f \in requete[r].facteur
                             THEN Appliquer(codes[f], requete[r].colonneCodes) ELSE codes[f]
              /\ codes[f] \in SUBSET Codes
  BY <1>6 DEF CodesEcrits, Types, CompteTypeOK
<1>12. ASSUME NEW f \in Facteurs
       PROVE  /\ codes'[f] \in SUBSET Codes
              /\ f \notin requete[r].facteur => codes'[f] = codes[f]
              /\ f \in requete[r].facteur =>
                    /\ codes'[f] = Appliquer(codes[f], requete[r].colonneCodes)
                    /\ requete[r].colonneCodes = {} => codes'[f] = codes[f]
                    /\ requete[r].colonneCodes # {} => codes'[f] \in requete[r].colonneCodes
  <2>1. /\ Appliquer(codes[f], requete[r].colonneCodes) \in SUBSET Codes
        /\ requete[r].colonneCodes = {} =>
              Appliquer(codes[f], requete[r].colonneCodes) = codes[f]
        /\ requete[r].colonneCodes # {} =>
              Appliquer(codes[f], requete[r].colonneCodes) \in requete[r].colonneCodes
    BY <1>2, <1>11 DEF Appliquer
  <2> QED
    BY <1>11, <2>1
<1>13. codes' \in [Facteurs -> SUBSET Codes]
  BY <1>6, <1>12 DEF CodesEcrits
<1>14. ASSUME NEW a \in Requetes, a # r, a \in Depassees(r)
       PROVE  /\ requete[a] \in Ecritures /\ requete'[a] \in Ecritures
              /\ requete'[a].nature = requete[a].nature
              /\ requete'[a].mfa = requete[a].mfa
              /\ requete'[a].facteur = requete[a].facteur
              /\ requete'[a].lus = requete[a].lus
              /\ requete'[a].code = requete[a].code
              /\ requete'[a].sauve = requete[a].sauve
              /\ requete'[a].colonneMfa = requete[a].colonneMfa
              /\ requete'[a].colonneCodes = requete[a].colonneCodes
              /\ requete'[a].depasse = TRUE
  BY <1>5, <1>8, <1>14
<1>15. ASSUME NEW f \in requete[r].facteur
       PROVE  /\ f \in Facteurs
              /\ codes'[f] = Appliquer(codes[f], requete[r].colonneCodes)
              /\ requete[r].colonneCodes = {} => codes'[f] = codes[f]
              /\ requete[r].colonneCodes # {} => codes'[f] \in requete[r].colonneCodes
  BY <1>2, <1>12
<1>16. \A f \in Facteurs : f \notin requete[r].facteur => codes'[f] = codes[f]
  BY <1>12
<1>17. mfaActive' = Appliquer(mfaActive, requete[r].colonneMfa)
  BY <1>6
<1> QED
  BY <1>1, <1>3, <1>7, <1>9, <1>10, <1>13, <1>14, <1>15, <1>16, <1>17

-----------------------------------------------------------------------------
(* A request that does not change its factor, and one that has no more to  *)
(* write, keep the shape of a request.                                     *)
FacteursGardes == \A f \in Facteurs : facteurs[f] # "absent" => facteurs'[f] # "absent"

MemesChamps(a) ==
    /\ requete'[a].nature = requete[a].nature /\ requete'[a].mfa = requete[a].mfa
    /\ requete'[a].facteur = requete[a].facteur
    /\ requete'[a].lus = requete[a].lus /\ requete'[a].code = requete[a].code

LEMMA FormeReste ==
    ASSUME Types, FacteursGardes, NEW a \in Requetes, MemesChamps(a)
    PROVE  Forme(a)'
<1> SUFFICES ASSUME requete[a].nature \in NaturesEcriture
             PROVE  Forme(a)'
  BY DEF Forme, MemesChamps
<1>1. requete[a] \in Ecritures
  BY TravailNature DEF Types, RequetesTypeOK
<1>2. requete[a].facteur \subseteq Facteurs
  BY <1>1 DEF Ecritures
<1>3. Forme(a)
  BY DEF Types, RequetesTypeOK
<1>4. \A f \in requete[a].facteur : facteurs'[f] # "absent"
  BY <1>2, <1>3 DEF Forme, FacteursGardes
<1> QED
  BY <1>3, <1>4 DEF Forme, MemesChamps

LEMMA FormeAucune ==
    ASSUME NEW a \in Requetes, requete'[a].nature \notin NaturesEcriture
    PROVE  Forme(a)'
  BY DEF Forme

(* What the actions of a request do to the table of requests.              *)
LEMMA RequetesReste ==
    ASSUME Types, FacteursGardes, requete' \in [Requetes -> Travaux], emis \subseteq emis',
           \A a \in Requetes :
              \/ requete'[a] = requete[a]
              \/ MemesChamps(a) /\ requete[a] \in Ecritures
              \/ requete'[a] = Aucune
    PROVE  RequetesTypeOK'
<1>1. ASSUME NEW a \in Requetes
      PROVE  /\ requete'[a].nature \in {"rotation", "rejeu"} => requete'[a].jeton \in emis'
             /\ Forme(a)'
  <2>1. CASE requete'[a] = requete[a]
    BY <2>1, FormeReste DEF MemesChamps, Types, RequetesTypeOK
  <2>2. CASE MemesChamps(a) /\ requete[a] \in Ecritures
    BY <2>2, FormeReste DEF MemesChamps, Ecritures
  <2>3. CASE requete'[a] = Aucune
    BY <2>3, FormeAucune DEF Aucune, NaturesEcriture
  <2> QED
    BY <2>1, <2>2, <2>3
<1> QED
  BY <1>1 DEF RequetesTypeOK

LEMMA RequetesFinie ==
    ASSUME Types, FacteursGardes, emis \subseteq emis', NEW r \in Requetes, Finir(r)
    PROVE  RequetesTypeOK'
<1>1. /\ requete' \in [Requetes -> Travaux] /\ requete'[r] = Aucune
      /\ \A a \in Requetes : a # r => requete'[a] = requete[a]
  BY FinirFaits DEF Types, RequetesTypeOK
<1> QED
  BY <1>1, RequetesReste

LEMMA RequetesLues ==
    ASSUME Types, UNCHANGED <<facteurs, emis>>, NEW r \in Requetes, NEW t \in Travaux, Lire(r, t),
           t.nature \in {"rotation", "rejeu"} => t.jeton \in emis,
           Forme(r)'
    PROVE  RequetesTypeOK'
<1>1. /\ requete' \in [Requetes -> Travaux] /\ requete'[r] = t
      /\ \A a \in Requetes : a # r => requete'[a] = requete[a]
  BY LireFaits DEF Types, RequetesTypeOK
<1>2. ASSUME NEW a \in Requetes, a # r
      PROVE  /\ requete'[a].nature \in {"rotation", "rejeu"} => requete'[a].jeton \in emis'
             /\ Forme(a)'
  <2>1. requete'[a] = requete[a] /\ MemesChamps(a) /\ FacteursGardes
    BY <1>1, <1>2 DEF MemesChamps, FacteursGardes
  <2> QED
    BY <2>1, FormeReste DEF Types, RequetesTypeOK
<1> QED
  BY <1>1, <1>2 DEF RequetesTypeOK

(* A request that reads the account to write it back.                      *)
Lue(r) ==
    /\ requete'[r] \in Ecritures
    /\ requete'[r].sauve = FALSE /\ requete'[r].depasse = FALSE
    /\ requete'[r].colonneMfa = {} /\ requete'[r].colonneCodes = {}
    /\ requete'[r].nature # "activation" => requete'[r].mfa = mfaActive
    /\ requete'[r].nature = "activation" => requete'[r].mfa = TRUE
    /\ requete'[r].nature = "verification" => \E f \in Facteurs : facteurs[f] = "actif"
    /\ \A f \in requete'[r].facteur : codes[f] = requete'[r].lus

(* What a read may hold, and where it comes from.                          *)
Coherente(nature, mfa, facteur, lus, code) ==
    /\ \A f \in facteur : facteurs[f] # "absent" /\ \A g \in facteur : f = g
    /\ nature \in {"login", "profil"} => facteur = {} /\ code = {}
    /\ nature = "activation" => code = {} /\ facteur # {} /\ mfa = TRUE
    /\ \A c, d \in code : c = d
    /\ nature # "activation" => mfa = mfaActive
    /\ nature = "verification" => \E f \in Facteurs : facteurs[f] = "actif"
    /\ \A f \in facteur : codes[f] = lus

LEMMA EcritureLue ==
    ASSUME Types, UNCHANGED <<facteurs, emis>>, NEW r \in Requetes,
           NEW nature \in NaturesEcriture, NEW mfa \in BOOLEAN, NEW facteur \in SUBSET Facteurs,
           NEW lus \in SUBSET Codes, NEW code \in SUBSET lus,
           Lire(r, Ecriture(nature, mfa, facteur, lus, code)),
           Coherente(nature, mfa, facteur, lus, code)
    PROVE  /\ RequetesTypeOK' /\ Lue(r)
           /\ \A a \in Requetes : a # r => requete'[a] = requete[a]
<1> DEFINE t == Ecriture(nature, mfa, facteur, lus, code)
<1>1. t \in Travaux /\ t \in Ecritures
  BY EcritureType
<1>2. /\ requete' \in [Requetes -> Travaux] /\ requete'[r] = t
      /\ \A a \in Requetes : a # r => requete'[a] = requete[a]
  BY <1>1, LireFaits DEF Types, RequetesTypeOK
<1>3. /\ t.nature = nature /\ t.mfa = mfa /\ t.facteur = facteur /\ t.lus = lus /\ t.code = code
      /\ t.sauve = FALSE /\ t.depasse = FALSE /\ t.colonneMfa = {} /\ t.colonneCodes = {}
  BY DEF Ecriture
<1>4. Forme(r)'
  <2> HIDE DEF t
  <2> QED
    BY <1>2, <1>3 DEF Forme, Coherente
<1>5. t.nature \notin {"rotation", "rejeu"}
  BY <1>3 DEF NaturesEcriture
<1>6. Lue(r)
  <2> HIDE DEF t
  <2> QED
    BY <1>1, <1>2, <1>3 DEF Lue, Coherente
<1> HIDE DEF t
<1>7. RequetesTypeOK'
  BY <1>1, <1>4, <1>5, RequetesLues DEF t
<1> QED
  BY <1>2, <1>6, <1>7

LEMMA RequetesEcrites ==
    ASSUME Types, FacteursGardes, emis \subseteq emis', NEW r \in Requetes, ecrireCompte(r)
    PROVE  RequetesTypeOK'
<1>1. ASSUME NEW a \in Requetes
      PROVE  \/ requete'[a] = requete[a]
             \/ MemesChamps(a) /\ requete[a] \in Ecritures
             \/ requete'[a] = Aucune
  BY EcrireFaits DEF MemesChamps
<1>2. requete' \in [Requetes -> Travaux]
  BY EcrireFaits
<1> QED
  BY <1>1, <1>2, RequetesReste

(* The reads of a request, each with what it holds afterwards.             *)
Lectures(r) ==
    \/ authenticate(r) \/ exchangeSupabaseSession(r) \/ verifyMfaChallenge(r)
    \/ startMfaEnrollment(r) \/ confirmMfaEnrollment(r)
    \/ updateReferentiel(r) \/ assertValidAndConsume(r)

LEMMA LecturesFaits ==
    ASSUME Types, NEW r \in Requetes, Lectures(r)
    PROVE  /\ UNCHANGED <<mfaVars, jetonVars, suiviVars>> /\ defi' \in BOOLEAN
           /\ RequetesTypeOK'
           /\ \A a \in Requetes : a # r => requete'[a] = requete[a]
           /\ requete'[r] = requete[r] \/ requete'[r].nature \notin NaturesEcriture \/ Lue(r)
<1> DEFINE But ==
           /\ RequetesTypeOK'
           /\ \A a \in Requetes : a # r => requete'[a] = requete[a]
           /\ requete'[r] = requete[r] \/ requete'[r].nature \notin NaturesEcriture \/ Lue(r)
<1>1. UNCHANGED <<mfaVars, jetonVars, suiviVars>> /\ defi' \in BOOLEAN
  BY DEF Lectures, authenticate, exchangeSupabaseSession, verifyMfaChallenge, startMfaEnrollment,
         confirmMfaEnrollment, updateReferentiel, assertValidAndConsume, Types, CompteTypeOK
<1>2. UNCHANGED <<facteurs, emis>>
  BY <1>1 DEF mfaVars, jetonVars
<1> SUFFICES But
  BY <1>1
<1>3. mfaActive \in BOOLEAN /\ \A f \in Facteurs : codes[f] \in SUBSET Codes
  BY DEF Types, CompteTypeOK
<1>e. /\ "login" \in NaturesEcriture /\ "verification" \in NaturesEcriture
      /\ "activation" \in NaturesEcriture /\ "profil" \in NaturesEcriture
      /\ FALSE \in BOOLEAN /\ TRUE \in BOOLEAN
      /\ {} \in SUBSET Facteurs /\ {} \in SUBSET Codes /\ {} \in SUBSET {}
  BY DEF NaturesEcriture
<1>w. ASSUME NEW nature \in {"login", "profil"}, NEW mfa \in BOOLEAN, mfa = mfaActive,
             Lire(r, Ecriture(nature, mfa, {}, {}, {}))
      PROVE  But
  <2>1. nature \in NaturesEcriture /\ nature # "verification" /\ nature # "activation"
    BY DEF NaturesEcriture
  <2>2. RequetesTypeOK' /\ Lue(r) /\ \A a \in Requetes : a # r => requete'[a] = requete[a]
    <3> DEFINE vide == {}
    <3>1. /\ vide \in SUBSET Facteurs /\ vide \in SUBSET Codes /\ vide \in SUBSET vide
          /\ \A f \in vide : facteurs[f] # "absent" /\ \A g \in vide : f = g
          /\ \A c, d \in vide : c = d
          /\ \A f \in vide : codes[f] = vide
      OBVIOUS
    <3>2. Lire(r, Ecriture(nature, mfa, vide, vide, vide))
      BY <1>w
    <3>3. vide = {}
      OBVIOUS
    <3> HIDE DEF vide
    <3> QED
      <4>1. Coherente(nature, mfa, vide, vide, vide)
        BY <1>w, <2>1, <3>1, <3>3 DEF Coherente
      <4> QED
        BY <1>2, <2>1, <3>1, <3>2, <4>1, EcritureLue
  <2> QED
    BY <2>2
<1>4. CASE authenticate(r)
  <2>1. CASE ~mfaActive /\ Lire(r, Ecriture("login", FALSE, {}, {}, {}))
    <3>1. FALSE = mfaActive
      BY <1>3, <2>1
    <3> QED
      BY <1>e, <1>w, <2>1, <3>1
  <2>2. CASE UNCHANGED requete
    <3>1. RequetesTypeOK'
      BY <1>2, <2>2, RequetesReste DEF Types, RequetesTypeOK, FacteursGardes
    <3> QED
      BY <2>2, <3>1
  <2> QED
    BY <1>4, <2>1, <2>2 DEF authenticate
<1>5. CASE exchangeSupabaseSession(r)
  BY <1>3, <1>5, <1>w DEF exchangeSupabaseSession
<1>6. CASE updateReferentiel(r)
  BY <1>3, <1>6, <1>w DEF updateReferentiel
<1>7. CASE verifyMfaChallenge(r)
  <2>1. PICK f \in Facteurs, code \in {{}} \union {{c} : c \in Codes} :
            /\ facteurs[f] = "actif" /\ code \subseteq codes[f]
            /\ Lire(r, Ecriture("verification", mfaActive, {f}, codes[f], code))
    BY <1>7 DEF verifyMfaChallenge
  <2>2. PICK S \in SUBSET Facteurs : S = {f}
    OBVIOUS
  <2>3. PICK mfa \in BOOLEAN, lus \in SUBSET Codes : mfa = mfaActive /\ lus = codes[f]
    BY <1>3
  <2>4. PICK n \in NaturesEcriture : n = "verification"
    BY <1>e
  <2>5. /\ code \in SUBSET lus /\ \A c, d \in code : c = d
        /\ \A g \in S : facteurs[g] # "absent" /\ \A h \in S : g = h
        /\ \A g \in S : codes[g] = lus
        /\ \E g \in Facteurs : facteurs[g] = "actif"
        /\ n \notin {"login", "profil", "activation"}
    BY <2>1, <2>2, <2>3, <2>4
  <2>6. Lire(r, Ecriture(n, mfa, S, lus, code))
    BY <2>1, <2>2, <2>3, <2>4
  <2>7. RequetesTypeOK' /\ Lue(r) /\ \A a \in Requetes : a # r => requete'[a] = requete[a]
    <3>1. Coherente(n, mfa, S, lus, code)
      BY <2>3, <2>4, <2>5 DEF Coherente
    <3> QED
      BY <1>2, <2>5, <2>6, <3>1, EcritureLue
  <2> QED
    BY <2>7
<1>8. CASE confirmMfaEnrollment(r)
  <2>1. PICK f \in Facteurs : /\ facteurs[f] # "absent"
                              /\ Lire(r, Ecriture("activation", TRUE, {f}, codes[f], {}))
    BY <1>8 DEF confirmMfaEnrollment
  <2>2. PICK S \in SUBSET Facteurs : S = {f}
    OBVIOUS
  <2>3. PICK mfa \in BOOLEAN, lus \in SUBSET Codes : mfa = TRUE /\ lus = codes[f]
    BY <1>3, <1>e
  <2>4. PICK n \in NaturesEcriture, vide \in SUBSET lus : n = "activation" /\ vide = {}
    BY <1>e
  <2>5. /\ \A c, d \in vide : c = d
        /\ \A g \in S : facteurs[g] # "absent" /\ \A h \in S : g = h
        /\ \A g \in S : codes[g] = lus
        /\ n \notin {"login", "profil", "verification"} /\ S # {}
    BY <2>1, <2>2, <2>3, <2>4
  <2>6. Lire(r, Ecriture(n, mfa, S, lus, vide))
    BY <2>1, <2>2, <2>3, <2>4
  <2>7. RequetesTypeOK' /\ Lue(r) /\ \A a \in Requetes : a # r => requete'[a] = requete[a]
    <3>1. Coherente(n, mfa, S, lus, vide)
      BY <2>3, <2>4, <2>5 DEF Coherente
    <3> QED
      BY <1>2, <2>5, <2>6, <3>1, EcritureLue
  <2> QED
    BY <2>7
<1>9. CASE startMfaEnrollment(r)
  <2>1. Lire(r, Inscription) /\ Inscription \in Travaux
    BY <1>9 DEF startMfaEnrollment, Inscription, Travaux
  <2>2. /\ requete'[r] = Inscription
        /\ \A a \in Requetes : a # r => requete'[a] = requete[a]
    BY <2>1, LireFaits DEF Types, RequetesTypeOK
  <2>3. requete'[r].nature \notin NaturesEcriture
        /\ Inscription.nature \notin {"rotation", "rejeu"}
    BY <2>2 DEF Inscription, NaturesEcriture
  <2>4. RequetesTypeOK'
    BY <1>2, <2>1, <2>3, FormeAucune, RequetesLues
  <2> QED
    BY <2>2, <2>3, <2>4
<1>10. CASE assertValidAndConsume(r)
  <2>1. PICK t \in emis :
            Lire(r, [nature |-> IF t \in consommes THEN "rejeu" ELSE "rotation", jeton |-> t])
    BY <1>10 DEF assertValidAndConsume
  <2> DEFINE q == [nature |-> IF t \in consommes THEN "rejeu" ELSE "rotation", jeton |-> t]
  <2>2. q \in Travaux /\ q.nature \in {"rotation", "rejeu"} /\ q.jeton \in emis
    BY DEF Travaux, Types, JetonsTypeOK
  <2>3. Lire(r, q)
    BY <2>1
  <2> HIDE DEF q
  <2>4. /\ requete'[r] = q
        /\ \A a \in Requetes : a # r => requete'[a] = requete[a]
    BY <2>2, <2>3, LireFaits DEF Types, RequetesTypeOK
  <2>5. requete'[r].nature \notin NaturesEcriture
    BY <2>2, <2>4 DEF NaturesEcriture
  <2>6. RequetesTypeOK'
    BY <1>2, <2>2, <2>3, <2>5, FormeAucune, RequetesLues
  <2> QED
    BY <2>4, <2>5, <2>6
<1> QED
  BY <1>1, <1>4, <1>5, <1>6, <1>7, <1>8, <1>9, <1>10 DEF Lectures

LEMMA TypesStep == ASSUME Types, [Next]_vars PROVE Types'
<1>u. /\ UNCHANGED <<mfaVars, defi>> => CompteTypeOK' /\ FacteursGardes
      /\ UNCHANGED jetonVars => JetonsTypeOK'
      /\ UNCHANGED <<jetonVars, suiviVars>> => SuiviTypeOK'
  BY DEF Types, CompteTypeOK, JetonsTypeOK, SuiviTypeOK, mfaVars, jetonVars, suiviVars,
         FacteursGardes
<1>1. ASSUME NEW r \in Requetes, Lectures(r) PROVE Types'
  <2>1. CompteTypeOK'
    BY <1>1, LecturesFaits DEF Types, CompteTypeOK, mfaVars
  <2> QED
    BY <1>1, <1>u, <2>1, LecturesFaits DEF Types
<1>2. ASSUME NEW r \in Requetes, save(r) PROVE Types'
  <2>0. UNCHANGED <<mfaVars, defi, jetonVars, suiviVars>>
    BY <1>2 DEF save
  <2>1. ASSUME NEW a \in Requetes
        PROVE  requete'[a] = requete[a] \/ (MemesChamps(a) /\ requete[a] \in Ecritures)
    BY <1>2, SaveFaits DEF MemesChamps
  <2>2. requete' \in [Requetes -> Travaux] /\ emis \subseteq emis'
    BY <1>2, <2>0, SaveFaits DEF jetonVars
  <2>3. RequetesTypeOK'
    BY <1>u, <2>0, <2>1, <2>2, RequetesReste
  <2> QED
    BY <1>u, <2>0, <2>3 DEF Types
<1>c. ASSUME NEW r \in Requetes, ecrireCompte(r),
             \A f \in Facteurs : \/ facteurs'[f] = facteurs[f]
                                 \/ f \in requete[r].facteur /\ facteurs'[f] = "actif",
             facteurs' \in [Facteurs -> {"absent", "en_attente_activation", "actif"}],
             UNCHANGED defi
      PROVE  CompteTypeOK' /\ FacteursGardes
  <2>1. FacteursGardes
    BY <1>c DEF FacteursGardes
  <2>2. \A f \in requete[r].facteur : facteurs[f] # "absent"
    <3>1. requete[r] \in Ecritures /\ Forme(r)
      BY <1>c, EcrireFaits DEF Types, RequetesTypeOK
    <3> QED
      BY <3>1 DEF Forme, Ecritures, NaturesEcriture
  <2>3. ASSUME NEW f \in Facteurs PROVE facteurs'[f] # "absent" \/ codes'[f] = {}
    <3>1. CASE f \in requete[r].facteur
      BY <2>1, <2>2, <3>1 DEF FacteursGardes
    <3>2. CASE f \notin requete[r].facteur
      <4>1. codes'[f] = codes[f] /\ facteurs'[f] = facteurs[f]
        BY <1>c, <3>2, EcrireFaits
      <4> QED
        BY <4>1 DEF Types, CompteTypeOK
    <3> QED
      BY <3>1, <3>2
  <2>4. mfaActive' \in BOOLEAN /\ codes' \in [Facteurs -> SUBSET Codes]
    BY <1>c, EcrireFaits
  <2>5. defi' \in BOOLEAN
    BY <1>c DEF Types, CompteTypeOK
  <2> QED
    BY <1>c, <2>1, <2>3, <2>4, <2>5 DEF CompteTypeOK
<1>i. ASSUME NEW t \in Jetons, NEW f \in Jetons, issue(t, f), f \in emis \/ f = t,
             consommes' \subseteq emis, revoques' = {}
      PROVE  JetonsTypeOK' /\ emis \subseteq emis'
  <2>1. /\ t \notin emis /\ emis' = emis \union {t} /\ famille' = [famille EXCEPT ![t] = f]
    BY <1>i DEF issue
  <2>2. famille' \in [Jetons -> Jetons] /\ emis' \subseteq Jetons
    BY <2>1 DEF Types, JetonsTypeOK
  <2>3. ASSUME NEW x \in emis' PROVE famille'[x] \in emis'
    BY <1>i, <2>1 DEF Types, JetonsTypeOK
  <2> QED
    BY <1>i, <2>1, <2>2, <2>3 DEF JetonsTypeOK
<1>3. ASSUME NEW r \in Requetes, completeAuthentication(r) PROVE Types'
  <2>1. /\ ecrireCompte(r) /\ UNCHANGED <<facteurs, defi, consommes, revoques, rejeux, fourches,
                                          ecrasable>>
    BY <1>3 DEF completeAuthentication
  <2>2. PICK t \in Jetons : issue(t, t)
    BY <1>3 DEF completeAuthentication
  <2>3. JetonsTypeOK' /\ emis \subseteq emis'
    BY <1>i, <2>1, <2>2 DEF Types, JetonsTypeOK
  <2>4. CompteTypeOK' /\ FacteursGardes
    BY <1>c, <2>1 DEF Types, CompteTypeOK
  <2>5. usages' \in [Facteurs \X Codes -> Nat]
    <3>1. usages' = [u \in Facteurs \X Codes |->
                        IF u[1] \in requete[r].facteur /\ u[2] \in requete[r].code
                        THEN usages[u] + 1 ELSE usages[u]]
      BY <1>3 DEF completeAuthentication
    <3> QED
      BY <3>1 DEF Types, SuiviTypeOK
  <2>6. chevauchements' \in Nat
    BY <1>3 DEF completeAuthentication, Types, SuiviTypeOK
  <2>7. SuiviTypeOK'
    BY <2>1, <2>3, <2>5, <2>6 DEF Types, SuiviTypeOK
  <2> QED
    BY <2>1, <2>3, <2>4, <2>7, RequetesEcrites DEF Types
<1>4. ASSUME NEW r \in Requetes, profilEcrit(r) PROVE Types'
  <2>1. ecrireCompte(r) /\ UNCHANGED <<facteurs, defi, jetonVars, suiviVars>>
    BY <1>4 DEF profilEcrit
  <2>2. CompteTypeOK' /\ FacteursGardes
    BY <1>c, <2>1 DEF Types, CompteTypeOK
  <2>3. emis \subseteq emis'
    BY <2>1 DEF jetonVars
  <2> QED
    BY <1>u, <2>1, <2>2, <2>3, RequetesEcrites DEF Types
<1>5. ASSUME NEW r \in Requetes, enableMfa(r) PROVE Types'
  <2>1. ecrireCompte(r) /\ facteurs' = activate(r)
        /\ UNCHANGED <<defi, jetonVars, rejeux, usages, fourches>>
    BY <1>5 DEF enableMfa
  <2>2. /\ facteurs' \in [Facteurs -> {"absent", "en_attente_activation", "actif"}]
        /\ \A f \in Facteurs : \/ facteurs'[f] = facteurs[f]
                               \/ f \in requete[r].facteur /\ facteurs'[f] = "actif"
    BY <2>1 DEF activate, Types, CompteTypeOK
  <2>3. CompteTypeOK' /\ FacteursGardes
    BY <1>c, <2>1, <2>2
  <2>4. emis \subseteq emis'
    BY <2>1 DEF jetonVars
  <2>5. chevauchements' \in Nat
    BY <1>5 DEF enableMfa, Types, SuiviTypeOK
  <2>6. ecrasable' \in BOOLEAN
    <3>1. ecrasable' = (ecrasable \/ CopieSansMfa(r))
      BY <1>5 DEF enableMfa
    <3> QED
      BY <3>1
  <2>7. SuiviTypeOK'
    BY <2>1, <2>5, <2>6 DEF Types, SuiviTypeOK, jetonVars
  <2> QED
    BY <1>u, <2>1, <2>3, <2>4, <2>7, RequetesEcrites DEF Types
<1>6. ASSUME NEW r \in Requetes, createPending(r) PROVE Types'
  <2>1. PICK f \in Facteurs :
            /\ facteurs[f] = "absent"
            /\ facteurs' = [facteurs EXCEPT ![f] = "en_attente_activation"]
            /\ codes' = [codes EXCEPT ![f] = Codes]
    BY <1>6 DEF createPending
  <2>2. Finir(r) /\ UNCHANGED <<mfaActive, defi, jetonVars, suiviVars>>
    BY <1>6 DEF createPending
  <2>3. CompteTypeOK' /\ FacteursGardes
    BY <2>1, <2>2 DEF Types, CompteTypeOK, FacteursGardes
  <2>4. emis \subseteq emis'
    BY <2>2 DEF jetonVars
  <2> QED
    BY <1>u, <2>2, <2>3, <2>4, RequetesFinie DEF Types
<1>7. ASSUME NEW r \in Requetes, rotation(r) PROVE Types'
  <2>1. /\ requete[r].nature = "rotation" /\ consommer(requete[r].jeton)
        /\ revoques' = revoques \ {requete[r].jeton}
        /\ \E n \in Jetons : issue(n, famille[requete[r].jeton])
        /\ fourches' = IF requete[r].jeton \in consommes THEN fourches + 1 ELSE fourches
        /\ Finir(r)
        /\ UNCHANGED <<mfaVars, defi, rejeux, usages, chevauchements, ecrasable>>
    BY <1>7 DEF rotation
  <2>2. requete[r].jeton \in emis
    BY <2>1 DEF Types, RequetesTypeOK
  <2>3. famille[requete[r].jeton] \in emis /\ famille[requete[r].jeton] \in Jetons
        /\ consommes' \subseteq emis /\ revoques' = {}
    BY <2>1, <2>2 DEF Types, JetonsTypeOK, consommer
  <2>4. JetonsTypeOK' /\ emis \subseteq emis'
    BY <1>i, <2>1, <2>3
  <2>5. SuiviTypeOK'
    BY <2>1, <2>4 DEF Types, SuiviTypeOK
  <2> QED
    BY <1>u, <2>1, <2>4, <2>5, RequetesFinie DEF Types
<1>8. ASSUME NEW r \in Requetes, rejeu(r) PROVE Types'
  <2>1. /\ requete[r].nature = "rejeu" /\ rejeux' = rejeux \union {famille[requete[r].jeton]}
        /\ Finir(r)
        /\ UNCHANGED <<mfaVars, defi, jetonVars, usages, fourches, chevauchements, ecrasable>>
    BY <1>8 DEF rejeu
  <2>2. famille[requete[r].jeton] \in emis
    BY <2>1 DEF Types, RequetesTypeOK, JetonsTypeOK
  <2>3. SuiviTypeOK' /\ emis \subseteq emis'
    BY <2>1, <2>2 DEF Types, SuiviTypeOK, jetonVars
  <2> QED
    BY <1>u, <2>1, <2>3, RequetesFinie DEF Types
<1>9. ASSUME NEW r \in Requetes, abandon(r) PROVE Types'
  <2>1. Finir(r) /\ UNCHANGED <<mfaVars, defi, jetonVars, suiviVars>>
    BY <1>9 DEF abandon
  <2>2. emis \subseteq emis'
    BY <2>1 DEF jetonVars
  <2> QED
    BY <1>u, <2>1, <2>2, RequetesFinie DEF Types
<1>10. CASE UNCHANGED vars
  <2>1. RequetesTypeOK'
    BY <1>10, RequetesReste DEF vars, Types, RequetesTypeOK, FacteursGardes, mfaVars, jetonVars
  <2> QED
    BY <1>10, <1>u, <2>1 DEF vars, Types
<1> QED
  BY <1>1, <1>2, <1>3, <1>4, <1>5, <1>6, <1>7, <1>8, <1>9, <1>10 DEF Next, Lectures

LEMMA TypesInit == Init => Types
<1> SUFFICES ASSUME Init PROVE Types
  OBVIOUS
<1>1. CompteTypeOK /\ JetonsTypeOK /\ SuiviTypeOK
  BY DEF Init, CompteTypeOK, JetonsTypeOK, SuiviTypeOK
<1>2. ASSUME NEW r \in Requetes PROVE requete[r] = Aucune
  BY DEF Init
<1>3. requete \in [Requetes -> Travaux]
  BY DEF Init, Travaux
<1>4. RequetesTypeOK
  BY <1>2, <1>3 DEF RequetesTypeOK, Forme, Aucune, NaturesEcriture
<1> QED
  BY <1>1, <1>4 DEF Types

LEMMA TypesCorrect == Spec => []Types
  BY TypesInit, TypesStep, PTL DEF Spec

(* Every column, and everything a request holds, keeps its type.           *)
THEOREM TypeCorrect == Spec => []TypeOK
  BY TypesCorrect, TypesTypeOK, PTL

-----------------------------------------------------------------------------
(* Rotation: the cardinality facts, then the only two actions that issue.  *)
LEMMA SousEnsemble ==
    ASSUME NEW S, IsFiniteSet(S), NEW T \in SUBSET S
    PROVE  IsFiniteSet(T) /\ Cardinality(T) \in Nat /\ Cardinality(T) <= Cardinality(S)
  BY FS_Subset, FS_CardinalityType

LEMMA UnDePlus ==
    ASSUME NEW S, IsFiniteSet(S), NEW x, NEW T \in SUBSET (S \union {x})
    PROVE  Cardinality(T) <= Cardinality(S) + 1
<1>1. /\ IsFiniteSet(S \union {x}) /\ Cardinality(S) \in Nat
      /\ Cardinality(S \union {x}) = IF x \in S THEN Cardinality(S) ELSE Cardinality(S) + 1
  BY FS_AddElement, FS_CardinalityType
<1>2. Cardinality(T) <= Cardinality(S \union {x}) /\ Cardinality(T) \in Nat
  BY <1>1, SousEnsemble
<1> QED
  BY <1>1, <1>2

LEMMA UnEchange ==
    ASSUME NEW S, IsFiniteSet(S), NEW y \in S, NEW x, NEW T \in SUBSET ((S \ {y}) \union {x})
    PROVE  Cardinality(T) <= Cardinality(S)
<1>1. IsFiniteSet(S \ {y}) /\ Cardinality(S \ {y}) = Cardinality(S) - 1
      /\ Cardinality(S) \in Nat
  BY FS_RemoveElement, FS_CardinalityType
<1>2. Cardinality(T) <= Cardinality(S \ {y}) + 1
  BY <1>1, UnDePlus
<1>3. IsFiniteSet((S \ {y}) \union {x})
  BY <1>1, FS_AddElement
<1>4. Cardinality(T) \in Nat
  BY <1>3, SousEnsemble
<1> QED
  BY <1>1, <1>2, <1>4

LEMMA VivantsFinis ==
    ASSUME Types, NEW f
    PROVE  IsFiniteSet(Vivants(f)) /\ Cardinality(Vivants(f)) \in Nat
<1>1. Vivants(f) \in SUBSET Jetons
  BY DEF Vivants, Types, JetonsTypeOK
<1> QED
  BY <1>1, SousEnsemble, SessionAssumption

LEMMA RotationStep ==
    ASSUME Types, Types', RotationSansFourche, [Next]_vars
    PROVE  RotationSansFourche'
<1>f. fourches \in Nat /\ fourches' \in Nat
  BY DEF Types, SuiviTypeOK
<1>1. CASE UNCHANGED jetonVars /\ fourches' = fourches
  BY <1>1 DEF RotationSansFourche, Vivants, jetonVars
<1>2. ASSUME NEW r \in Requetes, completeAuthentication(r) PROVE RotationSansFourche'
  <2>1. PICK t \in Jetons : issue(t, t)
    BY <1>2 DEF completeAuthentication
  <2>2. /\ t \notin emis /\ emis' = emis \union {t} /\ famille' = [famille EXCEPT ![t] = t]
        /\ consommes' = consommes /\ revoques' = revoques /\ fourches' = fourches
    BY <1>2, <2>1 DEF issue, completeAuthentication
  <2>3. ASSUME NEW f \in emis' PROVE Cardinality(Vivants(f)') <= 1 + fourches'
    <3>1. CASE f = t
      <4>1. Vivants(f)' \in SUBSET ({} \union {t})
        BY <2>2, <3>1 DEF Vivants, Types, JetonsTypeOK
      <4>2. IsFiniteSet({}) /\ Cardinality({}) = 0
        BY FS_EmptySet
      <4>3. Cardinality(Vivants(f)') <= Cardinality({}) + 1
        BY <4>1, <4>2, UnDePlus
      <4>4. Cardinality(Vivants(f)') \in Nat
        <5>1. Vivants(f)' \in SUBSET Jetons
          BY <4>1
        <5> QED
          BY <5>1, SousEnsemble, SessionAssumption
      <4> QED
        BY <1>f, <4>2, <4>3, <4>4
    <3>2. CASE f # t
      <4>1. Vivants(f)' = Vivants(f) /\ f \in emis
        BY <2>2, <3>2 DEF Vivants, Types, JetonsTypeOK
      <4> QED
        BY <2>2, <4>1 DEF RotationSansFourche
    <3> QED
      BY <3>1, <3>2
  <2> QED
    BY <2>3 DEF RotationSansFourche
<1>3. ASSUME NEW r \in Requetes, rotation(r) PROVE RotationSansFourche'
  <2> DEFINE t == requete[r].jeton
  <2>0. requete[r].nature = "rotation" /\ t \in emis /\ t \in Jetons
    BY <1>3 DEF rotation, Types, RequetesTypeOK, JetonsTypeOK
  <2>1. PICK n \in Jetons : issue(n, famille[t])
    BY <1>3 DEF rotation
  <2>2. /\ n \notin emis /\ emis' = emis \union {n}
        /\ famille' = [famille EXCEPT ![n] = famille[t]]
        /\ consommes' = consommes \union {t} /\ revoques' = revoques \ {t}
        /\ fourches' = IF t \in consommes THEN fourches + 1 ELSE fourches
    BY <1>3, <2>1 DEF issue, rotation, consommer
  <2> HIDE DEF t
  <2>3. /\ revoques = {} /\ famille[t] \in emis /\ emis \subseteq Jetons
        /\ famille \in [Jetons -> Jetons] /\ \A x \in emis : famille[x] \in emis
    BY <2>0 DEF Types, JetonsTypeOK
  <2>4. \A x \in emis : famille'[x] = famille[x]
    BY <2>2, <2>3
  <2>5. famille'[n] = famille[t]
    BY <2>2, <2>3
  <2>6. fourches <= fourches'
    BY <1>f, <2>2
  <2>7. ASSUME NEW f \in emis' PROVE Cardinality(Vivants(f)') <= 1 + fourches'
    <3>1. CASE f = n
      <4>1. Vivants(f)' = {}
        BY <2>2, <2>3, <2>4, <2>5, <3>1 DEF Vivants
      <4> QED
        BY <1>f, <4>1, FS_EmptySet
    <3>2. CASE f # n /\ f # famille[t]
      <4>1. Vivants(f)' \in SUBSET Vivants(f) /\ f \in emis
        BY <2>2, <2>3, <2>4, <2>5, <3>2 DEF Vivants
      <4>2. Cardinality(Vivants(f)') <= Cardinality(Vivants(f))
            /\ Cardinality(Vivants(f)') \in Nat /\ Cardinality(Vivants(f)) \in Nat
        BY <4>1, VivantsFinis, SousEnsemble
      <4>3. Cardinality(Vivants(f)) <= 1 + fourches
        BY <4>1 DEF RotationSansFourche
      <4> QED
        BY <1>f, <2>6, <4>2, <4>3
    <3>3. CASE f = famille[t]
      <4>0. /\ Cardinality(Vivants(f)) \in Nat /\ IsFiniteSet(Vivants(f))
            /\ Cardinality(Vivants(f)') \in Nat
        <5>1. Vivants(f)' \in SUBSET Jetons
          BY <2>2, <2>3 DEF Vivants
        <5> QED
          BY <5>1, VivantsFinis, SousEnsemble, SessionAssumption
      <4>1. Cardinality(Vivants(f)) <= 1 + fourches
        BY <2>3, <3>3 DEF RotationSansFourche
      <4>2. CASE t \in consommes
        <5>1. Vivants(f)' \in SUBSET (Vivants(f) \union {n})
          BY <2>2, <2>3, <2>4 DEF Vivants
        <5>2. Cardinality(Vivants(f)') <= Cardinality(Vivants(f)) + 1
          BY <4>0, <5>1, UnDePlus
        <5> QED
          BY <1>f, <2>2, <4>0, <4>1, <4>2, <5>2
      <4>3. CASE t \notin consommes
        <5>1. Vivants(f)' \in SUBSET ((Vivants(f) \ {t}) \union {n}) /\ t \in Vivants(f)
          BY <2>0, <2>2, <2>3, <2>4, <3>3, <4>3 DEF Vivants
        <5>2. Cardinality(Vivants(f)') <= Cardinality(Vivants(f))
          BY <4>0, <5>1, UnEchange
        <5> QED
          BY <1>f, <2>6, <4>0, <4>1, <5>2
      <4> QED
        BY <4>2, <4>3
    <3> QED
      BY <3>1, <3>2, <3>3
  <2> QED
    BY <2>7 DEF RotationSansFourche
<1>4. ASSUME NEW r \in Requetes, Lectures(r) \/ save(r) PROVE UNCHANGED jetonVars /\ fourches' = fourches
  BY <1>4, LecturesFaits DEF save, suiviVars
<1>5. ASSUME NEW r \in Requetes,
             profilEcrit(r) \/ enableMfa(r) \/ createPending(r) \/ rejeu(r) \/ abandon(r)
      PROVE  UNCHANGED jetonVars /\ fourches' = fourches
  BY <1>5 DEF profilEcrit, enableMfa, createPending, rejeu, abandon, suiviVars
<1>6. CASE UNCHANGED vars
  BY <1>1, <1>6 DEF vars, suiviVars
<1> QED
  BY <1>1, <1>2, <1>3, <1>4, <1>5, <1>6 DEF Next, Lectures

(* Rotation leaves one usable refresh token per lineage, and one more for  *)
(* each rotation of a token that another refresh had consumed meanwhile.   *)
THEOREM RotationSansFourcheCorrect == Spec => []RotationSansFourche
<1>1. Init => RotationSansFourche
  BY DEF Init, RotationSansFourche
<1>2. Types /\ Types' /\ RotationSansFourche /\ [Next]_vars => RotationSansFourche'
  BY RotationStep
<1> QED
  BY <1>1, <1>2, TypesCorrect, PTL DEF Spec

-----------------------------------------------------------------------------
(* The second factor: what a request in progress will write of mfaActive.  *)
DejaActif == \E f \in Facteurs : facteurs[f] = "actif"

ReqMfa(r) ==
    requete[r].nature \in NaturesEcriture =>
        /\ requete[r].colonneMfa \subseteq {requete[r].mfa}
        /\ requete[r].mfa = TRUE
              /\ \/ requete[r].nature # "activation"
                 \/ requete[r].sauve = TRUE /\ requete[r].colonneMfa = {}
           => DejaActif
        /\ DejaActif /\ ecrasable = FALSE => requete[r].mfa = TRUE

InvMfa ==
    /\ mfaActive = TRUE => DejaActif
    /\ DejaActif => mfaActive = TRUE \/ ecrasable = TRUE
    /\ \A r \in Requetes : ReqMfa(r)

LEMMA InvMfaCoherente == Types /\ InvMfa => MfaCoherente
  BY DEF Types, CompteTypeOK, SuiviTypeOK, InvMfa, MfaCoherente, DejaActif

(* A request that nothing touched, in a state where what it relies on held. *)
LEMMA ReqMfaReste ==
    ASSUME NEW a, ReqMfa(a),
           requete'[a].nature = requete[a].nature, requete'[a].mfa = requete[a].mfa,
           requete'[a].sauve = requete[a].sauve,
           requete'[a].colonneMfa = requete[a].colonneMfa,
           DejaActif => DejaActif',
           requete[a].nature \in NaturesEcriture /\ DejaActif' /\ ecrasable' = FALSE
              => requete[a].mfa = TRUE
    PROVE  ReqMfa(a)'
  BY DEF ReqMfa

LEMMA ReqMfaFinie == ASSUME NEW a, requete'[a] = Aucune PROVE ReqMfa(a)'
  BY DEF ReqMfa, Aucune, NaturesEcriture

LEMMA MfaStep == ASSUME Types, Types', InvMfa, [Next]_vars PROVE InvMfa'
<1>b. mfaActive \in BOOLEAN /\ ecrasable \in BOOLEAN
  BY DEF Types, CompteTypeOK, SuiviTypeOK
<1>r. ASSUME NEW a \in Requetes, requete[a].nature \in NaturesEcriture
      PROVE  /\ requete[a] \in Ecritures /\ requete[a].mfa \in BOOLEAN
             /\ Forme(a) /\ ReqMfa(a)
  BY <1>r, TravailNature DEF Types, RequetesTypeOK, InvMfa, Ecritures
<1>n. ASSUME NEW a \in Requetes, requete'[a] = requete[a],
             DejaActif' = DejaActif, ecrasable' = ecrasable
      PROVE  ReqMfa(a)'
  BY <1>n, ReqMfaReste DEF InvMfa, ReqMfa
<1>1. ASSUME NEW r \in Requetes, Lectures(r) PROVE InvMfa'
  <2>1. /\ mfaActive' = mfaActive /\ DejaActif' = DejaActif /\ ecrasable' = ecrasable
        /\ \A a \in Requetes : a # r => requete'[a] = requete[a]
        /\ requete'[r] = requete[r] \/ requete'[r].nature \notin NaturesEcriture \/ Lue(r)
    BY <1>1, LecturesFaits DEF mfaVars, suiviVars, DejaActif
  <2>2. ASSUME Lue(r), requete'[r].nature \in NaturesEcriture PROVE ReqMfa(r)'
    <3>1. /\ requete'[r].colonneMfa = {} /\ requete'[r].sauve = FALSE
          /\ requete'[r].nature # "activation" => requete'[r].mfa = mfaActive
          /\ requete'[r].nature = "activation" => requete'[r].mfa = TRUE
      BY <2>2 DEF Lue
    <3> QED
      BY <1>b, <2>1, <3>1 DEF ReqMfa, InvMfa
  <2>3. ReqMfa(r)'
    BY <1>n, <2>1, <2>2 DEF ReqMfa
  <2>4. ASSUME NEW a \in Requetes PROVE ReqMfa(a)'
    BY <1>n, <2>1, <2>3
  <2> QED
    BY <2>1, <2>4 DEF InvMfa
<1>2. ASSUME NEW r \in Requetes, save(r) PROVE InvMfa'
  <2>1. /\ mfaActive' = mfaActive /\ DejaActif' = DejaActif /\ ecrasable' = ecrasable
    BY <1>2 DEF save, mfaVars, suiviVars, DejaActif
  <2>2. /\ \A a \in Requetes : a # r => requete'[a] = requete[a]
        /\ requete'[r].nature = requete[r].nature /\ requete'[r].mfa = requete[r].mfa
        /\ requete'[r].colonneMfa = Difference(mfaActive, requete[r].mfa)
        /\ requete[r].nature \in NaturesEcriture
    BY <1>2, SaveFaits DEF Ecritures, NaturesEcriture
  <2>3. requete'[r].colonneMfa \subseteq {requete'[r].mfa}
        /\ (requete'[r].colonneMfa = {} => mfaActive = requete[r].mfa)
    BY <2>2 DEF Difference
  <2>4. ReqMfa(r)'
    BY <1>r, <2>1, <2>2, <2>3 DEF ReqMfa, InvMfa
  <2>5. ASSUME NEW a \in Requetes PROVE ReqMfa(a)'
    BY <1>n, <2>1, <2>2, <2>4
  <2> QED
    BY <2>1, <2>5 DEF InvMfa
<1>e. ASSUME NEW r \in Requetes, ecrireCompte(r)
      PROVE  /\ requete[r] \in Ecritures /\ requete[r].sauve = TRUE
             /\ requete[r].nature \in NaturesEcriture
             /\ requete'[r] = Aucune
             /\ \A a \in Requetes : a # r =>
                   /\ requete'[a].nature = requete[a].nature /\ requete'[a].mfa = requete[a].mfa
                   /\ requete'[a].sauve = requete[a].sauve
                   /\ requete'[a].colonneMfa = requete[a].colonneMfa
             /\ requete[r].colonneMfa = {} => mfaActive' = mfaActive
             /\ requete[r].colonneMfa # {} => mfaActive' = requete[r].mfa
  <2>1. requete[r] \in Ecritures /\ requete[r].nature \in NaturesEcriture
    BY <1>e, EcrireFaits DEF Ecritures, NaturesEcriture
  <2>2. requete[r].colonneMfa \subseteq {requete[r].mfa}
    BY <1>r, <2>1 DEF ReqMfa
  <2>3. mfaActive' = Appliquer(mfaActive, requete[r].colonneMfa)
    BY <1>e, EcrireFaits
  <2>4. /\ requete[r].colonneMfa = {} => mfaActive' = mfaActive
        /\ requete[r].colonneMfa # {} => mfaActive' = requete[r].mfa
    BY <2>2, <2>3 DEF Appliquer
  <2>5. ASSUME NEW a \in Requetes, a # r
        PROVE  /\ requete'[a].nature = requete[a].nature /\ requete'[a].mfa = requete[a].mfa
               /\ requete'[a].sauve = requete[a].sauve
               /\ requete'[a].colonneMfa = requete[a].colonneMfa
    BY <1>e, <2>5, EcrireFaits
  <2>6. requete[r].sauve = TRUE /\ requete'[r] = Aucune
    BY <1>e, EcrireFaits
  <2> QED
    BY <2>1, <2>4, <2>5, <2>6
<1>3. ASSUME NEW r \in Requetes, completeAuthentication(r) \/ profilEcrit(r) PROVE InvMfa'
  <2>1. /\ ecrireCompte(r) /\ DejaActif' = DejaActif /\ ecrasable' = ecrasable
        /\ requete[r].nature # "activation"
    BY <1>3 DEF completeAuthentication, profilEcrit, suiviVars, DejaActif
  <2>2. ASSUME NEW a \in Requetes PROVE ReqMfa(a)'
    <3>1. CASE a = r
      BY <1>e, <2>1, <3>1, ReqMfaFinie
    <3>2. CASE a # r
      <4>1. ReqMfa(a)
        BY DEF InvMfa
      <4> QED
        BY <1>e, <2>1, <3>2, <4>1, ReqMfaReste DEF ReqMfa
    <3> QED
      BY <3>1, <3>2
  <2>3. ReqMfa(r) /\ requete[r].mfa \in BOOLEAN
    BY <1>e, <1>r, <2>1
  <2>4. mfaActive' = TRUE => DejaActif'
    BY <1>e, <2>1, <2>3 DEF InvMfa, ReqMfa
  <2>5. DejaActif' => mfaActive' = TRUE \/ ecrasable' = TRUE
    BY <1>b, <1>e, <2>1, <2>3 DEF InvMfa, ReqMfa
  <2> QED
    BY <2>2, <2>4, <2>5 DEF InvMfa
<1>4. ASSUME NEW r \in Requetes, enableMfa(r) PROVE InvMfa'
  <2>1. /\ ecrireCompte(r) /\ requete[r].nature = "activation" /\ facteurs' = activate(r)
        /\ ecrasable' = (ecrasable \/ CopieSansMfa(r))
    BY <1>4 DEF enableMfa
  <2>2. requete[r] \in Ecritures /\ requete[r].facteur # {} /\ requete[r].mfa = TRUE
    BY <1>e, <1>r, <2>1 DEF Forme
  <2>3. PICK f \in Facteurs : f \in requete[r].facteur
    BY <2>2 DEF Ecritures
  <2>4. DejaActif'
    BY <2>1, <2>3 DEF DejaActif, activate
  <2>5. ecrasable' = FALSE => ecrasable = FALSE /\ ~CopieSansMfa(r)
    BY <1>b, <2>1
  <2>6. ASSUME NEW a \in Requetes, a # r, requete[a].nature \in NaturesEcriture,
               ecrasable' = FALSE
        PROVE  requete[a].mfa = TRUE
    <3>1. CASE requete[a].nature = "activation"
      BY <1>r, <2>6, <3>1 DEF Forme
    <3>2. CASE requete[a].nature # "activation"
      <4>1. requete[a].nature \in {"login", "profil", "verification"}
        BY <2>6, <3>2 DEF NaturesEcriture
      <4>2. ~(~requete[a].mfa)
        BY <2>5, <2>6, <4>1 DEF CopieSansMfa
      <4> QED
        BY <1>r, <2>6, <4>2
    <3> QED
      BY <3>1, <3>2
  <2>7. ASSUME NEW a \in Requetes PROVE ReqMfa(a)'
    <3>1. CASE a = r
      BY <1>e, <2>1, <3>1, ReqMfaFinie
    <3>2. CASE a # r
      <4>1. ReqMfa(a)
        BY DEF InvMfa
      <4> QED
        BY <1>e, <2>1, <2>4, <2>6, <3>2, <4>1, ReqMfaReste
    <3> QED
      BY <3>1, <3>2
  <2>8. mfaActive' = TRUE \/ ecrasable' = TRUE
    <3>1. CASE requete[r].colonneMfa # {}
      BY <1>e, <2>1, <2>2, <3>1
    <3>2. CASE requete[r].colonneMfa = {}
      <4>1. DejaActif
        BY <1>e, <1>r, <2>1, <2>2, <3>2 DEF ReqMfa
      <4>2. mfaActive' = mfaActive
        BY <1>e, <2>1, <3>2
      <4>3. ecrasable = TRUE => ecrasable' = TRUE
        BY <2>1
      <4> QED
        BY <4>1, <4>2, <4>3 DEF InvMfa
    <3> QED
      BY <3>1, <3>2
  <2> QED
    BY <2>4, <2>7, <2>8 DEF InvMfa
<1>5. ASSUME NEW r \in Requetes, createPending(r) \/ rotation(r) \/ rejeu(r) \/ abandon(r)
      PROVE  InvMfa'
  <2>1. Finir(r) /\ mfaActive' = mfaActive /\ ecrasable' = ecrasable
    BY <1>5 DEF createPending, rotation, rejeu, abandon, mfaVars, suiviVars
  <2>2. DejaActif' = DejaActif
    <3>1. CASE createPending(r)
      <4>1. PICK f \in Facteurs : facteurs[f] = "absent"
                /\ facteurs' = [facteurs EXCEPT ![f] = "en_attente_activation"]
        BY <3>1 DEF createPending
      <4>2. \A g \in Facteurs : facteurs'[g] = "actif" <=> facteurs[g] = "actif"
        BY <4>1 DEF Types, CompteTypeOK
      <4> QED
        BY <4>2 DEF DejaActif
    <3>2. CASE facteurs' = facteurs
      BY <3>2 DEF DejaActif
    <3> QED
      BY <1>5, <3>1, <3>2 DEF rotation, rejeu, abandon, mfaVars
  <2>3. ASSUME NEW a \in Requetes PROVE ReqMfa(a)'
    BY <1>n, <2>1, <2>2, FinirFaits, ReqMfaFinie DEF Types, RequetesTypeOK
  <2> QED
    BY <2>1, <2>2, <2>3 DEF InvMfa
<1>6. CASE UNCHANGED vars
  BY <1>6 DEF vars, mfaVars, suiviVars, InvMfa, ReqMfa, DejaActif
<1> QED
  BY <1>1, <1>2, <1>3, <1>4, <1>5, <1>6 DEF Next, Lectures

(* The second factor is demanded exactly of the accounts that have one to  *)
(* give, but for a request that read the account before its activation.    *)
THEOREM MfaCoherenteCorrect == Spec => []MfaCoherente
<1>1. Init => InvMfa
  BY DEF Init, InvMfa, ReqMfa, DejaActif, Aucune, NaturesEcriture
<1>2. Types /\ Types' /\ InvMfa /\ [Next]_vars => InvMfa'
  BY MfaStep
<1>3. Types /\ InvMfa => MfaCoherente
  BY InvMfaCoherente
<1> QED
  BY <1>1, <1>2, <1>3, TypesCorrect, PTL DEF Spec

-----------------------------------------------------------------------------
(* The recovery codes: the list a request will write back.                 *)
ReqCodes(r) ==
    requete[r].nature \in NaturesEcriture =>
        /\ requete[r].depasse = FALSE =>
              \A f \in requete[r].facteur : codes[f] = requete[r].lus
        /\ requete[r].colonneCodes \subseteq {requete[r].lus \ requete[r].code}
        /\ requete[r].code = {} /\ requete[r].nature # "activation" =>
              requete[r].colonneCodes = {}
        /\ requete[r].sauve = TRUE /\ requete[r].depasse = FALSE
              /\ requete[r].code # {} /\ requete[r].facteur # {} =>
              requete[r].colonneCodes # {}

Bilan(f, c) == usages[<<f, c>>] + (IF c \in codes[f] THEN 1 ELSE 0) <= 1 + chevauchements

InvCodes ==
    /\ \A r \in Requetes : ReqCodes(r)
    /\ \A f \in Facteurs, c \in Codes : facteurs[f] = "absent" => usages[<<f, c>>] = 0
    /\ \A f \in Facteurs, c \in Codes : Bilan(f, c)

LEMMA InvCodesUnique == InvCodes => CodesUsageUnique
  BY DEF InvCodes, CodesUsageUnique, Bilan

LEMMA ReqCodesFinie == ASSUME NEW a, requete'[a] = Aucune PROVE ReqCodes(a)'
  BY DEF ReqCodes, Aucune, NaturesEcriture

(* A request whose factor did not change, or that was told it did.         *)
LEMMA ReqCodesReste ==
    ASSUME NEW a, ReqCodes(a), MemesChamps(a), requete[a].nature \in NaturesEcriture,
           requete'[a].sauve = requete[a].sauve,
           requete'[a].colonneCodes = requete[a].colonneCodes,
           requete'[a].depasse = FALSE =>
              /\ requete[a].depasse = FALSE
              /\ \A f \in requete[a].facteur : codes'[f] = codes[f]
    PROVE  ReqCodes(a)'
  BY DEF ReqCodes, MemesChamps

LEMMA CodesStep == ASSUME Types, Types', InvCodes, [Next]_vars PROVE InvCodes'
<1>t. /\ chevauchements \in Nat /\ chevauchements' \in Nat
      /\ \A f \in Facteurs, c \in Codes : usages[<<f, c>>] \in Nat
  BY DEF Types, SuiviTypeOK
<1>k. chevauchements \in Nat /\ chevauchements' \in Nat
  BY <1>t
<1>r. ASSUME NEW a \in Requetes, requete[a].nature \in NaturesEcriture
      PROVE  /\ requete[a] \in Ecritures /\ Forme(a) /\ ReqCodes(a)
             /\ requete[a].facteur \subseteq Facteurs /\ requete[a].code \subseteq Codes
             /\ requete[a].depasse \in BOOLEAN /\ requete[a].sauve \in BOOLEAN
  BY <1>r, TravailNature DEF Types, RequetesTypeOK, InvCodes, Ecritures
<1>n. ASSUME NEW a \in Requetes, requete'[a] = requete[a],
             \A f \in Facteurs : facteurs[f] # "absent" => codes'[f] = codes[f]
      PROVE  ReqCodes(a)'
  <2>1. CASE requete[a].nature \in NaturesEcriture
    <3>1. \A f \in requete[a].facteur : codes'[f] = codes[f]
      BY <1>n, <1>r, <2>1 DEF Forme
    <3>2. ReqCodes(a)
      BY DEF InvCodes
    <3> QED
      BY <1>n, <3>1, <3>2 DEF ReqCodes
  <2>2. CASE requete[a].nature \notin NaturesEcriture
    BY <1>n, <2>2 DEF ReqCodes
  <2> QED
    BY <2>1, <2>2
<1>v. ASSUME UNCHANGED <<facteurs, codes, usages, chevauchements>>,
             \A a \in Requetes : ReqCodes(a)'
      PROVE  InvCodes'
  BY <1>v DEF InvCodes, Bilan
<1>1. ASSUME NEW r \in Requetes, Lectures(r) PROVE InvCodes'
  <2>1. /\ UNCHANGED <<facteurs, codes, usages, chevauchements>>
        /\ \A a \in Requetes : a # r => requete'[a] = requete[a]
        /\ requete'[r] = requete[r] \/ requete'[r].nature \notin NaturesEcriture \/ Lue(r)
    BY <1>1, LecturesFaits DEF mfaVars, suiviVars
  <2>2. ASSUME Lue(r) PROVE ReqCodes(r)'
    BY <2>1, <2>2 DEF Lue, ReqCodes
  <2>3. ReqCodes(r)'
    <3>1. CASE requete'[r] = requete[r]
      BY <1>n, <2>1, <3>1
    <3>2. CASE requete'[r].nature \notin NaturesEcriture
      BY <3>2 DEF ReqCodes
    <3> QED
      BY <2>1, <2>2, <3>1, <3>2
  <2>4. ASSUME NEW a \in Requetes PROVE ReqCodes(a)'
    BY <1>n, <2>1, <2>3
  <2> QED
    BY <1>v, <2>1, <2>4
<1>2. ASSUME NEW r \in Requetes, save(r) PROVE InvCodes'
  <2>1. UNCHANGED <<facteurs, codes, usages, chevauchements>>
    BY <1>2 DEF save, mfaVars, suiviVars
  <2>2. /\ \A a \in Requetes : a # r => requete'[a] = requete[a]
        /\ requete'[r].nature = requete[r].nature
        /\ requete'[r].facteur = requete[r].facteur
        /\ requete'[r].lus = requete[r].lus /\ requete'[r].code = requete[r].code
        /\ requete'[r].depasse = requete[r].depasse
        /\ requete'[r].colonneCodes = colonneCodes(requete[r])
        /\ colonneCodes(requete[r]) \subseteq {requete[r].lus \ requete[r].code}
    BY <1>2, SaveFaits
  <2>3. requete[r].nature \in NaturesEcriture
    BY <1>2 DEF save, NaturesEcriture
  <2>4. requete[r].code = {} /\ requete[r].nature # "activation" => colonneCodes(requete[r]) = {}
    BY DEF colonneCodes
  <2>5. ASSUME requete[r].depasse = FALSE, requete[r].code # {}, requete[r].facteur # {}
        PROVE  colonneCodes(requete[r]) # {}
    <3>1. PICK f \in requete[r].facteur : codes[f] = requete[r].lus
      BY <1>r, <2>3, <2>5 DEF ReqCodes
    <3>2. requete[r].code \subseteq requete[r].lus
      BY <1>r, <2>3 DEF Forme
    <3>3. codes[f] # consumeRecoveryCode(requete[r])
      BY <2>5, <3>1, <3>2 DEF consumeRecoveryCode
    <3>4. consumeRecoveryCode(requete[r]) \in
             Difference(codes[f], consumeRecoveryCode(requete[r]))
      BY <3>3 DEF Difference
    <3> QED
      BY <2>5, <3>4 DEF colonneCodes
  <2>6. ReqCodes(r)'
    <3>1. requete[r].depasse = FALSE => \A f \in requete[r].facteur : codes[f] = requete[r].lus
      BY <1>r, <2>3 DEF ReqCodes
    <3> QED
      BY <2>1, <2>2, <2>4, <2>5, <3>1 DEF ReqCodes
  <2>7. ASSUME NEW a \in Requetes PROVE ReqCodes(a)'
    BY <1>n, <2>1, <2>2, <2>6
  <2> QED
    BY <1>v, <2>1, <2>7
<1>e. ASSUME NEW r \in Requetes, ecrireCompte(r)
      PROVE  /\ \A a \in Requetes : ReqCodes(a)'
             /\ requete[r].nature \in NaturesEcriture
             /\ \A f \in Facteurs : f \notin requete[r].facteur => codes'[f] = codes[f]
             /\ \A f \in requete[r].facteur :
                   /\ requete[r].colonneCodes = {} => codes'[f] = codes[f]
                   /\ requete[r].colonneCodes # {} =>
                         codes'[f] = requete[r].lus \ requete[r].code
  <2>1. requete[r].nature \in NaturesEcriture
    BY <1>e, EcrireFaits DEF Ecritures, NaturesEcriture
  <2>2. requete[r].colonneCodes \subseteq {requete[r].lus \ requete[r].code}
    BY <1>r, <2>1 DEF ReqCodes
  <2>3. ASSUME NEW f \in requete[r].facteur
        PROVE  /\ requete[r].colonneCodes = {} => codes'[f] = codes[f]
               /\ requete[r].colonneCodes # {} => codes'[f] \in requete[r].colonneCodes
    BY <1>e, EcrireFaits
  <2>4. ASSUME NEW f \in requete[r].facteur
        PROVE  requete[r].colonneCodes # {} => codes'[f] = requete[r].lus \ requete[r].code
    BY <2>2, <2>3
  <2>5. \A f \in Facteurs : f \notin requete[r].facteur => codes'[f] = codes[f]
    BY <1>e, EcrireFaits
  <2>6. ASSUME NEW a \in Requetes PROVE ReqCodes(a)'
    <3>1. CASE a = r
      BY <1>e, <3>1, EcrireFaits, ReqCodesFinie
    <3>2. CASE a # r /\ requete[a].nature \notin NaturesEcriture
      <4>1. requete'[a].nature = requete[a].nature
        BY <1>e, <3>2, EcrireFaits
      <4> QED
        BY <3>2, <4>1 DEF ReqCodes
    <3>3. CASE a # r /\ requete[a].nature \in NaturesEcriture /\ a \in Depassees(r)
      <4>1. MemesChamps(a) /\ requete'[a].sauve = requete[a].sauve
            /\ requete'[a].colonneCodes = requete[a].colonneCodes /\ requete'[a].depasse = TRUE
        BY <1>e, <3>3, EcrireFaits DEF MemesChamps
      <4> QED
        BY <1>r, <3>3, <4>1, ReqCodesReste
    <3>4. CASE a # r /\ requete[a].nature \in NaturesEcriture /\ a \notin Depassees(r)
      <4>1. requete'[a] = requete[a]
        BY <1>e, <3>4, EcrireFaits
      <4>2. \A f \in requete[a].facteur : codes'[f] = codes[f]
        <5>1. CASE requete[a].nature \in {"verification", "activation"}
          BY <3>4, <5>1 DEF Depassees
        <5>2. CASE requete[a].nature \in {"login", "profil"}
          BY <1>r, <3>4, <5>2 DEF Forme
        <5> QED
          BY <3>4, <5>1, <5>2 DEF NaturesEcriture
      <4>3. ReqCodes(a) /\ MemesChamps(a)
        BY <1>r, <3>4, <4>1 DEF MemesChamps
      <4> QED
        BY <3>4, <4>1, <4>2, <4>3, ReqCodesReste
    <3> QED
      BY <3>1, <3>2, <3>3, <3>4
  <2> QED
    BY <2>1, <2>3, <2>4, <2>5, <2>6
<1>3. ASSUME NEW r \in Requetes, completeAuthentication(r) PROVE InvCodes'
  <2>1. /\ ecrireCompte(r) /\ facteurs' = facteurs
        /\ requete[r].nature \in {"login", "verification"}
        /\ usages' = [u \in Facteurs \X Codes |->
              IF u[1] \in requete[r].facteur /\ u[2] \in requete[r].code
              THEN usages[u] + 1 ELSE usages[u]]
        /\ chevauchements' = IF requete[r].code # {} /\ requete[r].depasse
                             THEN chevauchements + 1 ELSE chevauchements
    BY <1>3 DEF completeAuthentication
  <2>2. /\ Forme(r) /\ ReqCodes(r) /\ requete[r].depasse \in BOOLEAN
        /\ requete[r].sauve = TRUE /\ requete[r].nature \in NaturesEcriture
        /\ requete[r].facteur \subseteq Facteurs
    BY <1>e, <1>r, <2>1, EcrireFaits
  <2>3. ASSUME NEW f \in Facteurs, NEW c \in Codes
        PROVE  /\ usages'[<<f, c>>] = IF f \in requete[r].facteur /\ c \in requete[r].code
                                      THEN usages[<<f, c>>] + 1 ELSE usages[<<f, c>>]
               /\ facteurs[f] = "absent" => usages[<<f, c>>] = 0 /\ f \notin requete[r].facteur
               /\ Bilan(f, c)
    BY <2>1, <2>2 DEF InvCodes, Forme
  <2>4. ASSUME NEW f \in Facteurs, NEW c \in Codes PROVE Bilan(f, c)'
    <3> DEFINE avant == usages[<<f, c>>]
               apres == usages'[<<f, c>>]
               p == IF c \in codes[f] THEN 1 ELSE 0
               q == IF c \in codes'[f] THEN 1 ELSE 0
    <3>1. avant \in Nat /\ p \in 0..1 /\ q \in 0..1 /\ avant + p <= 1 + chevauchements
      BY <1>t, <2>3 DEF Bilan
    <3>2. apres = IF f \in requete[r].facteur /\ c \in requete[r].code THEN avant + 1 ELSE avant
      BY <2>3
    <3>3. (c \in codes'[f] <=> c \in codes[f]) => q = p
      OBVIOUS
    <3>4. /\ c \in codes[f] => p = 1
          /\ c \notin codes'[f] => q = 0
      OBVIOUS
    <3> HIDE DEF avant, apres, p, q
    <3>0. PICK suite \in Nat : suite = chevauchements'
      BY <1>k
    <3> SUFFICES apres + q <= 1 + suite
      BY <3>0 DEF Bilan, apres, q
    <3>5. CASE f \notin requete[r].facteur \/ requete[r].code = {}
      <4>1. codes'[f] = codes[f]
        BY <1>e, <2>1, <2>2, <3>5 DEF ReqCodes
      <4>2. chevauchements <= suite
        BY <1>t, <3>0, <2>1
      <4>3. apres = avant /\ q = p
        BY <3>2, <3>3, <3>5, <4>1
      <4> QED
        BY <1>k, <3>1, <4>2, <4>3
    <3>6. CASE f \in requete[r].facteur /\ requete[r].code # {} /\ requete[r].depasse = TRUE
      <4>1. suite = chevauchements + 1
        BY <3>0, <2>1, <3>6
      <4>2. CASE requete[r].colonneCodes = {}
        <5>1. codes'[f] = codes[f]
          BY <1>e, <2>1, <3>6, <4>2
        <5>2. q = p
          BY <3>3, <5>1
        <5>3. apres <= avant + 1 /\ apres \in Nat
          BY <3>1, <3>2
        <5> QED
          BY <1>k, <3>1, <4>1, <5>2, <5>3
      <4>3. CASE requete[r].colonneCodes # {}
        <5>1. codes'[f] = requete[r].lus \ requete[r].code
          BY <1>e, <2>1, <3>6, <4>3
        <5>2. c \in requete[r].code => q = 0
          BY <3>4, <5>1
        <5>3. apres + q <= avant + 1
          BY <3>1, <3>2, <5>2
        <5> QED
          BY <1>k, <3>1, <3>2, <4>1, <5>3
      <4> QED
        BY <4>2, <4>3
    <3>7. CASE f \in requete[r].facteur /\ requete[r].code # {} /\ requete[r].depasse = FALSE
      <4>1. suite = chevauchements
        BY <3>0, <2>1, <3>7
      <4>2. codes[f] = requete[r].lus /\ codes'[f] = requete[r].lus \ requete[r].code
            /\ requete[r].code \subseteq requete[r].lus
        <5>1. codes[f] = requete[r].lus /\ requete[r].colonneCodes # {}
          BY <2>2, <3>7 DEF ReqCodes
        <5> QED
          BY <1>e, <2>1, <2>2, <3>7, <5>1 DEF Forme
      <4>3. CASE c \in requete[r].code
        <5>1. p = 1 /\ q = 0
          BY <3>4, <4>2, <4>3
        <5> QED
          BY <1>k, <3>1, <3>2, <4>1, <5>1
      <4>4. CASE c \notin requete[r].code
        <5>1. apres = avant /\ q = p
          BY <3>2, <3>3, <4>2, <4>4
        <5> QED
          BY <1>k, <3>1, <4>1, <5>1
      <4> QED
        BY <4>3, <4>4
    <3> QED
      BY <2>2, <3>5, <3>6, <3>7
  <2>5. ASSUME NEW f \in Facteurs, NEW c \in Codes, facteurs'[f] = "absent"
        PROVE  usages'[<<f, c>>] = 0
    BY <2>1, <2>3, <2>5
  <2> QED
    BY <1>e, <2>1, <2>4, <2>5 DEF InvCodes
<1>4. ASSUME NEW r \in Requetes, profilEcrit(r) PROVE InvCodes'
  <2>1. /\ ecrireCompte(r) /\ facteurs' = facteurs /\ usages' = usages
        /\ chevauchements' = chevauchements /\ requete[r].nature = "profil"
    BY <1>4 DEF profilEcrit, suiviVars
  <2>2. requete[r].facteur = {}
    BY <1>e, <1>r, <2>1 DEF Forme
  <2>3. ASSUME NEW f \in Facteurs, NEW c \in Codes PROVE Bilan(f, c)'
    <3>1. codes'[f] = codes[f] /\ Bilan(f, c)
      BY <1>e, <2>1, <2>2 DEF InvCodes
    <3> QED
      BY <2>1, <3>1 DEF Bilan
  <2> QED
    BY <1>e, <2>1, <2>3 DEF InvCodes
<1>5. ASSUME NEW r \in Requetes, enableMfa(r) PROVE InvCodes'
  <2>1. /\ ecrireCompte(r) /\ facteurs' = activate(r) /\ usages' = usages
        /\ chevauchements' = IF requete[r].depasse THEN chevauchements + 1 ELSE chevauchements
        /\ requete[r].nature = "activation"
    BY <1>5 DEF enableMfa
  <2>2. /\ Forme(r) /\ ReqCodes(r) /\ requete[r].depasse \in BOOLEAN /\ requete[r].code = {}
        /\ requete[r].nature \in NaturesEcriture
    BY <1>e, <1>r, <2>1 DEF Forme
  <2>a. ecrireCompte(r)
    BY <2>1
  <2>3. ASSUME NEW f \in Facteurs, NEW c \in Codes PROVE Bilan(f, c)'
    <3> DEFINE avant == usages[<<f, c>>]
               p == IF c \in codes[f] THEN 1 ELSE 0
               q == IF c \in codes'[f] THEN 1 ELSE 0
    <3>1. avant \in Nat /\ p \in 0..1 /\ q \in 0..1 /\ avant + p <= 1 + chevauchements
      BY <1>t DEF Bilan, InvCodes
    <3>2. codes'[f] = codes[f] => q = p
      OBVIOUS
    <3> HIDE DEF avant, p, q
    <3>0. PICK suite \in Nat : suite = chevauchements'
      BY <1>k
    <3> SUFFICES avant + q <= 1 + suite
      BY <2>1, <3>0 DEF Bilan, avant, q
    <3>3. CASE requete[r].depasse = TRUE
      <4>1. suite = chevauchements + 1
        BY <3>0, <2>1, <3>3
      <4> QED
        BY <1>k, <3>1, <4>1
    <3>4. CASE requete[r].depasse = FALSE
      <4>1. codes'[f] = codes[f]
        <5>1. f \in requete[r].facteur => codes[f] = requete[r].lus
          BY <2>2, <3>4 DEF ReqCodes
        <5>2. requete[r].lus \ requete[r].code = requete[r].lus
          BY <2>2
        <5> QED
          BY <1>e, <2>a, <5>1, <5>2
      <4>2. suite = chevauchements
        BY <3>0, <2>1, <3>4
      <4> QED
        BY <1>k, <3>1, <3>2, <4>1, <4>2
    <3> QED
      BY <2>2, <3>3, <3>4
  <2>4. ASSUME NEW f \in Facteurs, facteurs'[f] = "absent" PROVE facteurs[f] = "absent"
    BY <2>1, <2>4 DEF activate
  <2> QED
    BY <1>e, <2>1, <2>3, <2>4 DEF InvCodes
<1>6. ASSUME NEW r \in Requetes, createPending(r) PROVE InvCodes'
  <2>1. PICK f \in Facteurs :
            /\ facteurs[f] = "absent"
            /\ facteurs' = [facteurs EXCEPT ![f] = "en_attente_activation"]
            /\ codes' = [codes EXCEPT ![f] = Codes]
    BY <1>6 DEF createPending
  <2>2. Finir(r) /\ usages' = usages /\ chevauchements' = chevauchements
    BY <1>6 DEF createPending, suiviVars
  <2>3. \A g \in Facteurs : g # f => codes'[g] = codes[g] /\ facteurs'[g] = facteurs[g]
    BY <2>1 DEF Types, CompteTypeOK
  <2>4. facteurs'[f] # "absent" /\ \A c \in Codes : usages[<<f, c>>] = 0
    BY <2>1 DEF InvCodes, Types, CompteTypeOK
  <2>5. ASSUME NEW a \in Requetes PROVE ReqCodes(a)'
    BY <1>n, <2>1, <2>2, <2>3, FinirFaits, ReqCodesFinie DEF Types, RequetesTypeOK
  <2>6. ASSUME NEW g \in Facteurs, NEW c \in Codes PROVE Bilan(g, c)'
    <3>1. CASE g = f
      <4>1. usages'[<<g, c>>] = 0
        BY <2>2, <2>4, <3>1
      <4> DEFINE q == IF c \in codes'[g] THEN 1 ELSE 0
      <4>2. PICK suite \in Nat : suite = chevauchements'
        BY <1>k
      <4>3. q \in 0..1
        OBVIOUS
      <4>4. Bilan(g, c)' <=> (0 + q <= 1 + suite)
        BY <4>1, <4>2 DEF Bilan
      <4> HIDE DEF q
      <4>5. 0 + q <= 1 + suite
        BY <4>3
      <4> QED
        BY <4>4, <4>5
    <3>2. CASE g # f
      <4>1. Bilan(g, c) /\ codes'[g] = codes[g]
        BY <2>3, <3>2 DEF InvCodes
      <4> QED
        BY <2>2, <4>1 DEF Bilan
    <3> QED
      BY <3>1, <3>2
  <2>7. ASSUME NEW g \in Facteurs, NEW c \in Codes, facteurs'[g] = "absent"
        PROVE  usages'[<<g, c>>] = 0
    BY <2>2, <2>3, <2>4, <2>7 DEF InvCodes
  <2> QED
    BY <2>5, <2>6, <2>7 DEF InvCodes
<1>7. ASSUME NEW r \in Requetes, rotation(r) \/ rejeu(r) \/ abandon(r) PROVE InvCodes'
  <2>1. Finir(r) /\ UNCHANGED <<facteurs, codes, usages, chevauchements>>
    BY <1>7 DEF rotation, rejeu, abandon, mfaVars, suiviVars
  <2>2. ASSUME NEW a \in Requetes PROVE ReqCodes(a)'
    BY <1>n, <2>1, FinirFaits, ReqCodesFinie DEF Types, RequetesTypeOK
  <2> QED
    BY <1>v, <2>1, <2>2
<1>8. CASE UNCHANGED vars
  BY <1>8 DEF vars, mfaVars, suiviVars, InvCodes, ReqCodes, Bilan
<1> QED
  BY <1>1, <1>2, <1>3, <1>4, <1>5, <1>6, <1>7, <1>8 DEF Next, Lectures

(* A recovery code serves one login, plus one for each request that        *)
(* committed a list of codes another one had changed since it was read.    *)
THEOREM CodesUsageUniqueCorrect == Spec => []CodesUsageUnique
<1>1. Init => InvCodes
  BY DEF Init, InvCodes, Bilan, ReqCodes, Aucune, NaturesEcriture
<1>2. Types /\ Types' /\ InvCodes /\ [Next]_vars => InvCodes'
  BY CodesStep
<1> QED
  BY <1>1, <1>2, InvCodesUnique, TypesCorrect, PTL DEF Spec
================================================================================
