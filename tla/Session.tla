-------------------------------- MODULE Session --------------------------------
(***************************************************************************)
(* The sessions of one account (accounts share nothing): login, the second *)
(* factor with its recovery codes, and the rotation of refresh tokens.     *)
(*                                                                         *)
(* A request is one READ COMMITTED transaction that locks nothing it       *)
(* reads.  It takes three steps: it reads its rows (all at once, which is  *)
(* an abstraction); its saves compare the copy with the row once more and  *)
(* keep the columns that differ, which is what TypeORM's save writes; it   *)
(* commits those columns.  What a use-case saves before it throws goes     *)
(* with the rollback: a rejected request has no action here, except the    *)
(* replayed token, whose answer matters.                                   *)
(***************************************************************************)
EXTENDS Naturals, FiniteSets

CONSTANTS
    Requetes,     \* requests that may be in progress together
    Jetons,       \* ids of refresh tokens
    Facteurs,     \* ids of MFA factors
    Codes,        \* recovery codes of a factor
    MaxRelectures \* bound: activations that write back a list changed since read

ASSUME SessionAssumption ==
    /\ IsFiniteSet(Requetes) /\ IsFiniteSet(Jetons)
    /\ IsFiniteSet(Facteurs) /\ IsFiniteSet(Codes) /\ MaxRelectures \in Nat

VARIABLES
    mfaActive,      \* column mfaActive of the account
    facteurs,       \* factor |-> its column statut ("absent": no row yet)
    codes,          \* factor |-> its recovery codes not yet used
    defi,           \* whether an mfaChallengeToken was handed out
    emis,           \* refresh tokens that have a row
    famille,        \* token |-> familyId: the first token of its lineage
    consommes,      \* tokens whose consommeLe is set
    revoques,       \* tokens whose revoqueLe is set
    requete,        \* request |-> what it has read and what it will write
    rejeux,         \* history: families for which a replay was answered
    usages,         \* history: factor, code |-> logins the code has served
    fourches,       \* history: rotations of a token another one had consumed
    chevauchements, \* history: commits over a list of codes changed since read
    ecrasable       \* history: an activation met a request that had read FALSE

mfaVars == <<mfaActive, facteurs, codes>>
jetonVars == <<emis, famille, consommes, revoques>>
suiviVars == <<rejeux, usages, fourches, chevauchements, ecrasable>>
vars == <<mfaVars, defi, jetonVars, requete, suiviVars>>

Aucune == [nature |-> "aucune"]

(* facteur is empty when the request touches none; code is empty for a     *)
(* TOTP; colonneMfa and colonneCodes hold the value to write, if any;      *)
(* depasse is history: another commit changed the list since it was read.  *)
Ecritures ==
    [nature : {"login", "verification", "activation", "profil"},
     mfa : BOOLEAN, facteur : SUBSET Facteurs,
     lus : SUBSET Codes, code : SUBSET Codes, sauve : BOOLEAN, depasse : BOOLEAN,
     colonneMfa : SUBSET BOOLEAN, colonneCodes : SUBSET SUBSET Codes]

TypeOK ==
    /\ mfaActive \in BOOLEAN /\ defi \in BOOLEAN
    /\ facteurs \in [Facteurs -> {"absent", "en_attente_activation", "actif"}]
    /\ codes \in [Facteurs -> SUBSET Codes]
    /\ \A f \in Facteurs : facteurs[f] # "absent" \/ codes[f] = {}
    /\ emis \subseteq Jetons /\ famille \in [Jetons -> Jetons]
    /\ \A t \in emis : famille[t] \in emis
    /\ consommes \subseteq emis /\ revoques \subseteq emis
    /\ \A r \in Requetes : \/ requete[r] \in {Aucune, [nature |-> "inscription"]}
                           \/ /\ requete[r].nature \in {"rotation", "rejeu"}
                              /\ requete[r].jeton \in emis
                           \/ requete[r] \in Ecritures
    /\ rejeux \subseteq emis /\ usages \in [Facteurs \X Codes -> Nat]
    /\ fourches \in Nat /\ chevauchements \in Nat /\ ecrasable \in BOOLEAN

Init ==
    /\ mfaActive = FALSE /\ defi = FALSE
    /\ facteurs = [f \in Facteurs |-> "absent"]
    /\ codes = [f \in Facteurs |-> {}]
    /\ emis = {} /\ famille = [t \in Jetons |-> t]
    /\ consommes = {} /\ revoques = {}
    /\ requete = [r \in Requetes |-> Aucune]
    /\ rejeux = {} /\ usages = [u \in Facteurs \X Codes |-> 0]
    /\ fourches = 0 /\ chevauchements = 0 /\ ecrasable = FALSE

-----------------------------------------------------------------------------
(* First step of a request: what it reads.                                 *)

Lire(r, travail) ==
    /\ requete[r] = Aucune
    /\ requete' = [requete EXCEPT ![r] = travail]

Ecriture(nature, mfa, facteur, lus, code) ==
    [nature |-> nature, mfa |-> mfa, facteur |-> facteur, lus |-> lus,
     code |-> code, sauve |-> FALSE, depasse |-> FALSE,
     colonneMfa |-> {}, colonneCodes |-> {}]

(* Password verified.  With the second factor on, the login only answers   *)
(* with a challenge, and saves nothing.                                    *)
authenticate(r) ==
    \/ /\ ~mfaActive
       /\ Lire(r, Ecriture("login", FALSE, {}, {}, {}))
       /\ UNCHANGED <<mfaVars, defi, jetonVars, suiviVars>>
    \/ /\ mfaActive /\ defi' = TRUE
       /\ UNCHANGED <<mfaVars, jetonVars, requete, suiviVars>>

(* The Supabase bridge of an account already linked opens the session of   *)
(* that account directly.                                                  *)
exchangeSupabaseSession(r) ==
    /\ Lire(r, Ecriture("login", mfaActive, {}, {}, {}))
    /\ UNCHANGED <<mfaVars, defi, jetonVars, suiviVars>>

(* The answer to a challenge: an active factor and either a TOTP or one of *)
(* its recovery codes.  The state of the account is not checked again.     *)
verifyMfaChallenge(r) ==
    /\ defi
    /\ \E f \in Facteurs, code \in {{}} \union {{c} : c \in Codes} :
        /\ facteurs[f] = "actif" /\ code \subseteq codes[f]
        /\ Lire(r, Ecriture("verification", mfaActive, {f}, codes[f], code))
    /\ UNCHANGED <<mfaVars, defi, jetonVars, suiviVars>>

startMfaEnrollment(r) ==
    /\ ~mfaActive
    /\ Lire(r, [nature |-> "inscription"])
    /\ UNCHANGED <<mfaVars, defi, jetonVars, suiviVars>>

(* A valid TOTP of the factor, whatever the status of the factor.          *)
confirmMfaEnrollment(r) ==
    /\ \E f \in Facteurs :
        /\ facteurs[f] # "absent"
        /\ Lire(r, Ecriture("activation", TRUE, {f}, codes[f], {}))
    /\ UNCHANGED <<mfaVars, defi, jetonVars, suiviVars>>

(* Any use-case that loads the account and saves it for another column.    *)
updateReferentiel(r) ==
    /\ Lire(r, Ecriture("profil", mfaActive, {}, {}, {}))
    /\ UNCHANGED <<mfaVars, defi, jetonVars, suiviVars>>

(* assertValidAndConsume on the copy: a consumed token is a replay.        *)
assertValidAndConsume(r) ==
    /\ \E t \in emis \ revoques :
        Lire(r, [nature |-> IF t \in consommes THEN "rejeu" ELSE "rotation", jeton |-> t])
    /\ UNCHANGED <<mfaVars, defi, jetonVars, suiviVars>>

-----------------------------------------------------------------------------
(* Second step: the saves compare the copy with the row.  Only the         *)
(* verification by recovery code and the activation save a factor.         *)

Difference(ligne, copie) == IF ligne = copie THEN {} ELSE {copie}
Appliquer(ligne, colonne) == IF colonne = {} THEN ligne ELSE CHOOSE v \in colonne : TRUE

(* Mutant: the list is saved without the code's removal.                   *)
consumeRecoveryCodeNonSauve(w) == w.lus

consumeRecoveryCode(w) == w.lus \ w.code

colonneCodes(w) ==
    IF w.code # {} \/ w.nature = "activation"
    THEN UNION {Difference(codes[f], consumeRecoveryCode(w)) : f \in w.facteur}
    ELSE {}

save(r) ==
    /\ requete[r].nature \in {"login", "verification", "activation", "profil"}
    /\ ~requete[r].sauve
    /\ requete' = [requete EXCEPT ![r].sauve = TRUE,
                                  ![r].colonneMfa = Difference(mfaActive, requete[r].mfa),
                                  ![r].colonneCodes = colonneCodes(requete[r])]
    /\ UNCHANGED <<mfaVars, defi, jetonVars, suiviVars>>

-----------------------------------------------------------------------------
(* Last step: the commit.                                                  *)

Finir(r) == requete' = [requete EXCEPT ![r] = Aucune]

(* A token and the family it belongs to: itself when it starts one.        *)
issue(t, f) ==
    /\ t \notin emis
    /\ emis' = emis \union {t}
    /\ famille' = [famille EXCEPT ![t] = f]

(* The codes of the factors of w, after its commit.                        *)
CodesEcrits(w) ==
    [f \in Facteurs |-> IF f \in w.facteur THEN Appliquer(codes[f], w.colonneCodes) ELSE codes[f]]

(* Requests that had read a list which the commit of r changes.            *)
Depassees(r) ==
    {a \in Requetes \ {r} : /\ requete[a].nature \in {"verification", "activation"}
                            /\ \E f \in requete[a].facteur : codes'[f] # codes[f]}

ecrireCompte(r) ==
    /\ requete[r].nature \notin {"aucune", "inscription", "rotation", "rejeu"}
    /\ requete[r].sauve
    /\ mfaActive' = Appliquer(mfaActive, requete[r].colonneMfa)
    /\ codes' = CodesEcrits(requete[r])
    /\ requete' = [a \in Requetes |->
            IF a = r THEN Aucune
            ELSE IF a \in Depassees(r) THEN [requete[a] EXCEPT !.depasse = TRUE]
            ELSE requete[a]]

completeAuthentication(r) ==
    /\ requete[r].nature \in {"login", "verification"}
    /\ ecrireCompte(r)
    /\ \E t \in Jetons : issue(t, t)
    /\ usages' = [u \in Facteurs \X Codes |->
            IF u[1] \in requete[r].facteur /\ u[2] \in requete[r].code
            THEN usages[u] + 1 ELSE usages[u]]
    /\ chevauchements' = IF requete[r].code # {} /\ requete[r].depasse
                         THEN chevauchements + 1 ELSE chevauchements
    /\ UNCHANGED <<facteurs, defi, consommes, revoques, rejeux, fourches, ecrasable>>

profilEcrit(r) ==
    /\ requete[r].nature = "profil"
    /\ ecrireCompte(r)
    /\ UNCHANGED <<facteurs, defi, jetonVars, suiviVars>>

(* Mutant: the account is switched before the factor is.                   *)
activateOublie(r) == facteurs

activate(r) == [f \in Facteurs |-> IF f \in requete[r].facteur THEN "actif" ELSE facteurs[f]]

(* Requests that still hold the account as it was without second factor.   *)
CopieSansMfa(r) ==
    \E autre \in Requetes \ {r} :
        /\ requete[autre].nature \in {"login", "profil", "verification"}
        /\ ~requete[autre].mfa

enableMfa(r) ==
    /\ requete[r].nature = "activation"
    /\ ecrireCompte(r)
    /\ facteurs' = activate(r)
    /\ (requete[r].depasse => chevauchements < MaxRelectures)
    /\ chevauchements' = IF requete[r].depasse THEN chevauchements + 1 ELSE chevauchements
    /\ ecrasable' = (ecrasable \/ CopieSansMfa(r))
    /\ UNCHANGED <<defi, jetonVars, rejeux, usages, fourches>>

(* Mutant: the row is created with its codes and without its status.       *)
createPendingSansStatut(r) ==
    /\ requete[r].nature = "inscription"
    /\ \E f \in Facteurs :
        facteurs[f] = "absent" /\ codes' = [codes EXCEPT ![f] = Codes]
    /\ Finir(r)
    /\ UNCHANGED <<mfaActive, facteurs, defi, jetonVars, suiviVars>>

createPending(r) ==
    /\ requete[r].nature = "inscription"
    /\ \E f \in Facteurs :
        /\ facteurs[f] = "absent"
        /\ facteurs' = [facteurs EXCEPT ![f] = "en_attente_activation"]
        /\ codes' = [codes EXCEPT ![f] = Codes]
    /\ Finir(r)
    /\ UNCHANGED <<mfaActive, defi, jetonVars, suiviVars>>

(* Mutant: the consumed copy is not saved.                                 *)
consommerSansSauver(t) == UNCHANGED consommes

consommer(t) == consommes' = consommes \union {t}

(* The copy of the token is saved whole, with its empty revoqueLe.         *)
rotation(r) ==
    /\ requete[r].nature = "rotation"
    /\ LET t == requete[r].jeton IN
        /\ consommer(t)
        /\ revoques' = revoques \ {t}
        /\ \E n \in Jetons : issue(n, famille[t])
        /\ fourches' = IF t \in consommes THEN fourches + 1 ELSE fourches
    /\ Finir(r)
    /\ UNCHANGED <<mfaVars, defi, rejeux, usages, chevauchements, ecrasable>>

(* revokeFamily ran in the transaction of the request, the error that      *)
(* follows it rolls it back; the client is told of the replay.             *)
rejeu(r) ==
    /\ requete[r].nature = "rejeu"
    /\ rejeux' = rejeux \union {famille[requete[r].jeton]}
    /\ Finir(r)
    /\ UNCHANGED <<mfaVars, defi, jetonVars, usages, fourches, chevauchements, ecrasable>>

(* A failed statement, or a process that stops: everything is rolled back. *)
abandon(r) ==
    /\ requete[r] # Aucune
    /\ Finir(r)
    /\ UNCHANGED <<mfaVars, defi, jetonVars, suiviVars>>

Next ==
    \E r \in Requetes :
        \/ authenticate(r) \/ exchangeSupabaseSession(r) \/ verifyMfaChallenge(r)
        \/ startMfaEnrollment(r) \/ confirmMfaEnrollment(r)
        \/ updateReferentiel(r) \/ assertValidAndConsume(r)
        \/ save(r)
        \/ completeAuthentication(r) \/ profilEcrit(r) \/ enableMfa(r)
        \/ createPending(r) \/ rotation(r) \/ rejeu(r) \/ abandon(r)

Spec == Init /\ [][Next]_vars
-----------------------------------------------------------------------------
(* Properties.                                                             *)

Vivants(f) == {t \in emis \ (consommes \union revoques) : famille[t] = f}

(* Rotation keeps one usable token per lineage; each further one was paid  *)
(* for by two refreshes that read the same token before either committed.  *)
RotationSansFourche == \A f \in emis : Cardinality(Vivants(f)) <= 1 + fourches

(* A recovery code serves one login.  The list is written back whole, so a *)
(* code comes back, or serves twice, only when a request committed a list  *)
(* it had read before another one changed it.                              *)
CodesUsageUnique ==
    \A f \in Facteurs, c \in Codes :
        usages[<<f, c>>] + (IF c \in codes[f] THEN 1 ELSE 0) <= 1 + chevauchements

(* The second factor is demanded only of an account that has one to give;  *)
(* and once a factor is active the account demands it, unless a request    *)
(* that had read the account before the activation wrote it back.          *)
MfaCoherente ==
    /\ mfaActive => \E f \in Facteurs : facteurs[f] = "actif"
    /\ (\E f \in Facteurs : facteurs[f] = "actif") => mfaActive \/ ecrasable

(* What the README says of the rotation: a replay that was detected        *)
(* revokes the whole family.                                               *)
FamilleRevoquee == \A f \in rejeux : Vivants(f) = {}
================================================================================
