--------------------------- MODULE NoyauTypesProofs ---------------------------
(***************************************************************************)
(* For any number of requests, rows, calls and rotations: the types of the *)
(* twenty-eight tables, what the cache of keys promises, and the answers   *)
(* of the resolution of the configuration.                                 *)
(*                                                                         *)
(* A table holds what requests have written, so its type needs the type of *)
(* what each request in progress will write, from the moment it begins; a  *)
(* commit merges columns, so the rows need to be closed under a merge.     *)
(* The version of a grid is typed by the count of the grids of its offer.  *)
(*                                                                         *)
(* In the cache the hard part is the forced refresh that joins a fetch in  *)
(* flight: if that fetch was answered before the rotation, then it was     *)
(* itself a forced one, begun less than Delai ago, and the cooldown        *)
(* forbids to force another.                                               *)
(*                                                                         *)
(* The resolution is a loop over a chain of levels: it is shown to return  *)
(* the first value that is set, whatever the length of the chain.          *)
(***************************************************************************)
EXTENDS NoyauProofs

-----------------------------------------------------------------------------
(* The types of the rows.  What a request will write to a table, an id and *)
(* a row, is in the space of that table, whatever has been committed since *)
(* the request began.                                                      *)
Espace(nom) ==
    CASE nom = "niveau" -> ToutNiveau \X NiveauRow
      [] nom = "noeud" -> Noeuds \X NoeudRow
      [] nom = "regle" -> Regles \X RegleRow
      [] nom = "ville" -> Villes \X VilleRow
      [] nom = "corpus" -> Corpus \X CorpusRow
      [] nom = "element" -> Elements \X ElementRow
      [] nom = "produit" -> Produits \X ProduitRow
      [] nom = "deploiement" -> (Produits \X Pays) \X DeploiementRow
      [] nom = "organisation" -> Orgs \X OrganisationRow
      [] nom = "unite" -> Unites \X UniteRow
      [] nom = "abonnement" -> Abonnements \X AbonnementRow
      [] nom = "fiche" -> CodesFiches \X FicheRow
      [] nom = "circulation" -> Relations \X PaysDeviseRow
      [] nom = "langue_pays" -> Relations \X PaysLangueRow
      [] nom = "adhesion" -> Relations \X PaysBlocRegionalRow
      [] nom = "taux" -> Relations \X TauxChangeRow
      [] nom = "locale" -> Locales \X LocaleRow
      [] nom = "traduction" -> (Locales \X Cles) \X {[valeur |-> Nul]}
      [] nom = "configuration" -> {"globale"} \X ConfigurationRow
      [] nom = "catalogue" -> Catalogues \X CatalogueRow
      [] nom = "article" -> Articles \X ArticleRow
      [] nom = "offre" -> Offres \X OffreRow
      [] nom = "feature" -> Features \X FeatureRow
      [] nom = "droit" -> (Offres \X Features) \X {[limite |-> Nul]}
      [] nom = "grille" -> Grilles \X GrilleRow
      [] nom = "compte" -> Comptes \X CompteRow
      [] nom = "lien" -> Identites \X LienRow
      [] nom = "affectation" -> Affectations \X AffectationRow

LEMMA EspaceEngine ==
    /\ Espace("niveau") = ToutNiveau \X NiveauRow /\ Espace("noeud") = Noeuds \X NoeudRow
    /\ Espace("regle") = Regles \X RegleRow /\ Espace("ville") = Villes \X VilleRow
BY DEF Espace

LEMMA EspaceCorpus ==
    Espace("corpus") = Corpus \X CorpusRow /\ Espace("element") = Elements \X ElementRow
BY DEF Espace

LEMMA EspaceRegistre ==
    /\ Espace("produit") = Produits \X ProduitRow
    /\ Espace("deploiement") = (Produits \X Pays) \X DeploiementRow
BY DEF Espace

LEMMA EspaceOrg ==
    /\ Espace("organisation") = Orgs \X OrganisationRow /\ Espace("unite") = Unites \X UniteRow
    /\ Espace("abonnement") = Abonnements \X AbonnementRow
BY DEF Espace

LEMMA EspaceReferentiel ==
    /\ Espace("fiche") = CodesFiches \X FicheRow /\ Espace("locale") = Locales \X LocaleRow
    /\ Espace("circulation") = Relations \X PaysDeviseRow
    /\ Espace("langue_pays") = Relations \X PaysLangueRow
    /\ Espace("adhesion") = Relations \X PaysBlocRegionalRow
    /\ Espace("taux") = Relations \X TauxChangeRow
    /\ Espace("traduction") = (Locales \X Cles) \X {[valeur |-> Nul]}
BY DEF Espace

LEMMA EspaceConfig == Espace("configuration") = {"globale"} \X ConfigurationRow
BY DEF Espace

LEMMA EspaceCatalogue ==
    /\ Espace("catalogue") = Catalogues \X CatalogueRow
    /\ Espace("article") = Articles \X ArticleRow /\ Espace("offre") = Offres \X OffreRow
    /\ Espace("feature") = Features \X FeatureRow /\ Espace("grille") = Grilles \X GrilleRow
    /\ Espace("droit") = (Offres \X Features) \X {[limite |-> Nul]}
BY DEF Espace

LEMMA EspaceIdentite ==
    /\ Espace("compte") = Comptes \X CompteRow /\ Espace("lien") = Identites \X LienRow
    /\ Espace("affectation") = Affectations \X AffectationRow
BY DEF Espace

EcrituresTypees ==
    \A r \in Requetes : \A q \in requete[r] : <<q.id, q.ligne>> \in Espace(q.table)

TypesEngine ==
    /\ niveaux \in [ToutNiveau -> SUBSET NiveauRow] /\ noeuds \in [Noeuds -> SUBSET NoeudRow]
    /\ regles \in [Regles -> SUBSET RegleRow] /\ villes \in [Villes -> SUBSET VilleRow]
    /\ compteur \in [Noeuds -> Nat]
    /\ retard \in BOOLEAN /\ deplace \in {"rien", "feuilles", "branches"}

TypesCorpus ==
    corpus \in [Corpus -> SUBSET CorpusRow] /\ elements \in [Elements -> SUBSET ElementRow]

TypesRegistre ==
    /\ produits \in [Produits -> SUBSET ProduitRow]
    /\ deploiements \in [Produits \X Pays -> SUBSET DeploiementRow]

TypesOrg ==
    /\ organisations \in [Orgs -> SUBSET OrganisationRow] /\ unites \in [Unites -> SUBSET UniteRow]
    /\ abonnements \in [Abonnements -> SUBSET AbonnementRow]

TypesReferentiel ==
    /\ fiches \in [CodesFiches -> SUBSET FicheRow] /\ locales \in [Locales -> SUBSET LocaleRow]
    /\ circulations \in [Relations -> SUBSET PaysDeviseRow]
    /\ languesPays \in [Relations -> SUBSET PaysLangueRow]
    /\ adhesions \in [Relations -> SUBSET PaysBlocRegionalRow]
    /\ taux \in [Relations -> SUBSET TauxChangeRow]
    /\ traductions \in [Locales \X Cles -> SUBSET {[valeur |-> Nul]}]
    /\ desordre \in BOOLEAN

TypesConfig == configuration \in [{"globale"} -> SUBSET ConfigurationRow]

TypesCatalogue ==
    /\ catalogues \in [Catalogues -> SUBSET CatalogueRow]
    /\ articles \in [Articles -> SUBSET ArticleRow] /\ offres \in [Offres -> SUBSET OffreRow]
    /\ features \in [Features -> SUBSET FeatureRow] /\ grilles \in [Grilles -> SUBSET GrilleRow]
    /\ droits \in [Offres \X Features -> SUBSET {[limite |-> Nul]}]

TypesIdentite ==
    /\ comptes \in [Comptes -> SUBSET CompteRow] /\ liens \in [Identites -> SUBSET LienRow]
    /\ affectations \in [Affectations -> SUBSET AffectationRow]

TypesTables ==
    /\ TypesEngine /\ TypesCorpus /\ TypesRegistre /\ TypesOrg /\ TypesReferentiel
    /\ TypesConfig /\ TypesCatalogue /\ TypesIdentite

InvTypes == EcrituresTypees /\ TypesTables

(* What is left of the rows when columns of one are merged into another.   *)
LEMMA ColonnesTypes ==
    /\ Colonnes(NiveauRow) /\ Colonnes(RegleRow) /\ Colonnes(CorpusRow) /\ Colonnes(ProduitRow)
    /\ Colonnes(DeploiementRow) /\ Colonnes(OrganisationRow) /\ Colonnes(UniteRow)
    /\ Colonnes(PaysLangueRow) /\ Colonnes(PaysBlocRegionalRow) /\ Colonnes(TauxChangeRow)
    /\ Colonnes({[valeur |-> Nul]}) /\ Colonnes(ConfigurationRow) /\ Colonnes(CatalogueRow)
    /\ Colonnes(ArticleRow) /\ Colonnes(OffreRow) /\ Colonnes(FeatureRow) /\ Colonnes(GrilleRow)
    /\ Colonnes({[limite |-> Nul]}) /\ Colonnes(AffectationRow)
<1>1. /\ Colonnes(NiveauRow) /\ Colonnes(ProduitRow) /\ Colonnes(FeatureRow)
      /\ Colonnes(DeploiementRow)
      BY DEF Colonnes, NiveauRow, ProduitRow, FeatureRow, DeploiementRow
<1>2. Colonnes(RegleRow) /\ Colonnes(CorpusRow)
      BY DEF Colonnes, RegleRow, CorpusRow
<1>3. Colonnes(OrganisationRow) /\ Colonnes(UniteRow)
      BY DEF Colonnes, OrganisationRow, UniteRow
<1>4. Colonnes(PaysLangueRow) /\ Colonnes(PaysBlocRegionalRow) /\ Colonnes(TauxChangeRow)
      BY DEF Colonnes, PaysLangueRow, PaysBlocRegionalRow, TauxChangeRow
<1>5. Colonnes(ConfigurationRow) /\ Colonnes(CatalogueRow) /\ Colonnes(ArticleRow)
      BY DEF Colonnes, ConfigurationRow, CatalogueRow, ArticleRow
<1>6. Colonnes(OffreRow) /\ Colonnes(GrilleRow)
      BY DEF Colonnes, OffreRow, GrilleRow
<1>7. Colonnes(AffectationRow)
      BY DEF Colonnes, AffectationRow
<1>8. Colonnes({[valeur |-> Nul]}) /\ Colonnes({[limite |-> Nul]})
      BY DEF Colonnes
<1> QED  BY <1>1, <1>2, <1>3, <1>4, <1>5, <1>6, <1>7, <1>8

(* The steps of a request keep its writes typed.                           *)
LEMMA TypesLot ==
    ASSUME ReqOK(requete), EcrituresTypees, NEW r \in Requetes, NEW E, TraiterTout(r, E),
           \A q \in E : <<q.id, q.ligne>> \in Espace(q.table)
    PROVE  EcrituresTypees'
<1>1. requete' = [s \in Requetes |-> IF s = r THEN E ELSE requete[s]]
      BY DEF TraiterTout, ReqOK
<1> QED  BY <1>1 DEF EcrituresTypees

LEMMA TypesTraiter ==
    ASSUME ReqOK(requete), EcrituresTypees, NEW r \in Requetes, NEW nom, NEW t, NEW i, NEW k,
           NEW type, Traiter(r, nom, t, i, k, type), <<i, k>> \in Espace(nom)
    PROVE  EcrituresTypees'
<1> DEFINE q == Ecriture(nom, i, k, t[i] = {}, type)
<1>1. q.table = nom /\ q.id = i /\ q.ligne = k
      BY DEF Ecriture
<1>2. TraiterTout(r, {q})
      BY DEF Traiter
<1> HIDE DEF q
<1> QED  BY <1>1, <1>2, TypesLot

LEMMA TypesSave ==
    ASSUME ReqOK(requete), EcrituresTypees, NEW r \in Requetes, NEW nom, NEW t, save(r, nom, t)
    PROVE  EcrituresTypees'
<1>1. PICK q \in requete[r] : Sauve(requete, requete', r, q, Modifiees(q, t))
      BY saveSauve
<1> DEFINE e == Enregistree(q, Modifiees(q, t))
<1>2. requete' = [s \in Requetes |-> IF s = r THEN (requete[r] \ {q}) \union {e} ELSE requete[s]]
      BY <1>1 DEF Sauve, ReqOK
<1>3. e.table = q.table /\ e.id = q.id /\ e.ligne = q.ligne
      BY EnregistreeForme DEF ReqOK
<1> HIDE DEF e
<1> QED  BY <1>2, <1>3 DEF EcrituresTypees

LEMMA TypesTerminer ==
    ASSUME ReqOK(requete), EcrituresTypees, NEW r \in Requetes, Terminer(r)
    PROVE  EcrituresTypees'
<1>1. requete' = [s \in Requetes |-> IF s = r THEN {} ELSE Depassees(requete[s])]
      BY TerminerFinit DEF Finit
<1>2. ASSUME NEW s \in Requetes, NEW d \in requete'[s] PROVE <<d.id, d.ligne>> \in Espace(d.table)
  <2>1. PICK q \in requete[s] : d = Depassee(q)
      BY <1>1, <1>2 DEF Depassees
  <2>2. d.table = q.table /\ d.id = q.id /\ d.ligne = q.ligne
      BY <2>1, DepasseeForme DEF ReqOK
  <2> QED  BY <2>2 DEF EcrituresTypees
<1> QED  BY <1>2 DEF EcrituresTypees

LEMMA TypesRollback ==
    ASSUME ReqOK(requete), EcrituresTypees, NEW r \in Requetes, rollback(r)
    PROVE  EcrituresTypees'
<1>1. requete' = [s \in Requetes |-> IF s = r THEN {} ELSE requete[s]]
      BY DEF rollback, ReqOK
<1> QED  BY <1>1 DEF EcrituresTypees

LEMMA TypesInerte ==
    ASSUME EcrituresTypees, UNCHANGED requete
    PROVE  EcrituresTypees'
BY DEF EcrituresTypees

(* A commit leaves the rows of its table typed.                            *)
LEMMA TypesApres ==
    ASSUME NEW S, NEW t, NEW ids, NEW row, t \in [ids -> SUBSET row], Colonnes(row),
           \A q \in S : <<q.id, q.ligne>> \in ids \X row
    PROVE  ApresDe(S, t) \in [ids -> SUBSET row]
<1> DEFINE N == ApresDe(S, t)
<1>1. N = [i \in ids |-> N[i]]
      BY DEF ApresDe
<1>2. ASSUME NEW i \in ids, NEW m \in N[i] PROVE m \in row
  <2>1. CASE ~\E q \in S : q.id = i
    <3>1. N[i] = t[i]
        BY <2>1 DEF ApresDe
    <3> QED  BY <1>2, <3>1
  <2>2. CASE \E q \in S : q.id = i
    <3>1. N[i] = UNION {Apres(q, t)[i] : q \in {x \in S : x.id = i}}
        BY <2>2 DEF ApresDe
    <3> HIDE DEF N
    <3>2. PICK q \in S : q.id = i /\ m \in Apres(q, t)[i]
        BY <1>2, <3>1
    <3>3. Apres(q, t)[i] = IF q.insertion THEN {q.ligne} ELSE {Fusion(q, l) : l \in t[i]}
        BY <3>2 DEF Apres
    <3>4. q.ligne \in row
        BY <3>2
    <3>5. ASSUME NEW l \in t[i] PROVE Fusion(q, l) \in row
      <4>1. l \in row
          OBVIOUS
      <4>2. \A C : [c \in DOMAIN q.ligne |-> IF c \in C THEN q.ligne[c] ELSE l[c]] \in row
          BY <3>4, <4>1 DEF Colonnes
      <4> QED  BY <4>2 DEF Fusion
    <3>6. CASE q.insertion
        BY <3>2, <3>3, <3>4, <3>6
    <3>7. CASE ~q.insertion
        BY <3>2, <3>3, <3>5, <3>7
    <3> QED  BY <3>6, <3>7
  <2> QED  BY <2>1, <2>2
<1> HIDE DEF N
<1>3. N \in [ids -> SUBSET row]
      BY <1>1, <1>2
<1> QED  BY <1>3 DEF N

LEMMA TypesValider ==
    ASSUME ReqOK(requete), EcrituresTypees, NEW r \in Requetes, NEW nom, NEW t, NEW ids, NEW row,
           Espace(nom) = ids \X row, Colonnes(row), t \in [ids -> SUBSET row], Valider(r, nom, t)
    PROVE  EcrituresTypees' /\ ApresTout(r, t) \in [ids -> SUBSET row]
<1>1. Terminer(r) /\ \A q \in requete[r] : q.table = nom
      BY DEF Valider
<1>2. \A q \in requete[r] : <<q.id, q.ligne>> \in ids \X row
      BY <1>1 DEF EcrituresTypees
<1> QED  BY <1>1, <1>2, TypesTerminer, TypesApres DEF ApresTout

(* The use-cases: what they will write is a row of its table.              *)
LEMMA TypesNoeud ==
    ASSUME ReqOK(requete), EcrituresTypees, TypesEngine, NEW r \in Requetes,
           Arbre(r) \/ Publication(r) \/ Revision(r) \/ Rattachement(r)
    PROVE  EcrituresTypees'
<1>1. /\ n1 \in Noeuds /\ n2 \in Noeuds /\ n3 \in Noeuds /\ n4 \in Noeuds /\ p1 \in Pays
      /\ MaxChemin \in Nat
      BY NoyauAssumption, NoeudAssumption
<1>2. /\ \A n \in Noeuds : noeuds[n] \subseteq NoeudRow
      /\ \A v \in Villes : villes[v] \subseteq VilleRow
      BY DEF TypesEngine
<1>3. ASSUME NEW n \in Noeuds, NEW k \in NoeudRow, NEW type, Traiter(r, "noeud", noeuds, n, k, type)
      PROVE  EcrituresTypees'
      BY <1>3, EspaceEngine, TypesTraiter
<1>4. ASSUME NEW v \in Villes, NEW k \in VilleRow, NEW type, Traiter(r, "ville", villes, v, k, type)
      PROVE  EcrituresTypees'
      BY <1>4, EspaceEngine, TypesTraiter
<1>5. ASSUME NEW n \in Noeuds, ReattachNoeudRacine(r, n) PROVE EcrituresTypees'
  <2>1. PICK l \in noeuds[n] : Traiter(r, "noeud", noeuds, n, reattachToRoot(n, l), "BRANCH_REATTACHED")
      BY <1>5 DEF ReattachNoeudRacine
  <2>2. <<n>> \in Seq(Noeuds) /\ 1 \in Nat
      OBVIOUS
  <2>3. reattachToRoot(n, l) \in NoeudRow
      BY <1>2, <2>2 DEF reattachToRoot, NoeudRow
  <2> QED  BY <1>3, <2>1, <2>3
<1>6. ASSUME NEW n \in Noeuds, NEW m \in Noeuds, ReattachNoeud(r, n, m) PROVE EcrituresTypees'
  <2>1. PICK l \in noeuds[n], p \in noeuds[m] :
            Traiter(r, "noeud", noeuds, n, reattachToParent(n, l, m, p), "BRANCH_REATTACHED")
      BY <1>6 DEF ReattachNoeud
  <2>2. Append(p.chemin, n) \in Seq(Noeuds) /\ p.rang + 1 \in Nat
    <3>1. p.chemin \in Seq(Noeuds) /\ p.rang \in Nat
        BY <1>2 DEF NoeudRow
    <3> QED  BY <3>1
  <2>3. reattachToParent(n, l, m, p) \in NoeudRow
      BY <1>2, <2>2 DEF reattachToParent, NoeudRow
  <2> QED  BY <1>3, <2>1, <2>3
<1>7. ASSUME NEW n \in Noeuds, DeactivateNoeud(r, n) \/ ReactivateNoeud(r, n) PROVE EcrituresTypees'
  <2>1. PICK l \in noeuds[n], a \in BOOLEAN : \E type : Traiter(r, "noeud", noeuds, n, [l EXCEPT !.actif = a], type)
      BY <1>7 DEF DeactivateNoeud, ReactivateNoeud
  <2>2. [l EXCEPT !.actif = a] \in NoeudRow
      BY <1>2 DEF NoeudRow
  <2> QED  BY <1>3, <2>1, <2>2
<1>8. ASSUME NEW n \in Noeuds, NEW p \in Pays, NEW t \in BOOLEAN, CreateNoeudRacine(r, n, p, t)
      PROVE  EcrituresTypees'
  <2>1. createRoot(n, p, t) \in NoeudRow
      BY DEF createRoot, NoeudRow, Statuts
  <2> QED  BY <1>3, <1>8, <2>1 DEF CreateNoeudRacine
<1>9. ASSUME NEW n \in Noeuds, NEW m \in Noeuds, NEW t \in BOOLEAN, CreateNoeudEnfant(r, n, m, t)
      PROVE  EcrituresTypees'
  <2>1. PICK p \in noeuds[m] :
            Traiter(r, "noeud", noeuds, n, createChild(n, m, p, t), "ADMINISTRATIVE_HIERARCHY_NODE_CREATED")
      BY <1>9 DEF CreateNoeudEnfant
  <2>2. Append(p.chemin, n) \in Seq(Noeuds) /\ p.rang + 1 \in Nat /\ p.pays \in Pays
    <3>1. p.chemin \in Seq(Noeuds) /\ p.rang \in Nat /\ p.pays \in Pays
        BY <1>2 DEF NoeudRow
    <3> QED  BY <3>1
  <2>3. createChild(n, m, p, t) \in NoeudRow
      BY <2>2 DEF createChild, NoeudRow, Statuts
  <2> QED  BY <1>3, <2>1, <2>3
<1>10. ASSUME NEW n \in Noeuds, NEW s \in Statuts, TransitionNoeud(r, n, s) PROVE EcrituresTypees'
  <2>1. PICK l \in noeuds[n] : \E type : Traiter(r, "noeud", noeuds, n, [l EXCEPT !.statut = s], type)
      BY <1>10 DEF TransitionNoeud
  <2>2. [l EXCEPT !.statut = s] \in NoeudRow
      BY <1>2 DEF NoeudRow
  <2> QED  BY <1>3, <2>1, <2>2
<1>11. ASSUME NEW n \in Noeuds, UpdateNoeud(r, n) PROVE EcrituresTypees'
      BY <1>2, <1>3, <1>11 DEF UpdateNoeud
<1>12. ASSUME NEW k \in 1..MaxChemin, CreateNiveau(r, p1, k) PROVE EcrituresTypees'
  <2>1. <<p1, k>> \in ToutNiveau
      BY <1>1 DEF ToutNiveau
  <2>2. [actif |-> TRUE] \in NiveauRow
      BY DEF NiveauRow
  <2> QED  BY <1>12, <2>1, <2>2, EspaceEngine, TypesTraiter DEF CreateNiveau
<1>13. ASSUME NEW v \in Villes, NEW n \in Noeuds \union {Nul}, CreateVille(r, v, n) \/ MoveVille(r, v, n)
       PROVE  EcrituresTypees'
  <2>1. [noeud |-> n, actif |-> TRUE] \in VilleRow /\ \A l \in VilleRow : [l EXCEPT !.noeud = n] \in VilleRow
      BY DEF VilleRow
  <2> QED  BY <1>2, <1>4, <1>13, <2>1 DEF CreateVille, MoveVille
<1>14. ASSUME NEW v \in Villes, NEW a \in BOOLEAN, SetVilleActivation(r, v, a) PROVE EcrituresTypees'
  <2>1. PICK l \in villes[v] : Traiter(r, "ville", villes, v, [l EXCEPT !.actif = a], Nul)
      BY <1>14 DEF SetVilleActivation
  <2>2. [l EXCEPT !.actif = a] \in VilleRow
      BY <1>2 DEF VilleRow
  <2> QED  BY <1>4, <2>1, <2>2
<1>15. CASE Arbre(r)
      BY <1>1, <1>5, <1>6, <1>15 DEF Arbre
<1>16. CASE Publication(r)
      BY <1>1, <1>5, <1>7, <1>13, <1>16 DEF Publication
<1>17. CASE Revision(r)
      BY <1>1, <1>8, <1>9, <1>10, <1>11, <1>12, <1>17 DEF Revision
<1>18. CASE Rattachement(r)
      BY <1>1, <1>13, <1>14, <1>18 DEF Rattachement
<1> QED  BY <1>15, <1>16, <1>17, <1>18

LEMMA TypesRegle ==
    ASSUME ReqOK(requete), EcrituresTypees, TypesEngine, NEW r \in Requetes, Reglementation(r)
    PROVE  EcrituresTypees'
<1>1. PICK x \in Regles :
          \/ \E n \in {n1, n2} : CreateReferentielRegle(r, x, n, "A_VERIFIER")
          \/ \E c \in {"VERIFIE", "A_VERIFIER"} : UpdateReferentielRegle(r, x, c)
          \/ \E s \in Statuts : TransitionRegle(r, x, s)
          \/ \E a \in BOOLEAN : SetRegleActivation(r, x, a)
      BY DEF Reglementation
<1>2. n1 \in Noeuds /\ n2 \in Noeuds
      BY NoyauAssumption
<1>3. regles[x] \subseteq RegleRow
      BY DEF TypesEngine
<1>4. ASSUME NEW k \in RegleRow, NEW type, Traiter(r, "regle", regles, x, k, type) PROVE EcrituresTypees'
      BY <1>4, EspaceEngine, TypesTraiter
<1>5. ASSUME NEW n \in Noeuds, CreateReferentielRegle(r, x, n, "A_VERIFIER") PROVE EcrituresTypees'
  <2>1. [noeud |-> n, confiance |-> "A_VERIFIER", actif |-> TRUE, statut |-> "brouillon"] \in RegleRow
      BY DEF RegleRow, Statuts
  <2> QED  BY <1>4, <1>5, <2>1 DEF CreateReferentielRegle
<1>6. ASSUME NEW c \in {"VERIFIE", "A_VERIFIER"}, UpdateReferentielRegle(r, x, c) PROVE EcrituresTypees'
  <2>1. PICK l \in regles[x] : Traiter(r, "regle", regles, x, [l EXCEPT !.confiance = c], Nul)
      BY <1>6 DEF UpdateReferentielRegle
  <2>2. [l EXCEPT !.confiance = c] \in RegleRow
      BY <1>3 DEF RegleRow
  <2> QED  BY <1>4, <2>1, <2>2
<1>7. ASSUME NEW s \in Statuts, TransitionRegle(r, x, s) PROVE EcrituresTypees'
  <2>1. PICK l \in regles[x] : \E type : Traiter(r, "regle", regles, x, [l EXCEPT !.statut = s], type)
      BY <1>7 DEF TransitionRegle
  <2>2. [l EXCEPT !.statut = s] \in RegleRow
      BY <1>3 DEF RegleRow
  <2> QED  BY <1>4, <2>1, <2>2
<1>8. ASSUME NEW a \in BOOLEAN, SetRegleActivation(r, x, a) PROVE EcrituresTypees'
  <2>1. PICK l \in regles[x] : Traiter(r, "regle", regles, x, [l EXCEPT !.actif = a], Nul)
      BY <1>8 DEF SetRegleActivation
  <2>2. [l EXCEPT !.actif = a] \in RegleRow
      BY <1>3 DEF RegleRow
  <2> QED  BY <1>4, <2>1, <2>2
<1> QED  BY <1>1, <1>2, <1>5, <1>6, <1>7, <1>8

LEMMA TypesEngineEtape ==
    ASSUME ReqOK(requete), EcrituresTypees, TypesEngine, EngineNext
    PROVE  EcrituresTypees' /\ TypesEngine'
<1>1. /\ Colonnes(NiveauRow) /\ Colonnes(NoeudRow) /\ Colonnes(RegleRow) /\ Colonnes(VilleRow)
      BY ColonnesTypes, NoeudColonnes, VilleColonnes
<1>2. ASSUME NEW r \in Requetes, UNCHANGED <<tablesEngine, compteur, deplace>>,
             Arbre(r) \/ Publication(r) \/ Revision(r) \/ Rattachement(r) \/ Reglementation(r)
      PROVE  EcrituresTypees' /\ TypesEngine'
  <2>1. EcrituresTypees'
      BY <1>2, TypesNoeud, TypesRegle
  <2>2. retard' \in BOOLEAN
    <3>1. \A n : LireCompte(n) => retard' \in BOOLEAN
        BY DEF LireCompte
    <3>2. ASSUME Arbre(r) PROVE retard' \in BOOLEAN
        BY <3>1, <3>2 DEF Arbre, ReattachNoeudRacine, ReattachNoeud
    <3>3. ASSUME Publication(r) PROVE retard' \in BOOLEAN
        BY <3>1, <3>3 DEF Publication, ReattachNoeudRacine, DeactivateNoeud, TypesEngine
    <3> QED  BY <1>2, <3>2, <3>3 DEF Revision, Rattachement, Reglementation, TypesEngine
  <2> QED  BY <1>2, <2>1, <2>2 DEF TypesEngine, tablesEngine
<1>3. ASSUME NEW r \in Requetes, saveEngine(r) PROVE EcrituresTypees' /\ TypesEngine'
      BY <1>3, TypesSave DEF saveEngine, TypesEngine, engineVars, tablesEngine
<1>4. ASSUME NEW r \in Requetes, commitNiveau(r) PROVE EcrituresTypees' /\ TypesEngine'
  <2>1. EcrituresTypees' /\ niveaux' \in [ToutNiveau -> SUBSET NiveauRow]
      BY <1>1, <1>4, EspaceEngine, TypesValider DEF commitNiveau, TypesEngine
  <2> QED  BY <1>4, <2>1 DEF commitNiveau, TypesEngine
<1>5. ASSUME NEW r \in Requetes, commitNoeud(r) PROVE EcrituresTypees' /\ TypesEngine'
  <2>1. EcrituresTypees' /\ noeuds' \in [Noeuds -> SUBSET NoeudRow]
      BY <1>1, <1>5, EspaceEngine, TypesValider DEF commitNoeud, TypesEngine
  <2>2. deplace' \in {"rien", "feuilles", "branches"}
      BY <1>5 DEF commitNoeud, Deplacement, TypesEngine
  <2> QED  BY <1>5, <2>1, <2>2 DEF commitNoeud, TypesEngine
<1>6. ASSUME NEW r \in Requetes, commitRegle(r) PROVE EcrituresTypees' /\ TypesEngine'
  <2>1. EcrituresTypees' /\ regles' \in [Regles -> SUBSET RegleRow]
      BY <1>1, <1>6, EspaceEngine, TypesValider DEF commitRegle, TypesEngine
  <2> QED  BY <1>6, <2>1 DEF commitRegle, TypesEngine
<1>7. ASSUME NEW r \in Requetes, commitVille(r) PROVE EcrituresTypees' /\ TypesEngine'
  <2>1. EcrituresTypees' /\ villes' \in [Villes -> SUBSET VilleRow]
      BY <1>1, <1>7, EspaceEngine, TypesValider DEF commitVille, TypesEngine
  <2> QED  BY <1>7, <2>1 DEF commitVille, TypesEngine
<1>8. ASSUME NEW n, Compter(n) PROVE EcrituresTypees' /\ TypesEngine'
  <2>1. EcrituresTypees'
      BY <1>8, TypesInerte DEF Compter
  <2>2. compteur' \in [Noeuds -> Nat]
      BY <1>8 DEF Compter, Compte!incrementer, Compte!decrementer, TypesEngine
  <2> QED  BY <1>8, <2>1, <2>2 DEF Compter, TypesEngine, tablesEngine
<1> QED  BY <1>2, <1>3, <1>4, <1>5, <1>6, <1>7, <1>8 DEF EngineNext

LEMMA TypesCorpusEtape ==
    ASSUME ReqOK(requete), EcrituresTypees, TypesCorpus, CorpusNext
    PROVE  EcrituresTypees' /\ TypesCorpus'
<1>1. Colonnes(CorpusRow) /\ Colonnes(ElementRow)
      BY ColonnesTypes, ElementColonnes
<1>2. ASSUME NEW r \in Requetes, Edition(r) PROVE EcrituresTypees'
  <2>1. PICK c \in Corpus, f \in {"VERIFIE", "A_VERIFIER"} :
            \/ CreateCorpusVersionne(r, c, f) \/ UpdateCorpusVersionne(r, c, f)
            \/ PublishCorpus(r, c) \/ ArchiveCorpus(r, c)
      BY <1>2 DEF Edition
  <2>2. corpus[c] \subseteq CorpusRow
      BY DEF TypesCorpus
  <2>3. ASSUME NEW k \in CorpusRow, NEW type, Traiter(r, "corpus", corpus, c, k, type)
        PROVE  EcrituresTypees'
      BY <2>3, EspaceCorpus, TypesTraiter
  <2>4. CASE CreateCorpusVersionne(r, c, f)
    <3>1. [confiance |-> f, statut |-> "brouillon"] \in CorpusRow
        BY DEF CorpusRow, StatutsCorpus
    <3> QED  BY <2>3, <2>4, <3>1 DEF CreateCorpusVersionne
  <2>5. CASE UpdateCorpusVersionne(r, c, f)
    <3>1. PICK l \in corpus[c] : Traiter(r, "corpus", corpus, c, [l EXCEPT !.confiance = f], Nul)
        BY <2>5 DEF UpdateCorpusVersionne
    <3>2. [l EXCEPT !.confiance = f] \in CorpusRow
        BY <2>2 DEF CorpusRow
    <3> QED  BY <2>3, <3>1, <3>2
  <2>6. CASE PublishCorpus(r, c) \/ ArchiveCorpus(r, c)
    <3>1. PICK l \in corpus[c], s \in {"publie", "archive"} : \E type :
              Traiter(r, "corpus", corpus, c, [l EXCEPT !.statut = s], type)
        BY <2>6 DEF PublishCorpus, ArchiveCorpus
    <3>2. [l EXCEPT !.statut = s] \in CorpusRow
        BY <2>2 DEF CorpusRow, StatutsCorpus
    <3> QED  BY <2>3, <3>1, <3>2
  <2> QED  BY <2>1, <2>4, <2>5, <2>6
<1>3. ASSUME NEW r \in Requetes, Arborescence(r) PROVE EcrituresTypees'
  <2>1. PICK e \in Elements, p \in Elements \union {Nul} :
            \/ \E c \in Corpus : AttachCorpusElement(r, e, c, n1, p)
            \/ ReattachCorpusElement(r, e, p) \/ UpdateCorpusElement(r, e)
      BY <1>3 DEF Arborescence
  <2>2. elements[e] \subseteq ElementRow
      BY DEF TypesCorpus
  <2>3. ASSUME NEW k \in ElementRow, NEW type, Traiter(r, "element", elements, e, k, type)
        PROVE  EcrituresTypees'
      BY <2>3, EspaceCorpus, TypesTraiter
  <2>4. ASSUME NEW c \in Corpus, AttachCorpusElement(r, e, c, n1, p) PROVE EcrituresTypees'
    <3>1. [corpus |-> c, noeud |-> n1, parent |-> p] \in ElementRow
        BY NoyauAssumption DEF ElementRow
    <3> QED  BY <2>3, <2>4, <3>1 DEF AttachCorpusElement
  <2>5. CASE ReattachCorpusElement(r, e, p)
    <3>1. PICK l \in elements[e] : Traiter(r, "element", elements, e, [l EXCEPT !.parent = p], Nul)
        BY <2>5 DEF ReattachCorpusElement
    <3>2. [l EXCEPT !.parent = p] \in ElementRow
        BY <2>2 DEF ElementRow
    <3> QED  BY <2>3, <3>1, <3>2
  <2>6. CASE UpdateCorpusElement(r, e)
      BY <2>2, <2>3, <2>6 DEF UpdateCorpusElement
  <2> QED  BY <2>1, <2>4, <2>5, <2>6
<1>4. ASSUME NEW r \in Requetes, saveCorpus(r) PROVE EcrituresTypees' /\ UNCHANGED corpusVars
      BY <1>4, TypesSave DEF saveCorpus
<1>5. ASSUME NEW r \in Requetes, commitCorpus(r) PROVE EcrituresTypees' /\ TypesCorpus'
      BY <1>1, <1>5, EspaceCorpus, TypesValider DEF commitCorpus, TypesCorpus
<1>6. ASSUME NEW r \in Requetes, commitElement(r) PROVE EcrituresTypees' /\ TypesCorpus'
      BY <1>1, <1>6, EspaceCorpus, TypesValider DEF commitElement, TypesCorpus
<1>7. UNCHANGED corpusVars => TypesCorpus'
      BY DEF corpusVars, TypesCorpus
<1> QED  BY <1>2, <1>3, <1>4, <1>5, <1>6, <1>7 DEF CorpusNext

LEMMA TypesRegistreEtape ==
    ASSUME ReqOK(requete), EcrituresTypees, TypesRegistre, RegistreNext
    PROVE  EcrituresTypees' /\ TypesRegistre'
<1>1. Colonnes(ProduitRow) /\ Colonnes(DeploiementRow)
      BY ColonnesTypes
<1>2. ASSUME NEW r \in Requetes, NEW p \in Produits, NEW k \in ProduitRow, NEW type,
             Traiter(r, "produit", produits, p, k, type)
      PROVE  EcrituresTypees'
      BY <1>2, EspaceRegistre, TypesTraiter
<1>3. \A p \in Produits : produits[p] \subseteq ProduitRow
      BY DEF TypesRegistre
<1>4. ASSUME NEW r \in Requetes, NEW p \in Produits, NEW a \in BOOLEAN, SetProduitActivation(r, p, a)
      PROVE  EcrituresTypees'
  <2>1. PICK l \in produits[p] : \E type : Traiter(r, "produit", produits, p, [l EXCEPT !.actif = a], type)
      BY <1>4 DEF SetProduitActivation
  <2>2. [l EXCEPT !.actif = a] \in ProduitRow
      BY <1>3 DEF ProduitRow
  <2> QED  BY <1>2, <2>1, <2>2
<1>5. ASSUME NEW r \in Requetes, NEW p \in Produits,
             CreateProduitPortefeuille(r, p) \/ UpdateProduitPortefeuille(r, p)
      PROVE  EcrituresTypees'
  <2>1. [actif |-> TRUE] \in ProduitRow
      BY DEF ProduitRow
  <2> QED  BY <1>2, <1>3, <1>5, <2>1 DEF CreateProduitPortefeuille, UpdateProduitPortefeuille
<1>6. ASSUME NEW r \in Requetes, NEW p \in Produits, NEW t \in Trajectoires,
             SetDeploiementStatut(r, p, p1, t)
      PROVE  EcrituresTypees'
  <2>1. <<p, p1>> \in Produits \X Pays
      BY NoyauAssumption
  <2>2. findByProduitAndPays(p, p1) \subseteq DeploiementRow
      BY <2>1 DEF findByProduitAndPays, TypesRegistre
  <2>3. [statut |-> t] \in DeploiementRow /\ \A x \in DeploiementRow : changerStatut(x, t) \in DeploiementRow
      BY DEF DeploiementRow, changerStatut
  <2>4. PICK l \in DeploiementRow :
            Traiter(r, "deploiement", deploiements, <<p, p1>>, l, "PRODUIT_PAYS_DEPLOIEMENT_CHANGED")
      BY <1>6, <2>2, <2>3 DEF SetDeploiementStatut
  <2> QED  BY <2>1, <2>4, EspaceRegistre, TypesTraiter
<1>7. ASSUME NEW r \in Requetes, Registre(r) \/ \E a \in BOOLEAN : SetProduitActivation(r, a1, a)
      PROVE  EcrituresTypees'
      BY <1>4, <1>5, <1>6, <1>7, NoyauAssumption DEF Registre
<1>8. ASSUME NEW r \in Requetes, saveRegistre(r) PROVE EcrituresTypees' /\ UNCHANGED registreVars
      BY <1>8, TypesSave DEF saveRegistre
<1>9. ASSUME NEW r \in Requetes, commitProduit(r) PROVE EcrituresTypees' /\ TypesRegistre'
      BY <1>1, <1>9, EspaceRegistre, TypesValider DEF commitProduit, TypesRegistre
<1>10. ASSUME NEW r \in Requetes, commitDeploiement(r) PROVE EcrituresTypees' /\ TypesRegistre'
      BY <1>1, <1>10, EspaceRegistre, TypesValider DEF commitDeploiement, TypesRegistre
<1>11. UNCHANGED registreVars => TypesRegistre'
      BY DEF registreVars, TypesRegistre
<1> QED  BY <1>7, <1>8, <1>9, <1>10, <1>11 DEF RegistreNext

LEMMA TypesOrgEtape ==
    ASSUME ReqOK(requete), EcrituresTypees, TypesOrg, OrgNext
    PROVE  EcrituresTypees' /\ TypesOrg'
<1>0. o1 \in Orgs /\ a1 \in Produits
      BY NoyauAssumption
<1>1. Colonnes(OrganisationRow) /\ Colonnes(UniteRow) /\ Colonnes(AbonnementRow)
      BY ColonnesTypes, AbonnementColonnes
<1>2. /\ \A o \in Orgs : organisations[o] \subseteq OrganisationRow
      /\ \A u \in Unites : unites[u] \subseteq UniteRow
      /\ \A x \in Abonnements : abonnements[x] \subseteq AbonnementRow
      BY DEF TypesOrg
<1>3. ASSUME NEW r \in Requetes, NEW o \in Orgs, NEW k \in OrganisationRow, NEW type,
             Traiter(r, "organisation", organisations, o, k, type)
      PROVE  EcrituresTypees'
      BY <1>3, EspaceOrg, TypesTraiter
<1>4. ASSUME NEW r \in Requetes, NEW u \in Unites, NEW k \in UniteRow, NEW type,
             Traiter(r, "unite", unites, u, k, type)
      PROVE  EcrituresTypees'
      BY <1>4, EspaceOrg, TypesTraiter
<1>5. ASSUME NEW r \in Requetes, NEW x \in Abonnements, NEW k \in AbonnementRow, NEW type,
             Traiter(r, "abonnement", abonnements, x, k, type)
      PROVE  EcrituresTypees'
      BY <1>5, EspaceOrg, TypesTraiter
<1>6. ASSUME NEW r \in Requetes, NEW o \in Orgs, NEW a \in BOOLEAN, SetOrganisationActivation(r, o, a)
      PROVE  EcrituresTypees'
  <2>1. PICK l \in organisations[o] : \E type :
            Traiter(r, "organisation", organisations, o, [l EXCEPT !.actif = a], type)
      BY <1>6 DEF SetOrganisationActivation
  <2>2. [l EXCEPT !.actif = a] \in OrganisationRow
      BY <1>2 DEF OrganisationRow
  <2> QED  BY <1>3, <2>1, <2>2
<1>7. ASSUME NEW r \in Requetes, Filiation(r) PROVE EcrituresTypees'
  <2>1. PICK o \in Orgs, m \in Orgs \union {Nul} :
            \/ CreateOrganisation(r, o, m) \/ ReattachOrganisation(r, o, m)
            \/ UpdateOrganisation(r, o) \/ UpdateOrganisationReferentiel(r, o)
      BY <1>7 DEF Filiation
  <2>2. CASE CreateOrganisation(r, o, m)
    <3>1. [mere |-> m, actif |-> TRUE] \in OrganisationRow
        BY DEF OrganisationRow
    <3> QED  BY <1>3, <2>2, <3>1 DEF CreateOrganisation
  <2>3. CASE ReattachOrganisation(r, o, m)
    <3>1. PICK l \in organisations[o] : \E type :
              Traiter(r, "organisation", organisations, o, [l EXCEPT !.mere = m], type)
        BY <2>3 DEF ReattachOrganisation
    <3>2. [l EXCEPT !.mere = m] \in OrganisationRow
        BY <1>2 DEF OrganisationRow
    <3> QED  BY <1>3, <3>1, <3>2
  <2>4. CASE UpdateOrganisation(r, o) \/ UpdateOrganisationReferentiel(r, o)
      BY <1>2, <1>3, <2>4 DEF UpdateOrganisation, UpdateOrganisationReferentiel
  <2> QED  BY <2>1, <2>2, <2>3, <2>4
<1>8. ASSUME NEW r \in Requetes, Equipement(r) PROVE EcrituresTypees'
  <2>1. PICK u \in Unites, a \in BOOLEAN :
            \/ CreateUniteOperationnelle(r, u, o1) \/ UpdateUniteOperationnelleReferentiel(r, u)
            \/ SetUniteOperationnelleActivation(r, u, a) \/ SetOrganisationActivation(r, o1, a)
      BY <1>8 DEF Equipement
  <2>2. CASE CreateUniteOperationnelle(r, u, o1)
    <3>1. [organisation |-> o1, actif |-> TRUE] \in UniteRow
        BY <1>0 DEF UniteRow
    <3> QED  BY <1>4, <2>2, <3>1 DEF CreateUniteOperationnelle
  <2>3. CASE UpdateUniteOperationnelleReferentiel(r, u)
      BY <1>2, <1>4, <2>3 DEF UpdateUniteOperationnelleReferentiel
  <2>4. CASE SetUniteOperationnelleActivation(r, u, a)
    <3>1. PICK l \in unites[u] : Traiter(r, "unite", unites, u, [l EXCEPT !.actif = a], Nul)
        BY <2>4 DEF SetUniteOperationnelleActivation
    <3>2. [l EXCEPT !.actif = a] \in UniteRow
        BY <1>2 DEF UniteRow
    <3> QED  BY <1>4, <3>1, <3>2
  <2> QED  BY <1>0, <1>6, <2>1, <2>2, <2>3, <2>4
<1>9. ASSUME NEW r \in Requetes, Souscription(r) PROVE EcrituresTypees'
  <2>1. PICK x \in Abonnements, s \in {"actif", "suspendu", "resilie"} :
            SubscribeToProduit(r, x, o1, a1) \/ TransitionAbonnement(r, x, s)
      BY <1>9 DEF Souscription
  <2>2. CASE SubscribeToProduit(r, x, o1, a1)
    <3>1. [organisation |-> o1, produit |-> a1, statut |-> "actif"] \in AbonnementRow
        BY <1>0 DEF AbonnementRow
    <3> QED  BY <1>5, <2>2, <3>1 DEF SubscribeToProduit
  <2>3. CASE TransitionAbonnement(r, x, s)
    <3>1. PICK l \in abonnements[x] : \E type :
              Traiter(r, "abonnement", abonnements, x, [l EXCEPT !.statut = s], type)
        BY <2>3 DEF TransitionAbonnement
    <3>2. [l EXCEPT !.statut = s] \in AbonnementRow
        BY <1>2 DEF AbonnementRow
    <3> QED  BY <1>5, <3>1, <3>2
  <2> QED  BY <2>1, <2>2, <2>3
<1>10. ASSUME NEW r \in Requetes, saveOrg(r) PROVE EcrituresTypees' /\ UNCHANGED orgVars
      BY <1>10, TypesSave DEF saveOrg
<1>11. ASSUME NEW r \in Requetes, commitOrganisation(r) PROVE EcrituresTypees' /\ TypesOrg'
      BY <1>1, <1>11, EspaceOrg, TypesValider DEF commitOrganisation, TypesOrg
<1>12. ASSUME NEW r \in Requetes, commitUnite(r) PROVE EcrituresTypees' /\ TypesOrg'
      BY <1>1, <1>12, EspaceOrg, TypesValider DEF commitUnite, TypesOrg
<1>13. ASSUME NEW r \in Requetes, commitAbonnement(r) PROVE EcrituresTypees' /\ TypesOrg'
      BY <1>1, <1>13, EspaceOrg, TypesValider DEF commitAbonnement, TypesOrg
<1>14. UNCHANGED orgVars => TypesOrg'
      BY DEF orgVars, TypesOrg
<1> QED  BY <1>0, <1>6, <1>7, <1>8, <1>9, <1>10, <1>11, <1>12, <1>13, <1>14 DEF OrgNext

LEMMA TypesFiches ==
    ASSUME ReqOK(requete), EcrituresTypees, TypesReferentiel, NEW r \in Requetes, Fiches(r)
    PROVE  EcrituresTypees'
<1>1. \A k \in CodesFiches : fiches[k] \subseteq FicheRow
      BY DEF TypesReferentiel
<1>2. ASSUME NEW k \in CodesFiches, NEW l \in FicheRow, NEW type, Traiter(r, "fiche", fiches, k, l, type)
      PROVE  EcrituresTypees'
      BY <1>2, EspaceReferentiel, TypesTraiter
<1>3. ASSUME NEW k \in CodesFiches, NEW type, Creer(r, k, type) PROVE EcrituresTypees'
  <2>1. [actif |-> TRUE, statut |-> "brouillon"] \in FicheRow
      BY DEF FicheRow, StatutsFiche
  <2> QED  BY <1>2, <1>3, <2>1 DEF Creer
<1>4. ASSUME NEW k \in CodesFiches, NEW s \in StatutsFiche, NEW type, Transition(r, k, s, type)
      PROVE  EcrituresTypees'
  <2>1. PICK l \in fiches[k] : \E e : Traiter(r, "fiche", fiches, k, [l EXCEPT !.statut = s], e)
      BY <1>4 DEF Transition
  <2>2. [l EXCEPT !.statut = s] \in FicheRow
      BY <1>1 DEF FicheRow
  <2> QED  BY <1>2, <2>1, <2>2
<1>5. /\ \A p \in Pays : <<"pays", p>> \in CodesFiches
      /\ \A d \in Devises : <<"devise", d>> \in CodesFiches
      /\ \A l \in Langues : <<"langue", l>> \in CodesFiches
      /\ \A b \in Blocs : <<"bloc", b>> \in CodesFiches
      BY DEF CodesFiches
<1>6. ASSUME NEW p \in Pays, NEW a \in BOOLEAN, SetPaysActivation(r, p, a) PROVE EcrituresTypees'
  <2>1. PICK l \in fiches[<<"pays", p>>] : \E e :
            Traiter(r, "fiche", fiches, <<"pays", p>>, [l EXCEPT !.actif = a], e)
      BY <1>6 DEF SetPaysActivation
  <2>2. [l EXCEPT !.actif = a] \in FicheRow
      BY <1>1, <1>5 DEF FicheRow
  <2> QED  BY <1>2, <1>5, <2>1, <2>2
<1>7. ASSUME NEW p \in Pays, NEW s \in StatutsFiche,
             CreatePays(r, p) \/ UpdatePays(r, p) \/ TransitionPays(r, p, s)
      PROVE  EcrituresTypees'
      BY <1>1, <1>2, <1>3, <1>4, <1>5, <1>7 DEF CreatePays, UpdatePays, TransitionPays
<1>8. ASSUME NEW d \in Devises, NEW s \in StatutsFiche, CreateDevise(r, d) \/ TransitionDevise(r, d, s)
      PROVE  EcrituresTypees'
      BY <1>3, <1>4, <1>5, <1>8 DEF CreateDevise, TransitionDevise
<1>9. ASSUME NEW l \in Langues, NEW s \in StatutsFiche, CreateLangue(r, l) \/ TransitionLangue(r, l, s)
      PROVE  EcrituresTypees'
      BY <1>3, <1>4, <1>5, <1>9 DEF CreateLangue, TransitionLangue
<1>10. ASSUME NEW b \in Blocs, NEW s \in StatutsFiche,
              CreateBlocRegional(r, b) \/ TransitionBlocRegional(r, b, s)
       PROVE  EcrituresTypees'
      BY <1>3, <1>4, <1>5, <1>10 DEF CreateBlocRegional, TransitionBlocRegional
<1>11. "brouillon" \in StatutsFiche
      BY DEF StatutsFiche
<1> QED  BY <1>6, <1>7, <1>8, <1>9, <1>10, <1>11 DEF Fiches

LEMMA TypesLiaisons ==
    ASSUME ReqOK(requete), EcrituresTypees, TypesReferentiel, NEW r \in Requetes, Liaisons(r)
    PROVE  EcrituresTypees'
<1>1. p1 \in Pays /\ d1 \in Devises /\ d2 \in Devises
      BY NoyauAssumption
<1>2. PICK x \in Relations :
          \/ \E s \in {"officielle", "vehiculaire"}, l \in Langues : AttachLangueToPays(r, x, p1, l, s)
          \/ \E b \in Blocs : AddPaysToBlocRegional(r, x, p1, b)
          \/ \E d \in Dates : WithdrawPaysFromBlocRegional(r, x, d)
          \/ \E d \in Dates, f \in Dates \union {Nul} : SetTauxChange(r, x, d1, d2, d, f)
      BY DEF Liaisons
<1>3. ASSUME NEW s \in {"officielle", "vehiculaire"}, NEW l \in Langues, AttachLangueToPays(r, x, p1, l, s)
      PROVE  EcrituresTypees'
  <2>1. [pays |-> p1, langue |-> l, statut |-> s] \in PaysLangueRow
      BY <1>1 DEF PaysLangueRow
  <2> QED  BY <1>3, <2>1, EspaceReferentiel, TypesTraiter DEF AttachLangueToPays
<1>4. ASSUME NEW b \in Blocs, AddPaysToBlocRegional(r, x, p1, b) PROVE EcrituresTypees'
  <2>1. [pays |-> p1, bloc |-> b, retrait |-> Nul, statut |-> "membre"] \in PaysBlocRegionalRow
      BY <1>1 DEF PaysBlocRegionalRow
  <2> QED  BY <1>4, <2>1, EspaceReferentiel, TypesTraiter DEF AddPaysToBlocRegional
<1>5. ASSUME NEW d \in Dates, WithdrawPaysFromBlocRegional(r, x, d) PROVE EcrituresTypees'
  <2>1. PICK l \in adhesions[x] :
            Traiter(r, "adhesion", adhesions, x, [l EXCEPT !.retrait = d, !.statut = "retire"],
                    "PAYS_BLOC_REGIONAL_RETRAIT")
      BY <1>5 DEF WithdrawPaysFromBlocRegional
  <2>2. l \in PaysBlocRegionalRow
      BY DEF TypesReferentiel
  <2>3. [l EXCEPT !.retrait = d, !.statut = "retire"] \in PaysBlocRegionalRow
      BY <2>2 DEF PaysBlocRegionalRow
  <2> QED  BY <2>1, <2>3, EspaceReferentiel, TypesTraiter
<1>6. ASSUME NEW d \in Dates, NEW f \in Dates \union {Nul}, SetTauxChange(r, x, d1, d2, d, f)
      PROVE  EcrituresTypees'
  <2>1. [base |-> d1, cible |-> d2, du |-> d, au |-> f] \in TauxChangeRow
      BY <1>1 DEF TauxChangeRow
  <2> QED  BY <1>6, <2>1, EspaceReferentiel, TypesTraiter DEF SetTauxChange
<1> QED  BY <1>2, <1>3, <1>4, <1>5, <1>6

LEMMA TypesCirculation ==
    ASSUME ReqOK(requete), EcrituresTypees, TypesReferentiel, NEW r \in Requetes, Circulation(r)
    PROVE  EcrituresTypees' /\ desordre' \in BOOLEAN
<1>1. PICK x \in Relations, v \in {d1, d2}, d \in Dates, f \in Dates \union {Nul}, b \in BOOLEAN :
          AttachDeviseToPays(r, x, p1, v, d, f, b)
      BY DEF Circulation
<1> DEFINE k == [pays |-> p1, devise |-> v, debut |-> d, fin |-> f, principale |-> b]
           n == Ecriture("circulation", x, k, TRUE, Nul)
           fini(a, l) == Ecriture("circulation", a, [l EXCEPT !.fin = d], FALSE, Nul)
           actives == IF b THEN findPrincipaleActive(p1, d) ELSE {}
<1>2. \/ TraiterTout(r, {n})
      \/ \E a \in actives : \E l \in circulations[a] : TraiterTout(r, {fini(a, l), n})
      BY <1>1 DEF AttachDeviseToPays
<1>3. desordre' \in BOOLEAN
      BY <1>1 DEF AttachDeviseToPays
<1>4. k \in PaysDeviseRow
      BY NoyauAssumption DEF PaysDeviseRow
<1>5. <<n.id, n.ligne>> \in Espace(n.table)
  <2>1. n.table = "circulation" /\ n.id = x /\ n.ligne = k
      BY DEF Ecriture
  <2> QED  BY <1>4, <2>1, EspaceReferentiel
<1>6. actives \subseteq Relations
      BY DEF findPrincipaleActive
<1>7. ASSUME NEW a \in Relations, NEW l \in circulations[a]
      PROVE  <<fini(a, l).id, fini(a, l).ligne>> \in Espace(fini(a, l).table)
  <2>1. l \in PaysDeviseRow
      BY DEF TypesReferentiel
  <2>2. [l EXCEPT !.fin = d] \in PaysDeviseRow
      BY <2>1 DEF PaysDeviseRow
  <2>3. fini(a, l).table = "circulation" /\ fini(a, l).id = a /\ fini(a, l).ligne = [l EXCEPT !.fin = d]
      BY DEF Ecriture
  <2> QED  BY <2>2, <2>3, EspaceReferentiel
<1> HIDE DEF n, k, fini, actives
<1>8. CASE TraiterTout(r, {n})
      BY <1>3, <1>5, <1>8, TypesLot
<1>9. ASSUME NEW a \in actives, NEW l \in circulations[a], TraiterTout(r, {fini(a, l), n})
      PROVE  EcrituresTypees'
  <2>1. \A q \in {fini(a, l), n} : <<q.id, q.ligne>> \in Espace(q.table)
      BY <1>5, <1>6, <1>7
  <2> QED  BY <1>9, <2>1, TypesLot
<1> QED  BY <1>2, <1>3, <1>8, <1>9

LEMMA TypesTraduction ==
    ASSUME ReqOK(requete), EcrituresTypees, TypesReferentiel, NEW r \in Requetes, Traduction(r)
    PROVE  EcrituresTypees'
<1>1. /\ \A x \in Locales : locales[x] \subseteq LocaleRow
      /\ \A k \in Locales \X Cles : traductions[k] \subseteq {[valeur |-> Nul]}
      BY DEF TypesReferentiel
<1>2. ASSUME NEW x \in Locales, NEW k \in LocaleRow, NEW type, Traiter(r, "locale", locales, x, k, type)
      PROVE  EcrituresTypees'
      BY <1>2, EspaceReferentiel, TypesTraiter
<1>3. ASSUME NEW x \in Locales, CreateLocale(r, x) \/ UpdateLocale(r, x) PROVE EcrituresTypees'
  <2>1. [actif |-> TRUE, defaut |-> FALSE] \in LocaleRow
      BY DEF LocaleRow
  <2>2. PICK k \in LocaleRow : \E type : Traiter(r, "locale", locales, x, k, type)
      BY <1>1, <1>3, <2>1 DEF CreateLocale, UpdateLocale
  <2> QED  BY <1>2, <2>2
<1>4. ASSUME NEW x \in Locales, NEW a \in BOOLEAN, SetLocaleActivation(r, x, a) PROVE EcrituresTypees'
  <2>1. PICK l \in locales[x] : Traiter(r, "locale", locales, x, [l EXCEPT !.actif = a], Nul)
      BY <1>4 DEF SetLocaleActivation
  <2>2. [l EXCEPT !.actif = a] \in LocaleRow
      BY <1>1 DEF LocaleRow
  <2> QED  BY <1>2, <2>1, <2>2
<1>5. ASSUME NEW x \in Locales, SetLocaleParDefaut(r, x) PROVE EcrituresTypees'
  <2> DEFINE ici(a) == (a = x)
             ecrit(a, l) == Ecriture("locale", a, [l EXCEPT !.defaut = ici(a)], FALSE, Nul)
             E == UNION {{ecrit(a, l) : l \in locales[a]} : a \in findParDefaut \union {x}}
  <2>1. TraiterTout(r, E)
      BY <1>5 DEF SetLocaleParDefaut
  <2>0. \A a : ici(a) \in BOOLEAN
      OBVIOUS
  <2> HIDE DEF ici
  <2>2. ASSUME NEW a \in Locales, NEW l \in locales[a]
        PROVE  <<ecrit(a, l).id, ecrit(a, l).ligne>> \in Espace(ecrit(a, l).table)
    <3>1. l \in LocaleRow
        BY <1>1
    <3>2. [l EXCEPT !.defaut = ici(a)] \in LocaleRow
        BY <2>0, <3>1 DEF LocaleRow
    <3>3. /\ ecrit(a, l).table = "locale" /\ ecrit(a, l).id = a
          /\ ecrit(a, l).ligne = [l EXCEPT !.defaut = ici(a)]
        BY DEF Ecriture
    <3> HIDE DEF ecrit
    <3> QED  BY <3>2, <3>3, EspaceReferentiel
  <2>3. findParDefaut \union {x} \subseteq Locales
      BY DEF findParDefaut
  <2> HIDE DEF ecrit
  <2>4. \A q \in E : <<q.id, q.ligne>> \in Espace(q.table)
      BY <2>2, <2>3
  <2> HIDE DEF E
  <2> QED  BY <2>1, <2>4, TypesLot
<1>6. ASSUME NEW x \in Locales, NEW c \in Cles, CreateTraduction(r, x, c) \/ UpdateTraduction(r, x, c)
      PROVE  EcrituresTypees'
  <2>1. <<x, c>> \in Locales \X Cles
      OBVIOUS
  <2>2. PICK k \in {[valeur |-> Nul]} : \E type : Traiter(r, "traduction", traductions, <<x, c>>, k, type)
      BY <1>1, <1>6, <2>1 DEF CreateTraduction, UpdateTraduction
  <2> QED  BY <2>1, <2>2, EspaceReferentiel, TypesTraiter
<1> QED  BY <1>3, <1>4, <1>5, <1>6 DEF Traduction

LEMMA TypesReferentielEtape ==
    ASSUME ReqOK(requete), EcrituresTypees, TypesReferentiel, ReferentielNext
    PROVE  EcrituresTypees' /\ TypesReferentiel'
<1>1. /\ Colonnes(FicheRow) /\ Colonnes(LocaleRow) /\ Colonnes(PaysDeviseRow)
      /\ Colonnes(PaysLangueRow) /\ Colonnes(PaysBlocRegionalRow) /\ Colonnes(TauxChangeRow)
      /\ Colonnes({[valeur |-> Nul]})
      BY ColonnesTypes, FicheColonnes, LocaleColonnes, CirculationColonnes
<1>2. ASSUME NEW r \in Requetes, UNCHANGED <<fiches, relationVars, locales, traductions>>,
             ((Fiches(r) \/ Liaisons(r) \/ Traduction(r)) /\ UNCHANGED desordre) \/ Circulation(r)
      PROVE  EcrituresTypees' /\ TypesReferentiel'
  <2>1. EcrituresTypees' /\ desordre' \in BOOLEAN
      BY <1>2, TypesFiches, TypesLiaisons, TypesTraduction, TypesCirculation DEF TypesReferentiel
  <2> QED  BY <1>2, <2>1 DEF TypesReferentiel, relationVars
<1>3. ASSUME NEW r \in Requetes, saveReferentiel(r) PROVE EcrituresTypees' /\ TypesReferentiel'
  <2>1. EcrituresTypees' /\ UNCHANGED referentielVars
      BY <1>3, TypesSave DEF saveReferentiel
  <2> QED  BY <2>1 DEF TypesReferentiel, referentielVars, relationVars
<1>4. ASSUME NEW r \in Requetes, commitFiche(r) PROVE EcrituresTypees' /\ TypesReferentiel'
      BY <1>1, <1>4, EspaceReferentiel, TypesValider DEF commitFiche, TypesReferentiel, relationVars
<1>5. ASSUME NEW r \in Requetes, commitRelation(r) PROVE EcrituresTypees' /\ TypesReferentiel'
  <2>1. EcrituresTypees'
      BY <1>5, TypesTerminer DEF commitRelation, Valider
  <2>2. /\ circulations' \in [Relations -> SUBSET PaysDeviseRow]
        /\ languesPays' \in [Relations -> SUBSET PaysLangueRow]
        /\ adhesions' \in [Relations -> SUBSET PaysBlocRegionalRow]
        /\ taux' \in [Relations -> SUBSET TauxChangeRow]
      BY <1>1, <1>5, EspaceReferentiel, TypesValider DEF commitRelation, TypesReferentiel
  <2> QED  BY <1>5, <2>1, <2>2 DEF commitRelation, TypesReferentiel
<1>6. ASSUME NEW r \in Requetes, commitLocale(r) PROVE EcrituresTypees' /\ TypesReferentiel'
      BY <1>1, <1>6, EspaceReferentiel, TypesValider DEF commitLocale, TypesReferentiel, relationVars
<1>7. ASSUME NEW r \in Requetes, commitTraduction(r) PROVE EcrituresTypees' /\ TypesReferentiel'
      BY <1>1, <1>7, EspaceReferentiel, TypesValider DEF commitTraduction, TypesReferentiel, relationVars
<1> QED  BY <1>2, <1>3, <1>4, <1>5, <1>6, <1>7 DEF ReferentielNext

LEMMA TypesConfigEtape ==
    ASSUME ReqOK(requete), EcrituresTypees, TypesConfig, ConfigNext
    PROVE  EcrituresTypees' /\ TypesConfig'
<1>1. ASSUME NEW r \in Requetes, Reglage(r) PROVE EcrituresTypees'
  <2>0. PICK c : /\ \/ \E d \in Devises \union {Nul} : c = [x \in {"devise"} |-> d]
                    \/ \E d \in Langues \union {Nul} : c = [x \in {"langue"} |-> d]
                 /\ UpdateConfigurationGlobale(r, c)
      BY <1>1 DEF Reglage
  <2>1. PICK l \in configuration["globale"] :
            Traiter(r, "configuration", configuration, "globale",
                    [x \in DOMAIN l |-> IF x \in DOMAIN c THEN c[x] ELSE l[x]], Nul)
      BY <2>0 DEF UpdateConfigurationGlobale
  <2> DEFINE k == [x \in DOMAIN l |-> IF x \in DOMAIN c THEN c[x] ELSE l[x]]
  <2>2. l \in ConfigurationRow
      BY DEF TypesConfig
  <2>3. DOMAIN l = {"devise", "langue"}
      BY <2>2 DEF ConfigurationRow
  <2>4. k \in ConfigurationRow
    <3>1. k = [devise |-> k["devise"], langue |-> k["langue"]]
        BY <2>3
    <3>2. k["devise"] \in Devises \union {Nul}
        BY <2>0, <2>2, <2>3 DEF ConfigurationRow
    <3>3. k["langue"] \in Langues \union {Nul}
        BY <2>0, <2>2, <2>3 DEF ConfigurationRow
    <3> HIDE DEF k
    <3> QED  BY <3>1, <3>2, <3>3 DEF ConfigurationRow
  <2>5. Traiter(r, "configuration", configuration, "globale", k, Nul)
      BY <2>1
  <2> HIDE DEF k
  <2> QED  BY <2>4, <2>5, EspaceConfig, TypesTraiter
<1>2. ASSUME NEW r \in Requetes, saveConfiguration(r)
      PROVE  EcrituresTypees' /\ UNCHANGED configuration
      BY <1>2, TypesSave DEF saveConfiguration
<1>3. ASSUME NEW r \in Requetes, commitConfiguration(r) PROVE EcrituresTypees' /\ TypesConfig'
      BY <1>3, ColonnesTypes, EspaceConfig, TypesValider DEF commitConfiguration, TypesConfig
<1>4. UNCHANGED configuration => TypesConfig'
      BY DEF TypesConfig
<1> QED  BY <1>1, <1>2, <1>3, <1>4 DEF ConfigNext

(* The version that a new grid is given is the next one of its offer.      *)
LEMMA TypesVersion ==
    ASSUME InvVersions, NEW o \in Offres
    PROVE  findLatestVersion(o) + 1 \in 1..(Cardinality(Grilles) + 1)
<1>1. DeOffre(grilles, o) \subseteq Grilles
      BY DEF DeOffre
<1>2. /\ Cardinality(DeOffre(grilles, o)) <= Cardinality(Grilles)
      /\ Cardinality(Grilles) \in Nat
      BY <1>1, CatalogueAssumption, FS_Subset, FS_CardinalityType
<1> QED  BY <1>2, DerniereVersion

StatutLibre(row, s) == \A l \in row : [l EXCEPT !.statut = s] \in row

LEMMA TypesTransition ==
    ASSUME ReqOK(requete), EcrituresTypees, NEW r \in Requetes, NEW nom, NEW t, NEW ids, NEW row,
           NEW i \in ids, NEW s, NEW type, TransitionCatalog(r, nom, t, i, s, type),
           t[i] \subseteq row, Espace(nom) = ids \X row,
           StatutLibre(row, s)
    PROVE  EcrituresTypees'
<1>1. PICK l \in t[i] : Traiter(r, nom, t, i, [l EXCEPT !.statut = s], type)
      BY DEF TransitionCatalog
<1> DEFINE k == [l EXCEPT !.statut = s]
<1>2. <<i, k>> \in Espace(nom) /\ Traiter(r, nom, t, i, k, type)
      BY <1>1 DEF StatutLibre
<1> HIDE DEF k
<1> QED  BY <1>2, TypesTraiter

LEMMA TypesOffres ==
    ASSUME ReqOK(requete), EcrituresTypees, TypesCatalogue, NEW r \in Requetes,
           Diffusion(r) \/ Assortiment(r) \/ Offre(r) \/ Droits(r)
    PROVE  EcrituresTypees'
<1>0. a1 \in Produits /\ o1 \in Orgs /\ k1 \in Catalogues /\ z1 \in Articles /\ f1 \in Offres
      BY NoyauAssumption
<1>1. /\ \A c \in Catalogues : catalogues[c] \subseteq CatalogueRow
      /\ \A x \in Articles : articles[x] \subseteq ArticleRow
      /\ \A o \in Offres : offres[o] \subseteq OffreRow
      BY DEF TypesCatalogue
<1>2. \A s \in StatutsCatalogue :
          StatutLibre(CatalogueRow, s) /\ StatutLibre(ArticleRow, s) /\ StatutLibre(OffreRow, s)
      BY DEF StatutLibre, CatalogueRow, ArticleRow, OffreRow
<1>3. ASSUME NEW c \in Catalogues, NEW k \in CatalogueRow, NEW type,
             Traiter(r, "catalogue", catalogues, c, k, type)
      PROVE  EcrituresTypees'
      BY <1>3, EspaceCatalogue, TypesTraiter
<1>4. ASSUME NEW x \in Articles, NEW k \in ArticleRow, NEW type,
             Traiter(r, "article", articles, x, k, type)
      PROVE  EcrituresTypees'
      BY <1>4, EspaceCatalogue, TypesTraiter
<1>5. ASSUME NEW o \in Offres, NEW k \in OffreRow, NEW type, Traiter(r, "offre", offres, o, k, type)
      PROVE  EcrituresTypees'
      BY <1>5, EspaceCatalogue, TypesTraiter
<1>6. CASE Diffusion(r)
  <2>1. PICK c \in Catalogues, m \in {o1, Nul}, s \in StatutsCatalogue :
            \/ CreateCatalogue(r, c, a1, m) \/ UpdateCatalogue(r, c)
            \/ TransitionCatalogueWorkflow(r, c, s)
      BY <1>6 DEF Diffusion, StatutsCatalogue
  <2>2. CASE CreateCatalogue(r, c, a1, m)
    <3>1. [produit |-> a1, cible |-> m, statut |-> "brouillon"] \in CatalogueRow
        BY <1>0 DEF CatalogueRow, StatutsCatalogue
    <3> QED  BY <1>3, <2>2, <3>1 DEF CreateCatalogue
  <2>3. CASE UpdateCatalogue(r, c)
      BY <1>1, <1>3, <2>3 DEF UpdateCatalogue
  <2>4. CASE TransitionCatalogueWorkflow(r, c, s)
      BY <1>1, <1>2, <2>4, EspaceCatalogue, TypesTransition DEF TransitionCatalogueWorkflow
  <2> QED  BY <2>1, <2>2, <2>3, <2>4
<1>7. CASE Assortiment(r)
  <2>1. PICK x \in Articles, s \in StatutsCatalogue :
            CreateProduit(r, x, k1) \/ UpdateProduit(r, x) \/ TransitionProduit(r, x, s)
      BY <1>7 DEF Assortiment, StatutsCatalogue
  <2>2. CASE CreateProduit(r, x, k1)
    <3>1. [catalogue |-> k1, statut |-> "brouillon"] \in ArticleRow
        BY <1>0 DEF ArticleRow, StatutsCatalogue
    <3> QED  BY <1>4, <2>2, <3>1 DEF CreateProduit
  <2>3. CASE UpdateProduit(r, x)
      BY <1>1, <1>4, <2>3 DEF UpdateProduit
  <2>4. CASE TransitionProduit(r, x, s)
      BY <1>1, <1>2, <2>4, EspaceCatalogue, TypesTransition DEF TransitionProduit
  <2> QED  BY <2>1, <2>2, <2>3, <2>4
<1>8. CASE Offre(r)
  <2>1. PICK o \in Offres, b \in BOOLEAN, u \in BOOLEAN, s \in StatutsCatalogue :
            CreateOffre(r, o, z1, b, u) \/ UpdateOffre(r, o) \/ TransitionOffre(r, o, s)
      BY <1>8 DEF Offre, StatutsCatalogue
  <2>2. CASE CreateOffre(r, o, z1, b, u)
    <3>1. [article |-> z1, ponctuelle |-> b, statut |-> "brouillon"] \in OffreRow
        BY <1>0 DEF OffreRow, StatutsCatalogue
    <3> QED  BY <1>5, <2>2, <3>1 DEF CreateOffre
  <2>3. CASE UpdateOffre(r, o)
      BY <1>1, <1>5, <2>3 DEF UpdateOffre
  <2>4. CASE TransitionOffre(r, o, s)
      BY <1>1, <1>2, <2>4, EspaceCatalogue, TypesTransition DEF TransitionOffre
  <2> QED  BY <2>1, <2>2, <2>3, <2>4
<1>9. CASE Droits(r)
  <2>1. PICK f \in Features : CreateFeature(r, f) \/ AttachEntitlementToOffre(r, f1, f)
      BY <1>9 DEF Droits
  <2>2. CASE CreateFeature(r, f)
    <3>1. [actif |-> TRUE] \in FeatureRow
        BY DEF FeatureRow
    <3> QED  BY <2>2, <3>1, EspaceCatalogue, TypesTraiter DEF CreateFeature
  <2>3. CASE AttachEntitlementToOffre(r, f1, f)
    <3>1. <<<<f1, f>>, [limite |-> Nul]>> \in Espace("droit")
        BY <1>0, EspaceCatalogue
    <3> QED  BY <2>3, <3>1, TypesTraiter DEF AttachEntitlementToOffre
  <2> QED  BY <2>1, <2>2, <2>3
<1> QED  BY <1>6, <1>7, <1>8, <1>9

LEMMA TypesTarif ==
    ASSUME ReqOK(requete), EcrituresTypees, TypesCatalogue, InvVersions, NEW r \in Requetes, Tarif(r)
    PROVE  EcrituresTypees'
<1>1. ASSUME NEW g \in Grilles, NEW debut \in Dates, NEW fin \in Dates \union {Nul},
             CreateGrilleTarifaire(r, g, f1, d2, debut, fin)
      PROVE  EcrituresTypees'
  <2> DEFINE v == findLatestVersion(f1) + 1
             k == [offre |-> f1, devise |-> d2, version |-> v,
                   debut |-> debut, fin |-> fin, statut |-> "brouillon"]
  <2>1. Traiter(r, "grille", grilles, g, k, "PRICING_GRID_CREATED")
      BY <1>1 DEF CreateGrilleTarifaire
  <2>2. f1 \in Offres /\ d2 \in Devises
      BY NoyauAssumption
  <2>3. v \in 1..(Cardinality(Grilles) + 1)
      BY <2>2, TypesVersion
  <2> HIDE DEF v
  <2>4. k \in GrilleRow
      BY <2>2, <2>3 DEF GrilleRow, StatutsCatalogue
  <2> HIDE DEF k
  <2> QED  BY <2>1, <2>4, EspaceCatalogue, TypesTraiter
<1>2. ASSUME NEW g \in Grilles, NEW s \in StatutsCatalogue, TransitionGrille(r, g, s)
      PROVE  EcrituresTypees'
  <2>1. grilles[g] \subseteq GrilleRow
      BY DEF TypesCatalogue
  <2>2. StatutLibre(GrilleRow, s)
      BY DEF StatutLibre, GrilleRow
  <2> QED  BY <1>2, <2>1, <2>2, EspaceCatalogue, TypesTransition DEF TransitionGrille
<1> QED  BY <1>1, <1>2 DEF Tarif

LEMMA TypesCatalogueEtape ==
    ASSUME ReqOK(requete), EcrituresTypees, TypesCatalogue, InvVersions, CatalogueNext
    PROVE  EcrituresTypees' /\ TypesCatalogue'
<1>1. /\ Colonnes(CatalogueRow) /\ Colonnes(ArticleRow) /\ Colonnes(OffreRow)
      /\ Colonnes(FeatureRow) /\ Colonnes(GrilleRow) /\ Colonnes({[limite |-> Nul]})
      BY ColonnesTypes
<1>2. UNCHANGED catalogueVars => TypesCatalogue'
      BY DEF catalogueVars, TypesCatalogue
<1>3. ASSUME NEW r \in Requetes, saveCatalogue(r) PROVE EcrituresTypees' /\ UNCHANGED catalogueVars
      BY <1>3, TypesSave DEF saveCatalogue
<1>4. ASSUME NEW r \in Requetes, commitCatalogue(r) PROVE EcrituresTypees' /\ TypesCatalogue'
      BY <1>1, <1>4, EspaceCatalogue, TypesValider DEF commitCatalogue, TypesCatalogue
<1>5. ASSUME NEW r \in Requetes, commitArticle(r) PROVE EcrituresTypees' /\ TypesCatalogue'
      BY <1>1, <1>5, EspaceCatalogue, TypesValider DEF commitArticle, TypesCatalogue
<1>6. ASSUME NEW r \in Requetes, commitOffre(r) PROVE EcrituresTypees' /\ TypesCatalogue'
      BY <1>1, <1>6, EspaceCatalogue, TypesValider DEF commitOffre, TypesCatalogue
<1>7. ASSUME NEW r \in Requetes, commitFeature(r) PROVE EcrituresTypees' /\ TypesCatalogue'
  <2>1. EcrituresTypees'
      BY <1>7, TypesTerminer DEF commitFeature, Valider
  <2>2. CASE Valider(r, "feature", features) /\ features' = ApresTout(r, features) /\ UNCHANGED droits
    <3>1. features' \in [Features -> SUBSET FeatureRow]
        BY <1>1, <2>2, EspaceCatalogue, TypesValider DEF TypesCatalogue
    <3> QED  BY <1>7, <2>1, <2>2, <3>1 DEF commitFeature, TypesCatalogue
  <2>3. CASE Valider(r, "droit", droits) /\ droits' = ApresTout(r, droits) /\ UNCHANGED features
    <3>1. droits' \in [Offres \X Features -> SUBSET {[limite |-> Nul]}]
        BY <1>1, <2>3, EspaceCatalogue, TypesValider DEF TypesCatalogue
    <3> QED  BY <1>7, <2>1, <2>3, <3>1 DEF commitFeature, TypesCatalogue
  <2> QED  BY <1>7, <2>2, <2>3 DEF commitFeature
<1>8. ASSUME NEW r \in Requetes, commitGrille(r) PROVE EcrituresTypees' /\ TypesCatalogue'
      BY <1>1, <1>8, EspaceCatalogue, TypesValider DEF commitGrille, TypesCatalogue
<1> QED  BY <1>2, <1>3, <1>4, <1>5, <1>6, <1>7, <1>8, TypesOffres, TypesTarif DEF CatalogueNext

LEMMA TypesInscription ==
    ASSUME ReqOK(requete), EcrituresTypees, TypesIdentite, NEW r \in Requetes, Inscription(r)
    PROVE  EcrituresTypees'
<1>0. g1 \in Comptes /\ m2 \in Courriels
      BY NoyauAssumption
<1>1. \A e \in {m2, Nul}, t \in Telephones \union {Nul}, b \in BOOLEAN :
          [email |-> e, phone |-> t, motDePasse |-> b] \in CompteRow
      BY <1>0 DEF CompteRow
<1>2. ASSUME NEW g \in Comptes, NEW t \in Telephones \union {Nul}, RegisterUser(r, g, m2, t)
      PROVE  EcrituresTypees'
  <2>1. PICK k \in CompteRow : Traiter(r, "compte", comptes, g, k, "USER_REGISTERED")
      BY <1>1, <1>2 DEF RegisterUser
  <2> QED  BY <2>1, EspaceIdentite, TypesTraiter
<1> DEFINE lien(x, g, type) == NouveauLien(x, g, type)
           compte(g, k) == Ecriture("compte", g, k, TRUE, Nul)
<1>3. ASSUME NEW x \in Identites, NEW g \in Comptes, NEW type
      PROVE  <<lien(x, g, type).id, lien(x, g, type).ligne>> \in Espace(lien(x, g, type).table)
  <2>1. [compte |-> g] \in LienRow
      BY DEF LienRow
  <2>2. /\ lien(x, g, type).table = "lien" /\ lien(x, g, type).id = x
        /\ lien(x, g, type).ligne = [compte |-> g]
      BY DEF Ecriture, NouveauLien
  <2> HIDE DEF lien
  <2> QED  BY <2>1, <2>2, EspaceIdentite
<1>4. ASSUME NEW g \in Comptes, NEW k \in CompteRow
      PROVE  <<compte(g, k).id, compte(g, k).ligne>> \in Espace(compte(g, k).table)
  <2>1. compte(g, k).table = "compte" /\ compte(g, k).id = g /\ compte(g, k).ligne = k
      BY DEF Ecriture
  <2> HIDE DEF compte
  <2> QED  BY <2>1, EspaceIdentite
<1>5. ASSUME NEW x \in Identites, NEW g \in Comptes, NEW type, TraiterTout(r, {lien(x, g, type)})
      PROVE  EcrituresTypees'
  <2> HIDE DEF lien
  <2> QED  BY <1>3, <1>5, TypesLot
<1>6. ASSUME NEW x \in Identites, NEW g \in Comptes, NEW type, NEW k \in CompteRow,
             TraiterTout(r, {compte(g, k), lien(x, g, type)})
      PROVE  EcrituresTypees'
  <2> HIDE DEF lien, compte
  <2>1. \A q \in {compte(g, k), lien(x, g, type)} : <<q.id, q.ligne>> \in Espace(q.table)
      BY <1>3, <1>4
  <2> QED  BY <1>6, <2>1, TypesLot
<1>7. ASSUME NEW x \in Identites, NEW g \in Comptes, NEW e \in {m2, Nul}, NEW t \in Telephones,
             ExchangeSupabaseSession(r, x, g, e, t)
      PROVE  EcrituresTypees'
  <2> DEFINE k == [email |-> e, phone |-> t, motDePasse |-> FALSE]
  <2>1. k \in CompteRow
      BY <1>1
  <2>2. \/ TraiterTout(r, {compte(g, k), lien(x, g, "SUPABASE_SESSION_EXCHANGED")})
        \/ TraiterTout(r, {lien(x, g, "SUPABASE_SESSION_EXCHANGED")})
      BY <1>7 DEF ExchangeSupabaseSession
  <2> HIDE DEF k, compte, lien
  <2> QED  BY <1>5, <1>6, <2>1, <2>2
<1>8. ASSUME NEW x \in Identites, LinkExternalIdentity(r, x, g1) PROVE EcrituresTypees'
  <2>1. TraiterTout(r, {lien(x, g1, "EXTERNAL_IDENTITY_LINKED")})
      BY <1>8 DEF LinkExternalIdentity
  <2> HIDE DEF lien
  <2> QED  BY <1>0, <1>5, <2>1
<1> QED  BY <1>2, <1>7, <1>8 DEF Inscription

LEMMA TypesIdentiteEtape ==
    ASSUME ReqOK(requete), EcrituresTypees, TypesIdentite, IdentiteNext
    PROVE  EcrituresTypees' /\ TypesIdentite'
<1>1. Colonnes(CompteRow) /\ Colonnes(LienRow) /\ Colonnes(AffectationRow)
  <2>1. Colonnes(CompteRow) /\ Colonnes(LienRow)
      BY DEF Colonnes, CompteRow, LienRow
  <2> QED  BY <2>1, ColonnesTypes
<1>2. ASSUME NEW r \in Requetes, NEW a \in Affectations, NEW x \in Roles, NEW o \in {o1, Nul},
             AssignRole(r, a, g1, x, o)
      PROVE  EcrituresTypees'
  <2>1. [compte |-> g1, role |-> x, organisation |-> o] \in AffectationRow
      BY NoyauAssumption DEF AffectationRow
  <2>2. PICK k \in AffectationRow : Traiter(r, "affectation", affectations, a, k, "ROLE_ASSIGNED")
      BY <1>2, <2>1 DEF AssignRole
  <2> QED  BY <2>2, EspaceIdentite, TypesTraiter
<1>3. UNCHANGED identiteVars => TypesIdentite'
      BY DEF identiteVars, TypesIdentite
<1>4. ASSUME NEW r \in Requetes, saveIdentite(r) PROVE EcrituresTypees' /\ UNCHANGED identiteVars
      BY <1>4, TypesSave DEF saveIdentite
<1>5. ASSUME NEW r \in Requetes, commitAffectation(r) PROVE EcrituresTypees' /\ TypesIdentite'
      BY <1>1, <1>5, EspaceIdentite, TypesValider DEF commitAffectation, TypesIdentite
<1>6. ASSUME NEW r \in Requetes, commitCompte(r) PROVE EcrituresTypees' /\ TypesIdentite'
  <2>1. EcrituresTypees'
      BY <1>6, TypesTerminer DEF commitCompte
  <2>2. \A q \in Vers(r, "compte") : <<q.id, q.ligne>> \in Comptes \X CompteRow
      BY EspaceIdentite DEF Vers, EcrituresTypees
  <2>3. \A q \in Vers(r, "lien") : <<q.id, q.ligne>> \in Identites \X LienRow
      BY EspaceIdentite DEF Vers, EcrituresTypees
  <2>4. comptes' \in [Comptes -> SUBSET CompteRow]
      BY <1>1, <1>6, <2>2, TypesApres DEF commitCompte, TypesIdentite
  <2>5. liens' \in [Identites -> SUBSET LienRow]
      BY <1>1, <1>6, <2>3, TypesApres DEF commitCompte, TypesIdentite
  <2> QED  BY <1>6, <2>1, <2>4, <2>5 DEF commitCompte, TypesIdentite
<1> QED  BY <1>2, <1>3, <1>4, <1>5, <1>6, TypesInscription DEF IdentiteNext

(* The first rows have the types of their tables.                          *)
LEMMA TypesTable ==
    ASSUME NEW ids, NEW f, NEW row, \A i \in DOMAIN f : f[i] \in row
    PROVE  Table(ids, f) \in [ids -> SUBSET row]
BY TableDepart DEF Table1

LEMMA TypesAucune ==
    ASSUME NEW ids, NEW row
    PROVE  Table(ids, Aucune) \in [ids -> SUBSET row]
<1>1. DOMAIN Aucune = {}
      BY DEF Aucune
<1> QED  BY <1>1, TypesTable

SeuleLigne(i, l) == [x \in {i} |-> l]

LEMMA TypesSeule ==
    ASSUME NEW ids, NEW i, NEW l, NEW row, l \in row
    PROVE  Table(ids, SeuleLigne(i, l)) \in [ids -> SUBSET row]
<1> DEFINE f == SeuleLigne(i, l)
<1>1. \A x \in DOMAIN f : f[x] \in row
      BY DEF SeuleLigne
<1> HIDE DEF f
<1>2. Table(ids, f) \in [ids -> SUBSET row]
      BY <1>1, TypesTable
<1> QED  BY <1>2 DEF f

LEMMA TypesInit == Init => InvTypes
<1> SUFFICES ASSUME Init PROVE InvTypes
    OBVIOUS
<1>0. /\ a1 \in Produits /\ o1 \in Orgs /\ k1 \in Catalogues /\ z1 \in Articles
      /\ d1 \in Devises /\ m1 \in Courriels
      BY NoyauAssumption
<1>1. EcrituresTypees
      BY DEF Init, InitUnite, EcrituresTypees
<1>2. TypesEngine
  <2>1. niveaux \in [ToutNiveau -> SUBSET NiveauRow]
    <3>1. [actif |-> TRUE] \in NiveauRow
        BY DEF NiveauRow
    <3> DEFINE ouvert(k) == k[2] = 1 \/ k = <<p1, 2>> \/ (k = <<p1, 3>> /\ perimetre \in {"arbre", "publication"})
    <3>2. niveaux = [k \in ToutNiveau |-> IF ouvert(k) THEN {[actif |-> TRUE]} ELSE {}]
        BY DEF Init, Demarrage, ToutNiveau
    <3> HIDE DEF ouvert
    <3> QED  BY <3>1, <3>2
  <2>2. noeuds \in [Noeuds -> SUBSET NoeudRow]
      BY NoeudInit DEF InvNoeuds, Table1
  <2>3. regles \in [Regles -> SUBSET RegleRow] /\ villes \in [Villes -> SUBSET VilleRow]
      BY TypesAucune DEF Init, Demarrage
  <2>4. compteur \in [Noeuds -> Nat] /\ retard \in BOOLEAN /\ deplace \in {"rien", "feuilles", "branches"}
      BY DEF Init, Demarrage
  <2> QED  BY <2>1, <2>2, <2>3, <2>4 DEF TypesEngine
<1>3. TypesCorpus
  <2> DEFINE f == [c \in {c1} \union (IF perimetre = "elements" THEN {c2} ELSE {}) |->
                      [confiance |-> "VERIFIE", statut |-> "brouillon"]]
  <2>1. \A i \in DOMAIN f : f[i] \in CorpusRow
      BY DEF CorpusRow, StatutsCorpus
  <2>2. corpus = Table(Corpus, f) /\ elements = Table(Elements, Aucune)
      BY DEF Init, Demarrage
  <2> HIDE DEF f
  <2>3. corpus \in [Corpus -> SUBSET CorpusRow]
      BY <2>1, <2>2, TypesTable
  <2> QED  BY <2>2, <2>3, TypesAucune DEF TypesCorpus
<1>4. TypesRegistre
  <2> DEFINE l == [actif |-> TRUE]
  <2>1. l \in ProduitRow
      BY DEF ProduitRow
  <2>2. produits = Table(Produits, SeuleLigne(a1, l)) /\ deploiements = Table(Produits \X Pays, Aucune)
      BY DEF Init, Demarrage, SeuleLigne
  <2> HIDE DEF l
  <2> QED  BY <2>1, <2>2, TypesSeule, TypesAucune DEF TypesRegistre
<1>5. TypesOrg
  <2> DEFINE l == [mere |-> Nul, actif |-> TRUE]
  <2>1. l \in OrganisationRow
      BY DEF OrganisationRow
  <2>2. /\ organisations = Table(Orgs, SeuleLigne(o1, l)) /\ unites = Table(Unites, Aucune)
        /\ abonnements = Table(Abonnements, Aucune)
      BY DEF Init, Demarrage, SeuleLigne
  <2> HIDE DEF l
  <2> QED  BY <2>1, <2>2, TypesSeule, TypesAucune DEF TypesOrg
<1>6. TypesReferentiel
  <2>1. fiches \in [CodesFiches -> SUBSET FicheRow]
      BY TarifInit DEF InvTarif, FichesSuivies, TableSuivie, Table1
  <2>2. locales \in [Locales -> SUBSET LocaleRow]
      BY SocleInit DEF Socle, LocalesOK, Table1
  <2>3. /\ circulations = Table(Relations, Aucune) /\ languesPays = Table(Relations, Aucune)
        /\ adhesions = Table(Relations, Aucune) /\ taux = Table(Relations, Aucune)
        /\ traductions = Table(Locales \X Cles, Aucune) /\ desordre = FALSE
      BY DEF Init, Demarrage
  <2> QED  BY <2>1, <2>2, <2>3, TypesAucune DEF TypesReferentiel
<1>7. TypesConfig
  <2>1. [devise |-> d1, langue |-> Nul] \in ConfigurationRow
      BY <1>0 DEF ConfigurationRow
  <2> QED  BY <2>1 DEF TypesConfig, Init, Demarrage
<1>8. TypesCatalogue
  <2> DEFINE l == [produit |-> a1, cible |-> o1, statut |-> "publie"]
             m == [catalogue |-> k1, statut |-> "publie"]
             n == [article |-> z1, ponctuelle |-> FALSE, statut |-> "publie"]
  <2>1. l \in CatalogueRow /\ m \in ArticleRow /\ n \in OffreRow
      BY <1>0 DEF CatalogueRow, ArticleRow, OffreRow, StatutsCatalogue
  <2>2. /\ catalogues = Table(Catalogues, SeuleLigne(k1, l))
        /\ articles = Table(Articles, SeuleLigne(z1, m)) /\ offres = Table(Offres, SeuleLigne(f1, n))
        /\ features = Table(Features, Aucune) /\ droits = Table(Offres \X Features, Aucune)
        /\ grilles = Table(Grilles, Aucune)
      BY DEF Init, Demarrage, SeuleLigne
  <2> HIDE DEF l, m, n
  <2> QED  BY <2>1, <2>2, TypesSeule, TypesAucune DEF TypesCatalogue
<1>9. TypesIdentite
  <2> DEFINE l == [email |-> m1, phone |-> Nul, motDePasse |-> TRUE]
  <2>1. l \in CompteRow
      BY <1>0 DEF CompteRow
  <2>2. /\ comptes = Table(Comptes, SeuleLigne(g1, l)) /\ liens = Table(Identites, Aucune)
        /\ affectations = Table(Affectations, Aucune)
      BY DEF Init, Demarrage, SeuleLigne
  <2> HIDE DEF l
  <2> QED  BY <2>1, <2>2, TypesSeule, TypesAucune DEF TypesIdentite
<1> QED  BY <1>1, <1>2, <1>3, <1>4, <1>5, <1>6, <1>7, <1>8, <1>9 DEF InvTypes, TypesTables

(* A context leaves the tables of the others as they are.                  *)
LEMMA TypesInertes ==
    ASSUME TypesTables
    PROVE  /\ UNCHANGED engineVars => TypesEngine'
           /\ UNCHANGED corpusVars => TypesCorpus'
           /\ UNCHANGED registreVars => TypesRegistre'
           /\ UNCHANGED orgVars => TypesOrg'
           /\ UNCHANGED referentielVars => TypesReferentiel'
           /\ UNCHANGED configuration => TypesConfig'
           /\ UNCHANGED catalogueVars => TypesCatalogue'
           /\ UNCHANGED identiteVars => TypesIdentite'
<1>1. UNCHANGED engineVars => TypesEngine'
      BY DEF TypesTables, TypesEngine, engineVars, tablesEngine
<1>2. UNCHANGED corpusVars => TypesCorpus'
      BY DEF TypesTables, TypesCorpus, corpusVars
<1>3. UNCHANGED registreVars => TypesRegistre'
      BY DEF TypesTables, TypesRegistre, registreVars
<1>4. UNCHANGED orgVars => TypesOrg'
      BY DEF TypesTables, TypesOrg, orgVars
<1>5. UNCHANGED referentielVars => TypesReferentiel'
      BY DEF TypesTables, TypesReferentiel, referentielVars, relationVars
<1>6. UNCHANGED configuration => TypesConfig'
      BY DEF TypesTables, TypesConfig
<1>7. UNCHANGED catalogueVars => TypesCatalogue'
      BY DEF TypesTables, TypesCatalogue, catalogueVars
<1>8. UNCHANGED identiteVars => TypesIdentite'
      BY DEF TypesTables, TypesIdentite, identiteVars
<1> QED  BY <1>1, <1>2, <1>3, <1>4, <1>5, <1>6, <1>7, <1>8

LEMMA TypesEtape == Socle /\ InvTarif /\ InvTypes /\ [Next]_vars => InvTypes'
<1> SUFFICES ASSUME Socle, InvTarif, InvTypes, [Next]_vars PROVE InvTypes'
    OBVIOUS
<1>0. /\ ReqOK(requete) /\ InvVersions /\ EcrituresTypees /\ TypesTables
      /\ TypesEngine /\ TypesCorpus /\ TypesRegistre /\ TypesOrg /\ TypesReferentiel
      /\ TypesConfig /\ TypesCatalogue /\ TypesIdentite
      BY DEF Socle, InvTarif, InvTypes, TypesTables
<1>1. CASE EngineNext
  <2>1. EcrituresTypees' /\ TypesEngine'
      BY <1>0, <1>1, TypesEngineEtape
  <2> QED  BY <1>0, <1>1, <2>1, TypesInertes DEF EngineNext, InvTypes, TypesTables
<1>2. CASE CorpusNext
  <2>1. EcrituresTypees' /\ TypesCorpus'
      BY <1>0, <1>2, TypesCorpusEtape
  <2> QED  BY <1>0, <1>2, <2>1, TypesInertes DEF CorpusNext, InvTypes, TypesTables
<1>3. CASE RegistreNext
  <2>1. EcrituresTypees' /\ TypesRegistre'
      BY <1>0, <1>3, TypesRegistreEtape
  <2> QED  BY <1>0, <1>3, <2>1, TypesInertes DEF RegistreNext, InvTypes, TypesTables
<1>4. CASE OrgNext
  <2>1. EcrituresTypees' /\ TypesOrg'
      BY <1>0, <1>4, TypesOrgEtape
  <2> QED  BY <1>0, <1>4, <2>1, TypesInertes DEF OrgNext, InvTypes, TypesTables
<1>5. CASE ReferentielNext
  <2>1. EcrituresTypees' /\ TypesReferentiel'
      BY <1>0, <1>5, TypesReferentielEtape
  <2> QED  BY <1>0, <1>5, <2>1, TypesInertes DEF ReferentielNext, InvTypes, TypesTables
<1>6. CASE ConfigNext
  <2>1. EcrituresTypees' /\ TypesConfig'
      BY <1>0, <1>6, TypesConfigEtape
  <2> QED  BY <1>0, <1>6, <2>1, TypesInertes DEF ConfigNext, InvTypes, TypesTables
<1>7. CASE CatalogueNext
  <2>1. EcrituresTypees' /\ TypesCatalogue'
      BY <1>0, <1>7, TypesCatalogueEtape
  <2> QED  BY <1>0, <1>7, <2>1, TypesInertes DEF CatalogueNext, InvTypes, TypesTables
<1>8. CASE IdentiteNext
  <2>1. EcrituresTypees' /\ TypesIdentite'
      BY <1>0, <1>8, TypesIdentiteEtape
  <2> QED  BY <1>0, <1>8, <2>1, TypesInertes DEF IdentiteNext, InvTypes, TypesTables
<1>9. CASE Refus
  <2>1. EcrituresTypees'
      BY <1>0, <1>9, TypesRollback DEF Refus
  <2> QED  BY <1>0, <1>9, <2>1, TypesInertes DEF Refus, metierVars, InvTypes, TypesTables
<1>10. CASE UNCHANGED <<uniteVars, metierVars>>
  <2>1. EcrituresTypees'
      BY <1>0, <1>10, TypesInerte DEF uniteVars
  <2> QED  BY <1>0, <1>10, <2>1, TypesInertes DEF metierVars, InvTypes, TypesTables
<1> QED  BY NextContextes, <1>1, <1>2, <1>3, <1>4, <1>5, <1>6, <1>7, <1>8, <1>9, <1>10

-----------------------------------------------------------------------------
(* The cache of keys.                                                      *)
(* A fetch lasts at most Delai, and is forced or due to an expired cache.  *)
Horaires ==
    \A f \in inFlight :
        /\ f.debut <= horloge /\ horloge <= f.debut + Delai
        /\ forcage >= f.debut \/ \A c \in cache : horloge - c.date >= Ttl

(* The cache and the answers hold one key, an answer is not older than the *)
(* cache, and no key is younger than the project's.                        *)
Ages ==
    /\ \A c, d \in cache : c.clef = d.clef
    /\ \A c \in cache : c.clef <= clef
    /\ \A f \in inFlight :
          /\ \A k, l \in f.reponse : k = l
          /\ \A k \in f.reponse : k <= clef /\ \A c \in cache : c.clef <= k

(* What a call knows at each of its steps.                                 *)
Attente(a) ==
    a.etape = "getKeys" /\ a.connue => a.clefs = {a.jeton} /\ EnCache = {a.jeton}

Essai(a) ==
    a.etape = "essai" =>
        /\ a.connue => a.clefs # {} /\ \A k \in a.clefs : a.jeton <= k /\ k <= clef
        /\ \A f \in inFlight : (\A k \in f.reponse : a.jeton <= k) \/ forcage >= f.debut

Suite(a) ==
    /\ a.etape = "forceRefresh" => \A f \in inFlight : \A k \in f.reponse : a.jeton <= k
    /\ a.etape = "dernierEssai" => a.clefs # {} /\ \A k \in a.clefs : a.jeton <= k /\ k <= clef
    /\ a.etape \in {"forceRefresh", "dernierEssai", "refuse"} /\ a.connue => a.jeton < clef
    /\ a.etape = "refuse" /\ a.motif = "aucun" => a.jeton < clef

Appel(a) == a.jeton <= clef /\ Attente(a) /\ Essai(a) /\ Suite(a)

Appels == \A v \in Verifications : Appel(verification[v])

JwksInv == JwksTypeOK /\ Horaires /\ Ages /\ Appels
-----------------------------------------------------------------------------
(* The records of a call, and how a step may change one.                   *)
FichesAppel ==
    [etape : Etapes, jeton : Clefs \union {Faux}, clefs : SUBSET Clefs,
     connue : BOOLEAN, motif : {"aucun", "cooldown", "panne"}]

LEMMA Reprendre ==
    ASSUME NEW a \in FichesAppel, NEW e \in Etapes
    PROVE  /\ [a EXCEPT !.etape = e] \in FichesAppel
           /\ \A m \in {"aucun", "cooldown", "panne"} : [a EXCEPT !.etape = e, !.motif = m] \in FichesAppel
           /\ \A c \in SUBSET Clefs : [a EXCEPT !.etape = e, !.clefs = c] \in FichesAppel
    BY DEF FichesAppel

LEMMA Pose ==
    ASSUME JwksTypeOK, NEW v \in Verifications, NEW a \in FichesAppel, Poser(v, a)
    PROVE  verification' \in [Verifications -> FichesAppel]
    BY DEF JwksTypeOK, FichesAppel, Poser

(* The fields of a call, and what joining a fetch makes of inFlight.       *)
LEMMA ChampsAppel ==
    ASSUME JwksTypeOK, NEW v \in Verifications
    PROVE  /\ verification[v] \in [etape : Etapes, jeton : Clefs \union {Faux}, clefs : SUBSET Clefs,
                                   connue : BOOLEAN, motif : {"aucun", "cooldown", "panne"}]
           /\ verification[v].jeton \in Int
           /\ \A k \in verification[v].clefs : k \in Nat
    BY JwksAssumption, SMT DEF JwksTypeOK, Clefs, Faux

LEMMA FetchJoint ==
    ASSUME fetchAndCache, NEW f \in inFlight'
    PROVE  f \in inFlight \/ f = [debut |-> horloge, reponse |-> {}]
    BY DEF fetchAndCache

THEOREM JwksTypeCorrect == JwksSpec => []JwksTypeOK
<1>1. JwksInit => JwksTypeOK
    BY JwksAssumption, SMT DEF JwksInit, JwksTypeOK, Clefs, Instants, Etapes, Faux
<1>2. JwksTypeOK /\ [JwksNext]_jwksVars => JwksTypeOK'
  <2> SUFFICES ASSUME JwksTypeOK, [JwksNext]_jwksVars
               PROVE  JwksTypeOK'
      OBVIOUS
  <2> USE DEF Clefs, Instants
  <2>1. ASSUME NEW v \in Verifications, NEW j \in {Faux} \union 0..clef, verify(v, j)
        PROVE  JwksTypeOK'
    <3>1. EnCache \subseteq Clefs /\ j \in Clefs \union {Faux}
        BY <2>1, JwksAssumption, SMT DEF JwksTypeOK, EnCache
    <3>2. inFlight' \subseteq [debut : Instants, reponse : SUBSET Clefs]
        BY <2>1, SMT DEF verify, fetchAndCache, JwksTypeOK
    <3>3. verification' \in [Verifications -> FichesAppel]
      <4> DEFINE a == [etape |-> "getKeys", jeton |-> j, clefs |-> EnCache,
                       connue |-> j \in EnCache, motif |-> "aucun"]
      <4>1. a \in FichesAppel
        <5>1. ASSUME NEW b \in BOOLEAN
              PROVE  [etape |-> "getKeys", jeton |-> j, clefs |-> EnCache,
                      connue |-> b, motif |-> "aucun"] \in FichesAppel
            BY <3>1, SMT DEF FichesAppel, Etapes
        <5>2. CASE j \in EnCache
          <6>1. a = [etape |-> "getKeys", jeton |-> j, clefs |-> EnCache, connue |-> TRUE, motif |-> "aucun"]
              BY <5>2, Zenon
          <6> QED BY <5>1, <6>1
        <5>3. CASE j \notin EnCache
          <6>1. a = [etape |-> "getKeys", jeton |-> j, clefs |-> EnCache, connue |-> FALSE, motif |-> "aucun"]
            <7>1. (j \in EnCache) = FALSE
                BY <5>3
            <7> QED BY <7>1, Zenon
          <6> QED BY <5>1, <6>1
        <5> QED BY <5>2, <5>3
      <4>2. [a EXCEPT !.etape = "essai"] \in FichesAppel
          BY <4>1, Reprendre, Zenon DEF Etapes
      <4>3. Poser(v, a) \/ Poser(v, [a EXCEPT !.etape = "essai"])
          BY <2>1, Zenon DEF verify
      <4> QED BY <4>1, <4>2, <4>3, Pose
    <3> QED BY <2>1, <3>2, <3>3 DEF verify, JwksTypeOK, FichesAppel
  <2>2. ASSUME NEW v \in Verifications, essayer(v)
        PROVE  JwksTypeOK'
    <3>1. inFlight' \subseteq [debut : Instants, reponse : SUBSET Clefs]
        BY <2>2, SMT DEF essayer, forceRefreshIfAllowed, fetchAndCache, JwksTypeOK
    <3>2. forcage' \in (-Cooldown)..MaxTemps
        BY <2>2, JwksAssumption, SMT DEF essayer, forceRefreshIfAllowed, JwksTypeOK
    <3>3. verification' \in [Verifications -> FichesAppel]
      <4> DEFINE a == verification[v]
      <4>1. a \in FichesAppel
          BY DEF JwksTypeOK, FichesAppel
      <4>2. /\ [a EXCEPT !.etape = "accepte"] \in FichesAppel
            /\ [a EXCEPT !.etape = "refuse", !.motif = "cooldown"] \in FichesAppel
            /\ [a EXCEPT !.etape = "forceRefresh"] \in FichesAppel
          BY <4>1, Reprendre, Zenon DEF Etapes
      <4>3. \/ Poser(v, [a EXCEPT !.etape = "accepte"])
            \/ Poser(v, [a EXCEPT !.etape = "refuse", !.motif = "cooldown"])
            \/ Poser(v, [a EXCEPT !.etape = "forceRefresh"])
          BY <2>2, Zenon DEF essayer, forceRefreshIfAllowed
      <4> QED BY <4>2, <4>3, Pose
    <3> QED BY <2>2, <3>1, <3>2, <3>3 DEF essayer, JwksTypeOK, FichesAppel
  <2>3. ASSUME NEW v \in Verifications, reessayer(v)
        PROVE  JwksTypeOK'
    <3> DEFINE e == IF tryVerifyWithKeys(verification[v]) THEN "accepte" ELSE "refuse"
    <3>1. verification[v] \in FichesAppel /\ e \in Etapes
        BY DEF JwksTypeOK, FichesAppel, Etapes
    <3>2. [verification[v] EXCEPT !.etape = e] \in FichesAppel
        BY <3>1, Reprendre
    <3>3. verification' \in [Verifications -> FichesAppel]
        BY <2>3, <3>2, Pose DEF reessayer
    <3> QED BY <2>3, <3>3 DEF reessayer, JwksTypeOK, FichesAppel
  <2>4. CASE repondre
      BY <2>4, SMT DEF repondre, JwksTypeOK
  <2>5. CASE recevoir
    <3>1. cache' \subseteq [clef : Clefs, date : Instants]
      <4>1. PICK f \in inFlight : cache' = {[clef |-> k, date |-> horloge] : k \in f.reponse}
          BY <2>5, Zenon DEF recevoir
      <4>2. f.reponse \in SUBSET Clefs /\ horloge \in Instants
          BY DEF JwksTypeOK
      <4> QED BY <4>1, <4>2
    <3>2. verification' \in [Verifications -> FichesAppel]
      <4> DEFINE suite(f) == [v \in Verifications |->
                LET a == verification[v]
                IN  IF a.etape = "getKeys" THEN [a EXCEPT !.etape = "essai", !.clefs = f.reponse]
                    ELSE IF a.etape = "forceRefresh" THEN [a EXCEPT !.etape = "dernierEssai", !.clefs = f.reponse]
                    ELSE a]
      <4>1. PICK f \in inFlight : verification' = suite(f)
          BY <2>5, Zenon DEF recevoir
      <4>2. f.reponse \in SUBSET Clefs
          BY DEF JwksTypeOK
      <4>3. ASSUME NEW v \in Verifications
            PROVE  /\ verification[v] \in FichesAppel
                   /\ [verification[v] EXCEPT !.etape = "essai", !.clefs = f.reponse] \in FichesAppel
                   /\ [verification[v] EXCEPT !.etape = "dernierEssai", !.clefs = f.reponse] \in FichesAppel
        <5>1. verification[v] \in FichesAppel
            BY DEF JwksTypeOK, FichesAppel
        <5> QED BY <4>2, <5>1, Reprendre, Zenon DEF Etapes
      <4> QED BY <4>1, <4>3, Zenon
    <3> QED BY <2>5, <3>1, <3>2 DEF recevoir, JwksTypeOK, FichesAppel
  <2>6. CASE echouer
    <3>1. ASSUME NEW v \in Verifications
          PROVE  /\ verification[v] \in FichesAppel
                 /\ getKeysEchoue(verification[v]) \in FichesAppel
                 /\ [verification[v] EXCEPT !.etape = "refuse", !.motif = "panne"] \in FichesAppel
      <4>1. verification[v] \in FichesAppel
          BY DEF JwksTypeOK, FichesAppel
      <4> QED BY <4>1, Reprendre, Zenon DEF getKeysEchoue, Etapes
    <3>2. verification' \in [Verifications -> FichesAppel]
        BY <2>6, <3>1, Zenon DEF echouer
    <3> QED BY <2>6, <3>2 DEF echouer, JwksTypeOK, FichesAppel
  <2>7. CASE tic
      BY <2>7, JwksAssumption, SMT DEF tic, JwksTypeOK
  <2>8. CASE rotation
      BY <2>8, JwksAssumption, SMT DEF rotation, JwksTypeOK
  <2>9. CASE UNCHANGED jwksVars
      BY <2>9 DEF jwksVars, JwksTypeOK
  <2> QED BY <2>1, <2>2, <2>3, <2>4, <2>5, <2>6, <2>7, <2>8, <2>9 DEF JwksNext
<1> QED BY <1>1, <1>2, PTL DEF JwksSpec
-----------------------------------------------------------------------------
LEMMA HorairesInduits ==
    ASSUME JwksTypeOK, Horaires, [JwksNext]_jwksVars
    PROVE  Horaires'
<1> SUFFICES ASSUME NEW f \in inFlight'
             PROVE  /\ f.debut <= horloge' /\ horloge' <= f.debut + Delai
                    /\ forcage' >= f.debut \/ \A c \in cache' : horloge' - c.date >= Ttl
    BY Zenon DEF Horaires
<1>0. /\ horloge \in Nat /\ forcage \in Int /\ Delai \in Nat /\ Cooldown \in Nat \ {0} /\ Ttl \in Nat
      /\ \A g \in inFlight : g.debut \in Nat
      /\ \A c \in cache : c.date \in Nat
    BY JwksAssumption, SMT DEF JwksTypeOK, Instants
<1>1. ASSUME NEW v \in Verifications, NEW j, verify(v, j)
      PROVE  /\ f.debut <= horloge' /\ horloge' <= f.debut + Delai
             /\ forcage' >= f.debut \/ \A c \in cache' : horloge' - c.date >= Ttl
  <2>1. CASE f \in inFlight
      BY <1>1, <2>1 DEF verify, Horaires
  <2>2. CASE f \notin inFlight
    <3>1. f = [debut |-> horloge, reponse |-> {}] /\ \A c \in cache : ~(horloge - c.date < Ttl)
        BY <1>1, <2>2, FetchJoint, Zenon DEF verify
    <3> QED BY <1>0, <1>1, <3>1, SMT DEF verify
  <2> QED BY <2>1, <2>2
<1>2. ASSUME NEW v \in Verifications, essayer(v)
      PROVE  /\ f.debut <= horloge' /\ horloge' <= f.debut + Delai
             /\ forcage' >= f.debut \/ \A c \in cache' : horloge' - c.date >= Ttl
  <2>1. horloge' = horloge /\ cache' = cache
      BY <1>2 DEF essayer
  <2>2. CASE inFlight' = inFlight /\ forcage' = forcage
      BY <2>1, <2>2 DEF Horaires
  <2>3. CASE fetchAndCache /\ forcage' = horloge
    <3>1. f \in inFlight \/ f = [debut |-> horloge, reponse |-> {}]
        BY <2>3, FetchJoint
    <3>2. f.debut <= horloge /\ horloge <= f.debut + Delai
        BY <1>0, <3>1, SMT DEF Horaires
    <3> QED BY <2>1, <2>3, <3>2
  <2> QED BY <1>2, <2>2, <2>3 DEF essayer, forceRefreshIfAllowed
<1>3. ASSUME NEW v \in Verifications, reessayer(v)
      PROVE  /\ f.debut <= horloge' /\ horloge' <= f.debut + Delai
             /\ forcage' >= f.debut \/ \A c \in cache' : horloge' - c.date >= Ttl
    BY <1>3 DEF reessayer, Horaires
<1>4. CASE repondre
  <2>1. PICK g \in inFlight : inFlight' = {[g EXCEPT !.reponse = {clef}]}
      BY <1>4 DEF repondre
  <2>2. f.debut = g.debut
      BY <2>1 DEF JwksTypeOK
  <2> QED BY <1>4, <2>2 DEF repondre, Horaires
<1>5. CASE recevoir
    BY <1>5 DEF recevoir
<1>6. CASE echouer
    BY <1>6 DEF echouer
<1>7. CASE tic
    BY <1>0, <1>7, SMT DEF tic, Horaires
<1>8. CASE rotation
    BY <1>8 DEF rotation, Horaires
<1>9. CASE UNCHANGED jwksVars
    BY <1>9 DEF jwksVars, Horaires
<1> QED BY <1>1, <1>2, <1>3, <1>4, <1>5, <1>6, <1>7, <1>8, <1>9 DEF JwksNext

LEMMA AgesInduits ==
    ASSUME JwksTypeOK, Ages, [JwksNext]_jwksVars
    PROVE  Ages'
<1>0. /\ clef \in Nat /\ \A c \in cache : c.clef \in Nat
      /\ \A f \in inFlight : \A k \in f.reponse : k \in Nat
    BY JwksAssumption, SMT DEF JwksTypeOK, Clefs
<1>1. ASSUME clef' = clef, cache' = cache,
             \A f \in inFlight' : f \in inFlight \/ f = [debut |-> horloge, reponse |-> {}]
      PROVE  Ages'
    BY <1>1 DEF Ages
<1>2. ASSUME NEW v \in Verifications, NEW j, verify(v, j)
      PROVE  Ages'
    BY <1>1, <1>2, FetchJoint DEF verify
<1>3. ASSUME NEW v \in Verifications, essayer(v)
      PROVE  Ages'
    BY <1>1, <1>3, FetchJoint DEF essayer, forceRefreshIfAllowed
<1>4. ASSUME NEW v \in Verifications, reessayer(v)
      PROVE  Ages'
    BY <1>1, <1>4 DEF reessayer
<1>5. CASE repondre
  <2>1. PICK g \in inFlight : inFlight' = {[g EXCEPT !.reponse = {clef}]}
      BY <1>5 DEF repondre
  <2>2. \A f \in inFlight' : f.reponse = {clef}
      BY <2>1 DEF JwksTypeOK
  <2> QED BY <1>0, <1>5, <2>2, SMT DEF repondre, Ages
<1>6. CASE recevoir
  <2>1. PICK f \in inFlight : cache' = {[clef |-> k, date |-> horloge] : k \in f.reponse}
      BY <1>6, Zenon DEF recevoir
  <2>2. inFlight' = {} /\ clef' = clef
      BY <1>6 DEF recevoir
  <2> QED BY <1>0, <2>1, <2>2 DEF Ages
<1>7. CASE echouer
    BY <1>7 DEF echouer, Ages
<1>8. CASE tic
    BY <1>1, <1>8 DEF tic
<1>9. CASE rotation
    BY <1>0, <1>9, SMT DEF rotation, Ages
<1>10. CASE UNCHANGED jwksVars
    BY <1>1, <1>10 DEF jwksVars
<1> QED BY <1>2, <1>3, <1>4, <1>5, <1>6, <1>7, <1>8, <1>9, <1>10 DEF JwksNext
(* A call that the step does not touch, when the step leaves the cache     *)
(* alone and any new answer is the project's key.                          *)
LEMMA AppelInchange ==
    ASSUME JwksTypeOK, NEW v \in Verifications, Appel(verification[v]),
           verification'[v] = verification[v],
           clef' \in Nat, clef' >= clef, cache' = cache,
           forcage' \in Int, forcage' >= forcage,
           \A f \in inFlight' :
              \/ \E g \in inFlight : f.debut = g.debut /\ f.reponse \in {g.reponse, {clef}}
              \/ f.reponse = {}
    PROVE  Appel(verification[v])'
<1> DEFINE a == verification[v]
<1>0. /\ a.jeton \in Int /\ (\A k \in a.clefs : k \in Nat) /\ clef \in Nat /\ forcage \in Int
      /\ \A g \in inFlight : g.debut \in Nat /\ \A k \in g.reponse : k \in Nat
    BY ChampsAppel, JwksAssumption, SMT DEF JwksTypeOK, Clefs, Instants
<1>1. a' = a /\ EnCache' = EnCache
    BY DEF EnCache
<1>2. a.jeton <= clef /\ Attente(a) /\ Essai(a) /\ Suite(a)
    BY DEF Appel
<1> HIDE DEF a
<1>3. a.jeton <= clef'
    BY <1>0, <1>2, SMT
<1>4. Attente(a)'
    BY <1>1, <1>2 DEF Attente
<1>5. Essai(a)'
  <2>1. ASSUME a.etape = "essai", NEW f \in inFlight'
        PROVE  (\A k \in f.reponse : a.jeton <= k) \/ forcage' >= f.debut
      BY <1>0, <1>2, <2>1, SMT DEF Essai
  <2>2. ASSUME a.etape = "essai", a.connue
        PROVE  a.clefs # {} /\ \A k \in a.clefs : a.jeton <= k /\ k <= clef'
      BY <1>0, <1>2, <2>2, SMT DEF Essai
  <2> QED BY <1>1, <2>1, <2>2, Zenon DEF Essai
<1>6. Suite(a)'
  <2>1. ASSUME a.etape = "forceRefresh", NEW f \in inFlight', NEW k \in f.reponse
        PROVE  a.jeton <= k
      BY <1>0, <1>2, <2>1, SMT DEF Suite
  <2>2. ASSUME a.etape = "dernierEssai"
        PROVE  a.clefs # {} /\ \A k \in a.clefs : a.jeton <= k /\ k <= clef'
      BY <1>0, <1>2, <2>2, SMT DEF Suite
  <2>3. ASSUME \/ a.etape \in {"forceRefresh", "dernierEssai", "refuse"} /\ a.connue
               \/ a.etape = "refuse" /\ a.motif = "aucun"
        PROVE  a.jeton < clef'
    <3>1. a.jeton < clef
        BY <1>2, <2>3, Zenon DEF Suite
    <3> QED BY <1>0, <3>1, SMT
  <2> QED BY <1>1, <2>1, <2>2, <2>3, Zenon DEF Suite
<1> QED BY <1>1, <1>3, <1>4, <1>5, <1>6, Zenon DEF Appel, a
(* A call that failed its first try with a key of the cache knows that the *)
(* project has turned; so does one that failed with a fetched key.         *)
LEMMA ClefPerimee ==
    ASSUME JwksTypeOK, NEW v \in Verifications, Appel(verification[v]),
           ~tryVerifyWithKeys(verification[v]),
           \/ verification[v].etape = "essai" /\ verification[v].connue
           \/ verification[v].etape = "dernierEssai"
    PROVE  verification[v].jeton < clef
<1> DEFINE a == verification[v]
<1>1. PICK k \in a.clefs : a.jeton <= k /\ k <= clef /\ k # a.jeton
    BY Zenon DEF Appel, Essai, Suite, tryVerifyWithKeys
<1>2. a.jeton \in Int /\ k \in Nat /\ clef \in Nat
    BY ChampsAppel, JwksAssumption, SMT DEF JwksTypeOK, Clefs
<1> QED BY <1>1, <1>2, SMT

(* A new call: either the cache is recent, and then the fetch in flight is *)
(* a forced one, or the call waits for a fetch.                            *)
LEMMA AppelVerify ==
    ASSUME JwksInv, NEW v \in Verifications, NEW j \in {Faux} \union 0..clef, verify(v, j)
    PROVE  Appel(verification[v])'
<1> DEFINE a == verification'[v]
<1>1. /\ a.jeton = j /\ a.clefs = EnCache /\ a.connue = (j \in EnCache)
      /\ \/ a.etape = "essai" /\ inFlight' = inFlight /\ \E c \in cache : horloge - c.date < Ttl
         \/ a.etape = "getKeys"
    BY DEF verify, Poser, JwksInv, JwksTypeOK
<1>2. clef' = clef /\ EnCache' = EnCache /\ forcage' = forcage
    BY DEF verify, EnCache
<1>3. j <= clef
    BY JwksAssumption, SMT DEF JwksInv, JwksTypeOK, Clefs, Faux
<1>4. j \in EnCache => EnCache = {j}
    BY DEF EnCache, JwksInv, Ages
<1>5. ASSUME a.etape = "essai", NEW f \in inFlight
      PROVE  forcage >= f.debut
  <2>1. PICK c \in cache : horloge - c.date < Ttl
      BY <1>1, <1>5
  <2>2. ~(horloge - c.date >= Ttl)
    <3>1. horloge \in Nat /\ c.date \in Nat /\ Ttl \in Nat
        BY JwksAssumption, SMT DEF JwksInv, JwksTypeOK, Instants
    <3> QED BY <2>1, <3>1, SMT
  <2> QED BY <2>2, Zenon DEF JwksInv, Horaires
<1>6. j \in Int
    BY JwksAssumption, SMT DEF JwksInv, JwksTypeOK, Clefs, Faux
<1> HIDE DEF a
<1>7. a.jeton <= clef'
    BY <1>1, <1>2, <1>3
<1>8. a.etape = "getKeys" /\ a.connue => a.clefs = {a.jeton} /\ EnCache' = {a.jeton}
    BY <1>1, <1>2, <1>4
<1>9. a.etape = "essai" =>
        /\ a.connue => a.clefs # {} /\ \A k \in a.clefs : a.jeton <= k /\ k <= clef'
        /\ \A f \in inFlight' : (\A k \in f.reponse : a.jeton <= k) \/ forcage' >= f.debut
  <2>1. ASSUME a.etape = "essai", a.connue
        PROVE  a.clefs # {} /\ \A k \in a.clefs : a.jeton <= k /\ k <= clef'
    <3>1. a.clefs = {j} /\ a.jeton = j
        BY <1>1, <1>4, <2>1, Zenon
    <3> QED BY <1>2, <1>3, <1>6, <3>1, SMT
  <2>2. ASSUME a.etape = "essai", NEW f \in inFlight'
        PROVE  forcage' >= f.debut
    <3>1. inFlight' = inFlight
        BY <1>1, <2>2, Zenon
    <3> QED BY <1>2, <1>5, <2>2, <3>1, Zenon
  <2> QED BY <2>1, <2>2, Zenon
<1>10. a.etape \notin {"forceRefresh", "dernierEssai", "refuse"}
    BY <1>1
<1> QED BY <1>7, <1>8, <1>9, <1>10, Zenon DEF Appel, Attente, Essai, Suite, a

(* A try: accepted, refused for a recent forced refresh, or a new one.     *)
LEMMA AppelEssayer ==
    ASSUME JwksInv, Cooldown > Delai, NEW v \in Verifications, essayer(v)
    PROVE  Appel(verification[v])'
<1> DEFINE a == verification[v]
<1> DEFINE b == verification'[v]
<1>1. /\ b.jeton = a.jeton /\ b.connue = a.connue
      /\ \/ b.etape = "accepte"
         \/ b.etape = "refuse" /\ b.motif = "cooldown" /\ ~tryVerifyWithKeys(a)
         \/ /\ b.etape = "forceRefresh" /\ ~tryVerifyWithKeys(a)
            /\ ~(horloge - forcage < Cooldown) /\ fetchAndCache
  <2>1. a \in FichesAppel /\ verification \in [Verifications -> FichesAppel]
      BY DEF JwksInv, JwksTypeOK, FichesAppel
  <2>2. \/ Poser(v, [a EXCEPT !.etape = "accepte"])
        \/ Poser(v, [a EXCEPT !.etape = "refuse", !.motif = "cooldown"]) /\ ~tryVerifyWithKeys(a)
        \/ /\ Poser(v, [a EXCEPT !.etape = "forceRefresh"]) /\ ~tryVerifyWithKeys(a)
           /\ ~(horloge - forcage < Cooldown) /\ fetchAndCache
      BY Zenon DEF essayer, forceRefreshIfAllowed
  <2> HIDE DEF a
  <2>3. ASSUME NEW x, Poser(v, x)
        PROVE  b = x
      BY <2>1, <2>3 DEF Poser
  <2>4. \/ b = [a EXCEPT !.etape = "accepte"]
        \/ b = [a EXCEPT !.etape = "refuse", !.motif = "cooldown"] /\ ~tryVerifyWithKeys(a)
        \/ /\ b = [a EXCEPT !.etape = "forceRefresh"] /\ ~tryVerifyWithKeys(a)
           /\ ~(horloge - forcage < Cooldown) /\ fetchAndCache
      BY <2>2, <2>3, Zenon
  <2> HIDE DEF b
  <2>5. ASSUME NEW e \in Etapes, b = [a EXCEPT !.etape = e] \/ b = [a EXCEPT !.etape = e, !.motif = "cooldown"]
        PROVE  b.jeton = a.jeton /\ b.connue = a.connue /\ b.etape = e
      BY <2>1, <2>5 DEF FichesAppel
  <2>6. b = [a EXCEPT !.etape = "refuse", !.motif = "cooldown"] => b.motif = "cooldown"
      BY <2>1 DEF FichesAppel
  <2> QED BY <2>4, <2>5, <2>6, Zenon DEF Etapes
<1>2. Appel(a) /\ a.etape = "essai" /\ clef' = clef
    BY DEF JwksInv, Appels, essayer
<1>3. ~tryVerifyWithKeys(a) /\ a.connue => a.jeton < clef
    BY <1>2, ClefPerimee, Zenon DEF JwksInv
<1>4. ASSUME b.etape = "forceRefresh", NEW f \in inFlight', NEW k \in f.reponse
      PROVE  a.jeton <= k
  <2>1. f \in inFlight
      BY <1>1, <1>4, FetchJoint
  <2>2. ~(forcage >= f.debut)
    <3>1. /\ horloge \in Nat /\ forcage \in Int /\ Cooldown \in Nat /\ Delai \in Nat /\ f.debut \in Nat
        BY <2>1, JwksAssumption, SMT DEF JwksInv, JwksTypeOK, Instants
    <3>2. horloge <= f.debut + Delai /\ ~(horloge - forcage < Cooldown)
        BY <1>1, <1>4, <2>1, Zenon DEF JwksInv, Horaires
    <3> QED BY <3>1, <3>2, SMT
  <2> QED BY <1>2, <2>1, <2>2, <1>4, Zenon DEF Appel, Essai
<1>5. a.jeton <= clef
    BY <1>2 DEF Appel
<1> HIDE DEF a, b
<1>6. b.jeton <= clef'
    BY <1>1, <1>2, <1>5
<1>7. b.etape \notin {"getKeys", "essai", "dernierEssai"}
    BY <1>1
<1>8. /\ b.etape = "forceRefresh" => \A f \in inFlight' : \A k \in f.reponse : b.jeton <= k
      /\ b.etape \in {"forceRefresh", "refuse"} /\ b.connue => b.jeton < clef'
      /\ b.etape = "refuse" => b.motif # "aucun"
  <2>1. b.etape \in {"accepte", "forceRefresh"} \/ (b.etape = "refuse" /\ b.motif = "cooldown")
      BY <1>1
  <2>2. b.connue /\ b.etape \in {"forceRefresh", "refuse"} => b.jeton < clef'
      BY <1>1, <1>2, <1>3
  <2>3. b.etape = "forceRefresh" => \A f \in inFlight' : \A k \in f.reponse : b.jeton <= k
      BY <1>1, <1>4, Zenon
  <2> QED BY <2>1, <2>2, <2>3
<1> QED BY <1>6, <1>7, <1>8, Zenon DEF Appel, Attente, Essai, Suite, b
LEMMA AppelReessayer ==
    ASSUME JwksInv, NEW v \in Verifications, reessayer(v)
    PROVE  Appel(verification[v])'
<1> DEFINE a == verification[v]
<1> DEFINE b == verification'[v]
<1>1. /\ b.jeton = a.jeton /\ b.motif = a.motif
      /\ b.etape = IF tryVerifyWithKeys(a) THEN "accepte" ELSE "refuse"
    BY DEF reessayer, Poser, JwksInv, JwksTypeOK
<1>2. Appel(a) /\ a.etape = "dernierEssai" /\ clef' = clef
    BY DEF JwksInv, Appels, reessayer
<1>3. ~tryVerifyWithKeys(a) => a.jeton < clef
    BY <1>2, ClefPerimee, Zenon DEF JwksInv
<1>4. a.jeton <= clef
    BY <1>2 DEF Appel
<1> HIDE DEF a, b
<1>5. b.etape \notin {"getKeys", "essai", "forceRefresh", "dernierEssai"}
    BY <1>1
<1>6. b.jeton <= clef' /\ (b.etape = "refuse" => b.jeton < clef')
    BY <1>1, <1>2, <1>3, <1>4
<1> QED BY <1>5, <1>6, Zenon DEF Appel, Attente, Essai, Suite, b

(* An answer arrives: it is not older than the cache of the calls waiting. *)
LEMMA AppelRecevoir ==
    ASSUME JwksInv, NEW v \in Verifications, recevoir
    PROVE  Appel(verification[v])'
<1> DEFINE a == verification[v]
<1> DEFINE b == verification'[v]
<1>1. PICK f \in inFlight : f.reponse # {} /\
          b = IF a.etape = "getKeys" THEN [a EXCEPT !.etape = "essai", !.clefs = f.reponse]
              ELSE IF a.etape = "forceRefresh" THEN [a EXCEPT !.etape = "dernierEssai", !.clefs = f.reponse]
              ELSE a
  <2> DEFINE suite(f) == [w \in Verifications |->
                LET x == verification[w]
                IN  IF x.etape = "getKeys" THEN [x EXCEPT !.etape = "essai", !.clefs = f.reponse]
                    ELSE IF x.etape = "forceRefresh" THEN [x EXCEPT !.etape = "dernierEssai", !.clefs = f.reponse]
                    ELSE x]
  <2>1. \E f \in inFlight : f.reponse # {} /\ verification' = suite(f)
      BY Zenon DEF recevoir
  <2> QED BY <2>1, Zenon
<1>2. Appel(a) /\ clef' = clef /\ inFlight' = {} /\ a \in FichesAppel
    BY DEF JwksInv, JwksTypeOK, FichesAppel, Appels, recevoir
<1>3. \A k \in f.reponse : k <= clef /\ \A c \in cache : c.clef <= k
    BY DEF JwksInv, Ages
<1> HIDE DEF a, b
<1>4. CASE a.etape = "getKeys"
  <2>1. b.etape = "essai" /\ b.jeton = a.jeton /\ b.connue = a.connue /\ b.clefs = f.reponse
      BY <1>1, <1>2, <1>4 DEF FichesAppel
  <2>2. ASSUME a.connue, NEW k \in f.reponse
        PROVE  a.jeton <= k /\ k <= clef
    <3>1. PICK c \in cache : c.clef = a.jeton
        BY <1>2, <1>4, <2>2 DEF Appel, Attente, EnCache
    <3> QED BY <1>3, <3>1
  <2>3. a.jeton <= clef
      BY <1>2 DEF Appel
  <2>4. b.connue => b.clefs # {} /\ \A k \in b.clefs : b.jeton <= k /\ k <= clef
      BY <1>1, <2>1, <2>2
  <2> QED BY <1>2, <2>1, <2>3, <2>4 DEF Appel, Attente, Essai, Suite, b
<1>5. CASE a.etape = "forceRefresh"
  <2>1. b.etape = "dernierEssai" /\ b.jeton = a.jeton /\ b.connue = a.connue /\ b.clefs = f.reponse
      BY <1>1, <1>2, <1>5 DEF FichesAppel
  <2>2. \A k \in f.reponse : a.jeton <= k
      BY <1>2, <1>5 DEF Appel, Suite
  <2>3. a.jeton <= clef /\ (a.connue => a.jeton < clef)
      BY <1>2, <1>5 DEF Appel, Suite
  <2> QED BY <1>1, <1>2, <1>3, <2>1, <2>2, <2>3 DEF Appel, Attente, Essai, Suite, b
<1>6. CASE a.etape \notin {"getKeys", "forceRefresh"}
  <2>1. b = a
      BY <1>1, <1>6
  <2> QED BY <1>2, <1>6, <2>1 DEF Appel, Attente, Essai, Suite, b
<1> QED BY <1>4, <1>5, <1>6

LEMMA AppelEchouer ==
    ASSUME JwksInv, NEW v \in Verifications, echouer
    PROVE  Appel(verification[v])'
<1> DEFINE a == verification[v]
<1> DEFINE b == verification'[v]
<1>1. b = IF a.etape = "getKeys" THEN getKeysEchoue(a)
          ELSE IF a.etape = "forceRefresh" THEN [a EXCEPT !.etape = "refuse", !.motif = "panne"]
          ELSE a
    BY DEF echouer
<1>2. Appel(a) /\ clef' = clef /\ inFlight' = {} /\ a \in FichesAppel /\ EnCache' = EnCache
    BY DEF JwksInv, JwksTypeOK, FichesAppel, Appels, echouer, EnCache
<1>3. \A c \in cache : c.clef <= clef
    BY DEF JwksInv, Ages
<1>4. a.jeton \in Int
    BY ChampsAppel DEF JwksInv
<1> HIDE DEF a, b
<1>5. CASE a.etape = "getKeys"
  <2>1. ASSUME a.connue
        PROVE  a.clefs = {a.jeton} /\ a.jeton <= clef
    <3>1. a.clefs = {a.jeton} /\ EnCache = {a.jeton}
        BY <1>2, <1>5, <2>1 DEF Appel, Attente
    <3> QED BY <1>2, <3>1 DEF Appel
  <2>2. a.jeton <= clef
      BY <1>2 DEF Appel
  <2>3. CASE a.clefs # {}
    <3>1. b.etape = "essai" /\ b.jeton = a.jeton /\ b.connue = a.connue /\ b.clefs = a.clefs
        BY <1>1, <1>2, <1>5, <2>3 DEF getKeysEchoue, FichesAppel
    <3>2. b.connue => b.clefs # {} /\ \A k \in b.clefs : b.jeton <= k /\ k <= clef
        BY <1>4, <2>1, <2>2, <3>1
    <3> QED BY <1>2, <2>2, <3>1, <3>2 DEF Appel, Attente, Essai, Suite, b
  <2>4. CASE a.clefs = {}
    <3>1. b.etape = "refuse" /\ b.jeton = a.jeton /\ b.motif = "panne" /\ ~b.connue
        BY <1>1, <1>2, <1>5, <2>1, <2>4 DEF getKeysEchoue, FichesAppel
    <3> QED BY <1>2, <2>2, <3>1 DEF Appel, Attente, Essai, Suite, b
  <2> QED BY <2>3, <2>4
<1>6. CASE a.etape = "forceRefresh"
  <2>1. b.etape = "refuse" /\ b.jeton = a.jeton /\ b.motif = "panne" /\ b.connue = a.connue
      BY <1>1, <1>2, <1>6 DEF FichesAppel
  <2>2. a.jeton <= clef /\ (a.connue => a.jeton < clef)
      BY <1>2, <1>6 DEF Appel, Suite
  <2> QED BY <1>2, <2>1, <2>2 DEF Appel, Attente, Essai, Suite, b
<1>7. CASE a.etape \notin {"getKeys", "forceRefresh"}
  <2>1. b = a
      BY <1>1, <1>7
  <2> QED BY <1>2, <1>7, <2>1 DEF Appel, Attente, Essai, Suite, b
<1> QED BY <1>5, <1>6, <1>7
LEMMA AppelsInduits ==
    ASSUME JwksInv, Cooldown > Delai, [JwksNext]_jwksVars
    PROVE  Appels'
<1> SUFFICES ASSUME NEW v \in Verifications
             PROVE  Appel(verification[v])'
    BY Zenon DEF Appels
<1>0. /\ JwksTypeOK /\ Appel(verification[v])
      /\ clef \in Nat /\ forcage \in Int /\ horloge \in Nat /\ Cooldown \in Nat \ {0}
    BY JwksAssumption, SMT DEF JwksInv, JwksTypeOK, Clefs, Instants, Appels
<1>1. ASSUME verification'[v] = verification[v], clef' = clef, cache' = cache, forcage' = forcage,
             inFlight' = inFlight \/ fetchAndCache
      PROVE  Appel(verification[v])'
    BY <1>0, <1>1, FetchJoint, AppelInchange
<1>2. ASSUME NEW w \in Verifications, NEW j \in {Faux} \union 0..clef, verify(w, j)
      PROVE  Appel(verification[v])'
  <2>1. CASE w = v
      BY <1>2, <2>1, AppelVerify
  <2>2. CASE w # v
    <3>1. verification'[v] = verification[v]
        BY <1>0, <1>2, <2>2 DEF verify, Poser, JwksTypeOK
    <3>2. /\ clef' = clef /\ cache' = cache /\ forcage' = forcage
          /\ inFlight' = inFlight \/ fetchAndCache
        BY <1>2, Zenon DEF verify
    <3> QED BY <1>1, <3>1, <3>2
  <2> QED BY <2>1, <2>2
<1>3. ASSUME NEW w \in Verifications, essayer(w)
      PROVE  Appel(verification[v])'
  <2>1. CASE w = v
      BY <1>3, <2>1, AppelEssayer
  <2>2. CASE w # v
    <3>1. verification'[v] = verification[v]
        BY <1>0, <1>3, <2>2 DEF essayer, forceRefreshIfAllowed, Poser, JwksTypeOK
    <3>2. clef' = clef /\ cache' = cache
        BY <1>3 DEF essayer
    <3>3. \/ inFlight' = inFlight /\ forcage' = forcage
          \/ fetchAndCache /\ forcage' = horloge /\ ~(horloge - forcage < Cooldown)
        BY <1>3, Zenon DEF essayer, forceRefreshIfAllowed
    <3>4. forcage' \in Int /\ forcage' >= forcage
        BY <1>0, <3>3, SMT
    <3> QED BY <1>0, <3>1, <3>2, <3>3, <3>4, FetchJoint, AppelInchange
  <2> QED BY <2>1, <2>2
<1>4. ASSUME NEW w \in Verifications, reessayer(w)
      PROVE  Appel(verification[v])'
  <2>1. CASE w = v
      BY <1>4, <2>1, AppelReessayer
  <2>2. CASE w # v
    <3>1. verification'[v] = verification[v]
        BY <1>0, <1>4, <2>2 DEF reessayer, Poser, JwksTypeOK
    <3> QED BY <1>1, <1>4, <3>1 DEF reessayer
  <2> QED BY <2>1, <2>2
<1>5. CASE repondre
  <2>1. PICK g \in inFlight : inFlight' = {[g EXCEPT !.reponse = {clef}]}
      BY <1>5 DEF repondre
  <2>2. \A f \in inFlight' : f.debut = g.debut /\ f.reponse \in {g.reponse, {clef}}
      BY <1>0, <2>1 DEF JwksTypeOK
  <2>3. /\ verification' = verification /\ clef' = clef /\ cache' = cache /\ forcage' = forcage
      BY <1>5 DEF repondre
  <2> QED BY <1>0, <2>2, <2>3, AppelInchange
<1>6. CASE recevoir
    BY <1>6, AppelRecevoir
<1>7. CASE echouer
    BY <1>7, AppelEchouer
<1>8. CASE tic
    BY <1>1, <1>8 DEF tic
<1>9. CASE rotation
  <2>1. clef' \in Nat /\ clef' >= clef /\ UNCHANGED <<cache, inFlight, forcage, verification>>
      BY <1>0, <1>9, SMT DEF rotation
  <2> QED BY <1>0, <2>1, AppelInchange
<1>10. CASE UNCHANGED jwksVars
    BY <1>1, <1>10 DEF jwksVars
<1> QED BY <1>2, <1>3, <1>4, <1>5, <1>6, <1>7, <1>8, <1>9, <1>10, Zenon DEF JwksNext

-----------------------------------------------------------------------------
(* A token signed with the project's key is refused only by an instance    *)
(* that did not have the key and could not ask for it, whatever number of  *)
(* calls wait for the same fetch, turn the key or let it expire.           *)
THEOREM JetonAccepte == JwksSpec => []JetonCourantAccepte
<1> SUFFICES ASSUME Cooldown > Delai
             PROVE  JwksSpec => []JetonCourantAccepte
  <2>1. CASE ~(Cooldown > Delai)
    <3>1. JetonCourantAccepte
        BY <2>1, Zenon DEF JetonCourantAccepte
    <3> QED BY <3>1, PTL
  <2> QED BY <2>1
<1>1. JwksInit => Horaires /\ Ages /\ Appels
    BY JwksAssumption, SMT
       DEF JwksInit, Horaires, Ages, Appels, Appel, Attente, Essai, Suite, Faux
<1>2. JwksInv /\ [JwksNext]_jwksVars => Horaires' /\ Ages' /\ Appels'
    BY HorairesInduits, AgesInduits, AppelsInduits DEF JwksInv
<1>3. JwksInv => JetonCourantAccepte
  <2> SUFFICES ASSUME JwksInv, NEW v \in Verifications,
                      verification[v].etape = "refuse", verification[v].jeton = clef
               PROVE  ~verification[v].connue /\ verification[v].motif \in {"cooldown", "panne"}
      BY Zenon DEF JetonCourantAccepte
  <2>1. ~(clef < clef)
      BY JwksAssumption, SMT DEF JwksInv, JwksTypeOK, Clefs
  <2>2. ~verification[v].connue /\ verification[v].motif # "aucun"
      BY <2>1, Zenon DEF JwksInv, Appels, Appel, Suite
  <2> QED BY <2>2, ChampsAppel DEF JwksInv
<1> QED BY <1>1, <1>2, <1>3, JwksTypeCorrect, PTL DEF JwksSpec, JwksInv

-----------------------------------------------------------------------------
(* The cache of keys runs beside the contexts.                             *)
LEMMA ImplementeJwks == Spec => JwksSpec
<1>1. Init => JwksInit
      BY DEF Init
<1>2. [Next]_vars => [JwksNext]_jwksVars
      BY DEF Next, vars
<1> QED  BY <1>1, <1>2, PTL DEF Spec, JwksSpec

LEMMA TypesSuffisent == InvTypes /\ JwksTypeOK => NoyauTypeOK
<1> SUFFICES ASSUME InvTypes, JwksTypeOK PROVE NoyauTypeOK
    OBVIOUS
<1>1. EngineTypeOK
      BY DEF InvTypes, TypesTables, TypesEngine, EngineTypeOK, ToutNiveau
<1>2. CorpusTypeOK /\ RegistreTypeOK
      BY DEF InvTypes, TypesTables, TypesCorpus, TypesRegistre, CorpusTypeOK, RegistreTypeOK
<1>3. OrgTypeOK
      BY DEF InvTypes, TypesTables, TypesOrg, OrgTypeOK
<1>4. ReferentielTypeOK
      BY DEF InvTypes, TypesTables, TypesReferentiel, ReferentielTypeOK
<1>5. ConfigTypeOK /\ CatalogueTypeOK
      BY DEF InvTypes, TypesTables, TypesConfig, TypesCatalogue, ConfigTypeOK, CatalogueTypeOK
<1>6. IdentiteTypeOK
      BY DEF InvTypes, TypesTables, TypesIdentite, IdentiteTypeOK
<1> QED  BY <1>1, <1>2, <1>3, <1>4, <1>5, <1>6 DEF NoyauTypeOK

(***************************************************************************)
(* Whatever the contexts write, and in whatever order their requests       *)
(* commit, every row of the twenty-eight tables stays a row of its table:  *)
(* a row is written back from a copy that other requests may have made     *)
(* stale, column by column, and the version of a grid is counted.          *)
(***************************************************************************)
THEOREM NoyauTypeOKCorrect == Spec => []NoyauTypeOK
<1>1. Spec => [](Socle /\ InvTarif /\ InvTypes)
  <2>1. Init => Socle /\ InvTarif /\ InvTypes
      BY SocleInit, TarifInit, TypesInit
  <2>2. Socle /\ InvTarif /\ InvTypes /\ [Next]_vars => (Socle /\ InvTarif /\ InvTypes)'
      BY SocleEtape, TarifEtape, TypesEtape
  <2> QED  BY <2>1, <2>2, PTL DEF Spec
<1>2. Spec => []JwksTypeOK
      BY ImplementeJwks, JwksTypeCorrect
<1> QED  BY <1>1, <1>2, TypesSuffisent, PTL

(***************************************************************************)
(* In the kernel as a whole, a token signed with the key of the project is *)
(* refused only by an instance that did not have it and could not ask.     *)
(***************************************************************************)
THEOREM JetonCourantAccepteCorrect == Spec => []JetonCourantAccepte
BY ImplementeJwks, JetonAccepte

-----------------------------------------------------------------------------
(* The loop of resolveChamp: the levels from the k-th on that set the      *)
(* field, and what makes a function the result of the loop from each level *)
(* on.                                                                     *)
PosesDepuis(chaine, champ, k) == {j \in k..Len(chaine) : chaine[j][champ] # Nul}

Moindre(T) == CHOOSE m \in T : \A k \in T : m <= k

EstParcours(f, chaine, champ) ==
    f = [k \in 1..(Len(chaine) + 1) |->
            IF k > Len(chaine) THEN Nul
            ELSE IF chaine[k][champ] # Nul THEN chaine[k][champ]
            ELSE f[k + 1]]

LEMMA MoindreDedans ==
    ASSUME NEW T \in SUBSET Nat, T # {}
    PROVE  Moindre(T) \in T /\ \A k \in T : Moindre(T) <= k
BY PlusPetit DEF Moindre

LEMMA ParcoursExiste ==
    ASSUME NEW chaine, NEW champ, Len(chaine) \in Nat
    PROVE  \E f : EstParcours(f, chaine, champ)
<1> DEFINE N == Len(chaine)
           P(k) == PosesDepuis(chaine, champ, k)
           f == [k \in 1..(N + 1) |->
                    IF P(k) = {} THEN Nul ELSE chaine[Moindre(P(k))][champ]]
<1>1. ASSUME NEW k \in 1..(N + 1)
      PROVE  f[k] = IF k > N THEN Nul
                    ELSE IF chaine[k][champ] # Nul THEN chaine[k][champ]
                    ELSE f[k + 1]
  <2>1. CASE k > N
    <3>1. P(k) = {}
        BY <2>1 DEF PosesDepuis
    <3> QED  BY <2>1, <3>1
  <2>2. CASE k <= N /\ chaine[k][champ] # Nul
    <3>1. k \in P(k) /\ P(k) \subseteq Nat /\ \A j \in P(k) : k <= j
        BY <2>2 DEF PosesDepuis
    <3>2. Moindre(P(k)) \in Nat /\ Moindre(P(k)) <= k /\ k <= Moindre(P(k))
        BY <3>1, MoindreDedans
    <3>3. Moindre(P(k)) = k
        BY <3>2
    <3> QED  BY <2>2, <3>1, <3>3
  <2>3. CASE k <= N /\ chaine[k][champ] = Nul
    <3>1. P(k) = P(k + 1)
        BY <2>3 DEF PosesDepuis
    <3>2. k + 1 \in 1..(N + 1) /\ ~(k > N)
        BY <2>3
    <3> QED  BY <2>3, <3>1, <3>2
  <2> QED  BY <2>1, <2>2, <2>3
<1>2. f = [k \in 1..(N + 1) |-> f[k]]
      OBVIOUS
<1> HIDE DEF f
<1>3. EstParcours(f, chaine, champ)
      BY <1>1, <1>2 DEF EstParcours
<1> QED  BY <1>3

LEMMA ResolveParcours ==
    ASSUME NEW chaine, NEW champ, Len(chaine) \in Nat
    PROVE  \E f : EstParcours(f, chaine, champ) /\ resolveChamp(chaine, champ) = f[1]
<1> DEFINE F == CHOOSE f : EstParcours(f, chaine, champ)
<1>1. EstParcours(F, chaine, champ)
      BY ParcoursExiste
<1>2. resolveChamp(chaine, champ) = F[1]
      BY DEF resolveChamp, EstParcours
<1> QED  BY <1>1, <1>2

(***************************************************************************)
(* KER-INH-01: whatever the number of levels, resolveChamp returns what    *)
(* the first level that sets the field sets, and Nul if there is none.     *)
(***************************************************************************)
THEOREM ResolvePremier ==
    ASSUME NEW chaine, NEW champ, Len(chaine) \in Nat
    PROVE  \/ \E m \in 1..Len(chaine) :
                 /\ chaine[m][champ] # Nul
                 /\ \A j \in 1..Len(chaine) : chaine[j][champ] # Nul => m <= j
                 /\ resolveChamp(chaine, champ) = chaine[m][champ]
           \/ /\ \A j \in 1..Len(chaine) : chaine[j][champ] = Nul
              /\ resolveChamp(chaine, champ) = Nul
<1> DEFINE N == Len(chaine)
           T == PosesDepuis(chaine, champ, 1)
<1>1. PICK f : EstParcours(f, chaine, champ) /\ resolveChamp(chaine, champ) = f[1]
      BY ResolveParcours
<1>2. ASSUME NEW k \in 1..(N + 1)
      PROVE  f[k] = IF k > N THEN Nul
                    ELSE IF chaine[k][champ] # Nul THEN chaine[k][champ]
                    ELSE f[k + 1]
      BY <1>1 DEF EstParcours
<1>3. ASSUME NEW m \in 1..(N + 1), \A j \in 1..N : j < m => chaine[j][champ] = Nul
      PROVE  f[1] = f[m]
  <2> DEFINE U == {k \in 1..m : f[k] = f[m]}
  <2>1. m \in U /\ U \subseteq Nat
      OBVIOUS
  <2>2. PICK r \in U : \A k \in U : r <= k
      BY <2>1, PlusPetit
  <2>3. ASSUME r # 1 PROVE FALSE
    <3>1. r - 1 \in 1..N /\ r - 1 < m /\ r - 1 \in 1..m /\ r - 1 \in 1..(N + 1)
        BY <2>2, <2>3
    <3>2. f[r - 1] = f[r - 1 + 1]
        BY <1>2, <1>3, <3>1
    <3>3. r - 1 + 1 = r
        BY <2>2
    <3>4. r - 1 \in U
        BY <2>2, <3>1, <3>2, <3>3
    <3> QED  BY <2>2, <3>1, <3>4
  <2> QED  BY <2>2, <2>3
<1>4. CASE T = {}
  <2>1. \A j \in 1..N : chaine[j][champ] = Nul
      BY <1>4 DEF PosesDepuis
  <2>2. f[1] = f[N + 1]
      BY <1>3, <2>1
  <2>3. f[N + 1] = Nul
      BY <1>2
  <2> QED  BY <1>1, <2>1, <2>2, <2>3
<1>5. CASE T # {}
  <2>1. T \subseteq Nat
      BY DEF PosesDepuis
  <2>2. PICK m \in T : \A k \in T : m <= k
      BY <1>5, <2>1, PlusPetit
  <2>3. m \in 1..N /\ chaine[m][champ] # Nul
      BY <2>2 DEF PosesDepuis
  <2>4. \A j \in 1..N : chaine[j][champ] # Nul => m <= j
      BY <2>2 DEF PosesDepuis
  <2>5. f[1] = f[m]
      BY <1>3, <2>3, <2>4
  <2>6. f[m] = chaine[m][champ]
      BY <1>2, <2>3
  <2> QED  BY <1>1, <2>3, <2>4, <2>5, <2>6
<1> QED  BY <1>4, <1>5

(* The chain of a caller: what it sets, then the country, then the global  *)
(* row.                                                                    *)
LEMMA ChaineAppelant ==
    ASSUME NEW a \in Appelants, NEW n, NEW g
    PROVE  /\ Len(a) = 3 /\ Len(a \o <<n, g>>) = 5
           /\ \A k \in 1..3 : (a \o <<n, g>>)[k] = a[k]
           /\ (a \o <<n, g>>)[4] = n /\ (a \o <<n, g>>)[5] = g
<1>1. a \in NiveauReferentielPartiel \X NiveauReferentielPartiel \X NiveauReferentielPartiel
      BY AppelantAssumption
<1>2. PICK x, y, z : a = <<x, y, z>>
      BY <1>1
<1> DEFINE S == {x, y, z, n, g}
<1>3. <<x, y, z>> \in Seq(S) /\ <<n, g>> \in Seq(S) /\ Len(<<x, y, z>>) = 3 /\ Len(<<n, g>>) = 2
      OBVIOUS
<1>4. Len(<<x, y, z>> \o <<n, g>>) = 5
      BY <1>3
<1>5. \A k \in 1..3 : (<<x, y, z>> \o <<n, g>>)[k] = <<x, y, z>>[k]
      BY <1>3
<1>6. (<<x, y, z>> \o <<n, g>>)[4] = n /\ (<<x, y, z>> \o <<n, g>>)[5] = g
      BY <1>3
<1> QED  BY <1>2, <1>3, <1>4, <1>5, <1>6

LEMMA ChampHerite ==
    ASSUME NEW a \in Appelants, NEW n, NEW g, NEW champ
    PROVE  \/ \E k \in 1..3 : /\ a[k][champ] # Nul /\ \A j \in 1..3 : a[j][champ] # Nul => k <= j
                              /\ resolveChamp(a \o <<n, g>>, champ) = a[k][champ]
           \/ /\ \A k \in 1..3 : a[k][champ] = Nul
              /\ resolveChamp(a \o <<n, g>>, champ) = IF n[champ] # Nul THEN n[champ] ELSE g[champ]
<1> DEFINE C == a \o <<n, g>>
<1>1. Len(C) = 5 /\ (\A k \in 1..3 : C[k] = a[k]) /\ C[4] = n /\ C[5] = g
      BY ChaineAppelant
<1> HIDE DEF C
<1>2. CASE \E m \in 1..Len(C) : /\ C[m][champ] # Nul
                                /\ \A j \in 1..Len(C) : C[j][champ] # Nul => m <= j
                                /\ resolveChamp(C, champ) = C[m][champ]
  <2>1. PICK m \in 1..5 : /\ C[m][champ] # Nul
                          /\ \A j \in 1..5 : C[j][champ] # Nul => m <= j
                          /\ resolveChamp(C, champ) = C[m][champ]
      BY <1>1, <1>2
  <2>2. CASE m \in 1..3
    <3>1. \A j \in 1..3 : a[j][champ] # Nul => m <= j
        BY <1>1, <2>1
    <3> QED  BY <1>1, <2>1, <2>2, <3>1 DEF C
  <2>3. CASE m = 4
    <3>1. \A k \in 1..3 : a[k][champ] = Nul
        BY <1>1, <2>1, <2>3
    <3> QED  BY <1>1, <2>1, <2>3, <3>1 DEF C
  <2>4. CASE m = 5
    <3>1. (\A k \in 1..3 : a[k][champ] = Nul) /\ n[champ] = Nul
        BY <1>1, <2>1, <2>4
    <3> QED  BY <1>1, <2>1, <2>4, <3>1 DEF C
  <2> QED  BY <2>2, <2>3, <2>4
<1>3. CASE (\A j \in 1..Len(C) : C[j][champ] = Nul) /\ resolveChamp(C, champ) = Nul
  <2>1. (\A k \in 1..3 : a[k][champ] = Nul) /\ n[champ] = Nul /\ g[champ] = Nul
      BY <1>1, <1>3
  <2> QED  BY <1>3, <2>1 DEF C
<1> QED  BY <1>1, <1>2, <1>3, ResolvePremier

LEMMA ChampAppelant ==
    ASSUME NEW a \in Appelants, NEW champ
    PROVE  \/ \E k \in 1..3 : /\ a[k][champ] # Nul /\ \A j \in 1..3 : a[j][champ] # Nul => k <= j
                              /\ resolveChamp(a, champ) = a[k][champ]
           \/ (\A k \in 1..3 : a[k][champ] = Nul) /\ resolveChamp(a, champ) = Nul
<1>1. Len(a) = 3
      BY ChaineAppelant
<1> QED  BY <1>1, ResolvePremier

(* Nul is no locale: an answer of the three steps is one that is active.   *)
LEMMA LocaleChoisie ==
    ASSUME NEW l, NEW p, NEW x \in resolveLocale(l, p)
    PROVE  /\ x # Nul => localeActive(x)
           /\ l # Nul /\ localeActive(<<l, Nul>>) => x # Nul /\ x \in {<<l, p>>, <<l, Nul>>}
<1>1. ~localeActive(Nul)
      BY ReferentielAssumption DEF localeActive
<1> QED  BY <1>1 DEF resolveLocale, UnDe

(***************************************************************************)
(* KER-INH-01, KER-INH-02, KER-NOM-04, for every caller, date and state of *)
(* the tables: a parameter has the value of the most specific level that   *)
(* sets it, the country and the global row included, and is null only if   *)
(* none does; the locale is active, and of the resolved language as soon   *)
(* as that language has an active locale.                                  *)
(***************************************************************************)
THEOREM HeritageStrictCorrect == Spec => []HeritageStrict
<1> DEFINE Poses(a, champ) == {k \in 1..3 : a[k][champ] # Nul}
           Place(a, champ, c) ==
               \E k \in Poses(a, champ) : (\A j \in Poses(a, champ) : k <= j) /\ c[champ] = a[k][champ]
           Herite(champ, c, d) ==
               \E n \in getPaysDefaults(c.pays, d), g \in configuration["globale"] :
                  c[champ] = IF n[champ] # Nul THEN n[champ] ELSE g[champ]
<1>1. ASSUME NEW o \in Orgs, NEW a \in Appelants, NEW d \in Dates,
             NEW c \in resolveAppConfig(o, Nul, a, d)
      PROVE  /\ Place(a, "pays", c) \/ (Poses(a, "pays") = {} /\ c.pays = Nul)
             /\ \A champ \in {"devise", "langue"} :
                   Place(a, champ, c) \/ (Poses(a, champ) = {} /\ Herite(champ, c, d))
             /\ c.locale # Nul => localeActive(c.locale)
             /\ c.langue # Nul /\ existe(<<"langue", c.langue>>) /\ localeActive(<<c.langue, Nul>>)
                     => c.locale # Nul /\ c.locale[1] = c.langue
  <2> DEFINE p == resolveChamp(a, "pays")
             Devise(n, g) == resolveChamp(a \o <<n, g>>, "devise")
             Langue(n, g) == resolveChamp(a \o <<n, g>>, "langue")
             Choix(n, g) == resolveLocale(enrichCodes("langue", Langue(n, g)), enrichCodes("pays", p))
  <2>1. \E n \in getPaysDefaults(p, d), g \in configuration["globale"] :
           \E x \in Choix(n, g) :
              c = [pays |-> p, devise |-> Devise(n, g), langue |-> Langue(n, g), locale |-> x]
      BY DEF resolveAppConfig
  <2>2. PICK n \in getPaysDefaults(p, d), g \in configuration["globale"] :
           \E x \in Choix(n, g) :
              c = [pays |-> p, devise |-> Devise(n, g), langue |-> Langue(n, g), locale |-> x]
      BY <2>1
  <2>3. PICK x \in Choix(n, g) :
           c = [pays |-> p, devise |-> Devise(n, g), langue |-> Langue(n, g), locale |-> x]
      BY <2>2
  <2> HIDE DEF p, Devise, Langue
  <2>4. /\ c.pays = p /\ c.locale = x /\ c["devise"] = Devise(n, g) /\ c["langue"] = Langue(n, g)
        /\ c["pays"] = p /\ c.langue = Langue(n, g)
      BY <2>3
  <2>5. ASSUME NEW champ \in {"devise", "langue"}
        PROVE  c[champ] = resolveChamp(a \o <<n, g>>, champ)
      BY <2>4 DEF Devise, Langue
  <2>6. Place(a, "pays", c) \/ (Poses(a, "pays") = {} /\ c.pays = Nul)
    <3>1. p = resolveChamp(a, "pays")
        BY DEF p
    <3>2. CASE \E k \in 1..3 : /\ a[k]["pays"] # Nul /\ \A j \in 1..3 : a[j]["pays"] # Nul => k <= j
                               /\ resolveChamp(a, "pays") = a[k]["pays"]
        BY <2>4, <3>1, <3>2
    <3>3. CASE (\A k \in 1..3 : a[k]["pays"] = Nul) /\ resolveChamp(a, "pays") = Nul
        BY <2>4, <3>1, <3>3
    <3> QED  BY <3>2, <3>3, ChampAppelant
  <2>7. ASSUME NEW champ \in {"devise", "langue"}
        PROVE  Place(a, champ, c) \/ (Poses(a, champ) = {} /\ Herite(champ, c, d))
    <3>1. CASE \E k \in 1..3 : /\ a[k][champ] # Nul /\ \A j \in 1..3 : a[j][champ] # Nul => k <= j
                               /\ resolveChamp(a \o <<n, g>>, champ) = a[k][champ]
        BY <2>5, <3>1
    <3>2. CASE /\ \A k \in 1..3 : a[k][champ] = Nul
               /\ resolveChamp(a \o <<n, g>>, champ) = IF n[champ] # Nul THEN n[champ] ELSE g[champ]
      <4>1. Poses(a, champ) = {}
          BY <3>2
      <4>2. c[champ] = IF n[champ] # Nul THEN n[champ] ELSE g[champ]
          BY <2>5, <3>2
      <4>3. n \in getPaysDefaults(c.pays, d) /\ g \in configuration["globale"]
          BY <2>4
      <4> HIDE DEF Poses, Place
      <4>4. Herite(champ, c, d)
          BY <4>2, <4>3, Zenon
      <4> QED  BY <4>1, <4>4
    <3> QED  BY <3>1, <3>2, ChampHerite
  <2>8. c.locale # Nul => localeActive(c.locale)
      BY <2>3, <2>4, LocaleChoisie
  <2>9. ASSUME c.langue # Nul, existe(<<"langue", c.langue>>), localeActive(<<c.langue, Nul>>)
        PROVE  c.locale # Nul /\ c.locale[1] = c.langue
    <3>1. enrichCodes("langue", Langue(n, g)) = c.langue
        BY <2>4, <2>9 DEF enrichCodes
    <3>2. /\ c.locale # Nul
          /\ c.locale \in {<<c.langue, enrichCodes("pays", p)>>, <<c.langue, Nul>>}
        BY <2>3, <2>4, <2>9, <3>1, LocaleChoisie
    <3> QED  BY <3>2
  <2> QED  BY <2>6, <2>7, <2>8, <2>9
<1>2. ASSUME NEW o \in Orgs, NEW a \in Appelants, NEW d \in Dates,
             NEW c \in resolveAppConfig(o, Nul, a, d), NEW champ \in {"pays", "devise", "langue"}
      PROVE  \/ Place(a, champ, c)
             \/ Poses(a, champ) = {} /\ champ = "pays" /\ c.pays = Nul
             \/ Poses(a, champ) = {} /\ champ # "pays" /\ Herite(champ, c, d)
  <2> HIDE DEF Poses, Place, Herite
  <2>1. CASE champ = "pays"
      BY <1>1, <2>1
  <2>2. CASE champ \in {"devise", "langue"}
      BY <1>1, <2>2
  <2> QED  BY <2>1, <2>2
<1>3. HeritageStrict
  <2> SUFFICES ASSUME NEW o \in Orgs, NEW a \in Appelants, NEW d \in Dates,
                      NEW c \in resolveAppConfig(o, Nul, a, d)
               PROVE  /\ \A champ \in {"pays", "devise", "langue"} :
                            \/ Place(a, champ, c)
                            \/ Poses(a, champ) = {} /\ champ = "pays" /\ c.pays = Nul
                            \/ Poses(a, champ) = {} /\ champ # "pays" /\ Herite(champ, c, d)
                      /\ c.locale # Nul => localeActive(c.locale)
                      /\ c.langue # Nul /\ existe(<<"langue", c.langue>>) /\ localeActive(<<c.langue, Nul>>)
                              => c.locale # Nul /\ c.locale[1] = c.langue
      BY DEF HeritageStrict
  <2> QED  BY <1>1, <1>2
<1> QED  BY <1>3, PTL

=============================================================================
