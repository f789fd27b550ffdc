--------------------------------- MODULE Noyau ---------------------------------
(***************************************************************************)
(* The business contexts of the kernel over one database: their use-cases  *)
(* run in concurrent requests and consult each other's rows through the    *)
(* lookup ports (a catalogue asks for an active product and organisation,  *)
(* a grid for a certified currency, a ville for a published node, ...).    *)
(* The cache of keys runs beside them.                                     *)
(*                                                                         *)
(* A behaviour exercises one perimeter, a group of use-cases that share    *)
(* rows, and begins with the rows of Demarrage; the use-cases outside the  *)
(* perimeter are not called.  No request begins once two of them have      *)
(* overlapped: those in progress still end.  Both are bounds.              *)
(***************************************************************************)
EXTENDS CorpusVersionnes, AppConfig, CatalogueProduits, ComptesIdentites, CacheJwks

CONSTANTS
    Perimetres,     \* the perimeters that are exercised
    n1, n2, n3, n4, \* nodes, o1: an organisation, ... of the first database
    p1, p2, d1, d2, l1, o1, a1, c1, c2, k1, z1, f1, g1, m1, m2

ASSUME NoyauAssumption ==
    /\ {n1, n2, n3, n4} \subseteq Noeuds /\ Cardinality({n1, n2, n3, n4}) = 4
    /\ MaxChemin >= 3 /\ {p1, p2} \subseteq Pays
    /\ {d1, d2} \subseteq Devises /\ l1 \in Langues /\ o1 \in Orgs /\ a1 \in Produits
    /\ {c1, c2} \subseteq Corpus /\ c1 # c2 /\ k1 \in Catalogues /\ z1 \in Articles /\ f1 \in Offres
    /\ g1 \in Comptes /\ {m1, m2} \subseteq Courriels /\ m1 # m2

VARIABLE perimetre

metierVars ==
    <<engineVars, corpusVars, registreVars, orgVars, referentielVars, configuration,
      catalogueVars, identiteVars>>
vars == <<perimetre, uniteVars, metierVars, jwksVars>>

NoyauTypeOK ==
    /\ EngineTypeOK /\ CorpusTypeOK /\ RegistreTypeOK /\ OrgTypeOK
    /\ ReferentielTypeOK /\ ConfigTypeOK /\ CatalogueTypeOK /\ IdentiteTypeOK
    /\ JwksTypeOK

-----------------------------------------------------------------------------
(* The rows that are there at the start.  The nodes: a chain in country p1 *)
(* and a root in another; the chain is of drafts in the perimeter "arbre", *)
(* elsewhere it is published, and its third node is still to be created    *)
(* but in "arbre" and "publication".                                       *)
Table(ids, lignes) == [i \in ids |-> IF i \in DOMAIN lignes THEN {lignes[i]} ELSE {}]

Aucune == [i \in {} |-> {}]

NoeudsAuDepart ==
    LET s == IF perimetre = "arbre" THEN "brouillon" ELSE "publie"
        racine == [createRoot(n1, p1, FALSE) EXCEPT !.statut = s]
        enfant == [createChild(n2, n1, racine, TRUE) EXCEPT !.statut = s]
        feuille == [createChild(n3, n2, enfant, TRUE) EXCEPT !.statut = s]
    IN  [n \in {n1, n2, n4} \union (IF perimetre \in {"arbre", "publication"} THEN {n3} ELSE {}) |->
            CASE n = n1 -> racine [] n = n2 -> enfant [] n = n3 -> feuille
              [] n = n4 -> createRoot(n4, p2, FALSE)]

Demarrage ==
    /\ niveaux = [k \in Pays \X (1..(MaxChemin + 1)) |->
                    IF \/ k[2] = 1 \/ k = <<p1, 2>>
                       \/ k = <<p1, 3>> /\ perimetre \in {"arbre", "publication"}
                    THEN {[actif |-> TRUE]} ELSE {}]
    /\ noeuds = Table(Noeuds, NoeudsAuDepart)
    /\ regles = Table(Regles, Aucune)
    /\ villes = Table(Villes, Aucune)
    /\ compteur = [n \in Noeuds |-> 0] /\ retard = FALSE /\ deplace = "rien"
    /\ corpus = Table(Corpus, [c \in {c1} \union (IF perimetre = "elements" THEN {c2} ELSE {}) |->
                                 [confiance |-> "VERIFIE", statut |-> "brouillon"]])
    /\ elements = Table(Elements, Aucune)
    /\ produits = Table(Produits, [p \in {a1} |-> [actif |-> TRUE]])
    /\ deploiements = Table(Produits \X Pays, Aucune)
    /\ organisations = Table(Orgs, [o \in {o1} |-> [mere |-> Nul, actif |-> TRUE]])
    /\ unites = Table(Unites, Aucune)
    /\ abonnements = Table(Abonnements, Aucune)
    /\ fiches = Table(CodesFiches,
                      [k \in {<<"pays", p1>>, <<"devise", d1>>, <<"devise", d2>>, <<"langue", l1>>} |->
                         [actif |-> TRUE, statut |-> IF k[2] = d2 THEN "valide" ELSE "publie"]])
    /\ circulations = Table(Relations, Aucune) /\ languesPays = Table(Relations, Aucune)
    /\ adhesions = Table(Relations, Aucune) /\ taux = Table(Relations, Aucune)
    /\ locales = Table(Locales, [x \in {<<l1, Nul>>} |-> [actif |-> TRUE, defaut |-> TRUE]])
    /\ traductions = Table(Locales \X Cles, Aucune)
    /\ desordre = FALSE
    /\ configuration = [x \in {"globale"} |-> {[devise |-> d1, langue |-> Nul]}]
    /\ catalogues = Table(Catalogues, [c \in {k1} |-> [produit |-> a1, cible |-> o1, statut |-> "publie"]])
    /\ articles = Table(Articles, [x \in {z1} |-> [catalogue |-> k1, statut |-> "publie"]])
    /\ offres = Table(Offres, [o \in {f1} |-> [article |-> z1, ponctuelle |-> FALSE, statut |-> "publie"]])
    /\ features = Table(Features, Aucune) /\ droits = Table(Offres \X Features, Aucune)
    /\ grilles = Table(Grilles, Aucune)
    /\ comptes = Table(Comptes, [g \in {g1} |-> [email |-> m1, phone |-> Nul, motDePasse |-> TRUE]])
    /\ liens = Table(Identites, Aucune)
    /\ affectations = Table(Affectations, Aucune)

Init ==
    /\ perimetre \in Perimetres
    /\ InitUnite /\ Demarrage /\ JwksInit

-----------------------------------------------------------------------------
(* referential-engine.                                                     *)
(* Bound: the move of a branch is the last one.                            *)
Arbre(r) ==
    /\ deplace # "branches"
    /\ \E n \in {n1, n2, n3} :
          \/ ReattachNoeudRacine(r, n)
          \/ \E m \in Noeuds : ReattachNoeud(r, n, m)

Publication(r) ==
    \/ ReattachNoeudRacine(r, n2)
    \/ \E n \in {n2, n3} :
          \/ DeactivateNoeud(r, n)
          \/ ReactivateNoeud(r, n) /\ UNCHANGED retard
    \/ /\ \E v \in Villes, n \in {n2, Nul} : CreateVille(r, v, n) \/ MoveVille(r, v, n)
       /\ UNCHANGED retard

Revision(r) ==
    /\ \/ \E k \in 1..MaxChemin : CreateNiveau(r, p1, k)
       \/ \E p \in Pays : CreateNoeudRacine(r, n3, p, FALSE)
       \/ \E m \in {n1, n2} : CreateNoeudEnfant(r, n3, m, TRUE)
       \/ \E s \in Statuts : TransitionNoeud(r, n3, s)
       \/ UpdateNoeud(r, n3)
    /\ UNCHANGED retard

Rattachement(r) ==
    /\ \E v \in Villes :
          \/ \E n \in {n2, n4, Nul} : CreateVille(r, v, n) \/ MoveVille(r, v, n)
          \/ \E a \in BOOLEAN : SetVilleActivation(r, v, a)
    /\ UNCHANGED retard

Reglementation(r) ==
    /\ \E x \in Regles :
          \/ \E n \in {n1, n2} : CreateReferentielRegle(r, x, n, "A_VERIFIER")
          \/ \E c \in {"VERIFIE", "A_VERIFIER"} : UpdateReferentielRegle(r, x, c)
          \/ \E s \in Statuts : TransitionRegle(r, x, s)
          \/ \E a \in BOOLEAN : SetRegleActivation(r, x, a)
    /\ UNCHANGED retard

(* Bound: the consumer counts the villes of n2 only, the one node that has *)
(* villes where a guard reads the counts.                                  *)
EngineNext ==
    /\ perimetre \in {"arbre", "publication", "revision", "villes", "regles"}
    /\ \/ /\ \E r \in Requetes :
                \/ perimetre = "arbre" /\ Arbre(r)
                \/ perimetre = "publication" /\ Publication(r)
                \/ perimetre = "revision" /\ Revision(r)
                \/ perimetre = "villes" /\ Rattachement(r)
                \/ perimetre = "regles" /\ Reglementation(r)
          /\ ~recouvrement
          /\ UNCHANGED <<tablesEngine, compteur, deplace>>
       \/ \E r \in Requetes :
             saveEngine(r) \/ commitNiveau(r) \/ commitNoeud(r) \/ commitRegle(r) \/ commitVille(r)
       \/ perimetre = "publication" /\ Compter(n2)
    /\ UNCHANGED <<corpusVars, registreVars, orgVars, referentielVars, configuration,
                   catalogueVars, identiteVars>>

Edition(r) ==
    \E c \in Corpus \ {c1} :
        \/ \E f \in {"VERIFIE", "A_VERIFIER"} :
              CreateCorpusVersionne(r, c, f) \/ UpdateCorpusVersionne(r, c, f)
        \/ PublishCorpus(r, c) \/ ArchiveCorpus(r, c)

Arborescence(r) ==
    \E e \in Elements :
        \/ \E p \in Elements \union {Nul} :
              \/ \E c \in Corpus : AttachCorpusElement(r, e, c, n1, p)
              \/ ReattachCorpusElement(r, e, p)
        \/ UpdateCorpusElement(r, e)

CorpusNext ==
    /\ perimetre \in {"corpus", "elements"}
    /\ \/ /\ \E r \in Requetes :
                \/ perimetre = "corpus" /\ Edition(r)
                \/ perimetre = "elements" /\ Arborescence(r)
          /\ ~recouvrement
          /\ UNCHANGED corpusVars
       \/ \E r \in Requetes : saveCorpus(r) \/ commitCorpus(r) \/ commitElement(r)
    /\ UNCHANGED <<engineVars, registreVars, orgVars, referentielVars, configuration,
                   catalogueVars, identiteVars>>

-----------------------------------------------------------------------------
(* The registry of products and the organisations.                         *)
Registre(r) ==
    \E p \in Produits :
        \/ CreateProduitPortefeuille(r, p) \/ UpdateProduitPortefeuille(r, p)
        \/ \E a \in BOOLEAN : SetProduitActivation(r, p, a)
        \/ p # a1 /\ \E t \in Trajectoires : SetDeploiementStatut(r, p, p1, t)

RegistreNext ==
    /\ perimetre \in {"registre", "abonnements"}
    /\ \/ /\ \E r \in Requetes :
                \/ perimetre = "registre" /\ Registre(r)
                \/ perimetre = "abonnements" /\ \E a \in BOOLEAN : SetProduitActivation(r, a1, a)
          /\ ~recouvrement
          /\ UNCHANGED registreVars
       \/ \E r \in Requetes : saveRegistre(r) \/ commitProduit(r) \/ commitDeploiement(r)
    /\ UNCHANGED <<engineVars, corpusVars, orgVars, referentielVars, configuration,
                   catalogueVars, identiteVars>>

Filiation(r) ==
    \E o \in Orgs :
        \/ \E m \in Orgs \union {Nul} : CreateOrganisation(r, o, m) \/ ReattachOrganisation(r, o, m)
        \/ o = o1 /\ (UpdateOrganisation(r, o) \/ UpdateOrganisationReferentiel(r, o))

Equipement(r) ==
    \E u \in Unites :
        \/ CreateUniteOperationnelle(r, u, o1) \/ UpdateUniteOperationnelleReferentiel(r, u)
        \/ \E a \in BOOLEAN :
              SetUniteOperationnelleActivation(r, u, a) \/ SetOrganisationActivation(r, o1, a)

Souscription(r) ==
    \E x \in Abonnements :
        \/ SubscribeToProduit(r, x, o1, a1)
        \/ \E s \in {"actif", "suspendu", "resilie"} : TransitionAbonnement(r, x, s)

OrgNext ==
    /\ perimetre \in {"filiation", "unites", "abonnements", "catalogues", "roles"}
    /\ \/ /\ \E r \in Requetes :
                \/ perimetre = "filiation" /\ Filiation(r)
                \/ perimetre = "unites" /\ Equipement(r)
                \/ perimetre = "abonnements" /\ Souscription(r)
                \/ /\ perimetre \in {"catalogues", "roles"}
                   /\ \E a \in BOOLEAN : SetOrganisationActivation(r, o1, a)
          /\ ~recouvrement
          /\ UNCHANGED orgVars
       \/ \E r \in Requetes :
             saveOrg(r) \/ commitOrganisation(r) \/ commitUnite(r) \/ commitAbonnement(r)
    /\ UNCHANGED <<engineVars, corpusVars, registreVars, referentielVars, configuration,
                   catalogueVars, identiteVars>>

-----------------------------------------------------------------------------
(* referential and app-config.                                             *)
Fiches(r) ==
    \/ perimetre = "pays" /\ \E p \in Pays \ {p1} :
          \/ CreatePays(r, p) \/ UpdatePays(r, p)
          \/ \E s \in StatutsFiche : TransitionPays(r, p, s)
          \/ \E a \in BOOLEAN : SetPaysActivation(r, p, a)
    \/ perimetre = "devises" /\ \E d \in Devises :
          CreateDevise(r, d) \/ \E s \in StatutsFiche : TransitionDevise(r, d, s)
    \/ perimetre = "langues" /\ \E l \in Langues :
          CreateLangue(r, l) \/ \E s \in StatutsFiche : TransitionLangue(r, l, s)
    \/ perimetre \in {"blocs", "adhesions"} /\ \E b \in Blocs :
          CreateBlocRegional(r, b) \/ \E s \in StatutsFiche : TransitionBlocRegional(r, b, s)
    \/ perimetre = "grilles" /\ \E d \in Devises, s \in StatutsFiche : TransitionDevise(r, d, s)

Liaisons(r) ==
    \E x \in Relations :
        \/ /\ perimetre = "langues"
           /\ \E s \in {"officielle", "vehiculaire"}, l \in Langues : AttachLangueToPays(r, x, p1, l, s)
        \/ perimetre = "adhesions" /\ \E b \in Blocs : AddPaysToBlocRegional(r, x, p1, b)
        \/ perimetre = "adhesions" /\ \E d \in Dates : WithdrawPaysFromBlocRegional(r, x, d)
        \/ /\ perimetre = "taux"
           /\ \E d \in Dates, f \in Dates \union {Nul} : SetTauxChange(r, x, d1, d2, d, f)

Circulation(r) ==
    /\ perimetre = "circulations"
    /\ \E x \in Relations, v \in {d1, d2}, d \in Dates, f \in Dates \union {Nul}, b \in BOOLEAN :
          AttachDeviseToPays(r, x, p1, v, d, f, b)

Traduction(r) ==
    \/ perimetre = "locales" /\ \E x \in Locales :
          \/ CreateLocale(r, x) \/ UpdateLocale(r, x) \/ SetLocaleParDefaut(r, x)
          \/ \E a \in BOOLEAN : SetLocaleActivation(r, x, a)
    \/ perimetre = "traductions" /\ \E x \in Locales, c \in Cles :
          CreateLocale(r, x) \/ CreateTraduction(r, x, c) \/ UpdateTraduction(r, x, c)

ReferentielNext ==
    /\ perimetre \in {"pays", "devises", "langues", "blocs", "adhesions", "taux", "circulations",
                    "locales", "traductions", "grilles"}
    /\ \/ /\ \E r \in Requetes :
                \/ (Fiches(r) \/ Liaisons(r) \/ Traduction(r)) /\ UNCHANGED desordre
                \/ Circulation(r)
          /\ ~recouvrement
          /\ UNCHANGED <<fiches, relationVars, locales, traductions>>
       \/ \E r \in Requetes :
             \/ saveReferentiel(r) \/ commitFiche(r) \/ commitRelation(r)
             \/ commitLocale(r) \/ commitTraduction(r)
    /\ UNCHANGED <<engineVars, corpusVars, registreVars, orgVars, configuration,
                   catalogueVars, identiteVars>>

Reglage(r) ==
    \/ \E d \in Devises \union {Nul} : UpdateConfigurationGlobale(r, [x \in {"devise"} |-> d])
    \/ \E l \in Langues \union {Nul} : UpdateConfigurationGlobale(r, [x \in {"langue"} |-> l])

ConfigNext ==
    /\ perimetre = "configuration"
    /\ \/ /\ ~recouvrement
          /\ \E r \in Requetes : Reglage(r)
          /\ UNCHANGED configuration
       \/ \E r \in Requetes : saveConfiguration(r) \/ commitConfiguration(r)
    /\ UNCHANGED <<engineVars, corpusVars, registreVars, orgVars, referentielVars,
                   catalogueVars, identiteVars>>

-----------------------------------------------------------------------------
(* The catalogue.                                                          *)
Diffusion(r) ==
    \E c \in Catalogues \ {k1} :
        \/ \E m \in {o1, Nul} : CreateCatalogue(r, c, a1, m)
        \/ UpdateCatalogue(r, c)
        \/ \E s \in StatutsCatalogue : TransitionCatalogueWorkflow(r, c, s)

Assortiment(r) ==
    \E x \in Articles \ {z1} :
        \/ CreateProduit(r, x, k1) \/ UpdateProduit(r, x)
        \/ \E s \in StatutsCatalogue : TransitionProduit(r, x, s)

Offre(r) ==
    \E o \in Offres \ {f1} :
        \/ \E b \in BOOLEAN, u \in BOOLEAN : CreateOffre(r, o, z1, b, u)
        \/ UpdateOffre(r, o)
        \/ \E s \in StatutsCatalogue : TransitionOffre(r, o, s)

Droits(r) == \E f \in Features : CreateFeature(r, f) \/ AttachEntitlementToOffre(r, f1, f)

Tarif(r) ==
    \E g \in Grilles :
        \/ \E debut \in Dates, fin \in Dates \union {Nul} :
              CreateGrilleTarifaire(r, g, f1, d2, debut, fin)
        \/ \E s \in StatutsCatalogue : TransitionGrille(r, g, s)

CatalogueNext ==
    /\ perimetre \in {"catalogues", "articles", "offres", "droits", "grilles"}
    /\ \/ /\ \E r \in Requetes :
                \/ perimetre = "catalogues" /\ Diffusion(r)
                \/ perimetre = "articles" /\ Assortiment(r)
                \/ perimetre = "offres" /\ Offre(r)
                \/ perimetre = "droits" /\ Droits(r)
                \/ perimetre = "grilles" /\ Tarif(r)
          /\ ~recouvrement
          /\ UNCHANGED catalogueVars
       \/ \E r \in Requetes :
             \/ saveCatalogue(r) \/ commitCatalogue(r) \/ commitArticle(r)
             \/ commitOffre(r) \/ commitFeature(r) \/ commitGrille(r)
    /\ UNCHANGED <<engineVars, corpusVars, registreVars, orgVars, referentielVars, configuration,
                   identiteVars>>

-----------------------------------------------------------------------------
(* identity.                                                               *)
Inscription(r) ==
    \E g \in Comptes :
        \/ \E t \in Telephones \union {Nul} : RegisterUser(r, g, m2, t)
        \/ \E x \in Identites :
              \/ \E e \in {m2, Nul}, t \in Telephones : ExchangeSupabaseSession(r, x, g, e, t)
              \/ LinkExternalIdentity(r, x, g1)

IdentiteNext ==
    /\ perimetre \in {"comptes", "roles"}
    /\ \/ /\ \E r \in Requetes :
                \/ perimetre = "comptes" /\ Inscription(r)
                \/ /\ perimetre = "roles"
                   /\ \E a \in Affectations, x \in Roles, o \in {o1, Nul} : AssignRole(r, a, g1, x, o)
          /\ ~recouvrement
          /\ UNCHANGED identiteVars
       \/ \E r \in Requetes : saveIdentite(r) \/ commitCompte(r) \/ commitAffectation(r)
    /\ UNCHANGED <<engineVars, corpusVars, registreVars, orgVars, referentielVars, configuration,
                   catalogueVars>>

-----------------------------------------------------------------------------
Refus == (\E r \in Requetes : rollback(r)) /\ UNCHANGED metierVars

Metier ==
    \/ EngineNext \/ CorpusNext \/ RegistreNext \/ OrgNext \/ ReferentielNext
    \/ ConfigNext \/ CatalogueNext \/ IdentiteNext \/ Refus

Next ==
    /\ \/ perimetre # "clefs" /\ Metier /\ UNCHANGED jwksVars
       \/ perimetre = "clefs" /\ JwksNext /\ UNCHANGED <<uniteVars, metierVars>>
    /\ UNCHANGED perimetre

Spec == Init /\ [][Next]_vars

-----------------------------------------------------------------------------
(* What has a workflow: the objects are the rows of nine tables.           *)
ObjetsNoyau ==
    ({"noeud"} \X Noeuds) \union ({"regle"} \X Regles) \union ({"corpus"} \X Corpus)
        \union ({"fiche"} \X CodesFiches) \union ({"abonnement"} \X Abonnements)
        \union ({"catalogue"} \X Catalogues) \union ({"article"} \X Articles)
        \union ({"offre"} \X Offres) \union ({"grille"} \X Grilles)

Lignes(t) ==
    CASE t = "noeud" -> noeuds [] t = "regle" -> regles [] t = "corpus" -> corpus
      [] t = "fiche" -> fiches [] t = "abonnement" -> abonnements
      [] t = "catalogue" -> catalogues [] t = "article" -> articles
      [] t = "offre" -> offres [] t = "grille" -> grilles

EtatsNoyau == [o \in ObjetsNoyau |-> {l.statut : l \in Lignes(o[1])[o[2]]}]

EditorialNoyau ==
    {<<"brouillon", "en_revision">>, <<"en_revision", "brouillon">>, <<"en_revision", "valide">>,
     <<"valide", "en_revision">>, <<"valide", "publie">>}

CatalogueNoyau ==
    {<<"brouillon", "valide">>, <<"valide", "brouillon">>, <<"valide", "publie">>, <<"publie", "archive">>}

FlechesNoyau(o) ==
    CASE o[1] \in {"noeud", "regle", "fiche"} -> EditorialNoyau
      [] o[1] = "corpus" -> {<<"brouillon", "publie">>, <<"publie", "archive">>}
      [] o[1] = "abonnement" -> {<<"actif", "suspendu">>, <<"suspendu", "actif">>,
                                 <<"actif", "resilie">>, <<"suspendu", "resilie">>}
      [] OTHER -> CatalogueNoyau

InitialNoyau(o) == IF o[1] = "abonnement" THEN "actif" ELSE "brouillon"

NotoireNoyau(o, s) == o[1] = "abonnement" \/ s \in {"publie", "archive"}

Annonces ==
    {"ADMINISTRATIVE_NODE_PUBLISHED", "REFERENTIEL_REGLE_PUBLISHED",
     "CORPUS_VERSIONNE_PUBLISHED", "CORPUS_VERSIONNE_ARCHIVED",
     "PAYS_PUBLISHED", "DEVISE_PUBLISHED", "LANGUE_PUBLISHED", "BLOC_REGIONAL_PUBLISHED",
     "CATALOGUE_PUBLISHED", "CATALOGUE_ARCHIVED", "PRODUCT_PUBLISHED", "PRODUCT_ARCHIVED",
     "OFFER_PUBLISHED", "OFFER_ARCHIVED", "PRICING_GRID_PUBLISHED", "PRICING_GRID_ARCHIVED",
     "ABONNEMENT_SUSPENDED", "ABONNEMENT_REACTIVATED", "ABONNEMENT_RESILIATED"}

(* null is no type of event.                                               *)
ASSUME AnnoncesAssumption == Nul \notin Annonces

Cycle ==
    INSTANCE CycleDeVie
        WITH Objets <- ObjetsNoyau, Initial <- InitialNoyau, Fleches <- FlechesNoyau,
             Notoire <- NotoireNoyau, etats <- EtatsNoyau,
             annonce <- {<<x[2], x[3]>> : x \in {y \in emission : y[1] \in Annonces}},
             perturbe <- recouvrement

(* All the contexts implement the abstract life cycle: whatever goes       *)
(* through a workflow moves along its arrows, one object per request, and  *)
(* what the other products must know of is announced, no more and no less, *)
(* as long as no request has overlapped another.                           *)
ImplementsCycle == Cycle!Spec
=============================================================================
