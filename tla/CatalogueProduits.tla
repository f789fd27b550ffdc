--------------------------- MODULE CatalogueProduits ---------------------------
(***************************************************************************)
(* GSG Product Catalog: the catalogues, each of a product of the registry  *)
(* and with a scope, their products, offers, features and entitlements,    *)
(* and the versioned tariff grids of an offer, in certified currencies.    *)
(***************************************************************************)
EXTENDS Referentiels, Organisations

CONSTANTS
    Catalogues, Articles, Offres, Features,
    Grilles

(* The versions of grids are at most as many as the grids.                 *)
ASSUME CatalogueAssumption == IsFiniteSet(Grilles)

VARIABLES catalogues, articles, offres, features, droits, grilles

catalogueVars == <<catalogues, articles, offres, features, droits, grilles>>

StatutsCatalogue == {"brouillon", "valide", "publie", "archive"}

(* cible is the organisation of the scope, Nul for a global or zone scope. *)
CatalogueRow == [produit : Produits, cible : Orgs \union {Nul}, statut : StatutsCatalogue]
ArticleRow == [catalogue : Catalogues, statut : StatutsCatalogue]
OffreRow == [article : Articles, ponctuelle : BOOLEAN, statut : StatutsCatalogue]
FeatureRow == [actif : BOOLEAN]

GrilleRow ==
    [offre : Offres, devise : Devises, version : 1..(Cardinality(Grilles) + 1),
     debut : Dates, fin : Dates \union {Nul}, statut : StatutsCatalogue]

CatalogueTypeOK ==
    /\ \A c \in Catalogues : catalogues[c] \subseteq CatalogueRow
    /\ \A x \in Articles : articles[x] \subseteq ArticleRow
    /\ \A o \in Offres : offres[o] \subseteq OffreRow
    /\ \A f \in Features : features[f] \subseteq FeatureRow
    /\ \A k \in Offres \X Features : droits[k] \subseteq {[limite |-> Nul]}
    /\ \A g \in Grilles : grilles[g] \subseteq GrilleRow

-----------------------------------------------------------------------------
TransitionsCatalogue ==
    [brouillon |-> {"valide"}, valide |-> {"publie", "brouillon"}, publie |-> {"archive"}, archive |-> {}]

assertCatalogTransitionAllowed(de, vers) == vers \in TransitionsCatalogue[de]

(* Mutant: an archival is silent too.                                      *)
AnnonceSansArchivage(s, publication, archivage) == IF s = "publie" THEN publication ELSE Nul

(* validate and rejectToDraft are silent, publish and archive are not.     *)
Annonce(s, publication, archivage) ==
    IF s = "publie" THEN publication ELSE IF s = "archive" THEN archivage ELSE Nul

TransitionCatalog(r, t, lignes, i, s, type) ==
    \E l \in lignes[i] :
        /\ assertCatalogTransitionAllowed(l.statut, s)
        /\ Traiter(r, t, lignes, i, [l EXCEPT !.statut = s], type)

(* CatalogueScope: a scope on an organisation needs it active.             *)
buildAndValidateScope(m) == m # Nul => organisationActive(m)

CreateCatalogue(r, c, p, m) ==
    /\ Neuf("catalogue", catalogues, c)
    /\ existsAndActive(p)
    /\ buildAndValidateScope(m)
    /\ Traiter(r, "catalogue", catalogues, c, [produit |-> p, cible |-> m, statut |-> "brouillon"],
               "CATALOGUE_CREATED")

UpdateCatalogue(r, c) == \E l \in catalogues[c] : Traiter(r, "catalogue", catalogues, c, l, Nul)

TransitionCatalogueWorkflow(r, c, s) ==
    TransitionCatalog(r, "catalogue", catalogues, c, s, Annonce(s, "CATALOGUE_PUBLISHED", "CATALOGUE_ARCHIVED"))

(* Whether organisation o may use catalogue c.                             *)
assertOrganisationCanAccess(o, c) ==
    \E l \in catalogues[c] : l.cible = Nul \/ isDescendantOf(l.cible, o)

-----------------------------------------------------------------------------
(* Products of a catalogue and their offers, whose id stands for the       *)
(* unique pair of the parent and the code.                                 *)
CreateProduit(r, x, c) ==
    /\ articles[x] = {} /\ catalogues[c] # {}
    /\ Traiter(r, "article", articles, x, [catalogue |-> c, statut |-> "brouillon"], "PRODUCT_CREATED")

UpdateProduit(r, x) == \E l \in articles[x] : Traiter(r, "article", articles, x, l, Nul)

TransitionProduit(r, x, s) ==
    TransitionCatalog(r, "article", articles, x, s, Annonce(s, "PRODUCT_PUBLISHED", "PRODUCT_ARCHIVED"))

(* The period "unique" is that of one-off offers and of no other.          *)
assertBillingPeriodCompatible(ponctuelle, unique) == ponctuelle = unique

CreateOffre(r, o, x, ponctuelle, unique) ==
    /\ offres[o] = {} /\ articles[x] # {}
    /\ assertBillingPeriodCompatible(ponctuelle, unique)
    /\ Traiter(r, "offre", offres, o, [article |-> x, ponctuelle |-> ponctuelle, statut |-> "brouillon"],
               "OFFER_CREATED")

UpdateOffre(r, o) == \E l \in offres[o] : Traiter(r, "offre", offres, o, l, Nul)

TransitionOffre(r, o, s) ==
    TransitionCatalog(r, "offre", offres, o, s, Annonce(s, "OFFER_PUBLISHED", "OFFER_ARCHIVED"))

CreateFeature(r, f) ==
    features[f] = {} /\ Traiter(r, "feature", features, f, [actif |-> TRUE], "FEATURE_CREATED")

AttachEntitlementToOffre(r, o, f) ==
    /\ offres[o] # {} /\ features[f] # {}
    /\ droits[<<o, f>>] = {}
    /\ Traiter(r, "droit", droits, <<o, f>>, [limite |-> Nul], "ENTITLEMENT_ATTACHED")

-----------------------------------------------------------------------------
(* Tariff grids: windows [debut, fin), without an end when fin is Nul.     *)
GrillesDe(o) == {g \in Grilles : \E l \in grilles[g] : l.offre = o}

Versions(o) == {l.version : l \in UNION {grilles[g] : g \in GrillesDe(o)}}

findLatestVersion(o) == IF Versions(o) = {} THEN 0 ELSE CHOOSE v \in Versions(o) : \A w \in Versions(o) : w <= v

findPublieesByOffreEtDevise(o, d) ==
    {g \in GrillesDe(o) : \E l \in grilles[g] : l.devise = d /\ l.statut = "publie"}

isEffectiveAt(l, d) == l.debut <= d /\ (l.fin = Nul \/ d < l.fin)

(* Mutant: windows overlap only if one begins inside the other, strictly.  *)
rangesOverlapStrict(a, b) ==
    /\ b.fin = Nul \/ a.debut < b.fin
    /\ a.fin = Nul \/ b.debut < a.fin
    /\ a.debut # b.debut

rangesOverlap(a, b) ==
    /\ b.fin = Nul \/ a.debut < b.fin
    /\ a.fin = Nul \/ b.debut < a.fin

assertNoOverlapWithExisting(i, l) ==
    \A g \in findPublieesByOffreEtDevise(l.offre, l.devise) \ {i} : \A m \in grilles[g] : ~rangesOverlap(l, m)

CreateGrilleTarifaire(r, g, o, d, debut, fin) ==
    LET l == [offre |-> o, devise |-> d, version |-> findLatestVersion(o) + 1,
              debut |-> debut, fin |-> fin, statut |-> "brouillon"]
    IN  /\ Neuf("grille", grilles, g)
        /\ offres[o] # {} /\ isCertified(d)
        /\ fin # Nul => fin > debut
        /\ assertNoOverlapWithExisting(g, l)
        /\ Traiter(r, "grille", grilles, g, l, "PRICING_GRID_CREATED")

(* The absence of overlap is checked again by a publication.               *)
TransitionGrille(r, g, s) ==
    /\ s = "publie" => \A l \in grilles[g] : assertNoOverlapWithExisting(g, l)
    /\ TransitionCatalog(r, "grille", grilles, g, s, Annonce(s, "PRICING_GRID_PUBLISHED", "PRICING_GRID_ARCHIVED"))

(* The grids that may give the price at date d: the first one found.       *)
resolveActivePrice(o, devise, d) ==
    {g \in findPublieesByOffreEtDevise(o, devise) : \E l \in grilles[g] : isEffectiveAt(l, d)}

-----------------------------------------------------------------------------
saveCatalogue(r) ==
    /\ \/ save(r, "catalogue", catalogues)
       \/ save(r, "article", articles)
       \/ save(r, "offre", offres)
       \/ save(r, "feature", features)
       \/ save(r, "droit", droits)
       \/ save(r, "grille", grilles)
    /\ UNCHANGED catalogueVars

commitCatalogue(r) ==
    /\ Valider(r, "catalogue", catalogues)
    /\ catalogues' = ApresTout(r, catalogues)
    /\ UNCHANGED <<articles, offres, features, droits, grilles>>

commitArticle(r) ==
    /\ Valider(r, "article", articles)
    /\ articles' = ApresTout(r, articles)
    /\ UNCHANGED <<catalogues, offres, features, droits, grilles>>

commitOffre(r) ==
    /\ Valider(r, "offre", offres)
    /\ offres' = ApresTout(r, offres)
    /\ UNCHANGED <<catalogues, articles, features, droits, grilles>>

commitFeature(r) ==
    /\ \/ /\ Valider(r, "feature", features)
          /\ features' = ApresTout(r, features)
          /\ UNCHANGED droits
       \/ /\ Valider(r, "droit", droits)
          /\ droits' = ApresTout(r, droits)
          /\ UNCHANGED features
    /\ UNCHANGED <<catalogues, articles, offres, grilles>>

(* UQ_grille_tarifaire_version: one grid per offer and version.            *)
commitGrille(r) ==
    /\ Valider(r, "grille", grilles)
    /\ \A q \in requete[r] : q.insertion => q.ligne.version \notin Versions(q.ligne.offre)
    /\ grilles' = ApresTout(r, grilles)
    /\ UNCHANGED <<catalogues, articles, offres, features, droits>>

-----------------------------------------------------------------------------
(* KER-PRD: an offer has at most one price in a currency at any date, and  *)
(* no grid is in a currency that is not certified, unless requests         *)
(* overlapped: the check and the publication are not serialised, and an    *)
(* old copy of a currency takes it back from 'publie'.  The versions of an *)
(* offer run from 1 without a gap or a double whatever overlaps.           *)
PrixUnique ==
    /\ \A o \in Offres : Versions(o) = 1..Cardinality(GrillesDe(o))
    /\ ~recouvrement =>
          /\ \A o \in Offres, v \in Devises, d \in Dates : Cardinality(resolveActivePrice(o, v, d)) <= 1
          /\ \A g \in Grilles : \A l \in grilles[g] : isCertified(l.devise)
=============================================================================
