----------------------------- MODULE Organisations -----------------------------
(***************************************************************************)
(* Org Registry: the organisations and their tree of subsidiaries, their   *)
(* operational units, and their subscriptions to the products of the       *)
(* registry.                                                               *)
(***************************************************************************)
EXTENDS ProduitsPortefeuille

CONSTANTS Orgs, Unites, Abonnements

ASSUME OrgAssumption == Nul \notin Orgs /\ IsFiniteSet(Orgs)

VARIABLES organisations, unites, abonnements

orgVars == <<organisations, unites, abonnements>>

OrganisationRow == [mere : Orgs \union {Nul}, actif : BOOLEAN]
UniteRow == [organisation : Orgs, actif : BOOLEAN]
AbonnementRow ==
    [organisation : Orgs, produit : Produits, statut : {"actif", "suspendu", "resilie"}]

OrgTypeOK ==
    /\ \A o \in Orgs : organisations[o] \subseteq OrganisationRow
    /\ \A u \in Unites : unites[u] \subseteq UniteRow
    /\ \A a \in Abonnements : abonnements[a] \subseteq AbonnementRow

-----------------------------------------------------------------------------
(* The queries of the repositories and of the lookup adapters.             *)
Meres == [o \in Orgs |-> {l.mere : l \in organisations[o]} \ {Nul}]

(* Mutant: the parent is compared, not the ancestors above it.             *)
filleDirecte(candidat, o) == candidat \in Meres[o] \union {o}

isDescendantOf(candidat, o) == candidat \in Lignee(Meres, o)

organisationActive(o) == \E l \in organisations[o] : l.actif

(* The unit, if one is given, belongs to the organisation.                 *)
referentielDeUnite(u, o) == \E l \in unites[u] : l.organisation = o

(* findOne without an order: any row of the pair.                          *)
findByOrganisationAndProduit(o, p) ==
    {a \in Abonnements : \E l \in abonnements[a] : l.organisation = o /\ l.produit = p}

-----------------------------------------------------------------------------
(* The organisations.                                                      *)
CreateOrganisation(r, o, m) ==
    /\ Neuf("organisation", organisations, o)
    /\ m # Nul => organisations[m] # {}
    /\ m # o
    /\ Traiter(r, "organisation", organisations, o, [mere |-> m, actif |-> TRUE],
               "ORGANISATION_CREATED")

(* The name is data: the copy is the row as it was read.                   *)
UpdateOrganisation(r, o) ==
    \E l \in organisations[o] : Traiter(r, "organisation", organisations, o, l, Nul)

UpdateOrganisationReferentiel(r, o) ==
    \E l \in organisations[o] :
        Traiter(r, "organisation", organisations, o, l, "ORGANISATION_REFERENTIEL_UPDATED")

ReattachOrganisation(r, o, m) ==
    /\ m # Nul => organisations[m] # {} /\ ~isDescendantOf(o, m)
    /\ m # o
    /\ \E l \in organisations[o] :
          Traiter(r, "organisation", organisations, o, [l EXCEPT !.mere = m],
                  "ORGANISATION_REATTACHED")

SetOrganisationActivation(r, o, a) ==
    \E l \in organisations[o] :
        Traiter(r, "organisation", organisations, o, [l EXCEPT !.actif = a],
                IF a THEN Nul ELSE "ORGANISATION_DEACTIVATED")

-----------------------------------------------------------------------------
(* The operational units.                                                  *)
CreateUniteOperationnelle(r, u, o) ==
    /\ Neuf("unite", unites, u)
    /\ organisations[o] # {}
    /\ Traiter(r, "unite", unites, u, [organisation |-> o, actif |-> TRUE],
               "UNITE_OPERATIONNELLE_CREATED")

UpdateUniteOperationnelleReferentiel(r, u) ==
    \E l \in unites[u] : Traiter(r, "unite", unites, u, l, Nul)

SetUniteOperationnelleActivation(r, u, a) ==
    \E l \in unites[u] : Traiter(r, "unite", unites, u, [l EXCEPT !.actif = a], Nul)

-----------------------------------------------------------------------------
(* The subscriptions.  The use-case sees one subscription of the pair.     *)
(* Mutant: a terminated subscription is not asked for.                     *)
SubscribeSansResiliation(r, a, o, p) ==
    /\ Neuf("abonnement", abonnements, a)
    /\ organisations[o] # {}
    /\ existsAndActive(p)
    /\ Traiter(r, "abonnement", abonnements, a,
               [organisation |-> o, produit |-> p, statut |-> "actif"], "ABONNEMENT_CREATED")

SubscribeToProduit(r, a, o, p) ==
    /\ Neuf("abonnement", abonnements, a)
    /\ organisations[o] # {}
    /\ existsAndActive(p)
    /\ \/ findByOrganisationAndProduit(o, p) = {}
       \/ \E b \in findByOrganisationAndProduit(o, p) :
             \E l \in abonnements[b] : l.statut = "resilie"
    /\ Traiter(r, "abonnement", abonnements, a,
               [organisation |-> o, produit |-> p, statut |-> "actif"], "ABONNEMENT_CREATED")

AbonnementTransitions ==
    [suspendu |-> {"actif"}, actif |-> {"suspendu"}, resilie |-> {"actif", "suspendu"}]

AbonnementEvenement ==
    [suspendu |-> "ABONNEMENT_SUSPENDED", actif |-> "ABONNEMENT_REACTIVATED",
     resilie |-> "ABONNEMENT_RESILIATED"]

(* suspend, reactivate and resiliate, each from the states it accepts.     *)
TransitionAbonnement(r, a, s) ==
    \E l \in abonnements[a] :
        /\ l.statut \in AbonnementTransitions[s]
        /\ Traiter(r, "abonnement", abonnements, a, [l EXCEPT !.statut = s],
                   AbonnementEvenement[s])

-----------------------------------------------------------------------------
saveOrg(r) ==
    /\ \/ save(r, "organisation", organisations)
       \/ save(r, "unite", unites)
       \/ save(r, "abonnement", abonnements)
    /\ UNCHANGED orgVars

commitOrganisation(r) ==
    /\ Valider(r, "organisation", organisations)
    /\ organisations' = ApresTout(r, organisations)
    /\ UNCHANGED <<unites, abonnements>>

commitUnite(r) ==
    /\ Valider(r, "unite", unites)
    /\ unites' = ApresTout(r, unites)
    /\ UNCHANGED <<organisations, abonnements>>

commitAbonnement(r) ==
    /\ Valider(r, "abonnement", abonnements)
    /\ abonnements' = ApresTout(r, abonnements)
    /\ UNCHANGED <<organisations, unites>>

-----------------------------------------------------------------------------
(* No organisation is its own subsidiary, however deep, unless requests    *)
(* overlapped: the search for a cycle and the save are not serialised, and *)
(* a rename with an old copy puts an old parent back.                      *)
FiliationSansCycle == ~recouvrement => SansBoucle(Meres)

(* One living subscription per organisation and product, as long as no     *)
(* request overlapped and none of the pair has been terminated: findOne    *)
(* may then return the terminated row and hide the living one.             *)
Vivants(o, p) ==
    {a \in findByOrganisationAndProduit(o, p) : \A l \in abonnements[a] : l.statut # "resilie"}

AbonnementUnique ==
    ~recouvrement =>
        \A o \in Orgs, p \in Produits :
            \/ Cardinality(Vivants(o, p)) <= 1
            \/ Vivants(o, p) # findByOrganisationAndProduit(o, p)
=============================================================================
