------------------------- MODULE ProduitsPortefeuille -------------------------
(***************************************************************************)
(* The central registry of products: the products, each under its unique   *)
(* code, and their deployment country by country, one row per product and  *)
(* country that every change of status overwrites.                         *)
(***************************************************************************)
EXTENDS UniteDeTravail

CONSTANTS
    Produits,
    Trajectoires    \* the deployment statuses, each with its phase

VARIABLES produits, deploiements

registreVars == <<produits, deploiements>>

ProduitRow == [actif : BOOLEAN]
DeploiementRow == [statut : Trajectoires]

RegistreTypeOK ==
    /\ \A p \in Produits : produits[p] \subseteq ProduitRow
    /\ \A k \in Produits \X Pays : deploiements[k] \subseteq DeploiementRow

-----------------------------------------------------------------------------
existsByCode(p) == produits[p] # {}
findByProduitAndPays(p, y) == deploiements[<<p, y>>]

(* ProductLookupAdapter, the port through which org consults the registry. *)
existsAndActive(p) == \E l \in produits[p] : l.actif

CreateProduitPortefeuille(r, p) ==
    /\ ~existsByCode(p)
    /\ Traiter(r, "produit", produits, p, [actif |-> TRUE], "PRODUIT_PORTEFEUILLE_CREATED")

(* updateDetails and declareBriquesConsommees: data only.                  *)
UpdateProduitPortefeuille(r, p) ==
    \E l \in produits[p] : Traiter(r, "produit", produits, p, l, Nul)

SetProduitActivation(r, p, a) ==
    \E l \in produits[p] :
        Traiter(r, "produit", produits, p, [l EXCEPT !.actif = a],
                IF a THEN Nul ELSE "PRODUIT_PORTEFEUILLE_DEACTIVATED")

changerStatut(l, t) == [l EXCEPT !.statut = t]

SetDeploiementStatut(r, p, y, t) ==
    /\ produits[p] # {}
    /\ \E l \in IF findByProduitAndPays(p, y) = {}
                THEN {[statut |-> t]}
                ELSE {changerStatut(x, t) : x \in findByProduitAndPays(p, y)} :
          Traiter(r, "deploiement", deploiements, <<p, y>>, l, "PRODUIT_PAYS_DEPLOIEMENT_CHANGED")

-----------------------------------------------------------------------------
saveRegistre(r) ==
    /\ save(r, "produit", produits) \/ save(r, "deploiement", deploiements)
    /\ UNCHANGED registreVars

(* UQ_produit_portefeuille_code and UQ_produit_pays_deploiement are the    *)
(* keys of the tables: a second insert under one key is refused.           *)
commitProduit(r) ==
    /\ Valider(r, "produit", produits)
    /\ produits' = ApresTout(r, produits)
    /\ UNCHANGED deploiements

commitDeploiement(r) ==
    /\ Valider(r, "deploiement", deploiements)
    /\ deploiements' = ApresTout(r, deploiements)
    /\ UNCHANGED produits

=============================================================================
