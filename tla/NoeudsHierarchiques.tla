-------------------------- MODULE NoeudsHierarchiques --------------------------
(***************************************************************************)
(* The administrative hierarchy of referential-engine: the named levels of *)
(* each country, the nodes with their parent and their materialized path   *)
(* (chemin), the publication workflow, the rules attached to terminal      *)
(* nodes, and the villes of referential that refer to published nodes,     *)
(* known here by a local counter that follows with a delay (VilleCounter). *)
(***************************************************************************)
EXTENDS UniteDeTravail

CONSTANTS
    Noeuds, Regles, Villes,
    MaxChemin,      \* ids that fit in the column chemin, varchar(2000)
    MaxCompte       \* bound: villes counted in on one node

ASSUME NoeudAssumption ==
    /\ Nul \notin Noeuds /\ Nul \notin Pays /\ MaxChemin \in Nat \ {0}
    /\ IsFiniteSet(Noeuds) /\ IsFiniteSet(Villes)

VARIABLES
    niveaux,        \* <<pays, rang>> |-> the level's row
    noeuds, regles, villes,
    compteur,       \* node |-> compteur_villes_rattachees.nombre_villes
    retard,         \* a move or a deactivation has read a count out of date
    deplace         \* what has been moved: "rien", "feuilles" or "branches"

tablesEngine == <<niveaux, noeuds, regles, villes>>
engineVars == <<tablesEngine, compteur, retard, deplace>>

Statuts == {"brouillon", "en_revision", "valide", "publie"}

NoeudRow ==
    [pays : Pays, parent : Noeuds \union {Nul}, chemin : Seq(Noeuds), rang : Nat,
     terminal : BOOLEAN, actif : BOOLEAN, statut : Statuts]

RegleRow ==
    [noeud : Noeuds, confiance : {"VERIFIE", "A_VERIFIER"}, actif : BOOLEAN, statut : Statuts]

NiveauRow == [actif : BOOLEAN]
VilleRow == [noeud : Noeuds \union {Nul}, actif : BOOLEAN]

EngineTypeOK ==
    /\ \A k \in Pays \X (1..(MaxChemin + 1)) : niveaux[k] \subseteq NiveauRow
    /\ \A n \in Noeuds : noeuds[n] \subseteq NoeudRow
    /\ \A x \in Regles : regles[x] \subseteq RegleRow
    /\ \A v \in Villes : villes[v] \subseteq VilleRow
    /\ compteur \in [Noeuds -> Nat]
    /\ retard \in BOOLEAN /\ deplace \in {"rien", "feuilles", "branches"}

-----------------------------------------------------------------------------
(* The queries of the repositories.                                        *)
findByPaysAndRang(p, k) == niveaux[<<p, k>>]
findChildren(n) == {m \in Noeuds : \E l \in noeuds[m] : l.parent = n}

Prefixe(s, t) == Len(s) <= Len(t) /\ SubSeq(t, 1, Len(s)) = s

findDescendants(chemin) ==
    {m \in Noeuds : \E l \in noeuds[m] : Prefixe(chemin, l.chemin) /\ l.chemin # chemin}

getCompte(n) == compteur[n]

existsAndPublished(n) == \E l \in noeuds[n] : l.actif /\ l.statut = "publie"

(* Only verified rules leave the engine: RegleLookupAdapter.               *)
findPublieesEtVerifieesByNoeud(n) ==
    {x \in Regles : \E l \in regles[x] :
        l.noeud = n /\ l.statut = "publie" /\ l.actif /\ l.confiance # "A_VERIFIER"}

Attachees(n) == Cardinality({v \in Villes : \E l \in villes[v] : l.noeud = n})

-----------------------------------------------------------------------------
(* The domain entity.                                                      *)
createRoot(n, p, t) ==
    [pays |-> p, parent |-> Nul, chemin |-> <<n>>, rang |-> 1,
     terminal |-> t, actif |-> TRUE, statut |-> "brouillon"]

createChild(n, m, parent, t) ==
    [pays |-> parent.pays, parent |-> m, chemin |-> Append(parent.chemin, n),
     rang |-> parent.rang + 1, terminal |-> t, actif |-> TRUE, statut |-> "brouillon"]

AllowedTransitions ==
    [brouillon |-> {"en_revision"}, en_revision |-> {"valide", "brouillon"},
     valide |-> {"publie", "en_revision"}, publie |-> {}]

assertEngineTransitionAllowed(de, vers) == vers \in AllowedTransitions[de]

(* Mutant: a descendant is not recognised, only the node itself.           *)
memeNoeudSeulement(cheminNoeud, cheminCandidat) == cheminCandidat = cheminNoeud

wouldCreateCycle(cheminNoeud, cheminCandidat) == Prefixe(cheminNoeud, cheminCandidat)

assertNoPublishedChildren(enfants) ==
    ~\E m \in enfants : \E l \in noeuds[m] : l.statut = "publie" /\ l.actif

reattachToRoot(n, l) == [l EXCEPT !.parent = Nul, !.chemin = <<n>>, !.rang = 1]

reattachToParent(n, l, m, p) ==
    [l EXCEPT !.parent = m, !.chemin = Append(p.chemin, n), !.rang = p.rang + 1]

-----------------------------------------------------------------------------
(* The use-cases of the levels and of the nodes.                           *)
CreateNiveau(r, p, k) ==
    /\ findByPaysAndRang(p, k) = {}
    /\ Traiter(r, "niveau", niveaux, <<p, k>>, [actif |-> TRUE], "NIVEAU_ADMINISTRATIF_CREATED")

assertNiveauDefini(p, k) == findByPaysAndRang(p, k) # {}

CreateNoeudRacine(r, n, p, t) ==
    /\ Neuf("noeud", noeuds, n)
    /\ assertNiveauDefini(p, 1)
    /\ Traiter(r, "noeud", noeuds, n, createRoot(n, p, t), "ADMINISTRATIVE_HIERARCHY_NODE_CREATED")

CreateNoeudEnfant(r, n, m, t) ==
    /\ Neuf("noeud", noeuds, n)
    /\ \E p \in noeuds[m] :
          /\ assertNiveauDefini(p.pays, p.rang + 1)
          /\ Traiter(r, "noeud", noeuds, n, createChild(n, m, p, t),
                     "ADMINISTRATIVE_HIERARCHY_NODE_CREATED")

(* The label and the order are data: the copy is the row as it was read.   *)
UpdateNoeud(r, n) ==
    \E l \in noeuds[n] : Traiter(r, "noeud", noeuds, n, l, Nul)

(* submitForReview, validate, rejectToDraft and publish.                   *)
TransitionNoeud(r, n, s) ==
    \E l \in noeuds[n] :
        /\ assertEngineTransitionAllowed(l.statut, s)
        /\ Traiter(r, "noeud", noeuds, n, [l EXCEPT !.statut = s],
                   IF s = "publie" THEN "ADMINISTRATIVE_NODE_PUBLISHED" ELSE Nul)

(* KER-ADM-04: what a move and a deactivation check beforehand.            *)
Deplacable(n) == assertNoPublishedChildren(findChildren(n)) /\ getCompte(n) = 0

LireCompte(n) == retard' = (retard \/ getCompte(n) # Attachees(n))

(* Mutant: a move to the root does not look at the children.               *)
ReattachNoeudRacineSansEnfants(r, n) ==
    /\ getCompte(n) = 0
    /\ \E l \in noeuds[n] :
          Traiter(r, "noeud", noeuds, n, reattachToRoot(n, l), "BRANCH_REATTACHED")
    /\ LireCompte(n)

ReattachNoeudRacine(r, n) ==
    /\ Deplacable(n)
    /\ \E l \in noeuds[n] :
          Traiter(r, "noeud", noeuds, n, reattachToRoot(n, l), "BRANCH_REATTACHED")
    /\ LireCompte(n)

ReattachNoeud(r, n, m) ==
    /\ Deplacable(n)
    /\ \E l \in noeuds[n], p \in noeuds[m] :
          /\ ~wouldCreateCycle(l.chemin, p.chemin)
          /\ p.pays = l.pays
          /\ Traiter(r, "noeud", noeuds, n, reattachToParent(n, l, m, p), "BRANCH_REATTACHED")
    /\ LireCompte(n)

(* Mutant: the villes are not looked at.                                   *)
DeactivateNoeudSansCompte(r, n) ==
    /\ assertNoPublishedChildren(findChildren(n))
    /\ \E l \in noeuds[n] :
          Traiter(r, "noeud", noeuds, n, [l EXCEPT !.actif = FALSE], "ADMINISTRATIVE_NODE_DEACTIVATED")
    /\ LireCompte(n)

DeactivateNoeud(r, n) ==
    /\ Deplacable(n)
    /\ \E l \in noeuds[n] :
          Traiter(r, "noeud", noeuds, n, [l EXCEPT !.actif = FALSE], "ADMINISTRATIVE_NODE_DEACTIVATED")
    /\ LireCompte(n)

ReactivateNoeud(r, n) ==
    \E l \in noeuds[n] : Traiter(r, "noeud", noeuds, n, [l EXCEPT !.actif = TRUE], Nul)

-----------------------------------------------------------------------------
(* The use-cases of the rules.  A rule belongs to a node marked terminal.  *)
CreateReferentielRegle(r, x, n, c) ==
    /\ Neuf("regle", regles, x)
    /\ \E l \in noeuds[n] : l.terminal
    /\ Traiter(r, "regle", regles, x,
               [noeud |-> n, confiance |-> c, actif |-> TRUE, statut |-> "brouillon"],
               "REFERENTIEL_REGLE_CREATED")

(* updateDetails leaves the row as read, updateGouvernance sets c.         *)
UpdateReferentielRegle(r, x, c) ==
    \E l \in regles[x] : Traiter(r, "regle", regles, x, [l EXCEPT !.confiance = c], Nul)

TransitionRegle(r, x, s) ==
    \E l \in regles[x] :
        /\ assertEngineTransitionAllowed(l.statut, s)
        /\ Traiter(r, "regle", regles, x, [l EXCEPT !.statut = s],
                   IF s = "publie" THEN "REFERENTIEL_REGLE_PUBLISHED" ELSE Nul)

SetRegleActivation(r, x, a) ==
    \E l \in regles[x] : Traiter(r, "regle", regles, x, [l EXCEPT !.actif = a], Nul)

-----------------------------------------------------------------------------
(* The use-cases of referential that attach villes, through the port       *)
(* ReferentialEngineLookup.                                                *)
NoeudAdmis(n) == n # Nul => existsAndPublished(n)

CreateVille(r, v, n) ==
    /\ Neuf("ville", villes, v)
    /\ NoeudAdmis(n)
    /\ Traiter(r, "ville", villes, v, [noeud |-> n, actif |-> TRUE], "VILLE_CREATED")

MoveVille(r, v, n) ==
    /\ NoeudAdmis(n)
    /\ \E l \in villes[v] : Traiter(r, "ville", villes, v, [l EXCEPT !.noeud = n], "VILLE_MOVED")

SetVilleActivation(r, v, a) ==
    \E l \in villes[v] : Traiter(r, "ville", villes, v, [l EXCEPT !.actif = a], Nul)

(* The consumer of the events of the villes counts one in or out, early,   *)
(* late, twice or not at all: VilleCounter is the consumer.                *)
Compte == INSTANCE CompteurVilles

Compter(n) ==
    /\ \/ compteur[n] < MaxCompte /\ Compte!incrementer(n)
       \/ Compte!decrementer(n)
    /\ emission' = {}
    /\ UNCHANGED <<requete, recouvrement, tablesEngine, retard, deplace>>

-----------------------------------------------------------------------------
(* The commits, one per table.                                             *)
commitNiveau(r) ==
    /\ Valider(r, "niveau", niveaux)
    /\ niveaux' = ApresTout(r, niveaux)
    /\ UNCHANGED <<noeuds, regles, villes, compteur, retard, deplace>>

Deplacement(r) ==
    deplace' = IF \A q \in requete[r] : q.type # "BRANCH_REATTACHED" THEN deplace
               ELSE IF \E q \in requete[r] : findChildren(q.id) # {} THEN "branches"
               ELSE IF deplace = "rien" THEN "feuilles" ELSE deplace

CheminAdmis(r) == \A q \in requete[r] : Len(q.ligne.chemin) <= MaxChemin

(* Mutant: save writes the columns of the parent, not the path.            *)
commitNoeudSansChemin(r) ==
    /\ Valider(r, "noeud", noeuds)
    /\ CheminAdmis(r)
    /\ noeuds' = [n \in Noeuds |-> UNION {Apres([q EXCEPT !.colonnes = @ \ {"chemin"}], noeuds)[n] :
                                            q \in requete[r]}]
    /\ Deplacement(r)
    /\ UNCHANGED <<niveaux, regles, villes, compteur, retard>>

commitNoeud(r) ==
    /\ Valider(r, "noeud", noeuds)
    /\ CheminAdmis(r)
    /\ noeuds' = ApresTout(r, noeuds)
    /\ Deplacement(r)
    /\ UNCHANGED <<niveaux, regles, villes, compteur, retard>>

commitRegle(r) ==
    /\ Valider(r, "regle", regles)
    /\ regles' = ApresTout(r, regles)
    /\ UNCHANGED <<niveaux, noeuds, villes, compteur, retard, deplace>>

commitVille(r) ==
    /\ Valider(r, "ville", villes)
    /\ villes' = ApresTout(r, villes)
    /\ UNCHANGED <<niveaux, noeuds, regles, compteur, retard, deplace>>

saveEngine(r) ==
    /\ \/ save(r, "niveau", niveaux)
       \/ save(r, "noeud", noeuds)
       \/ save(r, "regle", regles)
       \/ save(r, "ville", villes)
    /\ UNCHANGED engineVars

-----------------------------------------------------------------------------
Ascendants == [n \in Noeuds |-> {l.parent : l \in noeuds[n]} \ {Nul}]

(* The path, the rank and the country of a node follow those of its        *)
(* parent, and until one is moved its rank has a name in its country, as   *)
(* long as no request overlapped and only leaves have been moved: the move *)
(* of a branch rewrites the path of its root, not those below it, and no   *)
(* move asks for the level of the new rank.                                *)
CheminFidele ==
    ~recouvrement /\ deplace # "branches" =>
        \A n \in Noeuds : \A l \in noeuds[n] :
            /\ \/ l.parent = Nul /\ l.chemin = <<n>> /\ l.rang = 1
               \/ \E p \in UNION {noeuds[m] : m \in Ascendants[n]} :
                     l.chemin = Append(p.chemin, n) /\ l.rang = p.rang + 1 /\ l.pays = p.pays
            /\ deplace = "rien" => assertNiveauDefini(l.pays, l.rang)

(* KER-ADM-04: a ville is attached to an active, published node, unless    *)
(* requests overlapped or a guard has trusted a counter out of date.       *)
VilleSurNoeudActif ==
    ~recouvrement /\ ~retard =>
        \A v \in Villes : \A l \in villes[v] : NoeudAdmis(l.noeud)

(* KER-ADM-04: a node with a published and active child is neither moved   *)
(* nor deactivated, unless a request has overlapped another.               *)
BrancheProtegee ==
    [][\A n, m \in Noeuds : \A l \in noeuds[n], a \in noeuds'[n], enfant \in noeuds[m] :
          a.parent # l.parent \/ (l.actif /\ ~a.actif) =>
              recouvrement' \/ enfant.parent # n \/ enfant.statut # "publie" \/ ~enfant.actif]_noeuds

(* The check by paths keeps a node from being moved below itself as long   *)
(* as no earlier move of a branch has left paths out of date.              *)
CycleParCheminPerime ==
    [][noeuds' # noeuds /\ deplace # "branches" /\ SansBoucle(Ascendants)
          => recouvrement' \/ SansBoucle(Ascendants)']_noeuds
=============================================================================
