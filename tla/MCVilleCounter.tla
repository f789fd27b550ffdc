---------------------------- MODULE MCVilleCounter ----------------------------
(* The instances of VilleCounter that TLC checks.                          *)
EXTENDS VilleCounter, TLC

CONSTANTS x1, x2

(* Both instances read; only the first has a claim cycle in flight.        *)
UneReclamation == {<<x1, "reclamation">>}

VilleSymmetry ==
    Permutations(Villes) \union Permutations(Noeuds) \union Permutations(Deplacements)
=============================================================================
