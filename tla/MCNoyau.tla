-------------------------------- MODULE MCNoyau --------------------------------
(* The instances of Noyau that TLC checks.                                 *)
EXTENDS Noyau, TLC

MCLocales == {<<l1, Nul>>, <<l1, p1>>}
MCIdentites == {<<a1, 1>>, <<a1, 2>>}

(* Levels that set nothing, the country, or a value below another one.     *)
Niveau(p, d, l) == [pays |-> p, devise |-> d, langue |-> l]
Vide == Niveau(Nul, Nul, Nul)
MCAppelants ==
    {<<Vide, Niveau(Nul, d2, Nul), Niveau(p1, d1, l1)>>, <<Niveau(p1, Nul, Nul), Vide, Vide>>}

NoyauSymmetry == Permutations(Requetes)
=============================================================================
