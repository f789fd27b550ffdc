---------------------------- MODULE CompteurVilles ----------------------------
(***************************************************************************)
(* The table compteur_villes_rattachees as those who read it know it: one  *)
(* statement counts one ville in or out of one node, never below zero.     *)
(* VilleCounter, which says when, implements it; NoeudsHierarchiques reads *)
(* it whatever has been counted.                                           *)
(***************************************************************************)
EXTENDS Naturals

CONSTANT Noeuds

VARIABLE compteur   \* node |-> nombre_villes, 0 without a row

Init == compteur = [n \in Noeuds |-> 0]

incrementer(n) == compteur' = [compteur EXCEPT ![n] = @ + 1]

(* GREATEST(..., 0): without effect at zero.                               *)
decrementer(n) == compteur[n] > 0 /\ compteur' = [compteur EXCEPT ![n] = @ - 1]

Next == \E n \in Noeuds : incrementer(n) \/ decrementer(n)

Spec == Init /\ [][Next]_compteur
=============================================================================
