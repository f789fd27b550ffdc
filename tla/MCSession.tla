------------------------------- MODULE MCSession -------------------------------
EXTENDS Session, TLC

(* Requests, tokens, factors and codes are interchangeable.                *)
SessionSymmetry ==
    Permutations(Requetes) \union Permutations(Jetons)
        \union Permutations(Facteurs) \union Permutations(Codes)
================================================================================
