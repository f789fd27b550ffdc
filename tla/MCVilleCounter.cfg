CONSTANTS
    Villes = {v1}
    Noeuds = {n1}
    Nul = Nul
    Deplacements = {d1}
    x1 = x1
    x2 = x2
    Instances = {x1, x2}
    Cycles <- UneReclamation
    BatchSize = 2
    MaxFlux = 4
    MaxPerturbations = 1
SYMMETRY VilleSymmetry
SPECIFICATION Spec
CHECK_DEADLOCK FALSE
INVARIANTS
    TypeOK
    CompteExactOuCourt
