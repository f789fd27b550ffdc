CONSTANTS
    Villes = {v1}
    Noeuds = {n1}
    Nul = Nul
    Deplacements = {d1}
    x1 = x1
    x2 = x2
    Instances = {x1}
    Cycles <- UneReclamation
    BatchSize = 1
    MaxFlux = 1
    MaxPerturbations = 1
SPECIFICATION Spec
CHECK_DEADLOCK FALSE
INVARIANT CompteurConverge
