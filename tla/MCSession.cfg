SPECIFICATION Spec
CONSTANTS
    r1 = r1  r2 = r2
    t1 = t1  t2 = t2  t3 = t3
    f1 = f1  f2 = f2
    c1 = c1  c2 = c2
    Requetes = {r1, r2}
    Jetons = {t1, t2, t3}
    Facteurs = {f1, f2}
    Codes = {c1, c2}
    MaxRelectures = 1
SYMMETRY SessionSymmetry
INVARIANTS TypeOK RotationSansFourche CodesUsageUnique 
