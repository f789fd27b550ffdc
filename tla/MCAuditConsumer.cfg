CONSTANTS
    Events = {e1, e2, e3}
    Illisibles = {e2}
    SansId = {e3}
    Instances = {n1}
    Cycles = {c1, c2}
    Operateurs = {o1}
    BatchSize = 2
    MaxDeliveries = 1
    MaxStream = 2
    MaxFautes = 1
SYMMETRY CycleSymmetry
SPECIFICATION Spec
CHECK_DEADLOCK FALSE
INVARIANTS
    TypeOK
    AuditUnique
    PertesComptees
    ArchiveApresEssais
    ReprisesBornees
    RejoueAudite
