CONSTANTS
    Events = {e1, e2, e3}
    Relays = {r1, r2}
    Poison = {e2, e3}
    Dates = {1, 2}
    BatchSize = 2
    MaxRetries = 2
    MaxTentatives = 2
    MaxFaults = 1
SPECIFICATION FairSpec
INVARIANTS
    TypeOK
    PublieDansFlux
    CopiesBornees
PROPERTIES
    PublieFinal
    AucuneLigneBloquee
