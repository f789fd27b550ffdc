CONSTANTS
    Requetes = {r1, r2, r3}
    Auditees = {r1, r2}
    PoolSize = 2
    MaxFautes = 2
SPECIFICATION FairSpec
CHECK_DEADLOCK FALSE
INVARIANTS
    TypeOK
    Atomicite
    AuditDeMutation
PROPERTIES
    RejetSansTrace
    TouteRequeteFinit
