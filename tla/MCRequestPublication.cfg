CONSTANTS
    Requetes = {r1}
    Auditees = {r1}
    PoolSize = 1
    MaxFautes = 1
SPECIFICATION Spec
CHECK_DEADLOCK FALSE
INVARIANT SeulEvenementPerdu
