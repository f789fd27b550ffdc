CONSTANTS
    Events = {e1, e2}
    Instances = {n1}
    Poison = {}
    Dates = {1}
    RelayBatchSize = 2
    MaxRetries = 1
    MaxTentatives = 1
    MaxFaults = 1
    Illisibles = {e2}
    SansId = {}
    Cycles = {c1}
    Operateurs = {o1}
    BatchSize = 2
    MaxDeliveries = 1
    MaxStream = 3
    MaxFautes = 0
SPECIFICATION FairSpec
CHECK_DEADLOCK FALSE
PROPERTIES
    ImplementsLedger
    BoutEnBout
