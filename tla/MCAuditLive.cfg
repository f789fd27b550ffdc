CONSTANTS
    Events = {e1, e2}
    Illisibles = {e2}
    SansId = {}
    Instances = {n1}
    Cycles = {c1, c2}
    Operateurs = {}
    BatchSize = 1
    MaxDeliveries = 1
    MaxStream = 2
    MaxFautes = 1
SPECIFICATION FairSpec
CHECK_DEADLOCK FALSE
PROPERTY ToujoursTraitee
