CONSTANTS
    Events = {e1}
    Illisibles = {e1}
    SansId = {}
    Instances = {n1}
    Cycles = {c1}
    Operateurs = {}
    BatchSize = 1
    MaxDeliveries = 1
    MaxStream = 1
    MaxFautes = 1
SPECIFICATION Spec
CHECK_DEADLOCK FALSE
INVARIANT JamaisPerdu
