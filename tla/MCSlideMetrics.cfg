SPECIFICATION Spec
CONSTANTS
    Tables = {t1, t2}
    Nodes = {n1}
    Taus = {1, 2}
    Series <- MCSeries
INVARIANTS
    SlideTypeOK
    MtieIsWidestSpread
    DeviationsIgnoreDrift
    CycleComplete
CHECK_DEADLOCK FALSE
