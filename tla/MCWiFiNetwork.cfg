SPECIFICATION Spec
CONSTANTS
    Memory <- MCMemory
    Scans <- MCScans
    InRange = {1, 2}
    CLOCK = 5
    BYTE = 5
    CONNECTION_TIMEOUT = 2
    FALLBACK_PERIOD = 2
    MaxEvents = 1
INVARIANTS
    StatusSettles
    PicksStrongest
    AttemptLeftAlone
    SilentOnlyAcrossWrap
