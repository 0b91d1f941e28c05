SPECIFICATION FairSpec
CONSTANTS
    Memory <- MCMemory
    Scans <- FarScans
    InRange = {2}
    CLOCK = 3
    BYTE = 4
    CONNECTION_TIMEOUT = 2
    FALLBACK_PERIOD = 1
    MaxEvents = 1
PROPERTY Reconnects
