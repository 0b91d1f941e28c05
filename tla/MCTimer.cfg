SPECIFICATION Spec
CONSTANTS
    ULONG_MAX = 15
    Waits <- MCWaits
    MaxGap = 3
    MaxLaps = 3
INVARIANTS
    NeverEarly
    NeverAhead
    MissOnlyAcrossWrap
\* the history variable laps is bounded by MaxLaps
CHECK_DEADLOCK FALSE
