SPECIFICATION Spec
CONSTANTS
    ULONG_MAX = 15
    Waits <- MCWaits
    MaxGap = 3
    MaxLaps = 3
INVARIANT AccountsForRollover
CHECK_DEADLOCK FALSE
