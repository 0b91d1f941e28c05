SPECIFICATION FairSpec
CONSTANTS
    WordBits = 16
    WordMod = 65536
    STACK_SIZE = 8
    HEAP_SIZE = 11
    W = 3
    H = 2
    Programs <- LivePrograms
    Starts = {1}
    Garbage = {0, 3}
    RandomWords = {0, 9}
    CursorPoints <- MCCursor
    ULONG_MAX = 5
    MAX_TIME_SLICE = 2
    Durations = {0, 1, 2}
PROPERTIES
    TickReturns
    TickModeEnds
    MainReturnHalts
