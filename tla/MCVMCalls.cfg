SPECIFICATION CallSpec
CONSTANTS
    WordBits = 16
    WordMod = 65536
    STACK_SIZE = 8
    HEAP_SIZE = 11
    W = 3
    H = 2
    Programs <- CallPrograms
    Starts = {1}
    Garbage = {0, 3}
    RandomWords = {0, 9}
    CursorPoints <- MCCursor
    ULONG_MAX = 3
    MAX_TIME_SLICE = 1
    Durations = {0, 1}
INVARIANTS
    TypeOK
    NoOverread
    StackBounds
    SettingsMirrored
    FramesKept
PROPERTIES
    CursorMirrored
    ModeConsumes
    MainReturnEnds
    CallsNest
