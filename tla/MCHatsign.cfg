SPECIFICATION FairSpec
CONSTANTS
    ProgramIds = {p1, p2}
    b1 = b1
    b2 = b2
    b3 = b3
    Blocks = {b1, b2, b3}
    None = None
    MaxList = 2
    MaxItems = 3
    MaxLeaks = 1
INVARIANTS
    TypeOK
    ListsSound
    VmOwned
    CountsSound
    RunsListedProgram
    DeafAfterReset
PROPERTIES
    HaltRecovers
    EveryProgramShown
