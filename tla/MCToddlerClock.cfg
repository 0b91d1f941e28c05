SPECIFICATION FairSpec
CONSTANTS
    u1 = u1
    u2 = u2
    Users = {u1, u2}
    Fields <- MCFields
    Values <- MCValues
    Default <- MCDefault
    Bodies <- MCBodies
    Length <- MCLength
    Absent = Absent
    Garbage = Garbage
    Hours = 3
    Minutes = 4
    MaxRequests = 2
INVARIANTS
    PhaseRight
    StoresAddUp
PROPERTIES
    Bricked
    AlarmArrives
    TimeArrives
    PingLosesTime
