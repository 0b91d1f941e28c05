SPECIFICATION Spec
CONSTANTS
    c1 = c1
    c2 = c2
    short = short
    long = long
    Clients = {c1, c2}
    Names = {short, long}
    Column <- MCColumn
    Stored = 1
    Asked = {0, 1, 2}
    Lists <- MCLists
    MaxWrites = 3
SYMMETRY Symmetry
INVARIANTS
    AckedKept
    NoOrphans
PROPERTIES
    Implements
