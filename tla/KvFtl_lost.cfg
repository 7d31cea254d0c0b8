CONSTANTS
    Keys <- MCKeys
    Hash <- MCHash
    Wants <- MCWants
    Bounds <- MCFewBounds
    NSlots = 4
    SmallLength = 2
    LargeLength = 3
    DevSize = 8
    NHandles = 1
    IterBuf = 1
    Absent = Absent
    NULL = NULL
    Wild = Wild
SPECIFICATION Spec
INVARIANT EntryIsFound
