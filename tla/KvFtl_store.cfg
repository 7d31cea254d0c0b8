CONSTANTS
    Keys <- MCKeys
    Hash <- MCHash
    Wants <- MCWants
    Bounds <- MCBounds
    NSlots = 3
    SmallLength = 2
    LargeLength = 3
    DevSize = 16
    NHandles = 1
    IterBuf = 1
    Absent = Absent
    NULL = NULL
    Wild = Wild
SPECIFICATION Spec
INVARIANTS TypeOK ChainsEnd IterComplete
PROPERTY ImplementsKvStore
