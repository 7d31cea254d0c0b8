\* 5 lines of 2 pages, 3 logical pages: lines get full, and victims differ.
SPECIFICATION QSpec
CONSTANTS
    Lines = {a, b, c, d, e}
    PgsPerLine = 2
    LPN = {l1, l2, l3}
    GcThres = 2
    GcOrder <- MCGcOrder
    BlkOf <- MCBlkOf
    CreditMax = 255
    UNMAPPED = UNMAPPED
    INVALID_LPN = INVALID_LPN
    NULL = NULL
    NIL = NULL
SYMMETRY Symmetry
INVARIANTS
    TypeOK
    MappingSound
    NoOrphanPage
    LineCounts
    LinePlaces
    LinePages
    AssertionsHold
    NeverOutOfLines
    SpaceReserve
    CreditsInRange
    HeapSound
PROPERTIES
    GcInvisible
    OutOfPlace
    ImplementsConvFtl
