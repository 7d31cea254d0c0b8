\* 4 lines of 2 pages, 2 logical pages, two points in time.
SPECIFICATION SSpec
CONSTANTS
    Lines <- MCLines
    PgsPerLine = 2
    LPN = {l1, l2}
    GcThres = 2
    GcOrder <- MCGcOrder
    BlkOf <- MCBlkOf
    CreditMax = 255
    UNMAPPED = UNMAPPED
    INVALID_LPN = INVALID_LPN
    NULL = NULL
    NIL = NULL
    MaxU64 = 63
    AgeSteps <- MCAgeSteps
    MaxTime = 1
    NrLines = 4
CHECK_DEADLOCK FALSE
SYMMETRY Symmetry
INVARIANTS
    StampsFresh
PROPERTIES
    ScanTakesBest
