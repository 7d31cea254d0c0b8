\* Liveness, so without symmetry: 4 lines of 3 pages, 2 logical pages.
SPECIFICATION LiveSpec
CONSTANTS
    Lines = {a, b, c, d}
    PgsPerLine = 3
    LPN = {l1, l2}
    GcThres = 2
    GcOrder <- MCGcOrder
    BlkOf <- MCBlkOf
    CreditMax = 255
    UNMAPPED = UNMAPPED
    INVALID_LPN = INVALID_LPN
    NULL = NULL
PROPERTIES
    GcReturns
