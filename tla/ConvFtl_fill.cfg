\* The default geometry with 10 pages per line.
SPECIFICATION FillSpec
CONSTANTS
    Lines <- FillLines
    PgsPerLine = 10
    LPN <- FillLPN
    GcThres = 2
    GcOrder <- FillGcOrder
    BlkOf <- FillBlkOf
    CreditMax = 255
    UNMAPPED = UNMAPPED
    INVALID_LPN = INVALID_LPN
    NULL = NULL
    NIL = NULL
    HotSet = 8
INVARIANT
    CurlineAlwaysNext
