\* Six elements: a heap of three levels, in which a removal can move the last
\* element up as well as down.  MaxU64 is above the boundaries, Pgs * (Pgs + 1)
\* far below it, and Pgs * MaxU64 fits TLC's integers.  Up to 64 pages in a
\* line.  A ring of 3 intervals of 2 time units and 2 credits: transfers start
\* in the past, now and beyond the ring, and pauses outlast it.
SPECIFICATION Spec
CONSTANTS
    Elems = {1, 2, 3, 4, 5, 6}
    Priorities = {0, 1}
    NIL = NIL
    MaxU64 = 100000000
    Pgs = 6
    AgesOf <- MCAges
    Devices <- MCDevices
    NrCredits = 3
    Interval = 2
    MaxCredits = 2
    XferLat = 1
    Luns = {u, v}
    Latency <- MCLatency
    MaxXfer = 2
    Clocks = 10
    Starts <- MCStarts
    Units = {1, 3}
    MaxBooked = 2
    Pauses = {3, 7}
SYMMETRY Symmetry
CHECK_DEADLOCK FALSE
INVARIANTS
    ValidHeap
    ScoreExact
    FillsLine
    CleansBeforeErase
    RingIsLedger
    LunExclusive
