\* The same queue, up to the reuse of an entry the worker is looking at.
SPECIFICATION Spec
CONSTANTS
    NrEntries = 3
    NrCmds = 4
    MaxTime = 1
CHECK_DEADLOCK FALSE
INVARIANT
    SeesAtOnce
