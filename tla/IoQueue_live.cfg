\* 3 entries, one of which always stays free, and commands to reuse them.
SPECIFICATION FairSpec
CONSTANTS
    NrEntries = 3
    NrCmds = 4
    MaxTime = 1
CHECK_DEADLOCK FALSE
INVARIANTS
    EntriesKept
    SortedUnlessDue
    CompletedOnce
PROPERTIES
    AcceptedCompletes
