SPECIFICATION FairSpec
CONSTANTS
    NrQueues = 2
    SqSize = 3
    CqSize = 3
    Plans <- MCPlans
    NrWorkers = 2
    NrIos = 4
    NrDrops = 1
INVARIANT ReadyMeansUsable
INVARIANT RingsAgree
INVARIANT TakenOnce
PROPERTY EveryCommandAnswered
CHECK_DEADLOCK FALSE
