\* Two zones and two submission queues.
SPECIFICATION Spec
CONSTANTS
    NZones = 2
    Configs <- MCConfigs
    SQs = {1, 2}
    U32 = 256
    U64 = 512
    NoCmd = NoCmd
    NULL = NULL
CHECK_DEADLOCK FALSE
INVARIANTS
    TypeOK
    ZonesSound
    BufferLedger
    AppendInItsZone
PROPERTY
    AnsweredOrStarved
