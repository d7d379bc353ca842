SPECIFICATION FairSpec
CONSTANTS
    Keys = {k1}
    EngineForgets = FALSE
    MaxCalls = 6
INVARIANT TypeOK
INVARIANT OneTask
PROPERTY HandedStays
PROPERTY HandoffEnds
PROPERTY OwnerSpec
CHECK_DEADLOCK FALSE
