SPECIFICATION FairAppSpec
CONSTANTS
    SectorSize = 2
    BankSectors = 2
    RecvMax = 2
    Settings <- FollowedSettings
    Factory <- FactorySettings
    Loads <- UpdateLoads
    MaxImages = 2
    MaxConns = 1
    MaxCrashes = 1
INVARIANT CopyDueIsWhole
PROPERTY UpdateEnds
CHECK_DEADLOCK FALSE
