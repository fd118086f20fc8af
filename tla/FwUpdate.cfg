SPECIFICATION FairSpec
CONSTANTS
    SectorSize = 2
    BankSectors = 3
    RecvMax = 2
    Sizes <- AllSizes
    MaxImages = 3
    MaxConns = 3
    MaxCrashes = 3
    Loads <- UpdateLoads
INVARIANTS WholeImage FlaggedBankWhole UpdateInBank1
PROPERTIES CopyCompletes InstallsAtomically
CHECK_DEADLOCK FALSE
