SPECIFICATION FairSpec
CONSTANTS
    Clients = {p1, p2}
    Codes = {a}
    Patches <- RenameOrRedo
    MaxLinks = 1
    MaxBackups = 2
    MaxWrites = 2
    MaxExternals = 1
PROPERTIES
    EventuallyFresh
    RegisterSpec
CHECK_DEADLOCK FALSE
