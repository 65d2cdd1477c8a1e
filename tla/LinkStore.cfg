SPECIFICATION Spec
CONSTANTS
    Clients = {p1, p2}
    Codes = {a, b}
    Patches <- RenameOrRedo
    MaxLinks = 2
    MaxBackups = 3
    MaxWrites = 3
    MaxExternals = 0
SYMMETRY Symmetry
INVARIANTS
    TypeOK
    OnlyCommittedLinks
    InvalidationWorks
    OneLiveLinkPerCode
PROPERTIES
    DeletedRowsAreFrozen
    BackupsAreAppendOnly
CHECK_DEADLOCK FALSE
