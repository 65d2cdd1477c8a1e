SPECIFICATION Spec
CONSTANTS
    Clients = {p1, p2}
    Codes = {a}
    Patches <- OneField
    MaxLinks = 1
    MaxBackups = 3
    MaxWrites = 3
    MaxExternals = 0
PROPERTY EditsKeepOtherFields
CHECK_DEADLOCK FALSE
