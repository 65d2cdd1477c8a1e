SPECIFICATION Spec
CONSTANTS
    Clients = {p1, p2}
    Codes = {a}
    Patches <- OneField
    MaxLinks = 1
    MaxBackups = 2
    MaxWrites = 2
    MaxExternals = 0
INVARIANT WritesInvalidateImmediately
CHECK_DEADLOCK FALSE
