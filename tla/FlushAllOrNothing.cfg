SPECIFICATION Spec
CONSTANTS
    Visitors = {v1}
    Codes = {a}
    Dates = {d1}
    MaxLinks = 1
    MaxVisits = 2
    MaxTrouble = 1
INVARIANT FlushAllOrNothing
CHECK_DEADLOCK FALSE
