SPECIFICATION Spec
CONSTANTS
    Visitors = {v1}
    Codes = {a}
    Dates = {d1}
    MaxLinks = 2
    MaxVisits = 1
    MaxTrouble = 0
INVARIANT ReusedCodeStartsFromZero
CHECK_DEADLOCK FALSE
