SPECIFICATION FairSpec
CONSTANTS
    Visitors = {v1}
    Codes = {a, b}
    Dates = {d1}
    MaxLinks = 2
    MaxVisits = 2
    MaxTrouble = 1
PROPERTY EventuallyFlushed
CHECK_DEADLOCK FALSE
