SPECIFICATION Spec
CONSTANTS
    Visitors = {v1, v2}
    Codes = {a, b}
    Dates = {d1}
    MaxLinks = 2
    MaxVisits = 2
    MaxTrouble = 2
SYMMETRY Symmetry
INVARIANTS
    TypeOK
    Conservation
    NothingLostByDbFailure
    CreditMatchesSettled
    TotalsMatchDailies
PROPERTY LedgerSpec
CHECK_DEADLOCK FALSE
