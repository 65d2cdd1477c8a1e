SPECIFICATION Spec
CONSTANTS
    a = a
    b = b
    Codes = {a, b}
    Searches = {"all", "expired"}
    AllLinks = "all"
    Matching <- Found
    Expired = {b}
    PageSize = 1
    MaxGestures = 5
    MaxTroubles = 1
    Texts <- Typed
    Comment = Comment
    Malformed = Malformed
    Limit = 1
    Buffer = 1
    MaxLines = 3
    Writers = 2
    Slots = {1, 2}
    MaxOutages = 2
    MaxVisits = 3
    Browsers = {b1, b2}
    MaxAttempts = 1
    Lasting = FALSE
    MaxMoves = 4
INVARIANTS
    TypeOK
    PageCatchesUp
    SelectionWasSeen
    FailuresAreReal
    BadgeTellsStream
    NoLineMissing
    UnprovenIsProbed
    SessionsProvePassword
    LockoutHolds
    SetupIsOver
PROPERTIES
    StreamComesBack
    CardCatchesUp
CHECK_DEADLOCK FALSE
