SPECIFICATION LinksPageSpec
CONSTANTS
    a = a
    b = b
    Codes = {a, b}
    Searches = {"all", "expired"}
    AllLinks = "all"
    Matching <- Found
    Expired = {b}
    PageSize = 1
    MaxGestures = 5
    MaxTroubles = 0
    Texts <- Typed
    Comment = Comment
    Malformed = Malformed
INVARIANT RetrySendsWhatFailed
CHECK_DEADLOCK FALSE
