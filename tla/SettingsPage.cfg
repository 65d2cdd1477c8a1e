SPECIFICATION Spec
CONSTANTS
    Typed = {"title"}
    Switches = {"hard_delete"}
    Settings = {"title", "hard_delete"}
    Named = {"title"}
    Requests = {r1, r2}
    MaxVersion = 2
    MaxCalls = 2
    MaxTroubles = 1
INVARIANTS
    TypeOK
    MemoryMatchesFile
    
PROPERTIES
    SecretsNeverGoBack
    AnswersKeepEdits
    PendingSaveIsSent
CHECK_DEADLOCK FALSE
