SPECIFICATION Spec
CONSTANTS
    StoreKeepsIds = FALSE
    StoreKeepsMetadata = FALSE
    MayDegrade = FALSE
    MidRun = FALSE
    Overlays = 1
    KeepRound = 2
    KeepRetry = 2
    KeepTool = 2
    FallbackTurns = 1
    MaxRetries = 0
    MaxCalls = 1
    MaxRows = 8
INVARIANT AnswersSurvive
