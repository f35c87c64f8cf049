SPECIFICATION InstanceSpec
CONSTANTS
    StoreKeepsIds = FALSE
    StoreKeepsMetadata = FALSE
    MayDegrade = TRUE
    MidRun = TRUE
    Overlays = 2
    KeepRound = 3
    KeepRetry = 3
    KeepTool = 2
    FallbackTurns = 1
    MaxRetries = 1
    MaxCalls = 2
    MaxRows = 6
INVARIANTS
    WellTyped
    PromptPaired
    PromptAnswerable
    CompactionKeeps
