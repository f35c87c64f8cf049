CONSTANTS
    Parts = {"messages", "faults"}
    Runs = {a, b, c}
    Compacts = {k}
    Aborters = {x}
    None = None
    MayPanic = TRUE
    StoreMayFail = FALSE
    MaySchedule = FALSE
SYMMETRY Symmetry
SPECIFICATION PartSpec
INVARIANTS
    TypeOK
    SinglePlace
    LatestRunVisible
    RestIsClean
    ProcessorMatchesFlag
    OneResult
    RejectedNeverRuns
PROPERTY
    PendingNeverDropped
