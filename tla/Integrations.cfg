CONSTANTS
    Parts = {"workflow", "browsers", "tabs", "mcp", "chats", "voice", "updater",
             "certificates", "connections", "providers"}
    Kinds = {"shell", "http", "workflow"}
    Step <- Steps
    Main <- MainSteps
    Finally <- FinallySteps
    Aliases = {"item"}
    MaxItems = 2
    Admin = TRUE
    Releases <- PublishedVersions
    Local <- BuiltVersion
    Admins = {"r"}
    UpdateRuns = {"run"}
    MayCrash = TRUE
    Domains = {"d", "e"}
    MaxKeys = 5
    MaxChanges = 2
SPECIFICATION AllSpec
INVARIANTS
    WellTyped
    NothingStranded
    AnsweredOnce
    NothingSkipped
    ScopesKept
    NoUnapprovedCommand
    DiskIntact
CHECK_DEADLOCK FALSE
