CONSTANTS
    Parts = {"terminals", "mcp", "voice", "certificates", "connections", "providers", "coordinator"}
    Nil = Nil
    Terminals = {"t1", "t2"}
    Extensions = {}
    Commands = {"k1", "k2"}
    EventField = "params"
    MayPing = FALSE
    MaxWire = 1
SPECIFICATION AllFairSpec
INVARIANTS
    OneResultEach
PROPERTIES
    WaitsEnd
    CertificateComes
    RunsSettle
CHECK_DEADLOCK FALSE
