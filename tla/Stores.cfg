CONSTANTS
    Kinds = {"accounts", "sessions", "tokens", "conversations", "history", "settings", "memory",
             "summaries", "workspace", "todos", "mcp", "skills", "agents",
             "spawns", "jobs"}
    ConfigFields = {"node", "updating"}
    Secrets = {"key"}
    FileFields = {"node", "key", "toolPolicies", "certificate"}
    Values = {"x"}
    Requests = {"r1"}
    Acme = "acme"
    Backend = "fs"
    MayFail = TRUE
    MemoryIds = {"i1"}
    MemoryContents = {"k1", "k2"}
    EmbeddingModels = {"m1"}
    MemoryCallers = {"p1", "p2"}
    TurnTTL = 1
    MaxResults = 1
    MaxHistory = 3
    ConversationAgents = {"a1"}
    FirstAgent = "a1"
    ConversationIds = {"i1", "i2"}
    FirstId = "i1"
    ConversationCallers = {"p1"}
    PageSize = 2
    MaxMessages = 4
    SummarizedConversations = {"c1"}
    SummarizedUsers = {"u1"}
    SummarizedAgents = {}
    SummarizedProjects = {"p1"}
SPECIFICATION AllSpec
INVARIANTS
    WellTyped
    RecordsConsistent
    AnsweredIsStored
    HistoryComplete
    ForgottenAfterTurns
    NoIdleSynthesis
PROPERTIES
    NothingUndone
    UpdatesAtomic
CHECK_DEADLOCK FALSE
