SPECIFICATION FairSpec
CONSTANTS
    ConfigFields = {"node"}
    Secrets = {"key"}
    FileFields = {}
    Values = {"x"}
    Requests = {"r1"}
    Acme = "acme"
    Backend = "db"
    MayFail = FALSE
PROPERTY UpdatesAtomic
