SPECIFICATION FairSpec
CONSTANTS
    Transports = {"stdio"}
    Attempts = 1
    MaxPages = 1
    PipeSize = 1
    MaxNotes = 0
PROPERTY CloseReturns
